------------------------------ MODULE WaitForJobs ------------------------------
(***************************************************************************)
(* pkg/measurement/common/wait_for_jobs.go: one worker records which jobs  *)
(* have finished; gather lists the jobs once and waits for the recorded    *)
(* ones to be exactly those.                                               *)
(***************************************************************************)
EXTENDS Integers, Sequences, FiniteSets

CONSTANTS
    Jobs,           \* keys of the jobs the selector matches
    MaxEvents       \* bound: changes of jobs

VARIABLE
    st              \* fields of the measurement, its queue, the call, the cluster

Conditions == {"Complete", "Failed"}

Init ==
    st = [isRunning |-> FALSE, stopped |-> FALSE, queue |-> <<>>, finished |-> << >>,
          call |-> "idle", jobKeys |-> {},
          verdict |-> [gathers |-> 0, timedOut |-> {}],
          job |-> [j \in Jobs |-> "absent"], events |-> 0,
          last |-> [j \in Jobs |-> "none"],  \* history: what the last handled event said
          ever |-> {}]                      \* history: jobs that have finished since start

-----------------------------------------------------------------------------
\* The cluster and the informer: each change of a job is an event.
JobEvent(j) ==
    /\ st.events < MaxEvents
    /\ \E s \in {"active", "absent"} \cup Conditions :
           /\ <<st.job[j], s>> \in {<<"absent", "active">>} \cup ({"active"} \X Conditions)
                                   \cup (({"active"} \cup Conditions) \X {"absent"})
           /\ st' = [st EXCEPT !.job[j] = s, !.events = @ + 1,
                               !.ever = IF s \in Conditions THEN @ \cup {j} ELSE @,
                               !.queue = IF st.isRunning THEN Append(@, [key |-> j, job |-> s])
                                                         ELSE @]

\* The informer starts with the jobs that exist; start twice is a no-op.
start ==
    /\ st.call = "idle" /\ ~st.isRunning /\ ~st.stopped
    /\ \E order \in [1 .. Cardinality({j \in Jobs : st.job[j] # "absent"}) -> Jobs] :
           /\ {order[i] : i \in DOMAIN order} = {j \in Jobs : st.job[j] # "absent"}
           /\ st' = [st EXCEPT !.isRunning = TRUE,
                               !.queue = [i \in DOMAIN order |->
                                            [key |-> order[i], job |-> st.job[order[i]]]]]

\* Faulty variant: the record of a job that is not finished is kept.
handleObject_Keeps ==
    /\ st.queue # <<>>
    /\ LET e == Head(st.queue)
       IN  st' = [st EXCEPT !.queue = Tail(@), !.last[e.key] = e.job,
                            !.finished = IF e.job \in Conditions
                                THEN [k \in DOMAIN @ \cup {e.key} |-> IF k = e.key THEN e.job ELSE @[k]]
                                ELSE @]

\* The worker, with finishedJobCondition: a job that is not finished, or is gone,
\* loses its record.
handleObject ==
    /\ st.queue # <<>>
    /\ LET e == Head(st.queue)
       IN  st' = [st EXCEPT !.queue = Tail(@), !.last[e.key] = e.job,
                            !.finished = IF e.job \in Conditions
                                THEN [k \in DOMAIN @ \cup {e.key} |-> IF k = e.key THEN e.job ELSE @[k]]
                                ELSE [k \in DOMAIN @ \ {e.key} |-> @[k]]]

-----------------------------------------------------------------------------
\* gather lists the jobs; a failing list, or a measurement that does not run,
\* is an error.
gather ==
    /\ st.call = "idle" /\ st.isRunning
    /\ st' = [st EXCEPT !.call = "poll", !.jobKeys = {j \in Jobs : st.job[j] # "absent"}]

\* The wait ends when jobKeys and the finished jobs are equal sets, or after its
\* timeout, which is only logged: it may end in any state.
PollEnds ==
    /\ st.call = "poll"
    /\ st' = [st EXCEPT !.call = "count"]

\* The verdict is computed under the lock, after cond has released it.
GatherEnds ==
    /\ st.call = "count"
    /\ st' = [st EXCEPT !.call = "idle",
                        !.verdict = [gathers |-> 1 - @.gathers,
                                     timedOut |-> st.jobKeys \ DOMAIN st.finished]]

\* queue.Stop() lets the worker drain the queue.
Dispose ==
    /\ st.call = "idle" /\ st.isRunning
    /\ st' = [st EXCEPT !.isRunning = FALSE, !.stopped = TRUE]

Next ==
    \/ start \/ handleObject \/ gather \/ PollEnds \/ GatherEnds \/ Dispose
    \/ \E j \in Jobs : JobEvent(j)

-----------------------------------------------------------------------------
\* gather fails exactly for the listed jobs whose last handled event was not a
\* finish, and succeeds only if each of them has finished.  A job that finished
\* and was deleted during the wait counts as timed out; a job that came after the
\* list can prolong the wait to its timeout but does not fail it.
JobsVerdictIsExact ==
    st'.verdict # st.verdict =>
        /\ st'.verdict.timedOut = {j \in st.jobKeys : st.last[j] \notin Conditions}
        /\ st.jobKeys \ st'.verdict.timedOut \subseteq st.ever
=============================================================================
