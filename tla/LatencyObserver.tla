---------------------------- MODULE LatencyObserver ----------------------------
(***************************************************************************)
(* The measurements that turn informer events into transition times:       *)
(* pod_startup_latency.go ("pod"), job_lifecycle_latency.go ("job") and    *)
(* resourceclaim_allocation_latency.go ("claim").  The informer queues its *)
(* events, a goroutine of each start takes them off the queue, and gather  *)
(* stops and computes while that goroutine may still be at work.  The      *)
(* queue is made once, with the measurement, and shut down by stop.        *)
(***************************************************************************)
EXTENDS Integers, Sequences, FiniteSets

CONSTANTS
    Kinds,          \* the measurements that are explored
    Keys,           \* names of the observed objects
    MaxEvents,      \* bound: events of the informer
    MaxStarts       \* bound: calls of "start" that do something

VARIABLE
    st              \* fields of the measurement, its goroutines, the call, the cluster

Phases == {"create", "watch", "run", "schedule", "start", "complete", "allocate", "podCreate"}
Nobody == [key |-> "none", todo |-> <<>>, id |-> 0]

Init ==
    \E kind \in Kinds :
        st = [kind |-> kind, isRunning |-> FALSE, shutDown |-> FALSE, queue |-> <<>>,
              entries |-> [p \in Phases |-> << >>],  \* phase -> key -> event that set it
              procs |-> <<>>,                        \* one processEvents per start
              call |-> "idle", timedOut |-> FALSE, report |-> [p \in Phases |-> << >>],
              stage |-> [k \in Keys |-> 0],          \* the objects of the cluster
              delivered |-> <<>>,                    \* history: events the queue accepted
              lost |-> 0]                            \* events it did not accept

-----------------------------------------------------------------------------
\* A second start while running is a no-op.  The goroutine runs whether or not
\* the informer syncs in time.
start ==
    /\ st.call = "idle" /\ ~st.isRunning /\ Len(st.procs) < MaxStarts
    /\ st' = [st EXCEPT !.isRunning = TRUE, !.procs = Append(@, Nobody)]

\* addEvent; a queue that is shut down drops what is added.  Objects advance by
\* one or more stages between two events, or are replaced by one of the same name.
Event(k) ==
    /\ st.isRunning /\ Len(st.delivered) + st.lost < MaxEvents
    /\ \E stage \in 0 .. 2 :
           LET e == [key |-> k, stage |-> stage, id |-> Len(st.delivered) + 1]
           IN  /\ stage = 0 \/ stage >= st.stage[k]
               /\ st' = IF st.shutDown
                        THEN [st EXCEPT !.stage[k] = stage, !.lost = @ + 1]
                        ELSE [st EXCEPT !.stage[k] = stage, !.queue = Append(@, e),
                                        !.delivered = Append(@, e)]

Has(phase, key) == key \in DOMAIN st.entries[phase]
Unless(phase, key) == IF Has(phase, key) THEN <<>> ELSE <<phase>>

\* Faulty variant: a pod is measured again in each event.
podEvent_Again(e) ==
    IF e.stage >= 1 THEN <<"watch", "create">> ELSE <<>>

\* What processEvent will set, in this order.  A pod counts once it runs, with or
\* without a started container.
podEvent(e) ==
    IF e.stage = 0 \/ Has("create", e.key) THEN <<>>
    ELSE <<"watch", "create">> \o (IF e.stage = 2 THEN <<"run">> ELSE <<>>)

jobEvent(e) ==
    Unless("create", e.key)
    \o (IF e.stage >= 1 THEN Unless("start", e.key) ELSE <<>>)
    \o (IF e.stage = 2 THEN Unless("complete", e.key) ELSE <<>>)

\* A claim that is allocated when it is first seen is ignored, and the creation
\* time of its pod may not be known.
claimEvent(e) ==
    IF e.stage >= 1 /\ ~Has("create", e.key) THEN <<>>
    ELSE Unless("create", e.key)
         \o (IF e.stage >= 1 THEN Unless("allocate", e.key) ELSE <<>>)
         \o Unless("podCreate", e.key)

processEvent(e) ==
    CASE st.kind = "pod" -> podEvent(e)
      [] st.kind = "job" -> jobEvent(e)
      [] st.kind = "claim" -> claimEvent(e)

\* processNextWorkItem; the items left in a queue that is shut down are still handed out.
Take(w) ==
    /\ st.procs[w].todo = <<>> /\ st.queue # <<>>
    /\ LET e == Head(st.queue)
       IN  st' = [st EXCEPT !.queue = Tail(@),
                            !.procs[w] = [key |-> e.key, id |-> e.id, todo |-> processEvent(e)]]

\* ObjectTransitionTimes.Set; getCachedPodCreateTime and fetchPodCreateTime may fail.
SetPhase(w) ==
    /\ st.procs[w].todo # <<>>
    /\ LET p == st.procs[w]
           phase == Head(p.todo)
           known == [k \in DOMAIN st.entries[phase] \cup {p.key} |->
                        IF k = p.key THEN p.id ELSE st.entries[phase][k]]
       IN  \/ st' = [st EXCEPT !.procs[w].todo = Tail(@), !.entries[phase] = known]
           \/ phase = "podCreate" /\ st' = [st EXCEPT !.procs[w].todo = Tail(@)]

-----------------------------------------------------------------------------
\* The condition of the job measurement's gather.
JobsDone == Cardinality(DOMAIN st.entries["create"]) = Cardinality(DOMAIN st.entries["complete"])

\* stop(): without a running measurement gather returns an error.
stop == [st EXCEPT !.isRunning = FALSE, !.shutDown = TRUE]

gatherPods ==
    /\ st.kind = "pod" /\ st.call = "idle" /\ st.isRunning
    /\ st' = [stop EXCEPT !.call = "gather"]

\* The job measurement first waits for its jobs; a timeout is only logged.
gatherJobs ==
    /\ st.kind = "job" /\ st.call = "idle" /\ st.isRunning
    /\ \/ JobsDone /\ st' = [stop EXCEPT !.call = "gather", !.timedOut = FALSE]
       \/ st' = [stop EXCEPT !.call = "gather", !.timedOut = TRUE]

gatherClaims ==
    /\ st.kind = "claim" /\ st.call = "idle" /\ st.isRunning
    /\ st' = [stop EXCEPT !.call = "gather"]

\* gatherScheduleTimes: times for some of the pods that have a create time.
GatherSchedule ==
    /\ st.call = "gather" /\ st.kind = "pod"
    /\ \/ \E scheduled \in SUBSET DOMAIN st.entries["create"] :
              st' = [st EXCEPT !.call = "compute",
                               !.entries["schedule"] = [k \in scheduled \cup DOMAIN @ |-> 0]]
       \/ st' = [st EXCEPT !.call = "idle"]    \* the events could not be listed

\* CalculateTransitionsLatency, on the entries of this moment.
Compute ==
    /\ st.call = IF st.kind = "pod" THEN "compute" ELSE "gather"
    /\ st' = [st EXCEPT !.call = "idle", !.report = st.entries]

Dispose ==
    /\ st.call = "idle" /\ st.isRunning
    /\ st' = stop

Next ==
    \/ start \/ gatherPods \/ gatherJobs \/ gatherClaims \/ GatherSchedule \/ Compute \/ Dispose
    \/ \E k \in Keys : Event(k)
    \/ \E w \in DOMAIN st.procs : Take(w) \/ SetPhase(w)

-----------------------------------------------------------------------------
Handled == SubSeq(st.delivered, 1, Len(st.delivered) - Len(st.queue))
InHand == {st.procs[w].id : w \in {v \in DOMAIN st.procs : st.procs[v].todo # <<>>}}
Sightings(k, stages) == {i \in DOMAIN Handled : Handled[i].key = k /\ Handled[i].stage \in stages}
First(S) == CHOOSE i \in S : \A j \in S : i <= j

\* A report agrees with the events that were taken off the queue before it: each
\* pod that was seen running counts once, with its first sighting (a pod that is
\* being handled may be missing), and a claim only if it was seen unallocated
\* first.  Events left in the queue by stop are missing.  A second start breaks
\* this: the queue drops all its events, and its goroutine takes part in
\* handling those that are left, so that a later sighting may come first.
ReportMatchesHandledEvents ==
    st'.report # st.report /\ Len(st.procs) = 1 =>
        \A k \in Keys :
            /\ st.kind = "pod" /\ Sightings(k, {1, 2}) # {} =>
                   LET i == First(Sightings(k, {1, 2}))
                   IN  IF k \in DOMAIN st'.report["create"]
                       THEN st'.report["watch"][k] = i /\ st'.report["create"][k] = i
                       ELSE i \in InHand
            /\ st.kind = "claim" /\ k \in DOMAIN st'.report["allocate"] =>
                   LET i == First(Sightings(k, {0}))
                   IN  /\ Sightings(k, {0}) # {}
                       /\ st'.report["allocate"][k] =
                              First({j \in Sightings(k, {1, 2}) : j > i})

\* A gather of the job measurement that did not time out reports no job as
\* unfinished that it had recorded when its wait ended.
JobGatherIsComplete ==
    st.kind = "job" /\ st.call = "idle" /\ st'.call = "gather" /\ ~st'.timedOut =>
        \A k \in Keys : \A i \in Sightings(k, 0 .. 2) \ InHand :
            Sightings(k, {2}) # {}

\* The reports of all three measurements: both of the above.
ReportsAreExact == ReportMatchesHandledEvents /\ JobGatherIsComplete
=============================================================================
