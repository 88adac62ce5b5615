------------------------------ MODULE PodCommand ------------------------------
(***************************************************************************)
(* pkg/measurement/common/pod_command.go: a worker runs commands in        *)
(* matching pods on every tick, all of them concurrently; "gather" and     *)
(* Dispose stop the worker and wait for it on doneCh.                      *)
(***************************************************************************)
EXTENDS Integers, FiniteSets

CONSTANTS
    Pods,           \* pods selected by the informer
    Commands,       \* commands of the measurement
    Limit,          \* pods per tick; getMaxNPods takes less than 1 as 1
    FailOn,         \* the failOn... parameters: a subset of Failures
    MaxTicks,       \* bound: ticks of one worker
    MaxStarts       \* bound: calls of "start"

VARIABLE
    st              \* fields of the measurement, its worker, the call

Failures == {"exitCode", "execError", "timeout"}
Results == Failures \cup {"ok"}
NoStats == [Ticks |-> 0, TicksNoPods |-> 0, Execs |-> 0,
            exitCode |-> 0, execError |-> 0, timeout |-> 0]
Nil == [Ticks |-> -1]
NoResults == [r \in Results |-> 0]

Init ==
    st = [isRunning |-> FALSE, skipGather |-> FALSE, stopCh |-> "nil", doneCh |-> "nil",
          results |-> NoResults, stats |-> Nil,
          worker |-> "none", tick |-> << >>,    \* the commands of the tick at hand
          call |-> "idle", starts |-> 0,
          report |-> [is |-> "none"],                    \* what the last gather returned
          begun |-> NoResults]                  \* history: how the commands since start ended

-----------------------------------------------------------------------------
\* newPodPeriodCommandMeasurementParams fails: the gather to come is skipped.
StartRefused ==
    /\ st.call = "idle" /\ st.starts < MaxStarts
    /\ st' = [st EXCEPT !.skipGather = TRUE, !.starts = @ + 1]

\* A start while running returns an error and changes nothing.  Everything is
\* reset before the informer has synced; if it does not sync there is no worker.
start ==
    /\ st.call = "idle" /\ st.starts < MaxStarts /\ ~st.isRunning
    /\ \E synced \in BOOLEAN :
           st' = [st EXCEPT !.isRunning = TRUE, !.skipGather = FALSE, !.starts = @ + 1,
                            !.stopCh = "open", !.doneCh = "open", !.results = NoResults,
                            !.stats = NoStats, !.begun = NoResults,
                            !.worker = IF synced THEN "tick" ELSE "none"]

\* The part of stop() before it waits for doneCh.
Stopping(then) ==
    IF st.isRunning THEN [st EXCEPT !.isRunning = FALSE, !.stopCh = "closed", !.call = then]
                    ELSE [st EXCEPT !.call = then]

gather ==
    /\ st.call = "idle"
    /\ st' = IF st.skipGather THEN [st EXCEPT !.report = [is |-> "skipped"]] ELSE Stopping("gather")

Dispose ==
    /\ st.call = "idle"
    /\ st' = Stopping("dispose")

\* Faulty variant: stop does not wait for doneCh.
Stopped_NoWait == st.call \in {"gather", "dispose"}

\* stop() has received from doneCh, or had nothing to stop.
Stopped == st.call \in {"gather", "dispose"} /\ st.doneCh # "open"

\* The summaries: the first failure that failOn names is the error.  Without a
\* start the statistics are a nil pointer.
GatherEnds ==
    /\ Stopped /\ st.call = "gather"
    /\ st' = IF st.stats = Nil THEN [st EXCEPT !.call = "crashed"]
             ELSE [st EXCEPT !.call = "idle",
                             !.report = [is |-> "summary", results |-> st.results, execs |-> st.stats.Execs,
                                         err |-> \E r \in FailOn : st.results[r] > 0]]

DisposeEnds ==
    /\ Stopped /\ st.call = "dispose"
    /\ st' = [st EXCEPT !.call = "disposed"]

-----------------------------------------------------------------------------
getMaxNPods(applicable) ==
    LET n == IF Limit < 1 THEN 1 ELSE Limit
    IN  {targets \in SUBSET applicable :
            \/ targets = applicable /\ Cardinality(targets) <= n
            \/ Cardinality(targets) = n}

\* The beginning of doTick: the pods that are applicable now, at most Limit.
Tick ==
    /\ st.worker = "tick" /\ st.stats.Ticks < MaxTicks
    /\ \E applicable \in SUBSET Pods : \E targets \in getMaxNPods(applicable) :
           st' = [st EXCEPT !.stats.Ticks = @ + 1,
                            !.stats.TicksNoPods = IF targets = {} THEN @ + 1 ELSE @,
                            !.tick = [c \in targets \X Commands |-> "todo"],
                            !.worker = IF targets = {} THEN "select" ELSE "busy"]

\* runCommandInPod up to the select; the executor may not be created.
RunCommand(c) ==
    /\ st.worker = "busy" /\ st.tick[c] = "todo"
    /\ \/ st' = [st EXCEPT !.stats.Execs = @ + 1, !.tick[c] = "running"]
       \/ st' = [st EXCEPT !.stats.Execs = @ + 1, !.stats.execError = @ + 1,
                           !.tick[c] = "execError", !.begun.execError = @ + 1]

\* The select: the stream has ended, or the timeout is over (the command goes on).
CommandEnds(c) ==
    /\ st.worker = "busy" /\ st.tick[c] = "running"
    /\ \/ st' = [st EXCEPT !.tick[c] = "ok", !.begun.ok = @ + 1]
       \/ \E r \in Failures :
              st' = [st EXCEPT !.tick[c] = r, !.stats[r] = @ + 1, !.begun[r] = @ + 1]

\* All goroutines are done: the results of the tick are appended.
TickEnds ==
    /\ st.worker = "busy" /\ \A c \in DOMAIN st.tick : st.tick[c] \in Results
    /\ st' = [st EXCEPT !.worker = "select", !.tick = << >>,
                        !.results = [r \in Results |->
                            @[r] + Cardinality({c \in DOMAIN st.tick : st.tick[c] = r})]]

\* The select of commandWorker takes either channel when both are ready.
WorkerSelects ==
    /\ st.worker = "select"
    /\ \/ st.stopCh = "closed" /\ st' = [st EXCEPT !.worker = "none", !.doneCh = "closed"]
       \/ st.stats.Ticks < MaxTicks /\ st' = [st EXCEPT !.worker = "tick"]

Next ==
    \/ StartRefused \/ start \/ gather \/ Dispose \/ GatherEnds \/ DisposeEnds
    \/ Tick \/ TickEnds \/ WorkerSelects
    \/ \E c \in DOMAIN st.tick : RunCommand(c) \/ CommandEnds(c)

-----------------------------------------------------------------------------
\* A gather that returns reports every command that was begun since start, with
\* the outcome it had, whatever the worker was doing when it was called, and it
\* fails exactly when one of them failed in a way the parameters name.
EveryCommandIsReported ==
    st'.report # st.report /\ st'.report.is = "summary" =>
        /\ st'.report.results = st'.begun
        /\ st'.report.execs = st'.begun.ok + st'.begun.exitCode + st'.begun.execError
                              + st'.begun.timeout
        /\ st'.report.err <=> \E r \in FailOn : st'.begun[r] > 0
        /\ st'.worker = "none"
=============================================================================
