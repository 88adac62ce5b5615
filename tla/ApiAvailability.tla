--------------------------- MODULE ApiAvailability ---------------------------
(***************************************************************************)
(* pkg/measurement/common/api_availability_measurement.go and _metrics.go: *)
(* a goroutine polls /readyz of the cluster and of its hosts; "pause" and  *)
(* "unpause" talk to it over unbuffered channels, "gather" closes stopCh   *)
(* and waits for it.  Execute holds a lock, so there is one call at a time;*)
(* isPaused is written by the goroutine and read by the calls without one. *)
(***************************************************************************)
EXTENDS Integers, Sequences

CONSTANTS
    HostIPs,        \* hosts that are polled besides the cluster
    Threshold,      \* least availability, in percent
    MaxProbes,      \* bound: polls between two starts
    MaxStarts       \* bound: calls of "start" that do something

VARIABLE
    st              \* fields of the measurement, its goroutine, the call

NoMetrics == [ok |-> 0, bad |-> 0, run |-> 0, worst |-> 0]
Nil == [ok |-> -1]
NewHosts == [ip \in HostIPs |-> NoMetrics]

Init ==
    st = [isRunning |-> FALSE, isPaused |-> FALSE, stopCh |-> "nil",
          cluster |-> Nil, hosts |-> << >>,
          worker |-> "none",    \* where the goroutine is
          call |-> "idle",      \* the call of Execute
          outcome |-> "none",   \* what the last gather returned
          starts |-> 0,
          trace |-> <<>>,       \* history: answers of the cluster since metrics were made
          wanted |-> FALSE,     \* history: the last request was "pause"
          stale |-> FALSE,      \* history: isPaused was read while it was about to change
          failed |-> FALSE]     \* history: the last start returned an error

-----------------------------------------------------------------------------
update(m, available) ==
    IF available THEN [m EXCEPT !.ok = @ + 1, !.run = 0]
    ELSE [m EXCEPT !.bad = @ + 1, !.run = @ + 1,
                   !.worst = IF m.run + 1 > @ THEN m.run + 1 ELSE @]

\* buildSummary and the comparison in gather; no probe at all counts as 100%.
BelowThreshold(m) ==
    IF m.ok + m.bad = 0 THEN 100 < Threshold ELSE m.ok * 100 < Threshold * (m.ok + m.bad)

\* initFields marks the measurement as running and makes the channels before it
\* reads its parameters; isPaused keeps the value it has.
Starting == [st EXCEPT !.isRunning = TRUE, !.stopCh = "open", !.starts = @ + 1]

Start ==
    /\ st.call = "idle" /\ ~st.isRunning /\ st.starts < MaxStarts
    /\ \/ \* pollFrequency or threshold is missing or malformed
          st' = [Starting EXCEPT !.failed = TRUE]
       \/ \E hosts \in {st.hosts, NewHosts}, failed \in BOOLEAN :
              st' = [Starting EXCEPT !.cluster = NoMetrics, !.trace = <<>>, !.hosts = hosts,
                                     !.failed = failed,
                                     !.worker = IF failed THEN "none" ELSE "loop"]

\* Reading isPaused while the goroutine has taken a request off its channel and
\* has not yet written isPaused.
Racing == st.worker \in {"pausing", "unpausing"}

pause ==
    /\ st.call = "idle" /\ st.isRunning
    /\ st' = [st EXCEPT !.wanted = TRUE, !.stale = @ \/ Racing,
                        !.call = IF st.isPaused THEN "idle" ELSE "pause"]

\* Faulty variant: unpause sends even if the probe is not paused.
unpause_Unchecked ==
    /\ st.call = "idle" /\ st.isRunning
    /\ st' = [st EXCEPT !.wanted = FALSE, !.stale = @ \/ Racing, !.call = "unpause"]

unpause ==
    /\ st.call = "idle" /\ st.isRunning
    /\ st' = [st EXCEPT !.wanted = FALSE, !.stale = @ \/ Racing,
                        !.call = IF st.isPaused THEN "unpause" ELSE "idle"]

gather ==
    /\ st.call = "idle" /\ st.isRunning
    /\ st' = [st EXCEPT !.stopCh = "closed", !.call = "gather"]

\* wg.Wait() has returned.  After a start that failed before the metrics were
\* made, createClusterSummary dereferences a nil pointer.
GatherEnds ==
    /\ st.call = "gather" /\ st.worker = "none"
    /\ st' = [st EXCEPT !.isRunning = FALSE,
                        !.call = IF st.cluster = Nil THEN "crashed" ELSE "idle",
                        !.outcome = IF st.cluster = Nil THEN "panic"
                                    ELSE IF BelowThreshold(st.cluster) THEN "violation"
                                    ELSE "ok"]

-----------------------------------------------------------------------------
\* The goroutine of start.
Loop ==
    /\ st.worker = "loop"
    /\ st' = [st EXCEPT !.worker = IF st.isPaused THEN "held" ELSE "select"]

Unpaused ==
    \/ /\ st.worker = "held" /\ st.call = "unpause"
       /\ st' = [st EXCEPT !.worker = "unpausing", !.call = "idle"]
    \/ /\ st.worker = "unpausing"
       /\ st' = [st EXCEPT !.isPaused = FALSE, !.worker = "select"]

Paused ==
    \/ /\ st.worker = "select" /\ st.call = "pause"
       /\ st' = [st EXCEPT !.worker = "pausing", !.call = "idle"]
    \/ /\ st.worker = "pausing"
       /\ st' = [st EXCEPT !.isPaused = TRUE, !.worker = "loop"]

\* updateClusterAvailabilityMetrics and, if there are host metrics,
\* updateHostAvailabilityMetrics: one goroutine per host, all of them awaited.
Poll ==
    /\ st.worker = "select" /\ Len(st.trace) < MaxProbes
    /\ \E available \in BOOLEAN, up \in [DOMAIN st.hosts -> BOOLEAN] :
           st' = [st EXCEPT !.cluster = update(@, available),
                            !.hosts = [ip \in DOMAIN @ |-> update(@[ip], up[ip])],
                            !.trace = Append(@, available), !.worker = "loop"]

Stopped ==
    /\ st.worker \in {"held", "select"} /\ st.stopCh = "closed"
    /\ st' = [st EXCEPT !.worker = "none"]

Next ==
    \/ Start \/ pause \/ unpause \/ gather \/ GatherEnds
    \/ Loop \/ Unpaused \/ Paused \/ Poll \/ Stopped

-----------------------------------------------------------------------------
\* Nobody will ever receive what the call sends.
Stuck ==
    \/ st.call = "pause" /\ st.worker \in {"none", "held"}
    \/ st.call = "unpause" /\ st.worker \in {"none", "select"}

\* pause and unpause rely on isPaused being what the goroutine does.  Unless a
\* call read it in the window between the goroutine's receive and its write, no
\* call blocks forever (except after a failed start, which leaves isRunning set
\* without a goroutine) and the goroutine is in the mode that was asked for last.
\* The mode survives "gather" and the next "start".
PauseProtocol ==
    ~st.stale =>
        /\ Stuck => st.failed
        /\ st.call = "idle" => (st.worker = "held" => st.wanted)
                               /\ (st.worker = "select" => ~st.wanted)

\* The longest stretch of failed probes in a history.
LongestOutage(t) ==
    LET Outage(i, j) == i <= j + 1 /\ \A k \in i .. j : ~t[k]
        lengths == {n \in 0 .. Len(t) : \E i \in 1 .. Len(t) + 1 : 
                        i + n - 1 <= Len(t) /\ Outage(i, i + n - 1)}
    IN  CHOOSE n \in lengths : \A k \in lengths : k <= n

Successes(t) == Len(SelectSeq(t, LAMBDA available : available))

\* What gather reports is what the polls since start saw, across pauses: the
\* number of answers, the longest unavailable period, and the verdict.
SummaryIsExact ==
    st.cluster # Nil =>
        /\ st.cluster.ok = Successes(st.trace)
        /\ st.cluster.ok + st.cluster.bad = Len(st.trace)
        /\ st.cluster.worst = LongestOutage(st.trace)

\* Pausing works, and the report is right whatever was paused: both of the above.
AvailabilityIsExact == PauseProtocol /\ SummaryIsExact
=============================================================================
