------------------------------ MODULE Collectors ------------------------------
(***************************************************************************)
(* Four measurements that sample in goroutines between start and gather:   *)
(* profile.go, etcd_metrics.go, scheduling_throughput.go and               *)
(* resource_usage.go with its ContainerResourceGatherer.                   *)
(***************************************************************************)
EXTENDS Integers, Sequences, FiniteSets

CONSTANTS
    Kinds,          \* subset of {"profile", "etcd", "throughput", "usage"}
    NumHosts,       \* masters (profile, etcd) or nodes (usage)
    MaxStarts, MaxGathers,
    MaxSamples      \* bound: samples of one goroutine

VARIABLE st

\* stopCh is nil (0) or a channel; etcd makes its channel when it is created.
Init ==
    \E kind \in Kinds :
        st = [kind |-> kind, pc |-> "idle", isRunning |-> FALSE,
              stopCh |-> IF kind = "etcd" THEN 1 ELSE 0, closed |-> {},
              workers |-> <<>>,     \* [ch, at, n]: select, probe or end; n samples
              mine |-> {},          \* workers of the gatherer e.gatherer points to
              starts |-> 0, gathers |-> 0,
              ignored |-> FALSE,    \* history: a start was refused or replaced another
              merged |-> {}]        \* workers whose data the last summary has

Alive == {i \in DOMAIN st.workers : st.workers[i].at # "end"}

\* n goroutines with the channel ch.
Spawn(ch, n) ==
    [st EXCEPT !.starts = @ + 1, !.isRunning = TRUE, !.stopCh = ch,
               !.workers = @ \o [i \in 1 .. n |-> [ch |-> ch, at |-> "select", n |-> 0]],
               !.ignored = @ \/ st.isRunning,
               !.mine = (Len(st.workers) + 1) .. (Len(st.workers) + n)]

Ignore == [st EXCEPT !.starts = @ + 1, !.ignored = TRUE]

Starting(kind) == st.kind = kind /\ st.pc = "idle" /\ st.starts < MaxStarts

\* One goroutine takes a profile of every host; one goroutine counts pods.
startProfile ==
    /\ Starting("profile")
    /\ st' = IF st.isRunning THEN Ignore ELSE Spawn(st.starts + 1, 1)

startThroughput ==
    /\ Starting("throughput")
    /\ st' = IF st.isRunning THEN Ignore ELSE Spawn(st.starts + 1, 1)

\* A goroutine for each host, with the channel made at creation.
startCollecting == Starting("etcd") /\ st' = Spawn(1, NumHosts)

\* A new gatherer takes the place of the old one, with a worker for each node.
StartGatheringData == Starting("usage") /\ st' = Spawn(st.starts + 1, NumHosts)

\* A worker's timer fires or its channel is closed; if both, select takes either.
Wakes(i) ==
    /\ i \in Alive /\ st.workers[i].at = "select"
    /\ \/ st.workers[i].ch \in st.closed /\ st' = [st EXCEPT !.workers[i].at = "end"]
       \/ st.workers[i].n < MaxSamples /\ st' = [st EXCEPT !.workers[i].at = "probe"]

\* The probe succeeds or fails, and the worker is back in the select, with ch.
Probed(i, ch) ==
    /\ i \in Alive /\ st.workers[i].at = "probe"
    /\ \E got \in {0, 1} :
           st' = [st EXCEPT !.workers[i] = [at |-> "select", n |-> @.n + got, ch |-> ch]]

\* The channel is read again from the measurement, except by the workers of the
\* gatherer, which have their own.
gatherProfile(i) == st.kind = "profile" /\ Probed(i, st.stopCh)
Samples(i) == st.kind \in {"etcd", "throughput"} /\ Probed(i, st.stopCh)
singleProbe(i) == st.kind = "usage" /\ Probed(i, st.workers[i].ch)

\* Faulty variant: isRunning is never reset.
Stop_KeepsRunning(s, next) ==
    IF ~s.isRunning THEN [s EXCEPT !.pc = next]
    ELSE IF s.stopCh \in s.closed THEN [s EXCEPT !.pc = "panic"]
    ELSE [s EXCEPT !.closed = @ \cup {s.stopCh}, !.pc = next]

\* close(stopCh): closing it twice is a panic.  The profile never resets
\* isRunning.
Stop(s, next) ==
    IF ~s.isRunning THEN [s EXCEPT !.pc = next]
    ELSE IF s.stopCh \in s.closed THEN [s EXCEPT !.pc = "panic"]
    ELSE [s EXCEPT !.closed = @ \cup {s.stopCh}, !.pc = next,
                   !.isRunning = s.kind = "profile"]

Gathering(kind) == st.kind = kind /\ st.pc = "idle" /\ st.gathers < MaxGathers
Refuse == [st EXCEPT !.gathers = @ + 1]
Stopping == Stop(Refuse, "gather")

collectProfiles == Gathering("profile") /\ st' = Stopping
stopAndSummarize == Gathering("etcd") /\ st' = Stopping

\* The throughput refuses when it is not running, usage without a gatherer.
gatherThroughput ==
    /\ Gathering("throughput")
    /\ st' = IF st.isRunning THEN Stopping ELSE Refuse

gatherUsage ==
    /\ Gathering("usage")
    /\ st' = IF st.starts = 0 THEN Refuse ELSE Stopping

\* Profile and etcd wait for their goroutines, the throughput for nothing.
Summarize ==
    /\ st.pc = "gather" /\ st.kind # "usage"
    /\ st.kind \in {"profile", "etcd"} => Alive = {}
    /\ st' = [st EXCEPT !.pc = "idle", !.merged = st.mine \ Alive]

\* The statistics of the finished workers, in their order, merged to the left of
\* what there is: a worker without samples has none, and the result has only the
\* percentiles of the left side.
LeftMergeData(finished) ==
    {i \in finished : \A j \in finished : j >= i => st.workers[j].n > 0}

\* The gatherer waits two minutes for its workers.
StopAndSummarize ==
    /\ st.pc = "gather" /\ st.kind = "usage"
    /\ st' = [st EXCEPT !.pc = "idle", !.merged = LeftMergeData(st.mine \ Alive)]

\* Dispose: nothing for the profile; etcd waits, the others do not.
Dispose ==
    /\ st.pc = "idle"
    /\ st' = IF st.kind = "profile" THEN [st EXCEPT !.pc = "disposed"] ELSE Stop(st, "dispose")

Disposed ==
    /\ st.pc = "dispose"
    /\ st.kind = "etcd" => Alive = {}
    /\ st' = [st EXCEPT !.pc = "disposed"]

Next ==
    \/ startProfile \/ startThroughput \/ startCollecting \/ StartGatheringData
    \/ collectProfiles \/ gatherThroughput \/ stopAndSummarize \/ gatherUsage
    \/ Summarize \/ StopAndSummarize \/ Dispose \/ Disposed
    \/ \E i \in DOMAIN st.workers :
           Wakes(i) \/ gatherProfile(i) \/ Samples(i) \/ singleProbe(i)

-----------------------------------------------------------------------------
\* Sampling ends with the measurement: once it is disposed of, a worker is at
\* most in its last probe, never waiting for another.  Not so for a profile that
\* was not gathered, whose Dispose is empty, and for a gatherer that a second
\* start replaced.  One goroutine measures the throughput, unless it was in a
\* probe while the measurement was gathered and started again: it then goes on
\* with the new channel, beside the new one.
SamplingEnds ==
    /\ st.pc = "disposed" =>
           \A i \in Alive :
               \/ st.workers[i].at = "probe"
               \/ st.workers[i].ch \in st.closed
               \/ st.kind = "profile" /\ st.closed = {}
               \/ st.kind = "usage" /\ st.ignored /\ i \notin st.mine
    /\ st.kind = "throughput"
       /\ Cardinality({i \in Alive : st.workers[i].ch \notin st.closed}) > 1 =>
           st.starts > 1 /\ st.gathers > 0

\* Stopping panics only where the same channel is closed twice: in the second
\* gather of a profile, and in an etcd measurement that is started again after
\* it was gathered, whose channel is made once.
StopPanicsOnlyOnReuse ==
    st.pc = "panic" =>
        \/ st.kind = "profile" /\ st.gathers > 1
        \/ st.kind = "etcd" /\ st.starts > 1

\* "Workers has been stopped. We need to gather data stored in them.": the summary
\* of the resource gatherer has the data of every finished worker that took a
\* sample.
SummaryHasAllWorkers ==
    st.kind = "usage" /\ st.pc = "gather" /\ st'.pc = "idle" =>
        \A i \in st.mine \ Alive : st.workers[i].n > 0 => i \in st'.merged

\* The collectors stop cleanly, with the exceptions above.
CollectorsStop == SamplingEnds /\ StopPanicsOnlyOnReuse
=============================================================================
