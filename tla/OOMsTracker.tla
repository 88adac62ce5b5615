------------------------------ MODULE OOMsTracker ------------------------------
(***************************************************************************)
(* pkg/measurement/common/ooms_tracker.go: OOM events are taken from a     *)
(* watch that is started first and from a list of all events that follows; *)
(* the overlap is removed by resource version.                             *)
(***************************************************************************)
EXTENDS Integers, Sequences, FiniteSets

CONSTANTS
    Processes,      \* processes that run out of memory
    Ignored,        \* clusterOOMsIgnoredProcesses
    MaxEvents,      \* bound: versions of OOM events in the cluster
    MaxStarts       \* bound: calls of "start"

VARIABLE
    st              \* fields of the measurement, its watch, the call, the cluster

Init ==
    st = [isRunning |-> FALSE, startTime |-> 0, recorded |-> {}, ooms |-> <<>>,
          watch |-> "off", watchAt |-> 0,       \* the informer and its resource version
          prior |-> {}, listAt |-> 0,           \* handlePriorOOMs: to do, and its version
          call |-> "idle", starts |-> 0,
          report |-> [gathers |-> 0],
          log |-> <<>>,                         \* versions of OOM events; index = resource version
          relisted |-> FALSE, cut |-> FALSE]    \* history: a relist, a list that failed

\* node-problem-detector reports a new OOM, or an event that exists gets a new version.
OOM ==
    /\ Len(st.log) < MaxEvents
    /\ \/ \E p \in Processes :
              st' = [st EXCEPT !.log = Append(@, [time |-> Len(@) + 1, proc |-> p])]
       \/ \E i \in DOMAIN st.log : st' = [st EXCEPT !.log = Append(@, @[i])]

-----------------------------------------------------------------------------
\* Faulty variant: the recorded versions are not looked up.
handleOOMEvent_Twice(s, rv) == [s EXCEPT !.ooms = Append(@, rv)]

\* Under the lock: a version that is recorded is not recorded again.
handleOOMEvent(s, rv) ==
    IF rv \in s.recorded THEN s
    ELSE [s EXCEPT !.recorded = @ \cup {rv}, !.ooms = Append(@, rv)]

\* initFields resets the recorded versions but not the OOMs.
start ==
    /\ st.call = "idle" /\ ~st.isRunning /\ st.starts < MaxStarts
    /\ st' = [st EXCEPT !.isRunning = TRUE, !.startTime = Len(st.log), !.recorded = {},
                        !.starts = @ + 1, !.call = "sync", !.watch = "starting",
                        !.cut = FALSE, !.relisted = FALSE]

\* The informer's list is emptied, only its resource version counts.
InformerLists ==
    /\ st.watch = "starting"
    /\ st' = [st EXCEPT !.watch = "on", !.watchAt = Len(st.log)]

\* What a list shows: of every event its last version.
CurrentVersions ==
    {rv \in DOMAIN st.log : \A later \in DOMAIN st.log :
                               later > rv => st.log[later].time # st.log[rv].time}

\* start goes on to list all events, or gives up waiting; the informer does not.
Synced ==
    /\ st.call = "sync"
    /\ \/ st.watch = "on"
          /\ st' = [st EXCEPT !.call = "list", !.prior = CurrentVersions, !.listAt = Len(st.log)]
       \/ st' = [st EXCEPT !.call = "idle", !.cut = TRUE]

\* Item by item; a page may fail.
handlePriorOOMs ==
    /\ st.call = "list"
    /\ \/ \E rv \in st.prior :
              st' = [handleOOMEvent(st, rv) EXCEPT !.prior = @ \ {rv}]
       \/ st.prior = {} /\ st' = [st EXCEPT !.call = "idle"]
       \/ st.prior # {} /\ st' = [st EXCEPT !.call = "idle", !.cut = TRUE, !.prior = {}]

\* The watch delivers the versions after its own; if it breaks and the version
\* is too old, the emptied list makes it skip what it has not delivered.
WatchDelivers ==
    /\ st.watch = "on" /\ st.watchAt < Len(st.log)
    /\ st' = [handleOOMEvent(st, st.watchAt + 1) EXCEPT !.watchAt = @ + 1]

WatchRelists ==
    /\ st.watch = "on" /\ st.watchAt < Len(st.log)
    /\ st' = [st EXCEPT !.watchAt = Len(st.log), !.relisted = TRUE]

past == {i \in DOMAIN st.ooms : st.log[st.ooms[i]].time <= st.startTime}
ignored == {i \in DOMAIN st.ooms \ past : st.log[st.ooms[i]].proc \in Ignored}

\* stop closes the channel of the informer, which ends at once here.
stop == [st EXCEPT !.isRunning = FALSE, !.watch = "off"]

gather ==
    /\ st.call = "idle" /\ st.isRunning
    /\ st' = [stop EXCEPT !.report = [gathers |-> @.gathers + 1,
                                      failures |-> DOMAIN st.ooms \ (past \cup ignored)]]

Dispose ==
    /\ st.call = "idle" /\ st.isRunning
    /\ st' = stop

Next ==
    \/ OOM \/ start \/ InformerLists \/ Synced \/ handlePriorOOMs \/ WatchDelivers \/ WatchRelists
    \/ gather \/ Dispose

-----------------------------------------------------------------------------
\* In the report of a first start that succeeded, every OOM that happened after
\* it, and that the list or the watch has reached, is a failure, and no version of
\* its event is one twice, however the watch and the list of prior events
\* overlapped; an ignored process never is, and nothing older is.  A relist of
\* the watch may lose OOMs, and a second start counts the prior ones again, since
\* the recorded versions are forgotten.
EachOOMCountsOnce ==
    st'.report # st.report /\ st.starts = 1 /\ ~st.cut /\ ~st.relisted =>
        LET failed == {st.ooms[i] : i \in st'.report.failures}
            reached == {rv \in DOMAIN st.log : rv <= st.watchAt \/ rv <= st.listAt}
        IN  /\ {st.log[rv].time : rv \in failed} =
                   {st.log[rv].time : rv \in
                       {v \in reached : st.log[v].time > st.startTime
                                        /\ st.log[v].proc \notin Ignored}}
            /\ Cardinality(failed) = Cardinality(st'.report.failures)
=============================================================================
