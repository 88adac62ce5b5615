------------------------ MODULE WaitForControlledPods ------------------------
(***************************************************************************)
(* pkg/measurement/common/wait_for_controlled_pods.go: the measurement     *)
(* that waits until all pods of a set of controlling objects run.          *)
(*                                                                         *)
(* "start" runs an informer whose notifications go through a queue with a  *)
(* single worker (pkg/measurement/util/workerqueue).  The worker starts,   *)
(* for every change of an object's spec, a checker that waits for the pods *)
(* of that object, and replaces the checker of the previous version in     *)
(* checkerMap (pkg/measurement/util/checker).  "gather" lists the objects, *)
(* waits until the worker has caught up with that list, waits for all      *)
(* checkers, and counts their results.  "stop" is Dispose.                 *)
(*                                                                         *)
(* The API server is a log of changes; a resource version is a position in *)
(* the log.  A step of a test runs phases or measurements and never both   *)
(* (api/validation.go), so the test changes objects only between the calls *)
(* of the measurement; updates of an object's status come at any time.     *)
(***************************************************************************)
EXTENDS Integers, Sequences, FiniteSets

CONSTANTS
    Keys,           \* a sequence: the keys of the objects, in list order
    Specs,          \* specs of objects
    InitialSpec,    \* the spec objects are created with
    Gone,           \* the "spec" of a deletion in the log
    MaxVersion,     \* bound: length of the log
    MaxStarts,      \* bound: calls of "start"
    MaxRelists,     \* bound: broken watches, after which the informer lists again
    MaxFaults       \* bound: failing calls

KeySet == {Keys[i] : i \in 1 .. Len(Keys)}
Versions == 1 .. MaxVersion

VARIABLES
    log,            \* changes: [key, uid, spec]; uid is the version of the creation
    latest,         \* key -> version of the object, or 0 if it does not exist
    informerOn,     \* the informer of the last start runs
    pending,        \* changes the informer's watch has yet to deliver
    store,          \* the informer's store: key -> version, or 0
    queue,          \* worker queue: notifications [old, new]
    queueDown,      \* the worker queue is shut down
    isRunning, objectKeys, opResourceVersion,   \* fields of the measurement
    checkerMap,     \* key -> checker
    status,         \* checker -> its status
    cancelled,      \* checkers whose context was cancelled
    unchecked,      \* history: versions for which no checker could be made
    caller,         \* where the call of the measurement is
    listed,         \* versions returned by gather's LIST
    result,         \* what the last gather returned
    starts, relists, faults     \* used-up bounds

cluster == <<log, latest>>
informer == <<informerOn, pending, store>>
worker == <<queue, queueDown>>
fields == <<isRunning, objectKeys, opResourceVersion>>
checks == <<checkerMap, status, cancelled, unchecked>>
call == <<caller, listed, result>>
bounds == <<starts, relists, faults>>
vars == <<cluster, informer, worker, fields, checks, call, bounds>>

\* A checker is named by the version it was started for, and whether for its
\* deletion.
Checkers == Versions \X BOOLEAN
NoChecker == <<0, FALSE>>
Statuses == {"none", "active", "unknown", "running", "deleted", "failed", "timeout",
             "deleteTimeout"}

Init ==
    /\ log = <<>> /\ latest = [k \in KeySet |-> 0]
    /\ informerOn = FALSE /\ pending = <<>> /\ store = [k \in KeySet |-> 0]
    /\ queue = <<>> /\ queueDown = FALSE
    /\ isRunning = FALSE /\ objectKeys = {} /\ opResourceVersion = 0
    /\ checkerMap = [k \in KeySet |-> NoChecker]
    /\ status = [c \in Checkers |-> "none"] /\ cancelled = {} /\ unchecked = {}
    /\ caller = "idle" /\ listed = {} /\ result = "none"
    /\ starts = 0 /\ relists = 0 /\ faults = 0

-----------------------------------------------------------------------------
(***************************************************************************)
(* The cluster (external).                                                 *)
(***************************************************************************)

LiveKeys == {k \in KeySet : latest[k] # 0}

Write(k, uid, spec) ==
    /\ Len(log) < MaxVersion
    /\ log' = Append(log, [key |-> k, uid |-> uid, spec |-> spec])
    /\ latest' = [latest EXCEPT ![k] = IF spec = Gone THEN 0 ELSE Len(log) + 1]
    /\ pending' = IF informerOn THEN Append(pending, Len(log) + 1) ELSE pending
    /\ UNCHANGED <<informerOn, store, worker, fields, checks, call, bounds>>

CreateObject(k) ==
    /\ caller = "idle" /\ latest[k] = 0
    /\ Write(k, Len(log) + 1, InitialSpec)

UpdateObject(k, s) ==
    /\ caller = "idle" /\ latest[k] # 0 /\ log[latest[k]].spec # s
    /\ Write(k, log[latest[k]].uid, s)

DeleteObject(k) ==
    /\ caller = "idle" /\ latest[k] # 0
    /\ Write(k, log[latest[k]].uid, Gone)

UpdateStatus(k) ==
    /\ latest[k] # 0
    /\ Write(k, log[latest[k]].uid, log[latest[k]].spec)

-----------------------------------------------------------------------------
(***************************************************************************)
(* The informer: deliver the next change to the handler, which puts it     *)
(* into the worker queue.  A queue that is shut down drops it.             *)
(***************************************************************************)
DeliverEvent ==
    /\ informerOn \/ caller = "stopping"
    /\ pending # <<>>
    /\ LET v == Head(pending)
           k == log[v].key
           n == IF log[v].spec = Gone THEN [old |-> v, new |-> 0]
                ELSE [old |-> store[k], new |-> v]
       IN  /\ store' = [store EXCEPT ![k] = n.new]
           /\ queue' = IF queueDown THEN queue ELSE Append(queue, n)
    /\ pending' = Tail(pending)
    /\ UNCHANGED <<cluster, informerOn, queueDown, fields, checks, call, bounds>>

\* The versions a LIST returns, in the order of the keys.
ListVersions == SelectSeq([i \in 1 .. Len(Keys) |-> latest[Keys[i]]], LAMBDA v : v # 0)

\* A relist after a broken watch: changes that were not received are replaced
\* by the current versions; objects that went away are deleted with the last
\* version the informer knows.
Relist ==
    /\ informerOn /\ relists < MaxRelists /\ relists' = relists + 1
    /\ LET fresh == SelectSeq(ListVersions, LAMBDA v : store[log[v].key] # v)
           lost  == SelectSeq(Keys, LAMBDA k : store[k] # 0 /\ latest[k] = 0)
           added == [i \in 1 .. Len(fresh) |-> [old |-> store[log[fresh[i]].key], new |-> fresh[i]]]
           gone  == [i \in 1 .. Len(lost) |-> [old |-> store[lost[i]], new |-> 0]]
       IN  queue' = IF queueDown THEN queue ELSE queue \o added \o gone
    /\ store' = latest
    /\ pending' = <<>>
    /\ UNCHANGED <<cluster, informerOn, queueDown, fields, checks, call, starts, faults>>

-----------------------------------------------------------------------------
(***************************************************************************)
(* The worker: handleObject, under the lock of the measurement.            *)
(***************************************************************************)

\* Faulty variant: every update is taken for an update of the status.
SameSpec_AnyUpdate(n) == n.old # 0 /\ n.new # 0

\* IsEqualRuntimeObjectsSpec.
SameSpec(n) == n.old # 0 /\ n.new # 0 /\ log[n.old].spec = log[n.new].spec

\* Dispose writes isRunning without the lock, so a handler that runs at that
\* time may see either value.
IsRunningSeen == IF caller = "stopping" THEN BOOLEAN ELSE {isRunning}

\* updateCacheLocked: the keys that exist, and the latest version handled.
UpdateCache(n, k) ==
    /\ objectKeys' = IF n.new = 0 THEN objectKeys \ {k} ELSE objectKeys \cup {k}
    /\ opResourceVersion' = CHOOSE v \in {opResourceVersion, n.old, n.new} :
                               \A w \in {opResourceVersion, n.old, n.new} : w <= v

\* deleteObjectLocked: the checker of the previous version is stopped (the
\* cancelled ones are given) and leaves the map.
StopChecker(n, k) ==
    IF n.old # 0 /\ checkerMap[k] # NoChecker THEN {checkerMap[k]} ELSE {}

\* Faulty variant: Map.Add replaces a checker without stopping it.
StartChecker_KeepsOld(n, k) ==
    LET c == IF n.new = 0 THEN <<n.old, TRUE>> ELSE <<n.new, FALSE>>
    IN  /\ checkerMap' = [checkerMap EXCEPT ![k] = c]
        /\ status' = [status EXCEPT ![c] = "active"]
        /\ UNCHANGED <<cancelled, unchecked>>

\* handleObjectLocked: a new checker is started and added to the map; an old
\* one under the same key is stopped.
StartChecker(n, k) ==
    LET c == IF n.new = 0 THEN <<n.old, TRUE>> ELSE <<n.new, FALSE>>
    IN  /\ checkerMap' = [checkerMap EXCEPT ![k] = c]
        /\ status' = [status EXCEPT ![c] = "active"]
        /\ cancelled' = cancelled \cup ({checkerMap[k]} \ {NoChecker})
        /\ UNCHANGED unchecked

HandleObject ==
    /\ queue # <<>>
    /\ LET n == Head(queue)
           k == log[IF n.new = 0 THEN n.old ELSE n.new].key
       IN  /\ UpdateCache(n, k)
           /\ \E runs \in IsRunningSeen :
                 \/ /\ SameSpec(n) \/ ~runs
                    /\ UNCHANGED <<checks, faults>>
                 \/ /\ ~SameSpec(n) /\ runs
                    /\ StartChecker(n, k)
                    /\ UNCHANGED faults
                 \/ \* waitForRuntimeObject returns an error
                    /\ ~SameSpec(n) /\ runs
                    /\ faults < MaxFaults /\ faults' = faults + 1
                    /\ checkerMap' = [checkerMap EXCEPT ![k] =
                                        IF n.old # 0 THEN NoChecker ELSE @]
                    /\ cancelled' = cancelled \cup StopChecker(n, k)
                    /\ unchecked' = unchecked \cup ({n.new} \ {0})
                    /\ UNCHANGED status
    /\ queue' = Tail(queue)
    /\ UNCHANGED <<cluster, informer, queueDown, isRunning, call, starts, relists>>

-----------------------------------------------------------------------------
(***************************************************************************)
(* The goroutine of a checker (waitForRuntimeObject).                      *)
(***************************************************************************)
Active == {c \in Checkers : status[c] = "active"}

\* WaitForPods succeeds: it has seen as many pods as the object asks for, all
\* of them running and of the object's spec, or no pods of a deleted object.
\* When that is, is up to the cluster.
CheckerSucceeds(c) ==
    /\ status' = [status EXCEPT ![c] = IF c[2] THEN "deleted" ELSE "running"]
    /\ UNCHANGED faults

CheckerTimesOut(c) ==
    /\ c \notin cancelled
    /\ status' = [status EXCEPT ![c] = IF c[2] THEN "deleteTimeout" ELSE "timeout"]
    /\ UNCHANGED faults

CheckerIsCancelled(c) ==
    /\ c \in cancelled
    /\ status' = [status EXCEPT ![c] = "failed"]
    /\ UNCHANGED faults

\* The watcher of the number of replicas does not start: the goroutine
\* returns and leaves the status unknown.
CheckerDoesNotStart(c) ==
    /\ ~c[2]
    /\ faults < MaxFaults /\ faults' = faults + 1
    /\ status' = [status EXCEPT ![c] = "unknown"]

CheckerStep(c) ==
    /\ \/ CheckerSucceeds(c)
       \/ CheckerTimesOut(c)
       \/ CheckerIsCancelled(c)
       \/ CheckerDoesNotStart(c)
    /\ UNCHANGED <<cluster, informer, worker, fields, checkerMap, cancelled, unchecked,
                   call, starts, relists>>

-----------------------------------------------------------------------------
(***************************************************************************)
(* The calls: start, gather, stop.                                         *)
(***************************************************************************)

\* start: a new informer lists and watches.  isRunning is set before the
\* pods indexer is obtained, which may fail.
Start ==
    /\ caller = "idle" /\ ~isRunning
    /\ starts < MaxStarts /\ starts' = starts + 1
    /\ isRunning' = TRUE
    /\ \/ /\ informerOn' = TRUE
          /\ pending' = ListVersions
          /\ UNCHANGED faults
       \/ /\ faults < MaxFaults /\ faults' = faults + 1
          /\ UNCHANGED <<informerOn, pending>>
    /\ store' = [k \in KeySet |-> 0]
    /\ UNCHANGED <<cluster, worker, objectKeys, opResourceVersion, checks, call, relists>>

Return(r) == caller' = "returned" /\ result' = r

\* gather: refused before start; a LIST that fails is returned as an error.
GatherList ==
    /\ caller = "idle"
    /\ \/ /\ isRunning
          /\ caller' = "polling"
          /\ listed' = {latest[k] : k \in LiveKeys}
          /\ UNCHANGED <<result, faults>>
       \/ /\ ~isRunning
          /\ Return("error")
          /\ UNCHANGED <<listed, faults>>
       \/ /\ isRunning
          /\ faults < MaxFaults /\ faults' = faults + 1
          /\ Return("error")
          /\ UNCHANGED listed
    /\ UNCHANGED <<cluster, informer, worker, fields, checks, starts, relists>>

ListedKeys == {log[v].key : v \in listed}

\* Faulty variant: gather compares the keys and forgets the versions.
CaughtUp_KeysOnly == objectKeys = ListedKeys

\* gather: wait until the handler has seen the listed versions and knows the
\* listed keys, or time out.
CaughtUp == (\A v \in listed : opResourceVersion >= v) /\ objectKeys = ListedKeys

\* Faulty variant: the poll has no timeout.
GatherPoll_Forever ==
    /\ caller = "polling" /\ CaughtUp
    /\ caller' = "waiting"
    /\ UNCHANGED <<cluster, informer, worker, fields, checks, listed, result, bounds>>

GatherPoll ==
    /\ caller = "polling"
    /\ \/ CaughtUp /\ caller' = "waiting" /\ UNCHANGED result
       \/ ~CaughtUp /\ Return("error")
    /\ UNCHANGED <<cluster, informer, worker, fields, checks, listed, bounds>>

\* gather: handlingGroup.Wait.  The lock is taken in a later step.
GatherWait ==
    /\ caller = "waiting" /\ Active = {}
    /\ caller' = "counting"
    /\ UNCHANGED <<cluster, informer, worker, fields, checks, listed, result, bounds>>

\* Faulty variant: keys without a checker are looked up as well.
Registered_AllKeys == {checkerMap[k] : k \in KeySet}

Registered == {checkerMap[k] : k \in KeySet} \ {NoChecker}
RegisteredWith(ss) == {c \in Registered : status[c] \in ss}

\* What gather makes of the statuses in checkerMap, in the order of its tests.
Verdict ==
    IF \/ RegisteredWith({"active", "unknown"}) # {}
       \/ RegisteredWith({"timeout", "deleteTimeout"}) # {}
       \/ Cardinality(RegisteredWith({"running"})) # Cardinality(ListedKeys)
       \/ RegisteredWith({"failed"}) # {}
    THEN "error" ELSE "ok"

\* (The forced deletion of the pods after a deleteTimeout changes the pods only,
\* which are part of the cluster.)
GatherCount ==
    /\ caller = "counting"
    /\ Return(Verdict)
    /\ UNCHANGED <<cluster, informer, worker, fields, checks, listed, bounds>>

\* The step that made the call ends.
GatherReturned ==
    /\ caller = "returned"
    /\ caller' = "idle" /\ listed' = {} /\ result' = "none"
    /\ UNCHANGED <<cluster, informer, worker, fields, checks, bounds>>

\* Dispose: isRunning is cleared and the informer is told to stop;
Dispose ==
    /\ caller = "idle" /\ isRunning
    /\ isRunning' = FALSE
    /\ informerOn' = FALSE
    /\ caller' = "stopping"
    /\ UNCHANGED <<cluster, pending, store, worker, objectKeys, opResourceVersion, checks,
                   listed, result, bounds>>

\* then the queue is shut down,
DisposeQueue ==
    /\ caller = "stopping" /\ ~queueDown
    /\ queueDown' = TRUE
    /\ UNCHANGED <<cluster, informer, queue, fields, checks, call, bounds>>

\* and once the worker has drained it, every checker of the map is stopped.
\* Map.Dispose assigns an empty map to its receiver only, so the entries stay.
DisposeCheckers ==
    /\ caller = "stopping" /\ queueDown /\ queue = <<>>
    /\ cancelled' = cancelled \cup Registered
    /\ caller' = "idle"
    /\ UNCHANGED <<cluster, informer, worker, fields, checkerMap, status, unchecked, listed,
                   result, bounds>>

-----------------------------------------------------------------------------
ClusterStep ==
    \E k \in KeySet :
        \/ CreateObject(k)
        \/ \E s \in Specs : UpdateObject(k, s)
        \/ DeleteObject(k)
        \/ UpdateStatus(k)

CallStep ==
    \/ Start
    \/ GatherList
    \/ GatherPoll
    \/ GatherWait
    \/ GatherCount
    \/ GatherReturned
    \/ Dispose
    \/ DisposeQueue
    \/ DisposeCheckers

Next ==
    \/ ClusterStep
    \/ DeliverEvent
    \/ Relist
    \/ HandleObject
    \/ \E c \in Active : CheckerStep(c)
    \/ CallStep

\* The worker, the checkers (each has a deadline) and the caller are
\* goroutines: as long as some of them can run, one of them does.
Spec == Init /\ [][Next]_vars /\ WF_vars(Next)

-----------------------------------------------------------------------------
(***************************************************************************)
(* Properties.                                                             *)
(***************************************************************************)

\* Type invariant.
TypeOK ==
    /\ log \in Seq([key: KeySet, uid: Versions, spec: Specs \cup {Gone}])
    /\ latest \in [KeySet -> 0 .. Len(log)]
    /\ \A i \in 1 .. Len(pending) : pending[i] \in 1 .. Len(log)
    /\ store \in [KeySet -> 0 .. Len(log)]
    /\ \A i \in 1 .. Len(queue) : queue[i] \in [old: 0 .. Len(log), new: 0 .. Len(log)]
    /\ objectKeys \subseteq KeySet /\ opResourceVersion \in 0 .. Len(log)
    /\ checkerMap \in [KeySet -> Checkers \cup {NoChecker}]
    /\ status \in [Checkers -> Statuses] /\ cancelled \subseteq Checkers
    /\ caller \in {"idle", "polling", "waiting", "counting", "returned", "stopping"}
    /\ listed \subseteq 1 .. Len(log) /\ result \in {"none", "ok", "error"}
    /\ <<informerOn, queueDown, isRunning>> \in BOOLEAN \X BOOLEAN \X BOOLEAN

\* Versions v and w of an object ask for the same pods.
SamePods(v, w) == log[v].uid = log[w].uid /\ log[v].spec = log[w].spec

\* A gather that succeeds tells the truth: for every object of its list, all
\* pods of the listed incarnation were seen running with the listed spec by
\* some checker, unless no checker could be made for it.  The informer, the worker, the
\* checkers and gather are four asynchronous parties; what ties them together
\* is the comparison of opResourceVersion and objectKeys with the list, and
\* the final count.
GatherIsSound ==
    result = "ok" =>
        \A v \in listed : \/ \E c \in Checkers : status[c] = "running" /\ SamePods(c[1], v)
                          \/ \E w \in unchecked : SamePods(v, w)

\* As long as the watch of the informer does not break, gather is sound.
UnbrokenGatherIsSound == relists = 0 => GatherIsSound

\* What a broken watch leaves of it: a gather that counts when the informer
\* and the worker have nothing left to do, and succeeds, counts for every listed object
\* a checker that saw pods of the listed spec run, though maybe of an earlier
\* incarnation of the object.  A relist may skip versions, and hands the
\* objects to the worker in the order of their keys, not of their versions.
SettledGatherSeesSpecs ==
    [][GatherCount /\ result' = "ok" /\ queue = <<>> /\ pending = <<>> =>
         \A v \in listed :
             LET SameObject(w) == log[w].key = log[v].key /\ log[w].spec = log[v].spec
             IN  \/ \E c \in RegisteredWith({"running"}) : SameObject(c[1])
                 \/ \E w \in unchecked : SameObject(w)]_vars

\* "If this function does not executes correctly, verifying number of running
\* pods will fail, causing incorrect objects number error to be returned":
\* a gather does not succeed when handleObject could not make the checker of
\* a listed object.
HandlerErrorsAreCaught ==
    result = "ok" => \A v \in listed, w \in unchecked : ~SamePods(v, w)

\* No checker is left behind: a checker that runs and was not told to stop is
\* the one registered for its object, so that Dispose can stop it.
NoOrphanChecker ==
    \A c \in Active \ cancelled : checkerMap[log[c[1]].key] = c

\* Every call of the measurement returns: gather waits for checkers, checkers
\* have deadlines, and Dispose waits for the worker, which needs the lock.
CallsReturn == caller # "idle" ~> caller = "idle"

=============================================================================
