----------------------------- MODULE ObjectWaits -----------------------------
(***************************************************************************)
(* The measurements that wait until a number of objects is in the wanted   *)
(* state: WaitForRunningPods, the WaitForPods of a controlled object,      *)
(* WaitForNodes, WaitForAvailablePVs, WaitForBoundPVCs and                 *)
(* WaitForGenericK8sObjects.  Each opens a store fed by a list and a       *)
(* watch, looks at it once per interval, and gives up at its deadline.     *)
(* The cluster goes on changing and the watch delivers late.               *)
(***************************************************************************)
EXTENDS Integers, Sequences, FiniteSets

CONSTANTS
  Objects,     \* names of the objects the selector matches
  Foreign,     \* those of another provisioner (PVs) or namespace (generic)
  Desired,     \* the desired count (min for nodes and generic objects)
  MaxNodes,    \* maxDesiredNodeCount
  Margin,      \* countErrorMargin of the controlled pods
  MaxFailed,   \* maxFailedObjectCount of the generic wait
  MaxChanges   \* bound on the changes of the cluster during one wait

VARIABLE st

Absent == "absent"

\* What Execute, and the checker of a controlled object, ask of the wait.
RunningPods == [desired |-> Desired, margin |-> 0]
ControlledPods == [desired |-> Desired, margin |-> Margin]
ReadyNodes == [min |-> Desired, max |-> MaxNodes]
AvailablePVs == [desired |-> Desired, provisioned |-> Objects \ Foreign]
BoundPVCs == [desired |-> Desired]
GenericObjects == [min |-> Desired, maxFailed |-> MaxFailed, range |-> Objects \ Foreign]

\* A pod as podStatus classifies it; "outdated" is a ready pod that
\* IsPodUpdated, which only controlled objects have, rejects.
PodStates == {"terminating", "ready", "outdated", "notReady", "pending",
              "waiting", "inactive", "unknown"}

\* The state of a generic object is the list of its relevant conditions.
States(kind) ==
  CASE kind = "running"    -> PodStates \ {"outdated"}
    [] kind = "controlled" -> PodStates
    [] kind = "nodes"      -> {"ready", "unschedulable"}
    [] kind = "pvs"        -> {"pending", "available", "bound", "released", "failed"}
    [] kind = "pvcs"       -> {"pending", "bound", "lost"}
    [] kind = "generic"    -> {"none", "good", "bad", "goodThenBad", "badThenGood"}
Kinds == {"running", "controlled", "nodes", "pvs", "pvcs", "generic"}

List(view) == {o \in Objects : view[o] # Absent}
CountIn(view, states) == Cardinality({o \in Objects : view[o] \in states})

\* The counters that the wait uses. A pod with a deletion timestamp is only
\* counted as terminating.
ComputePodsStartupStatus(view) ==
  [Running        |-> CountIn(view, {"ready", "outdated"}),
   RunningUpdated |-> CountIn(view, {"ready"}),
   Inactive       |-> CountIn(view, {"inactive"})]

\* Faulty variant: pods that are neither running nor inactive do not count.
PodsGoalMet_NoLength(view, options) ==
  LET s == ComputePodsStartupStatus(view)
  IN  s.Running = s.RunningUpdated /\ s.RunningUpdated = options.desired

PodsGoalMet(view, options) ==
  LET s == ComputePodsStartupStatus(view)
      len == Cardinality(List(view))
  IN  \/ /\ len = s.Running + s.Inactive
         /\ s.Running = s.RunningUpdated
         /\ s.RunningUpdated = options.desired
      \/ /\ options.margin > 0
         /\ s.RunningUpdated >= options.desired - options.margin
         /\ len - s.Inactive <= options.desired
         /\ s.Inactive <= options.margin

getNumReadyNodes(view) == CountIn(view, {"ready"})
NodesGoalMet(view) == getNumReadyNodes(view) \in ReadyNodes.min .. ReadyNodes.max

\* PVStore.List keeps the volumes of the provisioner.
ListPVs(view) == [o \in Objects |-> IF o \in AvailablePVs.provisioned THEN view[o] ELSE Absent]

ComputePVsStartupStatus(pvs) ==
  [Pending |-> CountIn(pvs, {"pending"}), Available |-> CountIn(pvs, {"available"}),
   Bound |-> CountIn(pvs, {"bound"})]

PVsGoalMet(view) ==
  LET pvs == ListPVs(view)
      s == ComputePVsStartupStatus(pvs)
  IN  /\ Cardinality(List(pvs)) = s.Bound + s.Available + s.Pending
      /\ s.Bound + s.Available = AvailablePVs.desired

ComputePVCsStartupStatus(view) ==
  [Pending |-> CountIn(view, {"pending"}), Bound |-> CountIn(view, {"bound"})]

PVCsGoalMet(view) ==
  LET s == ComputePVCsStartupStatus(view)
  IN  Cardinality(List(view)) = s.Bound + s.Pending /\ s.Bound = BoundPVCs.desired

\* ListObjectSimplifications skips objects outside the namespace range.
ListInRange(view) == {o \in List(view) : o \in GenericObjects.range}

\* The first matching condition of an object decides.
countObjectsMatchingConditions(view) ==
  LET in(states) == Cardinality({o \in ListInRange(view) : view[o] \in states})
  IN  [successful |-> in({"good", "goodThenBad"}), failed |-> in({"bad", "badThenGood"})]

GenericVerdict(view) ==
  LET c == countObjectsMatchingConditions(view)
  IN  IF GenericObjects.min > c.successful + c.failed THEN "again"
      ELSE IF GenericObjects.maxFailed < c.failed THEN "tooManyFailed" ELSE "ok"

\* What one look at the store decides: go on, success or an error.
Verdict(kind, view) ==
  IF kind = "generic" THEN GenericVerdict(view)
  ELSE LET met == CASE kind = "running"    -> PodsGoalMet(view, RunningPods)
                    [] kind = "controlled" -> PodsGoalMet(view, ControlledPods)
                    [] kind = "nodes"      -> NodesGoalMet(view)
                    [] kind = "pvs"        -> PVsGoalMet(view)
                    [] kind = "pvcs"       -> PVCsGoalMet(view)
       IN  IF met THEN "ok" ELSE "again"

\* The pods reported when the wait times out.
NotRunningAndReady(pods) == {o \in List(pods) : pods[o] \notin {"ready", "outdated"}}

(***************************************************************************)
(* State: pc is idle, waiting or returned; pending holds the changes the   *)
(* watch has not delivered; old is the list kept from the last look; seen  *)
(* is the history of the cluster since the store was opened.               *)
(***************************************************************************)
Clusters(kind) == [Objects -> States(kind) \cup {Absent}]

Init ==
  \E kind \in Kinds : \E cluster \in Clusters(kind) :
    st = [kind |-> kind, cluster |-> cluster, changes |-> 0, pc |-> "idle",
          store |-> cluster, pending |-> <<>>, watching |-> FALSE,
          old |-> cluster, expired |-> FALSE, result |-> "none",
          report |-> {}, seen |-> {}]

\* An object is created, changes state or disappears.
Change ==
  /\ st.changes < MaxChanges
  /\ \E o \in Objects, s \in States(st.kind) \cup {Absent} :
       /\ s # st.cluster[o]
       /\ LET now == [st.cluster EXCEPT ![o] = s]
          IN  st' = [st EXCEPT !.cluster = now, !.changes = @ + 1,
                       !.pending = IF st.watching THEN Append(@, now) ELSE @,
                       !.seen = IF st.watching THEN @ \cup {now} ELSE @]

\* The reflector applies the next change.
WatchDelivers ==
  /\ st.watching /\ st.pending # <<>>
  /\ st' = [st EXCEPT !.store = Head(st.pending),
                      !.pending = Tail(@)]

\* The watch breaks and the reflector lists again.
Relist ==
  /\ st.watching /\ st.pending # <<>>
  /\ st' = [st EXCEPT !.store = st.cluster, !.pending = <<>>]

\* Execute: the parameters are read, the store is opened and synced, and a
\* first list is taken. It is never evaluated: the loop first waits.
Execute ==
  /\ st.pc = "idle"
  /\ st' = [st EXCEPT !.pc = "waiting", !.watching = TRUE, !.store = st.cluster,
                      !.old = st.cluster, !.seen = {st.cluster}]

\* Bad parameters, or a store that does not sync in two minutes.
ExecuteFails ==
  /\ st.pc = "idle"
  /\ st' = [st EXCEPT !.pc = "returned", !.result = "error"]

DeadlinePasses ==
  /\ st.pc = "waiting" /\ ~st.expired
  /\ st' = [st EXCEPT !.expired = TRUE]

\* A return runs the deferred Stop, which WaitForRunningPods does not have;
\* the controlled pods are listed from the indexer, which is not the wait's.
Return(result, report) ==
  [st EXCEPT !.pc = "returned", !.result = result, !.report = report,
             !.watching = st.kind = "running"]

\* One turn of the loop after the interval. When the deadline has passed too,
\* select may still take this branch.
Poll ==
  /\ st.pc = "waiting"
  /\ LET verdict == Verdict(st.kind, st.store)
     IN  st' = IF verdict = "again" THEN [st EXCEPT !.old = st.store]
                                    ELSE Return(verdict, {})

\* The deadline branch: pods that were not ready at the last look are
\* reported, whatever has happened since.
TimedOut ==
  /\ st.pc = "waiting" /\ st.expired
  /\ st' = Return("timeout", IF st.kind \in {"running", "controlled"} THEN NotRunningAndReady(st.old) ELSE {})

Next == \/ Change \/ WatchDelivers \/ Relist \/ Execute \/ ExecuteFails
        \/ DeadlinePasses \/ Poll \/ TimedOut

-----------------------------------------------------------------------------
\* What the comments of the waits promise, said of the objects themselves.
\* Pods: at least Desired - Margin updated pods run and, with no margin,
\* exactly Desired, everything else being inactive; never more than Desired
\* live pods. Volumes: exactly Desired, all the others pending.
IsIn(view, states) == {o \in Objects : view[o] \in states}
Promise(kind, view) ==
  CASE kind = "running"    -> /\ Cardinality(IsIn(view, {"ready"})) = Desired
                              /\ \A o \in Objects : view[o] \in {"ready", "inactive", Absent}
    [] kind = "controlled" -> LET live == {o \in Objects : view[o] \notin {"inactive", Absent}}
                              IN  /\ Cardinality(live) <= Desired
                                  /\ Cardinality(live \ IsIn(view, {"ready"})) <= Margin
                                  /\ Cardinality(IsIn(view, {"ready"})) >= Desired - Margin
    [] kind = "nodes"      -> Cardinality(IsIn(view, {"ready"})) \in Desired .. MaxNodes
    [] kind = "pvs"        -> /\ Cardinality(IsIn(view, {"bound", "available"}) \ Foreign) = Desired
                              /\ \A o \in Objects \ Foreign : view[o] \notin {"released", "failed"}
    [] kind = "pvcs"       -> /\ Cardinality(IsIn(view, {"bound"})) = Desired
                              /\ \A o \in Objects : view[o] # "lost"
    [] kind = "generic"    -> LET bad == IsIn(view, {"bad", "badThenGood"}) \ Foreign
                                  good == IsIn(view, {"good", "goodThenBad"}) \ Foreign
                              IN  /\ Cardinality(bad \cup good) >= Desired
                                  /\ Cardinality(bad) <= MaxFailed

\* A wait that succeeds, however late its watch is and whatever it missed,
\* stands for a moment of this very wait at which the cluster really kept the
\* promise; and only WaitForRunningPods leaves a watch behind when it returns.
WaitsAreTruthful ==
  /\ st.result = "ok" => \E view \in st.seen : Promise(st.kind, view)
  /\ st.pc = "returned" /\ st.watching => st.kind = "running"
=============================================================================
