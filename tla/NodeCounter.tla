------------------------------ MODULE NodeCounter ------------------------------
(***************************************************************************)
(* pkg/measurement/util/runtimeobjects/replicaswatcher.go: the number of   *)
(* nodes a daemonset should run on, kept by the handler of a node informer. *)
(***************************************************************************)
EXTENDS Integers, FiniteSets

CONSTANT Nodes

VARIABLES
    cluster,        \* the nodes: absent, or an object that matches or not
    view,           \* the informer's store
    replicas

counterVars == <<cluster, view, replicas>>

\* What the handler can tell of a node: none (nil), the selector, the affinity
\* and the tolerations let the daemonset run there, or they do not.
Objects == {"nil", "runs", "barred"}

shouldRun(obj) == obj = "runs"

\* NodeCounter.handleObject.
handleObject(count, oldObj, newObj) ==
    IF shouldRun(newObj) = shouldRun(oldObj) THEN count
    ELSE IF shouldRun(newObj) THEN count + 1 ELSE count - 1

Init ==
    /\ cluster \in [Nodes -> Objects]
    /\ view = [n \in Nodes |-> "nil"]
    /\ replicas = 0

Change(n, obj) ==
    /\ cluster' = [cluster EXCEPT ![n] = obj]
    /\ UNCHANGED <<view, replicas>>

\* The informer hands over the object it knew and the one it knows now; it may
\* have missed versions in between.
Deliver(n) ==
    /\ view' = [view EXCEPT ![n] = cluster[n]]
    /\ replicas' = handleObject(replicas, view[n], cluster[n])
    /\ UNCHANGED cluster

Next ==
    \/ \E n \in Nodes, obj \in Objects : Change(n, obj)
    \/ \E n \in Nodes : Deliver(n)

Spec == Init /\ [][Next]_counterVars

-----------------------------------------------------------------------------
TypeOK ==
    /\ cluster \in [Nodes -> Objects]
    /\ view \in [Nodes -> Objects]
    /\ replicas \in Int

Running == {n \in Nodes : shouldRun(view[n])}

\* replicas, moved by one at every event, is the number of nodes of the
\* informer's store that the daemonset should run on.
CountIsExact == replicas = Cardinality(Running)
=============================================================================
