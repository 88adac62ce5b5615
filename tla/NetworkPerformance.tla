--------------------------- MODULE NetworkPerformance ---------------------------
(***************************************************************************)
(* pkg/measurement/common/network: worker pods are paired across nodes, a  *)
(* custom resource asks every pair for a test, and an informer collects    *)
(* the answers until there are as many as clients.                         *)
(***************************************************************************)
EXTENDS Integers, FiniteSets, FiniteSetsExt

CONSTANTS
    Nodes, NumClients,
    MaxUpdates,     \* bound: status updates of one custom resource
    MaxStarts

VARIABLE st

Pairs == 1 .. NumClients

\* 2 * NumClients worker pods (validate: as many servers as clients), of which
\* storeWorkerPods keeps those with an IP, on the nodes where they run.
Placements ==
    {f \in [Nodes -> 0 .. 2 * NumClients] : FoldSet(LAMBDA n, x : x + f[n], 0, Nodes)
                                            \in (2 * NumClients - 1) .. 2 * NumClients}

Init ==
    st = [pc |-> "idle", starts |-> 0, held |-> {}, informer |-> "none",
          pods |-> [n \in Nodes |-> 0], placed |-> [n \in Nodes |-> 0], paired |-> {},
          updates |-> [p \in Pairs |-> 0],
          leaked |-> 0,             \* informers whose channel a later start replaced
          metricVal |-> 0]          \* answers in npm.metricVal

\* start: prepareCluster and the worker pods, where each call may fail, then the
\* informer, which is left running if the pod ratio is neither 1:1 nor n:n.
start ==
    /\ st.pc = "idle" /\ st.starts < MaxStarts
    /\ LET all == {"namespace", "rbac", "crd"}
           informed == [st EXCEPT !.starts = @ + 1, !.held = all, !.informer = "running",
                                  !.leaked = IF st.informer = "running" THEN @ + 1 ELSE @]
       IN  \/ \E held \in {{"namespace"}, {"namespace", "rbac"}, all} :
                  st' = [st EXCEPT !.starts = @ + 1, !.held = @ \cup held]
           \/ st' = [informed EXCEPT !.paired = {}]
           \/ \E f \in Placements :
                  st' = [informed EXCEPT !.pc = "pairing", !.pods = f, !.placed = f, !.paired = {},
                                         !.updates = [p \in Pairs |-> 0]]

\* Faulty variant: the nodes are paired in any order.
Fullest_Any(ns) == ns

\* The top of the heap: the nodes with the most pods left.
Fullest(ns) == {n \in ns : \A m \in ns : st.pods[m] <= st.pods[n]}

\* formUniquePodPair: the two fullest nodes give a pod each, while there are two
\* nodes with pods; then every pair gets its custom resource.
PairPods ==
    LET left == {n \in Nodes : st.pods[n] > 0}
    IN  /\ st.pc = "pairing"
        /\ \/ \E n \in Fullest(left) : \E m \in Fullest(left \ {n}) :
                  st' = [st EXCEPT !.pods[n] = @ - 1, !.pods[m] = @ - 1,
                                   !.paired = @ \cup {Cardinality(@) + 1}]
           \/ Cardinality(left) <= 1 /\ st' = [st EXCEPT !.pc = "idle"]

\* A worker updates the status of its resource: the handler appends whatever it
\* finds, an answer, an error or an unreadable status.
Update(p) ==
    /\ st.informer = "running" /\ st.pc # "pairing"
    /\ p \in st.paired /\ st.updates[p] < MaxUpdates
    /\ st' = [st EXCEPT !.updates[p] = @ + 1, !.metricVal = @ + 1 + st.leaked]

\* gather: it waits for the exact number of answers or for its timeout.
gather ==
    /\ st.pc = "idle"
    /\ st' = [st EXCEPT !.pc = "wait"]

checkResponseReceivedFromPods == st.metricVal = NumClients

\* close(stopCh) panics if there is no channel or it is closed; then
\* cleanupCluster deletes everything, and the summary is computed.
GatherEnds(received) ==
    /\ st.pc = "wait"
    /\ received => checkResponseReceivedFromPods
    /\ st' = IF st.informer = "running"
             THEN [st EXCEPT !.pc = "idle", !.informer = "stopped", !.held = {}]
             ELSE [st EXCEPT !.pc = "panic"]

\* Dispose only cleans the cluster up.
Dispose ==
    /\ st.pc = "idle" /\ st.starts > 0
    /\ st' = [st EXCEPT !.held = {}, !.pc = "disposed"]

Next ==
    \/ start \/ PairPods \/ gather \/ Dispose
    \/ \E p \in Pairs : Update(p)
    \/ \E received \in BOOLEAN : GatherEnds(received)

-----------------------------------------------------------------------------
Total == FoldSet(LAMBDA n, x : x + st.placed[n], 0, Nodes)

\* The greedy pairing is optimal: no other way to pair pods of different nodes
\* makes more pairs than the smaller of half the pods and the pods outside the
\* fullest node, so the clients all have a partner whenever that is possible.
PairingIsOptimal ==
    LET most == Max({st.placed[n] : n \in Nodes})
    IN  st.pc = "idle" /\ st.informer = "running" /\ st.paired # {} =>
            Cardinality(st.paired) = Min({Total \div 2, Total - most})

\* A wait that ends with the expected number of answers has one of every client,
\* if it is the first start of the instance and no status was updated twice; a
\* gather panics only without a running informer.
AnswersAreComplete ==
    /\ st.pc = "wait" /\ checkResponseReceivedFromPods /\ st.starts = 1
       /\ (\A p \in Pairs : st.updates[p] <= 1) =>
           \A p \in Pairs : st.updates[p] = 1
    /\ st.pc = "panic" => st.informer # "running"

\* Pairs are formed as well as the placement of the pods allows, and a
\* successful wait has heard every client.
NetworkTestIsComplete == PairingIsOptimal /\ AnswersAreComplete
=============================================================================
