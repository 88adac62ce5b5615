----------------------------- MODULE ImagePreload -----------------------------
(***************************************************************************)
(* pkg/imagepreload: a daemonset pulls images on the nodes; the controller *)
(* compares the number of nodes seen with the images, kept by one informer, *)
(* with the number of nodes of the daemonset, kept by the informer of a    *)
(* NodeCounter.                                                            *)
(***************************************************************************)
EXTENDS Integers, FiniteSets

CONSTANTS Nodes, MaxChanges

VARIABLE st

Counter == INSTANCE NodeCounter
    WITH cluster <- st.nodes, view <- st.view, replicas <- st.replicas

Init ==
    \E nodes \in [Nodes -> Counter!Objects], images \in SUBSET Nodes :
        /\ \A n \in images : nodes[n] # "nil"
        /\ st = [nodes |-> nodes, images |-> images, changes |-> 0,
                 pc |-> "sync",
                 seen |-> [n \in Nodes |-> FALSE],      \* history: preloaded, as last told
                 doneNodes |-> {}, stale |-> Nodes,     \* nodes whose event is under way
                 view |-> [n \in Nodes |-> "nil"], counted |-> {}, replicas |-> 0,
                 clusterSize |-> 0, targets |-> {},     \* read by the poll; history: whose count
                 namespace |-> FALSE]

\* A node is added, changed or removed.
NodeChanges(n, obj) ==
    /\ st.changes < MaxChanges /\ st.nodes[n] # obj /\ st.pc \notin {"delete", "done", "failed"}
    /\ st' = [st EXCEPT !.nodes[n] = obj, !.changes = @ + 1, !.stale = @ \cup {n},
                        !.counted = @ \ {n}, !.images = IF obj = "nil" THEN @ \ {n} ELSE @]

\* A pod of the daemonset pulls the images; the kubelet updates the Node.
Pull(n) ==
    /\ st.namespace /\ st.nodes[n] = "runs" /\ n \notin st.images
    /\ st' = [st EXCEPT !.images = @ \cup {n}, !.stale = @ \cup {n}]

\* Faulty variant: a removed node stays done.
checkNode_IgnoresRemoval(n) ==
    IF n \in st.images THEN st.doneNodes \cup {n}
    ELSE IF st.nodes[n] = "nil" THEN st.doneNodes ELSE st.doneNodes \ {n}

\* checkNode, markDone and hasPreloadedImages.
checkNode(n) == IF n \in st.images THEN st.doneNodes \cup {n} ELSE st.doneNodes \ {n}

\* The informer of PreloadImages.
NodeEvent(n) ==
    /\ n \in st.stale
    /\ st.pc \notin {"delete", "done", "failed"}
    /\ st' = [st EXCEPT !.stale = @ \ {n}, !.doneNodes = checkNode(n), !.seen[n] = n \in st.images]

\* The informer of NodeCounter, once started.
CounterEvent(n) ==
    /\ st.pc \in {"start", "poll", "count"} /\ n \notin st.counted
    /\ st' = [st EXCEPT !.counted = @ \cup {n}, !.view[n] = st.nodes[n],
                        !.replicas = Counter!handleObject(@, st.view[n], st.nodes[n])]

\* PreloadImages, call by call; StartAndSync waits for its first list.  The poll
\* reads the size of the daemonset first, and then counts the nodes that are done.
PreloadImages ==
    \/ st.pc = "sync" /\ st.stale = {} /\ st' = [st EXCEPT !.pc = "create"]
    \/ st.pc = "create" /\ st' = [st EXCEPT !.pc = "start", !.namespace = TRUE]
    \/ st.pc = "start" /\ st.counted = Nodes /\ st' = [st EXCEPT !.pc = "poll"]
    \/ st.pc = "poll"
       /\ st' = [st EXCEPT !.pc = "count", !.clusterSize = st.replicas,
                           !.targets = {n \in Nodes : Counter!shouldRun(st.view[n])}]
    \/ st.pc = "count"
       /\ st' = [st EXCEPT !.pc = IF Cardinality(st.doneNodes) = st.clusterSize THEN "delete" ELSE "poll"]
    \/ st.pc = "delete" /\ st' = [st EXCEPT !.pc = "done", !.namespace = FALSE]
    \/ st.pc \in {"sync", "create", "start", "poll", "delete"}    \* an error or a timeout
       /\ st' = [st EXCEPT !.pc = "failed"]

Next ==
    \/ PreloadImages
    \/ \E n \in Nodes : NodeEvent(n) \/ CounterEvent(n) \/ Pull(n)
    \/ \E n \in Nodes, obj \in Counter!Objects : NodeChanges(n, obj)

-----------------------------------------------------------------------------
\* "Setup ensures every node in cluster preloads given list of images"
\* (imagepreload.go:71).  Two counts are compared, not two sets, and they are read
\* one after the other: the poll ends with every node that the daemonset had when
\* its size was read preloaded, as far as the two informers have been told, if no
\* other node has the images.  It rests on the count of NodeCounter being exact.
PreloadIsExact ==
    LET preloaded == {n \in Nodes : st.seen[n]}
    IN  /\ Counter!CountIsExact
        /\ st.pc = "count" /\ st'.pc = "delete" /\ preloaded \subseteq st.targets =>
               preloaded = st.targets
=============================================================================
