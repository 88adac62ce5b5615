--------------------------- MODULE NodeCounterProofs ---------------------------
(***************************************************************************)
(* The count of NodeCounter is exact for any finite set of nodes and any   *)
(* sequence of node events.                                                *)
(***************************************************************************)
EXTENDS NodeCounter, FiniteSetTheorems, TLAPS

\* The handler's arithmetic: replacing the object of one node moves the number
\* of matching nodes exactly as handleObject moves replicas.
LEMMA HandlerKeepsCount ==
    ASSUME IsFiniteSet(Nodes), TypeOK, CountIsExact, NEW n \in Nodes, Deliver(n)
    PROVE  CountIsExact'
<1> DEFINE Others == {m \in Nodes \ {n} : shouldRun(view[m])}
<1>1. IsFiniteSet(Others) /\ n \notin Others
  BY FS_Subset
<1>2. Cardinality(Others) \in Nat
  BY <1>1, FS_CardinalityType
<1>3. Cardinality(Others \cup {n}) = Cardinality(Others) + 1
  BY <1>1, FS_AddElement
<1>4. Running = IF shouldRun(view[n]) THEN Others \cup {n} ELSE Others
  BY DEF Running, TypeOK
<1>5. Running' = IF shouldRun(cluster[n]) THEN Others \cup {n} ELSE Others
  BY DEF Running, TypeOK, Deliver, shouldRun
<1>6. replicas' = handleObject(replicas, view[n], cluster[n])
  BY DEF Deliver
<1>7. shouldRun(view[n]) \in BOOLEAN /\ shouldRun(cluster[n]) \in BOOLEAN
  BY DEF shouldRun
<1> HIDE DEF Others
<1>8. CASE shouldRun(view[n])
  <2>1. replicas = Cardinality(Others) + 1
    BY <1>3, <1>4, <1>8 DEF CountIsExact
  <2>2. CASE shouldRun(cluster[n])
    <3>1. replicas' = replicas
      BY <1>6, <1>7, <1>8, <2>2 DEF handleObject, shouldRun
    <3>. QED  BY <3>1, <2>1, <1>3, <1>5, <2>2 DEF CountIsExact
  <2>3. CASE ~shouldRun(cluster[n])
    <3>1. replicas' = replicas - 1
      BY <1>6, <1>8, <2>3 DEF handleObject
    <3>. QED  BY <3>1, <2>1, <1>2, <1>5, <2>3 DEF CountIsExact
  <2>. QED  BY <2>2, <2>3
<1>9. CASE ~shouldRun(view[n])
  <2>1. replicas = Cardinality(Others)
    BY <1>4, <1>9 DEF CountIsExact
  <2>2. CASE shouldRun(cluster[n])
    <3>1. replicas' = replicas + 1
      BY <1>6, <1>9, <2>2 DEF handleObject
    <3>. QED  BY <3>1, <2>1, <1>3, <1>5, <2>2 DEF CountIsExact
  <2>3. CASE ~shouldRun(cluster[n])
    <3>1. replicas' = replicas
      BY <1>6, <1>7, <1>9, <2>3 DEF handleObject, shouldRun
    <3>. QED  BY <3>1, <2>1, <1>5, <2>3 DEF CountIsExact
  <2>. QED  BY <2>2, <2>3
<1>. QED  BY <1>8, <1>9

\* The variables keep their types.
THEOREM TypeCorrect == Spec => []TypeOK
<1>1. Init => TypeOK
  BY DEF Init, TypeOK, Objects
<1>2. TypeOK /\ [Next]_counterVars => TypeOK'
  BY DEF TypeOK, Next, Change, Deliver, handleObject, counterVars
<1>. QED  BY <1>1, <1>2, PTL DEF Spec

\* For every finite set of nodes, replicas is always the number of nodes in the
\* informer's store that the daemonset should run on.
THEOREM CounterIsExact == ASSUME IsFiniteSet(Nodes) PROVE Spec => []CountIsExact
<1>1. Init => CountIsExact
  <2> SUFFICES ASSUME Init PROVE CountIsExact
    OBVIOUS
  <2>1. Running = {}
    BY DEF Init, Running, shouldRun
  <2>. QED  BY <2>1, FS_EmptySet DEF Init, CountIsExact
<1>2. TypeOK /\ CountIsExact /\ [Next]_counterVars => CountIsExact'
  <2> SUFFICES ASSUME TypeOK, CountIsExact, [Next]_counterVars PROVE CountIsExact'
    OBVIOUS
  <2>1. CASE UNCHANGED counterVars
    BY <2>1 DEF counterVars, CountIsExact, Running
  <2>2. ASSUME NEW n \in Nodes, NEW obj \in Objects, Change(n, obj) PROVE CountIsExact'
    BY <2>2 DEF Change, CountIsExact, Running
  <2>3. ASSUME NEW n \in Nodes, Deliver(n) PROVE CountIsExact'
    BY <2>3, HandlerKeepsCount
  <2>. QED  BY <2>1, <2>2, <2>3 DEF Next
<1>. QED  BY <1>1, <1>2, TypeCorrect, PTL DEF Spec
=============================================================================
