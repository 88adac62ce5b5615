------------------------- MODULE PhaseExecutorProofs -------------------------
(***************************************************************************)
(* For any phases, namespaces, bundles, steps and replica counts, any      *)
(* parallelism of the tuning sets and any number of failed calls: the      *)
(* recorded replica count is true, the order of a bundle is respected, and *)
(* no replica is forgotten without an error.                               *)
(***************************************************************************)
EXTENDS PhaseExecutorActions

\* No phase that touches the pair has reported an error, and no listing of it failed.
Faultless(x) == x \notin unlisted /\ \A p \in Phases : x \in Pairs[p] => ~errs[p]

\* The j-th object of the bundle of p, replica r in namespace ns, while p works on it:
\* what is there is wanted, or about to be deleted in the reverse order of the bundle,
Wanted(p, ns, j, r) ==
    LET c == instances[<<ns, ObjectBundle[p][j]>>].current
        d == replicas[p]
    IN  <<ns, ObjectBundle[p][j], r>> \in objects =>
           /\ r < c \/ r < d
           /\ r >= d => \E a \in Pending(p) : /\ a.ns = ns /\ a.r = r /\ a.op = "delete"
                                              /\ j <= Len(ObjectBundle[p]) - a.n
           /\ r >= c => \A a \in Pending(p) : a.ns = ns /\ a.r = r => j <= a.n + 1

\* and what is wanted is there, or about to be created in the order of the bundle.
Supplied(p, ns, j, r) ==
    LET c == instances[<<ns, ObjectBundle[p][j]>>].current
        d == replicas[p]
    IN  \/ <<ns, ObjectBundle[p][j], r>> \in objects
        \/ r >= c /\ r >= d
        \/ /\ r >= c /\ r < d
           /\ \E a \in Pending(p) : a.ns = ns /\ a.r = r /\ a.op = "create" /\ a.n < j
        \/ /\ r < c /\ r >= d
           /\ \A a \in Pending(p) : a.ns = ns /\ a.r = r => j >= Len(ObjectBundle[p]) - a.n

\* The cluster as a phase at work finds it and leaves it.
WorkPart(p) ==
    Working(p) =>
       \A ns \in Prepared(p), j \in 1 .. Len(ObjectBundle[p]), r \in ReplicaRange :
          Faultless(<<ns, ObjectBundle[p][j]>>) =>
             /\ Wanted(p, ns, j, r)
             /\ ObjectBundle[p][j] \notin EmptyTemplates => Supplied(p, ns, j, r)

\* No phase at work has prepared the pair.
Settled(ns, id) ==
    \A p \in Phases : Working(p) /\ id \in Range(ObjectBundle[p]) => ns \notin Prepared(p)

\* Then what is recorded is what there is;
SettledPart(ns, id) ==
    Settled(ns, id) /\ instances[<<ns, id>>].exists /\ Faultless(<<ns, id>>) =>
       \A r \in ReplicaRange :
          /\ <<ns, id, r>> \in objects => r < instances[<<ns, id>>].current
          /\ id \notin EmptyTemplates /\ r < instances[<<ns, id>>].current =>
                <<ns, id, r>> \in objects

\* a pair that is not recorded has only the replicas that somebody else created.
UnseenPart(ns, id) ==
    ~instances[<<ns, id>>].exists =>
       \E k \in 0 .. MaxReplicas :
          /\ <<ns, id>> \notin UnknownPairs => k = 0
          /\ \A r \in ReplicaRange : <<ns, id, r>> \in objects <=> r < k

\* The pairs of a phase are as these say.
OwnPart(p) ==
    /\ WorkPart(p)
    /\ \A ns \in Namespaces, id \in Ids : <<ns, id>> \in Pairs[p] =>
          SettledPart(ns, id) /\ UnseenPart(ns, id)

ClusterInv ==
    /\ objects \subseteq Objects
    /\ \A p \in Phases : WorkPart(p)
    /\ \A ns \in Namespaces, id \in Ids : SettledPart(ns, id) /\ UnseenPart(ns, id)

\* The inductive invariant.
PhaseInv == ControlInv /\ InstancesInv /\ ActionInv /\ ClusterInv

-----------------------------------------------------------------------------
\* An error list is never emptied, and a listing that failed is never forgotten.
LEMMA FaultsKept ==
    ASSUME ControlInv, NEW p \in Phases, PhaseStep(p), NEW x, Faultless(x)'
    PROVE  Faultless(x) /\ (x \in Pairs[p] => ~errs'[p])
<1>1. unlisted \subseteq unlisted'
    BY Zenon DEF PhaseStep, StartPhase, PrepareNamespace, PrepareFails, StartTuningSet,
       StartAction, ExecuteObject, FinishPhase
<1>2. ASSUME NEW a \in running[p], ExecuteObject(p, a)
      PROVE  errs' = errs \/ errs' = [errs EXCEPT ![p] = TRUE]
    BY Zenon, <1>2 DEF ExecuteObject, ObjectDone, ObjectRefused, ObjectFails, ObjectRetries,
       FailAction
<1>3. errs' = errs \/ errs' = [errs EXCEPT ![p] = TRUE]
    BY Zenon, <1>2 DEF PhaseStep, StartPhase, PrepareNamespace, PrepareFails, StartTuningSet,
       StartAction, FinishPhase
<1>4. \A q \in Phases : ~errs'[q] => ~errs[q]
    BY Zenon, <1>3 DEF ControlInv
<1> QED
    BY <1>1, <1>4 DEF Faultless

\* ExecuteObject reaches the object that its action has got to, and no other.
LEMMA ObjectsMoved ==
    ASSUME ControlInv, ActionInv, ClusterInv, NEW p \in Phases, NEW a \in running[p],
           ExecuteObject(p, a)
    PROVE  /\ objects' \subseteq Objects
           /\ a.ns \in Prepared(p) /\ ObjectIndex(p, a) \in 1 .. Len(ObjectBundle[p])
           /\ \A ns, id, r : <<ns, id, r>> # <<a.ns, CurrentId(p, a), a.r>> =>
                 (<<ns, id, r>> \in objects' <=> <<ns, id, r>> \in objects)
<1>1. /\ a \in Actions /\ a.ns \in Prepared(p) /\ a.n < Len(ObjectBundle[p])
      /\ a.ns \in Namespaces /\ a.r \in ReplicaRange /\ a.n \in Nat
    BY DEF ActionInv, PendingPart, Pending, Actions
<1>2. ObjectIndex(p, a) \in 1 .. Len(ObjectBundle[p])
    BY <1>1, BundleTypes DEF ObjectIndex
<1>3. CurrentId(p, a) \in Ids
    BY Zenon, <1>2, BundleTypes DEF CurrentId
<1>4. objects' \in {objects, objects \cup {<<a.ns, CurrentId(p, a), a.r>>},
                    objects \ {<<a.ns, CurrentId(p, a), a.r>>}}
  <2>1. a.op \in {"create", "patch", "delete"}
    BY Zenon, <1>1 DEF Actions, Operations
  <2>2. Apply(p, a) \in {objects, objects \cup {<<a.ns, CurrentId(p, a), a.r>>},
                         objects \ {<<a.ns, CurrentId(p, a), a.r>>}}
    BY Zenon, <2>1 DEF Apply
  <2> QED
    BY Zenon, <2>2 DEF ExecuteObject, ObjectDone, ObjectRefused, ObjectFails, ObjectRetries
<1>5. objects \subseteq Objects /\ <<a.ns, CurrentId(p, a), a.r>> \in Objects
    BY Zenon, <1>1, <1>3 DEF ClusterInv, Objects
<1> QED
    BY Zenon, <1>1, <1>2, <1>4, <1>5

\* A step of a phase changes objects and records of its own pairs only.
LEMMA OthersKeepObjects ==
    ASSUME ControlInv, ActionInv, ClusterInv, NEW p \in Phases, PhaseStep(p)
    PROVE  /\ objects' \subseteq Objects
           /\ \A ns, id, r : <<ns, id>> \notin Pairs[p] =>
                 (<<ns, id, r>> \in objects' <=> <<ns, id, r>> \in objects)
<1>1. ASSUME NEW a \in running[p], ExecuteObject(p, a)
      PROVE  /\ objects' \subseteq Objects
             /\ \A ns, id, r : <<ns, id>> \notin Pairs[p] =>
                   (<<ns, id, r>> \in objects' <=> <<ns, id, r>> \in objects)
  <2>1. a.ns \in Range(NamespaceList[p]) /\ CurrentId(p, a) \in Range(ObjectBundle[p])
    BY Zenon, <1>1, ObjectsMoved, PreparedTypes, BundleTypes DEF CurrentId
  <2>2. <<a.ns, CurrentId(p, a)>> \in Pairs[p]
    BY Zenon, <2>1, PairTypes
  <2> QED
    BY Zenon, <1>1, <2>2, ObjectsMoved
<1>2. ~(\E a \in running[p] : ExecuteObject(p, a)) => UNCHANGED objects
    BY Zenon DEF PhaseStep, StartPhase, PrepareNamespace, PrepareFails, StartTuningSet,
       StartAction, FinishPhase
<1> QED
    BY Zenon, <1>1, <1>2 DEF ClusterInv

\* The other phases at work, and the pairs that are not this phase's, find the cluster as
\* it was.
LEMMA OthersKeepCluster ==
    ASSUME ControlInv, InstancesInv, ActionInv, ClusterInv, NEW p \in Phases, PhaseStep(p)
    PROVE  /\ \A q \in Phases \ {p} : WorkPart(q)'
           /\ \A ns \in Namespaces, id \in Ids : <<ns, id>> \notin Pairs[p] =>
                 SettledPart(ns, id)' /\ UnseenPart(ns, id)'
<1>1. ASSUME NEW q \in Phases, q # p
      PROVE  WorkPart(q)'
  <2> SUFFICES ASSUME Working(q)', NEW ns \in Prepared(q)', NEW j \in 1 .. Len(ObjectBundle[q]),
                      NEW r \in ReplicaRange, Faultless(<<ns, ObjectBundle[q][j]>>)'
               PROVE  /\ Wanted(q, ns, j, r)'
                      /\ ObjectBundle[q][j] \notin EmptyTemplates => Supplied(q, ns, j, r)'
    BY Zenon DEF WorkPart
  <2> DEFINE id == ObjectBundle[q][j]
  <2>1. Working(q) /\ Prepared(q)' = Prepared(q) /\ UNCHANGED replicas
    BY Zenon, <1>1, PreparedKept DEF Working
  <2>2. Pending(q)' = Pending(q)
    BY Zenon, <1>1, OthersKeepActions DEF Pending
  <2>3. ns \in Namespaces /\ id \in Ids /\ <<ns, id>> \in Pairs[q]
    BY <2>1, PreparedTypes, BundleTypes, PairTypes
  <2>4. <<ns, id>> \notin Pairs[p]
    BY Zenon, <1>1, <2>1, <2>3, StepsAreDisjoint
  <2>5. instances'[<<ns, id>>] = instances[<<ns, id>>]
    BY <2>3, <2>4, RecordsKept
  <2>6. <<ns, id, r>> \in objects' <=> <<ns, id, r>> \in objects
    BY Zenon, <2>4, OthersKeepObjects
  <2>7. Wanted(q, ns, j, r) /\ (id \notin EmptyTemplates => Supplied(q, ns, j, r))
    BY Zenon, <2>1, FaultsKept DEF ClusterInv, WorkPart
  <2>8. Wanted(q, ns, j, r)'
    BY Zenon, <2>1, <2>2, <2>5, <2>6, <2>7 DEF Wanted
  <2>9. Supplied(q, ns, j, r) => Supplied(q, ns, j, r)'
    BY Zenon, <2>1, <2>2, <2>5, <2>6 DEF Supplied
  <2> QED
    BY Zenon, <2>7, <2>8, <2>9
<1>2. ASSUME NEW ns \in Namespaces, NEW id \in Ids, <<ns, id>> \notin Pairs[p]
      PROVE  SettledPart(ns, id)' /\ UnseenPart(ns, id)'
  <2>1. instances'[<<ns, id>>] = instances[<<ns, id>>]
    BY Zenon, <1>2, RecordsKept
  <2>2. \A r : <<ns, id, r>> \in objects' <=> <<ns, id, r>> \in objects
    BY Zenon, <1>2, OthersKeepObjects
  <2>3. Settled(ns, id)' => Settled(ns, id)
    <3>1. id \in Range(ObjectBundle[p]) => ns \notin Prepared(p)
        BY Zenon, <1>2, PreparedTypes, PairTypes
    <3>2. \A q \in Phases \ {p} : pc'[q] = pc[q] /\ Prepared(q)' = Prepared(q)
        BY Zenon, PreparedKept
    <3> QED
        BY Zenon, <3>1, <3>2 DEF Settled, Working
  <2>4. SettledPart(ns, id) /\ UnseenPart(ns, id)
    BY DEF ClusterInv
  <2>5. SettledPart(ns, id)'
    BY Zenon, <2>1, <2>2, <2>3, <2>4, FaultsKept DEF SettledPart
  <2>6. UnseenPart(ns, id)'
    BY Zenon, <2>1, <2>2, <2>4 DEF UnseenPart
  <2> QED
    BY Zenon, <2>5, <2>6
<1> QED
    BY Zenon, <1>1, <1>2

\* For a pair of a phase that takes a step, to be settled is not to be prepared by it.
LEMMA SettledHere ==
    ASSUME ControlInv, ActionInv, NEW p \in Phases, PhaseStep(p), NEW ns, NEW id,
           <<ns, id>> \in Pairs[p]
    PROVE  /\ Settled(ns, id) <=> (Working(p) => ns \notin Prepared(p))
           /\ Settled(ns, id)' => (Working(p)' => ns \notin Prepared(p)')
<1>1. id \in Range(ObjectBundle[p])
    BY Zenon, PairTypes
<1>2. ASSUME NEW q \in Phases, q # p, Working(q), id \in Range(ObjectBundle[q])
      PROVE  ns \notin Prepared(q)
  <2>1. <<ns, id>> \notin Pairs[q]
    BY Zenon, <1>2, StepsAreDisjoint
  <2> QED
    BY Zenon, <1>2, <2>1, PairTypes, PreparedTypes
<1> QED
    BY Zenon, <1>1, <1>2 DEF Settled

\* What ExecuteObject leaves of an action when its phase has no error: m objects of the
\* bundle are dealt with, and the call was sent unless there was nothing to send.
LEMMA ActionProgress ==
    ASSUME ControlInv, ActionInv, NEW p \in Phases, NEW a \in running[p], ExecuteObject(p, a),
           ~errs'[p]
    PROVE  \E m \in {a.n, a.n + 1} :
              /\ \A x \in Pending(p)' : x.ns = a.ns /\ x.r = a.r => x.n = m
              /\ m < Len(ObjectBundle[p]) =>
                    \E x \in Pending(p)' : x.ns = a.ns /\ x.r = a.r /\ x.op = a.op /\ x.n = m
              /\ \A x : x.ns # a.ns \/ x.r # a.r => (x \in Pending(p)' <=> x \in Pending(p))
              /\ IF m = a.n THEN objects' \in {objects, Apply(p, a)}
                 ELSE objects' = IF Skipped(p, a) \/ NothingToSend(p, a) THEN objects
                                 ELSE Apply(p, a)
<1>1. /\ a \in Actions /\ a.n < Len(ObjectBundle[p]) /\ a.n \in Nat
      /\ PendingPart(p) /\ QueuePart(p) /\ running \in [Phases -> SUBSET Actions]
      /\ a \in Pending(p) /\ UNCHANGED todo /\ Len(ObjectBundle[p]) \in Nat
    BY BundleTypes DEF ActionInv, PendingPart, Pending, Actions, ExecuteObject
<1>2. a \notin Range(todo[p])
    BY Zenon, <1>1 DEF QueuePart
<1> DEFINE next == [a EXCEPT !.n = @ + 1, !.tries = 0]
           again == [a EXCEPT !.tries = @ + 1]
<1>3. next.ns = a.ns /\ next.r = a.r /\ next.op = a.op /\ next.n = a.n + 1
    BY Zenon, <1>1 DEF Actions
<1>4. again.ns = a.ns /\ again.r = a.r /\ again.op = a.op /\ again.n = a.n
    BY Zenon, <1>1 DEF Actions
<1>5. ~FailAction(p, a)
    BY Zenon DEF FailAction, ControlInv
<1>6. \/ /\ ObjectDone(p, a) /\ AdvanceAction(p, a)
      \/ /\ objects' \in {objects, Apply(p, a)}
         /\ running' = [running EXCEPT ![p] = (running[p] \ {a}) \cup {again}]
    BY Zenon, <1>5 DEF ExecuteObject, ObjectDone, ObjectRefused, ObjectFails, ObjectRetries
<1>7. AdvanceAction(p, a) => running' = [running EXCEPT ![p] =
         IF next.n = Len(ObjectBundle[p]) THEN running[p] \ {a} ELSE (running[p] \ {a}) \cup {next}]
    BY Zenon DEF AdvanceAction
<1> HIDE DEF next, again
<1>8. \A x \in Pending(p) \ {a} : ~(x.ns = a.ns /\ x.r = a.r)
    BY Zenon, <1>1 DEF PendingPart
<1>9. ASSUME NEW b, b.ns = a.ns, b.r = a.r,
             running' = [running EXCEPT ![p] = (running[p] \ {a}) \cup {b}]
      PROVE  Pending(p)' = (Pending(p) \ {a}) \cup {b}
    BY Zenon, <1>1, <1>2, <1>9 DEF Pending
<1>10. ASSUME running' = [running EXCEPT ![p] = running[p] \ {a}]
       PROVE  Pending(p)' = Pending(p) \ {a}
    BY Zenon, <1>1, <1>2, <1>10 DEF Pending
<1>11. CASE /\ objects' \in {objects, Apply(p, a)}
            /\ running' = [running EXCEPT ![p] = (running[p] \ {a}) \cup {again}]
  <2>1. Pending(p)' = (Pending(p) \ {a}) \cup {again}
    BY Zenon, <1>4, <1>9, <1>11
  <2> WITNESS a.n \in {a.n, a.n + 1}
  <2> QED
    BY Zenon, <1>4, <1>8, <1>11, <2>1
<1>12. CASE ObjectDone(p, a) /\ AdvanceAction(p, a)
  <2>1. IF next.n = Len(ObjectBundle[p]) THEN Pending(p)' = Pending(p) \ {a}
        ELSE Pending(p)' = (Pending(p) \ {a}) \cup {next}
    BY Zenon, <1>3, <1>7, <1>9, <1>10, <1>12
  <2>2. objects' = IF Skipped(p, a) \/ NothingToSend(p, a) THEN objects ELSE Apply(p, a)
    BY Zenon, <1>12 DEF ObjectDone
  <2>3. a.n + 1 # a.n
    BY <1>1
  <2>4. /\ \A x \in Pending(p)' : x.ns = a.ns /\ x.r = a.r => x.n = a.n + 1
        /\ a.n + 1 < Len(ObjectBundle[p]) =>
              \E x \in Pending(p)' : x.ns = a.ns /\ x.r = a.r /\ x.op = a.op /\ x.n = a.n + 1
        /\ \A x : x.ns # a.ns \/ x.r # a.r => (x \in Pending(p)' <=> x \in Pending(p))
    BY <1>1, <1>3, <1>8, <2>1
  <2> WITNESS a.n + 1 \in {a.n, a.n + 1}
  <2> QED
    BY Zenon, <2>2, <2>3, <2>4
<1> QED
    BY Zenon, <1>6, <1>11, <1>12

\* The counts an action was built from, while it is in flight.
LEMMA ActionFits ==
    ASSUME ControlInv, InstancesInv, ActionInv, NEW p \in Phases, NEW a \in running[p]
    PROVE  /\ a \in Pending(p) /\ a.n \in Nat /\ a.n < Len(ObjectBundle[p])
           /\ a.op \in {"create", "patch", "delete"}
           /\ a.ns \in Prepared(p) /\ a.r \in Int /\ replicas[p] \in Int
           /\ \A x \in Pending(p) : x.ns = a.ns /\ x.r = a.r => x = a
           /\ \A j \in 1 .. Len(ObjectBundle[p]) :
                 /\ instances[<<a.ns, ObjectBundle[p][j]>>].current \in Int
                 /\ Fits(a, instances[<<a.ns, ObjectBundle[p][j]>>].current, replicas[p])
<1>1. /\ a \in Actions /\ a \in Pending(p) /\ PendingPart(p) /\ MaxReplicas \in Nat
    BY Zenon, PhaseConfigAssumption DEF ActionInv, Pending, PhaseConfigAssumption
<1>2. a.ns \in Namespaces /\ a.r \in Int /\ a.n \in Nat /\ a.op \in {"create", "patch", "delete"}
    BY <1>1 DEF Actions, Operations, ReplicaRange
<1>3. replicas[p] \in Int
    BY <1>1 DEF ControlInv
<1>4. ASSUME NEW j \in 1 .. Len(ObjectBundle[p])
      PROVE  /\ instances[<<a.ns, ObjectBundle[p][j]>>].current \in Int
             /\ Fits(a, instances[<<a.ns, ObjectBundle[p][j]>>].current, replicas[p])
  <2>1. ObjectBundle[p][j] \in Ids /\ ObjectBundle[p][j] \in Range(ObjectBundle[p])
    BY Zenon, BundleTypes
  <2>2. instances[<<a.ns, ObjectBundle[p][j]>>].current \in Int
    BY <1>1, <1>2, <2>1 DEF InstancesInv, AreRecords, InstancesStates
  <2> QED
    BY Zenon, <1>1, <2>1, <2>2 DEF PendingPart
<1> QED
    BY Zenon, <1>1, <1>2, <1>3, <1>4 DEF PendingPart

\* ExecuteObject keeps the replica its action works on in the order of the bundle:
\* deletion goes through it backwards,
LEMMA DeletionInOrder ==
    ASSUME ControlInv, InstancesInv, ActionInv, NEW p \in Phases, NEW a \in running[p],
           ExecuteObject(p, a), ~errs'[p], NEW j \in 1 .. Len(ObjectBundle[p]),
           a.op = "delete", UNCHANGED <<instances, replicas>>, Wanted(p, a.ns, j, a.r)
    PROVE  /\ Wanted(p, a.ns, j, a.r)'
           /\ Supplied(p, a.ns, j, a.r) => Supplied(p, a.ns, j, a.r)'
<1> DEFINE len == Len(ObjectBundle[p])
           c == instances[<<a.ns, ObjectBundle[p][j]>>].current
           d == replicas[p]
           o == <<a.ns, ObjectBundle[p][j], a.r>>
           o0 == <<a.ns, ObjectBundle[p][len - a.n], a.r>>
<1>1. /\ a \in Pending(p) /\ a.n \in Nat /\ a.n < len /\ len \in Nat
      /\ \A x \in Pending(p) : x.ns = a.ns /\ x.r = a.r => x = a
      /\ a.r \in Int /\ c \in Int /\ d \in Int
    BY Zenon, ActionFits, BundleTypes
<1>2. d <= a.r /\ a.r < c
    BY Zenon, ActionFits DEF Fits
<1>3. len - a.n \in 1 .. len /\ CurrentId(p, a) = ObjectBundle[p][len - a.n]
    BY <1>1 DEF ObjectIndex, CurrentId
<1>4. ~Skipped(p, a) /\ ~NothingToSend(p, a)
  <2>1. /\ instances[<<a.ns, ObjectBundle[p][len - a.n]>>].current \in Int
        /\ a.r < instances[<<a.ns, ObjectBundle[p][len - a.n]>>].current
    BY Zenon, <1>3, ActionFits DEF Fits
  <2> QED
    BY <1>1, <1>3, <2>1 DEF Skipped, NothingToSend
<1>5. Apply(p, a) = objects \ {o0}
    BY Zenon, <1>3 DEF Apply
<1>6. PICK m \in {a.n, a.n + 1} :
         /\ \A x \in Pending(p)' : x.ns = a.ns /\ x.r = a.r => x.n = m
         /\ m < len => \E x \in Pending(p)' : x.ns = a.ns /\ x.r = a.r /\ x.op = a.op /\ x.n = m
         /\ objects' \in {objects, objects \ {o0}} /\ (m # a.n => objects' = objects \ {o0})
    BY <1>4, <1>5, ActionProgress
<1>7. o = o0 <=> j = len - a.n
    BY Zenon, <1>3, BundleTypes
<1>8. o \in objects => j <= len - a.n
    BY Zenon, <1>1, <1>2 DEF Wanted
<1>9. Supplied(p, a.ns, j, a.r) => o \in objects \/ j >= len - a.n
    BY <1>1, <1>2 DEF Supplied
<1> HIDE DEF len, o, o0
<1>10. o \in objects' => m < len /\ j <= len - m
    BY <1>1, <1>6, <1>7, <1>8 DEF len
<1>11. o \in objects' => \E x \in Pending(p)' : /\ x.ns = a.ns /\ x.r = a.r /\ x.op = "delete"
                                               /\ j <= len - x.n
    BY Zenon, <1>6, <1>10
<1>12. o \in objects \/ j >= len - a.n =>
          \/ o \in objects'
          \/ \A x \in Pending(p)' : x.ns = a.ns /\ x.r = a.r => j >= len - x.n
    BY <1>1, <1>6, <1>7
<1>13. Wanted(p, a.ns, j, a.r)'
    BY <1>1, <1>2, <1>11 DEF Wanted, o, len
<1>14. (\/ o \in objects'
        \/ \A x \in Pending(p)' : x.ns = a.ns /\ x.r = a.r => j >= len - x.n) =>
           Supplied(p, a.ns, j, a.r)'
    BY Zenon, <1>1, <1>2 DEF Supplied, o, len
<1> QED
    BY Zenon, <1>9, <1>12, <1>13, <1>14

\* creation forwards, leaving out the objects whose template is empty.
LEMMA CreationInOrder ==
    ASSUME ControlInv, InstancesInv, ActionInv, NEW p \in Phases, NEW a \in running[p],
           ExecuteObject(p, a), ~errs'[p], NEW j \in 1 .. Len(ObjectBundle[p]),
           a.op = "create", UNCHANGED <<instances, replicas>>, Wanted(p, a.ns, j, a.r)
    PROVE  /\ Wanted(p, a.ns, j, a.r)'
           /\ ObjectBundle[p][j] \notin EmptyTemplates /\ Supplied(p, a.ns, j, a.r) =>
                 Supplied(p, a.ns, j, a.r)'
<1> DEFINE len == Len(ObjectBundle[p])
           c == instances[<<a.ns, ObjectBundle[p][j]>>].current
           d == replicas[p]
           o == <<a.ns, ObjectBundle[p][j], a.r>>
           o0 == <<a.ns, ObjectBundle[p][a.n + 1], a.r>>
<1>1. /\ a \in Pending(p) /\ a.n \in Nat /\ a.n < len /\ len \in Nat
      /\ \A x \in Pending(p) : x.ns = a.ns /\ x.r = a.r => x = a
      /\ a.r \in Int /\ c \in Int /\ d \in Int
    BY Zenon, ActionFits, BundleTypes
<1>2. c <= a.r /\ a.r < d
    BY Zenon, ActionFits DEF Fits
<1>3. a.n + 1 \in 1 .. len /\ CurrentId(p, a) = ObjectBundle[p][a.n + 1]
    BY <1>1 DEF ObjectIndex, CurrentId
<1>4. ~Skipped(p, a) /\ (NothingToSend(p, a) <=> ObjectBundle[p][a.n + 1] \in EmptyTemplates)
    BY Zenon, <1>3 DEF Skipped, NothingToSend
<1>5. Apply(p, a) = objects \cup {o0}
    BY Zenon, <1>3 DEF Apply
<1>6. PICK m \in {a.n, a.n + 1} :
         /\ \A x \in Pending(p)' : x.ns = a.ns /\ x.r = a.r => x.n = m
         /\ m < len => \E x \in Pending(p)' : x.ns = a.ns /\ x.r = a.r /\ x.op = a.op /\ x.n = m
         /\ objects' \in {objects, objects \cup {o0}}
         /\ m # a.n /\ ObjectBundle[p][a.n + 1] \notin EmptyTemplates =>
               objects' = objects \cup {o0}
    BY <1>4, <1>5, ActionProgress
<1>7. o = o0 <=> j = a.n + 1
    BY Zenon, <1>3, BundleTypes
<1>8. o \in objects => j <= a.n + 1
    BY Zenon, <1>1, <1>2 DEF Wanted
<1>9. Supplied(p, a.ns, j, a.r) => o \in objects \/ a.n < j
    BY <1>1, <1>2 DEF Supplied
<1>10. j = a.n + 1 => ObjectBundle[p][j] = ObjectBundle[p][a.n + 1]
    BY Zenon
<1> HIDE DEF len, o, o0
<1>11. o \in objects' => \A x \in Pending(p)' : x.ns = a.ns /\ x.r = a.r => j <= x.n + 1
    BY <1>1, <1>6, <1>7, <1>8
<1>12. (o \in objects \/ a.n < j) /\ ObjectBundle[p][j] \notin EmptyTemplates =>
          o \in objects' \/ (m < len /\ m < j)
    BY <1>1, <1>6, <1>7, <1>10 DEF len
<1>13. Wanted(p, a.ns, j, a.r)'
    BY <1>1, <1>2, <1>11 DEF Wanted, o
<1>14. o \in objects' \/ (m < len /\ m < j) => Supplied(p, a.ns, j, a.r)'
    BY Zenon, <1>1, <1>2, <1>6 DEF Supplied, o
<1> QED
    BY Zenon, <1>9, <1>12, <1>13, <1>14

\* ExecuteObject leaves the pairs of its phase as the invariant about the cluster says.
LEMMA ObjectCluster ==
    ASSUME ControlInv, InstancesInv, ActionInv, ClusterInv, NEW p \in Phases,
           NEW a \in running[p], ExecuteObject(p, a)
    PROVE  OwnPart(p)'
<1>1. /\ PhaseStep(p) /\ UNCHANGED <<instances, replicas, pc, prepared>>
      /\ Prepared(p)' = Prepared(p) /\ Working(p)
    BY Zenon DEF PhaseStep, ExecuteObject, Prepared, Working, ActionInv, QueuePart
<1>2. ASSUME NEW ns \in Prepared(p), NEW j \in 1 .. Len(ObjectBundle[p]), NEW r \in ReplicaRange,
             Faultless(<<ns, ObjectBundle[p][j]>>)'
      PROVE  /\ Wanted(p, ns, j, r)'
             /\ ObjectBundle[p][j] \notin EmptyTemplates => Supplied(p, ns, j, r)'
  <2>1. <<ns, ObjectBundle[p][j]>> \in Pairs[p]
    BY Zenon, PreparedTypes, BundleTypes, PairTypes
  <2>2. ~errs'[p] /\ Faultless(<<ns, ObjectBundle[p][j]>>)
    BY Zenon, <1>1, <1>2, <2>1, FaultsKept
  <2>3. /\ Wanted(p, ns, j, r)
        /\ ObjectBundle[p][j] \notin EmptyTemplates => Supplied(p, ns, j, r)
    BY Zenon, <1>1, <2>2 DEF ClusterInv, WorkPart
  <2>4. CASE ns # a.ns \/ r # a.r
    <3>1. <<ns, ObjectBundle[p][j], r>> \in objects' <=> <<ns, ObjectBundle[p][j], r>> \in objects
        BY Zenon, <2>4, ObjectsMoved
    <3>2. \A x : x.ns = ns /\ x.r = r => (x \in Pending(p)' <=> x \in Pending(p))
        BY Zenon, <2>2, <2>4, ActionProgress
    <3>3. Wanted(p, ns, j, r)'
        BY Zenon, <1>1, <2>3, <3>1, <3>2 DEF Wanted
    <3>4. Supplied(p, ns, j, r) => Supplied(p, ns, j, r)'
        BY Zenon, <1>1, <3>1, <3>2 DEF Supplied
    <3> QED
        BY Zenon, <2>3, <3>3, <3>4
  <2>5. CASE ns = a.ns /\ r = a.r
    <3>1. CASE a.op = "delete"
        BY Zenon, <1>1, <2>2, <2>3, <2>5, <3>1, DeletionInOrder
    <3>2. CASE a.op = "create"
        BY Zenon, <1>1, <2>2, <2>3, <2>5, <3>2, CreationInOrder
    <3>3. CASE a.op = "patch"
      <4>1. /\ a.r < instances[<<ns, ObjectBundle[p][j]>>].current /\ a.r < replicas[p]
            /\ a.r \in Int /\ instances[<<ns, ObjectBundle[p][j]>>].current \in Int
            /\ replicas[p] \in Int
        BY Zenon, <2>5, <3>3, ActionFits DEF Fits
      <4>2. Apply(p, a) = objects
        BY Zenon, <3>3 DEF Apply
      <4>3. UNCHANGED objects
        BY Zenon, <4>2 DEF ExecuteObject, ObjectDone, ObjectRefused, ObjectFails, ObjectRetries
      <4>4. Wanted(p, ns, j, r)'
        BY <1>1, <2>5, <4>1 DEF Wanted
      <4>5. Supplied(p, ns, j, r) => Supplied(p, ns, j, r)'
        BY <1>1, <2>5, <4>1, <4>3 DEF Supplied
      <4> QED
        BY Zenon, <2>3, <4>4, <4>5
    <3> QED
        BY Zenon, <3>1, <3>2, <3>3, ActionFits
  <2> QED
    BY Zenon, <2>4, <2>5
<1>3. ASSUME NEW ns \in Namespaces, NEW id \in Ids, <<ns, id>> \in Pairs[p]
      PROVE  SettledPart(ns, id)' /\ UnseenPart(ns, id)'
  <2>1. SettledPart(ns, id) /\ UnseenPart(ns, id)
    BY Zenon DEF ClusterInv
  <2>2. CASE ns \in Prepared(p)
    <3>1. instances[<<ns, id>>].exists /\ ~Settled(ns, id)'
        BY <1>1, <1>3, <2>2, PairTypes, SettledHere DEF InstancesInv, Working
    <3> QED
        BY Zenon, <1>1, <3>1 DEF SettledPart, UnseenPart
  <2>3. CASE ns \notin Prepared(p)
    <3>1. Settled(ns, id)
        BY Zenon, <1>1, <1>3, <2>3, SettledHere
    <3>2. \A r : <<ns, id, r>> \in objects' <=> <<ns, id, r>> \in objects
        BY Zenon, <2>3, ObjectsMoved
    <3>3. UnseenPart(ns, id)'
        BY Zenon, <1>1, <2>1, <3>2 DEF UnseenPart
    <3>4. SettledPart(ns, id)'
        BY Zenon, <1>1, <2>1, <3>1, <3>2, FaultsKept DEF SettledPart
    <3> QED
        BY Zenon, <3>3, <3>4
  <2> QED
    BY Zenon, <2>2, <2>3
<1> QED
    BY Zenon, <1>1, <1>2, <1>3 DEF OwnPart, WorkPart

\* ExecutePhase finds in a namespace as many replicas as it then records, if no phase
\* reported an error about the pair and its listing, if any, worked.
LEMMA CountIsFound ==
    ASSUME ControlInv, InstancesInv, ActionInv, ClusterInv, NEW p \in Phases, PrepareNamespace(p),
           Working(p)', NEW id \in Range(ObjectBundle[p]), NEW r \in ReplicaRange,
           NEW ns, ns = NamespaceList[p][prepared[p] + 1], Faultless(<<ns, id>>)'
    PROVE  /\ <<ns, id, r>> \in objects => r < instances'[<<ns, id>>].current
           /\ id \notin EmptyTemplates /\ r < instances'[<<ns, id>>].current =>
                 <<ns, id, r>> \in objects
<1>1. ns \in Namespaces /\ ns \notin Prepared(p) /\ PhaseStep(p)
    BY Zenon, QueuePrepared DEF PhaseStep
<1>2. \/ instances[<<ns, id>>].exists /\ instances'[<<ns, id>>].current =
                                        instances[<<ns, id>>].current
      \/ <<ns, id>> \in unlisted'
      \/ /\ ~instances[<<ns, id>>].exists
         /\ instances'[<<ns, id>>].current =
               IF id \in UnknownIds THEN Cardinality(ReplicasOf(ns, id)) ELSE 0
    BY Zenon, CountsPrepared
<1>3. id \in Ids /\ ns \in Range(NamespaceList[p])
  <2>1. prepared[p] < Len(NamespaceList[p])
    BY Zenon DEF PrepareNamespace
  <2>2. prepared[p] + 1 \in 1 .. Len(NamespaceList[p])
    BY <2>1, NamespaceTypes DEF ControlInv
  <2> QED
    BY Zenon, <2>2, BundleTypes, NamespaceTypes
<1>4. <<ns, id>> \in Pairs[p]
    BY Zenon, <1>3, PairTypes
<1>5. Faultless(<<ns, id>>) /\ <<ns, id>> \notin unlisted'
  <2>1. Faultless(<<ns, id>>)
    BY Zenon, <1>1, FaultsKept
  <2>2. <<ns, id>> \notin unlisted'
    BY Zenon DEF Faultless
  <2> QED
    BY Zenon, <2>1, <2>2
<1>6. SettledPart(ns, id) /\ UnseenPart(ns, id)
    BY Zenon, <1>1, <1>3 DEF ClusterInv
<1>7. Settled(ns, id)
    BY Zenon, <1>1, <1>4, SettledHere
<1>8. CASE instances[<<ns, id>>].exists /\ instances'[<<ns, id>>].current =
                                           instances[<<ns, id>>].current
    BY Zenon, <1>5, <1>6, <1>7, <1>8 DEF SettledPart
<1>9. CASE /\ ~instances[<<ns, id>>].exists
           /\ instances'[<<ns, id>>].current =
                 IF id \in UnknownIds THEN Cardinality(ReplicasOf(ns, id)) ELSE 0
  <2>1. PICK k \in 0 .. MaxReplicas :
          /\ <<ns, id>> \notin UnknownPairs => k = 0
          /\ \A i \in ReplicaRange : <<ns, id, i>> \in objects <=> i < k
    BY Zenon, <1>6, <1>9 DEF UnseenPart
  <2>2. <<ns, id>> \in UnknownPairs => id \in UnknownIds
    BY Zenon DEF UnknownPairs
  <2>3. Cardinality(ReplicasOf(ns, id)) = k
    BY Zenon, <2>1, ListingCounts
  <2>4. instances'[<<ns, id>>].current = k
    BY Zenon, <1>9, <2>1, <2>2, <2>3
  <2> QED
    BY Zenon, <2>1, <2>4
<1> QED
    BY Zenon, <1>2, <1>5, <1>8, <1>9

\* Preparing a namespace leaves the pairs of its phase as the invariant says.
LEMMA PrepareCluster ==
    ASSUME ControlInv, InstancesInv, ActionInv, ClusterInv, NEW p \in Phases, PrepareNamespace(p),
           Working(p)'
    PROVE  OwnPart(p)'
<1> DEFINE C(m) == instances'[<<m, ObjectBundle[p][1]>>].current
           S(m) == BuildActions(m, C(m), replicas[p])
           Extended(m) ==
              /\ m \in Namespaces /\ m \notin Prepared(p) /\ Prepared(p)' = Prepared(p) \cup {m}
              /\ 1 \in 1 .. Len(ObjectBundle[p]) /\ S(m) \in Seq(Actions)
              /\ \A i, j \in 1 .. Len(ObjectBundle[p]) :
                    instances'[<<m, ObjectBundle[p][i]>>].current =
                       instances'[<<m, ObjectBundle[p][j]>>].current
              /\ Pending(p)' = Pending(p) \cup Range(S(m))
              /\ UNCHANGED <<replicas, pc, objects>>
<1>z. Extended(NamespaceList[p][prepared[p] + 1])
    BY Zenon, QueuePrepared
<1> HIDE DEF Extended
<1>a. PICK m : m = NamespaceList[p][prepared[p] + 1] /\ Extended(m)
    BY Zenon, <1>z
<1> DEFINE c == C(m)
           s == S(m)
<1>1. /\ m \in Namespaces /\ m \notin Prepared(p) /\ Prepared(p)' = Prepared(p) \cup {m}
      /\ 1 \in 1 .. Len(ObjectBundle[p]) /\ s \in Seq(Actions)
      /\ \A i, j \in 1 .. Len(ObjectBundle[p]) :
            instances'[<<m, ObjectBundle[p][i]>>].current =
               instances'[<<m, ObjectBundle[p][j]>>].current
      /\ Pending(p)' = Pending(p) \cup Range(s)
      /\ UNCHANGED <<replicas, pc, objects>>
    BY Zenon, <1>a DEF Extended
<1>2. PhaseStep(p) /\ Working(p) /\ PendingPart(p)
    BY Zenon, <1>1 DEF PhaseStep, Working, ActionInv
<1>3. \A ns \in Namespaces, id \in Ids : ns # m => instances'[<<ns, id>>] = instances[<<ns, id>>]
    BY Zenon, <1>a, CountsPrepared
<1>4. c \in 0 .. MaxReplicas /\ replicas[p] \in 0 .. MaxReplicas /\ MaxReplicas \in Nat
  <2>1. ObjectBundle[p][1] \in Ids
    BY Zenon, <1>1, BundleTypes
  <2> QED
    BY Zenon, <1>1, <1>2, <2>1, RecordsKept, PhaseConfigAssumption
       DEF AreRecords, InstancesStates, ControlInv, PhaseConfigAssumption
<1>5. ASSUME NEW j \in 1 .. Len(ObjectBundle[p]), NEW r \in ReplicaRange,
             Faultless(<<m, ObjectBundle[p][j]>>)'
      PROVE  /\ <<m, ObjectBundle[p][j], r>> \in objects => r < c
             /\ ObjectBundle[p][j] \notin EmptyTemplates /\ r < c =>
                   <<m, ObjectBundle[p][j], r>> \in objects
             /\ instances'[<<m, ObjectBundle[p][j]>>].current = c
  <2>1. /\ instances'[<<m, ObjectBundle[p][j]>>].current = c
        /\ ObjectBundle[p][j] \in Range(ObjectBundle[p])
    BY Zenon, <1>1, BundleTypes
  <2> QED
    BY Zenon, <1>a, <1>5, <2>1, CountIsFound
<1> HIDE DEF c
<1>6. /\ \A i \in 1 .. Len(s) : s[i].ns = m /\ s[i].n = 0 /\ Fits(s[i], c, replicas[p])
      /\ \A r \in replicas[p] .. c - 1 : \E i \in 1 .. Len(s) : s[i].r = r /\ s[i].op = "delete"
      /\ \A r \in c .. replicas[p] - 1 : \E i \in 1 .. Len(s) : s[i].r = r /\ s[i].op = "create"
  <2>1. AsksFor(s, m, c, replicas[p])
    BY Zenon, <1>1, <1>4, ActionsBuilt DEF c
  <2> HIDE DEF s
  <2> QED
    BY Zenon, <2>1 DEF AsksFor
<1> HIDE DEF s
<1>7. Range(s) = {s[i] : i \in 1 .. Len(s)}
    BY <1>1 DEF Range
<1>8. /\ \A x \in Range(s) : x.ns = m
      /\ \A r \in replicas[p] .. c - 1 :
            \E x \in Range(s) : x.ns = m /\ x.r = r /\ x.op = "delete" /\ x.n = 0
      /\ \A r \in c .. replicas[p] - 1 :
            \E x \in Range(s) : x.ns = m /\ x.r = r /\ x.op = "create" /\ x.n = 0
    BY <1>6, <1>7
<1>9. ASSUME NEW ns \in Prepared(p)', NEW j \in 1 .. Len(ObjectBundle[p]), NEW r \in ReplicaRange,
             Faultless(<<ns, ObjectBundle[p][j]>>)'
      PROVE  /\ Wanted(p, ns, j, r)'
             /\ ObjectBundle[p][j] \notin EmptyTemplates => Supplied(p, ns, j, r)'
  <2>1. r \in Int /\ j \in Int /\ j <= Len(ObjectBundle[p]) /\ Len(ObjectBundle[p]) \in Nat /\ 0 < j
    BY <1>4, BundleTypes DEF ReplicaRange
  <2>2. CASE ns = m
    <3>1. /\ <<ns, ObjectBundle[p][j], r>> \in objects' => r < c
          /\ ObjectBundle[p][j] \notin EmptyTemplates /\ r < c =>
                <<ns, ObjectBundle[p][j], r>> \in objects'
          /\ instances'[<<ns, ObjectBundle[p][j]>>].current = c
        BY Zenon, <1>1, <1>5, <1>9, <2>2
    <3>2. r < c /\ r >= replicas[p] =>
             \E x \in Pending(p)' : /\ x.ns = ns /\ x.r = r /\ x.op = "delete"
                                    /\ j <= Len(ObjectBundle[p]) - x.n
      <4>1. r < c /\ r >= replicas[p] => r \in replicas[p] .. c - 1
        BY <1>4, <2>1
      <4> QED
        BY <1>1, <1>8, <2>1, <2>2, <4>1
    <3>3. r >= c /\ r < replicas[p] =>
             \E x \in Pending(p)' : x.ns = ns /\ x.r = r /\ x.op = "create" /\ x.n < j
      <4>1. r >= c /\ r < replicas[p] => r \in c .. replicas[p] - 1
        BY <1>4, <2>1
      <4> QED
        BY <1>1, <1>8, <2>1, <2>2, <4>1
    <3>4. Wanted(p, ns, j, r)'
        BY <1>1, <1>4, <2>1, <3>1, <3>2 DEF Wanted
    <3>5. ObjectBundle[p][j] \notin EmptyTemplates => Supplied(p, ns, j, r)'
        BY <1>1, <1>4, <2>1, <3>1, <3>3 DEF Supplied
    <3> QED
        BY Zenon, <3>4, <3>5
  <2>3. CASE ns # m
    <3>1. ns \in Prepared(p) /\ ns \in Namespaces /\ ObjectBundle[p][j] \in Ids
        BY Zenon, <1>1, <2>3, PreparedTypes, BundleTypes
    <3>2. instances'[<<ns, ObjectBundle[p][j]>>] = instances[<<ns, ObjectBundle[p][j]>>]
        BY Zenon, <1>3, <2>3, <3>1
    <3>3. \A x : x.ns = ns => (x \in Pending(p)' <=> x \in Pending(p))
        BY Zenon, <1>1, <1>8, <2>3
    <3>4. Faultless(<<ns, ObjectBundle[p][j]>>)
        BY Zenon, <1>2, <1>9, FaultsKept
    <3>5. /\ Wanted(p, ns, j, r)
          /\ ObjectBundle[p][j] \notin EmptyTemplates => Supplied(p, ns, j, r)
        BY Zenon, <1>2, <3>1, <3>4 DEF ClusterInv, WorkPart
    <3>6. Wanted(p, ns, j, r)'
        BY Zenon, <1>1, <3>2, <3>3, <3>5 DEF Wanted
    <3>7. Supplied(p, ns, j, r) => Supplied(p, ns, j, r)'
        BY Zenon, <1>1, <3>2, <3>3 DEF Supplied
    <3> QED
        BY Zenon, <3>5, <3>6, <3>7
  <2> QED
    BY Zenon, <2>2, <2>3
<1>10. ASSUME NEW ns \in Namespaces, NEW id \in Ids, <<ns, id>> \in Pairs[p]
       PROVE  SettledPart(ns, id)' /\ UnseenPart(ns, id)'
  <2>1. SettledPart(ns, id) /\ UnseenPart(ns, id)
    BY DEF ClusterInv
  <2>2. instances[<<ns, id>>].exists => instances'[<<ns, id>>].exists
    BY Zenon, <1>2, RecordsKept
  <2>3. UnseenPart(ns, id)'
    BY Zenon, <1>1, <2>1, <2>2 DEF UnseenPart
  <2>4. ASSUME Settled(ns, id)'
        PROVE  Settled(ns, id) /\ ns # m
    <3>1. ns \notin Prepared(p)'
        BY Zenon, <1>2, <1>10, <2>4, SettledHere
    <3> QED
        BY Zenon, <1>1, <1>2, <1>10, <3>1, SettledHere
  <2>5. SettledPart(ns, id)'
    BY Zenon, <1>1, <1>2, <1>3, <2>1, <2>4, FaultsKept DEF SettledPart
  <2> QED
    BY Zenon, <2>3, <2>5
<1> QED
    BY Zenon, <1>9, <1>10 DEF OwnPart, WorkPart

\* FinishPhase: a phase that ends without error has done all it was asked to, so that the
\* deferred functions record the truth.
LEMMA FinishCluster ==
    ASSUME ControlInv, InstancesInv, ActionInv, ClusterInv, NEW p \in Phases, FinishPhase(p)
    PROVE  OwnPart(p)'
<1>1. /\ PhaseStep(p) /\ Working(p) /\ ~Working(p)' /\ UNCHANGED <<objects, replicas>>
      /\ instances' = DeferredUpdate(p, prepared[p], instances)
    BY Zenon DEF PhaseStep, FinishPhase, Working, ControlInv
<1>2. Pending(p) = {}
  <2>1. todo[p] = <<>> /\ running[p] = {}
    BY Zenon DEF FinishPhase
  <2>2. Range(todo[p]) = {}
    BY <2>1 DEF Range
  <2> QED
    BY Zenon, <2>1, <2>2 DEF Pending
<1>3. ASSUME NEW ns \in Namespaces, NEW id \in Ids
      PROVE  /\ instances[<<ns, id>>].exists => instances'[<<ns, id>>].exists
             /\ ns \in Prepared(p) /\ id \in Range(ObjectBundle[p]) =>
                   instances'[<<ns, id>>].current = instances[<<ns, id>>].desired
             /\ ns \notin Prepared(p) => instances'[<<ns, id>>] = instances[<<ns, id>>]
  <2>1. AreRecords(instances)
    BY Zenon DEF InstancesInv
  <2> QED
    BY <1>1, <2>1, CountsDeferred
<1>4. ASSUME NEW ns \in Namespaces, NEW id \in Ids, <<ns, id>> \in Pairs[p]
      PROVE  SettledPart(ns, id)' /\ UnseenPart(ns, id)'
  <2>1. SettledPart(ns, id) /\ UnseenPart(ns, id)
    BY Zenon DEF ClusterInv
  <2>2. UnseenPart(ns, id)'
    BY Zenon, <1>1, <1>3, <2>1 DEF UnseenPart
  <2>3. CASE ns \in Prepared(p)
    <3>1. id \in Range(ObjectBundle[p])
        BY Zenon, <1>4, PairTypes
    <3>2. instances'[<<ns, id>>].current = replicas[p]
        BY <1>1, <1>3, <2>3, <3>1 DEF InstancesInv
    <3>3. PICK j \in 1 .. Len(ObjectBundle[p]) : id = ObjectBundle[p][j]
        BY Zenon, <3>1, BundlePlace
    <3>4. ASSUME Faultless(<<ns, id>>)', NEW r \in ReplicaRange
          PROVE  /\ <<ns, id, r>> \in objects => r < replicas[p]
                 /\ id \notin EmptyTemplates /\ r < replicas[p] => <<ns, id, r>> \in objects
      <4>1. r \in Int /\ replicas[p] \in Int
        BY PhaseConfigAssumption DEF PhaseConfigAssumption, ReplicaRange, ControlInv
      <4>2. Faultless(<<ns, id>>)
        BY Zenon, <1>1, <3>4, FaultsKept
      <4>3. Wanted(p, ns, j, r) /\ (id \notin EmptyTemplates => Supplied(p, ns, j, r))
        BY Zenon, <1>1, <2>3, <3>3, <4>2 DEF ClusterInv, WorkPart
      <4>4. <<ns, id, r>> \in objects => r < replicas[p]
        BY <1>2, <3>3, <4>1, <4>3 DEF Wanted
      <4>5. Supplied(p, ns, j, r) /\ r < replicas[p] => <<ns, id, r>> \in objects
        BY <1>2, <3>3, <4>1 DEF Supplied
      <4> QED
        BY Zenon, <4>3, <4>4, <4>5
    <3>5. SettledPart(ns, id)'
        BY Zenon, <1>1, <3>2, <3>4 DEF SettledPart
    <3> QED
        BY Zenon, <2>2, <3>5
  <2>4. CASE ns \notin Prepared(p)
    <3>1. Settled(ns, id)
        BY Zenon, <1>1, <1>4, <2>4, SettledHere
    <3>2. SettledPart(ns, id)'
        BY Zenon, <1>1, <1>3, <2>1, <2>4, <3>1, FaultsKept DEF SettledPart
    <3> QED
        BY Zenon, <2>2, <3>2
  <2> QED
    BY Zenon, <2>3, <2>4
<1> QED
    BY Zenon, <1>1, <1>4 DEF OwnPart, WorkPart

\* No step breaks the invariant about the cluster.
LEMMA ClusterStep ==
    ASSUME ControlInv, InstancesInv, ActionInv, ClusterInv, [Next]_vars
    PROVE  ClusterInv'
<1>1. ASSUME NEW p \in Phases, PhaseStep(p)
      PROVE  OwnPart(p)'
  <2>1. CASE \E a \in running[p] : ExecuteObject(p, a)
    BY Zenon, <2>1, ObjectCluster
  <2>2. CASE FinishPhase(p)
    BY <2>2, FinishCluster
  <2>3. CASE PrepareNamespace(p) /\ Working(p)'
    BY Zenon, <2>3, PrepareCluster
  <2>4. ASSUME ~Working(p)', errs' = [errs EXCEPT ![p] = TRUE], UNCHANGED objects
        PROVE  OwnPart(p)'
    <3>1. WorkPart(p)'
        BY Zenon, <2>4 DEF WorkPart
    <3>2. ASSUME NEW ns \in Namespaces, NEW id \in Ids, <<ns, id>> \in Pairs[p]
          PROVE  SettledPart(ns, id)' /\ UnseenPart(ns, id)'
      <4>1. errs'[p]
        BY Zenon, <2>4 DEF ControlInv
      <4>2. ~Faultless(<<ns, id>>)'
        BY Zenon, <3>2, <4>1 DEF Faultless
      <4>3. UnseenPart(ns, id) /\ (instances[<<ns, id>>].exists => instances'[<<ns, id>>].exists)
        BY Zenon, <1>1, RecordsKept DEF ClusterInv
      <4> QED
        BY Zenon, <2>4, <4>2, <4>3 DEF SettledPart, UnseenPart
    <3> QED
        BY Zenon, <3>1, <3>2 DEF OwnPart
  <2>5. CASE PrepareFails(p) \/ (PrepareNamespace(p) /\ ~Working(p)')
    <3>1. ~Working(p)' /\ errs' = [errs EXCEPT ![p] = TRUE] /\ UNCHANGED objects
        BY Zenon, <2>5 DEF PrepareFails, PrepareNamespace, Working, ControlInv
    <3> QED
        BY Zenon, <2>4, <3>1
  <2>6. ASSUME UNCHANGED <<instances, objects, replicas, errs, unlisted>>,
               Prepared(p)' = Prepared(p), Working(p)',
               (Working(p) /\ Pending(p)' = Pending(p)) \/ (~Working(p) /\ Prepared(p) = {})
        PROVE  OwnPart(p)'
    <3>1. WorkPart(p)'
      <4>1. WorkPart(p) /\ \A x : Faultless(x)' => Faultless(x)
        BY Zenon, <2>6 DEF ClusterInv, Faultless
      <4>2. CASE Prepared(p) = {}
        BY Zenon, <2>6, <4>2 DEF WorkPart
      <4>3. CASE Working(p) /\ Pending(p)' = Pending(p)
        <5>1. ASSUME NEW ns, NEW j, NEW r
              PROVE  Wanted(p, ns, j, r) => Wanted(p, ns, j, r)'
            BY Zenon, <2>6, <4>3 DEF Wanted
        <5>2. ASSUME NEW ns, NEW j, NEW r
              PROVE  Supplied(p, ns, j, r) => Supplied(p, ns, j, r)'
            BY Zenon, <2>6, <4>3 DEF Supplied
        <5> QED
            BY Zenon, <2>6, <4>1, <4>3, <5>1, <5>2 DEF WorkPart
      <4> QED
        BY Zenon, <2>6, <4>2, <4>3
    <3>2. ASSUME NEW ns \in Namespaces, NEW id \in Ids, <<ns, id>> \in Pairs[p]
          PROVE  SettledPart(ns, id)' /\ UnseenPart(ns, id)'
      <4>1. SettledPart(ns, id) /\ UnseenPart(ns, id)
        BY Zenon DEF ClusterInv
      <4>2. Settled(ns, id)' => Settled(ns, id)
        BY Zenon, <1>1, <2>6, <3>2, SettledHere
      <4>3. Faultless(<<ns, id>>)' => Faultless(<<ns, id>>)
        BY Zenon, <2>6 DEF Faultless
      <4> QED
        BY Zenon, <2>6, <4>1, <4>2, <4>3 DEF SettledPart, UnseenPart
    <3> QED
        BY Zenon, <3>1, <3>2 DEF OwnPart
  <2>7. CASE StartPhase(p)
    <3>1. CASE Working(p)'
      <4>1. /\ UNCHANGED <<instances, objects, replicas, errs, unlisted, prepared>> /\ Working(p)'
            /\ ~Working(p) /\ prepared[p] = 0
        BY Zenon, <2>7, <3>1 DEF StartPhase, ControlInv, Working
      <4>2. Prepared(p)' = Prepared(p) /\ Prepared(p) = {}
        BY <4>1 DEF Prepared
      <4> QED
        BY Zenon, <2>6, <4>1, <4>2
    <3>2. CASE ~Working(p)'
      <4>1. ~Working(p)' /\ errs' = [errs EXCEPT ![p] = TRUE] /\ UNCHANGED objects
        BY Zenon, <2>7, <3>2 DEF StartPhase, ControlInv, Working
      <4> QED
        BY Zenon, <2>4, <4>1
    <3> QED
        BY Zenon, <3>1, <3>2
  <2>8. CASE StartTuningSet(p) \/ StartAction(p)
    <3>1. /\ UNCHANGED <<instances, objects, replicas, errs, unlisted, prepared>>
          /\ Working(p) /\ Working(p)'
        BY Zenon, <2>8 DEF StartTuningSet, StartAction, ControlInv, Working
    <3>2. Prepared(p)' = Prepared(p)
        BY Zenon, <3>1 DEF Prepared
    <3>3. Pending(p)' = Pending(p)
        BY Zenon, <2>8, ActionStarts DEF StartTuningSet, Pending
    <3> QED
        BY Zenon, <2>6, <3>1, <3>2, <3>3
  <2> QED
    BY Zenon, <1>1, <2>1, <2>2, <2>3, <2>5, <2>7, <2>8 DEF PhaseStep
<1>2. ASSUME NEW p \in Phases, PhaseStep(p)
      PROVE  ClusterInv'
  <2>1. objects' \subseteq Objects
    BY Zenon, <1>2, OthersKeepObjects
  <2>2. \A q \in Phases : WorkPart(q)'
    BY Zenon, <1>1, <1>2, OthersKeepCluster DEF OwnPart
  <2>3. \A ns \in Namespaces, id \in Ids : SettledPart(ns, id)' /\ UnseenPart(ns, id)'
    BY Zenon, <1>1, <1>2, OthersKeepCluster DEF OwnPart
  <2> QED
    BY Zenon, <2>1, <2>2, <2>3 DEF ClusterInv
<1>3. CASE FinishStep \/ UNCHANGED vars
  <2>1. UNCHANGED <<replicas, pc, prepared, instances, todo, running, objects, errs, unlisted>>
    BY Zenon, <1>3 DEF FinishStep, vars
  <2>2. \A p \in Phases : Prepared(p)' = Prepared(p) /\ Pending(p)' = Pending(p)
    BY Zenon, <2>1 DEF Prepared, Pending
  <2>3. ASSUME NEW x
        PROVE  Faultless(x)' <=> Faultless(x)
    BY Zenon, <2>1 DEF Faultless
  <2>4. ASSUME NEW p \in Phases
        PROVE  WorkPart(p)'
    <3>1. ASSUME NEW ns, NEW j, NEW r
          PROVE  /\ Wanted(p, ns, j, r) => Wanted(p, ns, j, r)'
                 /\ Supplied(p, ns, j, r) => Supplied(p, ns, j, r)'
        BY Zenon, <2>1, <2>2 DEF Wanted, Supplied
    <3> QED
        BY Zenon, <2>1, <2>2, <2>3, <3>1 DEF ClusterInv, WorkPart, Working
  <2>5. ASSUME NEW ns \in Namespaces, NEW id \in Ids
        PROVE  SettledPart(ns, id)' /\ UnseenPart(ns, id)'
    <3>1. Settled(ns, id)' <=> Settled(ns, id)
        BY Zenon, <2>1, <2>2 DEF Settled, Working
    <3> QED
        BY Zenon, <2>1, <2>3, <3>1 DEF ClusterInv, SettledPart, UnseenPart
  <2> QED
    BY Zenon, <2>1, <2>4, <2>5 DEF ClusterInv
<1> QED
    BY Zenon, <1>2, <1>3 DEF Next, Terminated

-----------------------------------------------------------------------------
\* Nothing is recorded at first, and what there is somebody else created.
LEMMA PhaseInit ==
    ASSUME Init
    PROVE  PhaseInv
<1>1. MaxReplicas \in Nat
    BY Zenon, PhaseConfigAssumption DEF PhaseConfigAssumption
<1>2. \A p \in Phases : /\ ~Working(p) /\ prepared[p] = 0 /\ todo[p] = <<>> /\ running[p] = {}
                        /\ pc[p] = "idle"
    BY Zenon DEF Init, Working
<1>3. ControlInv
  <2>1. /\ replicas \in [Phases -> 0 .. MaxReplicas] /\ step \in Nat \ {0}
        /\ pc \in [Phases -> {"idle", "preparing", "executing", "done"}]
        /\ prepared \in [Phases -> Nat] /\ DOMAIN errs = Phases
    BY DEF Init
  <2> QED
    BY <1>2, <2>1, NamespaceTypes DEF ControlInv
<1>4. AreRecords(instances) /\ \A ns \in Namespaces, id \in Ids : ~instances[<<ns, id>>].exists
    BY <1>1 DEF Init, AreRecords, InstancesStates, NoInstances
<1>5. InstancesInv
    BY <1>2, <1>4 DEF InstancesInv
<1>6. ActionInv
  <2>1. todo \in [Phases -> Seq(Actions)] /\ running \in [Phases -> SUBSET Actions]
    BY DEF Init
  <2>2. ASSUME NEW p \in Phases
        PROVE  QueuePart(p) /\ PendingPart(p)
    <3>1. Range(todo[p]) = {} /\ Len(todo[p]) = 0
        BY <1>2 DEF Range
    <3> QED
        BY <1>2, <3>1 DEF QueuePart, PendingPart, Pending
  <2> QED
    BY Zenon, <2>1, <2>2 DEF ActionInv
<1>7. ClusterInv
  <2>1. PICK found \in [UnknownPairs -> 0 .. MaxReplicas] :
          objects = {o \in Objects : /\ <<o[1], o[2]>> \in UnknownPairs
                                     /\ o[3] < found[<<o[1], o[2]>>]}
    BY Zenon DEF Init
  <2>2. \A p \in Phases : WorkPart(p)
    BY Zenon, <1>2 DEF WorkPart
  <2>3. ASSUME NEW ns \in Namespaces, NEW id \in Ids
        PROVE  SettledPart(ns, id) /\ UnseenPart(ns, id)
    <3> DEFINE k == IF <<ns, id>> \in UnknownPairs THEN found[<<ns, id>>] ELSE 0
    <3>1. k \in 0 .. MaxReplicas /\ (<<ns, id>> \notin UnknownPairs => k = 0)
        BY <1>1, <2>1
    <3>2. ASSUME NEW r \in ReplicaRange
          PROVE  <<ns, id, r>> \in objects <=> r < k
      <4>1. <<ns, id, r>> \in Objects /\ ~(r < 0)
        BY <1>1 DEF Objects, ReplicaRange
      <4> QED
        BY Zenon, <2>1, <4>1
    <3> HIDE DEF k
    <3>3. UnseenPart(ns, id)
        BY Zenon, <3>1, <3>2 DEF UnseenPart
    <3>4. SettledPart(ns, id)
        BY Zenon, <1>4 DEF SettledPart
    <3> QED
        BY Zenon, <3>3, <3>4
  <2> QED
    BY Zenon, <2>1, <2>2, <2>3 DEF ClusterInv
<1> QED
    BY Zenon, <1>3, <1>5, <1>6, <1>7 DEF PhaseInv

\* What the phases at work, their actions, the recorded counts and the cluster have to do
\* with each other, in every state that the executor reaches.
THEOREM PhaseInductive == Spec => []PhaseInv
<1>1. Init => PhaseInv
    BY Zenon, PhaseInit
<1>2. PhaseInv /\ [Next]_vars => PhaseInv'
  <2> SUFFICES ASSUME ControlInv, InstancesInv, ActionInv, ClusterInv, [Next]_vars
               PROVE  PhaseInv'
    BY Zenon DEF PhaseInv
  <2> QED
    BY Zenon, ControlStep, InstancesStep, ActionStep, ClusterStep DEF PhaseInv
<1> QED
    BY <1>1, <1>2, PTL DEF Spec

\* A pair that no phase is working on is settled.
LEMMA QuietIsSettled ==
    ASSUME ControlInv, NEW ns \in Namespaces, NEW id \in Ids, ~Busy(<<ns, id>>)
    PROVE  Settled(ns, id)
<1>1. ASSUME NEW p \in Phases, Working(p), id \in Range(ObjectBundle[p]), ns \in Prepared(p)
      PROVE  FALSE
  <2>1. <<ns, id>> \in Pairs[p]
    BY Zenon, <1>1, PreparedTypes, PairTypes
  <2> QED
    BY Zenon, <1>1, <2>1 DEF Busy, Working
<1> QED
    BY Zenon, <1>1 DEF Settled

\* Between phases the recorded replica count of a pair is the number of its replicas, as
\* long as its phases returned no error: retries, lost responses, skipped deletions, other
\* phases and other bundles do not make it wrong (ExecutePhase and its deferred functions).
THEOREM RecordedCount == Spec => []RecordedCountIsTrue
<1>1. ASSUME PhaseInv
      PROVE  RecordedCountIsTrue
  <2> SUFFICES ASSUME NEW ns \in Namespaces, NEW id \in Ids, instances[<<ns, id>>].exists,
                      Clean(<<ns, id>>), ~Busy(<<ns, id>>)
               PROVE  ReplicasOf(ns, id) = 0 .. instances[<<ns, id>>].current - 1
    BY DEF RecordedCountIsTrue
  <2>1. Settled(ns, id) /\ SettledPart(ns, id)
    BY Zenon, <1>1, QuietIsSettled DEF PhaseInv, ClusterInv
  <2>2. Faultless(<<ns, id>>) /\ id \notin EmptyTemplates
    BY Zenon DEF Clean, Faultless
  <2>3. instances[<<ns, id>>].current \in 0 .. MaxReplicas /\ MaxReplicas \in Nat
    BY Zenon, <1>1, PhaseConfigAssumption
       DEF PhaseInv, InstancesInv, AreRecords, InstancesStates, PhaseConfigAssumption
  <2>4. \A r \in ReplicaRange : <<ns, id, r>> \in objects <=> r < instances[<<ns, id>>].current
    BY Zenon, <2>1, <2>2 DEF SettledPart
  <2> QED
    BY <2>3, <2>4 DEF ReplicasOf, ReplicaRange
<1> QED
    BY <1>1, PhaseInductive, PTL

\* A failed operation is never silent: a replica beyond the recorded count is there only if
\* a phase of its pair returned an error or the listing of the pair failed.
THEOREM NothingForgotten == Spec => []NoForgottenReplica
<1>1. ASSUME PhaseInv
      PROVE  NoForgottenReplica
  <2>1. ASSUME NEW ns \in Namespaces, NEW id \in Ids, NEW r \in ReplicaRange,
               <<ns, id, r>> \in objects, instances[<<ns, id>>].exists, ~Busy(<<ns, id>>),
               r >= instances[<<ns, id>>].current
        PROVE  <<ns, id>> \in unlisted \/ \E p \in Phases : <<ns, id>> \in Pairs[p] /\ errs[p]
    <3>1. Settled(ns, id) /\ SettledPart(ns, id)
        BY Zenon, <1>1, <2>1, QuietIsSettled DEF PhaseInv, ClusterInv
    <3>2. instances[<<ns, id>>].current \in Int /\ r \in Int
      <4>1. MaxReplicas \in Nat
        BY Zenon, PhaseConfigAssumption DEF PhaseConfigAssumption
      <4> QED
        BY <1>1, <4>1 DEF PhaseInv, InstancesInv, AreRecords, InstancesStates, ReplicaRange
    <3>3. ~Faultless(<<ns, id>>)
        BY <2>1, <3>1, <3>2 DEF SettledPart
    <3> QED
        BY Zenon, <3>3 DEF Faultless
  <2>2. \A o \in objects : /\ o = <<o[1], o[2], o[3]>> /\ o[1] \in Namespaces /\ o[2] \in Ids
                           /\ o[3] \in ReplicaRange
    BY <1>1 DEF PhaseInv, ClusterInv, Objects
  <2> QED
    BY <2>1, <2>2 DEF NoForgottenReplica
<1> QED
    BY <1>1, PhaseInductive, PTL

\* While a phase executes without errors, no object of its bundle is in the cluster without
\* the ones listed before it (the loops over the bundle in ExecutePhase).
THEOREM BundleOrder == Spec => []BundleOrderRespected
<1>1. ASSUME PhaseInv
      PROVE  BundleOrderRespected
  <2> USE <1>1 DEF PhaseInv
  <2> SUFFICES ASSUME NEW p \in Phases, pc[p] = "executing", NEW ns \in Range(NamespaceList[p]),
                      NEW r \in ReplicaRange, NEW i \in DOMAIN ObjectBundle[p],
                      NEW j \in DOMAIN ObjectBundle[p], i < j,
                      Clean(<<ns, ObjectBundle[p][i]>>), Clean(<<ns, ObjectBundle[p][j]>>),
                      <<ns, ObjectBundle[p][j], r>> \in objects
               PROVE  <<ns, ObjectBundle[p][i], r>> \in objects
    BY DEF BundleOrderRespected
  <2> DEFINE ci == instances[<<ns, ObjectBundle[p][i]>>].current
             cj == instances[<<ns, ObjectBundle[p][j]>>].current
             d == replicas[p]
             len == Len(ObjectBundle[p])
  <2>1. Working(p) /\ i \in 1 .. len /\ j \in 1 .. len /\ len \in Nat
    BY Zenon, BundleTypes DEF Working
  <2>2. ns \in Prepared(p) /\ ns \in Namespaces
    <3>1. prepared[p] = Len(NamespaceList[p])
        BY <2>1, BundleTypes DEF ControlInv
    <3>2. DOMAIN NamespaceList[p] = 1 .. Len(NamespaceList[p])
        BY PhaseConfigAssumption DEF PhaseConfigAssumption
    <3>3. ns \in Prepared(p)
        BY Zenon, <3>1, <3>2 DEF Prepared, Range
    <3> QED
        BY Zenon, <3>3, PreparedTypes
  <2>3. r \in Int /\ ci \in Int /\ cj \in Int /\ d \in Int
    <3>1. MaxReplicas \in Nat /\ ObjectBundle[p][i] \in Ids /\ ObjectBundle[p][j] \in Ids
        BY Zenon, <2>1, BundleTypes, PhaseConfigAssumption DEF PhaseConfigAssumption
    <3>2. r \in Int /\ d \in Int
        BY <3>1 DEF ControlInv, ReplicaRange
    <3> QED
        BY <2>2, <3>1, <3>2 DEF InstancesInv, AreRecords, InstancesStates
  <2>4. Wanted(p, ns, j, r) /\ Supplied(p, ns, i, r)
    <3>1. /\ Faultless(<<ns, ObjectBundle[p][i]>>) /\ Faultless(<<ns, ObjectBundle[p][j]>>)
          /\ ObjectBundle[p][i] \notin EmptyTemplates
        BY Zenon DEF Clean, Faultless
    <3> QED
        BY Zenon, <2>1, <2>2, <3>1 DEF ClusterInv, WorkPart
  <2>5. \A a \in Pending(p) : /\ a \in Actions /\ a.n \in Nat
                              /\ a.ns = ns /\ a.r = r => Fits(a, ci, d) /\ Fits(a, cj, d)
    <3>1. /\ ObjectBundle[p][i] \in Range(ObjectBundle[p])
          /\ ObjectBundle[p][j] \in Range(ObjectBundle[p])
        BY Zenon, <2>1, BundleTypes
    <3>2. PendingPart(p) /\ Pending(p) \subseteq Actions
        BY DEF ActionInv, Pending, Range
    <3> QED
        BY Zenon, <3>1, <3>2 DEF PendingPart, Actions
  <2>6. CASE d <= r
    <3>1. PICK a \in Pending(p) : a.ns = ns /\ a.r = r /\ a.op = "delete" /\ j <= len - a.n
        BY Zenon, <2>3, <2>4, <2>6 DEF Wanted
    <3>2. r < ci /\ a.n \in Nat
        BY Zenon, <2>5, <3>1 DEF Fits
    <3>3. <<ns, ObjectBundle[p][i], r>> \in objects \/ i >= len - a.n
        BY <2>3, <2>4, <2>6, <3>1, <3>2 DEF Supplied
    <3> QED
        BY <2>1, <3>1, <3>2, <3>3
  <2>7. CASE r < d
    <3>1. CASE <<ns, ObjectBundle[p][i], r>> \notin objects
      <4>1. CASE r < ci
        BY <2>3, <2>4, <2>7, <3>1, <4>1 DEF Supplied
      <4>2. CASE ci <= r
        <5>1. PICK a \in Pending(p) : a.ns = ns /\ a.r = r /\ a.op = "create" /\ a.n < i
            BY <2>3, <2>4, <2>7, <3>1, <4>2 DEF Supplied
        <5>2. cj <= r /\ a.n \in Nat
            BY Zenon, <2>5, <5>1 DEF Fits
        <5>3. j <= a.n + 1
            BY Zenon, <2>3, <2>4, <5>1, <5>2 DEF Wanted
        <5> QED
            BY <2>1, <5>1, <5>2, <5>3
      <4> QED
        BY <2>3, <4>1, <4>2
    <3> QED
        BY Zenon, <3>1
  <2> QED
    BY <2>3, <2>6, <2>7
<1> QED
    BY <1>1, PhaseInductive, PTL

====
