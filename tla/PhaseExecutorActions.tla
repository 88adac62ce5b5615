------------------------ MODULE PhaseExecutorActions ------------------------
(***************************************************************************)
(* For any phases, namespaces, bundles, steps and replica counts, any      *)
(* parallelism of the tuning sets and any number of failed calls: where    *)
(* the phases are, what they have recorded, and that the actions a phase   *)
(* has still to finish are those its recorded counts ask for.              *)
(***************************************************************************)
EXTENDS PhaseExecutor, FiniteSetTheorems, TLAPS

Working(p) == pc[p] \in {"preparing", "executing"}

\* The namespaces a phase has prepared, and the actions it has still to finish.
Prepared(p) == {NamespaceList[p][i] : i \in 1 .. prepared[p]}
Pending(p) == Range(todo[p]) \cup running[p]

\* Where each phase is: only phases of the current step work.
ControlInv ==
    /\ replicas \in [Phases -> 0 .. MaxReplicas] /\ step \in Nat \ {0}
    /\ pc \in [Phases -> {"idle", "preparing", "executing", "done"}]
    /\ prepared \in [Phases -> Nat] /\ DOMAIN errs = Phases
    /\ \A p \in Phases :
          /\ Working(p) => step <= Len(Steps) /\ p \in Steps[step]
          /\ prepared[p] <= Len(NamespaceList[p])
          /\ pc[p] = "idle" => prepared[p] = 0
          /\ pc[p] = "executing" => prepared[p] = Len(NamespaceList[p]) \/ ObjectBundle[p] = <<>>

\* A value of the test state (pkg/state).
AreRecords(f) == f \in [Namespaces \X Ids -> InstancesStates]

\* The pairs a working phase has prepared are recorded, with its replica count.
InstancesInv ==
    /\ AreRecords(instances)
    /\ \A p \in Phases : Working(p) =>
          \A ns \in Prepared(p), id \in Range(ObjectBundle[p]) :
             instances[<<ns, id>>].exists /\ instances[<<ns, id>>].desired = replicas[p]

\* An action is one that the difference between c recorded and d desired replicas asks for.
Fits(a, c, d) ==
    \/ a.op = "delete" /\ d <= a.r /\ a.r < c
    \/ a.op = "create" /\ c <= a.r /\ a.r < d
    \/ a.op = "patch" /\ c = d /\ a.r < c

\* The actions a phase has still to start are in the queue once, and are not in flight;
QueuePart(p) ==
    /\ ~Working(p) => todo[p] = <<>>
    /\ pc[p] # "executing" => running[p] = {}
    /\ \A i, j \in 1 .. Len(todo[p]) : todo[p][i] = todo[p][j] => i = j
    /\ Range(todo[p]) \cap running[p] = {}

\* those it has still to finish belong to different replicas, in namespaces it has prepared.
PendingPart(p) ==
    /\ \A a, b \in Pending(p) : a.ns = b.ns /\ a.r = b.r => a = b
    /\ \A a \in Pending(p) :
          /\ a.ns \in Prepared(p) /\ a.n < Len(ObjectBundle[p])
          /\ \A id \in Range(ObjectBundle[p]) :
                Fits(a, instances[<<a.ns, id>>].current, replicas[p])

ActionInv ==
    /\ todo \in [Phases -> Seq(Actions)] /\ running \in [Phases -> SUBSET Actions]
    /\ \A p \in Phases : QueuePart(p) /\ PendingPart(p)

-----------------------------------------------------------------------------
\* The namespaces of a phase: finitely many, each named once.
LEMMA NamespaceTypes ==
    ASSUME NEW p \in Phases
    PROVE  /\ Len(NamespaceList[p]) \in Nat
           /\ \A i \in 1 .. Len(NamespaceList[p]) :
                 /\ NamespaceList[p][i] \in Namespaces
                 /\ NamespaceList[p][i] \in Range(NamespaceList[p])
           /\ \A i, k \in 1 .. Len(NamespaceList[p]) :
                 NamespaceList[p][i] = NamespaceList[p][k] => i = k
<1>1. NamespaceList[p] \in Seq(Namespaces) /\ IsInjective(NamespaceList[p])
    BY Zenon, PhaseConfigAssumption DEF PhaseConfigAssumption
<1>2. /\ Len(NamespaceList[p]) \in Nat
      /\ DOMAIN NamespaceList[p] = 1 .. Len(NamespaceList[p])
    BY <1>1
<1>3. \A i \in 1 .. Len(NamespaceList[p]) : NamespaceList[p][i] \in Namespaces
    BY <1>1
<1> QED
    BY Zenon, <1>1, <1>2, <1>3 DEF IsInjective, Range

\* The bundle of a phase: finitely many objects, each named once.
LEMMA BundleTypes ==
    ASSUME NEW p \in Phases
    PROVE  /\ Len(ObjectBundle[p]) \in Nat
           /\ ObjectBundle[p] = <<>> <=> Len(ObjectBundle[p]) = 0
           /\ DOMAIN ObjectBundle[p] = 1 .. Len(ObjectBundle[p])
           /\ \A j \in 1 .. Len(ObjectBundle[p]) :
                 ObjectBundle[p][j] \in Ids /\ ObjectBundle[p][j] \in Range(ObjectBundle[p])
           /\ \A j, k \in 1 .. Len(ObjectBundle[p]) :
                 ObjectBundle[p][j] = ObjectBundle[p][k] => j = k
           /\ Range(ObjectBundle[p]) \subseteq Ids
<1>1. ObjectBundle[p] \in Seq(Ids) /\ IsInjective(ObjectBundle[p])
    BY Zenon, PhaseConfigAssumption DEF PhaseConfigAssumption
<1>2. Len(ObjectBundle[p]) \in Nat /\ DOMAIN ObjectBundle[p] = 1 .. Len(ObjectBundle[p])
    BY <1>1
<1>3. \A j \in 1 .. Len(ObjectBundle[p]) : ObjectBundle[p][j] \in Ids
    BY <1>1
<1>4. ObjectBundle[p] = <<>> <=> Len(ObjectBundle[p]) = 0
    BY <1>1
<1> QED
    BY Zenon, <1>1, <1>2, <1>3, <1>4 DEF IsInjective, Range

\* An object of the bundle has a place in it.
LEMMA BundlePlace ==
    ASSUME NEW p \in Phases, NEW id \in Range(ObjectBundle[p])
    PROVE  \E j \in 1 .. Len(ObjectBundle[p]) : id = ObjectBundle[p][j]
BY BundleTypes DEF Range

\* The pairs of a phase are the objects of its bundle in the namespaces of its list.
LEMMA PairTypes ==
    ASSUME NEW p \in Phases, NEW ns, NEW id
    PROVE  /\ <<ns, id>> \in Pairs[p] <=>
                 ns \in Range(NamespaceList[p]) /\ id \in Range(ObjectBundle[p])
           /\ <<ns, id>> \in Pairs[p] => ns \in Namespaces /\ id \in Ids
<1>1. Pairs[p] = Range(NamespaceList[p]) \X Range(ObjectBundle[p])
    BY DEF Pairs
<1>2. DOMAIN NamespaceList[p] = 1 .. Len(NamespaceList[p])
    BY PhaseConfigAssumption DEF PhaseConfigAssumption
<1>3. ns \in Range(NamespaceList[p]) => ns \in Namespaces
    BY <1>2, NamespaceTypes DEF Range
<1>4. id \in Range(ObjectBundle[p]) => id \in Ids
    BY Zenon, BundleTypes
<1> QED
    BY Zenon, <1>1, <1>3, <1>4

\* What a phase has prepared are namespaces of its list.
LEMMA PreparedTypes ==
    ASSUME NEW p \in Phases, ControlInv
    PROVE  Prepared(p) \subseteq Range(NamespaceList[p]) /\ Prepared(p) \subseteq Namespaces
<1>1. prepared[p] \in Nat /\ prepared[p] <= Len(NamespaceList[p])
    BY Zenon DEF ControlInv
<1> QED
    BY <1>1, NamespaceTypes DEF Prepared

\* ExecuteStep: a phase that takes a step belongs to the current step, and the other
\* phases at work have other pairs.
LEMMA StepsAreDisjoint ==
    ASSUME ControlInv, ActionInv, NEW p \in Phases, PhaseStep(p)
    PROVE  /\ step <= Len(Steps) /\ p \in Steps[step]
           /\ \A q \in Phases \ {p} : Working(q) => Pairs[p] \cap Pairs[q] = {}
<1>1. step <= Len(Steps) /\ p \in Steps[step]
  <2>1. CASE StartPhase(p)
    BY Zenon, <2>1 DEF StartPhase
  <2>2. CASE ~StartPhase(p)
    <3>1. Working(p)
        BY Zenon, <2>2 DEF ActionInv, QueuePart, PhaseStep, PrepareNamespace, PrepareFails,
           StartTuningSet, StartAction, FinishPhase, Working
    <3> QED
        BY Zenon, <3>1 DEF ControlInv
  <2> QED
    BY Zenon, <2>1, <2>2
<1>2. step \in 1 .. Len(Steps) /\ DOMAIN Steps = 1 .. Len(Steps)
    BY <1>1, PhaseConfigAssumption DEF ControlInv, PhaseConfigAssumption
<1>3. ASSUME NEW q \in Phases \ {p}, Working(q)
      PROVE  Pairs[p] \cap Pairs[q] = {}
  <2>1. q \in Steps[step]
    BY Zenon, <1>3 DEF ControlInv
  <2> QED
    BY Zenon, <1>1, <1>2, <1>3, <2>1, PhaseConfigAssumption DEF PhaseConfigAssumption
<1> QED
    BY Zenon, <1>1, <1>3

-----------------------------------------------------------------------------
\* Nothing a phase or ExecuteStep does breaks the control invariant.
LEMMA ControlStep ==
    ASSUME ControlInv, ActionInv, [Next]_vars
    PROVE  ControlInv'
<1>1. CASE FinishStep
  <2>1. \A p \in Phases : ~Working(p)
    BY Zenon, <1>1 DEF FinishStep, ControlInv, Working
  <2> QED
    BY <1>1, <2>1 DEF FinishStep, ControlInv, Working
<1>2. ASSUME NEW p \in Phases, StartPhase(p)
      PROVE  ControlInv'
    BY <1>2 DEF StartPhase, ControlInv, Working
<1>3. ASSUME NEW p \in Phases, PrepareNamespace(p)
      PROVE  ControlInv'
  <2>1. /\ pc[p] = "preparing" /\ prepared[p] < Len(NamespaceList[p])
        /\ UNCHANGED <<replicas, step>>
        /\ \/ UNCHANGED <<pc, errs>> /\ prepared' = [prepared EXCEPT ![p] = @ + 1]
           \/ /\ pc' = [pc EXCEPT ![p] = "done"] /\ errs' = [errs EXCEPT ![p] = TRUE]
              /\ UNCHANGED prepared
    BY Zenon, <1>3 DEF PrepareNamespace
  <2>2. Len(NamespaceList[p]) \in Nat
    BY Zenon, NamespaceTypes
  <2>3. prepared[p] + 1 \in Nat /\ prepared[p] + 1 <= Len(NamespaceList[p])
    BY <2>1, <2>2 DEF ControlInv
  <2>4. CASE UNCHANGED <<pc, errs>> /\ prepared' = [prepared EXCEPT ![p] = @ + 1]
    BY Zenon, <2>1, <2>3, <2>4 DEF ControlInv, Working
  <2>5. CASE /\ pc' = [pc EXCEPT ![p] = "done"] /\ errs' = [errs EXCEPT ![p] = TRUE]
             /\ UNCHANGED prepared
    BY Zenon, <2>1, <2>5 DEF ControlInv, Working
  <2> QED
    BY Zenon, <2>1, <2>4, <2>5
<1>4. ASSUME NEW p \in Phases, PrepareFails(p)
      PROVE  ControlInv'
    BY Zenon, <1>4 DEF PrepareFails, ControlInv, Working
<1>5. ASSUME NEW p \in Phases, StartTuningSet(p)
      PROVE  ControlInv'
    BY Zenon, <1>5 DEF StartTuningSet, ControlInv, Working
<1>6. ASSUME NEW p \in Phases, StartAction(p)
      PROVE  ControlInv'
    BY Zenon, <1>6 DEF StartAction, ControlInv, Working
<1>7. ASSUME NEW p \in Phases, NEW a \in running[p], ExecuteObject(p, a)
      PROVE  ControlInv'
  <2>1. UNCHANGED <<replicas, step, pc, prepared>>
    BY Zenon, <1>7 DEF ExecuteObject
  <2>2. errs' = errs \/ errs' = [errs EXCEPT ![p] = TRUE]
    BY Zenon, <1>7 DEF ExecuteObject, ObjectDone, ObjectRefused, ObjectFails, ObjectRetries,
       FailAction
  <2> QED
    BY Zenon, <2>1, <2>2 DEF ControlInv, Working
<1>8. ASSUME NEW p \in Phases, FinishPhase(p)
      PROVE  ControlInv'
    BY Zenon, <1>8 DEF FinishPhase, ControlInv, Working
<1>9. CASE UNCHANGED vars
    BY Zenon, <1>9 DEF vars, ControlInv, Working
<1> QED
    BY Zenon, <1>1, <1>2, <1>3, <1>4, <1>5, <1>6, <1>7, <1>8, <1>9 DEF Next, PhaseStep, Terminated

\* getReplicaCountOfNewObject: a listing finds at most MaxReplicas replicas, and finds k
\* where the replicas are those below k.
LEMMA ListingCounts ==
    ASSUME NEW ns, NEW id
    PROVE  /\ Cardinality(ReplicasOf(ns, id)) \in 0 .. MaxReplicas
           /\ \A k \in 0 .. MaxReplicas :
                 (\A r \in ReplicaRange : <<ns, id, r>> \in objects <=> r < k) =>
                     Cardinality(ReplicasOf(ns, id)) = k
<1>1. MaxReplicas \in Nat
    BY Zenon, PhaseConfigAssumption DEF PhaseConfigAssumption
<1>2. IsFiniteSet(ReplicaRange) /\ Cardinality(ReplicaRange) = MaxReplicas
    BY <1>1, FS_Interval DEF ReplicaRange
<1>3. ReplicasOf(ns, id) \in SUBSET ReplicaRange
    BY Zenon DEF ReplicasOf
<1>4. /\ IsFiniteSet(ReplicasOf(ns, id)) /\ Cardinality(ReplicasOf(ns, id)) <= MaxReplicas
    BY Zenon, <1>2, <1>3, FS_Subset
<1>5. Cardinality(ReplicasOf(ns, id)) \in Nat
    BY Zenon, <1>4, FS_CardinalityType
<1>6. ASSUME NEW k \in 0 .. MaxReplicas,
             \A r \in ReplicaRange : <<ns, id, r>> \in objects <=> r < k
      PROVE  Cardinality(ReplicasOf(ns, id)) = k
  <2>1. ReplicasOf(ns, id) = 0 .. k - 1
    BY <1>1, <1>6 DEF ReplicasOf, ReplicaRange
  <2>2. k - 1 \in Int /\ (k = 0 <=> 0 > k - 1)
    BY <1>1
  <2>3. Cardinality(0 .. k - 1) = k
    BY <1>1, <2>2, FS_Interval
  <2> QED
    BY Zenon, <2>1, <2>3
<1> QED
    BY <1>1, <1>4, <1>5, <1>6

\* The actions for c recorded and d desired replicas: one for every replica that is too
\* many or too few, and no two for the same replica.
AsksFor(s, ns, c, d) ==
    /\ s \in Seq(Actions)
    /\ \A i, j \in 1 .. Len(s) : s[i].r = s[j].r => i = j
    /\ \A i \in 1 .. Len(s) : s[i].ns = ns /\ s[i].n = 0 /\ Fits(s[i], c, d)
    /\ \A r \in d .. c - 1 : \E i \in 1 .. Len(s) : s[i].r = r /\ s[i].op = "delete"
    /\ \A r \in c .. d - 1 : \E i \in 1 .. Len(s) : s[i].r = r /\ s[i].op = "create"

\* ExecutePhase builds these actions.
LEMMA ActionsBuilt ==
    ASSUME NEW ns \in Namespaces, NEW c \in 0 .. MaxReplicas, NEW d \in 0 .. MaxReplicas
    PROVE  AsksFor(BuildActions(ns, c, d), ns, c, d)
<1> USE DEF AsksFor
<1> DEFINE Act(op, lo, i) == [ns |-> ns, r |-> lo + i - 1, op |-> op, n |-> 0, tries |-> 0]
           Op(op, lo, hi) == [i \in 1 .. (IF hi > lo THEN hi - lo ELSE 0) |-> Act(op, lo, i)]
<1>1. MaxReplicas \in Nat
    BY Zenon, PhaseConfigAssumption DEF PhaseConfigAssumption
<1>2. ASSUME NEW op \in Operations, NEW lo \in 0 .. MaxReplicas, NEW hi \in 0 .. MaxReplicas
      PROVE  /\ Op(op, lo, hi) \in Seq(Actions)
             /\ Len(Op(op, lo, hi)) = IF hi > lo THEN hi - lo ELSE 0
             /\ hi <= lo => Op(op, lo, hi) = <<>>
  <2> DEFINE len == IF hi > lo THEN hi - lo ELSE 0
  <2>1. len \in Nat /\ \A i \in 1 .. len : lo + i - 1 \in ReplicaRange
    BY <1>1 DEF ReplicaRange
  <2>2. \A i \in 1 .. len : Act(op, lo, i) \in Actions
    BY Zenon, <2>1 DEF Actions
  <2>3. Op(op, lo, hi) \in Seq(Actions)
    BY <2>1, <2>2
  <2>4. Len(Op(op, lo, hi)) = len
    BY <2>1, <2>3
  <2>5. hi <= lo => Op(op, lo, hi) = <<>>
    BY <1>1, <2>3, <2>4
  <2> QED
    BY Zenon, <2>3, <2>4, <2>5
<1> DEFINE s == BuildActions(ns, c, d)
<1>3. s = Op("delete", d, c) \o (IF c = d THEN Op("patch", 0, d) ELSE <<>>)
            \o Op("create", c, d)
    BY Zenon DEF BuildActions
<1> SUFFICES /\ s \in Seq(Actions)
             /\ \A i, j \in 1 .. Len(s) : s[i].r = s[j].r => i = j
             /\ \A i \in 1 .. Len(s) : s[i].ns = ns /\ s[i].n = 0 /\ Fits(s[i], c, d)
             /\ \A r \in d .. c - 1 : \E i \in 1 .. Len(s) : s[i].r = r /\ s[i].op = "delete"
             /\ \A r \in c .. d - 1 : \E i \in 1 .. Len(s) : s[i].r = r /\ s[i].op = "create"
    BY Zenon
<1> HIDE DEF s, Op
<1>4. CASE c > d
  <2>1. c - d \in Nat /\ Op("delete", d, c) \in Seq(Actions) /\ Len(Op("delete", d, c)) = c - d
    BY <1>1, <1>2, <1>4 DEF Operations
  <2>2. Op("create", c, d) = <<>>
    BY <1>1, <1>2, <1>4 DEF Operations
  <2>3. s = Op("delete", d, c)
    BY <1>1, <1>3, <1>4, <2>1, <2>2
  <2>4. s = [i \in 1 .. c - d |-> Act("delete", d, i)]
    BY Zenon, <1>1, <1>4, <2>3 DEF Op
  <2>5. \A i \in 1 .. c - d : /\ s[i].ns = ns /\ s[i].n = 0 /\ s[i].op = "delete"
                          /\ s[i].r = d + i - 1
    BY Zenon, <1>1, <2>1, <2>4
  <2>6. ASSUME NEW r \in d .. c - 1
        PROVE  \E i \in 1 .. Len(s) : s[i].r = r /\ s[i].op = "delete"
    <3>1. r - d + 1 \in 1 .. c - d
        BY <1>1, <1>4
    <3>2. s[r - d + 1].r = d + (r - d + 1) - 1 /\ s[r - d + 1].op = "delete"
        BY Zenon, <2>5, <3>1
    <3> QED
        BY <1>1, <2>1, <2>3, <3>1, <3>2
  <2>7. \A i, j \in 1 .. Len(s) : s[i].r = s[j].r => i = j
    BY <1>1, <2>1, <2>3, <2>5
  <2>8. \A i \in 1 .. Len(s) : s[i].ns = ns /\ s[i].n = 0 /\ Fits(s[i], c, d)
    BY <1>1, <1>4, <2>1, <2>3, <2>5 DEF Fits
  <2> QED
    BY <1>1, <1>4, <2>1, <2>3, <2>6, <2>7, <2>8
<1>5. CASE c < d
  <2>1. d - c \in Nat /\ Op("create", c, d) \in Seq(Actions) /\ Len(Op("create", c, d)) = d - c
    BY <1>1, <1>2, <1>5 DEF Operations
  <2>2. Op("delete", d, c) = <<>>
    BY <1>1, <1>2, <1>5 DEF Operations
  <2>3. s = Op("create", c, d)
    BY <1>1, <1>3, <1>5, <2>1, <2>2
  <2>4. s = [i \in 1 .. d - c |-> Act("create", c, i)]
    BY Zenon, <1>1, <1>5, <2>3 DEF Op
  <2>5. \A i \in 1 .. d - c : /\ s[i].ns = ns /\ s[i].n = 0 /\ s[i].op = "create"
                          /\ s[i].r = c + i - 1
    BY <1>1, <2>1, <2>4
  <2>6. ASSUME NEW r \in c .. d - 1
        PROVE  \E i \in 1 .. Len(s) : s[i].r = r /\ s[i].op = "create"
    <3>1. r - c + 1 \in 1 .. d - c
        BY <1>1, <1>5
    <3>2. s[r - c + 1].r = c + (r - c + 1) - 1 /\ s[r - c + 1].op = "create"
        BY Zenon, <2>5, <3>1
    <3> QED
        BY <1>1, <2>1, <2>3, <3>1, <3>2
  <2>7. \A i, j \in 1 .. Len(s) : s[i].r = s[j].r => i = j
    BY <1>1, <2>1, <2>3, <2>5
  <2>8. \A i \in 1 .. Len(s) : s[i].ns = ns /\ s[i].n = 0 /\ Fits(s[i], c, d)
    BY <1>1, <1>5, <2>1, <2>3, <2>5 DEF Fits
  <2> QED
    BY <1>1, <1>5, <2>1, <2>3, <2>6, <2>7, <2>8
<1>6. CASE c = d
  <2>1. d \in Nat /\ Op("patch", 0, d) \in Seq(Actions) /\ Len(Op("patch", 0, d)) = d
    BY <1>1, <1>2, <1>6 DEF Operations
  <2>2. Op("delete", d, c) = <<>> /\ Op("create", c, d) = <<>>
    BY <1>1, <1>2, <1>6 DEF Operations
  <2>3. s = Op("patch", 0, d)
    BY <1>1, <1>3, <1>6, <2>1, <2>2
  <2>4. s = [i \in 1 .. d |-> Act("patch", 0, i)]
    BY <1>1, <1>6, <2>3 DEF Op
  <2>5. \A i \in 1 .. d : /\ s[i].ns = ns /\ s[i].n = 0 /\ s[i].op = "patch"
                          /\ s[i].r = i - 1
    BY <1>1, <2>1, <2>4
  <2>7. \A i, j \in 1 .. Len(s) : s[i].r = s[j].r => i = j
    BY <1>1, <2>1, <2>3, <2>5
  <2>8. \A i \in 1 .. Len(s) : s[i].ns = ns /\ s[i].n = 0 /\ Fits(s[i], c, d)
    BY <1>1, <1>6, <2>1, <2>3, <2>5 DEF Fits
  <2> QED
    BY <1>1, <1>6, <2>1, <2>3, <2>7, <2>8
<1> QED
    BY <1>1, <1>4, <1>5, <1>6

-----------------------------------------------------------------------------
\* ExecutePhase, the loop over the bundle: the first k objects get a record with the
\* desired count of the phase; what was recorded before is kept as the current count.
LEMMA BundlePrepared ==
    ASSUME ControlInv, InstancesInv, NEW p \in Phases, NEW ns \in Namespaces,
           NEW k \in 0 .. Len(ObjectBundle[p]), NEW failed, NEW ins,
           ins = PrepareBundle(p, ns, k, failed)
    PROVE  /\ AreRecords(ins)
           /\ \A m \in Namespaces, id \in Ids :
                 IF m = ns /\ \E j \in 1 .. k : id = ObjectBundle[p][j]
                 THEN /\ ins[<<m, id>>].exists /\ ins[<<m, id>>].desired = replicas[p]
                      /\ ins[<<m, id>>].current =
                            IF instances[<<m, id>>].exists THEN instances[<<m, id>>].current
                            ELSE ReplicaCountOfNewObject(m, id, id \in failed)
                 ELSE ins[<<m, id>>] = instances[<<m, id>>]
<1>1. MaxReplicas \in Nat
    BY Zenon, PhaseConfigAssumption DEF PhaseConfigAssumption
<1>2. \A id : ReplicaCountOfNewObject(ns, id, id \in failed) \in 0 .. MaxReplicas
    BY <1>1, ListingCounts DEF ReplicaCountOfNewObject
<1>3. \A id \in Ids : PrepareInstances(ns, id, replicas[p], id \in failed) \in InstancesStates
  <2> TAKE id \in Ids
  <2>1. instances[<<ns, id>>].current \in 0 .. MaxReplicas /\ replicas[p] \in 0 .. MaxReplicas
    BY Zenon DEF ControlInv, InstancesInv, AreRecords, InstancesStates
  <2>2. (IF instances[<<ns, id>>].exists THEN instances[<<ns, id>>].current
         ELSE ReplicaCountOfNewObject(ns, id, id \in failed)) \in 0 .. MaxReplicas
    BY Zenon, <1>2, <2>1
  <2> QED
    BY Zenon, <2>1, <2>2 DEF PrepareInstances, InstancesStates
<1>4. ins = [x \in Namespaces \X Ids |->
               IF x[1] = ns /\ x[2] \in {ObjectBundle[p][j] : j \in 1 .. k}
               THEN PrepareInstances(ns, x[2], replicas[p], x[2] \in failed)
               ELSE instances[x]]
    BY Zenon DEF PrepareBundle, InstancesInv, AreRecords
<1>5. AreRecords(ins)
    BY <1>3, <1>4 DEF InstancesInv, AreRecords
<1>6. ASSUME NEW m \in Namespaces, NEW id \in Ids
      PROVE  IF m = ns /\ \E j \in 1 .. k : id = ObjectBundle[p][j]
             THEN ins[<<m, id>>] = PrepareInstances(m, id, replicas[p], id \in failed)
             ELSE ins[<<m, id>>] = instances[<<m, id>>]
    BY Zenon, <1>4
<1>7. \A id : LET new == PrepareInstances(ns, id, replicas[p], id \in failed)
               IN  /\ new.exists /\ new.desired = replicas[p]
                   /\ new.current = IF instances[<<ns, id>>].exists
                                    THEN instances[<<ns, id>>].current
                                    ELSE ReplicaCountOfNewObject(ns, id, id \in failed)
    BY Zenon DEF PrepareInstances
<1> QED
    BY <1>5, <1>6, <1>7

\* The deferred functions of ExecutePhase make the desired count of every prepared pair
\* its current one, and change nothing else.
LEMMA CountsDeferred ==
    ASSUME ControlInv, NEW p \in Phases, NEW before, AreRecords(before), NEW after,
           after = DeferredUpdate(p, prepared[p], before)
    PROVE  /\ AreRecords(after)
           /\ \A m \in Namespaces, id \in Ids :
                 /\ after[<<m, id>>].exists <=> before[<<m, id>>].exists
                 /\ after[<<m, id>>].desired = before[<<m, id>>].desired
                 /\ IF m \in Prepared(p) /\ id \in Range(ObjectBundle[p])
                    THEN after[<<m, id>>].current = before[<<m, id>>].desired
                    ELSE after[<<m, id>>] = before[<<m, id>>]
<1>1. after = [x \in Namespaces \X Ids |->
                 IF x \in Prepared(p) \X Range(ObjectBundle[p])
                 THEN [before[x] EXCEPT !.current = before[x].desired] ELSE before[x]]
    BY Zenon DEF DeferredUpdate, Prepared, AreRecords
<1>2. \A x \in Namespaces \X Ids :
         [before[x] EXCEPT !.current = before[x].desired] \in InstancesStates
    BY DEF AreRecords, InstancesStates
<1>3. AreRecords(after)
    BY <1>1, <1>2 DEF AreRecords
<1>4. ASSUME NEW m \in Namespaces, NEW id \in Ids
      PROVE  /\ after[<<m, id>>].exists <=> before[<<m, id>>].exists
             /\ after[<<m, id>>].desired = before[<<m, id>>].desired
             /\ IF m \in Prepared(p) /\ id \in Range(ObjectBundle[p])
                THEN after[<<m, id>>].current = before[<<m, id>>].desired
                ELSE after[<<m, id>>] = before[<<m, id>>]
  <2>1. before[<<m, id>>] \in InstancesStates
    BY Zenon DEF AreRecords
  <2>2. after[<<m, id>>] = IF m \in Prepared(p) /\ id \in Range(ObjectBundle[p])
                           THEN [before[<<m, id>>] EXCEPT !.current = before[<<m, id>>].desired]
                           ELSE before[<<m, id>>]
    BY Zenon, <1>1
  <2> QED
    BY Zenon, <2>1, <2>2 DEF InstancesStates
<1> QED
    BY Zenon, <1>3, <1>4

\* A step of a phase keeps the records of the pairs of other phases, and no record is lost.
LEMMA RecordsKept ==
    ASSUME ControlInv, InstancesInv, NEW p \in Phases, PhaseStep(p)
    PROVE  /\ AreRecords(instances')
           /\ \A m \in Namespaces, id \in Ids :
                 /\ <<m, id>> \notin Pairs[p] => instances'[<<m, id>>] = instances[<<m, id>>]
                 /\ instances[<<m, id>>].exists => instances'[<<m, id>>].exists
<1> DEFINE ns == NamespaceList[p][prepared[p] + 1]
<1>1. AreRecords(instances)
    BY Zenon DEF InstancesInv
<1>2. /\ Len(ObjectBundle[p]) \in Nat
      /\ \A j \in 1 .. Len(ObjectBundle[p]) : ObjectBundle[p][j] \in Range(ObjectBundle[p])
    BY Zenon, BundleTypes
<1>3. \A m \in Prepared(p), id \in Range(ObjectBundle[p]) : <<m, id>> \in Pairs[p]
    BY Zenon, PreparedTypes, PairTypes
<1>4. ASSUME prepared[p] < Len(NamespaceList[p])
      PROVE  ns \in Namespaces /\ \A id \in Range(ObjectBundle[p]) : <<ns, id>> \in Pairs[p]
  <2>1. prepared[p] + 1 \in 1 .. Len(NamespaceList[p])
    BY <1>4, NamespaceTypes DEF ControlInv
  <2> QED
    BY Zenon, <2>1, NamespaceTypes, PairTypes
<1>5. ASSUME prepared[p] < Len(NamespaceList[p]), NEW k \in 0 .. Len(ObjectBundle[p]),
             NEW failed, NEW ins, ins = PrepareBundle(p, ns, k, failed)
      PROVE  /\ AreRecords(ins)
             /\ \A m \in Namespaces, id \in Ids :
                   /\ <<m, id>> \notin Pairs[p] => ins[<<m, id>>] = instances[<<m, id>>]
                   /\ instances[<<m, id>>].exists => ins[<<m, id>>].exists
  <2>1. ns \in Namespaces /\ \A j \in 1 .. k : <<ns, ObjectBundle[p][j]>> \in Pairs[p]
    BY <1>2, <1>4, <1>5
  <2> HIDE DEF ns
  <2>2. /\ AreRecords(ins)
        /\ \A m \in Namespaces, id \in Ids :
              IF m = ns /\ \E j \in 1 .. k : id = ObjectBundle[p][j]
              THEN ins[<<m, id>>].exists ELSE ins[<<m, id>>] = instances[<<m, id>>]
    BY <1>5, <2>1, BundlePrepared
  <2> QED
    BY <2>1, <2>2
<1>6. ASSUME NEW before, AreRecords(before), NEW after,
             after = DeferredUpdate(p, prepared[p], before)
      PROVE  /\ AreRecords(after)
             /\ \A m \in Namespaces, id \in Ids :
                   /\ <<m, id>> \notin Pairs[p] => after[<<m, id>>] = before[<<m, id>>]
                   /\ before[<<m, id>>].exists => after[<<m, id>>].exists
  <2>1. /\ AreRecords(after)
        /\ \A m \in Namespaces, id \in Ids :
              /\ after[<<m, id>>].exists <=> before[<<m, id>>].exists
              /\ m \notin Prepared(p) \/ id \notin Range(ObjectBundle[p]) =>
                    after[<<m, id>>] = before[<<m, id>>]
    BY <1>6, CountsDeferred
  <2> QED
    BY Zenon, <1>3, <2>1
<1>7. CASE PrepareNamespace(p)
  <2>1. PICK failed, ins :
          /\ ins = PrepareBundle(p, ns, Len(ObjectBundle[p]), failed)
          /\ instances' = ins \/ instances' = DeferredUpdate(p, prepared[p], ins)
    BY Zenon, <1>7 DEF PrepareNamespace
  <2>2. prepared[p] < Len(NamespaceList[p])
    BY Zenon, <1>7 DEF PrepareNamespace
  <2>3. Len(ObjectBundle[p]) \in 0 .. Len(ObjectBundle[p])
    BY <1>2
  <2> HIDE DEF ns
  <2>4. /\ AreRecords(ins)
        /\ \A m \in Namespaces, id \in Ids :
              /\ <<m, id>> \notin Pairs[p] => ins[<<m, id>>] = instances[<<m, id>>]
              /\ instances[<<m, id>>].exists => ins[<<m, id>>].exists
    BY <1>5, <2>1, <2>2, <2>3
  <2> QED
    BY <1>6, <2>1, <2>4
<1>8. CASE PrepareFails(p)
  <2>1. PICK k \in 0 .. Len(ObjectBundle[p]) - 1 :
          instances' = DeferredUpdate(p, prepared[p], PrepareBundle(p, ns, k, {}))
    BY Zenon, <1>8 DEF PrepareFails
  <2>2. prepared[p] < Len(NamespaceList[p]) /\ k \in 0 .. Len(ObjectBundle[p])
    BY <1>2, <1>8 DEF PrepareFails
  <2> DEFINE ins == PrepareBundle(p, ns, k, {})
  <2> HIDE DEF ns
  <2>4. /\ AreRecords(ins)
        /\ \A m \in Namespaces, id \in Ids :
              /\ <<m, id>> \notin Pairs[p] => ins[<<m, id>>] = instances[<<m, id>>]
              /\ instances[<<m, id>>].exists => ins[<<m, id>>].exists
    BY Zenon, <1>5, <2>2
  <2> HIDE DEF ins
  <2> QED
    BY <1>6, <2>1, <2>4 DEF ins
<1>9. CASE FinishPhase(p)
  <2>1. instances' = DeferredUpdate(p, prepared[p], instances)
    BY Zenon, <1>9 DEF FinishPhase
  <2> QED
    BY <1>1, <1>6, <2>1
<1>10. CASE UNCHANGED instances
    BY Zenon, <1>1, <1>10
<1> QED
    BY Zenon, <1>7, <1>8, <1>9, <1>10
    DEF PhaseStep, StartPhase, StartTuningSet, StartAction, ExecuteObject

\* PrepareNamespace is the only step that prepares a namespace; it prepares the next one.
LEMMA PreparedKept ==
    ASSUME ControlInv, NEW p \in Phases, PhaseStep(p)
    PROVE  /\ UNCHANGED replicas
           /\ \A q \in Phases \ {p} : pc'[q] = pc[q] /\ Prepared(q)' = Prepared(q)
           /\ ~PrepareNamespace(p) => Prepared(p)' = Prepared(p)
           /\ PrepareNamespace(p) /\ prepared' # prepared =>
                 /\ prepared[p] + 1 \in 1 .. Len(NamespaceList[p])
                 /\ Prepared(p)' = Prepared(p) \cup {NamespaceList[p][prepared[p] + 1]}
                 /\ NamespaceList[p][prepared[p] + 1] \notin Prepared(p)
<1>1. UNCHANGED replicas
    BY Zenon DEF PhaseStep, StartPhase, PrepareNamespace, PrepareFails, StartTuningSet,
       StartAction, ExecuteObject, FinishPhase
<1>2. \A q \in Phases \ {p} : pc'[q] = pc[q]
    BY Zenon DEF ControlInv, PhaseStep, StartPhase, PrepareNamespace, PrepareFails,
       StartTuningSet, StartAction, ExecuteObject, FinishPhase
<1>3. CASE UNCHANGED prepared
    BY Zenon, <1>1, <1>2, <1>3 DEF Prepared
<1>4. CASE PrepareNamespace(p) /\ prepared' = [prepared EXCEPT ![p] = @ + 1]
  <2>0. prepared[p] < Len(NamespaceList[p])
    BY Zenon, <1>4 DEF PrepareNamespace
  <2>1. prepared[p] \in Nat /\ prepared[p] + 1 \in 1 .. Len(NamespaceList[p])
    BY <2>0, NamespaceTypes DEF ControlInv
  <2>2. prepared'[p] = prepared[p] + 1 /\ \A q \in Phases \ {p} : prepared'[q] = prepared[q]
    BY Zenon, <1>4 DEF ControlInv
  <2>3. 1 .. prepared[p] + 1 = 1 .. prepared[p] \cup {prepared[p] + 1}
    BY <2>1
  <2>4. Prepared(p)' = Prepared(p) \cup {NamespaceList[p][prepared[p] + 1]}
    BY <2>2, <2>3 DEF Prepared
  <2>5. NamespaceList[p][prepared[p] + 1] \notin Prepared(p)
    BY <2>1, NamespaceTypes DEF Prepared
  <2> QED
    BY Zenon, <1>1, <1>2, <1>4, <2>1, <2>2, <2>4, <2>5 DEF Prepared
<1> QED
    BY Zenon, <1>3, <1>4 DEF PhaseStep, StartPhase, PrepareNamespace, PrepareFails,
       StartTuningSet, StartAction, ExecuteObject, FinishPhase

\* No step breaks the invariant about the records.
LEMMA InstancesStep ==
    ASSUME ControlInv, InstancesInv, ActionInv, [Next]_vars
    PROVE  InstancesInv'
<1>1. ASSUME NEW p \in Phases, PhaseStep(p)
      PROVE  InstancesInv'
  <2>1. AreRecords(instances')
    BY Zenon, <1>1, RecordsKept
  <2>2. ASSUME NEW q \in Phases, Working(q)', NEW m \in Prepared(q)',
               NEW id \in Range(ObjectBundle[q])
        PROVE  instances'[<<m, id>>].exists /\ instances'[<<m, id>>].desired = replicas'[q]
    <3>1. id \in Ids
        BY Zenon, BundleTypes
    <3>2. CASE q # p
      <4>1. Working(q) /\ m \in Prepared(q) /\ replicas'[q] = replicas[q]
        BY Zenon, <1>1, <2>2, <3>2, PreparedKept DEF Working
      <4>2. <<m, id>> \in Pairs[q] /\ m \in Namespaces
        BY Zenon, <4>1, PreparedTypes, PairTypes
      <4>3. <<m, id>> \notin Pairs[p]
        BY Zenon, <1>1, <3>2, <4>1, <4>2, StepsAreDisjoint
      <4> QED
        BY <1>1, <3>1, <4>1, <4>2, <4>3, RecordsKept DEF InstancesInv
    <3>3. CASE q = p /\ PrepareNamespace(p)
      <4> DEFINE ns == NamespaceList[p][prepared[p] + 1]
      <4>1. PICK failed : instances' = PrepareBundle(p, ns, Len(ObjectBundle[p]), failed)
        BY Zenon, <2>2, <3>3 DEF PrepareNamespace, Working, ControlInv
      <4>a. pc[p] = "preparing" /\ (prepared' = [prepared EXCEPT ![p] = @ + 1] \/ pc'[p] = "done")
        BY Zenon, <3>3 DEF PrepareNamespace, ControlInv
      <4>2. prepared' # prepared
        BY <2>2, <3>3, <4>a DEF Working, ControlInv
      <4>3. ns \in Namespaces /\ m \in Prepared(p) \cup {ns} /\ m \in Namespaces
        BY <1>1, <2>2, <3>3, <4>2, PreparedKept, PreparedTypes, NamespaceTypes
      <4>b. id \in Range(ObjectBundle[p])
        BY Zenon, <2>2, <3>3
      <4>4. \E j \in 1 .. Len(ObjectBundle[p]) : id = ObjectBundle[p][j]
        BY Zenon, <4>b, BundlePlace
      <4>5. Len(ObjectBundle[p]) \in 0 .. Len(ObjectBundle[p]) /\ Working(p)
        BY <4>a, BundleTypes DEF Working
      <4>6. UNCHANGED replicas
        BY Zenon, <1>1, PreparedKept
      <4>7. m # ns => instances[<<m, id>>].exists /\ instances[<<m, id>>].desired = replicas[p]
        BY Zenon, <2>2, <3>3, <4>3, <4>5 DEF InstancesInv
      <4> HIDE DEF ns
      <4>8. CASE m = ns
        BY <3>1, <3>3, <4>1, <4>3, <4>4, <4>5, <4>6, <4>8, BundlePrepared
      <4>9. CASE m # ns
        <5>1. instances'[<<m, id>>] = instances[<<m, id>>]
            BY <3>1, <4>1, <4>3, <4>5, <4>9, BundlePrepared
        <5> QED
            BY Zenon, <3>3, <4>6, <4>7, <4>9, <5>1
      <4> QED
        BY Zenon, <4>8, <4>9
    <3>4. CASE q = p /\ ~PrepareNamespace(p)
      <4>1. m \in Prepared(p) /\ UNCHANGED replicas
        BY Zenon, <1>1, <2>2, <3>4, PreparedKept
      <4>2. CASE StartPhase(p)
        BY <4>1, <4>2 DEF StartPhase, ControlInv, Prepared
      <4>3. CASE ~StartPhase(p)
        <5>1. Working(p) /\ UNCHANGED instances
            BY Zenon, <1>1, <2>2, <3>4, <4>3 DEF PhaseStep, PrepareFails, StartTuningSet,
               StartAction, ExecuteObject, FinishPhase, Working, ControlInv
        <5> QED
            BY <2>2, <3>4, <4>1, <5>1 DEF InstancesInv
      <4> QED
        BY Zenon, <4>2, <4>3
    <3> QED
        BY Zenon, <3>2, <3>3, <3>4
  <2> QED
    BY Zenon, <2>1, <2>2 DEF InstancesInv
<1>2. CASE FinishStep \/ UNCHANGED vars
  <2>1. UNCHANGED <<replicas, pc, prepared, instances>>
    BY Zenon, <1>2 DEF FinishStep, vars
  <2> QED
    BY <2>1 DEF InstancesInv, Working, Prepared
<1> QED
    BY Zenon, <1>1, <1>2 DEF Next, Terminated

-----------------------------------------------------------------------------
\* The actions of a phase are its own: a step of another one leaves them alone.
LEMMA OthersKeepActions ==
    ASSUME ActionInv, NEW p \in Phases, PhaseStep(p), NEW q \in Phases, q # p
    PROVE  todo'[q] = todo[q] /\ running'[q] = running[q]
<1>1. todo'[q] = todo[q]
    BY Zenon DEF ActionInv, PhaseStep, StartPhase, PrepareNamespace, PrepareFails, StartTuningSet,
           StartAction, ExecuteObject, FinishPhase
<1>2. ASSUME NEW a \in running[p], ExecuteObject(p, a)
      PROVE  running'[q] = running[q]
    BY Zenon, <1>2 DEF ActionInv, ExecuteObject, ObjectDone, ObjectRefused, ObjectFails,
       ObjectRetries, FailAction, AdvanceAction
<1>3. ~(\E a \in running[p] : ExecuteObject(p, a)) => running'[q] = running[q]
    BY Zenon DEF ActionInv, PhaseStep, StartPhase, PrepareNamespace, PrepareFails, StartTuningSet,
           StartAction, FinishPhase
<1> QED
    BY Zenon, <1>1, <1>2, <1>3

\* ExecuteObject: an action in flight goes on to another object, is tried again, or is over.
LEMMA ActionMoves ==
    ASSUME ActionInv, NEW p \in Phases, NEW a \in running[p], ExecuteObject(p, a)
    PROVE  /\ a \in Actions /\ a \in Pending(p) /\ UNCHANGED <<pc, todo, instances>>
           /\ \/ running'[p] = running[p] \ {a}
              \/ \E b \in Actions : /\ running'[p] = (running[p] \ {a}) \cup {b}
                                    /\ b.ns = a.ns /\ b.r = a.r /\ b.op = a.op
                                    /\ b.n < Len(ObjectBundle[p])
           /\ running' \in [Phases -> SUBSET Actions]
<1>1. a \in Actions /\ running[p] \subseteq Actions /\ UNCHANGED <<pc, todo, instances>>
    BY Zenon DEF ActionInv, ExecuteObject
<1>2. a \in Pending(p) /\ a.n < Len(ObjectBundle[p]) /\ Len(ObjectBundle[p]) \in Nat
    BY Zenon, BundleTypes DEF ActionInv, PendingPart, Pending
<1> DEFINE next == [a EXCEPT !.n = @ + 1, !.tries = 0]
           again == [a EXCEPT !.tries = @ + 1]
<1>3. next \in Actions
  <2> DEFINE moved == [a EXCEPT !.n = @ + 1]
  <2>1. moved \in Actions
    BY <1>1 DEF Actions
  <2>2. [moved EXCEPT !.tries = 0] \in Actions
    <3> HIDE DEF moved
    <3> QED
        BY Zenon, <2>1 DEF Actions
  <2>3. next = [moved EXCEPT !.tries = 0]
    BY Zenon
  <2> QED
    BY Zenon, <2>2, <2>3
<1>c. again \in Actions
    BY <1>1 DEF Actions
<1>a. next.ns = a.ns /\ next.r = a.r /\ next.op = a.op /\ next.n = a.n + 1
    BY Zenon, <1>1 DEF Actions
<1>b. again.ns = a.ns /\ again.r = a.r /\ again.op = a.op /\ again.n = a.n
    BY <1>1 DEF Actions
<1>4. AdvanceAction(p, a) => \/ running' = [running EXCEPT ![p] = running[p] \ {a}]
                             \/ /\ next.n # Len(ObjectBundle[p])
                                /\ running' = [running EXCEPT ![p] = (running[p] \ {a}) \cup {next}]
    BY Zenon DEF AdvanceAction
<1> HIDE DEF next, again
<1>5. \/ AdvanceAction(p, a) \/ running' = [running EXCEPT ![p] = running[p] \ {a}]
      \/ running' = [running EXCEPT ![p] = (running[p] \ {a}) \cup {again}]
    BY Zenon DEF ExecuteObject, ObjectDone, ObjectRefused, ObjectFails, ObjectRetries,
       FailAction, again
<1>6. CASE running' = [running EXCEPT ![p] = running[p] \ {a}]
    BY Zenon, <1>1, <1>2, <1>6 DEF ActionInv
<1>7. ASSUME NEW b \in Actions, running' = [running EXCEPT ![p] = (running[p] \ {a}) \cup {b}]
      PROVE  running'[p] = (running[p] \ {a}) \cup {b} /\ running' \in [Phases -> SUBSET Actions]
    BY Zenon, <1>1, <1>7 DEF ActionInv
<1>8. /\ again.n < Len(ObjectBundle[p])
      /\ next.n # Len(ObjectBundle[p]) => next.n < Len(ObjectBundle[p])
    BY <1>1, <1>2, <1>a, <1>b DEF Actions
<1> QED
    BY <1>1, <1>2, <1>3, <1>a, <1>b, <1>c, <1>4, <1>5, <1>6, <1>7, <1>8

\* The tuning set starts an action: it is in flight now, and still to be finished.
LEMMA ActionStarts ==
    ASSUME ActionInv, NEW p \in Phases, StartAction(p)
    PROVE  /\ todo' \in [Phases -> Seq(Actions)] /\ running' \in [Phases -> SUBSET Actions]
           /\ QueuePart(p)' /\ Pending(p)' = Pending(p) /\ UNCHANGED <<pc, instances>>
<1>1. /\ todo[p] \in Seq(Actions) /\ running[p] \subseteq Actions /\ QueuePart(p)
      /\ todo \in [Phases -> Seq(Actions)] /\ running \in [Phases -> SUBSET Actions]
    BY Zenon DEF ActionInv
<1>2. Range(todo[p]) = {todo[p][i] : i \in 1 .. Len(todo[p])}
    BY <1>1 DEF Range
<1> DEFINE h == Head(todo[p])
           t == Tail(todo[p])
<1>3. /\ todo[p] # <<>> /\ pc[p] = "executing" /\ UNCHANGED <<pc, instances>>
      /\ todo' = [todo EXCEPT ![p] = t] /\ running' = [running EXCEPT ![p] = @ \cup {h}]
    BY Zenon DEF StartAction
<1>4. /\ h = todo[p][1] /\ h \in Actions /\ t \in Seq(Actions) /\ Len(t) = Len(todo[p]) - 1
      /\ Len(todo[p]) \in Nat \ {0} /\ \A i \in 1 .. Len(t) : t[i] = todo[p][i + 1]
    BY <1>1, <1>3
<1> HIDE DEF h, t
<1>5. Range(t) = {t[i] : i \in 1 .. Len(t)}
    BY <1>4 DEF Range
<1>6. h \notin Range(t) /\ Range(todo[p]) = Range(t) \cup {h}
  <2>1. \A i \in 1 .. Len(t) : t[i] # h /\ i + 1 \in 1 .. Len(todo[p])
        BY <1>1, <1>4 DEF QueuePart
  <2>2. \A i \in 1 .. Len(todo[p]) : i = 1 \/ (i - 1 \in 1 .. Len(t) /\ t[i - 1] = todo[p][i])
        BY <1>4
  <2>3. h \in Range(todo[p]) /\ Range(t) \subseteq Range(todo[p])
    <3>1. h \in Range(todo[p])
        BY <1>2, <1>4
    <3>2. ASSUME NEW i \in 1 .. Len(t)
          PROVE  t[i] \in Range(todo[p])
        BY Zenon, <1>2, <1>4, <2>1
    <3> QED
        BY <1>5, <3>1, <3>2
  <2>4. Range(todo[p]) \subseteq Range(t) \cup {h}
    <3>1. ASSUME NEW i \in 1 .. Len(todo[p])
          PROVE  todo[p][i] \in Range(t) \cup {h}
        BY Zenon, <1>4, <1>5, <2>2
    <3> QED
        BY Zenon, <1>2, <3>1
  <2> QED
        BY Zenon, <1>5, <2>1, <2>3, <2>4
<1>7. todo'[p] = t /\ running'[p] = running[p] \cup {h}
    BY Zenon, <1>1, <1>3
<1>8. todo' \in [Phases -> Seq(Actions)] /\ running' \in [Phases -> SUBSET Actions]
    BY Zenon, <1>1, <1>3, <1>4
<1>9. Pending(p)' = Pending(p)
    BY Zenon, <1>6, <1>7 DEF Pending
<1>10. \A i, j \in 1 .. Len(t) : t[i] = t[j] => i = j
    BY <1>1, <1>4 DEF QueuePart
<1>11. Range(t) \cap (running[p] \cup {h}) = {}
    BY <1>1, <1>6 DEF QueuePart
<1> QED
    BY <1>3, <1>7, <1>8, <1>9, <1>10, <1>11 DEF QueuePart, Working

\* No step of a phase, of its preparation or of its tuning set breaks the invariant about
\* the queue.
LEMMA QueueStep ==
    ASSUME ControlInv, InstancesInv, ActionInv, NEW p \in Phases, PhaseStep(p), ~PrepareNamespace(p)
    PROVE  /\ todo' \in [Phases -> Seq(Actions)] /\ running' \in [Phases -> SUBSET Actions]
           /\ QueuePart(p)'
           /\ \/ Pending(p)' = {}
              \/ Pending(p)' = Pending(p) /\ UNCHANGED instances
              \/ \E a \in Pending(p), b \in Actions :
                    /\ Pending(p)' \in {Pending(p) \ {a}, (Pending(p) \ {a}) \cup {b}}
                    /\ UNCHANGED instances
                    /\ b.ns = a.ns /\ b.r = a.r /\ b.op = a.op /\ b.n < Len(ObjectBundle[p])
<1>1. /\ todo[p] \in Seq(Actions) /\ running[p] \subseteq Actions /\ QueuePart(p)
      /\ todo \in [Phases -> Seq(Actions)] /\ running \in [Phases -> SUBSET Actions]
    BY DEF ActionInv
<1>2. Range(todo[p]) = {todo[p][i] : i \in 1 .. Len(todo[p])}
    BY <1>1 DEF Range
<1>3. CASE StartPhase(p) \/ PrepareFails(p) \/ FinishPhase(p)
  <2>1. UNCHANGED running /\ running[p] = {}
    BY Zenon, <1>1, <1>3 DEF StartPhase, PrepareFails, FinishPhase, QueuePart
  <2>2. todo' = [todo EXCEPT ![p] = <<>>]
    BY Zenon, <1>1, <1>3 DEF StartPhase, PrepareFails, FinishPhase, QueuePart, Working
  <2>3. todo'[p] = <<>> /\ todo' \in [Phases -> Seq(Actions)]
    BY <1>1, <2>2
  <2>4. Range(todo'[p]) = {} /\ Len(todo'[p]) = 0
    BY <2>3 DEF Range
  <2> QED
    BY <1>1, <2>1, <2>3, <2>4 DEF QueuePart, Pending
<1>4. CASE StartTuningSet(p)
    BY Zenon, <1>1, <1>4 DEF StartTuningSet, ControlInv, QueuePart, Pending, Working
<1>5. CASE StartAction(p)
    BY Zenon, <1>5, ActionStarts DEF QueuePart
<1>6. ASSUME NEW a \in running[p], ExecuteObject(p, a)
      PROVE  /\ todo' \in [Phases -> Seq(Actions)] /\ running' \in [Phases -> SUBSET Actions]
             /\ QueuePart(p)'
             /\ \E b \in Actions :
                   /\ Pending(p)' \in {Pending(p) \ {a}, (Pending(p) \ {a}) \cup {b}}
                   /\ b.ns = a.ns /\ b.r = a.r /\ b.op = a.op /\ b.n < Len(ObjectBundle[p])
             /\ a \in Pending(p) /\ UNCHANGED instances
  <2>1. PICK b \in Actions :
          /\ running'[p] \in {running[p] \ {a}, (running[p] \ {a}) \cup {b}}
          /\ b.ns = a.ns /\ b.r = a.r /\ b.op = a.op /\ b.n < Len(ObjectBundle[p])
    BY Zenon, <1>6, ActionMoves DEF ActionInv, PendingPart
  <2>2. /\ a \in Pending(p) /\ UNCHANGED <<pc, todo, instances>>
        /\ running' \in [Phases -> SUBSET Actions]
    BY Zenon, <1>6, ActionMoves
  <2>3. a \notin Range(todo[p]) /\ pc[p] = "executing"
    BY Zenon, <1>1 DEF QueuePart
  <2>4. b # a => b \notin Range(todo[p])
    BY Zenon, <2>1, <2>2 DEF ActionInv, PendingPart, Pending
  <2>5. Pending(p)' \in {Pending(p) \ {a}, (Pending(p) \ {a}) \cup {b}}
    BY <2>1, <2>2, <2>3 DEF Pending
  <2>6. Range(todo[p]) \cap running'[p] = {}
    BY <1>1, <2>1, <2>3, <2>4 DEF QueuePart
  <2> QED
    BY <1>1, <2>1, <2>2, <2>3, <2>5, <2>6 DEF QueuePart, Working
<1> QED
    BY <1>3, <1>4, <1>5, <1>6 DEF PhaseStep

\* ExecutePhase, one iteration over nsList: the actions it appends are those of a namespace
\* that had none, and they fit the counts just recorded.
LEMMA QueuePrepared ==
    ASSUME ControlInv, InstancesInv, ActionInv, NEW p \in Phases, PrepareNamespace(p), Working(p)'
    PROVE  LET ns == NamespaceList[p][prepared[p] + 1]
               s == BuildActions(ns, instances'[<<ns, ObjectBundle[p][1]>>].current, replicas[p])
           IN  /\ ns \in Namespaces /\ ns \notin Prepared(p) /\ Prepared(p)' = Prepared(p) \cup {ns}
               /\ 1 \in 1 .. Len(ObjectBundle[p]) /\ s \in Seq(Actions)
               /\ \A i, j \in 1 .. Len(ObjectBundle[p]) :
                     instances'[<<ns, ObjectBundle[p][i]>>].current =
                        instances'[<<ns, ObjectBundle[p][j]>>].current
               /\ Pending(p)' = Pending(p) \cup Range(s) /\ Range(s) \cap Pending(p) = {}
               /\ todo' \in [Phases -> Seq(Actions)] /\ QueuePart(p)'
               /\ UNCHANGED <<replicas, running, pc, objects>> /\ running[p] = {}
<1> DEFINE ns == NamespaceList[p][prepared[p] + 1]
           c == instances'[<<ns, ObjectBundle[p][1]>>].current
           s == BuildActions(ns, c, replicas[p])
<1>1. /\ pc[p] = "preparing" /\ prepared[p] < Len(NamespaceList[p]) /\ ObjectBundle[p] # <<>>
      /\ UNCHANGED <<replicas, running, objects>>
    BY Zenon DEF PrepareNamespace
<1>2. /\ prepared' = [prepared EXCEPT ![p] = @ + 1] /\ UNCHANGED pc
      /\ BundleCorrect([j \in DOMAIN ObjectBundle[p] |-> instances'[<<ns, ObjectBundle[p][j]>>]])
      /\ todo' = [todo EXCEPT ![p] = @ \o BuildActions(ns,
            [j \in DOMAIN ObjectBundle[p] |-> instances'[<<ns, ObjectBundle[p][j]>>]][1].current,
            replicas[p])]
    BY Zenon DEF PrepareNamespace, Working, ControlInv
<1>3. /\ 1 \in 1 .. Len(ObjectBundle[p]) /\ DOMAIN ObjectBundle[p] = 1 .. Len(ObjectBundle[p])
      /\ ObjectBundle[p][1] \in Ids
    BY <1>1, BundleTypes
<1>4. \A i, j \in 1 .. Len(ObjectBundle[p]) :
         instances'[<<ns, ObjectBundle[p][i]>>].current =
            instances'[<<ns, ObjectBundle[p][j]>>].current
  <2>1. PICK f : f = [j \in 1 .. Len(ObjectBundle[p]) |-> instances'[<<ns, ObjectBundle[p][j]>>]]
    BY Zenon
  <2>2. DOMAIN f = 1 .. Len(ObjectBundle[p])
        /\ \A j \in 1 .. Len(ObjectBundle[p]) : f[j] = instances'[<<ns, ObjectBundle[p][j]>>]
    BY Zenon, <2>1
  <2>3. BundleCorrect(f)
    BY Zenon, <1>2, <1>3, <2>1
  <2> SUFFICES ASSUME NEW i \in 1 .. Len(ObjectBundle[p]), NEW j \in 1 .. Len(ObjectBundle[p])
               PROVE  instances'[<<ns, ObjectBundle[p][i]>>].current =
                         instances'[<<ns, ObjectBundle[p][j]>>].current
    BY Zenon
  <2>4. f[i].current = f[j].current
    BY Zenon, <2>2, <2>3 DEF BundleCorrect
  <2> QED
    BY Zenon, <2>2, <2>4
<1>5. todo' = [todo EXCEPT ![p] = todo[p] \o s]
    BY Zenon, <1>2, <1>3
<1>6. prepared'[p] = prepared[p] + 1
    BY Zenon, <1>2 DEF ControlInv
<1>7. /\ prepared[p] + 1 \in 1 .. Len(NamespaceList[p]) /\ ns \notin Prepared(p)
      /\ Prepared(p)' = Prepared(p) \cup {ns}
  <2>1. PhaseStep(p) /\ prepared' # prepared
    BY <1>6 DEF PhaseStep, ControlInv
  <2> QED
    BY Zenon, <2>1, PreparedKept
<1>8. ns \in Namespaces
    BY Zenon, <1>7, NamespaceTypes
<1>9. c \in 0 .. MaxReplicas /\ replicas[p] \in 0 .. MaxReplicas
    BY Zenon, <1>3, <1>8, RecordsKept DEF PhaseStep, AreRecords, InstancesStates, ControlInv
<1> HIDE DEF ns, c
<1>10. /\ s \in Seq(Actions) /\ \A i, j \in 1 .. Len(s) : s[i].r = s[j].r => i = j
       /\ \A i \in 1 .. Len(s) : s[i].ns = ns
  <2>1. AsksFor(s, ns, c, replicas[p])
    BY Zenon, <1>8, <1>9, ActionsBuilt
  <2> HIDE DEF s
  <2> QED
    BY Zenon, <2>1 DEF AsksFor
<1> HIDE DEF s
<1>11. todo[p] \in Seq(Actions) /\ running[p] = {} /\ \A a \in Pending(p) : a.ns \in Prepared(p)
    BY Zenon, <1>1 DEF ActionInv, QueuePart, PendingPart
<1>12. todo'[p] = todo[p] \o s /\ todo' \in [Phases -> Seq(Actions)]
    BY <1>5, <1>10, <1>11 DEF ActionInv
<1>13. /\ Range(s) = {s[i] : i \in 1 .. Len(s)}
       /\ Range(todo[p]) = {todo[p][i] : i \in 1 .. Len(todo[p])}
    BY <1>10, <1>11 DEF Range
<1>14. Range(todo'[p]) = Range(todo[p]) \cup Range(s)
  <2>1. DOMAIN todo'[p] = 1 .. Len(todo[p]) + Len(s) /\ Len(s) \in Nat /\ Len(todo[p]) \in Nat
    BY <1>10, <1>11, <1>12
  <2>2. \A i \in 1 .. Len(todo[p]) + Len(s) :
           \/ i \in 1 .. Len(todo[p]) /\ todo'[p][i] = todo[p][i]
           \/ i - Len(todo[p]) \in 1 .. Len(s) /\ todo'[p][i] = s[i - Len(todo[p])]
    BY <1>10, <1>11, <1>12, <2>1
  <2>3. \A i \in 1 .. Len(todo[p]) : i \in 1 .. Len(todo[p]) + Len(s) /\ todo'[p][i] = todo[p][i]
    BY <1>10, <1>11, <1>12, <2>1
  <2>4. \A i \in 1 .. Len(s) : /\ i + Len(todo[p]) \in 1 .. Len(todo[p]) + Len(s)
                               /\ todo'[p][i + Len(todo[p])] = s[i]
    BY <1>10, <1>11, <1>12, <2>1
  <2>5. Range(todo'[p]) = {todo'[p][i] : i \in 1 .. Len(todo[p]) + Len(s)}
    BY <2>1 DEF Range
  <2>6. Range(todo'[p]) \subseteq Range(todo[p]) \cup Range(s)
    BY Zenon, <1>13, <2>2, <2>5
  <2>7. Range(todo[p]) \subseteq Range(todo'[p])
    BY Zenon, <1>13, <2>3, <2>5
  <2>8. Range(s) \subseteq Range(todo'[p])
    BY Zenon, <1>13, <2>4, <2>5
  <2> QED
    BY Zenon, <2>6, <2>7, <2>8
<1>15. Pending(p)' = Pending(p) \cup Range(s) /\ Range(s) \cap Pending(p) = {}
  <2>1. \A a \in Range(s) : a.ns = ns
    BY Zenon, <1>10, <1>13
  <2> QED
    BY Zenon, <1>1, <1>7, <1>11, <1>14, <2>1 DEF Pending
<1>16. QueuePart(p)'
  <2>1. \A i \in 1 .. Len(todo[p]) : todo[p][i].ns # ns
    BY Zenon, <1>7, <1>11, <1>13 DEF Pending
  <2>2. \A i, j \in 1 .. Len(todo'[p]) : todo'[p][i] = todo'[p][j] => i = j
    <3>1. Len(todo'[p]) = Len(todo[p]) + Len(s) /\ Len(s) \in Nat /\ Len(todo[p]) \in Nat
        BY <1>10, <1>11, <1>12
    <3>2. \A i \in 1 .. Len(todo[p]) + Len(s) :
             todo'[p][i] = IF i <= Len(todo[p]) THEN todo[p][i] ELSE s[i - Len(todo[p])]
        BY <1>10, <1>11, <1>12
    <3>3. \A i, j \in 1 .. Len(todo[p]) : todo[p][i] = todo[p][j] => i = j
        BY DEF ActionInv, QueuePart
    <3>4. \A i, j \in 1 .. Len(s) : s[i] = s[j] => i = j
        BY Zenon, <1>10
    <3>5. \A i \in 1 .. Len(todo[p]), j \in 1 .. Len(s) : todo[p][i] # s[j]
        BY Zenon, <1>10, <2>1
    <3>6. ASSUME NEW i \in 1 .. Len(todo'[p]), NEW j \in 1 .. Len(todo'[p]),
                 todo'[p][i] = todo'[p][j]
          PROVE  i = j
      <4>1. \A k \in 1 .. Len(todo'[p]) : k > Len(todo[p]) =>
               k - Len(todo[p]) \in 1 .. Len(s) /\ todo'[p][k] = s[k - Len(todo[p])]
        BY <3>1, <3>2
      <4>2. \A k \in 1 .. Len(todo'[p]) : k <= Len(todo[p]) =>
               k \in 1 .. Len(todo[p]) /\ todo'[p][k] = todo[p][k]
        BY <3>1, <3>2
      <4>3. CASE i <= Len(todo[p]) /\ j <= Len(todo[p])
        BY Zenon, <3>3, <3>6, <4>2, <4>3
      <4>4. CASE i > Len(todo[p]) /\ j > Len(todo[p])
        <5>1. i - Len(todo[p]) = j - Len(todo[p])
            BY Zenon, <3>4, <3>6, <4>1, <4>4
        <5> QED
            BY <3>1, <5>1
      <4>5. ~(i <= Len(todo[p]) /\ j > Len(todo[p]))
        BY Zenon, <3>5, <3>6, <4>1, <4>2
      <4>6. ~(j <= Len(todo[p]) /\ i > Len(todo[p]))
        BY Zenon, <3>5, <3>6, <4>1, <4>2
      <4> QED
        BY <3>1, <4>3, <4>4, <4>5, <4>6
    <3> QED
        BY Zenon, <3>6
  <2> QED
    BY Zenon, <1>1, <1>2, <1>11, <2>2 DEF QueuePart, Working
<1> QED
    BY Zenon, <1>1, <1>2, <1>3, <1>4, <1>7, <1>8, <1>10, <1>11, <1>12, <1>15, <1>16 DEF ns, c, s

\* The counts of the other namespaces stay as they are while one is prepared; a new record
\* counts what was recorded before or what the listing finds.
LEMMA CountsPrepared ==
    ASSUME ControlInv, InstancesInv, NEW p \in Phases, PrepareNamespace(p), Working(p)'
    PROVE  LET ns == NamespaceList[p][prepared[p] + 1]
           IN  /\ \A m \in Namespaces, id \in Ids : m # ns =>
                     instances'[<<m, id>>] = instances[<<m, id>>]
               /\ \A id \in Range(ObjectBundle[p]) :
                     \/ instances[<<ns, id>>].exists /\ instances'[<<ns, id>>].current =
                                                        instances[<<ns, id>>].current
                     \/ <<ns, id>> \in unlisted'
                     \/ /\ ~instances[<<ns, id>>].exists
                        /\ instances'[<<ns, id>>].current =
                              IF id \in UnknownIds THEN Cardinality(ReplicasOf(ns, id)) ELSE 0
<1> DEFINE ns == NamespaceList[p][prepared[p] + 1]
           bundle == ObjectBundle[p]
<1>1. pc[p] = "preparing" /\ prepared[p] < Len(NamespaceList[p])
    BY Zenon DEF PrepareNamespace
<1>2. prepared[p] + 1 \in 1 .. Len(NamespaceList[p])
    BY <1>1, NamespaceTypes DEF ControlInv
<1>3. ns \in Namespaces
    BY Zenon, <1>2, NamespaceTypes
<1>4. PICK failed : /\ instances' = PrepareBundle(p, ns, Len(ObjectBundle[p]), failed)
                    /\ unlisted' = unlisted \cup ({ns} \X failed)
    BY Zenon DEF PrepareNamespace, Working, ControlInv
<1>5. Len(ObjectBundle[p]) \in 0 .. Len(ObjectBundle[p]) /\ Range(ObjectBundle[p]) \subseteq Ids
    BY BundleTypes
<1> HIDE DEF ns
<1>a. instances' = PrepareBundle(p, ns, Len(ObjectBundle[p]), failed)
    BY Zenon, <1>4
<1>6. ASSUME NEW m \in Namespaces, NEW id \in Ids, m # ns
      PROVE  instances'[<<m, id>>] = instances[<<m, id>>]
    BY <1>3, <1>a, <1>5, <1>6, BundlePrepared
<1>7. ASSUME NEW id \in Range(ObjectBundle[p])
      PROVE  \/ instances[<<ns, id>>].exists /\ instances'[<<ns, id>>].current =
                                                instances[<<ns, id>>].current
             \/ <<ns, id>> \in unlisted'
             \/ /\ ~instances[<<ns, id>>].exists
                /\ instances'[<<ns, id>>].current =
                      IF id \in UnknownIds THEN Cardinality(ReplicasOf(ns, id)) ELSE 0
  <2>1. id \in Ids /\ \E j \in 1 .. Len(ObjectBundle[p]) : id = ObjectBundle[p][j]
    BY Zenon, <1>5, <1>7, BundlePlace
  <2>2. CASE instances[<<ns, id>>].exists
    BY <1>3, <1>a, <1>5, <2>1, <2>2, BundlePrepared
  <2>3. CASE id \in failed
    BY Zenon, <1>4, <2>3
  <2>4. CASE ~instances[<<ns, id>>].exists /\ id \notin failed
    <3>1. instances'[<<ns, id>>].current = ReplicaCountOfNewObject(ns, id, id \in failed)
        BY <1>3, <1>a, <1>5, <2>1, <2>4, BundlePrepared
    <3> QED
        BY Zenon, <2>4, <3>1 DEF ReplicaCountOfNewObject
  <2> QED
    BY Zenon, <2>2, <2>3, <2>4
<1> QED
    BY Zenon, <1>6, <1>7 DEF ns

\* No step breaks the invariant about the actions.
LEMMA ActionStep ==
    ASSUME ControlInv, InstancesInv, ActionInv, [Next]_vars
    PROVE  ActionInv'
<1>1. ASSUME NEW p \in Phases, PhaseStep(p), NEW q \in Phases, q # p
      PROVE  QueuePart(q)' /\ PendingPart(q)'
  <2>1. /\ todo'[q] = todo[q] /\ running'[q] = running[q] /\ pc'[q] = pc[q]
        /\ Prepared(q)' = Prepared(q) /\ replicas'[q] = replicas[q]
    BY Zenon, <1>1, OthersKeepActions, PreparedKept
  <2>2. Pending(q)' = Pending(q) /\ QueuePart(q) /\ PendingPart(q)
    BY Zenon, <2>1 DEF ActionInv, Pending
  <2>3. QueuePart(q)'
    BY Zenon, <2>1, <2>2 DEF QueuePart, Working
  <2>4. ASSUME NEW a \in Pending(q), NEW id \in Range(ObjectBundle[q])
        PROVE  instances'[<<a.ns, id>>] = instances[<<a.ns, id>>]
    <3>1. Working(q) /\ a.ns \in Prepared(q)
        BY <2>2 DEF QueuePart, PendingPart, Pending, Working, Range
    <3>2. <<a.ns, id>> \in Pairs[q] /\ a.ns \in Namespaces /\ id \in Ids
        BY Zenon, <3>1, PreparedTypes, PairTypes
    <3>3. <<a.ns, id>> \notin Pairs[p]
        BY Zenon, <1>1, <3>1, <3>2, StepsAreDisjoint
    <3> QED
        BY <1>1, <3>2, <3>3, RecordsKept
  <2>5. PendingPart(q)'
    BY Zenon, <2>1, <2>2, <2>4 DEF PendingPart
  <2> QED
    BY Zenon, <2>3, <2>5
<1>2. ASSUME NEW p \in Phases, PhaseStep(p), ~PrepareNamespace(p) \/ ~Working(p)'
      PROVE  /\ todo' \in [Phases -> Seq(Actions)] /\ running' \in [Phases -> SUBSET Actions]
             /\ QueuePart(p)' /\ PendingPart(p)'
  <2>1. CASE PrepareNamespace(p)
    <3>1. /\ pc[p] = "preparing" /\ UNCHANGED running /\ todo' = [todo EXCEPT ![p] = <<>>]
        BY Zenon, <1>2, <2>1 DEF PrepareNamespace, Working
    <3>2. running[p] = {} /\ todo'[p] = <<>>
        BY Zenon, <3>1 DEF ActionInv, QueuePart
    <3>3. Range(todo'[p]) = {} /\ Len(todo'[p]) = 0
        BY <3>2 DEF Range
    <3>4. todo' \in [Phases -> Seq(Actions)] /\ running' \in [Phases -> SUBSET Actions]
        BY <3>1 DEF ActionInv
    <3> QED
        BY <3>1, <3>2, <3>3, <3>4 DEF QueuePart, PendingPart, Pending
  <2>2. CASE ~PrepareNamespace(p)
    <3>1. Prepared(p)' = Prepared(p) /\ UNCHANGED replicas /\ PendingPart(p)
        BY Zenon, <1>2, <2>2, PreparedKept DEF ActionInv
    <3>2. ASSUME Pending(p)' = {}
          PROVE  PendingPart(p)'
        BY Zenon, <3>2 DEF PendingPart
    <3>3. ASSUME Pending(p)' = Pending(p), UNCHANGED instances
          PROVE  PendingPart(p)'
        BY <3>1, <3>3 DEF PendingPart
    <3>4. ASSUME NEW a \in Pending(p), NEW b \in Actions, UNCHANGED instances,
                 Pending(p)' \in {Pending(p) \ {a}, (Pending(p) \ {a}) \cup {b}},
                 b.ns = a.ns, b.r = a.r, b.op = a.op, b.n < Len(ObjectBundle[p])
          PROVE  PendingPart(p)'
      <4>1. \A x, y \in Pending(p)' : x.ns = y.ns /\ x.r = y.r => x = y
        BY <3>1, <3>4 DEF PendingPart
      <4>2. ASSUME NEW x \in Pending(p)'
            PROVE  /\ x.ns \in Prepared(p)' /\ x.n < Len(ObjectBundle[p])
                   /\ \A id \in Range(ObjectBundle[p]) :
                         Fits(x, instances'[<<x.ns, id>>].current, replicas'[p])
        <5>1. CASE x \in Pending(p)
            BY <3>1, <3>4, <5>1 DEF PendingPart
        <5>2. CASE x = b
            BY <3>1, <3>4, <5>2 DEF PendingPart, Fits
        <5> QED
            BY Zenon, <3>4, <4>2, <5>1, <5>2
      <4> QED
        BY Zenon, <4>1, <4>2 DEF PendingPart
    <3> QED
        BY Zenon, <1>2, <2>2, <3>2, <3>3, <3>4, QueueStep
  <2> QED
    BY Zenon, <2>1, <2>2
<1>3. ASSUME NEW p \in Phases, PrepareNamespace(p), Working(p)'
      PROVE  /\ todo' \in [Phases -> Seq(Actions)] /\ running' \in [Phases -> SUBSET Actions]
             /\ QueuePart(p)' /\ PendingPart(p)'
  <2> DEFINE ns == NamespaceList[p][prepared[p] + 1]
             c == instances'[<<ns, ObjectBundle[p][1]>>].current
             s == BuildActions(ns, c, replicas[p])
  <2>1. /\ ns \in Namespaces /\ ns \notin Prepared(p) /\ Prepared(p)' = Prepared(p) \cup {ns}
        /\ 1 \in 1 .. Len(ObjectBundle[p]) /\ s \in Seq(Actions)
        /\ \A i, j \in 1 .. Len(ObjectBundle[p]) :
              instances'[<<ns, ObjectBundle[p][i]>>].current =
                 instances'[<<ns, ObjectBundle[p][j]>>].current
        /\ Pending(p)' = Pending(p) \cup Range(s) /\ Range(s) \cap Pending(p) = {}
        /\ todo' \in [Phases -> Seq(Actions)] /\ QueuePart(p)'
        /\ UNCHANGED <<replicas, running, pc, objects>> /\ running[p] = {}
    BY Zenon, <1>3, QueuePrepared
  <2>2. PhaseStep(p)
    BY Zenon, <1>3 DEF PhaseStep
  <2>3. c \in 0 .. MaxReplicas /\ replicas[p] \in 0 .. MaxReplicas
    <3>1. ObjectBundle[p][1] \in Ids
        BY Zenon, <2>1, BundleTypes
    <3> QED
        BY Zenon, <2>1, <2>2, <3>1, RecordsKept DEF AreRecords, InstancesStates, ControlInv
  <2>4. \A m \in Namespaces, id \in Ids : m # ns => instances'[<<m, id>>] = instances[<<m, id>>]
    BY Zenon, <1>3, CountsPrepared
  <2>5. ASSUME NEW id \in Range(ObjectBundle[p])
        PROVE  instances'[<<ns, id>>].current = c
    <3>1. PICK j \in 1 .. Len(ObjectBundle[p]) : id = ObjectBundle[p][j]
        BY Zenon, <2>5, BundlePlace
    <3> QED
        BY Zenon, <2>1, <3>1
  <2> HIDE DEF ns, c
  <2>6. /\ \A i, j \in 1 .. Len(s) : s[i].r = s[j].r => i = j
        /\ \A i \in 1 .. Len(s) : s[i].ns = ns /\ s[i].n = 0 /\ Fits(s[i], c, replicas[p])
    <3>1. AsksFor(s, ns, c, replicas[p])
        BY Zenon, <2>1, <2>3, ActionsBuilt
    <3> HIDE DEF s
    <3> QED
        BY Zenon, <3>1 DEF AsksFor
  <2> HIDE DEF s
  <2>7. Range(s) = {s[i] : i \in 1 .. Len(s)}
    BY <2>1 DEF Range
  <2>8. /\ \A a, b \in Range(s) : a.r = b.r => a = b
        /\ \A a \in Range(s) : a.ns = ns /\ a.n = 0 /\ Fits(a, c, replicas[p])
    BY <2>6, <2>7
  <2>9. PendingPart(p) /\ Prepared(p) \subseteq Namespaces /\ Range(ObjectBundle[p]) \subseteq Ids
    BY Zenon, PreparedTypes, BundleTypes DEF ActionInv
  <2>10. \A a, b \in Pending(p)' : a.ns = b.ns /\ a.r = b.r => a = b
    BY <2>1, <2>8, <2>9 DEF PendingPart
  <2>11. ASSUME NEW a \in Pending(p)'
         PROVE  /\ a.ns \in Prepared(p)' /\ a.n < Len(ObjectBundle[p])
                /\ \A id \in Range(ObjectBundle[p]) :
                      Fits(a, instances'[<<a.ns, id>>].current, replicas'[p])
    <3>1. CASE a \in Pending(p)
      <4>1. a.ns \in Prepared(p) /\ a.ns # ns /\ a.n < Len(ObjectBundle[p])
        BY <2>1, <2>9, <3>1 DEF PendingPart
      <4>2. \A id \in Range(ObjectBundle[p]) : instances'[<<a.ns, id>>] = instances[<<a.ns, id>>]
        BY Zenon, <2>4, <2>9, <4>1
      <4> QED
        BY Zenon, <2>1, <2>9, <3>1, <4>1, <4>2 DEF PendingPart
    <3>2. CASE a \in Range(s)
      <4>1. a.ns = ns /\ a.n = 0 /\ Fits(a, c, replicas[p])
        BY Zenon, <2>8, <3>2
      <4>2. a.n < Len(ObjectBundle[p])
        BY <2>1, <4>1, BundleTypes
      <4> QED
        BY Zenon, <2>1, <2>5, <4>1, <4>2
    <3> QED
        BY Zenon, <2>1, <2>11, <3>1, <3>2
  <2>12. PendingPart(p)'
    BY Zenon, <2>10, <2>11 DEF PendingPart
  <2>13. running' \in [Phases -> SUBSET Actions]
    BY Zenon, <2>1 DEF ActionInv
  <2> QED
    BY Zenon, <2>1, <2>12, <2>13
<1>4. CASE FinishStep \/ UNCHANGED vars
  <2>1. UNCHANGED <<replicas, pc, prepared, instances, todo, running>>
    BY Zenon, <1>4 DEF FinishStep, vars
  <2> QED
    BY <2>1 DEF ActionInv, QueuePart, PendingPart, Pending, Working, Prepared
<1>5. ASSUME NEW p \in Phases, PhaseStep(p)
      PROVE  ActionInv'
    BY Zenon, <1>1, <1>2, <1>3, <1>5 DEF ActionInv
<1> QED
    BY Zenon, <1>4, <1>5 DEF Next, Terminated

=============================================================================
