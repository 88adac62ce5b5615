---------------------------- MODULE PhaseExecutor ----------------------------
(***************************************************************************)
(* Execution of the phases of a test (pkg/test/simple_test_executor.go).   *)
(*                                                                         *)
(* A step runs its phases in parallel and ends when all of them have       *)
(* ended.  A phase reconciles, in each namespace of its list, a bundle of  *)
(* objects to replicas[p] replicas: it compares that number with the       *)
(* replica count recorded in the test state (pkg/state), builds one action *)
(* per replica to delete, patch or create, and hands the actions to a      *)
(* tuning set (pkg/tuningset), which runs them concurrently.  The recorded *)
(* count is brought up to date by a deferred function when the phase       *)
(* returns, whatever the actions did.                                      *)
(*                                                                         *)
(* Every object operation is a retried API call (pkg/framework/client): an *)
(* attempt may fail before or after it took effect.                        *)
(***************************************************************************)
EXTENDS Integers, Sequences, FiniteSets, Functions

CONSTANTS
    Phases,             \* phases of the test
    Namespaces,         \* namespaces named by some phase
    Ids,                \* (basename, kind, API group) triples: InstancesIdentifier
    NamespaceList,      \* phase -> sequence of namespaces
    ObjectBundle,       \* phase -> sequence of Ids
    Steps,              \* sequence of sets of phases
    UnknownIds,         \* Ids whose object sets ListUnknownObjectOptions
    EmptyTemplates,     \* Ids whose template renders to an empty document
    ParallelismLimit,   \* actions a tuning set has in flight at a time
    RetrySteps,         \* retryBackoffSteps: attempts of one API call
    MaxReplicas,        \* bound: largest ReplicasPerNamespace
    MaxFaults           \* bound: API calls, template reads and tuning sets that fail

(***************************************************************************)
(* Within one step two phases work on different sets of replicated         *)
(* objects, as docs/design.md asks ("different workloads at the same       *)
(* time"), and a bundle names an identifier once.                          *)
(***************************************************************************)
Pairs == [p \in Phases |-> Range(NamespaceList[p]) \X Range(ObjectBundle[p])]

ASSUME PhaseConfigAssumption ==
    /\ NamespaceList \in [Phases -> Seq(Namespaces)]
    /\ ObjectBundle \in [Phases -> Seq(Ids)]
    /\ \A p \in Phases : IsInjective(NamespaceList[p]) /\ IsInjective(ObjectBundle[p])
    /\ Steps \in Seq(SUBSET Phases)
    /\ \A i \in DOMAIN Steps : \A p, q \in Steps[i] :
          p # q => Pairs[p] \cap Pairs[q] = {}
    /\ \A i, j \in DOMAIN Steps : i # j => Steps[i] \cap Steps[j] = {}
    /\ UnknownIds \subseteq Ids /\ EmptyTemplates \subseteq Ids
    /\ ParallelismLimit \in Nat \ {0} /\ RetrySteps \in Nat \ {0}
    /\ MaxReplicas \in Nat /\ MaxFaults \in Nat

VARIABLES
    replicas,   \* phase -> ReplicasPerNamespace (configuration)
    step,       \* index of the step being executed
    pc,         \* phase -> where ExecutePhase is
    prepared,   \* phase -> number of namespaces already processed
    todo,       \* phase -> actions built and not started
    running,    \* phase -> actions in flight
    errs,       \* phase -> TRUE iff its error list is not empty
    instances,  \* (namespace, id) -> recorded InstancesState
    objects,    \* objects that exist in the cluster
    faults,     \* failures injected so far (bounded by MaxFaults)
    unlisted    \* history: pairs whose listing failed, so that 0 was assumed

vars == <<replicas, step, pc, prepared, todo, running, errs, instances,
          objects, faults, unlisted>>

ReplicaRange == 0 .. MaxReplicas - 1
Objects == Namespaces \X Ids \X ReplicaRange
Operations == {"create", "patch", "delete"}
NoInstances == [desired |-> 0, current |-> 0, exists |-> FALSE]
InstancesStates == [desired: 0 .. MaxReplicas, current: 0 .. MaxReplicas, exists: BOOLEAN]

\* An action of a phase: operation op on replica r of the whole bundle in
\* namespace ns; n objects of the bundle are dealt with, and the call for
\* the next one has been attempted `tries' times.
Actions == [ns: Namespaces, r: ReplicaRange, op: Operations, n: Nat, tries: Nat]

UnknownPairs == {x \in UNION {Pairs[p] : p \in Phases} : x[2] \in UnknownIds}

ReplicasOf(ns, id) == {r \in ReplicaRange : <<ns, id, r>> \in objects}

-----------------------------------------------------------------------------
(***************************************************************************)
(* Initial state: nothing recorded.  Replicas of UnknownIds may exist,     *)
(* because somebody other than the test created them.                      *)
(***************************************************************************)
Init ==
    /\ replicas \in [Phases -> 0 .. MaxReplicas]
    /\ step = 1
    /\ pc = [p \in Phases |-> "idle"]
    /\ prepared = [p \in Phases |-> 0]
    /\ todo = [p \in Phases |-> <<>>]
    /\ running = [p \in Phases |-> {}]
    /\ errs = [p \in Phases |-> FALSE]
    /\ instances = [k \in Namespaces \X Ids |-> NoInstances]
    /\ \E found \in [UnknownPairs -> 0 .. MaxReplicas] :
          objects = {o \in Objects : /\ <<o[1], o[2]>> \in UnknownPairs
                                     /\ o[3] < found[<<o[1], o[2]>>]}
    /\ faults = 0
    /\ unlisted = {}

(***************************************************************************)
(* ExecuteStep: start every phase of the current step.  A phase whose      *)
(* tuning set is not defined ends at once, and records nothing.            *)
(***************************************************************************)
StartPhase(p) ==
    /\ step <= Len(Steps) /\ p \in Steps[step]
    /\ pc[p] = "idle"
    /\ \/ /\ pc' = [pc EXCEPT ![p] = "preparing"]
          /\ UNCHANGED <<errs, faults>>
       \/ /\ faults < MaxFaults /\ faults' = faults + 1
          /\ pc' = [pc EXCEPT ![p] = "done"]
          /\ errs' = [errs EXCEPT ![p] = TRUE]
    /\ UNCHANGED <<replicas, step, prepared, todo, running, instances, objects, unlisted>>

\* ExecuteStep and ExecuteTestSteps: the step ends when its wait group is
\* empty.  Errors of phases are never critical, so the next step follows.
FinishStep ==
    /\ step <= Len(Steps)
    /\ \A p \in Steps[step] : pc[p] = "done"
    /\ step' = step + 1
    /\ UNCHANGED <<replicas, pc, prepared, todo, running, errs, instances,
                   objects, faults, unlisted>>

-----------------------------------------------------------------------------
(***************************************************************************)
(* The loop over the namespaces of a phase.                                *)
(***************************************************************************)

\* verifyBundleCorrectness: all objects of the bundle have as many replicas.
BundleCorrect(states) == \A a, b \in DOMAIN states : states[a].current = states[b].current

\* getReplicaCountOfNewObject: an object that is new to the test has no
\* replicas, unless it asks for a listing; a listing that fails counts 0.
ReplicaCountOfNewObject(ns, id, listFails) ==
    IF id \in UnknownIds /\ ~listFails THEN Cardinality(ReplicasOf(ns, id)) ELSE 0

\* Get the recorded state of a pair, or make one up, and set DesiredReplicaCount.
PrepareInstances(ns, id, desired, listFails) ==
    [desired |-> desired,
     current |-> IF instances[<<ns, id>>].exists THEN instances[<<ns, id>>].current
                 ELSE ReplicaCountOfNewObject(ns, id, listFails),
     exists  |-> TRUE]

\* Faulty variant: the first replica to delete is left out.
BuildActions_KeepsOne(ns, current, desired) ==
    LET Op(op, lo, hi) == [i \in 1 .. (IF hi > lo THEN hi - lo ELSE 0) |->
            [ns |-> ns, r |-> lo + i - 1, op |-> op, n |-> 0, tries |-> 0]]
    IN  Op("delete", desired + 1, current)
        \o (IF current = desired THEN Op("patch", 0, desired) ELSE <<>>)
        \o Op("create", current, desired)

\* Faulty variant: replicas are numbered from 1.
BuildActions_FromOne(ns, current, desired) ==
    LET Op(op, lo, hi) == [i \in 1 .. (IF hi > lo THEN hi - lo ELSE 0) |->
            [ns |-> ns, r |-> lo + i, op |-> op, n |-> 0, tries |-> 0]]
    IN  Op("delete", desired, current)
        \o (IF current = desired THEN Op("patch", 0, desired) ELSE <<>>)
        \o Op("create", current, desired)

\* The actions for one namespace, in the order the code appends them.
BuildActions(ns, current, desired) ==
    LET Op(op, lo, hi) == [i \in 1 .. (IF hi > lo THEN hi - lo ELSE 0) |->
            [ns |-> ns, r |-> lo + i - 1, op |-> op, n |-> 0, tries |-> 0]]
    IN  Op("delete", desired, current)
        \o (IF current = desired THEN Op("patch", 0, desired) ELSE <<>>)
        \o Op("create", current, desired)

\* The deferred functions of the first k namespaces: the current count of
\* every pair becomes the desired one.
DeferredUpdate(p, k, ins) ==
    LET done == {NamespaceList[p][i] : i \in 1 .. k} \X Range(ObjectBundle[p])
    IN  [x \in DOMAIN ins |-> IF x \in done THEN [ins[x] EXCEPT !.current = ins[x].desired]
                              ELSE ins[x]]

\* Recorded state once the first k objects of the bundle are prepared in ns.
PrepareBundle(p, ns, k, failed) ==
    LET bundle == {ObjectBundle[p][j] : j \in 1 .. k}
    IN  [x \in DOMAIN instances |->
            IF x[1] = ns /\ x[2] \in bundle
            THEN PrepareInstances(ns, x[2], replicas[p], x[2] \in failed)
            ELSE instances[x]]

\* ExecutePhase, one iteration over nsList: record the desired counts, verify
\* the bundle, append the actions.  A bundle whose objects have different
\* counts ends the phase at once; the deferred functions still run.
PrepareNamespace(p) ==
    /\ pc[p] = "preparing" /\ prepared[p] < Len(NamespaceList[p])
    /\ ObjectBundle[p] # <<>>
    /\ LET ns     == NamespaceList[p][prepared[p] + 1]
           bundle == Range(ObjectBundle[p])
           listed == {id \in bundle \cap UnknownIds : ~instances[<<ns, id>>].exists}
       IN  \E failed \in SUBSET listed :
             LET ins    == PrepareBundle(p, ns, Len(ObjectBundle[p]), failed)
                 states == [j \in DOMAIN ObjectBundle[p] |-> ins[<<ns, ObjectBundle[p][j]>>]]
             IN  /\ faults + Cardinality(failed) <= MaxFaults
                 /\ faults' = faults + Cardinality(failed)
                 /\ unlisted' = unlisted \cup ({ns} \X failed)
                 /\ \/ /\ BundleCorrect(states)
                       /\ todo' = [todo EXCEPT ![p] =
                                     @ \o BuildActions(ns, states[1].current, replicas[p])]
                       /\ prepared' = [prepared EXCEPT ![p] = @ + 1]
                       /\ instances' = ins
                       /\ UNCHANGED <<pc, errs>>
                    \/ /\ ~BundleCorrect(states)
                       /\ instances' = DeferredUpdate(p, prepared[p], ins)
                       /\ errs' = [errs EXCEPT ![p] = TRUE]
                       /\ pc' = [pc EXCEPT ![p] = "done"]
                       /\ todo' = [todo EXCEPT ![p] = <<>>]
                       /\ UNCHANGED prepared
    /\ UNCHANGED <<replicas, step, running, objects>>

\* getIdentifier fails to read the template of the object after the first k:
\* ExecutePhase returns, with k objects of this namespace already recorded.
PrepareFails(p) ==
    /\ pc[p] = "preparing" /\ prepared[p] < Len(NamespaceList[p])
    /\ faults < MaxFaults
    /\ \E k \in 0 .. Len(ObjectBundle[p]) - 1 :
          instances' = DeferredUpdate(p, prepared[p],
                          PrepareBundle(p, NamespaceList[p][prepared[p] + 1], k, {}))
    /\ faults' = faults + 1
    /\ errs' = [errs EXCEPT ![p] = TRUE]
    /\ pc' = [pc EXCEPT ![p] = "done"]
    /\ todo' = [todo EXCEPT ![p] = <<>>]
    /\ UNCHANGED <<replicas, step, prepared, running, objects, unlisted>>

\* All namespaces are prepared, or the bundle is empty (ExecutePhase returns
\* nil in the first namespace, having built nothing).
StartTuningSet(p) ==
    /\ pc[p] = "preparing"
    /\ prepared[p] = Len(NamespaceList[p]) \/ ObjectBundle[p] = <<>>
    /\ pc' = [pc EXCEPT ![p] = "executing"]
    /\ UNCHANGED <<replicas, step, prepared, todo, running, errs, instances,
                   objects, faults, unlisted>>

-----------------------------------------------------------------------------
(***************************************************************************)
(* The tuning set: actions start in order, at most ParallelismLimit of     *)
(* them in flight.  The pauses of the rate-limited tuning sets only delay  *)
(* a start, so the interleavings below include theirs.                     *)
(***************************************************************************)
StartAction(p) ==
    /\ pc[p] = "executing" /\ todo[p] # <<>>
    /\ Cardinality(running[p]) < ParallelismLimit
    /\ running' = [running EXCEPT ![p] = @ \cup {Head(todo[p])}]
    /\ todo' = [todo EXCEPT ![p] = Tail(@)]
    /\ UNCHANGED <<replicas, step, pc, prepared, errs, instances, objects,
                   faults, unlisted>>

\* Faulty variant: deletion goes through the bundle forwards.
ObjectIndex_Forward(p, a) == a.n + 1

\* The object an action works on: deletion goes through the bundle backwards.
ObjectIndex(p, a) == IF a.op = "delete" THEN Len(ObjectBundle[p]) - a.n ELSE a.n + 1
CurrentId(p, a) == ObjectBundle[p][ObjectIndex(p, a)]

\* The deletion of an object is skipped when the recorded count says that
\* the replica does not exist.
Skipped(p, a) == a.op = "delete" /\ a.r >= instances[<<a.ns, CurrentId(p, a)>>].current

\* ExecuteObject has nothing to send for a template that renders to nothing
\* (deletion reads the raw template instead).
NothingToSend(p, a) == a.op # "delete" /\ CurrentId(p, a) \in EmptyTemplates

\* What the API server does with one attempt.
Apply(p, a) ==
    LET o == <<a.ns, CurrentId(p, a), a.r>>
    IN  CASE a.op = "create" -> objects \cup {o}
          [] a.op = "delete" -> objects \ {o}
          [] a.op = "patch"  -> objects

\* AlreadyExists (create) and NotFound (delete) are allowed errors; patching
\* reads the object first and fails when it is not there.
Refused(p, a) == a.op = "patch" /\ <<a.ns, CurrentId(p, a), a.r>> \notin objects

\* The action moves on to the next object of the bundle, or returns.
AdvanceAction(p, a) ==
    LET next == [a EXCEPT !.n = @ + 1, !.tries = 0]
        rest == running[p] \ {a}
    IN  running' = [running EXCEPT ![p] =
                      IF next.n = Len(ObjectBundle[p]) THEN rest ELSE rest \cup {next}]

\* Faulty variant: the error of a deletion is not added to the error list.
FailAction_Silent(p, a) ==
    /\ errs' = [errs EXCEPT ![p] = @ \/ a.op # "delete"]
    /\ IF a.op = "delete" THEN AdvanceAction(p, a)
       ELSE running' = [running EXCEPT ![p] = @ \ {a}]

\* After an error a deletion goes on with the next object; a creation or an
\* update skips the rest of the bundle.
FailAction(p, a) ==
    /\ errs' = [errs EXCEPT ![p] = TRUE]
    /\ IF a.op = "delete" THEN AdvanceAction(p, a)
       ELSE running' = [running EXCEPT ![p] = @ \ {a}]

\* ExecuteObject succeeds (or has nothing to do).
ObjectDone(p, a) ==
    /\ Skipped(p, a) \/ NothingToSend(p, a) \/ ~Refused(p, a)
    /\ objects' = IF Skipped(p, a) \/ NothingToSend(p, a) THEN objects ELSE Apply(p, a)
    /\ AdvanceAction(p, a)
    /\ UNCHANGED <<errs, faults>>

\* Faulty variant: a patch of a missing object is retried without end.
ObjectRefused_Forever(p, a) ==
    /\ Refused(p, a) /\ ~NothingToSend(p, a)
    /\ UNCHANGED <<running, errs, objects, faults>>

\* The object to patch is not there: an error that is not retried.
ObjectRefused(p, a) ==
    /\ Refused(p, a) /\ ~NothingToSend(p, a)
    /\ FailAction(p, a)
    /\ UNCHANGED <<objects, faults>>

\* The attempt fails for good: unreadable template, or an error of the API
\* server that is neither allowed nor retryable.
ObjectFails(p, a) ==
    /\ ~Skipped(p, a)
    /\ faults < MaxFaults /\ faults' = faults + 1
    /\ FailAction(p, a)
    /\ UNCHANGED objects

\* The attempt fails with a retryable error, before or after it took effect;
\* the last attempt of the backoff turns it into an error of the call.
ObjectRetries(p, a) ==
    /\ ~Skipped(p, a) /\ ~NothingToSend(p, a) /\ ~Refused(p, a)
    /\ \/ a.tries > 0 /\ UNCHANGED faults
       \/ a.tries = 0 /\ faults < MaxFaults /\ faults' = faults + 1
    /\ objects' \in {objects, Apply(p, a)}
    /\ IF a.tries + 1 = RetrySteps
       THEN FailAction(p, a)
       ELSE /\ running' = [running EXCEPT ![p] =
                             (@ \ {a}) \cup {[a EXCEPT !.tries = @ + 1]}]
            /\ UNCHANGED errs

ExecuteObject(p, a) ==
    /\ \/ ObjectDone(p, a)
       \/ ObjectRefused(p, a)
       \/ ObjectFails(p, a)
       \/ ObjectRetries(p, a)
    /\ UNCHANGED <<replicas, step, pc, prepared, todo, instances, unlisted>>

\* The tuning set has returned; the deferred functions record the desired
\* counts as the current ones.
FinishPhase(p) ==
    /\ pc[p] = "executing" /\ todo[p] = <<>> /\ running[p] = {}
    /\ instances' = DeferredUpdate(p, prepared[p], instances)
    /\ pc' = [pc EXCEPT ![p] = "done"]
    /\ UNCHANGED <<replicas, step, prepared, todo, running, errs, objects,
                   faults, unlisted>>

Terminated == step > Len(Steps) /\ UNCHANGED vars

PhaseStep(p) ==
    \/ StartPhase(p)
    \/ PrepareNamespace(p)
    \/ PrepareFails(p)
    \/ StartTuningSet(p)
    \/ StartAction(p)
    \/ \E a \in running[p] : ExecuteObject(p, a)
    \/ FinishPhase(p)

Next == FinishStep \/ (\E p \in Phases : PhaseStep(p)) \/ Terminated

\* Goroutines are scheduled and API calls return: as long as some goroutine
\* can move, one of them does.
Spec == Init /\ [][Next]_vars /\ WF_vars(Next)

-----------------------------------------------------------------------------
(***************************************************************************)
(* Properties.                                                             *)
(***************************************************************************)

\* Type invariant: the values of the executor's local state, of the recorded
\* counts and of the cluster.
TypeOK ==
    /\ replicas \in [Phases -> 0 .. MaxReplicas]
    /\ step \in 1 .. Len(Steps) + 1
    /\ pc \in [Phases -> {"idle", "preparing", "executing", "done"}]
    /\ prepared \in [Phases -> Nat]
    /\ \A p \in Phases : Range(todo[p]) \cup running[p] \subseteq Actions
    /\ errs \in [Phases -> BOOLEAN]
    /\ instances \in [Namespaces \X Ids -> InstancesStates]
    /\ objects \subseteq Objects
    /\ faults \in 0 .. MaxFaults
    /\ unlisted \subseteq UnknownPairs

\* Pairs whose every phase up to now returned an empty error list, whose
\* listing worked, and whose template is not empty.
Clean(x) ==
    /\ \A p \in Phases : x \in Pairs[p] => ~errs[p]
    /\ x \notin unlisted /\ x[2] \notin EmptyTemplates

Busy(x) == \E p \in Phases : x \in Pairs[p] /\ pc[p] \in {"preparing", "executing"}

\* The declarative meaning of a phase, across all the steps executed: as long
\* as the phases that touched a (namespace, object) pair reported no error,
\* the cluster holds exactly the replicas 0 .. CurrentReplicaCount-1 of it
\* whenever no phase is working on the pair.  Retries, lost responses,
\* failures of other phases and bundles that share objects cannot break it.
RecordedCountIsTrue ==
    \A x \in Namespaces \X Ids :
        instances[x].exists /\ Clean(x) /\ ~Busy(x) =>
            ReplicasOf(x[1], x[2]) = 0 .. instances[x].current - 1

\* Objects of a bundle are created in order and deleted in reverse order, so
\* while a phase executes without errors, a replica of an object of the
\* bundle is never in the cluster without the objects listed before it.
BundleOrderRespected ==
    \A p \in Phases : pc[p] = "executing" =>
        \A ns \in Range(NamespaceList[p]), r \in ReplicaRange :
            \A i, j \in DOMAIN ObjectBundle[p] :
                /\ i < j
                /\ Clean(<<ns, ObjectBundle[p][i]>>) /\ Clean(<<ns, ObjectBundle[p][j]>>)
                /\ <<ns, ObjectBundle[p][j], r>> \in objects
                => <<ns, ObjectBundle[p][i], r>> \in objects

\* A failed operation is never silent: objects that should be gone (index at
\* or above the recorded count) exist only where a phase reported an error,
\* or where the listing of unknown objects failed.
NoForgottenReplica ==
    \A o \in objects :
        LET x == <<o[1], o[2]>>
        IN  instances[x].exists /\ ~Busy(x) /\ o[3] >= instances[x].current =>
                x \in unlisted \/ \E p \in Phases : x \in Pairs[p] /\ errs[p]

\* Every step ends: whatever fails, the phases return and the steps after
\* them are executed.
AllStepsExecuted == <>(step > Len(Steps))

=============================================================================
