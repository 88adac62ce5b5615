------------------------ MODULE ControlledPodsIndexer ------------------------
(***************************************************************************)
(* pkg/measurement/util/controlled_pods_indexer.go: the index from a       *)
(* controller to its pods.  For a Deployment the lookup goes through the   *)
(* ReplicaSets it owns, so a ReplicaSet that is deleted must stay in       *)
(* rsIndexer while pods still refer to it.                                 *)
(*                                                                         *)
(* Pods and ReplicaSets reach the indexer through two informers (external: *)
(* client-go) that know nothing of each other.  An informer first applies  *)
(* a change to its store and delivers the notification to the handler      *)
(* later, from another goroutine.  podsIndexer is the pod informer's       *)
(* store; rsIndexer is written by the handlers only.                       *)
(*                                                                         *)
(* A watch delivers the changes of one object in order.  Nothing is        *)
(* assumed about the order of changes of different objects.  After a       *)
(* broken watch the informer lists again: changes in between are never     *)
(* seen, and an object that went away is announced by a tombstone          *)
(* (DeletedFinalStateUnknown), from which the handlers read no UID.        *)
(***************************************************************************)
EXTENDS Integers, Sequences

CONSTANTS
    Pods, ReplicaSets, Deployments,     \* UIDs
    NoOwner,                            \* the empty UID: no controller reference
    Absent,                             \* not in a store
    MaxChanges,                         \* bound: changes of owner references
    MaxRelists                          \* bound: broken watches

ASSUME UIDAssumption ==
    /\ NoOwner \notin ReplicaSets \cup Deployments
    /\ Absent \notin ReplicaSets \cup Deployments \cup {NoOwner}
    /\ MaxChanges \in Nat /\ MaxRelists \in Nat

PodOwners == ReplicaSets \cup {NoOwner}
RSOwners == Deployments \cup {NoOwner}

VARIABLES
    podLife, podOwner,      \* pods in the API server: unborn, live or dead; last owner
    rsLife, rsOwner,        \* the same for ReplicaSets
    podWatch, rsWatch,      \* object -> changes its informer has not seen
    podsIndexer,            \* store of the pod informer: pod -> owner or Absent
    rsStore,                \* store of the ReplicaSet informer: rs -> owner or Absent
    podEvents, rsEvents,    \* notifications the handlers have not seen
    rsIndexer,              \* rs -> owner or Absent
    rsPendingDeletion,      \* deleted ReplicaSets that are kept for their pods
    changes, relists,       \* used-up bounds
    missed,                 \* history: ReplicaSets whose deletion, or whose last pod's
                            \* deletion, a relist turned into a tombstone or hid
    lagging                 \* history: ReplicaSets dropped from rsIndexer while the
                            \* pod informer had yet to see one of their pods

server == <<podLife, podOwner, rsLife, rsOwner, changes>>
podPath == <<podWatch, podsIndexer, podEvents>>
rsPath == <<rsWatch, rsStore, rsEvents>>
index == <<rsIndexer, rsPendingDeletion, lagging>>
vars == <<server, podPath, rsPath, index, relists, missed>>

Life == {"unborn", "live", "dead"}
PodChanges == [owner: PodOwners \cup {Absent}, tombstone: BOOLEAN]
RSChanges == [owner: RSOwners \cup {Absent}, tombstone: BOOLEAN]
PodNotifications == [old: PodOwners, new: PodOwners \cup {Absent}]
RSNotifications == [rs: ReplicaSets, owner: RSOwners \cup {Absent}, tombstone: BOOLEAN]

Init ==
    /\ podLife = [p \in Pods |-> "unborn"] /\ podOwner = [p \in Pods |-> NoOwner]
    /\ rsLife = [r \in ReplicaSets |-> "unborn"] /\ rsOwner = [r \in ReplicaSets |-> NoOwner]
    /\ podWatch = [p \in Pods |-> <<>>] /\ rsWatch = [r \in ReplicaSets |-> <<>>]
    /\ podsIndexer = [p \in Pods |-> Absent] /\ rsStore = [r \in ReplicaSets |-> Absent]
    /\ podEvents = <<>> /\ rsEvents = <<>>
    /\ rsIndexer = [r \in ReplicaSets |-> Absent]
    /\ rsPendingDeletion = {}
    /\ changes = 0 /\ relists = 0
    /\ missed = {} /\ lagging = {}

-----------------------------------------------------------------------------
(***************************************************************************)
(* The cluster (external): objects are created, get another controller     *)
(* reference (adoption, orphaning) and are deleted.  A controller creates  *)
(* or adopts pods only while it exists.                                    *)
(***************************************************************************)
Changed(owner) == [owner |-> owner, tombstone |-> FALSE]

LiveOwner(o) == o = NoOwner \/ (o \in ReplicaSets /\ rsLife[o] = "live")

CreatePod(p, o) ==
    /\ podLife[p] = "unborn" /\ LiveOwner(o)
    /\ podLife' = [podLife EXCEPT ![p] = "live"]
    /\ podOwner' = [podOwner EXCEPT ![p] = o]
    /\ podWatch' = [podWatch EXCEPT ![p] = Append(@, Changed(o))]
    /\ UNCHANGED <<rsLife, rsOwner, changes, podsIndexer, podEvents, rsPath, index,
                   relists, missed>>

ReownPod(p, o) ==
    /\ podLife[p] = "live" /\ LiveOwner(o) /\ o # podOwner[p]
    /\ changes < MaxChanges /\ changes' = changes + 1
    /\ podOwner' = [podOwner EXCEPT ![p] = o]
    /\ podWatch' = [podWatch EXCEPT ![p] = Append(@, Changed(o))]
    /\ UNCHANGED <<podLife, rsLife, rsOwner, podsIndexer, podEvents, rsPath, index,
                   relists, missed>>

DeletePod(p) ==
    /\ podLife[p] = "live"
    /\ podLife' = [podLife EXCEPT ![p] = "dead"]
    /\ podWatch' = [podWatch EXCEPT ![p] = Append(@, Changed(Absent))]
    /\ UNCHANGED <<podOwner, rsLife, rsOwner, changes, podsIndexer, podEvents, rsPath,
                   index, relists, missed>>

CreateReplicaSet(r, d) ==
    /\ rsLife[r] = "unborn"
    /\ rsLife' = [rsLife EXCEPT ![r] = "live"]
    /\ rsOwner' = [rsOwner EXCEPT ![r] = d]
    /\ rsWatch' = [rsWatch EXCEPT ![r] = Append(@, Changed(d))]
    /\ UNCHANGED <<podLife, podOwner, changes, podPath, rsStore, rsEvents, index,
                   relists, missed>>

ReownReplicaSet(r, d) ==
    /\ rsLife[r] = "live" /\ d # rsOwner[r]
    /\ changes < MaxChanges /\ changes' = changes + 1
    /\ rsOwner' = [rsOwner EXCEPT ![r] = d]
    /\ rsWatch' = [rsWatch EXCEPT ![r] = Append(@, Changed(d))]
    /\ UNCHANGED <<podLife, podOwner, rsLife, podPath, rsStore, rsEvents, index,
                   relists, missed>>

DeleteReplicaSet(r) ==
    /\ rsLife[r] = "live"
    /\ rsLife' = [rsLife EXCEPT ![r] = "dead"]
    /\ rsWatch' = [rsWatch EXCEPT ![r] = Append(@, Changed(Absent))]
    /\ UNCHANGED <<podLife, podOwner, rsOwner, changes, podPath, rsStore, rsEvents,
                   index, relists, missed>>

-----------------------------------------------------------------------------
(***************************************************************************)
(* The informers (external): apply the next change of an object to the     *)
(* store, and queue the notification.  Adding a pod has no handler.        *)
(***************************************************************************)
PodInformerStep(p) ==
    /\ podWatch[p] # <<>>
    /\ LET c   == Head(podWatch[p])
           old == podsIndexer[p]
       IN  /\ podsIndexer' = [podsIndexer EXCEPT ![p] = c.owner]
           /\ podEvents' = IF old = Absent THEN podEvents
                           ELSE Append(podEvents,
                                  [old |-> IF c.tombstone THEN NoOwner ELSE old,
                                   new |-> c.owner])
           /\ missed' = IF c.tombstone THEN missed \cup {old} ELSE missed
    /\ podWatch' = [podWatch EXCEPT ![p] = Tail(@)]
    /\ UNCHANGED <<server, rsPath, index, relists>>

RSInformerStep(r) ==
    /\ rsWatch[r] # <<>>
    /\ LET c == Head(rsWatch[r])
       IN  /\ rsStore' = [rsStore EXCEPT ![r] = c.owner]
           /\ rsEvents' = Append(rsEvents, [rs |-> r, owner |-> c.owner, tombstone |-> c.tombstone])
    /\ rsWatch' = [rsWatch EXCEPT ![r] = Tail(@)]
    /\ UNCHANGED <<server, podPath, index, relists, missed>>

\* What a new list brings for one object: nothing if the store is up to date,
\* the state of the server otherwise.
ListChange(stored, life, owner) ==
    LET now == IF life = "live" THEN owner ELSE Absent
    IN  IF stored = now THEN <<>> ELSE << [owner |-> now, tombstone |-> now = Absent] >>

PodRelist ==
    /\ relists < MaxRelists /\ relists' = relists + 1
    /\ podWatch' = [p \in Pods |-> ListChange(podsIndexer[p], podLife[p], podOwner[p])]
    /\ UNCHANGED <<server, podsIndexer, podEvents, rsPath, index, missed>>

RSRelist ==
    /\ relists < MaxRelists /\ relists' = relists + 1
    /\ rsWatch' = [r \in ReplicaSets |-> ListChange(rsStore[r], rsLife[r], rsOwner[r])]
    /\ missed' = missed \cup {r \in ReplicaSets : rsLife[r] = "dead" /\ rsWatch[r] # <<>>}
    /\ UNCHANGED <<server, podPath, rsStore, rsEvents, index>>

-----------------------------------------------------------------------------
(***************************************************************************)
(* The handlers of ControlledPodsIndexer.                                  *)
(***************************************************************************)

\* appendPodsControlledBy: pods of the store whose controller is uid.
StoredPodsOf(uid) == {p \in Pods : podsIndexer[p] = uid}

\* The pod informer has yet to see a pod of r.
PodOnItsWay(r) == \E p \in Pods : \E i \in 1 .. Len(podWatch[p]) : podWatch[p][i].owner = r

\* Faulty variant: the pods that still refer to the ReplicaSet are ignored.
ClearRSData_Always(r, pending) ==
    IF r \in pending
    THEN /\ rsPendingDeletion' = pending \ {r}
         /\ rsIndexer' = [rsIndexer EXCEPT ![r] = Absent]
         /\ lagging' = IF PodOnItsWay(r) THEN lagging \cup {r} ELSE lagging
    ELSE /\ rsPendingDeletion' = pending
         /\ UNCHANGED <<rsIndexer, lagging>>

\* Faulty variant: the entry of rsIndexer is not deleted.
ClearRSData_KeepsEntry(r, pending) ==
    /\ rsPendingDeletion' = IF StoredPodsOf(r) = {} THEN pending \ {r} ELSE pending
    /\ UNCHANGED <<rsIndexer, lagging>>

\* clearRSDataIfPossibleLocked, given the value of rsPendingDeletion.
ClearRSDataIfPossible(r, pending) ==
    IF r \in pending /\ StoredPodsOf(r) = {}
    THEN /\ rsPendingDeletion' = pending \ {r}
         /\ rsIndexer' = [rsIndexer EXCEPT ![r] = Absent]
         /\ lagging' = IF PodOnItsWay(r) THEN lagging \cup {r} ELSE lagging
    ELSE /\ rsPendingDeletion' = pending
         /\ UNCHANGED <<rsIndexer, lagging>>

\* Faulty variant: no UpdateFunc, so a pod that changes hands goes unnoticed.
PodHandler_DeleteOnly ==
    /\ podEvents # <<>>
    /\ LET e == Head(podEvents)
       IN  IF e.new # Absent THEN UNCHANGED index
           ELSE ClearRSDataIfPossible(e.old, rsPendingDeletion)
    /\ podEvents' = Tail(podEvents)
    /\ UNCHANGED <<server, podWatch, podsIndexer, rsPath, relists, missed>>

\* UpdateFunc and DeleteFunc of the pod handlers.
PodHandler ==
    /\ podEvents # <<>>
    /\ LET e == Head(podEvents)
       IN  IF e.old = e.new THEN UNCHANGED index
           ELSE ClearRSDataIfPossible(e.old, rsPendingDeletion)
    /\ podEvents' = Tail(podEvents)
    /\ UNCHANGED <<server, podWatch, podsIndexer, rsPath, relists, missed>>

\* Faulty variant: no UpdateFunc, so rsIndexer keeps the first owner.
RSHandler_NoUpdate ==
    /\ rsEvents # <<>>
    /\ LET e == Head(rsEvents)
       IN  \/ /\ e.owner # Absent
              /\ rsIndexer' = [rsIndexer EXCEPT ![e.rs] = IF @ = Absent THEN e.owner ELSE @]
              /\ UNCHANGED <<rsPendingDeletion, lagging>>
           \/ /\ e.owner = Absent
              /\ ClearRSDataIfPossible(e.rs, rsPendingDeletion \cup {e.rs})
    /\ rsEvents' = Tail(rsEvents)
    /\ UNCHANGED <<server, podPath, rsWatch, rsStore, relists, missed>>

\* Faulty variant: the empty UID of a tombstone stays in rsPendingDeletion.
RSHandler_KeepsEmptyUID ==
    /\ rsEvents # <<>>
    /\ LET e == Head(rsEvents)
       IN  \/ /\ e.owner # Absent
              /\ rsIndexer' = [rsIndexer EXCEPT ![e.rs] = e.owner]
              /\ UNCHANGED <<rsPendingDeletion, lagging>>
           \/ /\ e.owner = Absent
              /\ rsPendingDeletion' = rsPendingDeletion
                                      \cup {IF e.tombstone THEN NoOwner ELSE e.rs}
              /\ UNCHANGED <<rsIndexer, lagging>>
    /\ rsEvents' = Tail(rsEvents)
    /\ UNCHANGED <<server, podPath, rsWatch, rsStore, relists, missed>>

\* AddFunc, UpdateFunc and DeleteFunc of the ReplicaSet handlers.  The UID of
\* a tombstone is empty: its entry is added and cleared at once.
RSHandler ==
    /\ rsEvents # <<>>
    /\ LET e == Head(rsEvents)
       IN  \/ /\ e.owner # Absent
              /\ rsIndexer' = [rsIndexer EXCEPT ![e.rs] = e.owner]
              /\ UNCHANGED <<rsPendingDeletion, lagging>>
           \/ /\ e.owner = Absent /\ ~e.tombstone
              /\ ClearRSDataIfPossible(e.rs, rsPendingDeletion \cup {e.rs})
           \/ /\ e.owner = Absent /\ e.tombstone
              /\ UNCHANGED index
    /\ rsEvents' = Tail(rsEvents)
    /\ UNCHANGED <<server, podPath, rsWatch, rsStore, relists, missed>>

Next ==
    \/ \E p \in Pods :
          \/ \E o \in PodOwners : CreatePod(p, o) \/ ReownPod(p, o)
          \/ DeletePod(p)
          \/ PodInformerStep(p)
    \/ \E r \in ReplicaSets :
          \/ \E d \in RSOwners : CreateReplicaSet(r, d) \/ ReownReplicaSet(r, d)
          \/ DeleteReplicaSet(r)
          \/ RSInformerStep(r)
    \/ PodRelist
    \/ RSRelist
    \/ PodHandler
    \/ RSHandler

Spec == Init /\ [][Next]_vars

-----------------------------------------------------------------------------
(***************************************************************************)
(* The lookup.                                                             *)
(***************************************************************************)

\* PodsControlledBy for a Deployment.
PodsControlledBy(d) == UNION {StoredPodsOf(r) : r \in {r \in ReplicaSets : rsIndexer[r] = d}}

\* The pods of a Deployment according to the API server: the controller of a
\* pod's ReplicaSet, or the last one it had if it is deleted.
PodsOfDeployment(d) ==
    {p \in Pods : /\ podLife[p] = "live" /\ podOwner[p] \in ReplicaSets
                  /\ rsOwner[podOwner[p]] = d}

(***************************************************************************)
(* Properties.                                                             *)
(***************************************************************************)

\* Type invariant.
TypeOK ==
    /\ podLife \in [Pods -> Life] /\ podOwner \in [Pods -> PodOwners]
    /\ rsLife \in [ReplicaSets -> Life] /\ rsOwner \in [ReplicaSets -> RSOwners]
    /\ podWatch \in [Pods -> Seq(PodChanges)] /\ rsWatch \in [ReplicaSets -> Seq(RSChanges)]
    /\ podsIndexer \in [Pods -> PodOwners \cup {Absent}]
    /\ rsStore \in [ReplicaSets -> RSOwners \cup {Absent}]
    /\ podEvents \in Seq(PodNotifications) /\ rsEvents \in Seq(RSNotifications)
    /\ rsIndexer \in [ReplicaSets -> RSOwners \cup {Absent}]
    /\ rsPendingDeletion \subseteq ReplicaSets
    /\ changes \in 0 .. MaxChanges /\ relists \in 0 .. MaxRelists

\* A notification that will make the handler look at r again.
WillBeCleared(r) == \E i \in 1 .. Len(podEvents) : podEvents[i].old = r /\ podEvents[i].new # r

\* "They should be deleted as soon as the last pod referencing it is deleted":
\* a ReplicaSet waits in rsPendingDeletion only for a reason that goes away,
\* namely a pod in the store or a notification on its way to the handler.
\* The store loses its last pod before the handler hears of it, and in
\* between anything may happen.  Tombstones are the exception.
PendingHasReason ==
    \A r \in rsPendingDeletion :
        StoredPodsOf(r) # {} \/ WillBeCleared(r) \/ r \in missed

\* A deleted ReplicaSet stays known as long as the pod store refers to it, and
\* one that was dropped never comes back: a pod in the store whose ReplicaSet
\* the handler has added can be traced to its Deployment, unless the pod
\* informer was behind when the ReplicaSet was dropped.
PodsStayTraceable ==
    \A p \in Pods :
        LET r == podsIndexer[p]
        IN  r \in ReplicaSets /\ rsLife[r] = "dead" /\ rsWatch[r] = <<>>
            /\ (\A i \in 1 .. Len(rsEvents) : rsEvents[i].rs # r)
            /\ rsIndexer[r] = Absent
            => r \in lagging \cup missed

Quiescent ==
    /\ \A p \in Pods : podWatch[p] = <<>>
    /\ \A r \in ReplicaSets : rsWatch[r] = <<>>
    /\ podEvents = <<>> /\ rsEvents = <<>>

\* When everything has been delivered, the lookup returns exactly the pods the
\* API server has for the Deployment, deleted ReplicaSets included, whatever
\* the order in which the two informers delivered their changes.
LookupExact ==
    Quiescent /\ lagging = {} /\ missed = {} =>
        \A d \in Deployments : PodsControlledBy(d) = PodsOfDeployment(d)

\* When everything has been delivered, rsIndexer holds the live ReplicaSets and
\* the dead ones that pods refer to, and nothing else: it does not grow with
\* the number of ReplicaSets a long test goes through.
NothingLeaks ==
    Quiescent /\ missed = {} =>
        \A r \in ReplicaSets :
            rsIndexer[r] # Absent => rsLife[r] = "live" \/ StoredPodsOf(r) # {}

=============================================================================
