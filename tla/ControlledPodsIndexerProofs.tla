--------------------- MODULE ControlledPodsIndexerProofs ---------------------
(***************************************************************************)
(* Proofs about ControlledPodsIndexer, for any sets of pods, ReplicaSets   *)
(* and Deployments and any number of changes and relists.                  *)
(***************************************************************************)
EXTENDS ControlledPodsIndexer, TLAPS

\* What a queue holds after a notification is added, and after the oldest one
\* is taken off: the facts about sequences the proofs below rest on.
LEMMA AppendedIsInSeq ==
    ASSUME NEW S, NEW q \in Seq(S), NEW e \in S
    PROVE  /\ Append(q, e) \in Seq(S)
           /\ Len(Append(q, e)) = Len(q) + 1
           /\ Append(q, e)[Len(q) + 1] = e
           /\ \A i \in 1 .. Len(q) : Append(q, e)[i] = q[i]
  OBVIOUS

\* Taking the head off a queue of notifications leaves such a queue.
LEMMA RestOfSeq ==
    ASSUME NEW S, NEW q \in Seq(S), q # <<>>
    PROVE  /\ Tail(q) \in Seq(S)
           /\ Len(Tail(q)) = Len(q) - 1
           /\ Head(q) = q[1] /\ Head(q) \in S
           /\ \A i \in 1 .. Len(q) - 1 : Tail(q)[i] = q[i + 1]
  OBVIOUS

\* What was queued last is at the end of a queue.
LEMMA AppendedIsLast ==
    ASSUME NEW S, NEW q \in Seq(S), NEW e \in S
    PROVE  Append(q, e) # <<>> /\ Append(q, e)[Len(Append(q, e))] = e
  OBVIOUS

\* A queue is empty after its only element is taken off.
LEMMA RestIsEmpty ==
    ASSUME NEW S, NEW q \in Seq(S), q # <<>>
    PROVE  Len(q) \in Nat /\ Len(q) > 0 /\ (Tail(q) = <<>> <=> Len(q) = 1)
  <1>1. Tail(q) \in Seq(S) /\ Len(Tail(q)) = Len(q) - 1 /\ Len(q) \in Nat /\ Len(q) > 0
    OBVIOUS
  <1>2. PICK t \in Seq(S) : t = Tail(q)
    BY Zenon, <1>1
  <1>3. t = <<>> <=> Len(t) = 0
    OBVIOUS
  <1> QED
    BY <1>1, <1>2, <1>3

-----------------------------------------------------------------------------
(***************************************************************************)
(* Type correctness.                                                       *)
(***************************************************************************)

\* The effect of clearRSDataIfPossibleLocked on the types of what it writes.
LEMMA ClearTypes ==
    ASSUME TypeOK, NEW r, NEW pending \in SUBSET ReplicaSets,
           ClearRSDataIfPossible(r, pending)
    PROVE  /\ rsPendingDeletion' \in SUBSET ReplicaSets
           /\ rsIndexer' \in [ReplicaSets -> RSOwners \cup {Absent}]
  BY Zenon DEF TypeOK, ClearRSDataIfPossible

\* What a relist queues for one object is a sequence of changes.
LEMMA ListChangeType ==
    ASSUME NEW O, NEW stored, NEW life, NEW owner \in O
    PROVE  ListChange(stored, life, owner) \in Seq([owner: O \cup {Absent}, tombstone: BOOLEAN])
  <1> DEFINE C   == [owner: O \cup {Absent}, tombstone: BOOLEAN]
             now == IF life = "live" THEN owner ELSE Absent
             c   == [owner |-> now, tombstone |-> now = Absent]
  <1>1. now \in O \cup {Absent}
    BY Zenon
  <1>2. (now = Absent) \in BOOLEAN
    BY Zenon
  <1>3. c \in C
    <2> HIDE DEF now
    <2> QED
      BY <1>1, <1>2, Zenon
  <1>4. ListChange(stored, life, owner) = IF stored = now THEN <<>> ELSE <<c>>
    BY Zenon DEF ListChange
  <1> HIDE DEF c, C, now
  <1>5. <<c>> \in Seq(C) /\ <<>> \in Seq(C)
    BY <1>3
  <1>6. ListChange(stored, life, owner) \in Seq(C)
    BY Zenon, <1>4, <1>5
  <1> QED
    BY Zenon, <1>6 DEF C

\* Every step of the cluster, of the informers and of the handlers keeps the
\* types of the indexer's state.
LEMMA TypeStep ==
    ASSUME TypeOK, [Next]_vars
    PROVE  TypeOK'
  <1> USE UIDAssumption
  <1>1. ASSUME NEW p \in Pods, NEW o \in PodOwners, CreatePod(p, o)
        PROVE  TypeOK'
    <2>1. Changed(o) \in PodChanges
      BY Zenon DEF Changed, PodChanges
    <2>2. podWatch' \in [Pods -> Seq(PodChanges)]
      BY <1>1, <2>1, AppendedIsInSeq DEF CreatePod, TypeOK
    <2> QED
      BY Zenon, <1>1, <2>2 DEF CreatePod, TypeOK, Life, rsPath, index
  <1>2. ASSUME NEW p \in Pods, NEW o \in PodOwners, ReownPod(p, o)
        PROVE  TypeOK'
    <2>1. Changed(o) \in PodChanges
      BY Zenon DEF Changed, PodChanges
    <2>2. podWatch' \in [Pods -> Seq(PodChanges)]
      BY <1>2, <2>1, AppendedIsInSeq DEF ReownPod, TypeOK
    <2> QED
      BY <1>2, <2>2 DEF ReownPod, TypeOK, rsPath, index
  <1>3. ASSUME NEW p \in Pods, DeletePod(p)
        PROVE  TypeOK'
    <2>1. Changed(Absent) \in PodChanges
      BY Zenon DEF Changed, PodChanges
    <2>2. podWatch' \in [Pods -> Seq(PodChanges)]
      BY <1>3, <2>1, AppendedIsInSeq DEF DeletePod, TypeOK
    <2> QED
      BY Zenon, <1>3, <2>2 DEF DeletePod, TypeOK, Life, rsPath, index
  <1>4. ASSUME NEW p \in Pods, PodInformerStep(p)
        PROVE  TypeOK'
    <2> DEFINE c == Head(podWatch[p])
               e == [old |-> IF c.tombstone THEN NoOwner ELSE podsIndexer[p],
                     new |-> c.owner]
    <2>1. /\ c \in PodChanges
          /\ podWatch' \in [Pods -> Seq(PodChanges)]
      BY Zenon, <1>4, RestOfSeq DEF PodInformerStep, TypeOK
    <2>2. podsIndexer' \in [Pods -> PodOwners \cup {Absent}]
      BY Zenon, <1>4, <2>1 DEF PodInformerStep, TypeOK, PodChanges
    <2>3. podsIndexer[p] # Absent => e \in PodNotifications
      BY Zenon, <2>1 DEF TypeOK, PodChanges, PodNotifications, PodOwners
    <2>4. podEvents' \in Seq(PodNotifications)
      <3>1. CASE podsIndexer[p] = Absent
        BY Zenon, <1>4, <3>1 DEF PodInformerStep, TypeOK
      <3>2. CASE podsIndexer[p] # Absent
        <4>1. podEvents' = Append(podEvents, e)
          BY Zenon, <1>4, <3>2 DEF PodInformerStep
        <4> QED
          BY <4>1, <3>2, <2>3, AppendedIsInSeq DEF TypeOK
      <3> QED
        BY Zenon, <3>1, <3>2
    <2> QED
      BY Zenon, <1>4, <2>1, <2>2, <2>4 DEF PodInformerStep, TypeOK, server, rsPath, index
  <1>5. ASSUME NEW r \in ReplicaSets, NEW d \in RSOwners, CreateReplicaSet(r, d)
        PROVE  TypeOK'
    <2>1. Changed(d) \in RSChanges
      BY Zenon DEF Changed, RSChanges
    <2>2. rsWatch' \in [ReplicaSets -> Seq(RSChanges)]
      BY <1>5, <2>1, AppendedIsInSeq DEF CreateReplicaSet, TypeOK
    <2> QED
      BY Zenon, <1>5, <2>2 DEF CreateReplicaSet, TypeOK, Life, podPath, index
  <1>6. ASSUME NEW r \in ReplicaSets, NEW d \in RSOwners, ReownReplicaSet(r, d)
        PROVE  TypeOK'
    <2>1. Changed(d) \in RSChanges
      BY Zenon DEF Changed, RSChanges
    <2>2. rsWatch' \in [ReplicaSets -> Seq(RSChanges)]
      BY <1>6, <2>1, AppendedIsInSeq DEF ReownReplicaSet, TypeOK
    <2> QED
      BY <1>6, <2>2 DEF ReownReplicaSet, TypeOK, podPath, index
  <1>7. ASSUME NEW r \in ReplicaSets, DeleteReplicaSet(r)
        PROVE  TypeOK'
    <2>1. Changed(Absent) \in RSChanges
      BY DEF Changed, RSChanges
    <2>2. rsWatch' \in [ReplicaSets -> Seq(RSChanges)]
      BY <1>7, <2>1, AppendedIsInSeq DEF DeleteReplicaSet, TypeOK
    <2> QED
      BY Zenon, <1>7, <2>2 DEF DeleteReplicaSet, TypeOK, Life, podPath, index
  <1>8. ASSUME NEW r \in ReplicaSets, RSInformerStep(r)
        PROVE  TypeOK'
    <2> DEFINE c == Head(rsWatch[r])
               e == [rs |-> r, owner |-> c.owner, tombstone |-> c.tombstone]
    <2>1. /\ c \in RSChanges
          /\ rsWatch' \in [ReplicaSets -> Seq(RSChanges)]
      BY Zenon, <1>8, RestOfSeq DEF RSInformerStep, TypeOK
    <2>2. e \in RSNotifications
      BY Zenon, <2>1 DEF RSChanges, RSNotifications
    <2>3. rsEvents' \in Seq(RSNotifications)
      BY <1>8, <2>2, AppendedIsInSeq DEF RSInformerStep, TypeOK
    <2> QED
      BY Zenon, <1>8, <2>1, <2>3 DEF RSInformerStep, TypeOK, RSChanges, server, podPath, index
  <1>9. CASE PodRelist
    <2>1. ASSUME NEW p \in Pods
          PROVE  ListChange(podsIndexer[p], podLife[p], podOwner[p]) \in Seq(PodChanges)
      BY Zenon, ListChangeType DEF PodChanges, TypeOK
    <2> QED
      BY <1>9, <2>1 DEF PodRelist, TypeOK, server, rsPath, index
  <1>10. CASE RSRelist
    <2>1. ASSUME NEW r \in ReplicaSets
          PROVE  ListChange(rsStore[r], rsLife[r], rsOwner[r]) \in Seq(RSChanges)
      BY Zenon, ListChangeType DEF RSChanges, TypeOK
    <2> QED
      BY <1>10, <2>1 DEF RSRelist, TypeOK, server, podPath, index
  <1>11. CASE PodHandler
    <2>1. podEvents' \in Seq(PodNotifications)
      BY Zenon, <1>11, RestOfSeq DEF PodHandler, TypeOK
    <2>2. /\ rsPendingDeletion' \in SUBSET ReplicaSets
          /\ rsIndexer' \in [ReplicaSets -> RSOwners \cup {Absent}]
      <3>1. CASE Head(podEvents).old = Head(podEvents).new
        BY Zenon, <1>11, <3>1 DEF PodHandler, TypeOK, index
      <3>2. CASE Head(podEvents).old # Head(podEvents).new
        <4>1. ClearRSDataIfPossible(Head(podEvents).old, rsPendingDeletion)
          BY Zenon, <1>11, <3>2 DEF PodHandler
        <4> QED
          BY Zenon, <4>1, ClearTypes DEF TypeOK
      <3> QED
        BY Zenon, <3>1, <3>2
    <2> QED
      BY Zenon, <1>11, <2>1, <2>2 DEF PodHandler, TypeOK, server, rsPath
  <1>12. CASE RSHandler
    <2> DEFINE e == Head(rsEvents)
    <2>1. e \in RSNotifications /\ rsEvents' \in Seq(RSNotifications)
      BY Zenon, <1>12, RestOfSeq DEF RSHandler, TypeOK
    <2>2. /\ rsPendingDeletion' \in SUBSET ReplicaSets
          /\ rsIndexer' \in [ReplicaSets -> RSOwners \cup {Absent}]
      <3>1. CASE e.owner # Absent
        BY Zenon, <1>12, <2>1, <3>1 DEF RSHandler, TypeOK, RSNotifications
      <3>2. CASE e.owner = Absent /\ ~e.tombstone
        <4>1. ClearRSDataIfPossible(e.rs, rsPendingDeletion \cup {e.rs})
          BY Zenon, <1>12, <3>2 DEF RSHandler
        <4>2. rsPendingDeletion \cup {e.rs} \in SUBSET ReplicaSets
          BY Zenon, <2>1 DEF TypeOK, RSNotifications
        <4> QED
          BY Zenon, <4>1, <4>2, ClearTypes
      <3>3. CASE e.owner = Absent /\ e.tombstone
        BY Zenon, <1>12, <3>3 DEF RSHandler, TypeOK, index
      <3> QED
        BY Zenon, <3>1, <3>2, <3>3
    <2> QED
      BY Zenon, <1>12, <2>1, <2>2 DEF RSHandler, TypeOK, server, podPath
  <1>13. CASE UNCHANGED vars
    BY Zenon, <1>13 DEF TypeOK, vars, server, podPath, rsPath, index
  <1> QED
    BY Zenon, <1>1, <1>2, <1>3, <1>4, <1>5, <1>6, <1>7, <1>8, <1>9, <1>10, <1>11, <1>12,
       <1>13 DEF Next

\* The state of the indexer and of the two informers always has its type.
THEOREM TypeCorrect == Spec => []TypeOK
  <1>1. Init => TypeOK
    BY UIDAssumption DEF Init, TypeOK, Life, PodOwners, RSOwners
  <1>2. TypeOK /\ [Next]_vars => TypeOK'
    BY Zenon, TypeStep
  <1> QED
    BY <1>1, <1>2, PTL DEF Spec

-----------------------------------------------------------------------------
(***************************************************************************)
(* A ReplicaSet is kept for its pods only as long as there is a reason.    *)
(* PendingHasReason is inductive once the types are known: the store loses *)
(* a pod in the same step in which the notification about it is queued.    *)
(***************************************************************************)

\* The reason why r may wait in rsPendingDeletion.
Reason(r) == StoredPodsOf(r) # {} \/ WillBeCleared(r) \/ r \in missed

\* Steps that touch neither the pod store nor the notifications keep a reason.
LEMMA ReasonKept ==
    ASSUME UNCHANGED <<podsIndexer, podEvents>>, missed \subseteq missed'
    PROVE  \A r : Reason(r) => Reason(r)'
  BY Zenon DEF Reason, StoredPodsOf, WillBeCleared

\* The pod informer applies a change: a reason that was a pod in the store
\* becomes a notification, unless the change is a tombstone.
LEMMA ReasonAfterInformerStep ==
    ASSUME TypeOK, NEW p \in Pods, PodInformerStep(p), NEW r \in ReplicaSets, Reason(r)
    PROVE  Reason(r)'
  <1> USE UIDAssumption
  <1> DEFINE c == Head(podWatch[p])
             e == [old |-> IF c.tombstone THEN NoOwner ELSE podsIndexer[p],
                   new |-> c.owner]
  <1>1. c \in PodChanges
    BY Zenon, RestOfSeq DEF PodInformerStep, TypeOK
  <1>2. podsIndexer[p] # Absent => e \in PodNotifications
    BY Zenon, <1>1 DEF TypeOK, PodChanges, PodNotifications, PodOwners
  <1>3. podEvents' = IF podsIndexer[p] = Absent THEN podEvents ELSE Append(podEvents, e)
    BY Zenon DEF PodInformerStep
  <1>4. missed \subseteq missed'
    BY Zenon DEF PodInformerStep
  <1>5. CASE r \in missed
    BY Zenon, <1>4, <1>5 DEF Reason
  <1>6. CASE WillBeCleared(r)
    <2>1. PICK i \in 1 .. Len(podEvents) : podEvents[i].old = r /\ podEvents[i].new # r
      BY Zenon, <1>6 DEF WillBeCleared
    <2>2. i \in 1 .. Len(podEvents') /\ podEvents'[i] = podEvents[i]
      BY <1>2, <1>3, <2>1, AppendedIsInSeq DEF TypeOK
    <2>3. WillBeCleared(r)'
      BY Zenon, <2>1, <2>2 DEF WillBeCleared
    <2> QED
      BY Zenon, <2>3 DEF Reason
  <1>7. CASE StoredPodsOf(r) # {}
    <2>1. PICK q \in Pods : podsIndexer[q] = r
      BY Zenon, <1>7 DEF StoredPodsOf
    <2>2. CASE podsIndexer'[q] = r
      BY Zenon, <2>1, <2>2 DEF Reason, StoredPodsOf
    <2>3. CASE podsIndexer'[q] # r
      <3>1. q = p /\ c.owner # r
        BY Zenon, <2>1, <2>3 DEF PodInformerStep, TypeOK
      <3>2. podsIndexer[p] = r /\ r # Absent
        BY Zenon, <2>1, <3>1
      <3>3. CASE c.tombstone
        BY Zenon, <3>2, <3>3 DEF PodInformerStep, Reason
      <3>4. CASE ~c.tombstone
        <4>1. e.old = r /\ e.new # r
          BY Zenon, <3>1, <3>2, <3>4
        <4>2. /\ Len(podEvents) + 1 \in 1 .. Len(podEvents')
              /\ podEvents'[Len(podEvents) + 1] = e
          BY <1>2, <1>3, <3>2, AppendedIsInSeq DEF TypeOK
        <4>3. WillBeCleared(r)'
          BY Zenon, <4>1, <4>2 DEF WillBeCleared
        <4> QED
          BY Zenon, <4>3 DEF Reason
      <3> QED
        BY Zenon, <3>3, <3>4
    <2> QED
      BY Zenon, <2>2, <2>3
  <1> QED
    BY Zenon, <1>5, <1>6, <1>7 DEF Reason

\* The handler takes a notification: if it was the reason for r, then r is
\* cleared, or pods of r are still in the store.
LEMMA ReasonAfterPodHandler ==
    ASSUME TypeOK, PodHandler, NEW r \in ReplicaSets, r \in rsPendingDeletion', Reason(r)
    PROVE  Reason(r)'
  <1> DEFINE e == Head(podEvents)
  <1>1. podEvents # <<>> /\ podEvents' = Tail(podEvents)
    BY Zenon DEF PodHandler
  <1>2. podsIndexer' = podsIndexer /\ missed' = missed
    BY Zenon DEF PodHandler
  <1>3. CASE r \in missed \/ StoredPodsOf(r) # {}
    BY Zenon, <1>2, <1>3 DEF Reason, StoredPodsOf
  <1>4. CASE WillBeCleared(r) /\ StoredPodsOf(r) = {}
    <2>1. PICK i \in 1 .. Len(podEvents) : podEvents[i].old = r /\ podEvents[i].new # r
      BY Zenon, <1>4 DEF WillBeCleared
    <2>2. CASE i = 1
      <3>1. e.old = r /\ e.new # r
        BY Zenon, <1>1, <2>1, <2>2, RestOfSeq DEF TypeOK
      <3>2. ClearRSDataIfPossible(r, rsPendingDeletion)
        BY Zenon, <3>1 DEF PodHandler
      <3>3. r \notin rsPendingDeletion'
        BY Zenon, <3>2, <1>4 DEF ClearRSDataIfPossible
      <3> QED
        BY Zenon, <3>3
    <2>3. CASE i # 1
      <3>1. i - 1 \in 1 .. Len(podEvents') /\ podEvents'[i - 1] = podEvents[i]
        BY <1>1, <2>1, <2>3, RestOfSeq DEF TypeOK
      <3>2. WillBeCleared(r)'
        BY Zenon, <2>1, <3>1 DEF WillBeCleared
      <3> QED
        BY Zenon, <3>2 DEF Reason
    <2> QED
      BY Zenon, <2>2, <2>3
  <1> QED
    BY Zenon, <1>3, <1>4 DEF Reason

\* One step of the indexer keeps PendingHasReason.
LEMMA PendingStep ==
    ASSUME TypeOK, PendingHasReason, [Next]_vars
    PROVE  PendingHasReason'
  <1>1. SUFFICES ASSUME NEW r \in rsPendingDeletion' PROVE Reason(r)'
    BY DEF PendingHasReason, Reason
  <1>2. \A x \in rsPendingDeletion : x \in ReplicaSets /\ Reason(x)
    BY Zenon DEF TypeOK, PendingHasReason, Reason
  <1>3. ASSUME NEW p \in Pods, PodInformerStep(p) PROVE Reason(r)'
    <2>1. r \in rsPendingDeletion
      BY Zenon, <1>3 DEF PodInformerStep, index
    <2> QED
      BY Zenon, <1>2, <1>3, <2>1, ReasonAfterInformerStep
  <1>4. CASE PodHandler
    <2>1. r \in rsPendingDeletion
      BY Zenon, <1>4 DEF PodHandler, ClearRSDataIfPossible, index
    <2> QED
      BY Zenon, <1>2, <1>4, <2>1, ReasonAfterPodHandler
  <1>5. CASE RSHandler
    <2> DEFINE e == Head(rsEvents)
    <2>1. UNCHANGED <<podsIndexer, podEvents>> /\ missed' = missed
      BY Zenon, <1>5 DEF RSHandler, podPath
    <2>2. CASE r \in rsPendingDeletion
      BY Zenon, <1>2, <2>1, <2>2, ReasonKept
    <2>3. CASE r \notin rsPendingDeletion
      <3>1. r = e.rs /\ ClearRSDataIfPossible(r, rsPendingDeletion \cup {r})
        BY Zenon, <1>5, <2>3 DEF RSHandler, ClearRSDataIfPossible, index
      <3>2. StoredPodsOf(r) # {}
        BY Zenon, <3>1 DEF ClearRSDataIfPossible
      <3> QED
        BY Zenon, <2>1, <3>2 DEF Reason, StoredPodsOf
    <2> QED
      BY Zenon, <2>2, <2>3
  <1>6. CASE RSRelist
    BY Zenon, <1>2, <1>6, ReasonKept DEF RSRelist, podPath, index
  <1>7. ASSUME UNCHANGED <<podsIndexer, podEvents, rsPendingDeletion, missed>>
        PROVE  Reason(r)'
    BY Zenon, <1>2, <1>7, ReasonKept
  <1>8. ASSUME NEW p \in Pods, NEW o \in PodOwners, CreatePod(p, o) \/ ReownPod(p, o)
        PROVE  Reason(r)'
    BY Zenon, <1>7, <1>8 DEF CreatePod, ReownPod, index
  <1>9. ASSUME NEW p \in Pods, DeletePod(p) PROVE Reason(r)'
    BY Zenon, <1>7, <1>9 DEF DeletePod, index
  <1>10. ASSUME NEW s \in ReplicaSets, NEW d \in RSOwners,
                CreateReplicaSet(s, d) \/ ReownReplicaSet(s, d)
         PROVE  Reason(r)'
    BY Zenon, <1>7, <1>10 DEF CreateReplicaSet, ReownReplicaSet, podPath, index
  <1>11. ASSUME NEW s \in ReplicaSets, DeleteReplicaSet(s) \/ RSInformerStep(s)
         PROVE  Reason(r)'
    BY Zenon, <1>7, <1>11 DEF DeleteReplicaSet, RSInformerStep, podPath, index
  <1>12. CASE PodRelist
    BY Zenon, <1>7, <1>12 DEF PodRelist, index
  <1>13. CASE UNCHANGED vars
    BY Zenon, <1>7, <1>13 DEF vars, podPath, index
  <1> QED
    BY Zenon, <1>3, <1>4, <1>5, <1>6, <1>8, <1>9, <1>10, <1>11, <1>12, <1>13 DEF Next

\* A deleted ReplicaSet is never kept without a reason: as long as it waits in
\* rsPendingDeletion, a pod of the store refers to it, or the handler is about
\* to look at it again, or a relist hid a deletion.
THEOREM PendingIsJustified == Spec => []PendingHasReason
  <1>1. Init => TypeOK /\ PendingHasReason
    BY UIDAssumption DEF Init, TypeOK, Life, PodOwners, RSOwners, PendingHasReason
  <1>2. TypeOK /\ PendingHasReason /\ [Next]_vars => TypeOK' /\ PendingHasReason'
    BY Zenon, TypeStep, PendingStep
  <1> QED
    BY <1>1, <1>2, PTL DEF Spec

-----------------------------------------------------------------------------
(***************************************************************************)
(* From the API server to rsIndexer: what the changes, the store and the   *)
(* notifications of one object say of it.                                  *)
(***************************************************************************)

\* What the API server says of an object now.
PodNow(p) == IF podLife[p] = "live" THEN podOwner[p] ELSE Absent
RSNow(r) == IF rsLife[r] = "live" THEN rsOwner[r] ELSE Absent

NoEvents(r) == \A i \in 1 .. Len(rsEvents) : rsEvents[i].rs # r
NoLaterEvent(i, r) == \A j \in i + 1 .. Len(rsEvents) : rsEvents[j].rs # r

\* Nothing about the ReplicaSet is on its way to the handler.
Drained(r) == rsLife[r] = "dead" /\ rsWatch[r] = <<>> /\ NoEvents(r)

\* Once its watch is drained, the pod informer knows what the API server says.
PodPath(p) ==
    /\ podWatch[p] # <<>> => podWatch[p][Len(podWatch[p])].owner = PodNow(p)
    /\ podWatch[p] = <<>> => podsIndexer[p] = PodNow(p)
    /\ podOwner[p] \in ReplicaSets => rsLife[podOwner[p]] # "unborn"

\* The same for the ReplicaSet informer; a deletion is the last change of a ReplicaSet.
RSWatchPart(r) ==
    /\ rsWatch[r] # <<>> => rsWatch[r][Len(rsWatch[r])].owner = RSNow(r)
    /\ rsWatch[r] = <<>> => rsStore[r] = RSNow(r)
    /\ \A i \in 1 .. Len(rsWatch[r]) :
          /\ rsWatch[r][i].owner = Absent => i = Len(rsWatch[r])
          /\ rsWatch[r][i].tombstone => r \in missed
    /\ rsLife[r] = "unborn" => rsWatch[r] = <<>> /\ NoEvents(r) /\ rsIndexer[r] = Absent

\* The last notification tells what the store holds, and so does rsIndexer afterwards.
RSEventPart(r) ==
    /\ \A i \in 1 .. Len(rsEvents) : rsEvents[i].rs = r =>
          /\ NoLaterEvent(i, r) => rsEvents[i].owner = rsStore[r]
          /\ ~NoLaterEvent(i, r) => rsEvents[i].owner # Absent
          /\ rsEvents[i].tombstone => r \in missed
    /\ NoEvents(r) /\ rsStore[r] # Absent => rsIndexer[r] = rsStore[r]
    /\ rsStore[r] = Absent => \/ rsLife[r] = "dead" /\ rsWatch[r] = <<>>
                              \/ NoEvents(r) /\ rsIndexer[r] = Absent
    /\ r \in rsPendingDeletion => Drained(r)

\* The last owner of a ReplicaSet is the one that reaches rsIndexer, before its deletion.
OwnerOnWatch(r) == \E i \in 1 .. Len(rsWatch[r]) : rsWatch[r][i].owner # Absent
OwnerNotified(r) == \E i \in 1 .. Len(rsEvents) : rsEvents[i].rs = r /\ rsEvents[i].owner # Absent

WatchTellsOwner(r) ==
    \A i \in 1 .. Len(rsWatch[r]) :
       /\ rsWatch[r][i].owner # Absent
       /\ \A j \in i + 1 .. Len(rsWatch[r]) : rsWatch[r][j].owner = Absent
       => rsWatch[r][i].owner = rsOwner[r]

EventsTellOwner(r) ==
    \A i \in 1 .. Len(rsEvents) :
       /\ rsEvents[i].rs = r /\ rsEvents[i].owner # Absent
       /\ \A j \in i + 1 .. Len(rsEvents) : rsEvents[j].rs = r => rsEvents[j].owner = Absent
       => rsEvents[i].owner = rsOwner[r]

EntryTellsOwner(r) ==
    \/ rsIndexer[r] = rsOwner[r] /\ (Drained(r) => r \in rsPendingDeletion)
    \/ rsIndexer[r] = Absent /\ Drained(r) /\ r \notin rsPendingDeletion

RSOwnerPart(r) ==
    rsLife[r] # "unborn" /\ r \notin missed =>
       /\ WatchTellsOwner(r)
       /\ OwnerOnWatch(r) \/ EventsTellOwner(r)
       /\ OwnerOnWatch(r) \/ OwnerNotified(r) \/ EntryTellsOwner(r)

\* A deleted ReplicaSet that the indexer has dropped is one that no pod will ever be
\* stored for again.
DroppedPart(r) ==
    Drained(r) /\ rsIndexer[r] = Absent /\ r \notin lagging \cup missed =>
       StoredPodsOf(r) = {} /\ ~PodOnItsWay(r)

IndexInv ==
    /\ \A p \in Pods : PodPath(p)
    /\ \A r \in ReplicaSets : /\ RSWatchPart(r) /\ RSEventPart(r) /\ RSOwnerPart(r)
                              /\ DroppedPart(r)

\* Owners are never the mark for "not in a store".
LEMMA OwnersArePresent == Absent \notin RSOwners /\ Absent \notin PodOwners
  BY Zenon, UIDAssumption DEF RSOwners, PodOwners

\* A step that leaves alone a ReplicaSet, its changes, its notifications and its entry keeps
\* what is said of it.
LEMMA RSKept ==
    ASSUME NEW r \in ReplicaSets, RSWatchPart(r), RSEventPart(r), RSOwnerPart(r),
           rsLife'[r] = rsLife[r], rsOwner'[r] = rsOwner[r], rsWatch'[r] = rsWatch[r],
           rsStore'[r] = rsStore[r], rsEvents' = rsEvents, rsIndexer'[r] = rsIndexer[r],
           r \in rsPendingDeletion' <=> r \in rsPendingDeletion, missed \subseteq missed'
    PROVE  /\ RSWatchPart(r)' /\ RSEventPart(r)' /\ RSOwnerPart(r)'
           /\ Drained(r)' <=> Drained(r)
  <1>1. (NoEvents(r)' <=> NoEvents(r)) /\ (Drained(r)' <=> Drained(r))
    BY Zenon DEF NoEvents, Drained
  <1>2. \A i : NoLaterEvent(i, r)' <=> NoLaterEvent(i, r)
    BY Zenon DEF NoLaterEvent
  <1>3. RSWatchPart(r)'
    BY Zenon, <1>1 DEF RSWatchPart, RSNow
  <1>4. RSEventPart(r)'
    BY Zenon, <1>1, <1>2 DEF RSEventPart
  <1>5. RSOwnerPart(r)'
    BY <1>1 DEF RSOwnerPart, OwnerOnWatch, OwnerNotified, WatchTellsOwner,
              EventsTellOwner, EntryTellsOwner
  <1> QED
    BY Zenon, <1>1, <1>3, <1>4, <1>5

\* The API server creates a ReplicaSet, gives it another controller or deletes it, and
\* queues the change for the informer.
LEMMA RSAfterChange ==
    ASSUME TypeOK, NEW r \in ReplicaSets, RSWatchPart(r), RSEventPart(r), RSOwnerPart(r),
           \/ \E d \in RSOwners : CreateReplicaSet(r, d) \/ ReownReplicaSet(r, d)
           \/ DeleteReplicaSet(r)
    PROVE  RSWatchPart(r)' /\ RSEventPart(r)' /\ RSOwnerPart(r)' /\ ~Drained(r)'
  <1> DEFINE w == rsWatch[r]
  <1>1. PICK c \in RSChanges :
          /\ rsWatch'[r] = Append(w, c) /\ ~c.tombstone /\ rsLife[r] # "dead"
          /\ \/ rsLife'[r] = "live" /\ c.owner = rsOwner'[r] /\ c.owner # Absent
             \/ /\ rsLife[r] = "live" /\ rsLife'[r] = "dead" /\ c.owner = Absent
                /\ rsOwner'[r] = rsOwner[r]
    <2>1. ASSUME NEW d \in RSOwners, CreateReplicaSet(r, d) \/ ReownReplicaSet(r, d)
          PROVE  /\ rsWatch'[r] = Append(w, Changed(d)) /\ rsLife[r] # "dead"
                 /\ rsLife'[r] = "live" /\ d = rsOwner'[r]
      BY Zenon, <2>1 DEF CreateReplicaSet, ReownReplicaSet, TypeOK
    <2>2. ASSUME DeleteReplicaSet(r)
          PROVE  /\ rsWatch'[r] = Append(w, Changed(Absent)) /\ rsLife[r] = "live"
                 /\ rsLife'[r] = "dead" /\ rsOwner'[r] = rsOwner[r]
      BY Zenon, <2>2 DEF DeleteReplicaSet, TypeOK
    <2>3. ASSUME NEW d \in RSOwners \cup {Absent}
          PROVE  Changed(d) \in RSChanges /\ Changed(d).owner = d /\ ~Changed(d).tombstone
      BY Zenon DEF Changed, RSChanges
    <2> QED
      BY <2>1, <2>2, <2>3, OwnersArePresent
  <1>2. UNCHANGED <<rsStore, rsEvents, rsIndexer, rsPendingDeletion, missed>>
    BY Zenon DEF CreateReplicaSet, ReownReplicaSet, DeleteReplicaSet, index
  <1>3. /\ w \in Seq(RSChanges) /\ Len(w) \in Nat /\ Len(rsWatch'[r]) = Len(w) + 1
        /\ rsWatch'[r][Len(w) + 1] = c /\ \A i \in 1 .. Len(w) : rsWatch'[r][i] = w[i]
        /\ rsWatch'[r] # <<>>
    <2>1. w \in Seq(RSChanges)
      BY Zenon DEF TypeOK
    <2> QED
      BY <1>1, <2>1, AppendedIsInSeq
  <1>4. ~Drained(r) /\ ~Drained(r)' /\ (NoEvents(r)' <=> NoEvents(r))
    BY Zenon, <1>1, <1>2, <1>3 DEF Drained, NoEvents
  <1>5. \A i \in 1 .. Len(w) : w[i].owner # Absent
    <2>1. CASE rsLife[r] = "live"
      <3>1. RSNow(r) # Absent
        BY <2>1, OwnersArePresent DEF RSNow, TypeOK
      <3> QED
        BY <1>3, <3>1 DEF RSWatchPart
    <2>2. CASE rsLife[r] = "unborn"
      BY <1>3, <2>2 DEF RSWatchPart
    <2> QED
      BY Zenon, <1>1, <2>1, <2>2 DEF TypeOK, Life
  <1>6. RSWatchPart(r)'
    BY <1>1, <1>2, <1>3, <1>5 DEF RSWatchPart, RSNow
  <1>7. \A i : NoLaterEvent(i, r)' <=> NoLaterEvent(i, r)
    BY Zenon, <1>2 DEF NoLaterEvent
  <1>8. RSEventPart(r)'
    BY Zenon, <1>1, <1>2, <1>4, <1>7 DEF RSEventPart
  <1>9. RSOwnerPart(r)'
    <2>1. CASE rsLife'[r] = "live"
      BY <1>1, <1>3, <2>1 DEF RSOwnerPart, OwnerOnWatch, OwnerNotified, WatchTellsOwner,
              EventsTellOwner, EntryTellsOwner
    <2>2. CASE rsLife'[r] = "dead"
      <3>1. rsLife[r] = "live" /\ c.owner = Absent /\ rsOwner'[r] = rsOwner[r]
        BY Zenon, <1>1, <2>2
      <3>2. ASSUME r \notin missed, NEW i \in 1 .. Len(rsWatch'[r]), rsWatch'[r][i].owner # Absent,
                   \A j \in i + 1 .. Len(rsWatch'[r]) : rsWatch'[r][j].owner = Absent
            PROVE  rsWatch'[r][i].owner = rsOwner'[r]
        <4>1. i \in 1 .. Len(w) /\ \A j \in i + 1 .. Len(w) : w[j].owner = Absent
          <5>1. i \in 1 .. Len(w)
            BY <1>3, <3>1, <3>2
          <5>2. ASSUME NEW j \in i + 1 .. Len(w)
                PROVE  j \in i + 1 .. Len(rsWatch'[r]) /\ j \in 1 .. Len(w)
            BY <1>3, <5>1
          <5> QED
            BY Zenon, <1>3, <3>2, <5>1, <5>2
        <4> QED
          BY Zenon, <1>3, <3>1, <3>2, <4>1 DEF RSOwnerPart, OwnerOnWatch, OwnerNotified,
             WatchTellsOwner, EventsTellOwner, EntryTellsOwner
      <3>3. (\E i \in 1 .. Len(w) : w[i].owner # Absent) =>
              \E i \in 1 .. Len(rsWatch'[r]) : rsWatch'[r][i].owner # Absent
        BY <1>3
      <3> QED
        BY Zenon, <1>2, <1>4, <3>1, <3>2, <3>3 DEF RSOwnerPart, OwnerOnWatch, OwnerNotified,
           WatchTellsOwner, EventsTellOwner, EntryTellsOwner
    <2> QED
      BY Zenon, <1>1, <2>1, <2>2
  <1> QED
    BY Zenon, <1>4, <1>6, <1>8, <1>9

\* A notification about another ReplicaSet is queued: nothing changes for this one.
LEMMA RSOtherQueued ==
    ASSUME TypeOK, NEW s \in ReplicaSets, RSInformerStep(s), NEW r \in ReplicaSets, r # s,
           RSWatchPart(r), RSEventPart(r), RSOwnerPart(r)
    PROVE  /\ RSWatchPart(r)' /\ RSEventPart(r)' /\ RSOwnerPart(r)'
           /\ Drained(r)' <=> Drained(r)
  <1>1. PICK e \in RSNotifications : rsEvents' = Append(rsEvents, e) /\ e.rs = s
    <2>1. Head(rsWatch[s]) \in RSChanges
      BY Zenon, RestOfSeq DEF RSInformerStep, TypeOK
    <2>2. [rs |-> s, owner |-> Head(rsWatch[s]).owner, tombstone |-> Head(rsWatch[s]).tombstone]
             \in RSNotifications
      BY Zenon, <2>1 DEF RSChanges, RSNotifications
    <2> QED
      BY Zenon, <2>2 DEF RSInformerStep
  <1>2. /\ UNCHANGED <<rsLife, rsOwner, rsIndexer, rsPendingDeletion, missed>>
        /\ rsWatch'[r] = rsWatch[r] /\ rsStore'[r] = rsStore[r]
    BY Zenon DEF RSInformerStep, server, index, TypeOK
  <1>3. /\ Len(rsEvents) \in Nat /\ Len(rsEvents') = Len(rsEvents) + 1
        /\ rsEvents'[Len(rsEvents) + 1].rs # r
        /\ \A i \in 1 .. Len(rsEvents) : rsEvents'[i] = rsEvents[i]
    BY <1>1, AppendedIsInSeq DEF TypeOK
  <1>4. \A i \in 1 .. Len(rsEvents') : rsEvents'[i].rs = r => i \in 1 .. Len(rsEvents)
    BY <1>3
  <1>5. \A i \in 1 .. Len(rsEvents) : i \in 1 .. Len(rsEvents')
    BY <1>3
  <1>6. (NoEvents(r)' <=> NoEvents(r)) /\ (Drained(r)' <=> Drained(r))
    BY Zenon, <1>2, <1>3, <1>4, <1>5 DEF NoEvents, Drained
  <1>7. ASSUME NEW i \in 1 .. Len(rsEvents)
        PROVE  NoLaterEvent(i, r)' <=> NoLaterEvent(i, r)
    <2>1. \A j : j \in i + 1 .. Len(rsEvents) <=>
                    j \in i + 1 .. Len(rsEvents') /\ j # Len(rsEvents) + 1
      BY <1>3
    <2>2. \A j \in i + 1 .. Len(rsEvents) : rsEvents'[j] = rsEvents[j]
      BY <1>3
    <2> QED
      BY Zenon, <1>3, <2>1, <2>2 DEF NoLaterEvent
  <1>8. RSWatchPart(r)'
    BY Zenon, <1>2, <1>6 DEF RSWatchPart, RSNow
  <1>9. RSEventPart(r)'
    BY <1>2, <1>3, <1>4, <1>6, <1>7 DEF RSEventPart
  <1>10. (WatchTellsOwner(r)' <=> WatchTellsOwner(r)) /\ (OwnerOnWatch(r)' <=> OwnerOnWatch(r))
    BY <1>2 DEF WatchTellsOwner, OwnerOnWatch
  <1>11. OwnerNotified(r)' <=> OwnerNotified(r)
    BY Zenon, <1>3, <1>4, <1>5 DEF OwnerNotified
  <1>12. ASSUME EventsTellOwner(r)
         PROVE  EventsTellOwner(r)'
    <2>1. SUFFICES ASSUME NEW i \in 1 .. Len(rsEvents'), rsEvents'[i].rs = r,
                          rsEvents'[i].owner # Absent,
                          \A j \in i + 1 .. Len(rsEvents') :
                             rsEvents'[j].rs = r => rsEvents'[j].owner = Absent
                   PROVE  rsEvents'[i].owner = rsOwner'[r]
      BY Zenon DEF EventsTellOwner
    <2>2. i \in 1 .. Len(rsEvents)
      BY Zenon, <1>4, <2>1
    <2>3. \A j \in i + 1 .. Len(rsEvents) : rsEvents[j].rs = r => rsEvents[j].owner = Absent
      BY <1>3, <2>1, <2>2
    <2> QED
      BY Zenon, <1>2, <1>3, <1>12, <2>1, <2>2, <2>3 DEF EventsTellOwner
  <1>13. RSOwnerPart(r)'
    BY Zenon, <1>2, <1>6, <1>10, <1>11, <1>12 DEF RSOwnerPart, EntryTellsOwner
  <1> QED
    BY Zenon, <1>6, <1>8, <1>9, <1>13

\* The ReplicaSet informer applies a change to its store and queues the notification.
LEMMA RSQueued ==
    ASSUME TypeOK, NEW r \in ReplicaSets, RSInformerStep(r),
           RSWatchPart(r), RSEventPart(r), RSOwnerPart(r)
    PROVE  RSWatchPart(r)' /\ RSEventPart(r)' /\ RSOwnerPart(r)' /\ ~Drained(r)'
  <1>1. PICK w \in Seq(RSChanges), v \in Seq(RSChanges), c \in RSChanges :
          w = rsWatch[r] /\ v = rsWatch'[r] /\ w # <<>> /\ v = Tail(w) /\ c = Head(w)
    BY Zenon, RestOfSeq DEF RSInformerStep, TypeOK
  <1>2. PICK k \in Nat, n \in Nat : k = Len(w) /\ n = Len(rsEvents)
    BY DEF TypeOK
  <1>3. /\ k > 0 /\ 1 \in 1 .. k /\ k \in 1 .. k /\ w[1] = c /\ Len(v) = k - 1
        /\ \A i \in 1 .. k - 1 : v[i] = w[i + 1]
    BY <1>1, <1>2, RestOfSeq
  <1>4. /\ rsStore'[r] = c.owner
        /\ UNCHANGED <<rsLife, rsOwner, rsIndexer, rsPendingDeletion, missed>>
    BY Zenon, <1>1 DEF RSInformerStep, server, index, TypeOK
  <1>5. /\ Len(rsEvents') = n + 1
        /\ rsEvents'[n + 1].rs = r /\ rsEvents'[n + 1].owner = c.owner
        /\ rsEvents'[n + 1].tombstone <=> c.tombstone
        /\ \A i \in 1 .. n : rsEvents'[i] = rsEvents[i]
    <2> DEFINE e == [rs |-> r, owner |-> c.owner, tombstone |-> c.tombstone]
    <2>1. rsEvents' = Append(rsEvents, e)
      BY Zenon, <1>1 DEF RSInformerStep
    <2>2. e \in RSNotifications
      BY Zenon, <1>1 DEF RSChanges, RSNotifications
    <2>3. e.rs = r /\ e.owner = c.owner /\ (e.tombstone <=> c.tombstone)
      BY Zenon
    <2> HIDE DEF e
    <2> QED
      BY <1>2, <2>1, <2>2, <2>3, AppendedIsInSeq DEF TypeOK
  <1>6. /\ ~NoEvents(r)' /\ ~Drained(r)' /\ ~Drained(r) /\ r \notin rsPendingDeletion
    BY <1>1, <1>5 DEF NoEvents, Drained, RSEventPart
  <1>7. /\ rsLife[r] # "unborn" /\ w[k].owner = RSNow(r)
        /\ \A i \in 1 .. k : (w[i].owner = Absent => i = k) /\ (w[i].tombstone => r \in missed)
    BY Zenon, <1>1, <1>2 DEF RSWatchPart
  <1>8. RSWatchPart(r)'
    <2>1. v = <<>> <=> k = 1
      BY Zenon, <1>1, <1>2, RestIsEmpty
    <2>2. RSNow(r)' = RSNow(r)
      BY Zenon, <1>4 DEF RSNow
    <2>3. k = 1 => c.owner = RSNow(r)
      BY Zenon, <1>3, <1>7
    <2>4. k # 1 => v[Len(v)].owner = RSNow(r)
      BY <1>3, <1>7
    <2>5. \A i \in 1 .. Len(v) :
             (v[i].owner = Absent => i = Len(v)) /\ (v[i].tombstone => r \in missed)
      <3> SUFFICES ASSUME NEW i \in 1 .. k - 1
                   PROVE  /\ w[i + 1].owner = Absent => i + 1 = k
                          /\ w[i + 1].tombstone => r \in missed
        BY <1>3
      <3>1. i + 1 \in 1 .. k
        OBVIOUS
      <3> QED
        BY Zenon, <1>7, <3>1
    <2> QED
      BY Zenon, <1>1, <1>4, <1>7, <2>1, <2>2, <2>3, <2>4, <2>5 DEF RSWatchPart
  <1>9. RSEventPart(r)'
    <2>1. ~NoEvents(r) => rsStore[r] # Absent
      BY Zenon, <1>1, <1>7 DEF RSEventPart
    <2>2. ASSUME NEW i \in 1 .. n, rsEvents[i].rs = r
          PROVE  /\ rsEvents'[i].owner # Absent /\ ~NoLaterEvent(i, r)'
                 /\ rsEvents'[i].tombstone => r \in missed
      <3>1. rsEvents[i].owner # Absent /\ (rsEvents[i].tombstone => r \in missed)
        BY Zenon, <1>2, <2>1, <2>2 DEF RSEventPart, NoEvents
      <3>2. ~NoLaterEvent(i, r)'
        BY <1>5 DEF NoLaterEvent
      <3> QED
        BY Zenon, <1>5, <3>1, <3>2
    <2>3. /\ rsEvents'[n + 1].owner = rsStore'[r] /\ NoLaterEvent(n + 1, r)'
          /\ rsEvents'[n + 1].tombstone => r \in missed
      <3>1. NoLaterEvent(n + 1, r)'
        BY <1>5 DEF NoLaterEvent
      <3> QED
        BY Zenon, <1>3, <1>4, <1>5, <1>7, <3>1
    <2>4. \A i \in 1 .. Len(rsEvents') : i \in 1 .. n \/ i = n + 1
      BY <1>5
    <2>5. rsStore'[r] = Absent => rsLife'[r] = "dead" /\ rsWatch'[r] = <<>>
      <3>1. ASSUME c.owner = Absent
            PROVE  k = 1 /\ rsLife[r] = "dead"
        <4>1. k = 1 /\ RSNow(r) = Absent
          BY Zenon, <1>3, <1>7, <3>1
        <4>2. rsOwner[r] # Absent /\ rsLife[r] \in Life
          BY Zenon, OwnersArePresent DEF TypeOK
        <4> QED
          BY Zenon, <1>7, <4>1, <4>2 DEF RSNow, Life
      <3>2. k = 1 => v = <<>>
        BY Zenon, <1>1, <1>2, RestIsEmpty
      <3> QED
        BY Zenon, <1>1, <1>4, <3>1, <3>2
    <2> QED
      BY Zenon, <1>4, <1>5, <1>6, <2>2, <2>3, <2>4, <2>5 DEF RSEventPart
  <1>10. RSOwnerPart(r)'
    <2> SUFFICES ASSUME r \notin missed
                 PROVE  RSOwnerPart(r)'
      BY Zenon, <1>4 DEF RSOwnerPart
    <2>1. ASSUME NEW i \in 1 .. k, w[i].owner # Absent, \A j \in i + 1 .. k : w[j].owner = Absent
          PROVE  w[i].owner = rsOwner[r]
      BY Zenon, <1>1, <1>2, <1>7, <2>1 DEF RSOwnerPart, WatchTellsOwner
    <2>2. WatchTellsOwner(r)'
      <3>1. SUFFICES ASSUME NEW i \in 1 .. Len(v), v[i].owner # Absent,
                            \A j \in i + 1 .. Len(v) : v[j].owner = Absent
                     PROVE  v[i].owner = rsOwner'[r]
        BY Zenon, <1>1 DEF WatchTellsOwner
      <3>2. i + 1 \in 1 .. k /\ w[i + 1].owner # Absent
        BY <1>3, <3>1
      <3>3. ASSUME NEW j \in i + 2 .. k
            PROVE  w[j].owner = Absent
        <4>1. j - 1 \in i + 1 .. Len(v) /\ v[j - 1] = w[j]
          BY <1>3
        <4> QED
          BY Zenon, <3>1, <4>1
      <3>4. w[i + 1].owner = rsOwner[r]
        BY <2>1, <3>2, <3>3
      <3> QED
        BY Zenon, <1>3, <1>4, <3>4
    <2>3. CASE \E i \in 2 .. k : w[i].owner # Absent
      <3>1. PICK i \in 2 .. k : w[i].owner # Absent
        BY Zenon, <2>3
      <3>2. i - 1 \in 1 .. Len(v) /\ v[i - 1] = w[i]
        BY <1>3
      <3>3. OwnerOnWatch(r)'
        BY Zenon, <1>1, <3>1, <3>2 DEF OwnerOnWatch
      <3> QED
        BY Zenon, <2>2, <3>3 DEF RSOwnerPart
    <2>4. CASE c.owner # Absent /\ \A i \in 2 .. k : w[i].owner = Absent
      <3>1. c.owner = rsOwner[r]
        <4>1. \A j \in 1 + 1 .. k : w[j].owner = Absent
          BY <2>4
        <4> QED
          BY Zenon, <1>3, <2>1, <2>4, <4>1
      <3>2. EventsTellOwner(r)'
        <4>1. SUFFICES ASSUME NEW i \in 1 .. n + 1,
                              \A j \in i + 1 .. n + 1 :
                                 rsEvents'[j].rs = r => rsEvents'[j].owner = Absent
                       PROVE  i = n + 1
          BY Zenon, <1>4, <1>5, <3>1 DEF EventsTellOwner
        <4> QED
          BY <1>5, <2>4, <4>1
      <3>3. OwnerNotified(r)'
        BY <1>5, <2>4 DEF OwnerNotified
      <3> QED
        BY <2>2, <3>2, <3>3 DEF RSOwnerPart
    <2>5. CASE c.owner = Absent
      <3>1. ~OwnerOnWatch(r)
        BY <1>1, <1>2, <1>3, <1>7, <2>5 DEF OwnerOnWatch
      <3>2. EventsTellOwner(r) /\ (OwnerNotified(r) \/ rsIndexer[r] = rsOwner[r])
        BY Zenon, <1>6, <1>7, <3>1 DEF RSOwnerPart, EntryTellsOwner
      <3>3. EventsTellOwner(r)'
        <4>1. SUFFICES ASSUME NEW i \in 1 .. Len(rsEvents'), rsEvents'[i].rs = r,
                              rsEvents'[i].owner # Absent,
                              \A j \in i + 1 .. Len(rsEvents') :
                                 rsEvents'[j].rs = r => rsEvents'[j].owner = Absent
                       PROVE  rsEvents'[i].owner = rsOwner'[r]
          BY Zenon DEF EventsTellOwner
        <4>2. i \in 1 .. n
          BY <1>5, <2>5, <4>1
        <4>3. \A j \in i + 1 .. n : rsEvents[j].rs = r => rsEvents[j].owner = Absent
          BY <1>5, <4>1, <4>2
        <4> QED
          BY <1>2, <1>4, <1>5, <3>2, <4>1, <4>2, <4>3 DEF EventsTellOwner
      <3>4. OwnerNotified(r) => OwnerNotified(r)'
        BY <1>2, <1>5 DEF OwnerNotified
      <3> QED
        BY Zenon, <1>4, <1>6, <2>2, <3>2, <3>3, <3>4 DEF RSOwnerPart, EntryTellsOwner
    <2> QED
      BY Zenon, <1>3, <2>3, <2>4, <2>5
  <1> QED
    BY Zenon, <1>6, <1>8, <1>9, <1>10

\* The handler takes the first notification off the queue.
LEMMA HeadHandled ==
    ASSUME TypeOK, RSHandler
    PROVE  \E n \in Nat, e \in RSNotifications :
             /\ Len(rsEvents) = n + 1 /\ Len(rsEvents') = n
             /\ e = Head(rsEvents) /\ rsEvents[1] = e
             /\ \A i \in 1 .. n : rsEvents'[i] = rsEvents[i + 1]
             /\ \A i \in 2 .. n + 1 : rsEvents[i] = rsEvents'[i - 1]
  <1>1. rsEvents \in Seq(RSNotifications) /\ rsEvents # <<>> /\ rsEvents' = Tail(rsEvents)
    BY Zenon DEF RSHandler, TypeOK
  <1>2. /\ Head(rsEvents) \in RSNotifications /\ rsEvents[1] = Head(rsEvents)
        /\ Len(rsEvents') = Len(rsEvents) - 1
        /\ \A i \in 1 .. Len(rsEvents) - 1 : rsEvents'[i] = rsEvents[i + 1]
    BY Zenon, <1>1, RestOfSeq
  <1>3. PICK n \in Nat : n + 1 = Len(rsEvents)
    <2>1. Len(rsEvents) - 1 \in Nat /\ (Len(rsEvents) - 1) + 1 = Len(rsEvents)
      BY <1>1
    <2> QED
      BY Zenon, <2>1
  <1>4. Len(rsEvents') = n /\ \A i \in 1 .. n : rsEvents'[i] = rsEvents[i + 1]
    BY <1>2, <1>3
  <1>5. ASSUME NEW i \in 2 .. n + 1
        PROVE  rsEvents[i] = rsEvents'[i - 1]
    <2>1. i - 1 \in 1 .. n /\ (i - 1) + 1 = i
      OBVIOUS
    <2> QED
      BY Zenon, <1>4, <2>1
  <1> QED
    BY Zenon, <1>2, <1>3, <1>4, <1>5

\* The handler is told of another ReplicaSet: nothing changes for this one.
LEMMA RSOtherHandled ==
    ASSUME TypeOK, RSHandler, NEW r \in ReplicaSets, r # Head(rsEvents).rs,
           RSWatchPart(r), RSEventPart(r), RSOwnerPart(r)
    PROVE  /\ RSWatchPart(r)' /\ RSEventPart(r)' /\ RSOwnerPart(r)'
           /\ Drained(r)' <=> Drained(r)
           /\ rsIndexer'[r] = rsIndexer[r]
  <1>1. PICK n \in Nat, e \in RSNotifications :
          /\ Len(rsEvents) = n + 1 /\ Len(rsEvents') = n
          /\ e = Head(rsEvents) /\ rsEvents[1] = e
          /\ \A i \in 1 .. n : rsEvents'[i] = rsEvents[i + 1]
          /\ \A i \in 2 .. n + 1 : rsEvents[i] = rsEvents'[i - 1]
    BY Zenon, HeadHandled
  <1>2. /\ UNCHANGED <<rsLife, rsOwner, rsWatch, rsStore, missed>>
        /\ rsIndexer'[r] = rsIndexer[r] /\ (r \in rsPendingDeletion' <=> r \in rsPendingDeletion)
    BY Zenon DEF RSHandler, ClearRSDataIfPossible, server, index, TypeOK
  <1>3. \A i \in 1 .. Len(rsEvents') : i + 1 \in 1 .. Len(rsEvents) /\ rsEvents'[i] = rsEvents[i + 1]
    BY <1>1
  <1>4. ASSUME NEW i \in 1 .. Len(rsEvents), rsEvents[i].rs = r
        PROVE  i - 1 \in 1 .. Len(rsEvents') /\ rsEvents'[i - 1] = rsEvents[i]
    BY <1>1, <1>4
  <1>5. (NoEvents(r)' <=> NoEvents(r)) /\ (Drained(r)' <=> Drained(r))
    BY Zenon, <1>2, <1>3, <1>4 DEF NoEvents, Drained
  <1>6. ASSUME NEW i \in 1 .. n
        PROVE  NoLaterEvent(i, r)' <=> NoLaterEvent(i + 1, r)
    <2>1. ASSUME NEW j \in i + 1 .. n
          PROVE  j + 1 \in (i + 1) + 1 .. Len(rsEvents) /\ rsEvents'[j] = rsEvents[j + 1]
      BY <1>1
    <2>2. ASSUME NEW j \in (i + 1) + 1 .. n + 1
          PROVE  j - 1 \in i + 1 .. n /\ rsEvents'[j - 1] = rsEvents[j]
      BY <1>1
    <2> QED
      BY Zenon, <1>1, <2>1, <2>2 DEF NoLaterEvent
  <1>7. RSWatchPart(r)'
    BY Zenon, <1>2, <1>5 DEF RSWatchPart, RSNow
  <1>8. RSEventPart(r)'
    BY <1>1, <1>2, <1>3, <1>5, <1>6 DEF RSEventPart
  <1>9. (WatchTellsOwner(r)' <=> WatchTellsOwner(r)) /\ (OwnerOnWatch(r)' <=> OwnerOnWatch(r))
    BY <1>2 DEF WatchTellsOwner, OwnerOnWatch
  <1>10. OwnerNotified(r)' <=> OwnerNotified(r)
    <2>1. OwnerNotified(r)' => OwnerNotified(r)
      BY Zenon, <1>3 DEF OwnerNotified
    <2>2. OwnerNotified(r) => OwnerNotified(r)'
      BY Zenon, <1>4 DEF OwnerNotified
    <2> QED
      BY Zenon, <2>1, <2>2
  <1>11. ASSUME EventsTellOwner(r)
         PROVE  EventsTellOwner(r)'
    <2>1. SUFFICES ASSUME NEW i \in 1 .. n, rsEvents'[i].rs = r, rsEvents'[i].owner # Absent,
                          \A j \in i + 1 .. n : rsEvents'[j].rs = r => rsEvents'[j].owner = Absent
                   PROVE  rsEvents'[i].owner = rsOwner'[r]
      BY Zenon, <1>1 DEF EventsTellOwner
    <2>2. ASSUME NEW j \in (i + 1) + 1 .. n + 1, rsEvents[j].rs = r
          PROVE  rsEvents[j].owner = Absent
      <3>1. j - 1 \in i + 1 .. n /\ rsEvents'[j - 1] = rsEvents[j]
        BY <1>1
      <3> QED
        BY Zenon, <2>1, <2>2, <3>1
    <2>3. i + 1 \in 1 .. Len(rsEvents) /\ rsEvents'[i] = rsEvents[i + 1]
      BY <1>1
    <2> QED
      BY Zenon, <1>1, <1>2, <1>11, <2>1, <2>2, <2>3 DEF EventsTellOwner
  <1>12. RSOwnerPart(r)'
    BY Zenon, <1>2, <1>5, <1>9, <1>10, <1>11 DEF RSOwnerPart, EntryTellsOwner
  <1> QED
    BY Zenon, <1>2, <1>5, <1>7, <1>8, <1>12

\* The handler adds, updates or deletes the entry of a ReplicaSet: what it is told of the
\* deletion is the last thing it is told.
LEMMA RSHandled ==
    ASSUME TypeOK, RSHandler, NEW r \in ReplicaSets, r = Head(rsEvents).rs,
           RSWatchPart(r), RSEventPart(r), RSOwnerPart(r)
    PROVE  /\ RSWatchPart(r)' /\ RSEventPart(r)' /\ RSOwnerPart(r)'
           /\ Head(rsEvents).owner # Absent => rsIndexer'[r] # Absent
           /\ Head(rsEvents).owner = Absent => Drained(r)'
  <1>1. PICK n \in Nat, e \in RSNotifications :
          /\ Len(rsEvents) = n + 1 /\ Len(rsEvents') = n
          /\ e = Head(rsEvents) /\ rsEvents[1] = e
          /\ \A i \in 1 .. n : rsEvents'[i] = rsEvents[i + 1]
          /\ \A i \in 2 .. n + 1 : rsEvents[i] = rsEvents'[i - 1]
    BY Zenon, HeadHandled
  <1>2. UNCHANGED <<rsLife, rsOwner, rsWatch, rsStore, missed>>
    BY Zenon DEF RSHandler, server
  <1>3. ~NoEvents(r) /\ ~Drained(r) /\ r \notin rsPendingDeletion /\ rsLife[r] # "unborn"
    BY <1>1 DEF NoEvents, Drained, RSEventPart, RSWatchPart
  <1>4. ASSUME NEW i \in 1 .. n
        PROVE  NoLaterEvent(i, r)' <=> NoLaterEvent(i + 1, r)
    <2>1. ASSUME NEW j \in i + 1 .. n
          PROVE  j + 1 \in (i + 1) + 1 .. Len(rsEvents) /\ rsEvents'[j] = rsEvents[j + 1]
      BY <1>1
    <2>2. ASSUME NEW j \in (i + 1) + 1 .. n + 1
          PROVE  j - 1 \in i + 1 .. n /\ rsEvents'[j - 1] = rsEvents[j]
      BY <1>1
    <2> QED
      BY Zenon, <1>1, <2>1, <2>2 DEF NoLaterEvent
  <1>5. NoEvents(r)' <=> NoLaterEvent(1, r)
    <2>1. ASSUME NEW j \in 1 .. n
          PROVE  j + 1 \in 1 + 1 .. Len(rsEvents) /\ rsEvents'[j] = rsEvents[j + 1]
      BY <1>1
    <2>2. ASSUME NEW j \in 1 + 1 .. n + 1
          PROVE  j - 1 \in 1 .. n /\ rsEvents'[j - 1] = rsEvents[j]
      BY <1>1
    <2> QED
      BY Zenon, <1>1, <2>1, <2>2 DEF NoLaterEvent, NoEvents
  <1>6. /\ NoLaterEvent(1, r) => e.owner = rsStore[r]
        /\ ~NoLaterEvent(1, r) => e.owner # Absent
        /\ e.tombstone => r \in missed
    BY <1>1 DEF RSEventPart
  <1>7. RSWatchPart(r)'
    BY Zenon, <1>2, <1>3 DEF RSWatchPart, RSNow
  <1>8. ASSUME NEW i \in 1 .. Len(rsEvents'), rsEvents'[i].rs = r
        PROVE  /\ NoLaterEvent(i, r)' => rsEvents'[i].owner = rsStore'[r]
               /\ ~NoLaterEvent(i, r)' => rsEvents'[i].owner # Absent
               /\ rsEvents'[i].tombstone => r \in missed'
    <2>1. i + 1 \in 1 .. Len(rsEvents) /\ rsEvents'[i] = rsEvents[i + 1]
      BY <1>1
    <2> QED
      BY Zenon, <1>1, <1>2, <1>4, <1>8, <2>1 DEF RSEventPart
  <1>9. rsStore[r] = Absent => rsLife[r] = "dead" /\ rsWatch[r] = <<>>
    BY Zenon, <1>3 DEF RSEventPart
  <1>10. (WatchTellsOwner(r)' <=> WatchTellsOwner(r)) /\ (OwnerOnWatch(r)' <=> OwnerOnWatch(r))
    BY Zenon, <1>2 DEF WatchTellsOwner, OwnerOnWatch
  <1>11. ASSUME EventsTellOwner(r)
         PROVE  EventsTellOwner(r)'
    <2>1. SUFFICES ASSUME NEW i \in 1 .. n, rsEvents'[i].rs = r, rsEvents'[i].owner # Absent,
                          \A j \in i + 1 .. n : rsEvents'[j].rs = r => rsEvents'[j].owner = Absent
                   PROVE  rsEvents'[i].owner = rsOwner'[r]
      BY Zenon, <1>1 DEF EventsTellOwner
    <2>2. ASSUME NEW j \in (i + 1) + 1 .. n + 1, rsEvents[j].rs = r
          PROVE  rsEvents[j].owner = Absent
      <3>1. j - 1 \in i + 1 .. n /\ rsEvents'[j - 1] = rsEvents[j]
        BY <1>1
      <3> QED
        BY Zenon, <2>1, <2>2, <3>1
    <2>3. i + 1 \in 1 .. Len(rsEvents) /\ rsEvents'[i] = rsEvents[i + 1]
      BY <1>1
    <2> QED
      BY Zenon, <1>1, <1>2, <1>11, <2>1, <2>2, <2>3 DEF EventsTellOwner
  <1>12. CASE e.owner # Absent
    <2>1. rsIndexer'[r] = e.owner /\ UNCHANGED rsPendingDeletion
      BY <1>1, <1>12 DEF RSHandler, TypeOK
    <2>2. RSEventPart(r)'
      BY Zenon, <1>2, <1>3, <1>5, <1>6, <1>8, <1>9, <1>12, <2>1 DEF RSEventPart
    <2>3. ASSUME rsStore[r] = Absent
          PROVE  ~Drained(r)'
      BY Zenon, <1>5, <1>6, <1>12, <2>3 DEF Drained
    <2>4. ASSUME rsStore[r] # Absent
          PROVE  ~Drained(r)'
      BY Zenon, <1>2, <2>4 DEF Drained, RSWatchPart, RSNow
    <2>5. ASSUME EventsTellOwner(r), ~OwnerNotified(r)'
          PROVE  e.owner = rsOwner[r]
      <3>1. ASSUME NEW j \in 1 + 1 .. n + 1, rsEvents[j].rs = r
            PROVE  rsEvents[j].owner = Absent
        <4>1. j - 1 \in 1 .. n /\ rsEvents'[j - 1] = rsEvents[j]
          BY <1>1
        <4> QED
          BY Zenon, <1>1, <2>5, <3>1, <4>1 DEF OwnerNotified
      <3>2. 1 \in 1 .. Len(rsEvents)
        BY <1>1
      <3> QED
        BY Zenon, <1>1, <1>12, <2>5, <3>1, <3>2 DEF EventsTellOwner
    <2>6. RSOwnerPart(r)'
      BY Zenon, <1>2, <1>3, <1>10, <1>11, <2>1, <2>3, <2>4, <2>5 DEF RSOwnerPart, EntryTellsOwner
    <2> QED
      BY Zenon, <1>1, <1>7, <1>12, <2>1, <2>2, <2>6
  <1>13. CASE e.owner = Absent
    <2>1. Drained(r)' /\ NoEvents(r)' /\ rsStore[r] = Absent
      BY Zenon, <1>2, <1>5, <1>6, <1>9, <1>13 DEF Drained
    <2>2. RSEventPart(r)'
      BY Zenon, <1>2, <1>8, <1>9, <2>1 DEF RSEventPart, Drained
    <2>3. CASE r \in missed
      BY Zenon, <1>1, <1>2, <1>7, <1>13, <2>1, <2>2, <2>3 DEF RSOwnerPart
    <2>4. CASE r \notin missed
      <3>1. rsIndexer[r] = rsOwner[r] \/ OwnerOnWatch(r) \/ OwnerNotified(r)
        BY Zenon, <1>3, <2>4 DEF RSOwnerPart, EntryTellsOwner
      <3>2. ~OwnerOnWatch(r) /\ ~OwnerNotified(r)
        <4>1. \A i \in 1 .. Len(rsEvents) : rsEvents[i].rs = r => i = 1
          BY <1>1, <1>6, <1>13 DEF NoLaterEvent
        <4>2. ~OwnerNotified(r)
          BY Zenon, <1>1, <1>13, <4>1 DEF OwnerNotified
        <4>3. ~OwnerOnWatch(r)
          BY <1>9, <2>1 DEF OwnerOnWatch
        <4> QED
          BY Zenon, <4>2, <4>3
      <3>3. \/ rsIndexer'[r] = rsIndexer[r] /\ r \in rsPendingDeletion'
            \/ rsIndexer'[r] = Absent /\ r \notin rsPendingDeletion'
        BY Zenon, <1>1, <1>6, <1>13, <2>4 DEF RSHandler, ClearRSDataIfPossible, TypeOK
      <3>4. EventsTellOwner(r) /\ WatchTellsOwner(r)
        BY Zenon, <1>3, <2>4, <3>2 DEF RSOwnerPart
      <3>5. RSOwnerPart(r)'
        BY Zenon, <1>2, <1>10, <1>11, <2>1, <3>1, <3>2, <3>3, <3>4 DEF RSOwnerPart,
           EntryTellsOwner
      <3> QED
        BY Zenon, <1>1, <1>7, <1>13, <2>1, <2>2, <3>5
    <2> QED
      BY Zenon, <2>3, <2>4
  <1> QED
    BY Zenon, <1>12, <1>13

\* The ReplicaSet informer lists again: what it has not seen is replaced by one change that
\* says how the ReplicaSet is now, and a deletion it has not seen is noted as missed.
LEMMA RSListed ==
    ASSUME TypeOK, RSRelist, NEW r \in ReplicaSets, RSWatchPart(r), RSEventPart(r), RSOwnerPart(r)
    PROVE  /\ RSWatchPart(r)' /\ RSEventPart(r)' /\ RSOwnerPart(r)'
           /\ Drained(r)' => Drained(r) \/ r \in missed'
  <1> DEFINE c == [owner |-> RSNow(r), tombstone |-> RSNow(r) = Absent]
  <1>1. /\ UNCHANGED <<rsLife, rsOwner, rsStore, rsEvents, rsIndexer, rsPendingDeletion>>
        /\ missed \subseteq missed' /\ (rsLife[r] = "dead" /\ rsWatch[r] # <<>> => r \in missed')
        /\ rsLife[r] \in Life /\ rsOwner[r] # Absent
    BY OwnersArePresent DEF RSRelist, server, index, TypeOK
  <1>2. rsWatch'[r] = IF rsStore[r] = RSNow(r) THEN <<>> ELSE <<c>>
    BY Zenon DEF RSRelist, ListChange, RSNow
  <1>3. c.owner = RSNow(r) /\ (c.tombstone <=> RSNow(r) = Absent)
    BY Zenon
  <1> HIDE DEF c
  <1>4. /\ NoEvents(r)' <=> NoEvents(r)
        /\ RSNow(r)' = RSNow(r) /\ (RSNow(r) = Absent <=> rsLife[r] # "live")
    BY Zenon, <1>1 DEF NoEvents, RSNow
  <1>5. /\ rsLife[r] = "unborn" => rsStore[r] = RSNow(r)
        /\ rsWatch[r] = <<>> => rsStore[r] = RSNow(r)
    BY Zenon DEF RSWatchPart
  <1>6. \A i : NoLaterEvent(i, r)' <=> NoLaterEvent(i, r)
    BY Zenon, <1>1 DEF NoLaterEvent
  <1>7. CASE rsStore[r] = RSNow(r)
    <2>1. rsWatch'[r] = <<>> /\ Len(rsWatch'[r]) = 0
      BY <1>2, <1>7
    <2>2. RSWatchPart(r)'
      BY <1>1, <1>4, <1>7, <2>1 DEF RSWatchPart
    <2>3. RSEventPart(r)'
      BY Zenon, <1>1, <1>4, <1>6, <1>7, <2>1 DEF RSEventPart, Drained
    <2>4. WatchTellsOwner(r)'
      BY <2>1 DEF WatchTellsOwner
    <2>5. CASE rsLife[r] = "live"
      <3>1. \A i \in 1 .. Len(rsEvents) : rsEvents[i].rs = r => rsEvents[i].owner # Absent
        BY Zenon, <1>1, <1>4, <1>7, <2>5 DEF RSEventPart
      <3>2. EventsTellOwner(r)
        <4>1. SUFFICES ASSUME NEW i \in 1 .. Len(rsEvents), rsEvents[i].rs = r,
                              \A j \in i + 1 .. Len(rsEvents) :
                                 rsEvents[j].rs = r => rsEvents[j].owner = Absent
                       PROVE  rsEvents[i].owner = rsOwner[r]
          BY Zenon DEF EventsTellOwner
        <4>2. Len(rsEvents) \in Nat
          BY DEF TypeOK
        <4>3. NoLaterEvent(i, r)
          BY <3>1, <4>1, <4>2 DEF NoLaterEvent
        <4> QED
          BY Zenon, <1>7, <2>5, <4>1, <4>3 DEF RSEventPart, RSNow
      <3>3. EventsTellOwner(r)'
        BY Zenon, <1>1, <3>2 DEF EventsTellOwner
      <3>4. ~NoEvents(r) => OwnerNotified(r)'
        BY Zenon, <1>1, <3>1 DEF NoEvents, OwnerNotified
      <3>5. NoEvents(r) => rsIndexer[r] = rsOwner[r]
        BY Zenon, <1>1, <1>7, <2>5 DEF RSEventPart, RSNow
      <3>6. ~Drained(r)' /\ RSOwnerPart(r)'
        BY Zenon, <1>1, <2>4, <2>5, <3>3, <3>4, <3>5 DEF RSOwnerPart, EntryTellsOwner, Drained
      <3> QED
        BY Zenon, <2>2, <2>3, <3>6
    <2>6. CASE rsLife[r] # "live"
      <3>1. SUFFICES ASSUME rsLife[r] = "dead", r \notin missed'
                     PROVE  RSOwnerPart(r)' /\ (Drained(r)' => Drained(r))
        BY Zenon, <1>1, <2>2, <2>3, <2>6 DEF RSOwnerPart, Life, Drained
      <3>2. rsWatch[r] = <<>> /\ r \notin missed
        BY Zenon, <1>1, <3>1
      <3>3. Drained(r)' <=> Drained(r)
        BY Zenon, <1>1, <1>4, <2>1, <3>2 DEF Drained
      <3>4. /\ EventsTellOwner(r)' <=> EventsTellOwner(r)
            /\ OwnerNotified(r)' <=> OwnerNotified(r)
            /\ ~OwnerOnWatch(r)
        BY <1>1, <3>2 DEF EventsTellOwner, OwnerNotified, OwnerOnWatch
      <3>5. RSOwnerPart(r)'
        BY Zenon, <1>1, <2>4, <3>1, <3>2, <3>3, <3>4 DEF RSOwnerPart, EntryTellsOwner
      <3> QED
        BY Zenon, <3>3, <3>5
    <2> QED
      BY Zenon, <2>5, <2>6
  <1>8. CASE rsStore[r] # RSNow(r)
    <2>1. /\ rsWatch'[r] = <<c>> /\ Len(rsWatch'[r]) = 1 /\ rsWatch'[r][1] = c
          /\ rsWatch'[r] # <<>>
      BY <1>2, <1>8
    <2>2. rsWatch[r] # <<>> /\ rsLife[r] # "unborn" /\ (RSNow(r) = Absent => r \in missed')
      BY Zenon, <1>1, <1>4, <1>5, <1>8 DEF Life
    <2>3. RSWatchPart(r)'
      BY <1>1, <1>3, <1>4, <2>1, <2>2 DEF RSWatchPart
    <2>4. /\ rsLife[r] = "live" \/ rsStore[r] # Absent
          /\ ~Drained(r) /\ ~Drained(r)'
      BY Zenon, <1>4, <1>8, <2>1, <2>2 DEF Drained
    <2>5. RSEventPart(r)'
      BY Zenon, <1>1, <1>4, <1>6, <2>4 DEF RSEventPart
    <2>6. CASE r \in missed'
      BY Zenon, <2>3, <2>4, <2>5, <2>6 DEF RSOwnerPart
    <2>7. CASE r \notin missed'
      <3>1. c.owner = rsOwner[r] /\ c.owner # Absent
        BY Zenon, <1>1, <1>3, <1>4, <2>2, <2>7 DEF RSNow
      <3>2. OwnerOnWatch(r)' /\ WatchTellsOwner(r)'
        BY <1>1, <2>1, <3>1 DEF OwnerOnWatch, WatchTellsOwner
      <3>3. RSOwnerPart(r)'
        BY Zenon, <3>2 DEF RSOwnerPart
      <3> QED
        BY Zenon, <2>3, <2>4, <2>5, <3>3
    <2> QED
      BY Zenon, <2>6, <2>7
  <1> QED
    BY Zenon, <1>7, <1>8

\* The pod handler drops an entry only of a ReplicaSet whose deletion it has been told of.
LEMMA RSDropped ==
    ASSUME TypeOK, PodHandler, NEW r \in ReplicaSets, RSWatchPart(r), RSEventPart(r), RSOwnerPart(r)
    PROVE  /\ RSWatchPart(r)' /\ RSEventPart(r)' /\ RSOwnerPart(r)'
           /\ Drained(r)' <=> Drained(r)
           /\ \/ rsIndexer'[r] = rsIndexer[r]
              \/ StoredPodsOf(r) = {} /\ (PodOnItsWay(r) => r \in lagging')
           /\ lagging \subseteq lagging'
  <1>1. UNCHANGED <<rsLife, rsOwner, rsWatch, rsStore, rsEvents, missed, podsIndexer, podWatch>>
    BY Zenon DEF PodHandler, server, rsPath
  <1>2. /\ \/ /\ rsIndexer'[r] = rsIndexer[r]
              /\ r \in rsPendingDeletion' <=> r \in rsPendingDeletion
           \/ /\ r \in rsPendingDeletion /\ StoredPodsOf(r) = {}
              /\ rsIndexer'[r] = Absent /\ r \notin rsPendingDeletion'
              /\ PodOnItsWay(r) => r \in lagging'
        /\ lagging \subseteq lagging'
    BY DEF PodHandler, ClearRSDataIfPossible, index, TypeOK
  <1>3. ASSUME rsIndexer'[r] = rsIndexer[r],
               r \in rsPendingDeletion' <=> r \in rsPendingDeletion
        PROVE  /\ RSWatchPart(r)' /\ RSEventPart(r)' /\ RSOwnerPart(r)'
               /\ Drained(r)' <=> Drained(r)
    BY Zenon, <1>1, <1>3, RSKept
  <1>4. ASSUME r \in rsPendingDeletion, rsIndexer'[r] = Absent, r \notin rsPendingDeletion'
        PROVE  /\ RSWatchPart(r)' /\ RSEventPart(r)' /\ RSOwnerPart(r)'
               /\ Drained(r)' <=> Drained(r)
    <2>1. Drained(r) /\ rsStore[r] = Absent
      BY Zenon, <1>4 DEF RSEventPart, RSWatchPart, Drained, RSNow
    <2>2. (NoEvents(r)' <=> NoEvents(r)) /\ (Drained(r)' <=> Drained(r))
      BY Zenon, <1>1 DEF NoEvents, Drained
    <2>3. RSWatchPart(r)'
      BY Zenon, <1>1, <1>4, <2>2 DEF RSWatchPart, RSNow
    <2>4. \A i : NoLaterEvent(i, r)' <=> NoLaterEvent(i, r)
      BY Zenon, <1>1 DEF NoLaterEvent
    <2>5. RSEventPart(r)'
      BY Zenon, <1>1, <1>4, <2>1, <2>2, <2>4 DEF RSEventPart
    <2>6. /\ WatchTellsOwner(r)' <=> WatchTellsOwner(r)
          /\ EventsTellOwner(r)' <=> EventsTellOwner(r)
          /\ ~OwnerOnWatch(r)
      BY <1>1, <2>1 DEF WatchTellsOwner, EventsTellOwner, OwnerOnWatch, Drained
    <2>7. RSOwnerPart(r)'
      BY Zenon, <1>1, <1>4, <2>1, <2>2, <2>6 DEF RSOwnerPart, EntryTellsOwner
    <2> QED
      BY Zenon, <2>2, <2>3, <2>5, <2>7
  <1> QED
    BY Zenon, <1>2, <1>3, <1>4

\* A step that leaves alone a pod and its changes keeps what is said of it; no step takes a
\* ReplicaSet back to before its creation.
LEMMA PodKept ==
    ASSUME NEW p \in Pods, PodPath(p), podLife'[p] = podLife[p], podOwner'[p] = podOwner[p],
           podWatch'[p] = podWatch[p], podsIndexer'[p] = podsIndexer[p],
           \A r \in ReplicaSets : rsLife[r] # "unborn" => rsLife'[r] # "unborn"
    PROVE  PodPath(p)'
  BY Zenon DEF PodPath, PodNow

\* The API server creates a pod, gives it another controller or deletes it, and queues the
\* change for the informer.
LEMMA PodAfterChange ==
    ASSUME TypeOK, NEW p \in Pods, PodPath(p),
           \/ \E o \in PodOwners : CreatePod(p, o) \/ ReownPod(p, o)
           \/ DeletePod(p)
    PROVE  /\ PodPath(p)'
           /\ \A q \in Pods \ {p} : podWatch'[q] = podWatch[q]
           /\ \E c \in PodChanges :
                 /\ podWatch'[p] = Append(podWatch[p], c)
                 /\ \A r \in ReplicaSets : c.owner = r => rsLife[r] = "live"
  <1>1. PICK o \in PodOwners \cup {Absent} :
          /\ podWatch'[p] = Append(podWatch[p], Changed(o)) /\ o = PodNow(p)'
          /\ o \in ReplicaSets => rsLife[o] = "live"
          /\ podOwner'[p] = o \/ podOwner'[p] = podOwner[p]
    <2>1. ASSUME NEW o \in PodOwners, CreatePod(p, o) \/ ReownPod(p, o)
          PROVE  /\ podWatch'[p] = Append(podWatch[p], Changed(o)) /\ o = PodNow(p)'
                 /\ o \in ReplicaSets => rsLife[o] = "live"
                 /\ podOwner'[p] = o
      BY Zenon, <2>1, UIDAssumption DEF CreatePod, ReownPod, LiveOwner, PodNow, TypeOK
    <2>2. ASSUME DeletePod(p)
          PROVE  /\ podWatch'[p] = Append(podWatch[p], Changed(Absent)) /\ Absent = PodNow(p)'
                 /\ Absent \notin ReplicaSets
                 /\ podOwner'[p] = podOwner[p]
      BY Zenon, <2>2, UIDAssumption DEF DeletePod, PodNow, TypeOK
    <2> QED
      BY Zenon, <2>1, <2>2
  <1>2. Changed(o) \in PodChanges /\ Changed(o).owner = o
    BY Zenon DEF Changed, PodChanges
  <1>3. podWatch[p] \in Seq(PodChanges) /\ UNCHANGED rsLife
    BY Zenon DEF CreatePod, ReownPod, DeletePod, TypeOK
  <1>4. podWatch'[p] # <<>> /\ podWatch'[p][Len(podWatch'[p])] = Changed(o)
    <2>1. PICK w \in Seq(PodChanges), c \in PodChanges : w = podWatch[p] /\ c = Changed(o)
      BY Zenon, <1>2, <1>3
    <2>2. Append(w, c) # <<>> /\ Append(w, c)[Len(Append(w, c))] = c
      BY Zenon, AppendedIsLast
    <2> QED
      BY Zenon, <1>1, <2>1, <2>2
  <1>5. PodPath(p)'
    BY Zenon, <1>1, <1>2, <1>3, <1>4 DEF PodPath
  <1>6. \A q \in Pods \ {p} : podWatch'[q] = podWatch[q]
    BY DEF CreatePod, ReownPod, DeletePod, TypeOK
  <1> QED
    BY Zenon, <1>1, <1>2, <1>5, <1>6

\* The pod informer applies a change to its store, or lists again.
LEMMA PodAfterInformer ==
    ASSUME TypeOK, NEW p \in Pods, PodPath(p), PodInformerStep(p) \/ PodRelist
    PROVE  PodPath(p)'
  <1>1. ASSUME PodInformerStep(p)
        PROVE  PodPath(p)'
    <2>1. PICK w \in Seq(PodChanges) : w = podWatch[p] /\ w # <<>> /\ podWatch'[p] = Tail(w)
                                       /\ podsIndexer'[p] = Head(w).owner
      BY Zenon, <1>1 DEF PodInformerStep, TypeOK
    <2>2. /\ Len(w) \in Nat /\ Len(w) > 0 /\ Len(Tail(w)) = Len(w) - 1 /\ Head(w) = w[1]
          /\ \A i \in 1 .. Len(w) - 1 : Tail(w)[i] = w[i + 1]
          /\ Tail(w) = <<>> <=> Len(w) = 1
      BY Zenon, <2>1, RestOfSeq, RestIsEmpty
    <2>3. UNCHANGED <<podLife, podOwner, rsLife>> /\ PodNow(p)' = PodNow(p)
      BY Zenon, <1>1 DEF PodInformerStep, server, PodNow
    <2>4. w[Len(w)].owner = PodNow(p)
      BY Zenon, <2>1 DEF PodPath
    <2>5. Len(w) # 1 => Tail(w)[Len(Tail(w))] = w[Len(w)]
      BY <2>2
    <2> QED
      BY Zenon, <2>1, <2>2, <2>3, <2>4, <2>5 DEF PodPath
  <1>2. ASSUME PodRelist
        PROVE  PodPath(p)'
    <2> DEFINE c == [owner |-> PodNow(p), tombstone |-> PodNow(p) = Absent]
    <2>1. podWatch'[p] = IF podsIndexer[p] = PodNow(p) THEN <<>> ELSE <<c>>
      BY Zenon, <1>2 DEF PodRelist, ListChange, PodNow
    <2>2. UNCHANGED <<podLife, podOwner, rsLife, podsIndexer>> /\ PodNow(p)' = PodNow(p)
      BY Zenon, <1>2 DEF PodRelist, server, PodNow
    <2>3. c.owner = PodNow(p)
      BY Zenon
    <2> HIDE DEF c
    <2>4. Len(<<c>>) = 1 /\ <<c>>[1] = c
      BY Zenon
    <2> QED
      BY <2>1, <2>2, <2>3, <2>4 DEF PodPath
  <1> QED
    BY Zenon, <1>1, <1>2

\* What the pods' informer will know of every pod survives every step.
LEMMA PodPathStep ==
    ASSUME TypeOK, Next, \A q \in Pods : PodPath(q), NEW p \in Pods
    PROVE  PodPath(p)'
  <1>1. ASSUME NEW q \in Pods,
               \/ \E o \in PodOwners : CreatePod(q, o) \/ ReownPod(q, o)
               \/ DeletePod(q)
               \/ PodInformerStep(q)
        PROVE  PodPath(p)'
    <2>1. CASE p = q
      BY Zenon, <1>1, <2>1, PodAfterChange, PodAfterInformer
    <2>2. CASE p # q
      <3>1. /\ podLife'[p] = podLife[p] /\ podOwner'[p] = podOwner[p]
            /\ podWatch'[p] = podWatch[p] /\ podsIndexer'[p] = podsIndexer[p]
            /\ UNCHANGED rsLife
        BY Zenon, <1>1, <2>2 DEF CreatePod, ReownPod, DeletePod, PodInformerStep, server, TypeOK
      <3> QED
        BY Zenon, <3>1, PodKept
    <2> QED
      BY Zenon, <2>1, <2>2
  <1>2. ASSUME PodRelist
        PROVE  PodPath(p)'
    BY <1>2, PodAfterInformer
  <1>3. ASSUME \/ \E r \in ReplicaSets :
                     \/ \E d \in RSOwners : CreateReplicaSet(r, d) \/ ReownReplicaSet(r, d)
                     \/ DeleteReplicaSet(r)
                     \/ RSInformerStep(r)
               \/ RSRelist
               \/ PodHandler
               \/ RSHandler
        PROVE  PodPath(p)'
    <2>1. UNCHANGED <<podLife, podOwner, podWatch, podsIndexer>>
      BY Zenon, <1>3 DEF CreateReplicaSet, ReownReplicaSet, DeleteReplicaSet, RSInformerStep,
         RSRelist, PodHandler, RSHandler, server, podPath
    <2>2. \A r \in ReplicaSets : rsLife[r] # "unborn" => rsLife'[r] # "unborn"
      BY Zenon, <1>3 DEF CreateReplicaSet, ReownReplicaSet, DeleteReplicaSet, RSInformerStep,
         RSRelist, PodHandler, RSHandler, server, TypeOK
    <2> QED
      BY Zenon, <2>1, <2>2, PodKept
  <1> QED
    BY Zenon, <1>1, <1>2, <1>3 DEF Next

\* What is said of every ReplicaSet survives every step.
LEMMA RSStep ==
    ASSUME TypeOK, Next, NEW r \in ReplicaSets, RSWatchPart(r), RSEventPart(r), RSOwnerPart(r)
    PROVE  RSWatchPart(r)' /\ RSEventPart(r)' /\ RSOwnerPart(r)'
  <1>1. ASSUME \/ \E p \in Pods : \/ \E o \in PodOwners : CreatePod(p, o) \/ ReownPod(p, o)
                                  \/ DeletePod(p)
                                  \/ PodInformerStep(p)
               \/ PodRelist
        PROVE  RSWatchPart(r)' /\ RSEventPart(r)' /\ RSOwnerPart(r)'
    <2>1. /\ UNCHANGED <<rsLife, rsOwner, rsWatch, rsStore, rsEvents, rsIndexer, rsPendingDeletion>>
          /\ missed \subseteq missed'
      BY Zenon, <1>1 DEF CreatePod, ReownPod, DeletePod, PodInformerStep, PodRelist, server,
         rsPath, index
    <2> QED
      BY Zenon, <2>1, RSKept
  <1>2. ASSUME NEW s \in ReplicaSets,
               \/ \E d \in RSOwners : CreateReplicaSet(s, d) \/ ReownReplicaSet(s, d)
               \/ DeleteReplicaSet(s)
        PROVE  RSWatchPart(r)' /\ RSEventPart(r)' /\ RSOwnerPart(r)'
    <2>1. CASE r = s
      BY Zenon, <1>2, <2>1, RSAfterChange
    <2>2. CASE r # s
      <3>1. /\ rsLife'[r] = rsLife[r] /\ rsOwner'[r] = rsOwner[r] /\ rsWatch'[r] = rsWatch[r]
            /\ UNCHANGED <<rsStore, rsEvents, rsIndexer, rsPendingDeletion, missed>>
        BY Zenon, <1>2, <2>2 DEF CreateReplicaSet, ReownReplicaSet, DeleteReplicaSet, index,
           TypeOK
      <3> QED
        BY Zenon, <3>1, RSKept
    <2> QED
      BY Zenon, <2>1, <2>2
  <1>3. ASSUME NEW s \in ReplicaSets, RSInformerStep(s)
        PROVE  RSWatchPart(r)' /\ RSEventPart(r)' /\ RSOwnerPart(r)'
    BY <1>3, RSQueued, RSOtherQueued
  <1>4. ASSUME RSHandler
        PROVE  RSWatchPart(r)' /\ RSEventPart(r)' /\ RSOwnerPart(r)'
    BY Zenon, <1>4, RSHandled, RSOtherHandled
  <1>5. ASSUME RSRelist \/ PodHandler
        PROVE  RSWatchPart(r)' /\ RSEventPart(r)' /\ RSOwnerPart(r)'
    BY Zenon, <1>5, RSListed, RSDropped
  <1> QED
    BY Zenon, <1>1, <1>2, <1>3, <1>4, <1>5 DEF Next

\* A step that leaves alone the pods, their changes and the entry of a ReplicaSet does not
\* bring back one that was dropped.
LEMMA DroppedKept ==
    ASSUME NEW r \in ReplicaSets, DroppedPart(r), Drained(r)' => Drained(r) \/ r \in missed',
           rsIndexer'[r] = rsIndexer[r], lagging \subseteq lagging', missed \subseteq missed',
           podsIndexer' = podsIndexer, podWatch' = podWatch
    PROVE  DroppedPart(r)'
  BY Zenon DEF DroppedPart, StoredPodsOf, PodOnItsWay

\* Nor does a change of a pod: a controller creates and adopts pods only while it exists.
LEMMA DroppedAfterPodChange ==
    ASSUME TypeOK, NEW r \in ReplicaSets, DroppedPart(r), NEW p \in Pods, PodPath(p),
           \/ \E o \in PodOwners : CreatePod(p, o) \/ ReownPod(p, o)
           \/ DeletePod(p)
    PROVE  DroppedPart(r)'
  <1>1. PICK c \in PodChanges : /\ podWatch'[p] = Append(podWatch[p], c)
                                /\ c.owner = r => rsLife[r] = "live"
    BY Zenon, PodAfterChange
  <1>2. \A q \in Pods \ {p} : podWatch'[q] = podWatch[q]
    BY Zenon, PodAfterChange
  <1>3. UNCHANGED <<rsLife, rsWatch, rsEvents, rsIndexer, lagging, missed, podsIndexer>>
    BY Zenon DEF CreatePod, ReownPod, DeletePod, rsPath, index
  <1>4. Drained(r)' <=> Drained(r)
    BY Zenon, <1>3 DEF Drained, NoEvents
  <1>5. ASSUME Drained(r), PodOnItsWay(r)'
        PROVE  PodOnItsWay(r)
    <2>1. PICK q \in Pods : \E i \in 1 .. Len(podWatch'[q]) : podWatch'[q][i].owner = r
      BY Zenon, <1>5 DEF PodOnItsWay
    <2>2. CASE q # p
      BY Zenon, <1>2, <2>1, <2>2 DEF PodOnItsWay
    <2>3. CASE q = p
      <3>1. podWatch[p] \in Seq(PodChanges) /\ c.owner # r
        BY Zenon, <1>1, <1>5 DEF TypeOK, Drained
      <3>2. PICK i \in 1 .. Len(podWatch'[p]) : podWatch'[p][i].owner = r
        BY Zenon, <2>1, <2>3
      <3>3. i \in 1 .. Len(podWatch[p]) /\ podWatch[p][i].owner = r
        BY <1>1, <3>1, <3>2, AppendedIsInSeq
      <3> QED
        BY Zenon, <3>3 DEF PodOnItsWay
    <2> QED
      BY Zenon, <2>2, <2>3
  <1> QED
    BY Zenon, <1>3, <1>4, <1>5 DEF DroppedPart, StoredPodsOf

\* Nor does the pod informer: it stores only owners that were on their way to it.
LEMMA DroppedAfterInformer ==
    ASSUME TypeOK, NEW r \in ReplicaSets, DroppedPart(r), \A p \in Pods : PodPath(p),
           (\E p \in Pods : PodInformerStep(p)) \/ PodRelist
    PROVE  DroppedPart(r)'
  <1>1. /\ UNCHANGED <<rsLife, rsWatch, rsEvents, rsIndexer, lagging>>
        /\ missed \subseteq missed'
    BY Zenon DEF PodInformerStep, PodRelist, server, rsPath, index
  <1>2. Drained(r)' <=> Drained(r)
    BY Zenon, <1>1 DEF Drained, NoEvents
  <1>3. SUFFICES ASSUME StoredPodsOf(r) = {}, ~PodOnItsWay(r)
                 PROVE  StoredPodsOf(r)' = {} /\ ~PodOnItsWay(r)'
    BY Zenon, <1>1, <1>2 DEF DroppedPart
  <1>4. ASSUME NEW p \in Pods
        PROVE  /\ podsIndexer'[p] # r
               /\ \A i \in 1 .. Len(podWatch'[p]) : podWatch'[p][i].owner # r
    <2>1. /\ podsIndexer[p] # r
          /\ \A i \in 1 .. Len(podWatch[p]) : podWatch[p][i].owner # r
      BY Zenon, <1>3 DEF StoredPodsOf, PodOnItsWay
    <2>2. PICK w \in Seq(PodChanges) : w = podWatch[p]
      BY Zenon DEF TypeOK
    <2>3. ASSUME PodInformerStep(p)
          PROVE  /\ podsIndexer'[p] # r
                 /\ \A i \in 1 .. Len(podWatch'[p]) : podWatch'[p][i].owner # r
      <3>1. w # <<>> /\ podWatch'[p] = Tail(w) /\ podsIndexer'[p] = Head(w).owner
        BY Zenon, <2>2, <2>3 DEF PodInformerStep, TypeOK
      <3>2. /\ Len(w) \in Nat /\ 1 \in 1 .. Len(w) /\ Len(Tail(w)) = Len(w) - 1 /\ Head(w) = w[1]
            /\ \A i \in 1 .. Len(w) - 1 : i + 1 \in 1 .. Len(w) /\ Tail(w)[i] = w[i + 1]
        BY <3>1, RestOfSeq
      <3> QED
        BY <2>1, <2>2, <3>1, <3>2
    <2>4. ASSUME PodRelist
          PROVE  /\ podsIndexer'[p] # r
                 /\ \A i \in 1 .. Len(podWatch'[p]) : podWatch'[p][i].owner # r
      <3> DEFINE c == [owner |-> PodNow(p), tombstone |-> PodNow(p) = Absent]
      <3>1. /\ podWatch'[p] = IF podsIndexer[p] = PodNow(p) THEN <<>> ELSE <<c>>
            /\ UNCHANGED podsIndexer
        BY Zenon, <2>4 DEF PodRelist, ListChange, PodNow
      <3>2. PodNow(p) # r
        <4>1. w # <<>> => Len(w) \in 1 .. Len(w)
          OBVIOUS
        <4> QED
          BY Zenon, <2>1, <2>2, <4>1 DEF PodPath
      <3>3. c.owner # r
        BY Zenon, <3>2
      <3> HIDE DEF c
      <3>4. Len(<<c>>) = 1 /\ <<c>>[1] = c /\ Len(<<>>) = 0
        BY Zenon
      <3> QED
        BY <2>1, <3>1, <3>3, <3>4
    <2>5. ASSUME NEW q \in Pods, q # p, PodInformerStep(q)
          PROVE  podsIndexer'[p] = podsIndexer[p] /\ podWatch'[p] = podWatch[p]
      BY Zenon, <2>5 DEF PodInformerStep, TypeOK
    <2> QED
      BY Zenon, <2>1, <2>3, <2>4, <2>5
  <1> QED
    BY Zenon, <1>4 DEF StoredPodsOf, PodOnItsWay

\* Nor does the ReplicaSet handler, which keeps the entry of a deleted ReplicaSet as long as
\* a pod refers to it.
LEMMA DroppedAfterHandler ==
    ASSUME TypeOK, TypeOK', RSHandler, NEW r \in ReplicaSets, DroppedPart(r),
           RSWatchPart(r), RSEventPart(r), RSOwnerPart(r)
    PROVE  DroppedPart(r)'
  <1>1. UNCHANGED <<podsIndexer, podWatch, missed>> /\ lagging \subseteq lagging'
    BY Zenon DEF RSHandler, ClearRSDataIfPossible, index, podPath
  <1>2. CASE r # Head(rsEvents).rs
    BY Zenon, <1>1, <1>2, RSOtherHandled, DroppedKept
  <1>3. CASE r = Head(rsEvents).rs
    <2>1. SUFFICES ASSUME Drained(r)', rsIndexer'[r] = Absent, r \notin lagging', r \notin missed'
                   PROVE  StoredPodsOf(r) = {} /\ ~PodOnItsWay(r)
      BY Zenon, <1>1 DEF DroppedPart, StoredPodsOf, PodOnItsWay
    <2>2. RSOwnerPart(r)' /\ Head(rsEvents).owner = Absent
      BY Zenon, <1>3, <2>1, RSHandled
    <2>3. Head(rsEvents).tombstone => r \in missed
      <3>1. PICK n \in Nat, e \in RSNotifications :
              Len(rsEvents) = n + 1 /\ e = Head(rsEvents) /\ rsEvents[1] = e
        BY HeadHandled
      <3>2. 1 \in 1 .. Len(rsEvents)
        BY <3>1
      <3> QED
        BY Zenon, <1>3, <3>1, <3>2 DEF RSEventPart
    <2>4. r \in rsPendingDeletion' => rsIndexer'[r] # Absent
      <3>1. rsOwner'[r] # Absent
        BY OwnersArePresent DEF TypeOK
      <3>2. ~OwnerOnWatch(r)' /\ ~OwnerNotified(r)' /\ rsLife'[r] # "unborn"
        BY <2>1 DEF Drained, NoEvents, OwnerOnWatch, OwnerNotified
      <3> QED
        BY Zenon, <2>1, <2>2, <3>1, <3>2 DEF RSOwnerPart, EntryTellsOwner
    <2>5. \/ r \in rsPendingDeletion'
          \/ StoredPodsOf(r) = {} /\ (PodOnItsWay(r) => r \in lagging')
      BY Zenon, <1>1, <1>3, <2>1, <2>2, <2>3 DEF RSHandler, ClearRSDataIfPossible
    <2> QED
      BY Zenon, <2>1, <2>4, <2>5
  <1> QED
    BY Zenon, <1>2, <1>3

\* A ReplicaSet that was dropped is never needed again.
LEMMA DroppedStep ==
    ASSUME TypeOK, TypeOK', Next, NEW r \in ReplicaSets, DroppedPart(r), \A p \in Pods : PodPath(p),
           RSWatchPart(r), RSEventPart(r), RSOwnerPart(r)
    PROVE  DroppedPart(r)'
  <1>1. ASSUME NEW p \in Pods, \/ \E o \in PodOwners : CreatePod(p, o) \/ ReownPod(p, o)
                               \/ DeletePod(p)
        PROVE  DroppedPart(r)'
    BY Zenon, <1>1, DroppedAfterPodChange
  <1>2. ASSUME (\E p \in Pods : PodInformerStep(p)) \/ PodRelist
        PROVE  DroppedPart(r)'
    BY Zenon, <1>2, DroppedAfterInformer
  <1>3. ASSUME NEW s \in ReplicaSets,
               \/ \E d \in RSOwners : CreateReplicaSet(s, d) \/ ReownReplicaSet(s, d)
               \/ DeleteReplicaSet(s)
        PROVE  DroppedPart(r)'
    <2>1. CASE r = s
      <3>1. ~Drained(r)'
        BY Zenon, <1>3, <2>1, RSAfterChange
      <3> QED
        BY Zenon, <3>1 DEF DroppedPart
    <2>2. CASE r # s
      <3>1. /\ rsLife'[r] = rsLife[r] /\ rsWatch'[r] = rsWatch[r]
            /\ UNCHANGED <<rsEvents, rsIndexer, lagging, missed, podsIndexer, podWatch>>
        BY Zenon, <1>3, <2>2 DEF CreateReplicaSet, ReownReplicaSet, DeleteReplicaSet, index,
           podPath, TypeOK
      <3>2. Drained(r)' <=> Drained(r)
        BY Zenon, <3>1 DEF Drained, NoEvents
      <3> QED
        BY Zenon, <3>1, <3>2, DroppedKept
    <2> QED
      BY Zenon, <2>1, <2>2
  <1>4. ASSUME NEW s \in ReplicaSets, RSInformerStep(s)
        PROVE  DroppedPart(r)'
    <2>1. Drained(r)' => Drained(r)
      BY Zenon, <1>4, RSQueued, RSOtherQueued
    <2>2. UNCHANGED <<rsIndexer, lagging, missed, podsIndexer, podWatch>>
      BY Zenon, <1>4 DEF RSInformerStep, index, podPath
    <2> QED
      BY Zenon, <2>1, <2>2, DroppedKept
  <1>5. ASSUME RSHandler
        PROVE  DroppedPart(r)'
    BY Zenon, <1>5, DroppedAfterHandler
  <1>6. ASSUME RSRelist
        PROVE  DroppedPart(r)'
    <2>1. /\ UNCHANGED <<rsIndexer, lagging, podsIndexer, podWatch>>
          /\ missed \subseteq missed'
      BY Zenon, <1>6 DEF RSRelist, index, podPath
    <2>2. Drained(r)' => Drained(r) \/ r \in missed'
      BY Zenon, <1>6, RSListed
    <2> QED
      BY Zenon, <2>1, <2>2, DroppedKept
  <1>7. ASSUME PodHandler
        PROVE  DroppedPart(r)'
    <2>1. UNCHANGED <<podsIndexer, podWatch, missed>>
      BY Zenon, <1>7 DEF PodHandler
    <2>2. /\ Drained(r)' <=> Drained(r)
          /\ \/ rsIndexer'[r] = rsIndexer[r]
             \/ StoredPodsOf(r) = {} /\ (PodOnItsWay(r) => r \in lagging')
          /\ lagging \subseteq lagging'
      BY Zenon, <1>7, RSDropped
    <2> QED
      BY Zenon, <2>1, <2>2, DroppedKept DEF DroppedPart, StoredPodsOf, PodOnItsWay
  <1> QED
    BY Zenon, <1>1, <1>2, <1>3, <1>4, <1>5, <1>6, <1>7 DEF Next

\* IndexInv, the path of every object from the API server through its informer to the index,
\* holds throughout.
THEOREM IndexInductive == Spec => []IndexInv
  <1>1. Init => IndexInv
    <2> SUFFICES ASSUME Init
                 PROVE  IndexInv
      BY Zenon
    <2>1. ASSUME NEW p \in Pods
          PROVE  PodPath(p)
      BY Zenon, UIDAssumption DEF Init, PodPath, PodNow
    <2>2. ASSUME NEW r \in ReplicaSets
          PROVE  RSWatchPart(r) /\ RSEventPart(r) /\ RSOwnerPart(r) /\ DroppedPart(r)
      <3>1. /\ rsLife[r] = "unborn" /\ rsWatch[r] = <<>> /\ rsEvents = <<>> /\ rsStore[r] = Absent
            /\ rsIndexer[r] = Absent /\ rsPendingDeletion = {}
        BY Zenon DEF Init
      <3>2. NoEvents(r) /\ ~Drained(r)
        BY <3>1 DEF NoEvents, Drained
      <3>3. 1 .. Len(<<>>) = {}
        OBVIOUS
      <3>4. RSWatchPart(r) /\ RSOwnerPart(r) /\ DroppedPart(r)
        BY Zenon, <3>1, <3>2, <3>3 DEF RSWatchPart, RSOwnerPart, DroppedPart, RSNow
      <3>5. RSEventPart(r)
        BY Zenon, <3>1, <3>2, <3>3 DEF RSEventPart
      <3> QED
        BY Zenon, <3>4, <3>5
    <2> QED
      BY Zenon, <2>1, <2>2 DEF IndexInv
  <1>2. TypeOK /\ TypeOK' /\ IndexInv /\ [Next]_vars => IndexInv'
    <2> SUFFICES ASSUME TypeOK, TypeOK', IndexInv, [Next]_vars
                 PROVE  IndexInv'
      BY Zenon
    <2>1. CASE Next
      <3>1. ASSUME NEW p \in Pods
            PROVE  PodPath(p)'
        BY Zenon, <2>1, PodPathStep DEF IndexInv
      <3>2. ASSUME NEW r \in ReplicaSets
            PROVE  RSWatchPart(r)' /\ RSEventPart(r)' /\ RSOwnerPart(r)'
        BY Zenon, <2>1, RSStep DEF IndexInv
      <3>3. ASSUME NEW r \in ReplicaSets
            PROVE  DroppedPart(r)'
        BY Zenon, <2>1, DroppedStep DEF IndexInv
      <3> QED
        BY Zenon, <3>1, <3>2, <3>3 DEF IndexInv
    <2>2. CASE UNCHANGED vars
      <3>1. /\ UNCHANGED <<podLife, podOwner, rsLife, rsOwner, podWatch, podsIndexer, rsWatch>>
            /\ UNCHANGED <<rsStore, rsEvents, rsIndexer, rsPendingDeletion, lagging, missed>>
        BY Zenon, <2>2 DEF vars, server, podPath, rsPath, index
      <3>2. ASSUME NEW p \in Pods
            PROVE  PodPath(p)'
        BY Zenon, <3>1, PodKept DEF IndexInv
      <3>3. ASSUME NEW r \in ReplicaSets
            PROVE  RSWatchPart(r)' /\ RSEventPart(r)' /\ RSOwnerPart(r)' /\ DroppedPart(r)'
        <4>1. RSWatchPart(r) /\ RSEventPart(r) /\ RSOwnerPart(r) /\ DroppedPart(r)
          BY Zenon DEF IndexInv
        <4>2. /\ RSWatchPart(r)' /\ RSEventPart(r)' /\ RSOwnerPart(r)'
              /\ Drained(r)' <=> Drained(r)
          BY Zenon, <3>1, <4>1, RSKept
        <4> QED
          BY Zenon, <3>1, <4>1, <4>2, DroppedKept
      <3> QED
        BY Zenon, <3>2, <3>3 DEF IndexInv
    <2> QED
      BY Zenon, <2>1, <2>2
  <1> QED
    BY <1>1, <1>2, TypeCorrect, PTL DEF Spec

\* clearRSDataIfPossibleLocked never drops a ReplicaSet too early: a pod in the store can be
\* traced to its Deployment also after its ReplicaSet is deleted, unless the pod informer was
\* behind when the entry went, or a relist hid the deletion.
THEOREM Traceable == Spec => []PodsStayTraceable
  <1>1. TypeOK /\ IndexInv => PodsStayTraceable
    <2> SUFFICES ASSUME IndexInv, NEW p \in Pods, podsIndexer[p] \in ReplicaSets,
                        rsLife[podsIndexer[p]] = "dead", rsWatch[podsIndexer[p]] = <<>>,
                        \A i \in 1 .. Len(rsEvents) : rsEvents[i].rs # podsIndexer[p],
                        rsIndexer[podsIndexer[p]] = Absent
                 PROVE  podsIndexer[p] \in lagging \cup missed
      BY Zenon DEF PodsStayTraceable
    <2>1. PICK r \in ReplicaSets : r = podsIndexer[p]
      BY Zenon
    <2>2. Drained(r) /\ p \in StoredPodsOf(r)
      BY Zenon, <2>1 DEF Drained, NoEvents, StoredPodsOf
    <2> QED
      BY Zenon, <2>1, <2>2 DEF IndexInv, DroppedPart
  <1> QED
    BY <1>1, TypeCorrect, IndexInductive, PTL

\* PodsControlledBy is right for a Deployment once everything is delivered, in whatever order
\* the two informers delivered it: the pods it returns are those the API server has.
THEOREM LookupIsRight == Spec => []LookupExact
  <1>1. TypeOK /\ IndexInv => LookupExact
    <2> SUFFICES ASSUME TypeOK, IndexInv, Quiescent, lagging = {}, missed = {}, NEW d \in Deployments
                 PROVE  PodsControlledBy(d) = PodsOfDeployment(d)
      BY Zenon DEF LookupExact
    <2>1. ASSUME NEW p \in Pods
          PROVE  /\ podsIndexer[p] = PodNow(p)
                 /\ podOwner[p] \in ReplicaSets => rsLife[podOwner[p]] # "unborn"
      BY Zenon DEF IndexInv, PodPath, Quiescent
    <2>2. ASSUME NEW r \in ReplicaSets, rsLife[r] # "unborn", StoredPodsOf(r) # {}
          PROVE  rsIndexer[r] = rsOwner[r]
      <3>1. RSOwnerPart(r) /\ DroppedPart(r) /\ rsWatch[r] = <<>> /\ rsEvents = <<>>
        BY Zenon DEF IndexInv, Quiescent
      <3>2. ~OwnerOnWatch(r) /\ ~OwnerNotified(r)
        BY <3>1 DEF OwnerOnWatch, OwnerNotified
      <3> QED
        BY Zenon, <2>2, <3>1, <3>2 DEF RSOwnerPart, EntryTellsOwner, DroppedPart
    <2>3. ASSUME NEW p \in Pods, p \in PodsControlledBy(d)
          PROVE  p \in PodsOfDeployment(d)
      <3>1. PICK r \in ReplicaSets : rsIndexer[r] = d /\ podsIndexer[p] = r
        BY Zenon, <2>3 DEF PodsControlledBy, StoredPodsOf
      <3>2. podLife[p] = "live" /\ podOwner[p] = r
        BY Zenon, <2>1, <3>1, UIDAssumption DEF PodNow
      <3>3. rsIndexer[r] = rsOwner[r]
        BY Zenon, <2>1, <2>2, <3>1, <3>2 DEF StoredPodsOf
      <3> QED
        BY Zenon, <3>1, <3>2, <3>3 DEF PodsOfDeployment
    <2>4. ASSUME NEW p \in Pods, p \in PodsOfDeployment(d)
          PROVE  p \in PodsControlledBy(d)
      <3>1. PICK r \in ReplicaSets : podLife[p] = "live" /\ podOwner[p] = r /\ rsOwner[r] = d
        BY Zenon, <2>4 DEF PodsOfDeployment
      <3>2. podsIndexer[p] = r /\ rsLife[r] # "unborn"
        BY Zenon, <2>1, <3>1 DEF PodNow
      <3>3. rsIndexer[r] = d
        BY Zenon, <2>2, <3>1, <3>2 DEF StoredPodsOf
      <3> QED
        BY <3>2, <3>3 DEF PodsControlledBy, StoredPodsOf
    <2>5. PodsControlledBy(d) \subseteq Pods /\ PodsOfDeployment(d) \subseteq Pods
      BY Zenon DEF PodsControlledBy, PodsOfDeployment, StoredPodsOf
    <2> QED
      BY Zenon, <2>3, <2>4, <2>5
  <1> QED
    BY <1>1, TypeCorrect, IndexInductive, PTL

\* rsIndexer does not grow with the ReplicaSets a test goes through: once everything is
\* delivered, an entry is that of a live ReplicaSet or of one that a pod refers to.
THEOREM NoLeak == Spec => []NothingLeaks
  <1>1. TypeOK /\ IndexInv /\ PendingHasReason => NothingLeaks
    <2> SUFFICES ASSUME TypeOK, IndexInv, PendingHasReason, Quiescent, missed = {},
                        NEW r \in ReplicaSets, rsIndexer[r] # Absent, rsLife[r] # "live"
                 PROVE  StoredPodsOf(r) # {}
      BY Zenon DEF NothingLeaks
    <2>1. /\ RSWatchPart(r) /\ RSOwnerPart(r) /\ rsWatch[r] = <<>> /\ rsEvents = <<>>
          /\ podEvents = <<>>
      BY Zenon DEF IndexInv, Quiescent
    <2>2. ~OwnerOnWatch(r) /\ ~OwnerNotified(r) /\ ~WillBeCleared(r) /\ NoEvents(r)
      BY <2>1 DEF OwnerOnWatch, OwnerNotified, WillBeCleared, NoEvents
    <2>3. rsLife[r] = "dead"
      BY Zenon, <2>1 DEF RSWatchPart, TypeOK, Life
    <2>4. Drained(r)
      BY Zenon, <2>1, <2>2, <2>3 DEF Drained
    <2>5. r \in rsPendingDeletion
      BY Zenon, <2>1, <2>2, <2>3, <2>4 DEF RSOwnerPart, EntryTellsOwner
    <2> QED
      BY Zenon, <2>2, <2>5 DEF PendingHasReason
  <1> QED
    BY <1>1, TypeCorrect, IndexInductive, PendingIsJustified, PTL

=============================================================================
