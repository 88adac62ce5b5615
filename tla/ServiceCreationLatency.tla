------------------------ MODULE ServiceCreationLatency ------------------------
(***************************************************************************)
(* pkg/measurement/common/service_creation_latency.go with the worker queue*)
(* and the checker map it uses: informer events of services and ingresses  *)
(* are handled by a pool of workers; a handler pings the new address itself*)
(* and registers its checker afterwards.                                   *)
(***************************************************************************)
EXTENDS Integers, Sequences, FiniteSets, TLC

CONSTANTS
    Services,       \* services and ingresses, by key
    Assigned,       \* those whose address is assigned later: LoadBalancer, Ingress
    Workers,        \* workers of the queue
    pingChecks,     \* consecutive successful pings that make a service reachable
    MaxEvents       \* bound: events the informer delivers

VARIABLE
    st              \* fields of the measurement, its queue and workers, the cluster

Phases == {"creating", "ipAssigning", "reachability", "deleting", "deleted"}
Idle == [at |-> "idle"]

Init ==
    st = [isRunning |-> FALSE, closed |-> FALSE,   \* queue.ShutDown was called
          queue |-> <<>>,
          worker |-> [w \in Workers |-> Idle],
          times |-> [p \in Phases |-> {}],          \* keys with an entry of creationTimes
          pingCheckers |-> << >>,                   \* key -> the event whose checker it is
          call |-> "idle",
          service |-> [s \in Services |-> "absent"],\* the cluster
          events |-> 0,
          overtaken |-> {}]                         \* history: deleted before created

-----------------------------------------------------------------------------
\* The cluster, and the informer's handler that queues its events.  A deletion
\* may be seen with or without a DeletionTimestamp.
Deliver(s, state, task) ==
    st' = [st EXCEPT !.service[s] = state, !.events = @ + 1,
                     !.queue = IF st.closed THEN @ ELSE Append(@, task @@ [id |-> st.events])]

ClusterEvent(s) ==
    /\ st.isRunning /\ st.events < MaxEvents
    /\ \/ /\ st.service[s] = "absent"
          /\ Deliver(s, "created", [key |-> s, kind |-> "update", ready |-> s \notin Assigned])
       \/ /\ st.service[s] \in {"created", "assigned"}
          /\ Deliver(s, "assigned", [key |-> s, kind |-> "update", ready |-> TRUE])
       \/ /\ st.service[s] \in {"created", "assigned"}
          /\ \E stamped \in BOOLEAN :
                 Deliver(s, "deleted", [key |-> s, kind |-> "delete", ready |-> stamped])

\* A second start is a no-op; an informer that does not sync leaves isRunning set.
start ==
    /\ st.call = "idle" /\ ~st.isRunning /\ ~st.closed
    /\ st' = [st EXCEPT !.isRunning = TRUE]

-----------------------------------------------------------------------------
\* WorkerQueue.worker: after ShutDown the queue is drained.
Dequeue(w) ==
    /\ st.worker[w] = Idle /\ st.queue # <<>>
    /\ st' = [st EXCEPT !.queue = Tail(@), !.worker[w] = [at |-> "handle", task |-> Head(st.queue)]]

\* deleteObject, under the lock: nothing is recorded without a DeletionTimestamp.
deleteObject(w, s, stamped) ==
    st' = [st EXCEPT !.worker[w] = Idle,
                     !.times = IF stamped THEN [@ EXCEPT !["deleting"] = @ \cup {s}, !["deleted"] = @ \cup {s}]
                               ELSE @,
                     !.pingCheckers = IF stamped THEN [k \in DOMAIN @ \ {s} |-> @[k]] ELSE @,
                     !.overtaken = IF stamped /\ s \notin st.times["creating"] THEN @ \cup {s} ELSE @]

\* The part of updateObject before pc.run(), which takes no lock: creating is set
\* once; a cluster address is pinged on each update, an assigned one if there is
\* no time of its assignment yet, which is set afterwards.
updateObject(w, s, ready) ==
    LET ping == [at |-> "ping", task |-> st.worker[w].task, success |-> 0]
    IN  st' = [st EXCEPT !.times["creating"] = @ \cup {s},
                         !.worker[w] = IF ~ready \/ s \in Assigned \cap st.times["ipAssigning"] THEN Idle
                                       ELSE IF s \in Assigned THEN [ping EXCEPT !.at = "assign"]
                                       ELSE ping]

SetAssigned(w) ==
    /\ st.worker[w].at = "assign"
    /\ st' = [st EXCEPT !.worker[w].at = "ping",
                        !.times["ipAssigning"] = @ \cup {st.worker[w].task.key}]

Handle(w) ==
    LET t == st.worker[w].task
    IN  /\ st.worker[w].at = "handle"
        /\ \/ ~st.isRunning /\ st' = [st EXCEPT !.worker[w] = Idle]
           \/ st.isRunning /\ t.kind = "delete" /\ deleteObject(w, t.key, t.ready)
           \/ st.isRunning /\ t.kind = "update" /\ updateObject(w, t.key, t.ready)

\* A round of pingChecker.run.  Nobody else knows the checker yet, so its stopCh
\* cannot be closed.  A ping of a deleted service fails.
Ping(w) ==
    /\ st.worker[w].at = "ping"
    /\ LET t == st.worker[w].task
       IN  \/ st' = [st EXCEPT !.worker[w].success = 0]
           \/ /\ st.service[t.key] # "deleted"
              /\ st' = IF st.worker[w].success + 1 < pingChecks
                       THEN [st EXCEPT !.worker[w].success = @ + 1]
                       ELSE [st EXCEPT !.worker[w] = [at |-> "add", task |-> t],
                                       !.times["reachability"] = @ \cup {t.key}]

\* The end of updateObject, under the lock: Add stops an older checker of the key.
AddChecker(w) ==
    /\ st.worker[w].at = "add"
    /\ LET t == st.worker[w].task
       IN  st' = [st EXCEPT !.worker[w] = Idle,
                            !.pingCheckers = [k \in DOMAIN @ \cup {t.key} |->
                                                IF k = t.key THEN t.id ELSE @[k]]]

-----------------------------------------------------------------------------
\* Faulty variant: both waits look at reachability, over all types.
CountsAgree_Reachable(phase) ==
    Cardinality(st.times["reachability"]) = Cardinality(st.times["creating"])

\* The condition both waits poll for: the counts of two phases, for each type.
CountsAgree(phase) ==
    \A type \in {Assigned, Services \ Assigned} :
        Cardinality(st.times[phase] \cap type) = Cardinality(st.times["creating"] \cap type)

waitForReady ==
    /\ st.call = "idle" /\ ~st.closed /\ CountsAgree("reachability")
    /\ st' = [st EXCEPT !.call = "ready"]

waitForDeletion ==
    /\ st.call = "idle" /\ ~st.closed /\ CountsAgree("deleted")
    /\ st' = [st EXCEPT !.call = "deleted"]

\* The call returned; the test goes on.
Proceed ==
    /\ st.call \in {"ready", "deleted"}
    /\ st' = [st EXCEPT !.call = "idle"]

\* Dispose: queue.Stop() shuts the queue down and waits for the workers.
Dispose ==
    /\ st.call = "idle" /\ ~st.closed
    /\ st' = [st EXCEPT !.isRunning = FALSE, !.closed = TRUE, !.call = "dispose"]

Disposed ==
    /\ st.call = "dispose" /\ st.queue = <<>> /\ \A w \in Workers : st.worker[w] = Idle
    /\ st' = [st EXCEPT !.call = "disposed"]

Next ==
    \/ start \/ waitForReady \/ waitForDeletion \/ Proceed \/ Dispose \/ Disposed
    \/ \E s \in Services : ClusterEvent(s)
    \/ \E w \in Workers : Dequeue(w) \/ Handle(w) \/ SetAssigned(w) \/ Ping(w) \/ AddChecker(w)

-----------------------------------------------------------------------------
\* "waitForDeletion" waits until all services are deleted: when it returns, each
\* service whose creation was recorded is deleted, unless another worker handled
\* some deletion before the creation of the same service was recorded, which
\* makes the counts agree by accident.
DeletionWaitIsSound ==
    st.call # "deleted" /\ st'.call = "deleted" =>
        \/ \A s \in st.times["creating"] : st.service[s] = "deleted"
        \/ st.overtaken # {}

\* The checker map never holds a checker that is still running: a checker is
\* added only when its run has returned.  So neither DeleteAndStop nor Dispose
\* ever stops one, and Dispose waits for each ping loop to end by itself.
RegisteredCheckersAreDone ==
    \A s \in DOMAIN st.pingCheckers, w \in Workers :
        st.worker[w].at = "ping" => st.worker[w].task.id # st.pingCheckers[s]

\* The waits for the services and for their checkers: both of the above.
ServiceWaitsAreSound == DeletionWaitIsSound /\ RegisteredCheckersAreDone
=============================================================================
