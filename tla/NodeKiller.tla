------------------------------- MODULE NodeKiller -------------------------------
(***************************************************************************)
(* pkg/chaos/nodes.go and monkey.go under the measurement that starts and  *)
(* stops them, pkg/measurement/common/chaos_monkey_measurement.go.  Each   *)
(* start makes a new stop channel and a new killer; all killers share one  *)
(* set of killed nodes, which is handed from start to start.               *)
(***************************************************************************)
EXTENDS Integers, FiniteSets

CONSTANTS
    Nodes,              \* schedulable, untainted nodes
    PrometheusNodes,    \* those that run a Prometheus pod
    Limit(_),           \* ceil(FailureRate * n) for n candidates
    Killers             \* the starts of the measurement, 1 .. n

ASSUME KillersAssumption == Killers \subseteq Nat

VARIABLES
    channel,        \* c.stopChannel: "nil", "open" or "closed"
    current,        \* the killer of the last successful start, 0 if there is none
    call,           \* "idle", "stop" (waiting for the killer) or "crashed"
    killedNodes,
    run,            \* where the goroutine of each killer is
    stopped,        \* killers whose channel is closed
    chosen,         \* the nodes of a killer's round that are not yet inserted
    victim,         \* the goroutine of each node in a killer's round
    failures,       \* history: how often the services of a node were stopped
    overlapped      \* history: a start found the killer of an earlier start alive

measurement == <<channel, current, call, stopped, overlapped>>
round == <<chosen, victim, killedNodes, failures>>
vars == <<measurement, round, run>>

Init ==
    /\ channel = "nil" /\ current = 0 /\ call = "idle" /\ overlapped = FALSE
    /\ killedNodes = {} /\ stopped = {}
    /\ run = [k \in Killers |-> "unborn"]
    /\ chosen = [k \in Killers |-> {}]
    /\ victim = [k \in Killers |-> [n \in Nodes |-> "none"]]
    /\ failures = [n \in Nodes |-> 0]

Alive(k) == run[k] \notin {"unborn", "ended"}

-----------------------------------------------------------------------------
\* Execute "start".  A start without a stop drops the channel of the killer
\* before it, which nobody can close any more.  The provider supports node killers
\* in all starts or in none.
Start(k) ==
    /\ call = "idle" /\ (channel = "closed" => current # 0)
    /\ run[k] = "unborn" /\ \A j \in Killers : j < k => run[j] # "unborn"
    /\ channel' = "open" /\ current' = k
    /\ run' = [run EXCEPT ![k] = "asleep"]
    /\ overlapped' = (overlapped \/ \E j \in Killers : Alive(j))
    /\ UNCHANGED <<round, call, stopped>>

\* NewNodeKiller refuses the provider: the new channel is closed at once.
StartRefused ==
    /\ call = "idle" /\ current = 0
    /\ channel' = "closed"
    /\ UNCHANGED <<round, run, current, call, stopped, overlapped>>

\* Execute "stop"; closing a nil or a closed channel panics.
Stop ==
    /\ call = "idle"
    /\ IF channel = "open"
       THEN channel' = "closed" /\ stopped' = stopped \cup {current} /\ call' = "stop"
       ELSE call' = "crashed" /\ UNCHANGED <<channel, stopped>>
    /\ UNCHANGED <<round, run, current, overlapped>>

\* Faulty variant: the killer is not waited for.
StopReturns_NoWait ==
    /\ call = "stop"
    /\ call' = "idle"
    /\ UNCHANGED <<round, run, channel, current, stopped, overlapped>>

\* wg.Wait() has returned; c.killedNodes is the same set as before.
StopReturns ==
    /\ call = "stop" /\ run[current] = "ended"
    /\ call' = "idle"
    /\ UNCHANGED <<round, run, channel, current, stopped, overlapped>>

-----------------------------------------------------------------------------
\* Faulty variant: the channel is not looked at.
Wake_Ignores(k) ==
    /\ run[k] = "asleep"
    /\ run' = [run EXCEPT ![k] = "picking"]
    /\ UNCHANGED <<measurement, round>>

\* Run: the first sleep and the waits of JitterUntil; the channel is looked at
\* before each round.
Wake(k) ==
    /\ run[k] = "asleep"
    /\ run' = [run EXCEPT ![k] = IF k \in stopped THEN "ended" ELSE "picking"]
    /\ UNCHANGED <<measurement, round>>

\* Faulty variant: the killed nodes are candidates again.
pickNodes_Forgets(k) ==
    LET nodes == Nodes \ PrometheusNodes
    IN  {S \in SUBSET nodes : \/ Cardinality(S) = Limit(Cardinality(nodes))
                              \/ S = nodes /\ Cardinality(S) < Limit(Cardinality(nodes))}

\* The sets pickNodes may return: candidates in any order, cut off at the limit.
pickNodes(k) ==
    LET nodes == Nodes \ (PrometheusNodes \cup killedNodes)
    IN  {S \in SUBSET nodes : \/ Cardinality(S) = Limit(Cardinality(nodes))
                              \/ S = nodes /\ Cardinality(S) < Limit(Cardinality(nodes))}

\* The round: a list that fails ends it.
Pick(k) ==
    /\ run[k] = "picking"
    /\ \/ /\ run' = [run EXCEPT ![k] = "killing"]
          /\ chosen' \in {[chosen EXCEPT ![k] = S] : S \in pickNodes(k)}
       \/ run' = [run EXCEPT ![k] = "asleep"] /\ UNCHANGED chosen
    /\ UNCHANGED <<measurement, killedNodes, victim, failures>>

\* The loop of kill: the node is inserted and its goroutine started.
Insert(k, n) ==
    /\ run[k] = "killing" /\ n \in chosen[k]
    /\ killedNodes' = killedNodes \cup {n}
    /\ chosen' = [chosen EXCEPT ![k] = @ \ {n}]
    /\ victim' = [victim EXCEPT ![k][n] = "begun"]
    /\ UNCHANGED <<measurement, run, failures>>

\* The goroutine of a node: services are stopped; if that fails it returns,
StopServices(k, n) ==
    /\ victim[k][n] = "begun"
    /\ \/ victim' = [victim EXCEPT ![k][n] = "down"]
       \/ victim' = [victim EXCEPT ![k][n] = "none"]
    /\ failures' = [failures EXCEPT ![n] = @ + 1]
    /\ UNCHANGED <<measurement, run, killedNodes, chosen>>

\* and after the downtime, or as soon as the channel is closed, the node reboots.
Reboot(k, n) ==
    /\ victim[k][n] = "down"
    /\ victim' = [victim EXCEPT ![k][n] = "none"]
    /\ UNCHANGED <<measurement, run, killedNodes, chosen, failures>>

RoundEnds(k) ==
    /\ run[k] = "killing" /\ chosen[k] = {} /\ \A n \in Nodes : victim[k][n] = "none"
    /\ run' = [run EXCEPT ![k] = "asleep"]
    /\ UNCHANGED <<measurement, round>>

KillerStep(k) ==
    \/ Wake(k) \/ Pick(k) \/ RoundEnds(k)
    \/ \E n \in Nodes : Insert(k, n) \/ StopServices(k, n) \/ Reboot(k, n)

Next ==
    \/ StartRefused \/ Stop \/ StopReturns
    \/ \E k \in Killers : Start(k) \/ KillerStep(k)

\* The goroutines run, ssh calls return and time passes.
Fairness ==
    /\ WF_vars(StopReturns)
    /\ \A k \in Killers : WF_vars(KillerStep(k))

Spec == Init /\ [][Next]_vars /\ Fairness

-----------------------------------------------------------------------------
TypeOK ==
    /\ channel \in {"nil", "open", "closed"} /\ current \in Killers \cup {0}
    /\ call \in {"idle", "stop", "crashed"} /\ overlapped \in BOOLEAN
    /\ killedNodes \subseteq Nodes /\ stopped \subseteq Killers
    /\ run \in [Killers -> {"unborn", "asleep", "picking", "killing", "ended"}]
    /\ chosen \in [Killers -> SUBSET Nodes]
    /\ victim \in [Killers -> [Nodes -> {"none", "begun", "down"}]]
    /\ failures \in [Nodes -> Nat]

\* "the set of nodes which shouldn't be restarted again" (monkey.go:70): over all
\* rounds and all starts of the measurement no node is made to fail twice,
\* unless a start overlapped with the killer of an earlier one: that one may
\* have picked a node it has not yet inserted into the shared set.
NodeFailsOnce == ~overlapped => \A n \in Nodes : failures[n] <= 1

\* When "stop" has returned no node is left down by the killer it stopped (its
\* reboot has been tried), and without overlapping starts no killer is alive.
StopLeavesNobodyDown ==
    call = "idle" /\ channel = "closed" /\ current # 0 =>
        /\ \A n \in Nodes : victim[current][n] = "none"
        /\ ~overlapped => \A k \in Killers : ~Alive(k)

-----------------------------------------------------------------------------
\* A killer is a chaos monkey.
Doing(k) ==
    IF run[k] = "unborn" THEN "off"
    ELSE IF run[k] = "asleep" THEN "sleeping"
    ELSE IF run[k] = "ended" THEN "ended" ELSE "striking"

Monkey == INSTANCE ChaosMonkey
    WITH Monkeys <- Killers, monkey <- [k \in Killers |-> Doing(k)]

\* The killers, however their starts and stops overlap, are chaos monkeys: none
\* begins a round once its channel is closed, none ends in the middle of a round,
\* every round ends, and a killer whose channel is closed ends.
ImplementsMonkey == Monkey!Spec
=============================================================================
