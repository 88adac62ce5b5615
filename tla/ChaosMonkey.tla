------------------------------ MODULE ChaosMonkey ------------------------------
(***************************************************************************)
(* What a user of pkg/chaos relies on.  A monkey that has been started     *)
(* alternates between sleeping and rounds of failures; it begins no round  *)
(* once its stop channel is closed, ends only then, and never in a round.  *)
(***************************************************************************)
CONSTANT
    Monkeys

VARIABLES
    monkey,         \* what each monkey does
    stopped         \* monkeys whose stop channel is closed

vars == <<monkey, stopped>>

Init ==
    /\ monkey = [m \in Monkeys |-> "off"]
    /\ stopped = {}

Become(m, from, to) ==
    /\ monkey[m] = from
    /\ monkey' = [monkey EXCEPT ![m] = to]
    /\ UNCHANGED stopped

Begin(m) == Become(m, "off", "sleeping")

Strike(m) == m \notin stopped /\ Become(m, "sleeping", "striking")

Repair(m) == Become(m, "striking", "sleeping")

End(m) == m \in stopped /\ Become(m, "sleeping", "ended")

Stop(m) ==
    /\ stopped' = stopped \cup {m}
    /\ UNCHANGED monkey

Next == \E m \in Monkeys : Begin(m) \/ Strike(m) \/ Repair(m) \/ End(m) \/ Stop(m)

\* What a monkey may do, and that it does it: a round ends with the repair of what
\* it broke, and the closed channel is noticed.
Safe == Init /\ [][Next]_vars
Spec == Safe /\ \A m \in Monkeys : WF_vars(Repair(m)) /\ WF_vars(End(m))
=============================================================================
