--------------------------- MODULE NodeKillerProofs ---------------------------
(***************************************************************************)
(* For any set of nodes, any failure rate and any number of starts: no     *)
(* node is made to fail twice, "stop" leaves nobody down, and the killers  *)
(* are chaos monkeys.                                                      *)
(***************************************************************************)
EXTENDS NodeKiller, TLAPS

\* Without overlapping starts at most one killer is alive, and it is the current
\* one unless a start was refused since.
Alone ==
    ~overlapped =>
        /\ \A j, k \in Killers : Alive(j) /\ Alive(k) => j = k
        /\ \A j \in Killers : Alive(j) /\ current # 0 => j = current

\* Only a killer in a round has nodes in its hands.
Rounds ==
    \A k \in Killers :
        run[k] # "killing" => chosen[k] = {} /\ \A n \in Nodes : victim[k][n] = "none"

\* Without overlapping starts the set of killed nodes is up to date: what is
\* chosen is not in it, and what is not in it was never touched.
Marked ==
    ~overlapped =>
        /\ \A k \in Killers, n \in Nodes : n \in chosen[k] => n \notin killedNodes
        /\ \A n \in Nodes : n \notin killedNodes =>
               failures[n] = 0 /\ \A k \in Killers : victim[k][n] = "none"
        /\ \A k \in Killers, n \in Nodes : victim[k][n] = "begun" => failures[n] = 0
        /\ \A n \in Nodes : failures[n] <= 1

\* An open channel is that of the current killer; after "stop" that one has ended.
Channel ==
    /\ channel = "open" => current \in Killers
    /\ call = "stop" => current \in Killers
    /\ call = "idle" /\ channel = "closed" /\ current # 0 => run[current] = "ended"

\* The inductive invariant.
IInv == TypeOK /\ Alone /\ Rounds /\ Marked /\ Channel

\* The invariant holds before the first call.
LEMMA InitIInv == Init => IInv
<1> SUFFICES ASSUME Init PROVE IInv
    OBVIOUS
<1>1. TypeOK
    BY DEF Init, TypeOK
<1>2. Alone
    BY DEF Init, Alone, Alive
<1>3. Rounds
    BY DEF Init, Rounds
<1>4. Marked
    BY DEF Init, Marked
<1>5. Channel
    BY DEF Init, Channel
<1> QED
    BY <1>1, <1>2, <1>3, <1>4, <1>5 DEF IInv

\* No step of a killer or of the measurement breaks the type invariant.
LEMMA TypeStep == TypeOK /\ Channel /\ [Next]_vars => TypeOK'
<1> SUFFICES ASSUME TypeOK, Channel, [Next]_vars PROVE TypeOK'
    OBVIOUS
<1>1. CASE StartRefused
    BY <1>1 DEF StartRefused, TypeOK, round
<1>2. CASE Stop
    BY <1>2 DEF Stop, TypeOK, round, Channel
<1>3. CASE StopReturns
    BY <1>3 DEF StopReturns, TypeOK, round
<1>4. ASSUME NEW k \in Killers, Start(k) PROVE TypeOK'
    BY <1>4 DEF Start, TypeOK, round
<1>5. ASSUME NEW k \in Killers, Wake(k) PROVE TypeOK'
    BY <1>5 DEF Wake, TypeOK, round, measurement
<1>6. ASSUME NEW k \in Killers, Pick(k) PROVE TypeOK'
    BY <1>6 DEF Pick, pickNodes, TypeOK, round, measurement
<1>7. ASSUME NEW k \in Killers, RoundEnds(k) PROVE TypeOK'
    BY <1>7 DEF RoundEnds, TypeOK, round, measurement
<1>8. ASSUME NEW k \in Killers, NEW n \in Nodes, Insert(k, n) PROVE TypeOK'
    BY <1>8 DEF Insert, TypeOK, measurement
<1>9. ASSUME NEW k \in Killers, NEW n \in Nodes, StopServices(k, n) PROVE TypeOK'
    BY <1>9 DEF StopServices, TypeOK, measurement
<1>10. ASSUME NEW k \in Killers, NEW n \in Nodes, Reboot(k, n) PROVE TypeOK'
    BY <1>10 DEF Reboot, TypeOK, measurement
<1>11. CASE UNCHANGED vars
    BY <1>11 DEF TypeOK, vars, measurement, round
<1> QED
    BY <1>1, <1>2, <1>3, <1>4, <1>5, <1>6, <1>7, <1>8, <1>9, <1>10, <1>11 DEF Next, KillerStep


\* Start makes a killer only when the last one has ended, or sets overlapped.
LEMMA AloneStep == IInv /\ [Next]_vars => Alone'
<1> SUFFICES ASSUME IInv, [Next]_vars, ~overlapped' PROVE
        /\ \A j, k \in Killers : Alive(j)' /\ Alive(k)' => j = k
        /\ \A j \in Killers : Alive(j)' /\ current' # 0 => j = current'
    BY DEF Alone, Alive
<1> USE DEF IInv, TypeOK, Alone, Alive
<1>1. CASE StartRefused
    BY <1>1 DEF StartRefused, round
<1>2. CASE Stop
    BY <1>2 DEF Stop, round
<1>3. CASE StopReturns
    BY <1>3 DEF StopReturns, round
<1>4. ASSUME NEW k \in Killers, Start(k)
      PROVE  /\ \A i, j \in Killers : Alive(i)' /\ Alive(j)' => i = j
             /\ \A j \in Killers : Alive(j)' /\ current' # 0 => j = current'
    <2>1. \A j \in Killers : ~Alive(j)
        BY <1>4 DEF Start
    <2> QED
        BY <1>4, <2>1 DEF Start
<1>5. ASSUME NEW k \in Killers, Wake(k) \/ Pick(k) \/ RoundEnds(k)
      PROVE  /\ \A i, j \in Killers : Alive(i)' /\ Alive(j)' => i = j
             /\ \A j \in Killers : Alive(j)' /\ current' # 0 => j = current'
    <2>1. ~overlapped /\ current' = current
        BY <1>5 DEF Wake, Pick, RoundEnds, measurement
    <2>2. \A j \in Killers : Alive(j)' => Alive(j)
        BY <1>5 DEF Wake, Pick, RoundEnds
    <2> QED
        BY <2>1, <2>2
<1>6. ASSUME NEW k \in Killers, NEW n \in Nodes, Insert(k, n) \/ StopServices(k, n) \/ Reboot(k, n)
      PROVE  /\ \A i, j \in Killers : Alive(i)' /\ Alive(j)' => i = j
             /\ \A j \in Killers : Alive(j)' /\ current' # 0 => j = current'
    BY <1>6 DEF Insert, StopServices, Reboot, measurement
<1>7. CASE UNCHANGED vars
    BY <1>7 DEF vars, measurement
<1> QED
    BY <1>1, <1>2, <1>3, <1>4, <1>5, <1>6, <1>7 DEF Next, KillerStep

\* A round ends with kill returning, when nobody is in its hands.
LEMMA RoundsStep == IInv /\ [Next]_vars => Rounds'
<1> SUFFICES ASSUME IInv, [Next]_vars PROVE Rounds'
    OBVIOUS
<1> USE DEF IInv, TypeOK, Rounds
<1>1. CASE StartRefused \/ Stop \/ StopReturns
    BY <1>1 DEF StartRefused, Stop, StopReturns, round
<1>2. ASSUME NEW k \in Killers, Start(k) PROVE Rounds'
    BY <1>2 DEF Start, round
<1>3. ASSUME NEW k \in Killers, Wake(k) PROVE Rounds'
    BY <1>3 DEF Wake, round
<1>4. ASSUME NEW k \in Killers, Pick(k) PROVE Rounds'
    BY <1>4 DEF Pick
<1>5. ASSUME NEW k \in Killers, RoundEnds(k) PROVE Rounds'
    BY <1>5 DEF RoundEnds, round
<1>6. ASSUME NEW k \in Killers, NEW n \in Nodes, Insert(k, n) PROVE Rounds'
    BY <1>6 DEF Insert
<1>7. ASSUME NEW k \in Killers, NEW n \in Nodes, StopServices(k, n) PROVE Rounds'
    BY <1>7 DEF StopServices
<1>8. ASSUME NEW k \in Killers, NEW n \in Nodes, Reboot(k, n) PROVE Rounds'
    BY <1>8 DEF Reboot
<1>9. CASE UNCHANGED vars
    BY <1>9 DEF vars, round
<1> QED
    BY <1>1, <1>2, <1>3, <1>4, <1>5, <1>6, <1>7, <1>8, <1>9 DEF Next, KillerStep

\* The channel changes in the calls of the measurement only.
LEMMA ChannelStep == IInv /\ [Next]_vars => Channel'
<1> SUFFICES ASSUME IInv, [Next]_vars PROVE Channel'
    OBVIOUS
<1> USE DEF IInv, TypeOK, Channel
<1>1. CASE StartRefused
    BY <1>1 DEF StartRefused
<1>2. CASE Stop
    BY <1>2 DEF Stop
<1>3. CASE StopReturns
    BY <1>3 DEF StopReturns
<1>4. ASSUME NEW k \in Killers, Start(k) PROVE Channel'
    BY <1>4 DEF Start
<1>5. ASSUME NEW k \in Killers, KillerStep(k) PROVE Channel'
    <2>1. UNCHANGED <<channel, call, current>>
        BY <1>5 DEF KillerStep, Wake, Pick, RoundEnds, Insert, StopServices, Reboot, measurement
    <2>2. \A j \in Killers : run[j] = "ended" => run'[j] = "ended"
        BY <1>5 DEF KillerStep, Wake, Pick, RoundEnds, Insert, StopServices, Reboot
    <2> QED
        BY <2>1, <2>2
<1>6. CASE UNCHANGED vars
    BY <1>6 DEF vars, measurement
<1> QED
    BY <1>1, <1>2, <1>3, <1>4, <1>5, <1>6 DEF Next

\* kill inserts a node into killedNodes before it touches it.
LEMMA MarkedStep == IInv /\ [Next]_vars => Marked'
<1> SUFFICES ASSUME IInv, [Next]_vars, ~overlapped' PROVE Marked'
    BY DEF Marked
<1> USE DEF IInv, TypeOK, Marked
<1>1. CASE StartRefused \/ Stop \/ StopReturns
    BY <1>1 DEF StartRefused, Stop, StopReturns, round
<1>2. ASSUME NEW k \in Killers, Start(k) PROVE Marked'
    BY <1>2 DEF Start, round
<1>3. ASSUME NEW k \in Killers, Wake(k) \/ RoundEnds(k) PROVE Marked'
    BY <1>3 DEF Wake, RoundEnds, round, measurement
<1>4. ASSUME NEW k \in Killers, Pick(k) PROVE Marked'
    <2>1. CASE UNCHANGED chosen
        BY <1>4, <2>1 DEF Pick, measurement
    <2>2. ASSUME NEW S \in pickNodes(k), chosen' = [chosen EXCEPT ![k] = S] PROVE Marked'
        <3>1. S \cap killedNodes = {}
            BY DEF pickNodes
        <3> QED
            BY <1>4, <2>2, <3>1 DEF Pick, measurement
    <2> QED
        BY <1>4, <2>1, <2>2 DEF Pick
<1>5. ASSUME NEW k \in Killers, NEW n \in Nodes, Insert(k, n) PROVE Marked'
    <2>1. ~overlapped /\ n \notin killedNodes /\ Alive(k)
        BY <1>5 DEF Insert, measurement, Alive
    <2>2. \A j \in Killers : chosen[j] # {} => j = k
        BY <2>1 DEF Rounds, Alone, Alive
    <2> QED
        BY <1>5, <2>1, <2>2 DEF Insert
<1>6. ASSUME NEW k \in Killers, NEW n \in Nodes, StopServices(k, n) PROVE Marked'
    <2>1. ~overlapped /\ run[k] = "killing"
        BY <1>6 DEF StopServices, measurement, Rounds
    <2>2. \A j \in Killers : victim[j][n] # "none" => j = k
        BY <2>1 DEF Rounds, Alone, Alive
    <2>3. failures[n] = 0 /\ n \in killedNodes
        BY <1>6, <2>1 DEF StopServices
    <2>4. \A j \in Killers : victim'[j][n] # "begun"
        BY <1>6, <2>2 DEF StopServices
    <2>5. \A i \in Nodes : i \notin killedNodes' =>
              failures'[i] = 0 /\ \A j \in Killers : victim'[j][i] = "none"
        BY <1>6, <2>1, <2>3 DEF StopServices
    <2>6. \A j \in Killers, i \in Nodes : victim'[j][i] = "begun" => failures'[i] = 0
        BY <1>6, <2>1, <2>4 DEF StopServices
    <2>7. \A i \in Nodes : failures'[i] <= 1
        BY <1>6, <2>1, <2>3 DEF StopServices
    <2> QED
        BY <1>6, <2>1, <2>5, <2>6, <2>7 DEF StopServices
<1>7. ASSUME NEW k \in Killers, NEW n \in Nodes, Reboot(k, n) PROVE Marked'
    BY <1>7 DEF Reboot, measurement
<1>8. CASE UNCHANGED vars
    BY <1>8 DEF vars, round, measurement
<1> QED
    BY <1>1, <1>2, <1>3, <1>4, <1>5, <1>6, <1>7, <1>8 DEF Next, KillerStep

\* The strengthening of NodeFailsOnce and StopLeavesNobodyDown holds throughout.
THEOREM Inductive == Spec => []IInv
<1>1. IInv /\ [Next]_vars => IInv'
    BY TypeStep, AloneStep, RoundsStep, MarkedStep, ChannelStep DEF IInv
<1> QED
    BY InitIInv, <1>1, PTL DEF Spec

\* The types of the killers' state (pkg/chaos/nodes.go) for any nodes and starts.
THEOREM TypeCorrect == Spec => []TypeOK
<1>1. IInv => TypeOK
    BY DEF IInv
<1> QED
    BY Inductive, <1>1, PTL

\* No node is made to fail twice (killedNodes of monkey.go) for any number of nodes,
\* any failure rate and any number of starts that do not overlap.
THEOREM FailsOnce == Spec => []NodeFailsOnce
<1>1. IInv => NodeFailsOnce
    BY DEF IInv, Marked, NodeFailsOnce
<1> QED
    BY Inductive, <1>1, PTL

\* When "stop" of chaos_monkey_measurement.go has returned, its killer has no node
\* down, and without overlapping starts no killer is left.
THEOREM NobodyDown == Spec => []StopLeavesNobodyDown
<1>1. IInv => StopLeavesNobodyDown
    <2> SUFFICES ASSUME IInv, call = "idle", channel = "closed", current # 0
                 PROVE  /\ \A n \in Nodes : victim[current][n] = "none"
                        /\ ~overlapped => \A k \in Killers : ~Alive(k)
        BY DEF StopLeavesNobodyDown
    <2>1. current \in Killers /\ run[current] = "ended"
        BY DEF IInv, TypeOK, Channel
    <2> QED
        BY <2>1 DEF IInv, Rounds, Alone, Alive
<1> QED
    BY Inductive, <1>1, PTL

-----------------------------------------------------------------------------
\* Every step of a killer is a step of a monkey, or none.
LEMMA MonkeyStep == IInv /\ [Next]_vars => [Monkey!Next]_(Monkey!vars)
<1> SUFFICES ASSUME IInv, [Next]_vars PROVE Monkey!Next \/ UNCHANGED Monkey!vars
    OBVIOUS
<1> DEFINE m == [k \in Killers |-> Doing(k)]
<1>1. ASSUME UNCHANGED <<run, stopped>> PROVE UNCHANGED Monkey!vars
    BY <1>1 DEF Monkey!vars, Doing
<1>2. ASSUME NEW k \in Killers, NEW to \in {"asleep", "picking", "killing", "ended"},
             run' = [run EXCEPT ![k] = to], UNCHANGED stopped
      PROVE  m' = [m EXCEPT ![k] = IF to = "asleep" THEN "sleeping" ELSE IF to = "ended" THEN "ended" ELSE "striking"]
    BY <1>2 DEF IInv, TypeOK, Doing
<1>3. CASE StartRefused \/ StopReturns
    BY <1>1, <1>3 DEF StartRefused, StopReturns
<1>4. CASE Stop
    <2>1. CASE channel = "open"
        <3>1. current \in Killers
            BY <2>1 DEF IInv, Channel
        <3>2. UNCHANGED m /\ stopped' = stopped \cup {current}
            BY <1>4, <2>1 DEF Stop, Doing
        <3> QED
            BY <3>1, <3>2 DEF Monkey!Next, Monkey!Stop
    <2>2. CASE channel # "open"
        BY <1>1, <1>4, <2>2 DEF Stop
    <2> QED
        BY <2>1, <2>2
<1>5. ASSUME NEW k \in Killers, Start(k) PROVE Monkey!Next
    <2>1. m[k] = "off" /\ m' = [m EXCEPT ![k] = "sleeping"] /\ UNCHANGED stopped
        BY <1>2, <1>5 DEF Start, Doing
    <2> QED
        BY <2>1 DEF Monkey!Next, Monkey!Begin, Monkey!Become
<1>6. ASSUME NEW k \in Killers, Wake(k) PROVE Monkey!Next
    <2>1. CASE k \in stopped
        <3>1. m[k] = "sleeping" /\ m' = [m EXCEPT ![k] = "ended"] /\ UNCHANGED stopped
            BY <1>2, <1>6, <2>1 DEF Wake, Doing, measurement
        <3> QED
            BY <2>1, <3>1 DEF Monkey!Next, Monkey!End, Monkey!Become
    <2>2. CASE k \notin stopped
        <3>1. m[k] = "sleeping" /\ m' = [m EXCEPT ![k] = "striking"] /\ UNCHANGED stopped
            BY <1>2, <1>6, <2>2 DEF Wake, Doing, measurement
        <3> QED
            BY <2>2, <3>1 DEF Monkey!Next, Monkey!Strike, Monkey!Become
    <2> QED
        BY <2>1, <2>2
<1>7. ASSUME NEW k \in Killers, Pick(k) PROVE Monkey!Next \/ UNCHANGED Monkey!vars
    <2>1. CASE run' = [run EXCEPT ![k] = "killing"]
        <3>1. m' = m /\ UNCHANGED stopped
            BY <1>7, <2>1 DEF Pick, Doing, measurement, IInv, TypeOK
        <3> QED
            BY <3>1 DEF Monkey!vars
    <2>2. CASE run' = [run EXCEPT ![k] = "asleep"]
        <3>1. m[k] = "striking" /\ m' = [m EXCEPT ![k] = "sleeping"] /\ UNCHANGED stopped
            BY <1>2, <1>7, <2>2 DEF Pick, Doing, measurement
        <3> QED
            BY <3>1 DEF Monkey!Next, Monkey!Repair, Monkey!Become
    <2> QED
        BY <1>7, <2>1, <2>2 DEF Pick
<1>8. ASSUME NEW k \in Killers, RoundEnds(k) PROVE Monkey!Next
    <2>1. m[k] = "striking" /\ m' = [m EXCEPT ![k] = "sleeping"] /\ UNCHANGED stopped
        BY <1>2, <1>8 DEF RoundEnds, Doing, measurement
    <2> QED
        BY <2>1 DEF Monkey!Next, Monkey!Repair, Monkey!Become
<1>9. ASSUME NEW k \in Killers, NEW n \in Nodes, Insert(k, n) \/ StopServices(k, n) \/ Reboot(k, n)
      PROVE  UNCHANGED Monkey!vars
    BY <1>1, <1>9 DEF Insert, StopServices, Reboot, measurement
<1>10. CASE UNCHANGED vars
    BY <1>1, <1>10 DEF vars, measurement
<1> QED
    BY <1>3, <1>4, <1>5, <1>6, <1>7, <1>8, <1>9, <1>10 DEF Next, KillerStep

\* The node killers are chaos monkeys in all that they may do: no round begins
\* once the channel is closed, and none is left in the middle.
THEOREM Refinement == Spec => Monkey!Safe
<1>1. Init => Monkey!Init
    BY DEF Init, Monkey!Init, Doing
<1> QED
    BY Inductive, MonkeyStep, <1>1, PTL DEF Spec, Monkey!Safe
=============================================================================
