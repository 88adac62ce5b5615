---------------------------- MODULE TestSuiteProofs ----------------------------
(***************************************************************************)
(* For any tests, namespaces and faults: the executor starts and stops the *)
(* chaos monkeys of the tests as pkg/chaos expects, and a monkey outlives  *)
(* its test only if the preparation of the test failed; steps run in the   *)
(* environment their test asks for; dependencies go last; the exit code is *)
(* honest; and an execution without failing calls leaves nothing behind.   *)
(***************************************************************************)
EXTENDS TestSuite, TLAPS

Early == {"prometheus", "exec", "preload", "compile"}
Preparing == {"monkey", "list", "stale", "create", "dependencies"}
Executing == {"steps", "parts", "wait"}
Over == {"dispose", "cleanup", "teardown", "report"}
Late == {"next", "prometheusDown", "execDown", "exit"}

AtWork(t) == monkey[t] \in {"sleeping", "striking"}

\* The inductive invariant: where the main goroutine is, what is known of the
\* monkey of the current test, and that tests to come have none.
MonkeyInv ==
    /\ pc \in Early \cup Preparing \cup Executing \cup Over \cup Late \cup {"exited"}
    /\ test \in Nat /\ test <= Len(Tests)
    /\ pc \in Early => test = 0
    /\ pc \in Preparing \cup Executing \cup Over => test \in TestIds
    /\ monkey \in [TestIds -> {"off", "sleeping", "striking", "ended"}]
    /\ executed \in [TestIds -> Nat]
    /\ \A t \in TestIds : t > test => monkey[t] = "off" /\ executed[t] = 0
    /\ pc = "monkey" => monkey[test] = "off"
    /\ pc \in Preparing => executed[test] = 0
    /\ \A t \in TestIds : t < test \/ (t = test /\ pc \in Over \cup Late) =>
           (AtWork(t) => t \in failed /\ executed[t] = 0)

\* Before the suite begins there are no monkeys.
LEMMA InitMonkeyInv == Init => MonkeyInv
BY SuiteAssumption DEF Init, MonkeyInv, AtWork, TestIds, Early, Preparing, Executing, Over, Late

\* No step of the suite, of a deletion or of a monkey breaks the invariant.
LEMMA MonkeyInvStep == MonkeyInv /\ [Next]_vars => MonkeyInv'
<1> SUFFICES ASSUME MonkeyInv, [Next]_vars PROVE MonkeyInv'
    BY Zenon
<1>0. Len(Tests) \in Nat
    BY SuiteAssumption
<1> USE <1>0 DEF MonkeyInv, AtWork, TestIds, Early, Preparing, Executing, Over, Late
<1>1. CASE StartMonkey
    BY <1>1 DEF StartMonkey, cluster, steps, chaos, dependencies, report, ReturnWithError,
       Fault, Conf
<1>2. CASE ListAutomanagedNamespaces
    BY Zenon, <1>2 DEF ListAutomanagedNamespaces, cluster, steps, chaos, dependencies, report,
       ReturnWithError
<1>3. CASE StaleNamespacesDone
    BY Zenon, <1>3 DEF StaleNamespacesDone, cluster, steps, chaos, dependencies, report,
       ReturnWithError
<1>4. CASE CreateNamespace
    BY Zenon, <1>4 DEF CreateNamespace, cluster, steps, chaos, dependencies, report,
       ReturnWithError
<1>5. CASE CreateNamespacesDone
    BY Zenon, <1>5 DEF CreateNamespacesDone, cluster, steps, chaos, dependencies, report
<1>6. CASE SetupSingleDependency
    BY Zenon, <1>6 DEF SetupSingleDependency, cluster, steps, chaos, dependencies, report
<1>7. CASE SetupDependenciesDone
    BY <1>7 DEF SetupDependenciesDone, cluster, steps, chaos, dependencies, report
<1>8. CASE StartStep
    BY Zenon, <1>8 DEF StartStep, cluster, steps, chaos, dependencies, report
<1>9. CASE PartEnds
    BY <1>9 DEF PartEnds, cluster, steps, chaos, dependencies, report
<1>10. CASE StepEnds
    BY <1>10 DEF StepEnds, cluster, steps, chaos, dependencies, report
<1>11. CASE StopMonkey
    BY Zenon, <1>11 DEF StopMonkey, cluster, steps, chaos, dependencies, report
<1>12. CASE MonkeyStopped
    BY Zenon, <1>12 DEF MonkeyStopped, cluster, steps, chaos, dependencies, report,
       ReturnWithError
<1>13. CASE Dispose
    BY Zenon, <1>13 DEF Dispose, cluster, steps, chaos, dependencies, report
<1>14. CASE CleanupDone
    BY <1>14 DEF CleanupDone, cluster, steps, chaos, dependencies, report
<1>15. CASE TeardownDependency
    BY Zenon, <1>15 DEF TeardownDependency, cluster, steps, chaos, dependencies, report
<1>16. CASE TeardownDone
    BY <1>16 DEF TeardownDone, cluster, steps, chaos, dependencies, report
<1>17. CASE ReportTestFinish
    BY Zenon, <1>17 DEF ReportTestFinish, cluster, steps, chaos, dependencies, report
<1>18. CASE Finish
    BY <1>18 DEF Finish, cluster, steps, chaos, dependencies, report, Exit
<1>19. CASE Interrupt
    BY Zenon, <1>19 DEF Interrupt, cluster, steps, chaos, dependencies, report, Exit
<1>20. CASE Compile
    BY <1>20 DEF Compile, cluster, steps, chaos, dependencies, report, Exit
<1>21. CASE NextTest
    BY <1>21 DEF NextTest, cluster, steps, chaos, dependencies, report
<1>22. ASSUME NEW service, NEW next, SetUpService(service, next),
             <<service, next>> \in {<<"prometheus", "exec">>, <<"exec", "preload">>,
                <<"preload", "compile">>}
      PROVE  MonkeyInv'
    BY <1>22 DEF SetUpService, Exit, cluster, steps, chaos, dependencies, report
<1>23. ASSUME NEW service, NEW at, NEW next, NEW wanted, TearDownService(service, at, next, wanted),
             <<at, next>> \in {<<"prometheusDown", "execDown">>, <<"execDown", "exit">>}
      PROVE  MonkeyInv'
    BY <1>23 DEF TearDownService, cluster, steps, chaos, dependencies, report
<1>24. ASSUME NEW x, RequestDeletion(x) \/ DeletionEnds(x) \/ NamespaceGone(x) \/ LateSetupEnds(x)
      PROVE  MonkeyInv'
    BY <1>24 DEF RequestDeletion, DeletionEnds, NamespaceGone, LateSetupEnds, cluster, steps,
       chaos, dependencies, report
<1>25. ASSUME NEW t \in TestIds, MonkeyStep(t) PROVE MonkeyInv'
    BY <1>25 DEF MonkeyStep, MonkeyStrikes, MonkeyRepairs, MonkeyEnds, cluster, steps, chaos,
       dependencies, report
<1>26. CASE UNCHANGED vars
    BY <1>26 DEF vars, cluster, steps, chaos, dependencies, report
<1> HIDE DEF MonkeyInv
<1> QED
    BY Zenon, <1>1, <1>2, <1>3, <1>4, <1>5, <1>6, <1>7, <1>8, <1>9, <1>10, <1>11, <1>12, <1>13,
       <1>14, <1>15, <1>16, <1>17, <1>18, <1>19, <1>20, <1>21, <1>22, <1>23, <1>24, <1>25, <1>26
       DEF
       Next, MainStep, DeletionStep, Terminated

\* The invariant holds throughout.
THEOREM Inductive == Spec => []MonkeyInv
BY InitMonkeyInv, MonkeyInvStep, PTL DEF Spec

\* In every execution of main (cmd/clusterloader.go), whatever its tests and however
\* many calls fail: a chaos monkey that is at work after its test belongs to a test
\* that failed before its first step.
THEOREM StrayMonkeys == Spec => []StrayMonkeyOnlyAfterFailedPreparation
<1>1. MonkeyInv => StrayMonkeyOnlyAfterFailedPreparation
    BY SuiteAssumption
    DEF MonkeyInv, StrayMonkeyOnlyAfterFailedPreparation, TestIsOver, AtWork, TestIds,
        Early, Preparing, Executing, Over, Late
<1> QED
    BY Inductive, <1>1, PTL

-----------------------------------------------------------------------------
\* Every step of the suite is a step of its monkeys or leaves them alone.
LEMMA MonkeySimulation == MonkeyInv /\ [Next]_vars => [Monkey!Next]_(Monkey!vars)
<1> SUFFICES ASSUME MonkeyInv, [Next]_vars PROVE Monkey!Next \/ UNCHANGED <<monkey, stopped>>
    BY Zenon DEF Monkey!vars
<1>1. CASE StartMonkey
    <2>1. test \in TestIds /\ monkey[test] = "off"
        BY <1>1 DEF StartMonkey, MonkeyInv, Preparing
    <2>2. CASE Conf.chaos /\ monkey' = [monkey EXCEPT ![test] = "sleeping"] /\ UNCHANGED stopped
        BY Zenon, <2>1, <2>2 DEF Monkey!Next, Monkey!Begin, Monkey!Become
    <2>3. CASE ~Conf.chaos /\ monkey' = [monkey EXCEPT ![test] = "off"] /\ UNCHANGED stopped
        BY Zenon, <2>1, <2>3 DEF MonkeyInv
    <2>4. CASE stopped' = stopped \cup {test} /\ UNCHANGED monkey
        BY Zenon, <2>1, <2>4 DEF Monkey!Next, Monkey!Stop
    <2> QED
        BY Zenon, <1>1, <2>2, <2>3, <2>4 DEF StartMonkey
<1>2. CASE SetupDependenciesDone \/ StopMonkey
    <2>1. test \in TestIds
        BY Zenon, <1>2 DEF SetupDependenciesDone, StopMonkey, MonkeyInv, Preparing, Executing
    <2> QED
        BY Zenon, <1>2, <2>1 DEF SetupDependenciesDone, StopMonkey, Monkey!Next, Monkey!Stop
<1>3. ASSUME NEW t \in TestIds, MonkeyStep(t) PROVE Monkey!Next
    BY Zenon, <1>3 DEF MonkeyStep, MonkeyStrikes, MonkeyRepairs, MonkeyEnds, Monkey!Next,
       Monkey!Strike, Monkey!Repair, Monkey!End, Monkey!Become
<1>4. CASE ListAutomanagedNamespaces \/ StaleNamespacesDone \/ CreateNamespace \/
   CreateNamespacesDone \/ SetupSingleDependency \/ StartStep \/ PartEnds
    BY Zenon, <1>4 DEF ListAutomanagedNamespaces, StaleNamespacesDone, CreateNamespace,
       CreateNamespacesDone, SetupSingleDependency, StartStep, PartEnds, chaos, vars
<1>5. CASE StepEnds \/ MonkeyStopped \/ Dispose \/ CleanupDone \/ TeardownDependency \/ TeardownDone
    BY Zenon, <1>5 DEF StepEnds, MonkeyStopped, Dispose, CleanupDone, TeardownDependency,
       TeardownDone, chaos, vars
<1>6. CASE ReportTestFinish \/ Finish \/ Interrupt \/ Compile \/ NextTest \/ Terminated
    BY Zenon, <1>6 DEF ReportTestFinish, Finish, Interrupt, Compile, NextTest, Terminated, chaos,
       vars
<1>7. ASSUME NEW a, NEW b, NEW c, NEW d, SetUpService(a, b) \/ TearDownService(a, b, c, d)
      PROVE  UNCHANGED <<monkey, stopped>>
    BY Zenon, <1>7 DEF SetUpService, TearDownService, chaos
<1>8. ASSUME NEW x, RequestDeletion(x) \/ DeletionEnds(x) \/ NamespaceGone(x) \/ LateSetupEnds(x)
      PROVE  UNCHANGED <<monkey, stopped>>
    BY Zenon, <1>8 DEF RequestDeletion, DeletionEnds, NamespaceGone, LateSetupEnds, chaos
<1>9. CASE UNCHANGED vars
    BY Zenon, <1>9 DEF vars, chaos
<1> QED
    BY Zenon, <1>1, <1>2, <1>3, <1>4, <1>5, <1>6, <1>7, <1>8, <1>9 DEF Next, MainStep,
       DeletionStep

\* The executor (pkg/test/simple_test_executor.go) drives the monkeys of its tests
\* the way pkg/chaos promises: NodeKiller is shown to implement the same ChaosMonkey.
THEOREM MonkeyProtocol == Spec => Monkey!Safe
<1>1. Init => Monkey!Init
    BY Zenon DEF Init, Monkey!Init
<1> QED
    BY Inductive, MonkeySimulation, <1>1, PTL DEF Spec, Monkey!Safe
-----------------------------------------------------------------------------
\* The types of the variables that MonkeyInv leaves out; what failed or was stopped
\* is a test that was begun.
TypeInv ==
    /\ index \in Nat /\ (pc \in {"create", "dependencies", "steps", "parts"} => index >= 1)
    /\ namespaces \in [Names -> {"absent", "active", "terminating"}]
    /\ managed \in [Names -> {"no", "keep", "delete"}]
    /\ listed \subseteq Names /\ deleting \subseteq Names /\ waiting \subseteq Names
    /\ running \in Nat /\ partErrors \in Nat
    /\ failed \subseteq TestIds /\ stopped \subseteq TestIds
    /\ (\A t \in failed : t <= test) /\ (\A t \in stopped : t <= test)
    /\ setUp \in Seq(Dependencies) /\ late \subseteq Dependencies /\ up \subseteq Dependencies
    /\ services \subseteq Services /\ failedItems \in Nat
    /\ exit \in {-1, 0, 1} /\ faults \in 0 .. MaxFaults

StepsOf(t) == Len(Tests[t].steps)

\* Test t is over for main, which has reported it.
Reported(t) == t < test \/ (t = test /\ pc \in Late)

\* What main and ExecuteTest know of the steps and the errors of the tests.
ProgressInv ==
    /\ pc # "exited" => exit = -1
    /\ pc \in {"prometheusDown", "execDown", "exit"} => test = Len(Tests)
    /\ \A t \in TestIds : executed[t] <= StepsOf(t)
    /\ pc \in {"steps", "parts"} =>
           /\ index \in 1 .. StepsOf(test) + 1
           /\ executed[test] < index
           /\ test \notin failed => executed[test] = index - 1
    /\ pc = "parts" => index <= StepsOf(test) /\ (critical => partErrors > 0)
    /\ pc \in {"wait"} \cup Over => test \in failed \/ executed[test] = StepsOf(test)
    /\ \A t \in TestIds : Reported(t) =>
           IF t \in failed THEN failedItems > 0 ELSE executed[t] = StepsOf(t)
    /\ failedItems > 0 => failed # {}
    /\ ExitCodeIsHonest

\* The i-th namespace of the current test is as the test wants it.
NamespaceReady(i) ==
    /\ managed[<<Conf.prefix, i>>] # "no"
    /\ namespaces[<<Conf.prefix, i>>] = "active" \/ Conf.existing

\* The namespaces before the k-th one are ready, or all are; so are the dependencies.
ReadyBelow(k) == \A i \in 1 .. Conf.number : i < k => NamespaceReady(i)
AllReady == \A i \in 1 .. Conf.number : NamespaceReady(i)
UpBelow(k) == \A i \in 1 .. Len(Conf.dependencies) : i < k => Conf.dependencies[i].name \in up
AllUp == \A i \in 1 .. Len(Conf.dependencies) : Conf.dependencies[i].name \in up

\* What the preparation of the current test has achieved so far.
PreparationInv ==
    /\ pc \notin {"stale", "cleanup", "exited"} => deleting = {} /\ waiting = {}
    /\ pc \in Preparing \cup {"steps", "parts"} => test \notin stopped
    /\ pc \in (Preparing \ {"monkey"}) \cup {"steps", "parts"} => (Conf.chaos => AtWork(test))
    /\ pc = "create" => ReadyBelow(index)
    /\ pc \in {"dependencies", "steps", "parts"} => AllReady
    /\ pc = "dependencies" => test \in failed \/ UpBelow(index)
    /\ pc \in {"steps", "parts"} => AllUp

\* A cleanup without errors so far has the remaining namespaces in hand.
CleanupInv ==
    /\ pc = "cleanup" /\ Conf.delete /\ ~undeleted =>
           \A n \in Names : managed[n] = "delete" => n \in deleting \cup waiting
    /\ DependenciesGoLast

\* What may be in the cluster as long as no call has failed or timed out.
TidyServices ==
    CASE pc = "execDown" -> {"exec"} \cup (IF TearDownServer THEN {} ELSE {"prometheus"})
      [] pc \in {"exit", "exited"} -> IF TearDownServer THEN {} ELSE {"prometheus"}
      [] OTHER -> {"prometheus", "exec"}

TidyInv ==
    faults = 0 =>
        /\ late = {} /\ ~undeleted
        /\ \A d \in up : \E i \in 1 .. Len(setUp) : d = setUp[i]
        /\ pc \notin {"dependencies", "teardown"} \cup Executing \cup {"dispose", "cleanup"} =>
               setUp = <<>>
        /\ \A n \in Names : managed[n] = "delete" =>
               pc \in {"create", "dependencies", "dispose", "cleanup"} \cup Executing /\ Conf.delete
        /\ services \subseteq TidyServices

-----------------------------------------------------------------------------
\* What the list of tests, of steps or of dependencies holds has the type of its elements.
LEMMA ElementsOf ==
    ASSUME NEW S, NEW q \in Seq(S)
    PROVE  Len(q) \in Nat /\ \A i \in 1 .. Len(q) : q[i] \in S
OBVIOUS

\* A list that is appended to keeps the type of its elements.
LEMMA AppendedIsTyped == ASSUME NEW S, NEW q \in Seq(S), NEW e \in S PROVE Append(q, e) \in Seq(S)
OBVIOUS

\* The parts of a test configuration (TestConfigs, api.Config) and their types.
LEMMA ConfigTypes ==
    ASSUME NEW t \in TestIds
    PROVE  /\ \A i \in 1 .. Tests[t].number : i \in Nat \ {0} /\ <<Tests[t].prefix, i>> \in Names
           /\ Tests[t].number \in Nat
           /\ Len(Tests[t].dependencies) \in Nat
           /\ \A i \in 1 .. Len(Tests[t].dependencies) :
                 Tests[t].dependencies[i].name \in Dependencies
           /\ StepsOf(t) \in Nat
           /\ \A i \in 1 .. StepsOf(t) : Tests[t].steps[i].parts \in Nat
<1>1. Tests[t] \in TestConfigs
    BY SuiteAssumption DEF TestIds
<1>2. Tests[t].prefix \in Prefixes /\ Tests[t].number \in 1 .. MaxNumber /\ MaxNumber \in Nat
    BY Zenon, <1>1, SuiteAssumption DEF TestConfigs
<1>3. Tests[t].dependencies \in Seq([name: STRING, timeout: BOOLEAN])
    BY <1>1 DEF TestConfigs
<1>4. Tests[t].steps \in Seq([kind: StepKinds, parts: Nat])
    BY Zenon, <1>1 DEF TestConfigs
<1>5. \A i \in 1 .. Tests[t].number : i \in Nat \ {0} /\ <<Tests[t].prefix, i>> \in Names
    BY <1>2 DEF Names
<1>6. \A i \in 1 .. StepsOf(t) : Tests[t].steps[i] \in [kind: StepKinds, parts: Nat]
    BY Zenon, <1>4, ElementsOf DEF StepsOf
<1>7. \A i \in 1 .. Len(Tests[t].dependencies) : Tests[t].dependencies[i].name \in Dependencies
    BY DEF Dependencies
<1>8. Tests[t].number \in Nat
    BY <1>2
<1>9. Len(Tests[t].dependencies) \in Nat /\ StepsOf(t) \in Nat
    BY Zenon, <1>3, <1>4, ElementsOf DEF StepsOf
<1> QED
    BY Zenon, <1>5, <1>6, <1>7, <1>8, <1>9

\* No step of the suite breaks the types.
LEMMA TypeInvStep == MonkeyInv /\ TypeInv /\ [Next]_vars => TypeInv'
<1> SUFFICES ASSUME MonkeyInv, TypeInv, [Next]_vars PROVE TypeInv'
    BY Zenon
<1> USE DEF TypeInv, cluster, steps, chaos, dependencies, report, Fault, TimeoutPasses, Exit,
        ReturnWithError
<1>0. MaxFaults \in Nat /\ Len(Tests) \in Nat
    BY SuiteAssumption
<1>a. test \in Nat /\ (pc \in Preparing \cup Executing \cup Over => test \in TestIds)
    BY Zenon, <1>0 DEF MonkeyInv, TestIds
<1>1. CASE StartMonkey
    BY <1>0, <1>a, <1>1 DEF StartMonkey, Preparing
<1>2. CASE ListAutomanagedNamespaces
    BY <1>0, <1>a, <1>2 DEF ListAutomanagedNamespaces, Preparing, Existing
<1>3. CASE StaleNamespacesDone
    BY <1>0, <1>a, <1>3 DEF StaleNamespacesDone, Preparing, Existing
<1>4. CASE CreateNamespace
    <2>1. test \in TestIds
        BY Zenon, <1>a, <1>4 DEF CreateNamespace, Preparing
    <2>2. <<Conf.prefix, index>> \in Names
        BY <1>4, <2>1, ConfigTypes DEF CreateNamespace, Conf
    <2>3. namespaces' \in [Names -> {"absent", "active", "terminating"}]
        BY Zenon, <1>4, <2>2 DEF CreateNamespace
    <2>4. managed' \in [Names -> {"no", "keep", "delete"}]
        BY Zenon, <1>4, <2>2 DEF CreateNamespace, Manage
    <2>5. \A t \in failed' : t \in TestIds /\ t <= test
        <3>1. failed' \subseteq failed \cup {test}
            BY Zenon, <1>4 DEF CreateNamespace
        <3> QED
            BY <1>0, <1>a, <2>1, <3>1
    <2> QED
        BY <1>0, <1>4, <2>3, <2>4, <2>5 DEF CreateNamespace
<1>5. CASE CreateNamespacesDone
    BY <1>5 DEF CreateNamespacesDone
<1>6. CASE SetupSingleDependency
    <2>1. test \in TestIds
        BY Zenon, <1>a, <1>6 DEF SetupSingleDependency, Preparing
    <2> DEFINE d == Conf.dependencies[index].name
    <2>2. d \in Dependencies
        <3>1. Len(Tests[test].dependencies) \in Nat /\ index \in Nat /\ index >= 1
              /\ index <= Len(Tests[test].dependencies)
            BY Zenon, <1>6, <2>1, ConfigTypes DEF SetupSingleDependency, Conf
        <3>2. index \in 1 .. Len(Tests[test].dependencies)
            BY <3>1
        <3> QED
            BY Zenon, <2>1, <3>2, ConfigTypes DEF Conf
    <2> HIDE DEF d
    <2>3. \/ setUp' = Append(setUp, d) /\ up' = up \cup {d} /\ UNCHANGED <<late, failed>>
          \/ failed' = failed \cup {test} /\ UNCHANGED setUp
             /\ up' \subseteq up \cup {d} /\ late' \subseteq late \cup {d}
        BY Zenon, <1>6 DEF SetupSingleDependency, d
    <2>4. setUp' \in Seq(Dependencies) /\ up' \subseteq Dependencies /\ late' \subseteq Dependencies
        <3>1. Append(setUp, d) \in Seq(Dependencies)
            BY Zenon, <2>2, AppendedIsTyped
        <3> QED
            BY Zenon, <2>2, <2>3, <3>1
    <2>5. \A t \in failed' : t \in TestIds /\ t <= test
        <3>1. failed' \subseteq failed \cup {test}
            BY <2>3
        <3> QED
            BY <1>0, <1>a, <2>1, <3>1
    <2>6. index' \in Nat /\ index' >= 1 /\ faults' \in 0 .. MaxFaults
        <3>1. /\ index' = index + 1 /\ faults' \in {faults, faults + 1}
              /\ faults' # faults => faults < MaxFaults
            BY Zenon, <1>6 DEF SetupSingleDependency
        <3> QED
            BY <1>0, <3>1
    <2>7. failed' \subseteq TestIds /\ \A t \in failed' : t <= test
        BY Zenon, <2>5
    <2> QED
        BY Zenon, <1>6, <2>4, <2>6, <2>7 DEF SetupSingleDependency
<1>7. CASE SetupDependenciesDone
    BY <1>a, <1>7 DEF SetupDependenciesDone, Preparing
<1>8. CASE StartStep
    <2>1. test \in TestIds
        BY Zenon, <1>a, <1>8 DEF StartStep, Executing
    <2>2. Conf.steps[index].parts \in Nat
        BY <1>8, <2>1, ConfigTypes DEF StartStep, Conf, StepsOf
    <2> QED
        BY Zenon, <1>8, <2>2 DEF StartStep
<1>9. CASE PartEnds
    BY <1>9 DEF PartEnds
<1>10. CASE StepEnds
    <2>1. Len(Conf.steps) \in Nat
        BY Zenon, <1>a, <1>10, ConfigTypes DEF StepEnds, Conf, Executing, StepsOf
    <2> QED
        BY <1>a, <1>10, <2>1 DEF StepEnds, Executing, FailedResults
<1>11. CASE StopMonkey
    BY <1>a, <1>11 DEF StopMonkey, Executing
<1>12. CASE MonkeyStopped
    BY <1>0, <1>a, <1>12 DEF MonkeyStopped, Executing
<1>13. CASE Dispose
    BY Zenon, <1>13 DEF Dispose
<1>14. CASE CleanupDone
    <2>1. setUp' \in Seq(Dependencies)
        <3>1. <<>> \in Seq(Dependencies)
            OBVIOUS
        <3> QED
            BY Zenon, <1>14, <3>1 DEF CleanupDone
    <2> QED
        BY Zenon, <1>14, <2>1 DEF CleanupDone
<1>15. CASE TeardownDependency
    <2>1. setUp' \in Seq(Dependencies)
        BY <1>15 DEF TeardownDependency
    <2> QED
        BY <1>0, <1>15, <2>1 DEF TeardownDependency
<1>16. CASE NextTest
    <2>1. CASE test < Len(Tests) /\ test' = test + 1
        <3>1. test + 1 \in TestIds /\ failed' \subseteq failed \cup {test + 1}
            BY <1>0, <1>a, <1>16, <2>1 DEF NextTest, TestIds
        <3>2. (\A t \in failed' : t \in TestIds /\ t <= test') /\ (\A t \in stopped : t <= test')
            BY <1>a, <2>1, <3>1 DEF TestIds
        <3> QED
            BY <1>0, <1>16, <3>2 DEF NextTest
    <2>2. CASE UNCHANGED <<test, failed, faults>>
        BY Zenon, <1>16, <2>2 DEF NextTest
    <2> QED
        BY Zenon, <1>16, <2>1, <2>2 DEF NextTest
<1>17. CASE ReportTestFinish \/ Finish \/ Compile \/ Interrupt
    <2>1. CASE ReportTestFinish
        BY <2>1 DEF ReportTestFinish
    <2>2. CASE Finish
        BY Zenon, <2>2 DEF Finish
    <2>3. CASE Compile
        BY <1>0, <2>3 DEF Compile
    <2>4. CASE Interrupt
        BY <1>0, <2>4 DEF Interrupt
    <2> QED
        BY Zenon, <1>17, <2>1, <2>2, <2>3, <2>4
<1>18. CASE TeardownDone
    BY Zenon, <1>18 DEF TeardownDone
<1>19. ASSUME NEW service, NEW next, SetUpService(service, next),
             next \in {"exec", "preload", "compile"}
      PROVE  TypeInv'
    BY <1>0, <1>19 DEF SetUpService
<1>20. ASSUME NEW service, NEW at, NEW next, NEW wanted, TearDownService(service, at, next, wanted),
             next \in {"execDown", "exit"}
      PROVE  TypeInv'
    BY <1>0, <1>20 DEF TearDownService
<1>21. ASSUME NEW n \in Names, RequestDeletion(n) PROVE TypeInv'
    BY <1>0, <1>21 DEF RequestDeletion
<1>22. ASSUME NEW n \in Names, DeletionEnds(n) PROVE TypeInv'
    BY <1>0, <1>22 DEF DeletionEnds
<1>23. ASSUME NEW n \in Names, NamespaceGone(n) PROVE TypeInv'
    BY Zenon, <1>23 DEF NamespaceGone
<1>24. ASSUME NEW d, LateSetupEnds(d) PROVE TypeInv'
    BY Zenon, <1>24 DEF LateSetupEnds
<1>25. ASSUME NEW t \in TestIds, MonkeyStep(t) PROVE TypeInv'
    BY Zenon, <1>25 DEF MonkeyStep
<1>26. CASE UNCHANGED vars
    BY Zenon, <1>26 DEF vars
<1> HIDE DEF TypeInv
<1> QED
    BY <1>1, <1>2, <1>3, <1>4, <1>5, <1>6, <1>7, <1>8, <1>9, <1>10, <1>11, <1>12, <1>13, <1>14,
       <1>15, <1>16, <1>17, <1>18, <1>19, <1>20, <1>21, <1>22, <1>23, <1>24, <1>25, <1>26
    DEF Next, MainStep, DeletionStep, Terminated

\* No step of the suite breaks what main knows of its tests.
LEMMA ProgressInvStep == MonkeyInv /\ TypeInv /\ ProgressInv /\ [Next]_vars => ProgressInv'
<1> SUFFICES ASSUME MonkeyInv, TypeInv, ProgressInv, [Next]_vars PROVE ProgressInv'
    BY Zenon
<1> USE DEF ProgressInv, ExitCodeIsHonest, Reported, cluster, steps, chaos, dependencies, report,
        Fault, TimeoutPasses, Exit, ReturnWithError
<1>0. MaxFaults \in Nat /\ Len(Tests) \in Nat /\ \A t \in TestIds : StepsOf(t) \in Nat
    BY SuiteAssumption, ConfigTypes
<1>1. CASE StartMonkey
    BY <1>0, <1>1 DEF StartMonkey, MonkeyInv, TypeInv, Preparing, Executing, Over, Late
<1>2. CASE ListAutomanagedNamespaces
    BY <1>0, <1>2 DEF ListAutomanagedNamespaces, MonkeyInv, TypeInv, Preparing, Executing, Over,
       Late
<1>3. CASE StaleNamespacesDone
    BY <1>0, <1>3 DEF StaleNamespacesDone, MonkeyInv, TypeInv, Preparing, Executing, Over, Late
<1>4. CASE CreateNamespace
    BY <1>0, <1>4 DEF CreateNamespace, MonkeyInv, TypeInv, Preparing, Executing, Over, Late
<1>5. CASE CreateNamespacesDone
    BY Zenon, <1>0, <1>5 DEF CreateNamespacesDone, MonkeyInv, TypeInv, Preparing, Executing,
       Over, Late
<1>6. CASE SetupSingleDependency
    BY <1>0, <1>6 DEF SetupSingleDependency, MonkeyInv, TypeInv, Preparing, Executing, Over, Late
<1>7. CASE SetupDependenciesDone
    BY <1>0, <1>7 DEF SetupDependenciesDone, MonkeyInv, TypeInv, Preparing, Executing, Over, Late
<1>8. CASE StartStep
    BY Zenon, <1>0, <1>8 DEF StartStep, MonkeyInv, TypeInv, Preparing, Executing, Over, Late,
       StepsOf, Conf
<1>9. CASE PartEnds
    BY <1>0, <1>9 DEF PartEnds, MonkeyInv, TypeInv, Preparing, Executing, Over, Late
<1>10. CASE StepEnds
    <2>1. /\ test \in TestIds /\ executed \in [TestIds -> Nat] /\ executed[test] \in Nat
          /\ pc = "parts" /\ pc' = "steps" /\ exit = -1 /\ exit' = -1 /\ test' = test
          /\ StepsOf(test) = Len(Conf.steps)
        BY Zenon, <1>10 DEF StepEnds, MonkeyInv, Executing, StepsOf, Conf
    <2>2. /\ index \in 1 .. StepsOf(test) /\ executed[test] < index
          /\ test \notin failed => executed[test] = index - 1
          /\ critical => partErrors > 0
        BY <1>0, <2>1
    <2>3. /\ executed' = [executed EXCEPT ![test] = executed[test] + 1]
          /\ failed' = IF partErrors > 0 THEN failed \cup {test} ELSE failed
          /\ index' = IF critical THEN StepsOf(test) + 1 ELSE index + 1
        BY Zenon, <1>10, <2>1 DEF StepEnds
    <2>4. /\ failedItems' \in Nat /\ failedItems' >= failedItems
          /\ partErrors = 0 => failedItems' = failedItems
        BY <1>10 DEF StepEnds, FailedResults, TypeInv
    <2>5. \A t \in TestIds : executed'[t] <= StepsOf(t)
        BY <1>0, <2>1, <2>2, <2>3
    <2>6. /\ index' \in 1 .. StepsOf(test) + 1 /\ executed'[test] < index'
          /\ test \notin failed' => executed'[test] = index' - 1
        BY <1>0, <2>1, <2>2, <2>3 DEF TypeInv
    <2>7. \A t \in TestIds : Reported(t)' =>
             IF t \in failed' THEN failedItems' > 0 ELSE executed'[t] = StepsOf(t)
        <3> SUFFICES ASSUME NEW t \in TestIds, Reported(t)'
                     PROVE  IF t \in failed' THEN failedItems' > 0 ELSE executed'[t] = StepsOf(t)
            BY Zenon
        <3>1. t < test
            BY Zenon, <2>1 DEF Late
        <3>2. t # test /\ executed'[t] = executed[t] /\ (t \in failed' <=> t \in failed)
            BY <1>0, <2>1, <2>3, <3>1 DEF TestIds
        <3> QED
            BY <2>4, <3>1, <3>2 DEF TypeInv
    <2>8. failedItems' > 0 => failed' # {}
        BY <2>3, <2>4 DEF TypeInv
    <2> QED
        BY <2>1, <2>5, <2>6, <2>7, <2>8 DEF Over
<1>11. CASE StopMonkey
    BY <1>0, <1>11 DEF StopMonkey, MonkeyInv, TypeInv, Preparing, Executing, Over, Late, StepsOf,
       Conf
<1>12. CASE MonkeyStopped
    BY <1>0, <1>12 DEF MonkeyStopped, MonkeyInv, TypeInv, Preparing, Executing, Over, Late
<1>13. CASE Dispose \/ CleanupDone \/ TeardownDependency \/ TeardownDone
    <2>1. CASE Dispose
        BY Zenon, <2>1 DEF Dispose, MonkeyInv, TypeInv, Over, Late
    <2>2. CASE CleanupDone
        BY Zenon, <2>2 DEF CleanupDone, MonkeyInv, TypeInv, Over, Late
    <2>3. CASE TeardownDependency
        BY <2>3 DEF TeardownDependency, MonkeyInv, TypeInv, Over, Late
    <2>4. CASE TeardownDone
        BY Zenon, <2>4 DEF TeardownDone, MonkeyInv, TypeInv, Over, Late
    <2> QED
        BY Zenon, <1>13, <2>1, <2>2, <2>3, <2>4
<1>14. CASE ReportTestFinish
    BY <1>0, <1>14 DEF ReportTestFinish, MonkeyInv, TypeInv, Preparing, Executing, Over, Late
<1>15. CASE NextTest
    BY <1>0, <1>15 DEF NextTest, MonkeyInv, TypeInv, Preparing, Executing, Over, Late, TestIds
<1>16. CASE Finish
    <2>1. \A t \in TestIds : Reported(t)
        BY <1>0, <1>16 DEF Finish, TestIds, Late
    <2>2. failedItems = 0 => failed = {} /\ \A t \in TestIds : executed[t] = StepsOf(t)
        BY <2>1 DEF TypeInv
    <2>3. failedItems \in Nat /\ exit' = IF failedItems > 0 THEN 1 ELSE 0
        BY Zenon, <1>16 DEF Finish, TypeInv
    <2>4. ExitCodeIsHonest'
        BY <1>16, <2>2, <2>3 DEF Finish, StepsOf
    <2>5. \A t \in TestIds : IF t \in failed THEN failedItems > 0 ELSE executed[t] = StepsOf(t)
        BY Zenon, <2>1
    <2> QED
        BY Zenon, <1>16, <2>4, <2>5 DEF Finish, Over
<1>17. CASE Compile
    BY <1>0, <1>17 DEF Compile, MonkeyInv, TypeInv, Early, Preparing, Executing, Over, Late,
       TestIds
<1>18. CASE Interrupt
    BY <1>0, <1>18 DEF Interrupt, MonkeyInv, TypeInv, Early, Preparing, Executing, Over, Late
<1>19. ASSUME NEW service, NEW next, SetUpService(service, next),
              service \in Early, next \in Early
      PROVE  ProgressInv'
    BY <1>0, <1>19 DEF SetUpService, MonkeyInv, TypeInv, Early, Preparing, Executing, Over, Late,
       TestIds
<1>20. ASSUME NEW service, NEW at, NEW next, NEW wanted, TearDownService(service, at, next, wanted),
             <<at, next>> \in {<<"prometheusDown", "execDown">>, <<"execDown", "exit">>}
      PROVE  ProgressInv'
    BY <1>0, <1>20 DEF TearDownService, MonkeyInv, TypeInv, Preparing, Executing, Over, Late,
       TestIds
<1>21. ASSUME NEW n \in Names, pc # "exited", RequestDeletion(n) \/ DeletionEnds(n)
      PROVE  ProgressInv'
    BY <1>21 DEF RequestDeletion, DeletionEnds
<1>22. ASSUME NEW n \in Names, NamespaceGone(n) PROVE ProgressInv'
    BY <1>22 DEF NamespaceGone
<1>23. ASSUME NEW d, LateSetupEnds(d) PROVE ProgressInv'
    BY <1>23 DEF LateSetupEnds
<1>24. ASSUME NEW t \in TestIds, MonkeyStep(t) PROVE ProgressInv'
    BY <1>24 DEF MonkeyStep
<1>25. CASE UNCHANGED vars
    BY <1>25 DEF vars
<1> HIDE DEF ProgressInv
<1> QED
    BY Zenon, <1>1, <1>2, <1>3, <1>4, <1>5, <1>6, <1>7, <1>8, <1>9, <1>10, <1>11, <1>12, <1>13,
       <1>14, <1>15, <1>16, <1>17, <1>18, <1>19, <1>20, <1>21, <1>22, <1>23, <1>24, <1>25 DEF
       Next, MainStep, DeletionStep, Terminated, Early

\* No step of the suite, of a deletion or of a monkey spoils what the preparation has
\* achieved.
LEMMA PreparationInvStep ==
    MonkeyInv /\ TypeInv /\ PreparationInv /\ [Next]_vars => PreparationInv'
<1> SUFFICES ASSUME MonkeyInv, TypeInv, PreparationInv, [Next]_vars PROVE PreparationInv'
    BY Zenon
<1> USE DEF cluster, steps, chaos, dependencies, report, Exit, ReturnWithError
<1>0. Len(Tests) \in Nat /\ (pc \in Preparing \cup Executing => test \in TestIds)
    <2>1. Len(Tests) \in Nat
        BY SuiteAssumption
    <2> QED
        BY Zenon, <2>1 DEF MonkeyInv
<1>a. ASSUME UNCHANGED <<test, namespaces, managed>>
      PROVE  (AllReady' <=> AllReady) /\ \A k : ReadyBelow(k) => ReadyBelow(k)'
    BY Zenon, <1>a DEF AllReady, ReadyBelow, NamespaceReady, Conf
<1>b. ASSUME test' = test, up \subseteq up'
      PROVE  (AllUp => AllUp') /\ \A k : UpBelow(k) => UpBelow(k)'
    BY Zenon, <1>b DEF AllUp, UpBelow, Conf
<1>c. ASSUME UNCHANGED <<test, monkey>>
      PROVE  (Conf.chaos => AtWork(test))' <=> (Conf.chaos => AtWork(test))
    BY Zenon, <1>c DEF Conf, AtWork
<1>1. CASE StartMonkey
    <2>1. test \in TestIds /\ pc = "monkey"
        BY Zenon, <1>0, <1>1 DEF StartMonkey, Preparing
    <2>2. CASE /\ pc' = "list"
               /\ monkey' = [monkey EXCEPT ![test] = IF Conf.chaos THEN "sleeping" ELSE "off"]
        <3>1. Conf.chaos => monkey'[test] = "sleeping"
            BY Zenon, <2>1, <2>2 DEF MonkeyInv
        <3> QED
            BY Zenon, <1>1, <2>2, <3>1 DEF StartMonkey, PreparationInv, Preparing, AtWork, Conf
    <2>3. CASE pc' = "dispose"
        BY Zenon, <1>1, <2>3 DEF StartMonkey, PreparationInv, Preparing
    <2> QED
        BY Zenon, <1>1, <2>2, <2>3 DEF StartMonkey
<1>2. CASE ListAutomanagedNamespaces
    BY Zenon, <1>2, <1>c DEF ListAutomanagedNamespaces, PreparationInv, Preparing
<1>3. CASE StaleNamespacesDone
    <2>1. index' = 1 => ReadyBelow(index)'
        <3>1. Tests[test'].number \in Nat
            BY Zenon, <1>0, <1>3, ConfigTypes DEF StaleNamespacesDone, Preparing
        <3> QED
            BY <3>1 DEF ReadyBelow, Conf
    <2> QED
        BY Zenon, <1>3, <1>c, <2>1 DEF StaleNamespacesDone, PreparationInv, Preparing
<1>4. CASE CreateNamespace
    <2>1. /\ Tests[test].number \in Nat /\ index \in Nat
          /\ \A i \in 1 .. Tests[test].number : i \in Nat /\ <<Tests[test].prefix, i>> \in Names
          /\ pc = "create" /\ test' = test
        <3>1. test \in TestIds
            BY Zenon, <1>0, <1>4 DEF CreateNamespace, Preparing
        <3> QED
            BY Zenon, <1>4, <3>1, ConfigTypes DEF CreateNamespace, TypeInv
    <2>2. CASE pc' = "create" /\ index' = index + 1
        <3>1. ASSUME NEW i \in 1 .. Tests[test].number, i = index PROVE NamespaceReady(i)'
            <4>1. /\ namespaces'[<<Tests[test].prefix, i>>] = "active" \/ Tests[test].existing
                  /\ managed'[<<Tests[test].prefix, i>>] \in {"keep", "delete"}
                BY Zenon, <1>4, <2>1, <2>2, <3>1 DEF CreateNamespace, ReturnWithError, Manage,
                   TypeInv, Conf
            <4> QED
                BY Zenon, <2>1, <4>1 DEF NamespaceReady, Conf
        <3>2. ASSUME NEW i \in 1 .. Tests[test].number, i # index, NamespaceReady(i)
              PROVE  NamespaceReady(i)'
            <4>1. /\ namespaces'[<<Tests[test].prefix, i>>] = namespaces[<<Tests[test].prefix, i>>]
                  /\ managed'[<<Tests[test].prefix, i>>] = managed[<<Tests[test].prefix, i>>]
                BY Zenon, <1>4, <2>1, <2>2, <3>2 DEF CreateNamespace, Manage, TypeInv, Conf
            <4> QED
                BY Zenon, <2>1, <3>2, <4>1 DEF NamespaceReady, Conf
        <3>3. ASSUME NEW i \in 1 .. Tests[test].number, i < index' PROVE i = index \/ i < index
            BY <2>1, <2>2, <3>3
        <3>4. ReadyBelow(index)
            BY Zenon, <2>1 DEF PreparationInv
        <3>5. ReadyBelow(index)'
            BY Zenon, <2>1, <3>1, <3>2, <3>3, <3>4 DEF ReadyBelow, Conf
        <3> QED
            BY Zenon, <1>4, <1>c, <2>1, <2>2, <3>5 DEF CreateNamespace, PreparationInv, Preparing
    <2>3. CASE pc' = "dispose"
        BY Zenon, <1>4, <2>3 DEF CreateNamespace, PreparationInv, Preparing
    <2> QED
        BY Zenon, <1>4, <2>1, <2>2, <2>3 DEF CreateNamespace
<1>5. CASE CreateNamespacesDone
    <2>1. /\ Tests[test].number \in Nat /\ index > Tests[test].number /\ ReadyBelow(index)
          /\ Len(Tests[test].dependencies) \in Nat /\ index \in Nat /\ test' = test
        <3>1. test \in TestIds
            BY Zenon, <1>0, <1>5 DEF CreateNamespacesDone, Preparing
        <3> QED
            BY Zenon, <1>5, <3>1, ConfigTypes DEF CreateNamespacesDone, TypeInv, PreparationInv,
               Conf
    <2>2. AllReady
        <3>1. \A i \in 1 .. Tests[test].number : i < index
            BY <2>1
        <3> QED
            BY Zenon, <2>1, <3>1 DEF AllReady, ReadyBelow, Conf
    <2>3. index' = 1 => UpBelow(index)'
        <3>1. \A i \in 1 .. Len(Tests[test].dependencies) : ~(i < 1)
            BY <2>1
        <3> QED
            BY Zenon, <2>1, <3>1 DEF UpBelow, Conf
    <2> QED
        BY Zenon, <1>5, <1>a, <1>c, <2>2, <2>3 DEF CreateNamespacesDone, PreparationInv, Preparing
<1>6. CASE SetupSingleDependency
    <2>1. /\ index \in Nat /\ Len(Tests[test].dependencies) \in Nat
          /\ pc = "dependencies" /\ pc' = "dependencies" /\ test' = test /\ index' = index + 1
        <3>1. test \in TestIds
            BY Zenon, <1>0, <1>6 DEF SetupSingleDependency, Preparing
        <3> QED
            BY Zenon, <1>6, <3>1, ConfigTypes DEF SetupSingleDependency, TypeInv
    <2>2. \/ up' = up \cup {Tests[test].dependencies[index].name} /\ UNCHANGED failed
          \/ test \in failed'
        BY Zenon, <1>6 DEF SetupSingleDependency, Conf
    <2>3. \A i \in 1 .. Len(Tests[test].dependencies) : i < index' => i = index \/ i < index
        BY <2>1
    <2>4. test \in failed' \/ UpBelow(index)'
        BY Zenon, <2>1, <2>2, <2>3 DEF UpBelow, Conf, PreparationInv
    <2> QED
        BY Zenon, <1>6, <1>a, <1>c, <2>1, <2>4 DEF SetupSingleDependency, PreparationInv,
           Preparing
<1>7. CASE SetupDependenciesDone
    <2>1. /\ index \in Nat /\ Len(Tests[test].dependencies) \in Nat
          /\ index > Len(Tests[test].dependencies)
        <3>1. test \in TestIds
            BY Zenon, <1>0, <1>7 DEF SetupDependenciesDone, Preparing
        <3> QED
            BY Zenon, <1>7, <3>1, ConfigTypes DEF SetupDependenciesDone, TypeInv, Conf
    <2>2. \A i \in 1 .. Len(Tests[test].dependencies) : i < index
        BY <2>1
    <2>3. test \in failed \/ AllUp
        BY Zenon, <1>7, <2>2 DEF SetupDependenciesDone, PreparationInv, AllUp, UpBelow, Conf
    <2> QED
        BY Zenon, <1>7, <1>a, <1>b, <1>c, <2>3 DEF SetupDependenciesDone, PreparationInv,
           Preparing
<1>8. CASE StartStep \/ PartEnds \/ StepEnds
    BY Zenon, <1>8, <1>a, <1>b, <1>c DEF StartStep, PartEnds, StepEnds, PreparationInv, Preparing
<1>9. CASE StopMonkey \/ MonkeyStopped \/ Dispose \/ CleanupDone
    BY Zenon, <1>9 DEF StopMonkey, MonkeyStopped, Dispose, CleanupDone, PreparationInv, Preparing
<1>10. CASE TeardownDependency \/ TeardownDone \/ ReportTestFinish
    BY Zenon, <1>10 DEF TeardownDependency, TeardownDone, ReportTestFinish, PreparationInv,
       Preparing
<1>11. CASE NextTest
    <2>1. CASE pc' = "monkey" /\ test' = test + 1
        <3>1. test + 1 \notin stopped
            BY <1>0 DEF MonkeyInv, TypeInv, TestIds
        <3> QED
            BY Zenon, <1>11, <2>1, <3>1 DEF NextTest, PreparationInv, Preparing
    <2>2. CASE pc' # "monkey"
        BY Zenon, <1>11, <2>2 DEF NextTest, PreparationInv, Preparing
    <2> QED
        BY Zenon, <1>11, <2>1, <2>2 DEF NextTest
<1>12. CASE Finish \/ Compile \/ Interrupt
    BY Zenon, <1>12 DEF Finish, Compile, Interrupt, PreparationInv, Preparing
<1>13. ASSUME NEW service, NEW next, SetUpService(service, next),
              service \in Early, next \in Early
      PROVE  PreparationInv'
    BY Zenon, <1>13 DEF SetUpService, Early, PreparationInv, Preparing
<1>14. ASSUME NEW service, NEW at, NEW next, NEW wanted, TearDownService(service, at, next, wanted),
             <<at, next>> \in {<<"prometheusDown", "execDown">>, <<"execDown", "exit">>}
      PROVE  PreparationInv'
    BY Zenon, <1>14 DEF TearDownService, PreparationInv, Preparing
<1>15. ASSUME NEW n \in Names, pc # "exited", RequestDeletion(n) \/ DeletionEnds(n)
      PROVE  PreparationInv'
    BY Zenon, <1>15, <1>c DEF RequestDeletion, DeletionEnds, PreparationInv, Preparing
<1>16. ASSUME NEW n \in Names, NamespaceGone(n) PROVE PreparationInv'
    <2>1. ASSUME NEW i \in 1 .. Conf.number, pc \in Preparing \cup Executing, NamespaceReady(i)
          PROVE  NamespaceReady(i)'
        <3>1. <<Conf.prefix, i>> \in Names
            BY Zenon, <1>0, <2>1, ConfigTypes DEF Conf
        <3> QED
            BY Zenon, <1>16, <2>1, <3>1 DEF NamespaceGone, NamespaceReady, TypeInv, Conf
    <2>2. pc \in Preparing \cup Executing =>
             (AllReady => AllReady') /\ \A k : ReadyBelow(k) => ReadyBelow(k)'
        BY Zenon, <1>16, <2>1 DEF NamespaceGone, AllReady, ReadyBelow, Conf
    <2> QED
        BY Zenon, <1>16, <1>b, <1>c, <2>2 DEF NamespaceGone, PreparationInv, Preparing, Executing
<1>17. ASSUME NEW d, LateSetupEnds(d) PROVE PreparationInv'
    BY Zenon, <1>17, <1>a, <1>b, <1>c DEF LateSetupEnds, PreparationInv, Preparing
<1>18. ASSUME NEW t \in TestIds, MonkeyStep(t) PROVE PreparationInv'
    <2>1. test \in TestIds /\ test \notin stopped => (AtWork(test) => AtWork(test)')
        BY Zenon, <1>18 DEF MonkeyStep, MonkeyStrikes, MonkeyRepairs, MonkeyEnds, MonkeyInv,
           AtWork
    <2> QED
        BY Zenon, <1>0, <1>18, <1>a, <1>b, <2>1 DEF MonkeyStep, PreparationInv, Preparing,
           Executing, Conf
<1>19. CASE UNCHANGED vars
    BY Zenon, <1>19, <1>a, <1>b, <1>c DEF vars, PreparationInv
<1> QED
    BY Zenon, <1>1, <1>2, <1>3, <1>4, <1>5, <1>6, <1>7, <1>8, <1>9, <1>10, <1>11, <1>12, <1>13,
       <1>14, <1>15, <1>16, <1>17, <1>18, <1>19 DEF Next, MainStep, DeletionStep, Terminated,
       Early

\* No step breaks the invariant of the cleanup.
LEMMA CleanupInvStep ==
    MonkeyInv /\ TypeInv /\ PreparationInv /\ CleanupInv /\ [Next]_vars => CleanupInv'
<1> SUFFICES ASSUME MonkeyInv, TypeInv, PreparationInv, CleanupInv, [Next]_vars PROVE CleanupInv'
    BY Zenon
<1> USE DEF CleanupInv, DependenciesGoLast, Conf, cluster, steps, chaos, dependencies, report, Exit,
        ReturnWithError
<1>1. CASE StartMonkey \/ ListAutomanagedNamespaces \/ StaleNamespacesDone \/ CreateNamespace
           \/ CreateNamespacesDone \/ SetupSingleDependency \/ SetupDependenciesDone
    BY Zenon, <1>1 DEF StartMonkey, ListAutomanagedNamespaces, StaleNamespacesDone,
       CreateNamespace, CreateNamespacesDone, SetupSingleDependency, SetupDependenciesDone
<1>2. CASE StartStep \/ PartEnds \/ StepEnds \/ StopMonkey \/ MonkeyStopped
    BY Zenon, <1>2 DEF StartStep, PartEnds, StepEnds, StopMonkey, MonkeyStopped
<1>3. CASE Dispose
    BY Zenon, <1>3 DEF Dispose
<1>4. CASE CleanupDone
    BY Zenon, <1>4 DEF CleanupDone
<1>5. CASE TeardownDependency \/ TeardownDone \/ ReportTestFinish
    BY Zenon, <1>5 DEF TeardownDependency, TeardownDone, ReportTestFinish
<1>6. CASE NextTest \/ Finish \/ Compile \/ Interrupt
    BY Zenon, <1>6 DEF NextTest, Finish, Compile, Interrupt
<1>7. ASSUME NEW service, NEW next, SetUpService(service, next), next \in Early PROVE CleanupInv'
    BY Zenon, <1>7 DEF SetUpService, Early
<1>8. ASSUME NEW service, NEW at, NEW next, NEW wanted, TearDownService(service, at, next, wanted),
             next \in {"execDown", "exit"}
      PROVE  CleanupInv'
    BY Zenon, <1>8 DEF TearDownService
<1>9. ASSUME NEW n \in Names, pc # "exited", RequestDeletion(n) PROVE CleanupInv'
    <2>1. n \in deleting /\ pc # "teardown"
        BY Zenon, <1>9 DEF RequestDeletion, PreparationInv
    <2>2. undeleted' \/ (deleting' \cup waiting' = deleting \cup waiting /\ UNCHANGED undeleted)
        BY <1>9, <2>1 DEF RequestDeletion
    <2> QED
        BY <1>9, <2>1, <2>2 DEF RequestDeletion
<1>10. ASSUME NEW n \in Names, pc # "exited", DeletionEnds(n) PROVE CleanupInv'
    BY <1>10 DEF DeletionEnds, TypeInv, PreparationInv
<1>11. ASSUME NEW n \in Names, NamespaceGone(n) PROVE CleanupInv'
    BY <1>11 DEF NamespaceGone
<1>12. ASSUME NEW d, LateSetupEnds(d) PROVE CleanupInv'
    BY Zenon, <1>12 DEF LateSetupEnds
<1>13. ASSUME NEW t \in TestIds, MonkeyStep(t) PROVE CleanupInv'
    BY <1>13 DEF MonkeyStep
<1>14. CASE UNCHANGED vars
    BY Zenon, <1>14 DEF vars
<1> HIDE DEF CleanupInv
<1> QED
    BY Zenon, <1>1, <1>2, <1>3, <1>4, <1>5, <1>6, <1>7, <1>8, <1>9, <1>10, <1>11, <1>12, <1>13,
       <1>14 DEF Next, MainStep, DeletionStep, Terminated, Early

\* A step uses up at most one fault, and only if a call fails or a timeout passes.
LEMMA FaultsAreCounted == [Next]_vars => UNCHANGED faults \/ Fault \/ TimeoutPasses
<1> SUFFICES ASSUME [Next]_vars PROVE UNCHANGED faults \/ Fault \/ TimeoutPasses
    BY Zenon
<1>1. CASE Compile \/ NextTest \/ StartMonkey \/ ListAutomanagedNamespaces \/ StaleNamespacesDone
    BY Zenon, <1>1 DEF Compile, NextTest, StartMonkey, ListAutomanagedNamespaces,
       StaleNamespacesDone
<1>2. CASE CreateNamespace \/ CreateNamespacesDone \/ SetupSingleDependency
           \/ SetupDependenciesDone
    BY Zenon, <1>2 DEF CreateNamespace, CreateNamespacesDone, SetupSingleDependency,
       SetupDependenciesDone
<1>3. CASE StartStep \/ PartEnds \/ StepEnds \/ StopMonkey \/ MonkeyStopped \/ Dispose
    BY Zenon, <1>3 DEF StartStep, PartEnds, StepEnds, StopMonkey, MonkeyStopped, Dispose
<1>4. CASE CleanupDone \/ TeardownDependency \/ TeardownDone \/ ReportTestFinish \/ Finish
           \/ Interrupt
    BY Zenon, <1>4 DEF CleanupDone, TeardownDependency, TeardownDone, ReportTestFinish, Finish,
       Interrupt
<1>5. ASSUME NEW a, NEW b, NEW c, NEW d, SetUpService(a, b) \/ TearDownService(a, b, c, d)
      PROVE  UNCHANGED faults \/ Fault
    BY Zenon, <1>5 DEF SetUpService, TearDownService
<1>6. ASSUME NEW x, RequestDeletion(x) \/ DeletionEnds(x) \/ NamespaceGone(x) \/ LateSetupEnds(x)
      PROVE  UNCHANGED faults \/ Fault \/ TimeoutPasses
    BY Zenon, <1>6 DEF RequestDeletion, DeletionEnds, NamespaceGone, LateSetupEnds
<1>7. ASSUME NEW t, MonkeyStep(t) PROVE UNCHANGED faults
    BY Zenon, <1>7 DEF MonkeyStep
<1>8. CASE UNCHANGED vars
    BY Zenon, <1>8 DEF vars
<1> QED
    BY Zenon, <1>1, <1>2, <1>3, <1>4, <1>5, <1>6, <1>7, <1>8 DEF Next, MainStep, DeletionStep,
       Terminated

\* As long as no call has failed or timed out, no step leaves anything behind.
LEMMA TidyInvStep ==
    ASSUME MaxFaults # 0
    PROVE  MonkeyInv /\ TypeInv /\ PreparationInv /\ CleanupInv /\ TidyInv /\ [Next]_vars
           => TidyInv'
<1> SUFFICES ASSUME MonkeyInv, TypeInv, PreparationInv, CleanupInv, TidyInv, [Next]_vars,
                    faults' = 0
             PROVE  TidyInv'
    BY Zenon DEF TidyInv
<1>0. faults = 0 /\ ~Fault /\ ~TimeoutPasses
    BY SuiteAssumption, FaultsAreCounted DEF TypeInv, Fault, TimeoutPasses
<1> USE DEF TidyInv, TidyServices, Conf, cluster, steps, chaos, dependencies, report, Exit,
        ReturnWithError, Executing
<1>1. CASE StartMonkey \/ ListAutomanagedNamespaces \/ StaleNamespacesDone
    BY <1>0, <1>1 DEF StartMonkey, ListAutomanagedNamespaces, StaleNamespacesDone
<1>2. CASE CreateNamespace
    BY <1>0, <1>2 DEF CreateNamespace, Manage, TypeInv
<1>3. CASE CreateNamespacesDone \/ SetupDependenciesDone
    BY <1>0, <1>3 DEF CreateNamespacesDone, SetupDependenciesDone
<1>4. CASE SetupSingleDependency
    <2> DEFINE d == Conf.dependencies[index].name
    <2> HIDE DEF d
    <2>1. setUp' = Append(setUp, d) /\ up' = up \cup {d} /\ UNCHANGED late
        BY Zenon, <1>0, <1>4 DEF SetupSingleDependency, d
    <2>2. \A x \in up' : \E i \in 1 .. Len(setUp') : x = setUp'[i]
        <3> SUFFICES ASSUME NEW x \in up' PROVE \E i \in 1 .. Len(setUp') : x = setUp'[i]
            BY Zenon
        <3>1. /\ Len(setUp) \in Nat /\ Len(setUp') = Len(setUp) + 1
              /\ setUp'[Len(setUp) + 1] = d /\ \A i \in 1 .. Len(setUp) : setUp'[i] = setUp[i]
            BY <2>1 DEF TypeInv
        <3>2. CASE x = d
            BY <3>1, <3>2
        <3>3. CASE x \in up
            <4>1. PICK i \in 1 .. Len(setUp) : x = setUp[i]
                BY <1>0, <3>3
            <4> QED
                BY <3>1, <4>1
        <3> QED
            BY Zenon, <2>1, <3>2, <3>3
    <2> QED
        BY Zenon, <1>0, <1>4, <2>1, <2>2 DEF SetupSingleDependency
<1>5. CASE StartStep \/ PartEnds \/ StepEnds \/ StopMonkey \/ MonkeyStopped
    BY <1>0, <1>5 DEF StartStep, PartEnds, StepEnds, StopMonkey, MonkeyStopped
<1>6. CASE Dispose
    BY <1>0, <1>6 DEF Dispose
<1>7. CASE CleanupDone
    BY <1>0, <1>7 DEF CleanupDone, CleanupInv
<1>8. CASE TeardownDependency
    <2>1. PICK k, d : /\ k \in Nat /\ Len(setUp) = k + 1 /\ d = setUp[k + 1]
                      /\ setUp' = SubSeq(setUp, 1, k) /\ up' = up \ {d}
        <3>1. Len(setUp) \in Nat /\ Len(setUp) # 0
            BY <1>8 DEF TeardownDependency, TypeInv
        <3>2. Len(setUp) - 1 \in Nat /\ Len(setUp) = (Len(setUp) - 1) + 1
            BY <3>1
        <3> QED
            BY Zenon, <1>0, <1>8, <3>2 DEF TeardownDependency
    <2>2. Len(setUp') = k /\ \A i \in 1 .. k : setUp'[i] = setUp[i]
        BY <2>1 DEF TypeInv
    <2>3. \A i \in 1 .. Len(setUp) : i = k + 1 \/ i \in 1 .. k
        BY <2>1
    <2>4. \A x \in up' : \E i \in 1 .. Len(setUp') : x = setUp'[i]
        <3> SUFFICES ASSUME NEW x \in up' PROVE \E i \in 1 .. Len(setUp') : x = setUp'[i]
            BY Zenon
        <3>1. x \in up /\ x # d
            BY Zenon, <2>1
        <3>2. PICK i \in 1 .. Len(setUp) : x = setUp[i]
            BY Zenon, <1>0, <3>1
        <3>3. i \in 1 .. k
            BY Zenon, <2>1, <2>3, <3>1, <3>2
        <3> QED
            BY Zenon, <2>2, <3>2, <3>3
    <2> QED
        BY Zenon, <1>0, <1>8, <2>4 DEF TeardownDependency
<1>9. CASE TeardownDone \/ ReportTestFinish \/ NextTest \/ Compile
    BY <1>0, <1>9 DEF TeardownDone, ReportTestFinish, NextTest, Compile
<1>10. CASE Finish \/ Interrupt
    BY <1>0, <1>10 DEF Finish, Interrupt
<1>11. ASSUME NEW service, NEW next, SetUpService(service, next),
              service \in {"prometheus", "exec", "preload"}, next \in Early
      PROVE  TidyInv'
    BY <1>0, <1>11 DEF SetUpService, Early
<1>12. CASE TearDownService("prometheus", "prometheusDown", "execDown",
                       "prometheus" \in Services /\ TearDownServer)
    BY <1>0, <1>12 DEF TearDownService, TypeInv
<1>13. CASE TearDownService("exec", "execDown", "exit", "exec" \in Services)
    BY <1>0, <1>13 DEF TearDownService, TypeInv
<1>14. ASSUME NEW n \in Names, pc # "exited", RequestDeletion(n) PROVE TidyInv'
    BY <1>0, <1>14 DEF RequestDeletion
<1>15. ASSUME NEW n \in Names, pc # "exited", DeletionEnds(n) PROVE TidyInv'
    BY <1>0, <1>15 DEF DeletionEnds, TypeInv
<1>16. ASSUME NEW n \in Names, NamespaceGone(n) PROVE TidyInv'
    BY <1>0, <1>16 DEF NamespaceGone
<1>17. ASSUME NEW d \in late, LateSetupEnds(d) PROVE TidyInv'
    BY Zenon, <1>0, <1>17
<1>18. ASSUME NEW t \in TestIds, MonkeyStep(t) PROVE TidyInv'
    BY <1>0, <1>18 DEF MonkeyStep
<1>19. CASE UNCHANGED vars
    BY <1>0, <1>19 DEF vars
<1> HIDE DEF TidyInv
<1> QED
    BY Zenon, <1>1, <1>2, <1>3, <1>4, <1>5, <1>6, <1>7, <1>8, <1>9, <1>10, <1>11, <1>12, <1>13,
       <1>14, <1>15, <1>16, <1>17, <1>18, <1>19 DEF Next, MainStep, DeletionStep, Terminated,
       Early

SuiteInv == MonkeyInv /\ TypeInv /\ ProgressInv /\ PreparationInv /\ CleanupInv

\* The invariants hold throughout.
THEOREM SuiteInductive == Spec => []SuiteInv
<1>1. Init => SuiteInv
    <2> SUFFICES ASSUME Init PROVE SuiteInv
        BY Zenon
    <2>1. MonkeyInv
        BY InitMonkeyInv
    <2>2. TypeInv
        BY SuiteAssumption DEF Init, TypeInv
    <2>3. ProgressInv
        <3>1. \A t \in TestIds : StepsOf(t) \in Nat /\ ~(t < 0) /\ t # 0
            BY SuiteAssumption, ConfigTypes DEF TestIds
        <3> QED
            BY <3>1 DEF Init, ProgressInv, ExitCodeIsHonest, Reported, Over, Late
    <2>4. PreparationInv /\ CleanupInv
        BY Zenon DEF Init, PreparationInv, Preparing, CleanupInv, DependenciesGoLast
    <2> QED
        BY Zenon, <2>1, <2>2, <2>3, <2>4 DEF SuiteInv
<1>2. SuiteInv /\ [Next]_vars => SuiteInv'
    BY MonkeyInvStep, TypeInvStep, ProgressInvStep, PreparationInvStep, CleanupInvStep DEF
       SuiteInv
<1> QED
    BY <1>1, <1>2, PTL DEF Spec

\* The steps of a test (ExecuteTest) run in the environment the test asks for, whatever
\* failed before and whatever the goroutines of timed out setups, deletions and monkeys
\* do meanwhile.
THEOREM StepsRunPrepared == Spec => []EnvironmentReady
<1>1. SuiteInv => EnvironmentReady
    BY Zenon DEF SuiteInv, PreparationInv, EnvironmentReady, NamespaceReady, AllReady, AllUp,
       AtWork
<1> QED
    BY SuiteInductive, <1>1, PTL

\* TeardownDependencies runs only when the namespaces to be deleted, those of earlier
\* tests included, are gone.
THEOREM TeardownComesLast == Spec => []DependenciesGoLast
<1>1. SuiteInv => DependenciesGoLast
    BY Zenon DEF SuiteInv, CleanupInv
<1> QED
    BY SuiteInductive, <1>1, PTL

\* The exit code of main: 0 only if every step of every test was executed without error,
\* and 1 without a failing call only if a test has errors.
THEOREM ExitCode == Spec => []ExitCodeIsHonest
<1>1. SuiteInv => ExitCodeIsHonest
    BY Zenon DEF SuiteInv, ProgressInv
<1> QED
    BY SuiteInductive, <1>1, PTL

\* An execution in which no call failed or timed out leaves no dependency, no namespace
\* to be deleted and no service behind, whatever errors its tests had.  With a bound of
\* 0 a timeout would leave no mark in faults.
THEOREM NothingIsLeft ==
    ASSUME MaxFaults # 0
    PROVE  Spec => []CleanRunLeavesNothing
<1>1. Init => TidyInv
    BY Zenon DEF Init, TidyInv, TidyServices
<1>2. SuiteInv /\ TidyInv /\ [Next]_vars => TidyInv'
    BY Zenon, TidyInvStep DEF SuiteInv
<1>3. SuiteInv /\ TidyInv => CleanRunLeavesNothing
    <2> SUFFICES ASSUME SuiteInv, TidyInv, exit # -1, faults = 0
                 PROVE  /\ up = {} /\ \A n \in Names : managed[n] # "delete"
                        /\ services \subseteq (IF TearDownServer THEN {} ELSE {"prometheus"})
        BY DEF CleanRunLeavesNothing
    <2>1. pc = "exited"
        BY Zenon DEF SuiteInv, ProgressInv
    <2>2. setUp = <<>> /\ \A d \in up : \E i \in 1 .. Len(setUp) : d = setUp[i]
        BY Zenon, <2>1 DEF TidyInv, Executing
    <2>3. up = {}
        BY <2>2
    <2> QED
        BY Zenon, <2>1, <2>3 DEF TidyInv, TidyServices, Executing
<1> QED
    BY SuiteInductive, <1>1, <1>2, <1>3, PTL DEF Spec
================================================================================
