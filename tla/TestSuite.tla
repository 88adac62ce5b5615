------------------------------ MODULE TestSuite ------------------------------
(***************************************************************************)
(* The life of one execution of ClusterLoader2: main (cmd/clusterloader.go)*)
(* sets up its services, compiles the tests and runs them one after the    *)
(* other; ExecuteTest (pkg/test/simple_test_executor.go) starts the chaos  *)
(* monkey, prepares namespaces and dependencies, executes the steps and,   *)
(* in a deferred call, cleans up.                                          *)
(*                                                                         *)
(* Besides the main goroutine there are the chaos monkeys of the tests,    *)
(* goroutines of dependency setups that timed out, the parallel parts of a *)
(* step, the parallel deletions of namespaces, and the signal handler.     *)
(* What a part of a step does is the subject of other modules; here it has *)
(* an outcome.                                                             *)
(***************************************************************************)
EXTENDS Integers, Sequences, FiniteSets

CONSTANTS
    Tests,              \* sequence of test configurations (TestConfigs)
    Prefixes,           \* prefixes of namespaces
    Containing,         \* prefix -> the prefixes that end with it
    Generated,          \* prefixes of the form "test-<6 letters>"
    OldNamespaces,      \* namespaces left behind by earlier executions
    MaxNumber,          \* bound: namespaces of a test
    Services,           \* enabled among "prometheus", "exec" and "preload"
    TearDownServer,     \* flag: remove the Prometheus stack in the end
    StuckTeardowns,     \* dependencies whose Teardown does not return
    MaxFaults           \* bound: failing calls and timeouts

Names == Prefixes \X (1 .. MaxNumber)
TestIds == 1 .. Len(Tests)
StepKinds == {"measurements", "phases"}
TestConfigs ==
    [prefix: Prefixes, number: 1 .. MaxNumber, existing: BOOLEAN, stale: BOOLEAN,
     delete: BOOLEAN, chaos: BOOLEAN, dependencies: Seq([name: STRING, timeout: BOOLEAN]),
     steps: Seq([kind: StepKinds, parts: Nat])]

ASSUME SuiteAssumption ==
    /\ Tests \in Seq(TestConfigs)
    /\ OldNamespaces \subseteq Names /\ MaxNumber \in Nat /\ MaxFaults \in Nat
    /\ Containing \in [Prefixes -> SUBSET Prefixes] /\ \A p \in Prefixes : p \in Containing[p]

VARIABLES
    pc,             \* where the main goroutine is
    test,           \* the current test
    namespaces,     \* name -> "absent", "active" or "terminating"
    managed,        \* automanagedNamespaces: name -> "no", "keep" or "delete"
    listed,         \* names an earlier LIST returned
    deleting,       \* names whose deletion is still to be requested
    waiting,        \* names whose deletion was requested and is waited for
    undeleted,      \* some deletion failed
    index,          \* loop variable: namespace, dependency or step
    running,        \* parts of the current step that still run
    partErrors,     \* parts of the current step that ended with an error
    critical,       \* an error of the current step is critical
    failed,         \* tests with errors
    executed,       \* test -> number of steps that ended
    stopped,        \* tests whose stopCh is closed
    monkey,         \* test -> state of its chaos monkey
    setUp,          \* setupDependencies of the current test
    late,           \* dependencies whose Setup goes on after the timeout
    up,             \* dependencies that are in the cluster
    services,       \* services that are in the cluster
    failedItems,    \* NumberOfFailedSpecs of the reporter
    exit,           \* exit code, or -1
    faults          \* used-up bound

cluster == <<namespaces, managed, listed, deleting, waiting, undeleted>>
steps == <<running, partErrors, critical, executed>>
chaos == <<stopped, monkey>>
dependencies == <<setUp, late, up>>
report == <<failed, failedItems>>
vars == <<pc, test, index, cluster, steps, chaos, dependencies, services, report, exit, faults>>

Conf == Tests[test]
Fault == faults < MaxFaults /\ faults' = faults + 1

\* A timeout may pass however many faults there were.
TimeoutPasses == faults' = IF faults < MaxFaults THEN faults + 1 ELSE faults

Init ==
    /\ pc = "prometheus" /\ test = 0 /\ index = 0
    /\ namespaces = [n \in Names |-> IF n \in OldNamespaces THEN "active" ELSE "absent"]
    /\ managed = [n \in Names |-> "no"]
    /\ listed = {} /\ deleting = {} /\ waiting = {} /\ undeleted = FALSE
    /\ running = 0 /\ partErrors = 0 /\ critical = FALSE
    /\ executed = [t \in TestIds |-> 0]
    /\ stopped = {} /\ monkey = [t \in TestIds |-> "off"]
    /\ setUp = <<>> /\ late = {} /\ up = {}
    /\ services = {} /\ failed = {} /\ failedItems = 0
    /\ exit = -1 /\ faults = 0

-----------------------------------------------------------------------------
(***************************************************************************)
(* main: services and compilation.  klog.Exitf ends the process at once,   *)
(* and leaves what was set up behind.                                      *)
(***************************************************************************)
Exit(code) == pc' = "exited" /\ exit' = code

\* SetUpPrometheusStack, SetUpExecService and imagepreload.Setup.  A setup that
\* fails may have created its namespace.  The namespace of the image preload
\* is deleted again at the end of its setup.
SetUpService(service, next) ==
    /\ pc = service
    /\ \/ /\ pc' = next
          /\ services' = services \cup (({service} \cap Services) \ {"preload"})
          /\ UNCHANGED <<exit, faults>>
       \/ /\ service \in Services /\ Fault
          /\ \E left \in {{}, {service}} : services' = services \cup left
          /\ Exit(1)
    /\ UNCHANGED <<test, index, cluster, steps, chaos, dependencies, report>>

\* CreateTestContext and CompileTestConfig of all tests.
Compile ==
    /\ pc = "compile"
    /\ \/ pc' = "next" /\ UNCHANGED <<exit, faults>>
       \/ Fault /\ Exit(1)
    /\ UNCHANGED <<test, index, cluster, steps, chaos, dependencies, services, report>>

\* The loop over the contexts, and RunTest, whose modifier may refuse the test.
NextTest ==
    /\ pc = "next"
    /\ \/ /\ test < Len(Tests) /\ test' = test + 1
          /\ \/ pc' = "monkey" /\ UNCHANGED <<failed, faults>>
             \/ Fault /\ failed' = failed \cup {test + 1} /\ pc' = "report"
       \/ /\ test = Len(Tests) /\ pc' = "prometheusDown"
          /\ UNCHANGED <<test, failed, faults>>
    /\ UNCHANGED <<index, cluster, steps, chaos, dependencies, services, failedItems, exit>>

-----------------------------------------------------------------------------
(***************************************************************************)
(* ExecuteTest.  Every return goes through the deferred cleanup.           *)
(***************************************************************************)
ReturnWithError == failed' = failed \cup {test} /\ pc' = "dispose"

\* The chaos monkey is started first; a provider without support for it makes
\* the test fail.
StartMonkey ==
    /\ pc = "monkey"
    /\ \/ /\ monkey' = [monkey EXCEPT ![test] = IF Conf.chaos THEN "sleeping" ELSE "off"]
          /\ pc' = "list"
          /\ UNCHANGED <<stopped, failed, faults>>
       \/ /\ Conf.chaos /\ Fault
          /\ stopped' = stopped \cup {test}
          /\ ReturnWithError
          /\ UNCHANGED monkey
    /\ UNCHANGED <<test, index, cluster, steps, dependencies, services, failedItems, exit>>

Existing == {n \in Names : namespaces[n] # "absent"}

\* isAutomanagedNamespaceCurrentPrefix: the expression is not anchored, so it
\* also matches a longer prefix with the same ending.
OfCurrentPrefix(n) == n[1] \in Containing[Conf.prefix]

\* isStaleAutomanagedNamespace.
IsStale(n) == ~OfCurrentPrefix(n) /\ n[1] \in Generated /\ managed[n] = "no"

\* prepareTestNamespaces: the test is refused if there are namespaces with its
\* prefix; stale namespaces are deleted if asked for.
ListAutomanagedNamespaces ==
    /\ pc = "list"
    /\ \/ /\ {n \in Existing : OfCurrentPrefix(n)} = {} \/ Conf.existing
          /\ pc' = "stale"
          /\ deleting' = IF Conf.stale THEN {n \in Existing : IsStale(n)} ELSE {}
          /\ UNCHANGED <<failed, faults>>
       \/ /\ {n \in Existing : OfCurrentPrefix(n)} # {} /\ ~Conf.existing
          /\ ReturnWithError
          /\ UNCHANGED <<deleting, faults>>
       \/ Fault /\ ReturnWithError /\ UNCHANGED deleting
    /\ UNCHANGED <<test, index, namespaces, managed, listed, waiting, undeleted, steps, chaos,
                   dependencies, services, failedItems, exit>>

\* deleteNamespace, one goroutine per name: request the deletion,
RequestDeletion(n) ==
    /\ n \in deleting /\ deleting' = deleting \ {n}
    /\ \/ /\ namespaces' = [namespaces EXCEPT ![n] = IF @ = "active" THEN "terminating" ELSE @]
          /\ waiting' = waiting \cup {n}
          /\ UNCHANGED <<undeleted, faults>>
       \/ /\ Fault /\ undeleted' = TRUE
          /\ \E s \in {namespaces[n], "terminating"} :
                namespaces' = [namespaces EXCEPT ![n] = IF @ = "absent" THEN @ ELSE s]
          /\ UNCHANGED waiting
    /\ UNCHANGED <<pc, test, index, managed, listed, steps, chaos, dependencies, services,
                   report, exit>>

\* then poll until it is gone or the timeout has passed.
DeletionEnds(n) ==
    /\ n \in waiting /\ waiting' = waiting \ {n}
    /\ \/ /\ namespaces[n] = "absent"
          /\ managed' = [managed EXCEPT ![n] = "no"]
          /\ UNCHANGED <<undeleted, faults>>
       \/ /\ namespaces[n] # "absent"
          /\ TimeoutPasses /\ undeleted' = TRUE
          /\ UNCHANGED managed
    /\ UNCHANGED <<pc, test, index, namespaces, listed, deleting, steps, chaos, dependencies,
                   services, report, exit>>

\* The cluster removes a namespace some time after the request (external).
NamespaceGone(n) ==
    /\ namespaces[n] = "terminating"
    /\ namespaces' = [namespaces EXCEPT ![n] = "absent"]
    /\ UNCHANGED <<pc, test, index, managed, listed, deleting, waiting, undeleted, steps, chaos,
                   dependencies, services, report, exit, faults>>

\* The end of DeleteNamespaces; errors are logged.  CreateAutomanagedNamespaces
\* begins with a LIST of its own.
StaleNamespacesDone ==
    /\ pc = "stale" /\ deleting = {} /\ waiting = {}
    /\ undeleted' = FALSE
    /\ \/ pc' = "create" /\ index' = 1 /\ listed' = Existing /\ UNCHANGED <<failed, faults>>
       \/ Fault /\ ReturnWithError /\ UNCHANGED <<index, listed>>
    /\ UNCHANGED <<test, namespaces, managed, deleting, waiting, steps, chaos, dependencies,
                   services, failedItems, exit>>

Manage(n) == managed' = [managed EXCEPT ![n] = IF Conf.delete THEN "delete" ELSE "keep"]

\* One round of the loop of CreateAutomanagedNamespaces.  A name that was listed
\* is taken over as it is; without enableExistingNamespaces it is an error, which
\* the first LIST has ruled out, because nobody else creates such namespaces.
\* A creation that fails may still have taken effect.
CreateNamespace ==
    /\ pc = "create" /\ index <= Conf.number
    /\ LET n == <<Conf.prefix, index>>
       IN  \/ /\ n \notin listed
              /\ namespaces' = [namespaces EXCEPT ![n] = "active"]
              /\ Manage(n) /\ index' = index + 1
              /\ UNCHANGED <<pc, failed, faults>>
           \/ /\ n \notin listed /\ Fault
              /\ \E s \in {"absent", "active"} : namespaces' = [namespaces EXCEPT ![n] = s]
              /\ ReturnWithError
              /\ UNCHANGED <<managed, index>>
           \/ /\ n \in listed /\ Conf.existing
              /\ Manage(n) /\ index' = index + 1
              /\ UNCHANGED <<namespaces, pc, failed, faults>>
    /\ UNCHANGED <<test, listed, deleting, waiting, undeleted, steps, chaos, dependencies,
                   services, failedItems, exit>>

CreateNamespacesDone ==
    /\ pc = "create" /\ index > Conf.number
    /\ pc' = "dependencies" /\ index' = 1 /\ listed' = {}
    /\ UNCHANGED <<test, namespaces, managed, deleting, waiting, undeleted, steps, chaos,
                   dependencies, services, report, exit, faults>>

-----------------------------------------------------------------------------
(***************************************************************************)
(* Dependencies (pkg/dependency/manager.go).                               *)
(***************************************************************************)

\* setupSingleDependency: after an error or a timeout the loop goes on.  What
\* timed out keeps running; what failed may be there in part.
SetupSingleDependency ==
    /\ pc = "dependencies" /\ index <= Len(Conf.dependencies)
    /\ index' = index + 1
    /\ LET d == Conf.dependencies[index]
       IN  \/ /\ setUp' = Append(setUp, d.name) /\ up' = up \cup {d.name}
              /\ UNCHANGED <<late, failed, faults>>
           \/ /\ Fault /\ failed' = failed \cup {test}
              /\ \E left \in {{}, {d.name}} : up' = up \cup left
              /\ UNCHANGED <<setUp, late>>
           \/ /\ d.timeout /\ TimeoutPasses /\ failed' = failed \cup {test}
              /\ late' = late \cup {d.name}
              /\ UNCHANGED <<setUp, up>>
    /\ UNCHANGED <<pc, test, cluster, steps, chaos, services, failedItems, exit>>

\* The goroutine of a setup that timed out ends, with or without success.
LateSetupEnds(d) ==
    /\ d \in late
    /\ late' = late \ {d}
    /\ \E left \in {{}, {d}} : up' = up \cup left
    /\ UNCHANGED <<pc, test, index, cluster, steps, chaos, setUp, services, report, exit,
                   faults>>

\* Faulty variant: errors of dependencies do not end the test.
SetupDependenciesDone_GoesOn ==
    /\ pc = "dependencies" /\ index > Len(Conf.dependencies)
    /\ pc' = "steps" /\ index' = 1
    /\ UNCHANGED <<test, cluster, steps, chaos, dependencies, services, report, exit, faults>>

\* Errors of dependencies stop the monkey and end the test; nobody waits for the
\* monkey.
SetupDependenciesDone ==
    /\ pc = "dependencies" /\ index > Len(Conf.dependencies)
    /\ \/ /\ test \in failed
          /\ stopped' = stopped \cup {test} /\ pc' = "dispose"
          /\ UNCHANGED index
       \/ /\ test \notin failed
          /\ pc' = "steps" /\ index' = 1
          /\ UNCHANGED stopped
    /\ UNCHANGED <<test, cluster, steps, monkey, dependencies, services, report, exit, faults>>

-----------------------------------------------------------------------------
(***************************************************************************)
(* Steps.                                                                  *)
(***************************************************************************)

\* ExecuteStep starts all measurements or phases of the step in parallel.
StartStep ==
    /\ pc = "steps" /\ index <= Len(Conf.steps)
    /\ pc' = "parts" /\ running' = Conf.steps[index].parts
    /\ partErrors' = 0 /\ critical' = FALSE
    /\ UNCHANGED <<test, index, cluster, executed, chaos, dependencies, services, report, exit,
                   faults>>

\* Faulty variant: a part may end twice.
PartEnds_Twice ==
    /\ pc = "parts" /\ running' = running - 1
    /\ UNCHANGED <<pc, test, index, cluster, partErrors, critical, executed, chaos, dependencies,
                   services, report, exit, faults>>

\* A part ends: AddSubStepResult or AddStepError.  Only a measurement may report
\* a critical error.
PartEnds ==
    /\ pc = "parts" /\ running > 0 /\ running' = running - 1
    /\ \/ UNCHANGED <<partErrors, critical>>
       \/ partErrors' = partErrors + 1 /\ UNCHANGED critical
       \/ /\ Conf.steps[index].kind = "measurements"
          /\ partErrors' = partErrors + 1 /\ critical' = TRUE
    /\ UNCHANGED <<pc, test, index, cluster, executed, chaos, dependencies, services, report,
                   exit, faults>>

\* getAllResults: measurements are reported one by one, phases together.
FailedResults(kind) ==
    IF kind = "measurements" THEN partErrors ELSE IF partErrors > 0 THEN 1 ELSE 0

\* All parts have ended: report, and go on unless an error is critical.
StepEnds ==
    /\ pc = "parts" /\ running = 0
    /\ executed' = [executed EXCEPT ![test] = @ + 1]
    /\ failedItems' = failedItems + FailedResults(Conf.steps[index].kind)
    /\ failed' = IF partErrors > 0 THEN failed \cup {test} ELSE failed
    /\ index' = IF critical THEN Len(Conf.steps) + 1 ELSE index + 1
    /\ pc' = "steps"
    /\ UNCHANGED <<test, cluster, running, partErrors, critical, chaos, dependencies, services,
                   exit, faults>>

\* Faulty variant: stopCh is not closed.
StopMonkey_Forgets ==
    /\ pc = "steps" /\ index > Len(Conf.steps)
    /\ pc' = "wait"
    /\ UNCHANGED <<test, index, cluster, steps, chaos, dependencies, services, report, exit,
                   faults>>

\* The end of ExecuteTest: close(stopCh), wait for the monkey,
StopMonkey ==
    /\ pc = "steps" /\ index > Len(Conf.steps)
    /\ stopped' = stopped \cup {test} /\ pc' = "wait"
    /\ UNCHANGED <<test, index, cluster, steps, monkey, dependencies, services, report, exit,
                   faults>>

\* Faulty variant: the end of the monkey is not waited for.
MonkeyStopped_NoWait ==
    /\ pc = "wait" /\ pc' = "dispose"
    /\ UNCHANGED <<test, index, cluster, steps, chaos, dependencies, services, report, exit,
                   faults>>

\* and write the summaries, where a file that cannot be written is an error.
MonkeyStopped ==
    /\ pc = "wait" /\ monkey[test] \in {"off", "ended"}
    /\ \/ pc' = "dispose" /\ UNCHANGED <<failed, faults>>
       \/ Fault /\ ReturnWithError
    /\ UNCHANGED <<test, index, cluster, steps, chaos, dependencies, services, failedItems, exit>>

\* NodeKiller.Run: between two rounds of failures the monkey looks at stopCh; a
\* round that has begun is finished, with a reboot of its nodes.
MonkeyStrikes(t) ==
    /\ monkey[t] = "sleeping" /\ t \notin stopped
    /\ monkey' = [monkey EXCEPT ![t] = "striking"]

MonkeyRepairs(t) ==
    /\ monkey[t] = "striking"
    /\ monkey' = [monkey EXCEPT ![t] = "sleeping"]

MonkeyEnds(t) ==
    /\ monkey[t] = "sleeping" /\ t \in stopped
    /\ monkey' = [monkey EXCEPT ![t] = "ended"]

MonkeyStep(t) ==
    /\ pc # "exited"
    /\ MonkeyStrikes(t) \/ MonkeyRepairs(t) \/ MonkeyEnds(t)
    /\ UNCHANGED <<pc, test, index, cluster, steps, stopped, dependencies, services, report,
                   exit, faults>>

-----------------------------------------------------------------------------
(***************************************************************************)
(* cleanupTestResourcesAndDependencies, and the report of the test.        *)
(***************************************************************************)

\* Faulty variant: the flag of automanagedNamespaces is read the wrong way round.
Dispose_Inverted ==
    /\ pc = "dispose" /\ pc' = "cleanup"
    /\ deleting' = IF Conf.delete THEN {n \in Names : managed[n] = "keep"} ELSE {}
    /\ UNCHANGED <<test, index, namespaces, managed, listed, waiting, undeleted, steps, chaos,
                   dependencies, services, report, exit, faults>>

\* Measurements are disposed; then all namespaces that are marked for deletion
\* are deleted, those of earlier tests included.
Dispose ==
    /\ pc = "dispose" /\ pc' = "cleanup"
    /\ deleting' = IF Conf.delete THEN {n \in Names : managed[n] = "delete"} ELSE {}
    /\ UNCHANGED <<test, index, namespaces, managed, listed, waiting, undeleted, steps, chaos,
                   dependencies, services, report, exit, faults>>

\* Faulty variant: the cleanup goes on after a failed deletion.
CleanupDone_GoesOn ==
    /\ pc = "cleanup" /\ deleting = {} /\ waiting = {}
    /\ undeleted' = FALSE /\ pc' = "teardown"
    /\ UNCHANGED <<test, index, namespaces, managed, listed, deleting, waiting, steps, chaos,
                   dependencies, services, report, exit, faults>>

\* If a deletion failed, the cleanup returns early: dependencies stay.
CleanupDone ==
    /\ pc = "cleanup" /\ deleting = {} /\ waiting = {}
    /\ undeleted' = FALSE
    /\ \/ undeleted /\ pc' = "report" /\ setUp' = <<>>
       \/ ~undeleted /\ pc' = "teardown" /\ UNCHANGED setUp
    /\ UNCHANGED <<test, index, namespaces, managed, listed, deleting, waiting, steps, chaos,
                   late, up, services, report, exit, faults>>

\* TeardownDependencies: in reverse order, errors are logged.
TeardownDependency ==
    /\ pc = "teardown" /\ setUp # <<>>
    /\ LET d == setUp[Len(setUp)]
       IN  /\ d \notin StuckTeardowns
           /\ setUp' = SubSeq(setUp, 1, Len(setUp) - 1)
           /\ \/ up' = up \ {d} /\ UNCHANGED faults
              \/ Fault /\ UNCHANGED up
    /\ UNCHANGED <<pc, test, index, cluster, steps, chaos, late, services, report, exit>>

TeardownDone ==
    /\ pc = "teardown" /\ setUp = <<>>
    /\ pc' = "report"
    /\ UNCHANGED <<test, index, cluster, steps, chaos, dependencies, services, report, exit,
                   faults>>

\* Faulty variant: only steps count as failed items.
ReportTestFinish_StepsOnly ==
    /\ pc = "report" /\ pc' = "next"
    /\ UNCHANGED <<test, index, cluster, steps, chaos, dependencies, services, report, exit,
                   faults>>

\* ReportTestFinish.
ReportTestFinish ==
    /\ pc = "report" /\ pc' = "next"
    /\ failedItems' = IF test \in failed THEN failedItems + 1 ELSE failedItems
    /\ UNCHANGED <<test, index, cluster, steps, chaos, dependencies, services, failed, exit,
                   faults>>

\* main: Prometheus is removed if asked for, the exec service always; errors are
\* logged.
TearDownService(service, at, next, wanted) ==
    /\ pc = at /\ pc' = next
    /\ \/ services' = (IF wanted THEN services \ {service} ELSE services) /\ UNCHANGED faults
       \/ wanted /\ Fault /\ UNCHANGED services
    /\ UNCHANGED <<test, index, cluster, steps, chaos, dependencies, report, exit>>

\* The exit code is the number of failed items, or rather whether there are any.
Finish ==
    /\ pc = "exit"
    /\ Exit(IF failedItems > 0 THEN 1 ELSE 0)
    /\ UNCHANGED <<test, index, cluster, steps, chaos, dependencies, services, report, faults>>

\* An interrupt ends the process at any time, without any cleanup.
Interrupt ==
    /\ pc # "exited" /\ Fault
    /\ Exit(1)
    /\ UNCHANGED <<test, index, cluster, steps, chaos, dependencies, services, report>>

Terminated == pc = "exited" /\ UNCHANGED vars

-----------------------------------------------------------------------------
MainStep ==
    \/ SetUpService("prometheus", "exec")
    \/ SetUpService("exec", "preload")
    \/ SetUpService("preload", "compile")
    \/ Compile
    \/ NextTest
    \/ StartMonkey
    \/ ListAutomanagedNamespaces
    \/ StaleNamespacesDone
    \/ CreateNamespace
    \/ CreateNamespacesDone
    \/ SetupSingleDependency
    \/ SetupDependenciesDone
    \/ StartStep
    \/ PartEnds
    \/ StepEnds
    \/ StopMonkey
    \/ MonkeyStopped
    \/ Dispose
    \/ CleanupDone
    \/ TeardownDependency
    \/ TeardownDone
    \/ ReportTestFinish
    \/ TearDownService("prometheus", "prometheusDown", "execDown",
                       "prometheus" \in Services /\ TearDownServer)
    \/ TearDownService("exec", "execDown", "exit", "exec" \in Services)
    \/ Finish

DeletionStep(n) == pc # "exited" /\ (RequestDeletion(n) \/ DeletionEnds(n))

Next ==
    \/ MainStep
    \/ Interrupt
    \/ \E n \in Names : DeletionStep(n) \/ NamespaceGone(n)
    \/ \E d \in late : pc # "exited" /\ LateSetupEnds(d)
    \/ \E t \in TestIds : MonkeyStep(t)
    \/ Terminated

\* The main goroutine and the goroutines of deletions run on; a monkey repairs
\* what it has broken and looks at stopCh.
Spec ==
    /\ Init /\ [][Next]_vars
    /\ WF_vars(MainStep)
    /\ \A n \in Names : WF_vars(DeletionStep(n))
    /\ \A t \in TestIds : WF_vars(MonkeyStep(t))

-----------------------------------------------------------------------------
(***************************************************************************)
(* Properties.                                                             *)
(***************************************************************************)
Locations ==
    {"prometheus", "exec", "preload", "compile", "next", "monkey", "list", "stale", "create",
     "dependencies", "steps", "parts", "wait", "dispose", "cleanup", "teardown", "report",
     "prometheusDown", "execDown", "exit", "exited"}
Dependencies ==
    UNION {{Tests[t].dependencies[i].name : i \in 1 .. Len(Tests[t].dependencies)} : t \in TestIds}

\* Type invariant.
TypeOK ==
    /\ pc \in Locations /\ test \in 0 .. Len(Tests) /\ index \in Nat
    /\ namespaces \in [Names -> {"absent", "active", "terminating"}]
    /\ managed \in [Names -> {"no", "keep", "delete"}]
    /\ listed \subseteq Names /\ deleting \subseteq Names /\ waiting \subseteq Names
    /\ running \in Nat /\ partErrors \in Nat /\ critical \in BOOLEAN /\ undeleted \in BOOLEAN
    /\ failed \subseteq TestIds /\ stopped \subseteq TestIds
    /\ \A t \in TestIds : executed[t] \in 0 .. Len(Tests[t].steps)
    /\ monkey \in [TestIds -> {"off", "sleeping", "striking", "ended"}]
    /\ setUp \in Seq(Dependencies) /\ late \subseteq Dependencies /\ up \subseteq Dependencies
    /\ services \subseteq Services /\ failedItems \in Nat
    /\ exit \in {-1, 0, 1} /\ faults \in 0 .. MaxFaults

\* Steps run in the environment the test asks for: its namespaces are managed
\* and active (one that existed before may be on its way out), all of its
\* dependencies are in the cluster, and its monkey, if it has one, is at work.
EnvironmentReady ==
    pc \in {"steps", "parts"} =>
        /\ \A i \in 1 .. Conf.number :
              LET n == <<Conf.prefix, i>>
              IN  managed[n] # "no" /\ (namespaces[n] = "active" \/ Conf.existing)
        /\ \A i \in 1 .. Len(Conf.dependencies) : Conf.dependencies[i].name \in up
        /\ Conf.chaos => monkey[test] \in {"sleeping", "striking"}

\* "Dependencies are torn down after all test resources are cleaned up": when
\* TeardownDependencies runs, no namespace that had to be deleted is left, not
\* even one of an earlier test.
DependenciesGoLast ==
    pc = "teardown" /\ Conf.delete => \A n \in Names : managed[n] # "delete"

\* Test t has returned from ExecuteTest, and the process goes on.
TestIsOver(t) ==
    /\ pc # "exited"
    /\ \/ t < test
       \/ t = test /\ pc \notin {"monkey", "list", "stale", "create", "dependencies", "steps",
                                "parts", "wait"}

\* Nodes fail only during the test that asked for it: a monkey that is still at
\* work after its test belongs to a test that failed before its first step.
StrayMonkeyOnlyAfterFailedPreparation ==
    \A t \in TestIds : TestIsOver(t) /\ monkey[t] \in {"sleeping", "striking"} =>
        t \in failed /\ executed[t] = 0

\* The monkeys of the tests as a user of pkg/chaos sees them.
Monkey == INSTANCE ChaosMonkey WITH Monkeys <- TestIds

\* "Wait for the Chaos Monkey subroutine to end": the monkey of a test has ended
\* when the next test begins.
MonkeyEndsWithTest ==
    \A t \in TestIds : t < test => monkey[t] \in {"off", "ended"}

\* Exit code 0 means that every step of every test was executed, without errors;
\* without failing calls, exit code 1 means that some test has errors.
ExitCodeIsHonest ==
    /\ exit = 0 => failed = {} /\ \A t \in TestIds : executed[t] = Len(Tests[t].steps)
    /\ exit = 1 /\ faults = 0 => failed # {}

\* If no call failed or timed out and nothing was interrupted, nothing is left,
\* whatever errors the tests had: no dependency, no namespace to be deleted,
\* and no service except a Prometheus that is to stay.
CleanRunLeavesNothing ==
    exit # -1 /\ faults = 0 =>
        /\ up = {} /\ \A n \in Names : managed[n] # "delete"
        /\ services \subseteq (IF TearDownServer THEN {} ELSE {"prometheus"})

\* The execution ends, even if setups of dependencies and deletions of
\* namespaces hang: those have timeouts.
SuiteEnds == <>(pc = "exited")

\* "Timeout is the maximum duration for both setup and teardown operations":
\* the teardown of dependencies ends.
TeardownEnds == pc = "teardown" ~> pc # "teardown"

=============================================================================
