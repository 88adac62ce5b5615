---------------------------- MODULE MCMeasurements ----------------------------
(***************************************************************************)
(* Measurements that do not interact with each other, checked in one run:  *)
(* focus, chosen in Init and never changed, is the measurement under test. *)
(***************************************************************************)
EXTENDS Integers, Sequences, FiniteSets

VARIABLES focus, st

vars == <<focus, st>>

Availability == INSTANCE ApiAvailability
    WITH HostIPs <- {"h1"}, Threshold <- 60, MaxProbes <- 3, MaxStarts <- 2

Command == INSTANCE PodCommand
    WITH Pods <- {"p1", "p2"}, Commands <- {"c"}, Limit <- 2, FailOn <- {"exitCode", "timeout"},
         MaxTicks <- 2, MaxStarts <- 2
Service == INSTANCE ServiceCreationLatency
    WITH Services <- {"cip", "lb"}, Assigned <- {"lb"}, Workers <- {1, 2}, pingChecks <- 2,
         MaxEvents <- 4
Observer == INSTANCE LatencyObserver
    WITH Kinds <- {"pod", "job", "claim"}, Keys <- {"a", "b"}, MaxEvents <- 3, MaxStarts <- 2
Jobs == INSTANCE WaitForJobs WITH Jobs <- {"j1", "j2"}, MaxEvents <- 5
Ooms == INSTANCE OOMsTracker
    WITH Processes <- {"p", "q"}, Ignored <- {"q"}, MaxEvents <- 3, MaxStarts <- 2
Prometheus == INSTANCE PrometheusStack
    WITH Optional <- {"rbac", "nodeExporter"}, MaxFaults <- 2, MaxRuns <- 2
Preload == INSTANCE ImagePreload WITH Nodes <- {"n1", "n2", "n3"}, MaxChanges <- 1
Resources == INSTANCE ClusterResources
    WITH Kinds <- {"probes", "policy", "exec", "dns"}, MaxFaults <- 2, MaxSetUps <- 2
Network == INSTANCE NetworkPerformance
    WITH Nodes <- {"n1", "n2", "n3"}, NumClients <- 3, MaxUpdates <- 2, MaxStarts <- 2
Collectors == INSTANCE Collectors
    WITH Kinds <- {"profile", "etcd", "throughput", "usage"}, NumHosts <- 2,
         MaxStarts <- 2, MaxGathers <- 2, MaxSamples <- 2
Manager == INSTANCE MeasurementManager
    WITH Steps <- << <<<<"slo", "d">>, <<"slo", "d">>, <<"unknown", "a">>>>,
                     <<<<"bundle", "a">>, <<"prometheus", "b">>>>, <<<<"plain", "a">>>> >>,
         Known <- {"bundle", "slo", "prometheus", "plain"}
Waits == INSTANCE ObjectWaits
    WITH Objects <- {"o1", "o2", "o3"}, Foreign <- {"o3"}, Desired <- 2, MaxNodes <- 2,
         Margin <- 1, MaxFailed <- 1, MaxChanges <- 1
Scheduler == INSTANCE SchedulerLatency
    WITH NumBuckets <- 3, Series <- {1, 2}, Width <- 8, MaxSeen <- 3, MaxRestarts <- 1
Windows == INSTANCE WindowedQueries
    WITH QueryInterval <- 2, MaxEnd <- 5, MaxCount <- 2, Percentiles <- {0, 50}, DefaultPercentile <- 95
Restarts == INSTANCE RestartCounts
    WITH Pods <- {"p1", "p2"}, Overridden <- "p1", Limits <- {0, 1}, MaxRestarts <- 3, MaxRecreations <- 1
Percentiles == INSTANCE PercentileReports
    WITH Pods <- {"p1", "p2", "p3"}, Times <- 0 .. 2, Lengths <- (0 .. 11) \cup {20, 21, 100, 101}, MaxSamples <- 3
Responsiveness == INSTANCE ApiResponsiveness
    WITH Latencies <- {1, 10, 40}, MaxCalls <- 2, Allowed <- {0, 1}, Custom <- {-1, 0, 5}
Step(name, kind, tuningSet) ==
    [name |-> name, kind |-> kind, tuningSet |-> tuningSet, sound |-> TRUE, path |-> "",
     params |-> "", file |-> "", value |-> ""]
ModuleStep(name, path, params) == [Step(name, "module", "") EXCEPT !.path = path, !.params = params]
ModuleFiles ==
    [m |-> <<[Step("a", "phase", "ts") EXCEPT !.file = "m"], [ModuleStep("nested", "n", "") EXCEPT !.file = "m"]>>,
     n |-> <<[Step("b", "measurement", "") EXCEPT !.file = "n"]>>]
StepKinds == {Step("a", "phase", "ts"), Step("", "phase", ""), Step("b", "both", ""),
              [Step("b", "measurement", "") EXCEPT !.sound = FALSE], Step("b", "measurement", ""),
              ModuleStep("module", "m", ""), ModuleStep("module", "m", "p"), ModuleStep("gone", "o", "")}
TuningSetChoices ==
    {{}, {[name |-> "ts", types |-> {"qps"}, positive |-> TRUE]},
     {[name |-> "ts", types |-> {"qps"}, positive |-> FALSE]},
     {[name |-> "ts", types |-> {"qps", "global"}, positive |-> TRUE]}}
Configuration == INSTANCE Configuration
    WITH Modules <- ModuleFiles, TuningSets <- TuningSetChoices,
         ConfigSteps <- {<<>>} \cup (StepKinds \X {Step("a", "phase", "ts"), ModuleStep("module", "m", "p")}),
         Numbers <- {-1, 0, 2}, Overwrites <- {<<>>, <<0>>, <<3>>}, Skips <- {{}, {"a", "b"}}

Init ==
    \/ focus = "availability" /\ Availability!Init
    \/ focus = "command" /\ Command!Init
    \/ focus = "service" /\ Service!Init
    \/ focus = "observer" /\ Observer!Init
    \/ focus = "jobs" /\ Jobs!Init
    \/ focus = "ooms" /\ Ooms!Init
    \/ focus = "prometheus" /\ Prometheus!Init
    \/ focus = "preload" /\ Preload!Init
    \/ focus = "resources" /\ Resources!Init
    \/ focus = "network" /\ Network!Init
    \/ focus = "collectors" /\ Collectors!Init
    \/ focus = "manager" /\ Manager!Init
    \/ focus = "waits" /\ Waits!Init
    \/ focus = "scheduler" /\ Scheduler!Init
    \/ focus = "windows" /\ Windows!Init
    \/ focus = "restarts" /\ Restarts!Init
    \/ focus = "percentiles" /\ Percentiles!Init
    \/ focus = "responsiveness" /\ Responsiveness!Init
    \/ focus = "configuration" /\ Configuration!Init

Next ==
    /\ UNCHANGED focus
    /\ \/ focus = "availability" /\ Availability!Next
       \/ focus = "command" /\ Command!Next
       \/ focus = "service" /\ Service!Next
       \/ focus = "observer" /\ Observer!Next
       \/ focus = "jobs" /\ Jobs!Next
       \/ focus = "ooms" /\ Ooms!Next
       \/ focus = "prometheus" /\ Prometheus!Next
       \/ focus = "preload" /\ Preload!Next
       \/ focus = "resources" /\ Resources!Next
       \/ focus = "network" /\ Network!Next
       \/ focus = "collectors" /\ Collectors!Next
       \/ focus = "manager" /\ Manager!Next
       \/ focus = "waits" /\ Waits!Next
       \/ focus = "scheduler" /\ Scheduler!Next
       \/ focus = "windows" /\ Windows!Next
       \/ focus = "restarts" /\ Restarts!Next
       \/ focus = "percentiles" /\ Percentiles!Next
       \/ focus = "responsiveness" /\ Responsiveness!Next
       \/ focus = "configuration" /\ Configuration!Next

Spec == Init /\ [][Next]_vars

\* See AvailabilityIsExact in ApiAvailability.
AvailabilityIsExact == focus = "availability" => Availability!AvailabilityIsExact

\* See EveryCommandIsReported in PodCommand.
EveryCommandIsReported == [][focus = "command" => Command!EveryCommandIsReported]_vars

\* See ServiceWaitsAreSound in ServiceCreationLatency.
ServiceWaitsAreSound == [][focus = "service" => Service!ServiceWaitsAreSound]_vars

\* See ReportsAreExact in LatencyObserver.
ReportsAreExact == [][focus = "observer" => Observer!ReportsAreExact]_vars

\* See JobsVerdictIsExact in WaitForJobs.
JobsVerdictIsExact == [][focus = "jobs" => Jobs!JobsVerdictIsExact]_vars

\* See EachOOMCountsOnce in OOMsTracker.
EachOOMCountsOnce == [][focus = "ooms" => Ooms!EachOOMCountsOnce]_vars

\* See SetUpAndSnapshotAreSafe in PrometheusStack.
SetUpAndSnapshotAreSafe == [][focus = "prometheus" => Prometheus!SetUpAndSnapshotAreSafe]_vars

\* See PreloadIsExact in ImagePreload.
PreloadIsExact == [][focus = "preload" => Preload!PreloadIsExact]_vars

\* See CleanupIsComplete in ClusterResources.
CleanupIsComplete == focus = "resources" => Resources!CleanupIsComplete

\* See NetworkTestIsComplete in NetworkPerformance.
NetworkTestIsComplete == focus = "network" => Network!NetworkTestIsComplete

\* See CollectorsStop in Collectors.
CollectorsStop == focus = "collectors" => Collectors!CollectorsStop

\* See SummaryHasAllWorkers in Collectors.
SummaryHasAllWorkers == [][focus = "collectors" => Collectors!SummaryHasAllWorkers]_vars

\* See ManagerLosesNothing in MeasurementManager.
ManagerLosesNothing == focus = "manager" => Manager!ManagerLosesNothing

\* See WaitsAreTruthful in ObjectWaits.
WaitsAreTruthful == focus = "waits" => Waits!WaitsAreTruthful

\* See QuantilesCoverTheTest in SchedulerLatency.
QuantilesCoverTheTest == [][focus = "scheduler" => Scheduler!QuantilesCoverTheTest]_vars

\* See WindowsCoverTheTest in WindowedQueries.
WindowsCoverTheTest == focus = "windows" => Windows!WindowsCoverTheTest

\* See RestartsAreCounted in RestartCounts.
RestartsAreCounted == [][focus = "restarts" => Restarts!RestartsAreCounted]_vars

\* See PercentilesAreExact in PercentileReports.
PercentilesAreExact == focus = "percentiles" => Percentiles!PercentilesAreExact

\* See SlowCallsAreReported in ApiResponsiveness.
SlowCallsAreReported == focus = "responsiveness" => Responsiveness!SlowCallsAreReported

\* See RunsWhatWasValidated in Configuration.
RunsWhatWasValidated == focus = "configuration" => Configuration!RunsWhatWasValidated
=============================================================================
