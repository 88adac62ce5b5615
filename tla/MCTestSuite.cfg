CONSTANTS
    Tests <- MCTests
    Prefixes <- MCPrefixes
    Containing <- MCContaining
    Generated = {"test-qwerty"}
    OldNamespaces <- MCOldNamespaces
    MaxNumber = 2
    Services <- MCServices
    TearDownServer = TRUE
    StuckTeardowns = {}
    MaxFaults = 2

SPECIFICATION Spec

INVARIANTS EnvironmentReady DependenciesGoLast StrayMonkeyOnlyAfterFailedPreparation
           ExitCodeIsHonest CleanRunLeavesNothing
PROPERTY SuiteEnds
