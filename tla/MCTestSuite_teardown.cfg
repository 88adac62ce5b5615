CONSTANTS
    Tests <- MCTests
    Prefixes <- MCPrefixes
    Containing <- MCContaining
    Generated = {"test-qwerty"}
    OldNamespaces <- MCOldNamespaces
    MaxNumber = 2
    Services <- MCServices
    TearDownServer = TRUE
    StuckTeardowns = {"d1"}
    MaxFaults = 0

SPECIFICATION Spec

PROPERTY TeardownEnds
CHECK_DEADLOCK FALSE
