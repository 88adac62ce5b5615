CONSTANTS
    Tests <- RefusedTests
    Prefixes <- MCPrefixes
    Containing <- MCContaining
    Generated = {"test-qwerty"}
    OldNamespaces <- MCOldNamespaces
    MaxNumber = 2
    Services <- MCServices
    TearDownServer = TRUE
    StuckTeardowns = {}
    MaxFaults = 0

SPECIFICATION Spec

INVARIANT MonkeyEndsWithTest
