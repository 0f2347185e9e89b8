SPECIFICATION NodeCallsSpec
CONSTANTS
    MaxCalls = 2
    Routes = {"handleRestartNode", "executeBulkRestart", "handleUpdateNodeGeoData",
              "handleUpgradeNodeCore", "handleGetXrayLogs"}
    AgentKnows = {"RestartAdapters", "UpdateGeoData", "UpgradeCore"}
    MaxCmdStreams = 2
    Hosts = {h1}
    MaxNodeRows = 2
    MaxTokens = 2
    MaxEnrolments = 3
    MaxReinstalls = 1
INVARIANTS
    GeoPairLoadedWhole
    EnrolledAsTokenSaid
    HostCanStart
PROPERTIES
    HelloReflectsReality
CHECK_DEADLOCK FALSE
