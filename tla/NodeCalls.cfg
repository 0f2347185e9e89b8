SPECIFICATION NodeCallsSpec
CONSTANTS
    MaxCalls = 2
    Routes = {"handleRestartNode", "executeBulkRestart", "handleUpdateNodeGeoData",
              "handleUpgradeNodeCore", "handleGetXrayLogs"}
    AgentKnows = {"RestartAdapters", "UpdateGeoData", "UpgradeCore"}
    MaxCmdStreams = 2
    Hosts = {h1}
    MaxNodeRows = 1
    MaxTokens = 2
    MaxEnrolments = 3
    MaxReinstalls = 1
INVARIANTS
    NodeCallsTypeOK
    UpgradeAllOrNothing
    RecordedWasInstalled
    TokenEnrolsOnce
    EnrolledHostCanConnect
PROPERTIES
    CommandAtMostOnce
CHECK_DEADLOCK FALSE
