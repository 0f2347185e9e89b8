SPECIFICATION FairSpec
CONSTANTS
    Contents = {c1, c2}
    Unknown = Unknown
    MaxRevision = 2
    MaxStreams = 1
    MaxQueue = 1
    Outcomes = {"converged"}
    AgentVersions = {"same"}
    SubjectWrites = TRUE
    StoreFaults = TRUE
    AdminActions = FALSE
    HealthTraffic = FALSE
PROPERTIES
    StaleOnlyBriefly
