SPECIFICATION Spec
CONSTANTS
    Contents = {c1, c2}
    Unknown = Unknown
    MaxRevision = 1
    MaxStreams = 2
    MaxQueue = 1
    Outcomes = {"converged"}
    AgentVersions = {"same"}
    SubjectWrites = FALSE
    StoreFaults = FALSE
    AdminActions = TRUE
    HealthTraffic = TRUE
PROPERTIES
    TransitionsFollowTable
