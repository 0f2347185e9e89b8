SPECIFICATION LivenessSpec
CONSTANTS
    Contents = {c1, c2}
    Unknown = Unknown
    MaxRevision = 2
    MaxStreams = 3
    MaxQueue = 1
    Outcomes = {"converged"}
    AgentVersions = {"same"}
    SubjectWrites = FALSE
    StoreFaults = FALSE
    AdminActions = FALSE
    HealthTraffic = FALSE
PROPERTIES
    EventuallyConverged
