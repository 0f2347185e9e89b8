SPECIFICATION Spec
CONSTANTS
    Contents = {c1, c2}
    Unknown = Unknown
    MaxRevision = 2
    MaxStreams = 1
    MaxQueue = 1
    Outcomes = {"converged"}
    AgentVersions = {"same"}
    SubjectWrites = TRUE
    StoreFaults = FALSE
    AdminActions = FALSE
    HealthTraffic = FALSE
INVARIANTS
    LabelDescribesDocument
