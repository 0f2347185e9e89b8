SPECIFICATION Spec
CONSTANTS
    Contents = {c1, c2}
    Unknown = Unknown
    MaxRevision = 2
    MaxStreams = 3
    MaxQueue = 1
    Outcomes = {"converged"}
    AgentVersions = {"same"}
    SubjectWrites = TRUE
    StoreFaults = TRUE
    AdminActions = FALSE
    HealthTraffic = FALSE
SYMMETRY ContentSymmetry
INVARIANTS
    AppliedWasConfirmed
    RegisteredStreamIsLive
    NoLostWakeUp
    NoFalseAlarm
PROPERTIES
    ImplementsDesiredState
