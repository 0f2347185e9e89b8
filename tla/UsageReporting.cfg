SPECIFICATION FairSpec
CONSTANTS
    Subjects = {u1, u2}
    Reporters = 2
    Attributing = {1}
    MaxPolls = 2
    MaxSessions = 2
INVARIANTS
    TypeOK
    CountedAtMostOnce
    CountedAsStored
PROPERTIES
    EventuallyCounted
CHECK_DEADLOCK FALSE
