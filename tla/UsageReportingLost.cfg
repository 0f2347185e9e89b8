SPECIFICATION Spec
CONSTANTS
    Subjects = {u1, u2}
    Reporters = 1
    Attributing = {1}
    MaxPolls = 1
    MaxSessions = 2
INVARIANTS
    NothingLost
CHECK_DEADLOCK FALSE
