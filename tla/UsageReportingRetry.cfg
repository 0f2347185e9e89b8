SPECIFICATION Spec
CONSTANTS
    Subjects = {u1, u2}
    Reporters = 1
    Attributing = {1}
    MaxPolls = 2
    MaxSessions = 2
INVARIANTS
    RetryIsAccepted
CHECK_DEADLOCK FALSE
