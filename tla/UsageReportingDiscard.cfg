SPECIFICATION Spec
CONSTANTS
    Subjects = {u1, u2}
    Reporters = 2
    Attributing = {1}
    MaxPolls = 1
    MaxSessions = 1
INVARIANTS
    NoSampleDiscarded
CHECK_DEADLOCK FALSE
