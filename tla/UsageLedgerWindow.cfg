SPECIFICATION Spec
CONSTANTS
    Subjects = {u1}
    MaxDeltas = 1
    MaxTime = 4
    HourTicks = 2
    DayHours = 2
    Retention = 3
INVARIANTS
    InExactlyOneBranch
CHECK_DEADLOCK FALSE
