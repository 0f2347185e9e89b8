SPECIFICATION Spec
CONSTANTS
    Subjects = {u1}
    MaxDeltas = 2
    MaxTime = 3
    HourTicks = 2
    DayHours = 2
    Retention = 3
INVARIANTS
    NeverInflated
CHECK_DEADLOCK FALSE
