SPECIFICATION Spec
CONSTANTS
    Subjects = {u1}
    MaxDeltas = 2
    MaxTime = 5
    HourTicks = 2
    DayHours = 2
    Retention = 3
PROPERTIES
    RepairKeepsFolded
CHECK_DEADLOCK FALSE
