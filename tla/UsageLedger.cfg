SPECIFICATION Spec
CONSTANTS
    Subjects = {u1, u2}
    MaxDeltas = 3
    MaxTime = 6
    HourTicks = 2
    DayHours = 2
    Retention = 3
INVARIANTS
    TypeOK
    FoldedExactlyOnce
    DailyFollowsHourly
    QuotaWindowIsExact
PROPERTIES
    PrunedBucketIsFinal
CHECK_DEADLOCK FALSE
