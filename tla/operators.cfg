SPECIFICATION Spec
CONSTANTS
    Null = 0
    Supported = {"int", "date", "timestamp"}
    Timestamp = "timestamp"
    Date = "date"
    DateName = "snapshot_date"
    DateNames = {"snapshot_date", "SNAPSHOT_DATE"}
    Keys <- SomeKeys
    ServerRank <- KeyOrder
    ReprRank <- ReprOrder
    Sources <- SourceTables
    Targets <- TargetTables
    Values <- SomeValues
    Days <- SomeDays
    DayRows <- SomeDayRows
    RowLimits = {1, 2, 4}
    Limits = {1, 3, 8}
    Times <- SomeTimes
    Micro = 10
    Second = 60
    Hour = 60
    Day = 24
INVARIANTS
    CreatedIsAccepted
    KeysTellRowsApart
    AcceptedTakesSnapshots
    ComparisonIsWhole
    ComparisonIsMarked
    TimeIsKept
CHECK_DEADLOCK FALSE
