CONSTANTS
    Width = 2
    Key <- Pairs
    Seen <- Exact
    Compared <- Exact
    NoKey = NoKey
    NT = 2
    Batch <- OneThenTwo
    MaxRows = 3
    Limits <- FullOrThree
    Wait <- ShortAndLong
    Reopen = 12
    Gap = 1
    Budget = 27
    Durations <- Slow
    LoadTimes <- Quick
SPECIFICATION Spec
INVARIANTS
    FourfoldPause
CHECK_DEADLOCK FALSE
