SPECIFICATION FairSpec
CONSTANTS
    r1 = r1
    r2 = r2
    d1 = d1
    d2 = d2
    u1 = u1
    u2 = u2
    NoRun = NoRun
    Run = {r1}
    FullRun = {r1}
    NT = 2
    Date = {d1}
    DateOf <- SameDate
    Screen = {u1}
    StoreFaults = TRUE
INVARIANTS
    SuccessWasCommitted
PROPERTIES
    ActiveRunEnds
    PendingIsResolved
CHECK_DEADLOCK FALSE
