SPECIFICATION Spec
CONSTANTS
    r1 = r1
    r2 = r2
    d1 = d1
    d2 = d2
    u1 = u1
    u2 = u2
    NoRun = NoRun
    Run = {r1}
    FullRun = {r1}
    NT = 1
    Date = {d1}
    DateOf <- SameDate
    Screen = {u1}
    StoreFaults = TRUE
PROPERTIES
    SuccessIsDurable
CHECK_DEADLOCK FALSE
