SPECIFICATION Spec
CONSTANTS
    r1 = r1
    r2 = r2
    d1 = d1
    d2 = d2
    u1 = u1
    u2 = u2
    NoRun = NoRun
    Run = {r1, r2}
    FullRun = {r1}
    NT = 1
    Date = {d1, d2}
    DateOf <- TwoDates
    Screen = {u1, u2}
    StoreFaults = FALSE
SYMMETRY ScreenSymmetry
INVARIANTS
    WorkerOwnsRun
    VerdictMatchesTarget
PROPERTIES
    CancelClosesGate
CHECK_DEADLOCK FALSE
