SPECIFICATION Spec
CONSTANTS
    r1 = r1
    r2 = r2
    d1 = d1
    d2 = d2
    u1 = u1
    u2 = u2
    NoRun = NoRun
    Run = {r1, r2}
    FullRun = {r1, r2}
    NT = 2
    Date = {d1}
    DateOf <- SameDate
    Screen = {u1}
    StoreFaults = FALSE
SYMMETRY RunSymmetry
INVARIANTS
    IInv
    OneBusyRun
    SuccessReportsTables
    RetriedWasNotPublished
    BundleIsWhole
PROPERTIES
    VerdictIsStable
    ImplementsService
CHECK_DEADLOCK FALSE
