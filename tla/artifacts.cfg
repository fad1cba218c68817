CONSTANTS
    Run = {r1, r2}
    NT = 2
    Schema = {s1, s2}
    NoRun = NoRun
    None = None
SPECIFICATION Spec
INVARIANTS
    AInv
    LoadedIsVerified
    StagingOutlivesPublication
    CleanedIsClean
CHECK_DEADLOCK FALSE
SYMMETRY Runs
