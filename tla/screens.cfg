CONSTANTS
    s1 = s1
    s2 = s2
    t1 = t1
    t2 = t2
    a = a
    b = b
    j1 = j1
    j2 = j2
    Tab = {a, b}
    Source = {s1, s2}
    Target = {t1, t2}
    Job = {j1, j2}
    Run = {r1, r2}
    Link <- OneSource
    Deletable = {s2, j1}
    FirstLink <- ToT1
    NoJob = NoJob
    NoAction = NoAction
    NoRun = NoRun
    MaxChanges = 1
SPECIFICATION Spec
SYMMETRY InstanceSymmetry
INVARIANTS
    SInv
    RunsAreClosed
    KnownSourcesAreChecked
PROPERTY FrozenWhileBusy
CHECK_DEADLOCK FALSE
