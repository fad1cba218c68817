SPECIFICATION Spec
CONSTANTS
    Files <- SmallFiles
    MaxRows = 2
    MaxBytes = 3
    Retries = 2
INVARIANTS
    LoadedIsFile
    ProgressIsStored
    BatchesCoverFile
CHECK_DEADLOCK FALSE
