CONSTANTS
    Ids = {a, b}
    None = None
    MaxWrites = 3
    MaxLog = 4
    MaxBatch = 2
    MaxCrashes = 2
    InitialSlots = 2
    SyncWrites = TRUE
    PowerLosses = TRUE
    Faults = {"put", "vsync", "log", "apply", "fwal", "fvec", "fmeta", "frest", "fclear"}
SPECIFICATION Spec
SYMMETRY IdSymmetry
INVARIANTS
    AckedSurvives
    OneRecordPerId
    CacheIsDurable
CHECK_DEADLOCK FALSE
