CONSTANTS
    Ids = {a, b}
    None = None
    MaxWrites = 3
    MaxLog = 3
    MaxBatch = 2
    MaxCrashes = 1
    InitialSlots = 1
    SyncWrites = FALSE
    PowerLosses = TRUE
    Faults = {"put","vsync","log","wsync","apply","fwal","fvec","fmeta","frest","fclear"}
SPECIFICATION Spec
SYMMETRY IdSymmetry
INVARIANTS
    IndInv
    AckedSurvives
CHECK_DEADLOCK FALSE
