CONSTANTS
    Ids = {a, b}
    None = None
    MaxWrites = 3
    MaxLog = 4
    MaxBatch = 2
    MaxCrashes = 2
    InitialSlots = 2
    SyncWrites = FALSE
    PowerLosses = FALSE
    Faults = {}
SPECIFICATION FairSpec

    
PROPERTIES
    RefinesPromise
    EverythingEnds
