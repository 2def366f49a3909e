SPECIFICATION FairSpec
CONSTANTS
    MaxBatch = 2
    MergeThreshold = 2
    MergeCap = 4
    MaxBuilds = 1
    Worker = w
    m1 = m1
    Maintainers = {m1}
    Loads <- SerialLoads
INVARIANTS
    DistinctDirectories
    VisibleExceptSealing
PROPERTIES
    SealsAreBuilt
CHECK_DEADLOCK FALSE
