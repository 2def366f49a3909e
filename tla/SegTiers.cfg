SPECIFICATION Spec
CONSTANTS
    MaxBatch = 2
    MergeThreshold = 2
    MergeCap = 4
    MaxBuilds = 1
    Worker = w
    m1 = m1
    m2 = m2
    Maintainers = {m1, m2}
    Loads <- TierLoads
INVARIANTS
    
    ListedHasDirectory
SYMMETRY MaintainerSymmetry
CHECK_DEADLOCK FALSE
