SPECIFICATION Spec
CONSTANTS
    StopWords = {}
    Opposing = {}
    Nothing = Nothing
    NoScope = "none"
    Scopes <- MCScopes
    ClampHigh = 800
    SeedHops = 2
    MaxCandidates = 4
    Inputs <- MCInputs
    Opening <- MCOpening
    Queries <- MCQueries
    Callers <- MCCallers
    Hits <- MCHits
    Importances = {4}
    TopK = 2
    MaxConcepts = 2
    AbstractAt = 2
    MergeAt = 60
    HubPercent = 80
    MaxPairs = 1
    MaxSteps = 3
INVARIANTS
    GraphSound
    ConceptLayerSound
    
    SnapshotsAgree
    
CHECK_DEADLOCK FALSE
