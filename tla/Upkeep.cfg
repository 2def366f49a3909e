SPECIFICATION Spec
CONSTANTS
    StopWords = {}
    Opposing = {6}
    Similarity <- MCSimilarity
    Shared = "shared"
    NoRole = "none"
    HalfLife = 16
    Horizon = 6
    MaxHistory = 3
    Initial <- MCInitial
    NewRecords <- MCNew
    Updates <- MCUpdates
    Doomed <- MCDoomed
    Tiers <- MCTiers
    GistIds <- MCGistIds
    GistVector = "vg"
    Now = 50
INVARIANTS
    VictimsArePinned
    EvictedIsSummarised
    CapIsMet
    
