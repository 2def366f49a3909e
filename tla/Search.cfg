SPECIFICATION Spec
CONSTANTS
    NoPayload = NoPayload
    Shared = Shared
    NoFilter = NoFilter
    Searchers = {"s1", "s2"}
    Initial <- MCInitial
    SealedSegments <- MCSealed
    HotSegment <- MCHot
    Writes <- MCWrites
    Tiers <- MCTiers
    Contexts = 1
    Selective = 1
    SearchListSize = 1
    FilteredFactor = 1
    PlainFactor = 1
    CapFloor = 2
INVARIANTS AnswersAreLegal NothingBetterMissing IndexesAgree 
PROPERTIES RetriesWiden
