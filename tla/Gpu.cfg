SPECIFICATION FairSpec
CONSTANTS
    Singles = {s1, s2}
    Batchers = {b1}
    Questions <- MCQuestions
    Cpu = Cpu
    NoOne = NoOne
    MaxCount = 3
    MaxGroup = 2
    MinCapacity = 1
    Budget = 2
    UploadChunk = 1
    BatchScores = 2
INVARIANTS IndInv NeverFindsNothing UploadsFit
PROPERTIES RefinesMirrorPromise EverySearchEnds
