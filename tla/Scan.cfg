CONSTANTS
    Signs <- MCSigns
    Gauss <- MCGauss
    NegInf <- MCNegInf
    Cases <- MCCases
    Queries <- MCQueries
    Filters <- MCFilters
    TopKs = {1, 3}
    None = None
    CHUNK = 9
    RERANK_OVERSAMPLE = 2
    MIN_RERANK_SHORTLIST = 3
SPECIFICATION Spec
INVARIANTS
    
    EncodingKeepsCodes
    OnlyQuantizationLoses
    MetricsAgree
CHECK_DEADLOCK FALSE
