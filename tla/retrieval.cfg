SPECIFICATION SearchSpec
CONSTANTS
    Target = 2
    Hard = 4
    Overlap = 1
    MaxTokens = 8
    MaxLevel = 2
    Candidates = 2
    K = 3
    Limit = 2
    Budget = 4
    MaxSearched = 6
INVARIANTS
    EveryTokenIsCovered
    WindowsAdvance
    TitlesAreKept
    AgreementIsKept
    ContextHoldsMatch
