SPECIFICATION FairSpec
CONSTANTS
    Sources = {s1}
    Providers = {p1, p2}
    Clients = {c1}
    Worker = Worker
    None = None
    MaxRestarts = 2
    MaxFaults = 1
INVARIANTS
    AnswersAreComplete
    SwapIsExact
    GoneIsErased
PROPERTIES
    StaleIsRebuilt
CHECK_DEADLOCK FALSE
