SPECIFICATION FairSpec
CONSTANTS
    MaxDocs = 1
    Batches = {b1}
    NoBatch = NoBatch
    Clients = {c1}
    MaxAttempts = 3
    ExpectedItems = {1}
    Offered <- PauseRequests
    MaxDuplicates = 0
    MaxMishaps = 0
PROPERTY
    ExhaustedLeavesQueue
