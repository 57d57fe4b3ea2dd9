SPECIFICATION FairSpec
CONSTANTS
    MaxDocs = 2
    Batches = {b1}
    NoBatch = NoBatch
    Clients = {c1, c2}
    MaxAttempts = 2
    ExpectedItems = {1}
    Offered <- QueueRequests
    MaxDuplicates = 0
    MaxMishaps = 0
PROPERTIES
    LeasableIsTaken
    BatchEnds
    AttemptEnds
    StopCompletes
