SPECIFICATION Spec
CONSTANTS
    MaxDocs = 1
    Batches = {}
    NoBatch = NoBatch
    Clients = {c1}
    MaxAttempts = 3
    ExpectedItems = {}
    Offered <- CancelRequests
    MaxDuplicates = 0
    MaxMishaps = 0
INVARIANT
    CanceledIsDiscarded
