SPECIFICATION Spec
CONSTANTS
    MaxDocs = 1
    Batches = {b1}
    NoBatch = NoBatch
    Clients = {c1, c2}
    MaxAttempts = 2
    ExpectedItems = {1}
    Offered <- EveryRequest
    MaxDuplicates = 1
    MaxMishaps = 1
SYMMETRY ClientSymmetry
INVARIANTS
    RunningIsOwned
    RecordedSourceHasRaw
    SucceededIsSearchable
    StageIsOwned
PROPERTIES
    SettledIsDiscarded
    FinishedBatchStaysFinished
    ImplementsJobLife
