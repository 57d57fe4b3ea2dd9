SPECIFICATION FairSpec
CONSTANTS
    Sources = {s1}
    Providers = {p1, p2}
    Clients = {c1}
    Worker = Worker
    None = None
    MaxRestarts = 1
    MaxFaults = 0
PROPERTIES
    ChangedProviderIsRebuilt
CHECK_DEADLOCK FALSE
