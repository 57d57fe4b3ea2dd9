SPECIFICATION FairSpec
CONSTANTS
    Clients = {c1, c2}
    Threads = {t1, t2}
    MaxJobs = 2
    Assets = 2
    Size = 2
    MaxRequests = 3
    MaxFaults = 1
    MaxRestarts = 1
INVARIANTS
    RunningIsDriven
    SucceededIsInstalled
    PartIsSound
PROPERTIES
    WholeStaysWhole
    RestartResumes
CHECK_DEADLOCK FALSE
