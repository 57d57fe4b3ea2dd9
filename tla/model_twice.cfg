SPECIFICATION Spec
CONSTANTS
    Clients = {c1, c2}
    Threads = {t1, t2}
    MaxJobs = 2
    Assets = 1
    Size = 2
    MaxRequests = 3
    MaxFaults = 0
    MaxRestarts = 1
INVARIANTS
    OneThread
CHECK_DEADLOCK FALSE
