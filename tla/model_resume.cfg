SPECIFICATION Spec
CONSTANTS
    Clients = {c1}
    Threads = {t1}
    MaxJobs = 2
    Assets = 1
    Size = 2
    MaxRequests = 3
    MaxFaults = 1
    MaxRestarts = 1
PROPERTIES
    FailsByFault
CHECK_DEADLOCK FALSE
