SPECIFICATION Spec
CONSTANTS
    MaxVersion = 2
    MaxArchives = 2
    MaxFaults = 1
    MaxCrashes = 0
INVARIANTS
    FailedSwitchRollsBack
