SPECIFICATION FairSpec
CONSTANTS
    MaxVersion = 3
    MaxArchives = 3
    MaxFaults = 2
    MaxCrashes = 2
INVARIANTS
    UpHasExpected
PROPERTIES
    RecoveryPointFirst
    RestoreEnds
