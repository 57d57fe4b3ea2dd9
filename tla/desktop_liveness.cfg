SPECIFICATION FairSpec
CONSTANTS
    Desktops = {d1}
    Cores = {c1, c2}
    None = None
    MaxInbox = 2
    Failures <- FailureKinds
PROPERTIES
    ImplementsCoreLife
    CloseEnds
    RecoveryIsBounded
