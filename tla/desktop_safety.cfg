SPECIFICATION Spec
CONSTANTS
    Desktops = {d1}
    Cores = {c1, c2, c3}
    None = None
    MaxInbox = 2
    Failures <- CoreFailures
SYMMETRY CoreSymmetry
INVARIANTS
    NoOrphan
    HandsOutOwnCore
    ReadyIsDiscoverable
