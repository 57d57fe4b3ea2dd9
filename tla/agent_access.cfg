SPECIFICATION Spec
CONSTANTS
    l1 = l1
    l2 = l2
    s1 = s1
    MaxIds = 2
    Owners = {o1, o2}
    Agents = {a1}
    Checks = {k1}
    Libraries = {l1, l2}
    Sources = {s1}
    LibraryOf <- MCLibraryOf
    Limit = 1
    MaxCalls = 1
    MaxStarts = 2
    MaxFaults = 1
SYMMETRY Symmetry
INVARIANTS
    NoReadAfterRevocation
    AnswerIsGranted
    ListedHasSecret
    LimitHolds
CHECK_DEADLOCK FALSE
