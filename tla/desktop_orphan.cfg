SPECIFICATION Spec
CONSTANTS
    Desktops = {d1}
    Cores = {c1, c2}
    None = None
    MaxInbox = 2
    Failures <- BadReplies
INVARIANTS
    CloseLeavesNoCore
