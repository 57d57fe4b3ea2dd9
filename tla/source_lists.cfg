SPECIFICATION Spec
CONSTANTS
    Sources = {1, 2, 3}
    Times = {1, 2}
    PageSize = 2
    History = 1
    MaxClock = 4
INVARIANTS
    UnchangedIsShownOnce
    CollectionsAreKept
