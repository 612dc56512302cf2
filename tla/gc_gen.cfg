SPECIFICATION Spec
CONSTANTS
    Populations <- GenPopulations
    MaxStack = 2
    Keyed = {}
    MaxEntries = 1
    SweepMax = 1
    Modes = {"genminor"}
INVARIANTS AccessibleAlive GrayInLists AgesInOrder
