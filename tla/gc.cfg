SPECIFICATION Spec
CONSTANTS
    Populations <- MCPopulations
    MaxStack = 2
    Keyed = {"table", "ephemeron"}
    MaxEntries = 1
    SweepMax = 1
    Modes = {"inc"}
INVARIANTS TypeOK AccessibleAlive NoForgottenReference
PROPERTY FinalizersInTime
