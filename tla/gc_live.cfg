SPECIFICATION FairSpec
CONSTANTS
    Populations <- LivePopulations
    MaxStack = 2
    Keyed = {"table", "ephemeron"}
    MaxEntries = 1
    SweepMax = 1
    Modes = {"inc"}
PROPERTY GarbageIsCollected
