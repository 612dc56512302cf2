SPECIFICATION Spec
CONSTANTS
    MAXDELTA = 2
    FrameSize = 3
    Counts = {0, 2}
    MaxSlots = 27
    MaxFrames = 5
    MaxVars = 2
    MaxErrors = 2
    MaxYields = 2
INVARIANTS VariablesAreClosed ErrorsInForce ResultsAreDelivered
CHECK_DEADLOCK FALSE
