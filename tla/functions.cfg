SPECIFICATION Spec
CONSTANTS
    MAXCCALLS = 6
    LUA_MAXCAPTURES = 2
    NVars = 2
    NLocals = 2
    NResults = 2
    LIMLINEDIFF = 3
    MAXIWTHABS = 4
    RANLIMIT = 4
    IMBALANCE = 2
    W = 4
    NB = 2
    INT_MAX = 3
    NBM = 2
    Ten = 3
    Hex = 4
    MAX_LMEM = 32767
    OFFSET_sC = 1
    MAXARG_C = 3
    MAXTAGLOOP = 3
INVARIANTS
    MatchIsBest
    ScansAreRight
    CodeComputes
    OperatorsCompute
    ScopesClose
    LibraryIsSafe
    LibrariesAsIn51
    NumbersAreExact
CHECK_DEADLOCK FALSE
