SPECIFICATION Spec
CONSTANTS
    Keys <- MCKeys
    Values = {1}
    MaxInteger = 7
    MAXASIZE = 4
    LIMFORLAST = 2
    Hashes <- MCHashes
    Seeds = {0, 1}
    ListSizes = {3}
INVARIANTS TypeOK EnoughSpace KeyIsFound
PROPERTY IsAMap
