CONSTANTS
    a = a
    b = b
    c = c
    None = None
    LocCycle <- MCCycle
    Retries = 1
    MaxMoves = 2
SPECIFICATION FairSpec
CHECK_DEADLOCK FALSE
INVARIANTS
    TypeOK
    Seamless
    StruckExplained
PROPERTY Converges
