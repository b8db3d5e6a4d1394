CONSTANTS
    c1 = c1
    c2 = c2
    c3 = c3
    c4 = c4
    p1 = p1
    p2 = p2
    p3 = p3
    r1 = r1
    r2 = r2
    r3 = r3
    None = None
    Clients <- MCClients
    Wanted <- MCWanted
    Malformed <- MCMalformed
    MaxQueue = 1
SPECIFICATION FairSpec
CHECK_DEADLOCK FALSE
INVARIANTS
    TypeOK
    ToldAreMapped
    OneReader
    RelayedAsWanted
    MainSurvives
PROPERTY Answered
