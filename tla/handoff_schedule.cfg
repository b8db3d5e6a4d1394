CONSTANTS
    a = a
    b = b
    c = c
    bob = bob
    None = None
    Locators <- MCLocators
    Nids <- MCNids
    LocCycle <- PairCycle
    Packets <- NoPackets
    Sessions <- TwoSessions
    Retries = 2
    RoutesAge = FALSE
    SessionsAge = FALSE
    SyscallsFail = FALSE
SPECIFICATION FairSpec
INVARIANT NeverIsolated
PROPERTIES
    CycleRepeats
    LeavesRepeat
