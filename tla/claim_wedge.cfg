CONSTANTS
    a = a
    b = b
    c = c
    bob = bob
    None = None
    Locators <- MCLocators
    Nids <- MCNids
    LocCycle <- PairCycle
    Packets <- DataOnly
    Sessions <- NoSessions
    Retries = 0
    RoutesAge = FALSE
    SessionsAge = TRUE
    SyscallsFail = FALSE
SPECIFICATION FairSpec
PROPERTY CycleRepeats
