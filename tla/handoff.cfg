CONSTANTS
    a = a
    b = b
    c = c
    bob = bob
    None = None
    Locators <- MCLocators
    Nids <- MCNids
    LocCycle <- TurnCycle
    Packets <- SomeOfEach
    Sessions <- OneSession
    Retries = 1
    RoutesAge = TRUE
    SessionsAge = TRUE
    SyscallsFail = TRUE
SPECIFICATION FairSpec
INVARIANTS
    TypeOK
    PinnedRoutesJoined
    HandoffComplete
    NeverIsolated
PROPERTIES
    ImplementsSoftHandoff
    HandoffTerminates
