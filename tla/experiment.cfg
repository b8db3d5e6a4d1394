CONSTANTS
    alice = alice
    bob = bob
    router = router
    None = None
    Nodes <- MCNodes
    Setups <- MCSetups
SPECIFICATION FairSpec
CHECK_DEADLOCK FALSE
INVARIANTS
    TypeOK
    EndsForAReason
PROPERTY Terminates
