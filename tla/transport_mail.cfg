CONSTANTS
    port1 = port1
    port2 = port2
    Ports <- TwoPorts
    Blocking <- OnePort
    MaxMessages = 4
SPECIFICATION FairSpec
CHECK_DEADLOCK FALSE
INVARIANT TypeOK
PROPERTY ImplementsMailbox
PROPERTY NextMessageFlushes
