CONSTANTS
    a = a
    b = b
    mobile = mobile
    peer = peer
    Nodes <- MCNodes
    Locators <- MCLocators
    LocCycle <- MCCycle
    wait_time = 3
SPECIFICATION Spec
INVARIANTS
    TypeOK
    AnnouncedInTime
