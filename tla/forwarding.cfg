CONSTANTS
    a = a
    b = b
    c = c
    mobile = mobile
    peer = peer
    router = router
    far = far
    gone = gone
    AllNodes = AllNodes
    None = None
    Nodes <- RingNodes
    Absent <- MCAbsent
    Locators <- RingLocators
    OldLocs <- RingOld
    NewLocs <- RingNew
    Ageing <- RingAgeing
    default_hop_limit = 2
    MaxPackets = 2
SPECIFICATION FairSpec
CHECK_DEADLOCK FALSE
INVARIANTS
    TypeOK
    RoutesLeadOn
    DirectOnce
    DuplicatesExplained
PROPERTY NetworkQuiets
