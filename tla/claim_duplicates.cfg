CONSTANTS
    a = a
    b = b
    c = c
    mobile = mobile
    peer = peer
    router = router
    far = far
    gone = gone
    AllNodes = AllNodes
    None = None
    Nodes <- PairNodes
    Absent <- MCAbsent
    Locators <- PairLocators
    OldLocs <- PairOld
    NewLocs <- PairNew
    Ageing <- PairAgeing
    default_hop_limit = 2
    MaxPackets = 2
SPECIFICATION Spec
CHECK_DEADLOCK FALSE
INVARIANT NoDuplicates
