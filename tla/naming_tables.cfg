CONSTANTS
    a = a
    b = b
    bob = bob
    clare = clare
    None = None
    Hosts <- TwoHosts
    Nid <- NidOfHost
    Locators <- TwoLocators
    Updates <- PairUpdate
    MappingsAge = TRUE
SPECIFICATION Spec
INVARIANTS
    TypeOK
    NamesConsistent
PROPERTY AnnouncementsEntered
SYMMETRY HostSymmetry
