CONSTANTS
    a = a
    b = b
    bob = bob
    clare = clare
    None = None
    Hosts <- OneHost
    Nid <- NidOfHost
    Locators <- TwoLocators
    Updates <- MCUpdates
    MappingsAge = FALSE
SPECIFICATION Spec
INVARIANT EntriesKnown
