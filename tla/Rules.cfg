SPECIFICATION RulesSpec
CONSTANTS
    c1 = c1
    c2 = c2
    c3 = c3
    None = None
    Unused = Unused
    Boots = {"b1", "b2"}
    Dialects = {"postgresql", "mysql"}
    MaxRows = 4
    MaxFaults = 2
CHECK_DEADLOCK FALSE
INVARIANTS
    RulesTypeOK
    AuthorityKept
    AnchorKept
    WeightsKept
    
    ConsensusKept
