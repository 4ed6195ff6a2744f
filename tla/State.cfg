SPECIFICATION StateSpec
CONSTANTS
    c1 = c1
    c2 = c2
    c3 = c3
    c4 = c4
    None = None
    Never = Never
    Untimed = Untimed
    Unused = Unused
    Recs = {"r", "s"}
    ValueOf <- Asked
    Allowlists = {{"r"}, {"s"}}
    Calls <- Decisions
    Default = 5
    Chosen = {6}
    MaxCrashes = 1
CHECK_DEADLOCK FALSE
INVARIANTS
    StateTypeOK
    
    AgentsKept
    InboundKept
    TrustKept
    LimitsKept
    SpendKept
    IngestKept
