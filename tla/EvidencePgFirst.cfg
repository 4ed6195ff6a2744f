SPECIFICATION Spec
CONSTANTS
    Writers = {w1, w2}
    Short = {}
    Verifiers = {}
    Settings <- PostgresFirst
    MaxPrunes = 0
    MaxFaults = 0
    Genesis = Genesis
    None = None
CHECK_DEADLOCK FALSE
INVARIANT OneChain
