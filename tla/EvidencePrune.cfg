SPECIFICATION Spec
CONSTANTS
    Writers = {w1, w2}
    Short = {w1}
    Verifiers = {}
    Settings <- Anchored
    MaxPrunes = 1
    MaxFaults = 0
    Genesis = Genesis
    None = None
CHECK_DEADLOCK FALSE
INVARIANT PruneIsCleanCut
