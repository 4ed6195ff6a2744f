SPECIFICATION Spec
CONSTANTS
    Writers = {w1, w2}
    Short = {}
    Verifiers = {v1}
    Settings <- Anchored
    MaxPrunes = 0
    MaxFaults = 0
    Genesis = Genesis
    None = None
CHECK_DEADLOCK FALSE
INVARIANT NoFalseAlarm
