SPECIFICATION Spec
CONSTANTS
    Caps = {1, 2}
    Events = {e1}
    Cost = 1
    Window = 1
    Life = 2
    Horizon = 1
    MaxChanges = 2
    MaxReports = 1
    None = None
CHECK_DEADLOCK FALSE
INVARIANT LatestDefaultApplies
