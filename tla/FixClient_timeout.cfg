SPECIFICATION Spec
CONSTANTS
    Bots = {b1}
    Orders <- RestAndTake
    Qty = 1
    MaxCalls = 2
    MaxReports = 1
    MaxFaults = 0
INVARIANT
    TimeoutScoredAsTimeout
CHECK_DEADLOCK FALSE
