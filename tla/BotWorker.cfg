SPECIFICATION WorkerSpec
CONSTANTS
    Bots = {b1, b2}
    Orders <- RestAndTake
    Qty = 1
    MaxCalls = 3
    MaxReports = 2
    MaxFaults = 1
    MaxRequests = 4
    ReadErrLimit = 2
    Workers = {w1, w2}
    Second = 3
    Rps = 1
    Jitter = 2
    Every = 16
    Duration = 8
    Multiplier = 3
    MaxLag = 1
    LongestDraw = 2
    MaxClock = 48
INVARIANTS
    SessionNeverBlocks
    FillIsOwn
    AnswerIsOwn
    BurstShapesLoad
CHECK_DEADLOCK FALSE
