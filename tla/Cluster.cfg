SPECIFICATION ClusterSpec
CONSTANTS
    Calls = {c1, c2}
    Subs = {s1, s2}
    Unlabelled = {s2}
    MaxFaults = 2
    Benchmarks = {b1}
    NumWorkers = {0, 2}
    BackoffLimit = 1
    MaxRuns = 2
    MaxApiFaults = 1
INVARIANTS
    NeverOvercounted
    RunsDontOverlap
PROPERTIES
    CrashIsReported
    StopEndsTheRun
CHECK_DEADLOCK FALSE
