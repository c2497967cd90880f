SPECIFICATION FairSpec
CONSTANTS
    Calls = {c1, c2}
    Subs = {s1}
    Unlabelled = {}
    MaxFaults = 0
PROPERTY
    ReplacedPodKeepsHistory
CHECK_DEADLOCK FALSE
