SPECIFICATION FairSpec
CONSTANTS
    p1 = p1  p2 = p2  c1 = c1  s1 = s1
    Replicas = {p1, p2}
    Contestants = {c1}
    Submissions = {s1}
    Owner <- OneAttempt
    Snapshots <- TwoRows
    MaxCorr = 1
    CrashPenalty = 10
    TimeoutPenalty = 2
    TopN = 1
    MaxChanges = 3
    MaxFaults = 1
INVARIANTS
    BestIsMax
    ScoredFromOwnRows
PROPERTIES
    ScoresConverge
    FeedsConverge
