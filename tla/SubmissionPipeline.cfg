SPECIFICATION FairSpec
CONSTANTS
    Subs = {s1, s2, s3}
    NoJob = none
    QueueCap = 1
    PushAttempts = 2
    MaxFaults = 2
INVARIANTS
    OnlyScannedImagesRun
PROPERTIES
    SettledStaysSettled
    AcceptedSettles
CHECK_DEADLOCK FALSE
