SPECIFICATION FairSpec
CONSTANTS
    r1 = r1  r2 = r2  bad = bad  anon = anon
    Undecodable = bad
    Anonymous = anon
    Runs = {r1, r2}
    Events <- MixedEvents
    Lats = {1, 2}
    Window = 2
    HistoryCaps = {1, 2}
    MaxLog = 2
    MaxTime = 5
    MaxFaults = 1
INVARIANTS
    WholeRunConserved
    MergedPathsAgree
    ScrapeIsFresh
    DurationWithinElapsed
PROPERTY
    EventuallyRecorded
CHECK_DEADLOCK FALSE
