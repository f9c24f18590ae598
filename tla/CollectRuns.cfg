CONSTANTS
    Models = {"ch1"}
    MaxSlot = 2
    MaxPolls = 2
    NSurface = 1
    NLevels = 1
SPECIFICATION FairSpec
INVARIANTS
    RunKeepsItsDirectory
    StatusFollowsRun
    ProgressWithinTotal
    CurrentMeansStored
PROPERTIES
    CacheNeverOlder
    RunsEnd
    CollectedAgain
    RefinesModelRuns
