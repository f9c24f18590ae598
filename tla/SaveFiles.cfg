CONSTANTS
    Models <- MCBoth
    MayFail = TRUE
    OldFile = TRUE
    MaxRuns = 2
    MaxStops = 1
    MaxCrashes = 1
SPECIFICATION FairSpec
INVARIANTS
    TmpMeansInterrupted
PROPERTIES
    FileAlwaysComplete
    SavedNeverOlder
    RefinesDurableCache
    SavesEnd
CHECK_DEADLOCK FALSE
