CONSTANTS
    Models <- MCBoth
    MayFail = TRUE
    OldFile = FALSE
    MaxRuns = 2
    MaxStops = 0
    MaxCrashes = 0
SPECIFICATION FairSpec
INVARIANTS
    CleanMeansSaved
PROPERTIES
    SavedNeverOlder
    
CHECK_DEADLOCK FALSE
