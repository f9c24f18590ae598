CONSTANTS
    Models = {"ch1", "ch2"}
    MaxSlot = 0
    MaxPolls = 1
    NSurface = 1
    NLevels = 0
SPECIFICATION Spec
INVARIANTS
    WarmUpReachesAll
