CONSTANTS
    Models = {"ch1"}
    MaxSlot = 0
    MaxPolls = 1
    NSurface = 1
    NLevels = 0
SPECIFICATION Spec
INVARIANT NoGridsRunVisible
