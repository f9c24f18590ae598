CONSTANTS
    s1 = s1
    Stations = {s1}
    Ch1Hours = 3
    LastHorizon = 4
    RunStep = 1
    Cells <- MCCells
    WindCells <- MCWindCells
    BelowTerrain <- MCBelowTerrain
    LostSets <- MCLostSets
    MaxBuilds = 3
    MaxSlot = 1
SPECIFICATION Spec
INVARIANTS
    PrevIsPredecessor
    HoursStrictlyIncreasing
    NeverStalerThanPredecessor
    BackfillNeverHidesNewer
    QuietNullHoursBackfilled
