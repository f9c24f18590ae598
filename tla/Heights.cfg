CONSTANTS
    NHalf = 4
    Heights = {0, 1, 2, 3, 5}
    Values = {0, 3}
    Quantum = 2
    Targets <- MCTargets
SPECIFICATION Spec
INVARIANTS
    LinearWindReproduced
    NullExactlyOutside
    BetweenNeighbours
CHECK_DEADLOCK FALSE
