CONSTANTS
    NHours = 3
    Components <- MCComponents
    Totals <- MCTotals
    HasPrior = TRUE
SPECIFICATION Spec
INVARIANTS
    GridNeverDoubled
    LostOnlyAfterGap
CHECK_DEADLOCK FALSE
