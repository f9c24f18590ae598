CONSTANTS
    NFrames = 4
    Ch2Start = 2
    RunStep = 1
    MaxSlot = 1
SPECIFICATION Spec
INVARIANTS
    TypeOK
    TimeMatchesData
    GapOnlyInFirstCh1Write
    QuietFramesConsistent
PROPERTY
    RowsNeverGoBack
