CONSTANTS
    Files = {"w", "u", "p"}
    Levels = {"w", "u"}
    FirstU = "u"
    Baseline = {"p"}
    Kind <- MCKind
    Concurrency = 1
    Bodies = {"stub", "junk", "whole"}
    Partials = {"cut", "short"}
    MaxStarts = 2
SPECIFICATION FairSpec
INVARIANTS
    TypeOK
    GridReadsWhatStationsRead
    KeptFilesStay
    UnreadableIsDiscarded
PROPERTIES
    RunEnds
CHECK_DEADLOCK FALSE
