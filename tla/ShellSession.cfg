SPECIFICATION FairSpec
CONSTANTS
    QueueCap = 1
    PipeCap = 1
    MaxInput = 6
    MaxOutput = 2
\* Every session comes to its end.
CHECK_DEADLOCK FALSE
INVARIANTS OutputComplete
PROPERTIES ExitEndsSession FilterEnds GoneClientKills
