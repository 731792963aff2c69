SPECIFICATION FairSpec
CONSTANTS
    Cap = 1
    MaxBytes <- OneByte
    MaxDrains = 1
    MayFail = FALSE
\* A finished connection stops.
CHECK_DEADLOCK FALSE
PROPERTIES DialResolved ShutdownArrives DrainEnds LinksReclaimed
