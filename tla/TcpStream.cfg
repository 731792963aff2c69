SPECIFICATION Spec
CONSTANTS
    Cap = 1
    MaxBytes <- Bytes
    MaxDrains = 1
    MayFail = TRUE
\* A finished connection stops.
CHECK_DEADLOCK FALSE
INVARIANTS DrainSound
PROPERTIES PromiseKept
