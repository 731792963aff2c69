SPECIFICATION Spec
CONSTANTS
    Dials = {d1, d2}
    MaxConnections = 2
\* Every dial may be over.
CHECK_DEADLOCK FALSE
INVARIANTS ToldTheRemote
