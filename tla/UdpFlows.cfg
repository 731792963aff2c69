SPECIFICATION FairSpec
CONSTANTS
    Flow = {f1, f2}
    Generation = {g1, g2, g3}
    MaxFlows = 1
    Backlog = 1
\* The bound on generations stops a run.
CHECK_DEADLOCK FALSE
INVARIANTS OneOpenStream SendsCurrent OpenOwned
PROPERTIES Released
