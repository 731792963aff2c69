SPECIFICATION FairSpec
CONSTANTS
    Dials = {d1, d2, d3}
    MaxConnections = 2
\* Every dial may be over.
CHECK_DEADLOCK FALSE
INVARIANTS LinksOneToOne ToldTheRemoteInOrder
PROPERTIES HalfOpenEnds
