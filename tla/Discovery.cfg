SPECIFICATION MCSpec
CONSTANTS
    Server = s
    Clients = {c1, c2}
    Public = {s}
    Endpoint = {e1, e2, e3, e4}
    Txid = {t1, t2}
    MaxPeers = 2
    MaxCandidates = 1
    MaxProbes = 2
    ProbeTtl = 1
    DirectTtl = 1
    MaxTime = 2
    MaxMoves = 2
SYMMETRY Symmetry
\* The bounds on time, ids and moves stop a run.
CHECK_DEADLOCK FALSE
INVARIANTS TypeOK DirectProven BlackholeBounded ProbesFollowThePeer
