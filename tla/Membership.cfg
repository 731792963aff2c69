SPECIFICATION FairSpec
CONSTANTS
    a = a
    b = b
    Client = {a, b}
    Call <- Calls
    Lists = {{}, {a}}
    MaxPeers = 1
    MaxPings = 1
    MaxRestarts = 1
\* Every call may be over.
CHECK_DEADLOCK FALSE
INVARIANTS TypeOK OnlyAllowedPeers AnswersAreEarned PendingOnce
PROPERTIES MeowGetsThrough CancellationReleases
