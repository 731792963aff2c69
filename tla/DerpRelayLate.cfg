SPECIFICATION FairSpec
CONSTANTS
    a = a
    b = b
    Client = {a, b}
    QueueCap = 1
    StreamCap = 1
    RelayCap = 1
    MaxSends = 3
    MaxConns = 3
    Scenario <- MCGivenUp
\* Packets and connections are bounded.
CHECK_DEADLOCK FALSE
PROPERTIES ChannelsSurvive
