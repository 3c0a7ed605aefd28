\* Two connections, three sends cut anywhere, cancelled receives, crashes of either side.
CONSTANTS
    Envelopes <- Relayed
    Expected = "s"
    ClientExpects = "none"
    NoSession = "none"
    Peer = 0
    BodyWords = 2
    MaxSends = 3
    MaxConnections = 2
SPECIFICATION TransportSpec
CHECK_DEADLOCK FALSE

INVARIANTS
    AcceptedInOrder
