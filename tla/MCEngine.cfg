SPECIFICATION FairSpec
CONSTANTS
    Peers = {p1, p2}
    Backlog = 2
    MaxRequest = 2
    Attempts = 2
    MaxSignals = 1
    MayHang = TRUE
INVARIANTS SignalsOwnChild NoChildLeft
PROPERTIES StopIsLast StopObeyed PeersServed
CHECK_DEADLOCK FALSE
