SPECIFICATION Spec
CONSTANTS
    MaxConnections = 2
    Pcbs = {p1, p2}
    Fds = {3, 4}
    Names = {n1, n2}
    Literals = {a1}
    BufferSize = 3
    MaxHeader = 2
    ReadSize = 1
    Segment = 1
    Window = 2
    ReplySize = 1
    DnsRequests = 2
    NULL = NULL
SYMMETRY Symmetry
INVARIANTS
    TypeOK
    FdOwnership
    PcbOwnership
    TunnelGate
    RightDestination
PROPERTY
    NoRevival
