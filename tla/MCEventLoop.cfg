SPECIFICATION FairLoopSpec
CONSTANTS
    MaxConnections = 2
    Pcbs = {p1}
    Fds = {3}
    Names = {n1}
    Literals = {}
    BufferSize = 4
    MaxHeader = 3
    ReadSize = 2
    Segment = 1
    Window = 2
    ReplySize = 1
    DnsRequests = 2
    NULL = NULL
INVARIANT ReadFits
PROPERTIES RequestSettled ResolvingEnds
