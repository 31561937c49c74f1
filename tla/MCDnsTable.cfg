SPECIFICATION FairSpec
CONSTANTS
    Clients = {c1, c2}
    Names <- MCNames
    Servers = {s1}
    AnyAddress = any
    Txids = {t1, t2}
    TableSize = 2
    MaxRequests = 2
    MaxServers = 2
    MaxRetries = 2
    MaxTtl = 1
    SeqModulus = 2
INVARIANTS CalledOnce RightAnswer PortsInUse
PROPERTY LookupEnds
