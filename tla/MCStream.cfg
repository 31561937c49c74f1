\* One connection whose client reads what it is sent.
SPECIFICATION FairSpec
CONSTANTS
    ClientBytes = 2
    TargetBytes = 3
    Leftover = 1
    BufferSize = 3
    ReadSize = 1
    Segment = 2
    SendBuffer = 2
    Window = 2
    SocketBuffer = 1
INVARIANTS ResponseComplete
PROPERTIES BothAreChannels BytesArrive TargetEndArrives
\* A connection comes to an end, and then nothing happens any more.
CHECK_DEADLOCK FALSE
