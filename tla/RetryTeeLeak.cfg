\* A TCP connection on its listener's tee socket.
SPECIFICATION FairSpec
CONSTANTS
    c1 = c1
    c2 = c2
    b1 = b1
    b2 = b2
    Conns = {c1}
    Bufs = {b1}
    Own = Own
    Owned = {}
    QueueDepth = 1
    MaxAppends = 2
PROPERTIES SenderStops
