\* A worker with a tee of its own, and a TCP connection on its listener's socket.
SPECIFICATION FairSpec
CONSTANTS
    c1 = c1
    c2 = c2
    b1 = b1
    b2 = b2
    Conns = {c1, c2}
    Bufs = {b1}
    Own = Own
    Owned = {c1}
    QueueDepth = 1
    MaxAppends = 3
INVARIANTS Conserved CopyIntact FinalFlushLive
PROPERTIES OwnedSenderStops
