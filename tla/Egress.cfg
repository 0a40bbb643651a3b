\* Every inline mode, and the sender, with two targets.
SPECIFICATION FairSpec
INVARIANTS TypeOK BuffersOwned Accounted TeeAfterEgress
PROPERTIES ImplementsPipe FlushedSettles
CONSTANTS
    s1 = s1
    b1 = b1
    NTargets = 2
    Slots = {s1}
    Bufs = {b1}
    Kinds = {"data", "control"}
    Modes <- AllModes
    Depth = 1
    MaxRetries = 1
    MaxMsgs = 3
