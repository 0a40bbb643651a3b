\* Four units of one connection fill a batch of three and leave a frame, or part of
\* one, behind; coalescing off and armed, with and without linger.
SPECIFICATION FairSpec
CONSTANTS
    c1 = c1
    c2 = c2
    Conns = {c1, c2}
    MaxBatch = 3
    Lingers = {0, 1}
    Loads <- AloneOrBesideIdle
    MaxUnits = 4
INVARIANTS TypeOK DrainedBeforeBlocking NoneStranded
PROPERTIES HeldIsFlushed GoroutinesEnd
