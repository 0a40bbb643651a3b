\* Three goroutines stamping on two flows that share a stripe, in runs of one
\* or two numbers.
SPECIFICATION Spec
SYMMETRY Symmetry
CONSTANTS
    c1 = c1  c2 = c2  c3 = c3 
    k1 = k1  k2 = k2  s1 = s1  o1 = o1  o2 = o2
    Callers = {c1, c2, c3}
    Keys = {k1, k2}
    Stripes = {s1}
    StripeOf <- MCStripeOf
    States = {o1, o2}
    Nil = Nil
    MaxRun = 2
    MaxGrants = 3
INVARIANTS TypeOK NoOverlap Dense
PROPERTY ImplementsAllocator
