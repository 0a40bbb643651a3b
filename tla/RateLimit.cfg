SPECIFICATION Spec
SYMMETRY Symmetry
INVARIANTS TypeOK PlaneBound SourceShare NeverPermanent
CONSTANTS
    l1 = l1  l2 = l2  x1 = x1  x2 = x2  y = y  X = X  Y = Y
    Lanes = {l1, l2}
    Sources = {x1, x2, y}
    KeyOf <- MCKeyOf
    Nil = Nil
    Sizes = {3}
    Configs <- MCConfigs
    Second = 2
    MaxCalls = 4
    MaxClock = 4
