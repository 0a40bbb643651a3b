SPECIFICATION Spec
PROPERTY DualEmitted
CONSTANTS
    l1 = l1
    l2 = l2
    l3 = l3
    A = A
    B = B
    C = C
    E = E
    F = F
    G = G
    g1 = g1
    g2 = g2
    g3 = g3
    ipX = ipX
    ipY = ipY
    Lanes = {l1, l2}
    ClassOf <- Public
    Inputs <- CoalesceInputs
    GroupOf <- OneGroup
    SuccessorOf <- MCSuccessorOf
    Nil = Nil
    AllowStampedIngress = TRUE
    RequireEF = FALSE
    VerifyPayloadHash = TRUE
    VerifySubtreeRoot = TRUE
    RequireBlockPoW = TRUE
    StampSource = TRUE
    Dedup = TRUE
    CoalLanes = {}
    FragDataSize = 4
    MaxFragTotal = 2
    BundleHeader = 1
    MemberOverhead = 1
    CoalesceBudget = 7
    CoalesceMaxMembers = 2
    BEEFMaxObject = 0
    MaxObjectBytes <- Lift
    DeliverPolicy <- Deliver
    MaxArrivals = 2
    MaxFaults = 0
    MaxSwaps = 1
