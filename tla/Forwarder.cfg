\* One lane of each ingress class, every kind of datagram.
SPECIFICATION Spec
INVARIANTS TypeOK AtMostOnce HonestHolder DeliverGranted
CONSTANTS
    l1 = l1
    l2 = l2
    l3 = l3
    A = A
    B = B
    C = C
    E = E
    F = F
    G = G
    g1 = g1
    g2 = g2
    g3 = g3
    ipX = ipX
    ipY = ipY
    Lanes = {l1, l2, l3}
    ClassOf <- OneOfEach
    Inputs <- Mixed
    GroupOf <- MCGroupOf
    SuccessorOf <- MCSuccessorOf
    Nil = Nil
    AllowStampedIngress = TRUE
    RequireEF = FALSE
    VerifyPayloadHash = TRUE
    VerifySubtreeRoot = TRUE
    RequireBlockPoW = TRUE
    StampSource = TRUE
    Dedup = TRUE
    CoalLanes = {}
    FragDataSize = 2
    MaxFragTotal = 2
    BundleHeader = 1
    MemberOverhead = 1
    CoalesceBudget = 5
    CoalesceMaxMembers = 2
    BEEFMaxObject = 2
    MaxObjectBytes <- Lift
    DeliverPolicy <- Deliver
    MaxArrivals = 3
    MaxFaults = 1
    MaxSwaps = 0
