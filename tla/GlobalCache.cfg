SPECIFICATION Spec
CONSTANTS
    Tasks = {t1, t2}
    Nodes = {n1, n2}
    NS = 2
    R = 1
    RR = 1
    Seed = 0
    MaxVer = 2
    SizeOf <- Sizes
    Cap = 2
    Policies <- AllPolicies
    UseMetaCache = TRUE
    OpNames <- AllOps
    MaxOps = 3
    MaxFaults = 1
INVARIANTS
    
    ReadFresh

    
SYMMETRY Symmetry
CHECK_DEADLOCK FALSE
