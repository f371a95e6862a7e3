SPECIFICATION FairSpec
CONSTANTS
    a = a
    b = b
    t1 = t1
    t2 = t2
    bad = bad
    taint = taint
    east = east
    west = west
    Ids = {1, 2, 3, 4}
    Pools <- TwoPools
    Templates = {t1, t2, bad}
    Taints = {taint}
    Tolerated <- Tolerates
    PanicTemplates = {bad}
    Labels = {east, west}
    Absent = Absent
    None = None
    Specs <- AllSpecs
    InitialSpec <- Plain
    PoolSpecs <- NodePools
    InitialPools <- OnePool
    Faults = {"error", "lost", "timeout", "list", "crash"}
    UserActions = {"edit", "pool", "tamper", "remove", "delete"}
    MaxEvents = 2
    MaxStaleReads = 1
CHECK_DEADLOCK FALSE
INVARIANTS
    TypeOK
    RestMeansServed
    NoDuplicates
PROPERTIES Settles
