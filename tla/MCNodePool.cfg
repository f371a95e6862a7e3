SPECIFICATION FairSpec
CONSTANTS
    n1 = n1
    n2 = n2
    edge = edge
    pool = pool
    label = label
    taint = taint
    other = other
    v = v
    w = w
    u = u
    none = none
    Nodes <- OneNode
    Pools <- BothPools
    DefaultPools = {edge}
    LabelKeys = {label}
    Keys = {label}
    TaintKeys = {taint, other}
    PoolValues = {v, w}
    UserValues = {u}
    None = none
    Absent = Absent
    Specs <- TwoSpecs
    InitialSpec <- Full
    InitialPool = pool
    CreateTries = 1
    UserTaints = {other}
    Faults = {"error", "lost", "crash", "relist"}
    UserActions = {"assign", "edit", "convert", "delete", "create", "attribute", "taint", "register", "ready"}
    MaxFaults = 1
    MaxEdits = 2
CHECK_DEADLOCK FALSE
INVARIANTS
    TypeOK
    PoolValuesAreRecorded
    MembersAreRecorded
    RestMeansJoined
    StatusAtRest
PROPERTIES Settles
