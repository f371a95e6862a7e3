SPECIFICATION FairSpec
CONSTANTS
    n1 = n1
    n2 = n2
    edge = edge
    pool = pool
    label = label
    taint = taint
    other = other
    v = v
    w = w
    u = u
    none = none
    Nodes <- BothNodes
    Pools <- BothPools
    DefaultPools = {}
    LabelKeys = {label}
    Keys = {label}
    TaintKeys = {taint, other}
    PoolValues = {v, w}
    UserValues = {u}
    None = none
    Absent = Absent
    Specs <- TwoSpecs
    InitialSpec <- Edited
    InitialPool = pool
    CreateTries = 1
    UserTaints = {taint}
    Faults = {}
    UserActions = {"edit", "taint"}
    MaxFaults = 0
    MaxEdits = 2
CHECK_DEADLOCK FALSE
PROPERTIES Settles
