SPECIFICATION FairSpec
CONSTANTS
    a = a
    b = b
    t1 = t1
    t2 = t2
    none = none
    good = good
    bad = bad
    Ids = {w1, w2, w3, w4, w5, w6}
    Pools <- TwoPools
    Templates <- TwoTemplates
    Replicas = {1, 2}
    Patches <- ThreePatches
    NoPatch = none
    BadPatches = {bad}
    Absent = Absent
    Specs <- GrowAndMove
    InitialSpec <- OnePool
    Faults = {"error", "lost", "timeout", "crash"}
    UserActions = {"edit", "remove", "delete"}
    MaxFaults = 2
    MaxEdits = 1
    MaxStaleReads = 1
PROPERTIES
    Settles
