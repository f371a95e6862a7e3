SPECIFICATION Spec
CONSTANTS
    a = a
    b = b
    t1 = t1
    t2 = t2
    none = none
    good = good
    bad = bad
    Ids = {w1, w2, w3, w4}
    Pools <- TwoPools
    Templates <- TwoTemplates
    Replicas = {1, 2}
    Patches <- ThreePatches
    NoPatch = none
    BadPatches = {bad}
    Absent = Absent
    Specs <- GrowOnly
    InitialSpec <- OnePool
    Faults = {"timeout"}
    UserActions = {"edit"}
    MaxFaults = 2
    MaxEdits = 1
    MaxStaleReads = 0
INVARIANTS
    ProvisionedIsTruthful
