SPECIFICATION Spec
CONSTANTS
    a = a
    b = b
    t1 = t1
    t2 = t2
    none = none
    good = good
    bad = bad
    Ids = {w1, w2, w3, w4, w5, w6, w7, w8}
    Pools <- TwoPools
    Templates <- TwoTemplates
    Replicas = {1, 2}
    Patches <- ThreePatches
    NoPatch = none
    BadPatches = {bad}
    Absent = Absent
    Specs <- GrowMoveAndPatch
    InitialSpec <- OnePool
    Faults = {"error", "lost", "crash"}
    UserActions = {"edit", "scale", "remove", "delete"}
    MaxFaults = 1
    MaxEdits = 1
    MaxStaleReads = 2
INVARIANTS
    TypeOK
    RestMeansConverged
    StatusAtRest
    ConditionsAtRest
    BadPatchStillProvisions
    NoDuplicates
PROPERTIES
    ObservedGenerationMonotonic
