SPECIFICATION FairSpec
CONSTANTS
    t1 = t1
    t2 = t2
    t3 = t3
    n1 = n1
    n3 = n3
    m1 = m1
    m2 = m2
    m3 = m3
    Templates <- ThreeTemplates
    InitialTemplate = t1
    Names <- CollidingNames
    MaxCount = 1
    Hash <- CollidingHash
    ForeignNames = {n3}
    Foreign = Foreign
    Absent = Absent
    NoName = NoName
    Limits = {1, 2}
    InitialLimit = 2
    Faults = {"error", "lost", "crash"}
    MaxFaults = 1
    MaxEdits = 3
    MaxStaleReads = 1
INVARIANTS
    TypeOK
    ExpectedIsTemplate
    HistoryBounded
    RollbackMovesToEnd
PROPERTIES
    InUseRevisionKept
    CurrentRevisionKept
    Settles
