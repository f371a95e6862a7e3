SPECIFICATION FairSpec
CONSTANTS
    first = first
    second = second
    hangzhou = hangzhou
    shanghai = shanghai
    i1 = i1
    i2 = i2
    Ings = {first, second}
    Pools = {hangzhou, shanghai}
    Replicas = {1, 2}
    Images = {i1, i2}
    CertGens = {"c", "d"}
    IPs = {"ips", "other"}
    Parts <- ThreeParts
    Specs <- BothSpecs
    InitialIng = first
    InitialSpec <- One
    Unborn = Unborn
    Absent = Absent
    Faults = {"error", "crash"}
    UserActions = {"create", "edit", "delete", "remove"}
    MaxEvents = 2
CHECK_DEADLOCK FALSE
INVARIANTS
    TypeOK
    Served
    StatusAtRest
    SharedAtRest
