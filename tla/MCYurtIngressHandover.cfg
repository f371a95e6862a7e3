SPECIFICATION FairSpec
CONSTANTS
    first = first
    second = second
    hangzhou = hangzhou
    shanghai = shanghai
    i1 = i1
    i2 = i2
    Ings = {first, second}
    Pools = {hangzhou}
    Replicas = {1, 2}
    Images = {i1, i2}
    CertGens = {"c", "d"}
    IPs = {"ips", "other"}
    Parts <- TwoParts
    Specs <- HandoverSpecs
    InitialIng = first
    InitialSpec <- One
    Unborn = Unborn
    Absent = Absent
    Faults = {"error", "crash"}
    UserActions = {"create", "edit", "overlap", "delete", "remove"}
    MaxEvents = 2
CHECK_DEADLOCK FALSE
PROPERTIES SettlesUnlessStuck
