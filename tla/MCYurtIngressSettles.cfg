SPECIFICATION FairSpec
CONSTANTS
    first = first
    second = second
    hangzhou = hangzhou
    shanghai = shanghai
    i1 = i1
    i2 = i2
    Ings = {first}
    Pools = {hangzhou}
    Replicas = {1, 2}
    Images = {i1, i2}
    CertGens = {"c", "d"}
    IPs = {"ips", "other"}
    Parts <- TwoParts
    Specs <- OneOrNone
    InitialIng = first
    InitialSpec <- One
    Unborn = Unborn
    Absent = Absent
    Faults = {}
    UserActions = {"edit"}
    MaxEvents = 1
PROPERTIES Settles
