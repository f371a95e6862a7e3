SPECIFICATION FairSpec
CONSTANTS
    old = old
    new = new
    rival = rival
    set = set
    other = other
    o1 = o1
    blue = blue
    red = red
    Uids <- AllUids
    Names = {set, other}
    NameOf <- NameOfUid
    Born = {old, rival}
    Objects = {o1}
    Labels = {blue, red}
    Selects <- Selectors
    ListsAll = {old}
    InitialLabel = blue
    Absent = Absent
    None = None
    Faults = {"error", "lost", "crash"}
    UserActions = {"create", "delete", "relabel", "remove"}
    MaxEvents = 3
CHECK_DEADLOCK FALSE
INVARIANTS TypeOK
PROPERTIES
    NeverStolen
    ClaimsSettle
