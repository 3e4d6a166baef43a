SPECIFICATION Spec
CONSTANTS
    p1 = p1
    p2 = p2
    p3 = p3
    p4 = p4
    r1 = r1
    r2 = r2
    NoPerson = NoPerson
    People <- TwoPeople
    Creator = p1
    Requests <- TwoRequests
    MemberLimit = 2
    Operations <- AdminOps
    Alone = {}
    Settable = {}
    Batches <- NoBatches
    Roles = {"org_admin"}
    EmailFaults = TRUE
    MaxAccounts = 2
    MaxInvites = 1
INVARIANT LastAdmin
