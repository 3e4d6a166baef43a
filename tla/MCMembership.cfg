SPECIFICATION Spec
CONSTANTS
    p1 = p1
    p2 = p2
    p3 = p3
    p4 = p4
    r1 = r1
    r2 = r2
    NoPerson = NoPerson
    People <- FourPeople
    Creator = p1
    Requests <- TwoRequests
    MemberLimit = 2
    Operations <- LimitOps
    Alone <- AloneOps
    Settable = {"INACTIVE"}
    Batches <- Pairs
    Roles = {"org_admin"}
    EmailFaults = TRUE
    MaxAccounts = 2
    MaxInvites = 3
INVARIANT TypeOK
INVARIANT LimitOverrun
PROPERTY KeepsAdmin
SYMMETRY Symmetry
CONSTRAINT Followed
