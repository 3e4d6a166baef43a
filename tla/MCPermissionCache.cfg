SPECIFICATION Spec
CONSTANTS
    u1 = u1
    u2 = u2
    o1 = o1
    o2 = o2
    m1 = m1
    m2 = m2
    m3 = m3
    r1 = r1
    r2 = r2
    p1 = p1
    admin = admin
    None = None
    Unused = Unused
    Gone = Gone
    Users <- TwoUsers
    Orgs <- TwoOrgs
    Roles <- OneRole
    Perms <- OnePerm
    Ids <- ThreeIds
    KeyOf <- ThreeMembers
    Requests <- TwoRequests
    Needs <- NeedsOne
    Callers <- OneCaller
    SystemAdmins <- OneUser
    MaxWrites = 1
INVARIANT GrantedWasHeld
INVARIANT QuietMemberCoherent
SYMMETRY Symmetry
CONSTRAINT Settled
