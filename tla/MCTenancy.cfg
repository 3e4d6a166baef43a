SPECIFICATION Spec
CONSTANTS
    o1 = o1
    o2 = o2
    m1 = m1
    m2 = m2
    m3 = m3
    m4 = m4
    r1 = r1
    r2 = r2
    None = None
    Unused = Unused
    Garbage = Garbage
    Orgs <- TwoOrgs
    Members <- FourMembers
    Requests <- TwoRequests
    Operations <- OperationNames
    Serial = FALSE
SYMMETRY Symmetry
INVARIANT TypeOK
INVARIANT OwnUntilCleared
PROPERTY CreatesInOwn
PROPERTY ScopedRemovalLeavesAdmin
