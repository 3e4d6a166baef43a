SPECIFICATION Spec
CONSTANTS
    u1 = u1
    o1 = o1
    m1 = m1
    r1 = r1
    r2 = r2
    perm = perm
    admin = admin
    file = file
    None = None
    Unused = Unused
    Gone = Gone
PROPERTIES
    RevocationReaches
    Converges
    Reconnects
