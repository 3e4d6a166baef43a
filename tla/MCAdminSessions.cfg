SPECIFICATION Spec
CONSTANTS
    u1 = u1
    u2 = u2
    s1 = s1
    s2 = s2
    s3 = s3
    r1 = r1
    r2 = r2
    None = None
    Users <- TwoUsers
    Sessions <- Sessions3
    Requests <- TwoRequests
SYMMETRY Symmetry
INVARIANT TypeOK
INVARIANT RevokedRejected
INVARIANT OthersSwept
PROPERTY RevokedByRight
