SPECIFICATION Spec
CONSTANTS
    u1 = u1
    u2 = u2
    t1 = t1
    t2 = t2
    r1 = r1
    r2 = r2
    r3 = r3
    NoUser = NoUser
    NoToken = NoToken
    Users <- OneUser
    Tokens <- TwoTokens
    Requests <- ThreeRequests
    VersionTtl = 6
    RevocationTtl = 1
    Window = 3
    KnownUsers <- OneUser
    Operations <- SingleOps
    SerialWriters = TRUE
    PromptRequests = FALSE
    RedisFaults = TRUE
    MaxClock = 0
    MaxVersion = 3
SYMMETRY Symmetry
INVARIANT TypeOK
INVARIANT RevokedNeverHonoured
INVARIANT VersionsGrow
PROPERTY ImplementsRevocation
