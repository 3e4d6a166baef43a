SPECIFICATION Spec
CONSTANTS
    u1 = u1
    u2 = u2
    t1 = t1
    t2 = t2
    r1 = r1
    r2 = r2
    r3 = r3
    NoUser = NoUser
    NoToken = NoToken
    Users <- TwoUsers
    Tokens <- TwoTokens
    Requests <- TwoRequests
    VersionTtl = 1
    RevocationTtl = 1
    Window = 2
    KnownUsers <- OneUser
    Operations <- WriterRaceOps
    SerialWriters = FALSE
    PromptRequests = FALSE
    RedisFaults = FALSE
    MaxClock = 1
    MaxVersion = 2
SYMMETRY Symmetry
INVARIANT Ownership
PROPERTY OnlyOwnLogoutBlacklists
