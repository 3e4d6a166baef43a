SPECIFICATION Spec
CONSTANTS
    r1 = r1
    r2 = r2
    r3 = r3
    s1 = s1
    s2 = s2
    u1 = u1
    u2 = u2
    e1 = e1
    e2 = e2
    o1 = o1
    o2 = o2
    h1 = h1
    NoPerson = NoPerson
    NoState = NoState
    NoUser = NoUser
    NoEmail = NoEmail
    NoIdentity = NoIdentity
    NoOrg = NoOrg
    NoId = NoId
    AnyToken = AnyToken
    AnyUser = AnyUser
    Requests = {r1, r2}
    Users = {u1, u2}
    Emails = {e1, e2}
    States = {s1, s2}
    LoginEmails = {o1, o2}
    Logins = {r1, r2, r3}
    Ips = {h1}
    MaxFailed = 2
    MaxAttempts = 2
    ResetAfter = 2
    SetupTokens = {o1}
    People = {o1, u1, u2}
    Creator = o1
    MemberLimit = 2
    MemberInvites = 2
    JoinInvites = 1
    Hosts = {h1}
    HostOrgs = {o1, o2}
    HostIds = {s1, s2}
    Default = o1
    Settings = {TRUE, FALSE}
    Instances = {r1, r2}
    Required = {o1, o2}
    SystemOnly = {o2}
    Plans = {e1, e2}
    NoPlan = NoPlan
    Chosen = {"TRIAL"}
    MaxSettled = 1
    MaxRetries = 3
    PerRequest = 1
    Paths = {h1}
    FileKinds = {"local", "github"}
    BucketKinds = {"s3", "spaces"}
    MaxVersions = 2
    Sizes = {1, 2, 3}
    MaxFileSize = 2
    Quota = 1
    MaxListing = 0
    TokenNames = {h1}
    MaxDrawn = 6
    Orgs = {s1, s2}
    Persons = {h1}
    OrgRoles = {o1}
    Base = o2
    Interval = 2
    Timeout = 2
    Identities <- MCIdentities
    Configurations <- OneProvider
    Purposes <- MCPurposes
    MemberOps <- MCMemberOps
    JoinOps <- MCJoinOps
    Deployments <- MCDeployments
    Terms <- MCTerms
INVARIANTS
    TypeOK
    SignInSound
    GuessingBounded
    OneAdministrator
    RightPerson
    RoutesToOwner
    StartupSound
    PaidInFull
    NeverReverts
    DeletedIsGone
    OwnRoles
    OkIsRecent
    ClosedForCause
PROPERTY OnlyInviteeActivates
SYMMETRY Symmetry
CONSTRAINT Followed
