SPECIFICATION CalmSpec
CONSTANTS
    r1 = r1
    s1 = s1
    u1 = u1
    e1 = e1
    NoState = NoState
    NoUser = NoUser
    NoEmail = NoEmail
    NoIdentity = NoIdentity
    Requests = {r1}
    States = {s1}
    Users = {u1}
    Emails = {e1}
    Identities <- Google
    Configurations <- OneProvider
    Purposes <- WebSignIn
PROPERTY CallbackCompletes
