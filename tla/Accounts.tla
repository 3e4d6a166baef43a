------------------------------ MODULE Accounts ------------------------------
(***************************************************************************)
(* User accounts and how they come about: registration and administration  *)
(* (users.service.ts), and sign-in with an external provider: the state    *)
(* parameter kept in Redis (oauth-state.service.ts), Apple's code verifier *)
(* and form data, the provider's profile, and the account that is found or *)
(* created for it (oauth-user.repository.ts).  Each Redis command, query   *)
(* and call of a provider is a step, and requests overlap at any of them.  *)
(*                                                                         *)
(* A request is "http" when it comes through the controller, which         *)
(* validates the state before it calls handleSocialCallback, and "service" *)
(* when it starts at AuthService.handleSocialCallback.  A platform is "web"*)
(* or "android"; passwords, names (with Apple's form data, which holds     *)
(* nothing else) and pictures are left out, and so are                     *)
(* the tokens issued at the end (module Tokens).                           *)
(***************************************************************************)
EXTENDS Naturals, FiniteSets

CONSTANTS Requests, States, Users, Emails,
          Identities,    \* external accounts: [provider, id]
          Configurations,   \* sets of providers whose keys the environment may hold
          Purposes,      \* what a URL is asked for: [provider, platform]
          NoState, NoUser, NoEmail, NoIdentity

AccountsAssumption ==
  /\ Purposes # {} /\ \A p \in Purposes : p.platform \in {"web", "android"}
  /\ NoEmail \notin Emails /\ NoIdentity \notin Identities

VARIABLES configured,    \* the providers of this process
          live, about,   \* Redis: state parameters, and what each was made for
          verifier,      \* Redis: Apple's code verifiers, by state
          users,         \* per row: email, identity; NoEmail where there is no row
          req,
          spent,         \* history: how often a state was accepted
          tied,          \* history: states read by two requests before one deleted it
          crossed        \* history: two sign-ins of one identity searched and wrote
                         \* across each other
redis == <<live, about, verifier>>
past == <<spent, tied, crossed>>
vars == <<configured, live, about, verifier, users, req, spent, tied, crossed>>

Providers == {i.provider : i \in Identities}
AnyPurpose == CHOOSE p \in Purposes : TRUE
Row == [email: Emails \cup {NoEmail}, who: Identities \cup {NoIdentity}]
NoRow == [email |-> NoEmail, who |-> NoIdentity]
Idle == [pc |-> "idle", via |-> "none", state |-> NoState, platform |-> "web",
         provider |-> "none", who |-> NoIdentity, email |-> NoEmail, user |-> NoUser]

Init ==
  /\ configured \in Configurations
  /\ live = {} /\ verifier = {}
  /\ about = [s \in States |-> AnyPurpose]
  /\ users = [u \in Users |-> NoRow]
  /\ req = [r \in Requests |-> Idle]
  /\ spent = [s \in States |-> 0] /\ tied = {} /\ crossed = FALSE

Exists(u) == users[u].email # NoEmail
WithEmail(e) == {u \in Users : Exists(u) /\ users[u].email = e}
Become(r, q) == req' = [req EXCEPT ![r] = q]
Goto(r, pc) == Become(r, [req[r] EXCEPT !.pc = pc])
Finish(r) == Become(r, Idle)

----------------------------------------------------------------------------
(* The authorization URL: a fresh state, with its purpose; for Apple a code *)
(* verifier as well.  A state made for a provider that is not configured is *)
(* stored too, but no URL tells anyone, and it is left out.  validateState  *)
(* and getStoredCodeVerifier delete them, and Redis lets them expire.       *)
Available(provider) == provider \in configured
Fresh(s) == s \notin live /\ spent[s] = 0 /\ s \notin tied /\ \A r \in Requests : req[r].state # s
GenerateState(s, p) ==
  /\ Fresh(s)
  /\ live' = live \cup {s} /\ about' = [about EXCEPT ![s] = p]
StoreCodeVerifier(s, p) ==
  verifier' = IF p.provider = "apple" THEN verifier \cup {s} ELSE verifier
GetProviderAuthUrl(s, p) ==
  /\ Available(p.provider) /\ GenerateState(s, p) /\ StoreCodeVerifier(s, p)
  /\ UNCHANGED <<users, req, spent, tied, crossed>>
Expire(s) ==
  /\ \/ s \in live /\ live' = live \ {s} /\ UNCHANGED verifier
     \/ s \in verifier /\ verifier' = verifier \ {s} /\ UNCHANGED live
  /\ UNCHANGED <<about, users, req, spent, tied, crossed>>

\* The two callbacks of the controller, and the service's handler on its own.  No state
\* is made out for a provider that is not available, so its callbacks change nothing.
Callback(r, via, s, provider, platform, pc) ==
  /\ req[r] = Idle /\ Available(provider)
  /\ Become(r, [Idle EXCEPT !.pc = pc, !.via = via, !.state = s,
                            !.provider = provider, !.platform = platform])
HandleProviderCallback(r, s, provider) ==
  /\ Callback(r, "http", s, provider, "web", "get")
  /\ UNCHANGED <<live, about, verifier, users, spent, tied, crossed>>
HandleAppleAndroidCallback(r, s) ==
  /\ "apple" \in Providers
  /\ Callback(r, "http", s, "apple", "android", "get")
  /\ UNCHANGED <<live, about, verifier, users, spent, tied, crossed>>
HandleSocialCallback(r, s, provider, platform) ==
  /\ Callback(r, "service", s, provider, platform, "getAgain")
  /\ UNCHANGED <<live, about, verifier, users, spent, tied, crossed>>

----------------------------------------------------------------------------
(* validateState: read the state, compare its purpose, delete it. *)
Matches(r) ==   \* the controller gives only the provider to compare
  LET p == about[req[r].state] IN
  /\ p.provider = req[r].provider
  /\ req[r].pc = "getAgain" => p.platform = req[r].platform
Reading(s) == {r \in Requests : req[r].state = s /\ req[r].pc \in {"del", "delAgain"}}
GetState(r) ==
  /\ req[r].pc \in {"get", "getAgain"}
  /\ IF req[r].state \in live /\ Matches(r)
     THEN /\ Goto(r, IF req[r].pc = "get" THEN "del" ELSE "delAgain")
          /\ tied' = IF Reading(req[r].state) # {} THEN tied \cup {req[r].state} ELSE tied
     ELSE Finish(r) /\ UNCHANGED tied
  /\ UNCHANGED <<live, about, verifier, users, spent, crossed>>
Consumed(r) == {req[r].state}   \* what the validation deletes
DelState(r) ==
  /\ req[r].pc \in {"del", "delAgain"}
  /\ live' = live \ Consumed(r)
  /\ spent' = [spent EXCEPT ![req[r].state] = IF @ = 0 THEN 1 ELSE 2]   \* 2: more than once
  /\ IF req[r].pc = "del"   \* the platform that was stored goes to the service
     THEN Become(r, [req[r] EXCEPT !.pc = "getAgain",
                       !.platform = IF @ = "android" THEN @ ELSE about[req[r].state].platform])
     ELSE Goto(r, "exchange")
  /\ UNCHANGED <<about, verifier, users, tied, crossed>>

----------------------------------------------------------------------------
(* The provider's profile.  An external account keeps its id; its email may *)
(* differ from one sign-in to the next.                                     *)
Profile(r, next) ==
  \E i \in Identities, e \in Emails :
    /\ i.provider = req[r].provider
    /\ Become(r, [Idle EXCEPT !.pc = next, !.via = req[r].via, !.who = i, !.email = e])
GoogleCallback(r) ==
  /\ req[r].pc = "exchange" /\ req[r].provider = "google"
  /\ Profile(r, "byId") /\ UNCHANGED redis /\ UNCHANGED <<users, past>>
GithubCallback(r) ==
  /\ req[r].pc = "exchange" /\ req[r].provider = "github"
  /\ Profile(r, "byId") /\ UNCHANGED redis /\ UNCHANGED <<users, past>>
MicrosoftCallback(r) ==
  /\ req[r].pc = "exchange" /\ req[r].provider = "microsoft"
  /\ Profile(r, "byId") /\ UNCHANGED redis /\ UNCHANGED <<users, past>>
\* Apple's code is worth nothing without the verifier, which is deleted when it is read.
GetStoredCodeVerifier(r) ==
  /\ req[r].pc = "exchange" /\ req[r].provider = "apple"
  /\ IF req[r].state \in verifier THEN Goto(r, "apple") ELSE Finish(r)
  /\ UNCHANGED redis /\ UNCHANGED <<users, past>>
AppleCallback(r) ==
  /\ req[r].pc = "apple"
  /\ verifier' = verifier \ {req[r].state}
  /\ Profile(r, IF req[r].platform = "android" THEN "names" ELSE "byId")
  /\ UNCHANGED <<live, about, users, past>>
AppleUserData(r) ==
  /\ req[r].pc = "names"
  /\ Goto(r, "byId") /\ UNCHANGED redis /\ UNCHANGED <<users, past>>

----------------------------------------------------------------------------
(* findOrCreateUser: by identity, else by email; then update or create. *)
Searching(i) == {r \in Requests : req[r].who = i /\ req[r].pc \in {"byEmail", "update", "create"}}
\* The rows of an identity; and were only the email looked for.
WithIdentityForgotten(i) == {}
WithIdentity(i) == {u \in Users : Exists(u) /\ users[u].who = i}
FindById(r) ==
  /\ req[r].pc = "byId"
  /\ LET mine == WithIdentity(req[r].who) IN
     IF mine = {} THEN Goto(r, "byEmail")
     ELSE \E u \in mine : Become(r, [req[r] EXCEPT !.pc = "update", !.user = u, !.email = NoEmail])
  /\ crossed' = (crossed \/ Searching(req[r].who) # {})
  /\ UNCHANGED redis /\ UNCHANGED <<users, spent, tied>>
FindByEmail(r) ==
  /\ req[r].pc = "byEmail"
  /\ LET mine == WithEmail(req[r].email) IN
     IF mine = {} THEN Goto(r, "create")
     ELSE \E u \in mine : Become(r, [req[r] EXCEPT !.pc = "update", !.user = u, !.email = NoEmail])
  /\ UNCHANGED redis /\ UNCHANGED <<users, past>>
UpdateUser(r) ==   \* the row may be gone by now
  /\ req[r].pc = "update"
  /\ users' = IF Exists(req[r].user) THEN [users EXCEPT ![req[r].user].who = req[r].who] ELSE users
  /\ Finish(r) /\ UNCHANGED redis /\ UNCHANGED past
Insert(e, i) ==   \* users.email is unique
  IF WithEmail(e) # {} THEN UNCHANGED users
  ELSE \E u \in Users : ~Exists(u) /\ users' = [users EXCEPT ![u] = [email |-> e, who |-> i]]
CreateUser(r) ==
  /\ req[r].pc = "create"
  /\ Insert(req[r].email, req[r].who)
  /\ Finish(r) /\ UNCHANGED redis /\ UNCHANGED past

Fail(r) ==   \* a call of Redis, of the provider or of the database fails
  /\ req[r] # Idle /\ Finish(r) /\ UNCHANGED redis /\ UNCHANGED <<users, past>>

----------------------------------------------------------------------------
(* users.service.ts: the email is checked, then inserted under the unique   *)
(* index, which decides; an update does not touch the identity.             *)
Register(e) ==
  /\ WithEmail(e) = {} /\ Insert(e, NoIdentity)
  /\ UNCHANGED redis /\ UNCHANGED <<req, past>>
SignUp(e) == Register(e)   \* AuthService.register looks for the email first, too
HttpRegister(e) == SignUp(e)
Update(u, e) ==
  /\ Exists(u) /\ WithEmail(e) = {}
  /\ users' = [users EXCEPT ![u].email = e]
  /\ UNCHANGED redis /\ UNCHANGED <<req, past>>
HttpUpdate(u, e) == Update(u, e)
HttpUpdateMe(u, e) == Update(u, e)
Delete(u) ==
  /\ Exists(u) /\ users' = [users EXCEPT ![u] = NoRow]
  /\ UNCHANGED redis /\ UNCHANGED <<req, past>>

Arrive(r) ==
  \E s \in States :
    \/ \E p \in Providers : HandleProviderCallback(r, s, p)
    \/ HandleAppleAndroidCallback(r, s)
    \/ \E p \in Providers, f \in {"web", "android"} : HandleSocialCallback(r, s, p, f)
Step(r) ==
  \/ GetState(r) \/ DelState(r)
  \/ GoogleCallback(r) \/ GithubCallback(r) \/ MicrosoftCallback(r)
  \/ GetStoredCodeVerifier(r) \/ AppleCallback(r) \/ AppleUserData(r)
  \/ FindById(r) \/ FindByEmail(r) \/ UpdateUser(r) \/ CreateUser(r)
  \/ Fail(r)
Manage ==
  \/ \E s \in States : Expire(s) \/ \E p \in Purposes : GetProviderAuthUrl(s, p)
  \/ \E e \in Emails : HttpRegister(e)
  \/ \E u \in Users : Delete(u) \/ \E e \in Emails : HttpUpdate(u, e) \/ HttpUpdateMe(u, e)
Next == (Manage \/ \E r \in Requests : Arrive(r) \/ Step(r)) /\ UNCHANGED configured
Spec == Init /\ [][Next]_vars

----------------------------------------------------------------------------
Records == [pc: {"idle", "get", "del", "getAgain", "delAgain", "exchange", "apple", "names",
                 "byId", "byEmail", "update", "create"},
            via: {"none", "http", "service"}, state: States \cup {NoState},
            platform: {"web", "android"}, provider: Providers \cup {"none"},
            who: Identities \cup {NoIdentity}, email: Emails \cup {NoEmail},
            user: Users \cup {NoUser}]
TypeOK ==
  /\ configured \in Configurations /\ live \in SUBSET States /\ verifier \in SUBSET States
  /\ about \in [States -> Purposes] /\ users \in [Users -> Row]
  /\ spent \in [States -> 0..2] /\ tied \in SUBSET States /\ crossed \in BOOLEAN
  /\ req \in [Requests -> Records]

\* A state parameter is accepted once, unless two requests had both read it
\* before either deleted it (oauth-state.service.ts 76-100: get, then del).
StateUsedOnce == \A s \in States \ tied : spent[s] <= 1

\* No callback that comes through the controller gets past the state check: the
\* controller consumes the state and the service validates it again
\* (auth.controller.ts 288-296, auth.service.ts 361), whatever overlaps.
ControllerNeverSignsIn ==
  \A r \in Requests : req[r].via = "http" => req[r].pc \in {"get", "del", "getAgain"}

\* One external account leads to one user, unless two sign-ins with it ran
\* across each other between the search and the write
\* (oauth-user.repository.ts 68-117; there is no unique index on the pair).
OneAccountPerIdentity ==
  crossed \/ \A u, v \in Users :
    users[u].who # NoIdentity /\ users[u].who = users[v].who => u = v

\* Why: a state that is stored or about to be deleted was not accepted yet, and one request
\* at a time is between the two steps; what the controller consumed is not stored again.
Unspent == \A s \in States \ tied :
  /\ \A r, o \in Reading(s) : r = o
  /\ spent[s] <= 1 /\ (s \in live \/ Reading(s) # {} => spent[s] = 0)
Stopped(q) ==
  q.via = "http" => /\ q.pc \in {"get", "del", "getAgain"}
                    /\ q.pc = "getAgain" => q.state \notin live
\* A row without an email has no identity; one sign-in at a time searches for an identity,
\* which has one row, and knows it.
Gone == \A u \in Users : ~Exists(u) => users[u].who = NoIdentity
Backed(q) ==
  /\ q.pc \in {"get", "del", "getAgain", "delAgain"} => q.state \in States
  /\ q.pc \in {"names", "byId", "byEmail", "update", "create"} => q.who \in Identities
  /\ q.pc \in {"names", "byId", "byEmail", "create"} => q.email \in Emails
  /\ q.pc = "update" => q.user \in Users
Known(q) ==
  /\ q.pc \in {"byEmail", "create"} => WithIdentity(q.who) = {}
  /\ q.pc = "update" => WithIdentity(q.who) \subseteq {q.user}
Alone ==
  \/ crossed
  \/ /\ \A i \in Identities : /\ \A r, o \in Searching(i) : r = o
                              /\ \A u, v \in WithIdentity(i) : u = v
     /\ \A r \in Requests : Known(req[r])
Inv == /\ TypeOK /\ Unspent /\ Gone /\ Alone
       /\ \A r \in Requests : Stopped(req[r]) /\ Backed(req[r])
=============================================================================
