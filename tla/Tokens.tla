------------------------------- MODULE Tokens -------------------------------
(***************************************************************************)
(* TokenService and the parts of AuthService that issue, check and revoke  *)
(* JWTs (src/src/modules/auth/services/token.service.ts and                *)
(* src/src/modules/auth/auth.service.ts), over the Redis keys they share:  *)
(*                                                                         *)
(*   token:version:<user>     version, versionUntil                        *)
(*   user:tokens:<user>       tracked, trackedUntil                        *)
(*   token:blacklist:<token>  blacklistUntil                               *)
(*   token:revocation:<jti>   revokedUntil                                 *)
(*                                                                         *)
(* A request is a sequence of Redis commands and any number of requests    *)
(* run at once, so each command is a step of its own.  Any command may     *)
(* fail.  Time is a clock; a key is gone when its expiry time is reached.  *)
(* The access and the refresh token of one login are issued, tracked and   *)
(* blacklisted together and stand here as one token.                       *)
(***************************************************************************)
EXTENDS Naturals, FiniteSets

CONSTANTS Users, Tokens, Requests, NoUser, NoToken,
          VersionTtl,      \* TOKEN_VERSION_TTL, in ticks of the clock
          RevocationTtl,   \* TOKEN_REVOCATION_TTL
          Window,          \* the time window a fingerprint is good for
          KnownUsers,      \* users whose version key is in Redis at the start
          Operations,      \* the operations clients call
          SerialWriters,   \* no two writers of one version key overlap
          PromptRequests,  \* every request ends within the tick it began in
          RedisFaults,     \* a Redis command may fail
          MaxClock,        \* bound: the horizon of the clock
          MaxVersion       \* bound: no writer starts when it could be exceeded

OperationNames ==
    {"login", "generate", "validate", "refresh", "logout", "revoke", "increment"}

ASSUME TokensAssumption ==
    /\ NoUser \notin Users /\ NoToken \notin Tokens
    /\ VersionTtl \in Nat \ {0} /\ RevocationTtl \in Nat \ {0}
    /\ Window \in Nat \ {0} /\ MaxClock \in Nat /\ MaxVersion \in Nat \ {0}
    /\ KnownUsers \subseteq Users
    /\ Operations \subseteq OperationNames
    /\ SerialWriters \in BOOLEAN /\ PromptRequests \in BOOLEAN
    /\ RedisFaults \in BOOLEAN

VARIABLES
    clock,
    version, versionUntil,     \* per user; version 0: the key is missing
    tracked, trackedUntil,     \* per user; {}: the key is missing
    blacklistUntil,            \* per token; 0: not blacklisted
    revokedUntil,              \* per token; 0: not revoked by its jti
    owner,                     \* per token; NoUser: not issued yet
    ver, window,               \* per token: the claims "ver" and "fgp"
    returned,                  \* tokens a client has received
    req,                       \* the requests in flight
    dead,                      \* history: tokens a completed logout covers
    lateAccept                 \* history: tokens honoured by a validation
                               \* that began when they were dead

redis  == <<version, versionUntil, tracked, trackedUntil, blacklistUntil, revokedUntil>>
claims == <<owner, ver, window>>
vars   == <<clock, redis, claims, returned, req, dead, lateAccept>>

Idle == [op |-> "none", pc |-> "idle", phase |-> "none", user |-> NoUser,
         token |-> NoToken, new |-> NoToken, seen |-> 0, win |-> 0, snap |-> {}, list |-> {}]

CurrentWindow == clock \div Window

InFlight(r) == req[r].pc # "idle"
Become(r, q) == req' = [req EXCEPT ![r] = q]
Goto(r, pc)  == Become(r, [req[r] EXCEPT !.pc = pc])
Finish(r)    == Become(r, Idle)

\* The operations that write a higher version.
WriterOps == {"logout", "increment"}
WriterInFlight(u) == \E r \in Requests : req[r].op \in WriterOps /\ req[r].user = u

TokensOf(u) == {t \in Tokens : owner[t] = u}

Init ==
    /\ clock = 0
    /\ version = [u \in Users |-> IF u \in KnownUsers THEN 1 ELSE 0]
    /\ versionUntil = [u \in Users |-> IF u \in KnownUsers THEN VersionTtl ELSE 0]
    /\ tracked = [u \in Users |-> {}]
    /\ trackedUntil = [u \in Users |-> 0]
    /\ blacklistUntil = [t \in Tokens |-> 0]
    /\ revokedUntil = [t \in Tokens |-> 0]
    /\ owner = [t \in Tokens |-> NoUser]
    /\ ver = [t \in Tokens |-> 0]
    /\ window = [t \in Tokens |-> 0]
    /\ returned = {}
    /\ req = [r \in Requests |-> Idle]
    /\ dead = {}
    /\ lateAccept = {}

-----------------------------------------------------------------------------
(* Requests arrive.                                                        *)

Start(r, rec) ==
    /\ ~InFlight(r)
    /\ rec.op \in Operations
    /\ Become(r, rec)
    /\ UNCHANGED <<clock, redis, claims, returned, dead, lateAccept>>

\* The jti of the token to come is drawn before the first Redis command.
Unused(t) == owner[t] = NoUser /\ \A r \in Requests : req[r].new # t

\* login, register and generateToken: the fingerprint is taken first.
StartIssue(r, op, u, t) ==
    /\ op \in {"login", "generate"}
    /\ Unused(t)
    /\ Start(r, [Idle EXCEPT !.op = op, !.pc = "version", !.phase = "issue",
                             !.user = u, !.new = t, !.win = CurrentWindow])

\* JwtStrategy.validate, and refreshTokens, which checks the token it is given.
StartCheck(r, op, t, n) ==
    /\ t \in returned
    /\ \/ op = "validate" /\ n = NoToken
       \/ op = "refresh" /\ n \in Tokens /\ Unused(n)
    /\ Start(r, [Idle EXCEPT !.op = op, !.pc = "blacklist", !.phase = "check",
                             !.user = owner[t], !.token = t, !.new = n,
                             !.snap = dead])

\* Bounds versions; with SerialWriters it is also the environment assumption
\* that a user logs out once at a time.
MayWrite(u) ==
    /\ version[u] < MaxVersion
    /\ SerialWriters => ~WriterInFlight(u)

\* logout: the route's guard checks the bearer token before the handler runs.
StartLogout(r, t) ==
    /\ t \in returned
    /\ MayWrite(owner[t])
    /\ Start(r, [Idle EXCEPT !.op = "logout", !.pc = "blacklist", !.phase = "check",
                             !.user = owner[t], !.token = t, !.snap = dead])

StartIncrement(r, u) ==
    /\ MayWrite(u)
    /\ Start(r, [Idle EXCEPT !.op = "increment", !.pc = "increment",
                             !.phase = "revoke", !.user = u])

StartRevoke(r, t) ==
    /\ t \in returned
    /\ Start(r, [Idle EXCEPT !.op = "revoke", !.pc = "revoke", !.token = t])

-----------------------------------------------------------------------------
(* validateToken: blacklist, fingerprint, revocation, version, in order.   *)

\* validateToken answers false: so does every operation behind it.
Reject(r) == Finish(r) /\ UNCHANGED <<claims, returned, dead, lateAccept>>

GetBlacklist(r) ==
    LET t == req[r].token IN
    /\ req[r].pc = "blacklist"
    /\ \/ /\ blacklistUntil[t] > 0 \/ window[t] # CurrentWindow
          /\ Reject(r)
       \/ /\ blacklistUntil[t] = 0 /\ window[t] = CurrentWindow
          /\ Goto(r, "revocation")
          /\ UNCHANGED <<claims, returned, dead, lateAccept>>
    /\ UNCHANGED <<clock, redis>>

GetRevocation(r) ==
    LET t == req[r].token IN
    /\ req[r].pc = "revocation"
    /\ \/ revokedUntil[t] > 0 /\ Reject(r)
       \/ /\ revokedUntil[t] = 0
          /\ Goto(r, "version")
          /\ UNCHANGED <<claims, returned, dead, lateAccept>>
    /\ UNCHANGED <<clock, redis>>

\* The token was honoured; the operation behind the check goes on.
Honour(r) ==
    LET t == req[r].token IN
    /\ lateAccept' = IF t \in req[r].snap THEN lateAccept \cup {t} ELSE lateAccept
    /\ \/ req[r].op = "validate" /\ Finish(r)
       \/ /\ req[r].op = "refresh"
          /\ Become(r, [req[r] EXCEPT !.phase = "issue", !.pc = "version",
                                      !.win = CurrentWindow, !.snap = {}])
       \/ /\ req[r].op = "logout"
          /\ Become(r, [req[r] EXCEPT !.phase = "revoke", !.pc = "version",
                                      !.snap = returned \cap TokensOf(req[r].user)])
    /\ UNCHANGED <<claims, returned, dead>>

\* createTokens signs the token with the version it has just read.
Sign(r, v) ==
    LET t == req[r].new IN
    /\ owner'  = [owner EXCEPT ![t] = req[r].user]
    /\ ver'    = [ver EXCEPT ![t] = v]
    /\ window' = [window EXCEPT ![t] = req[r].win]
    /\ IF req[r].op = "generate"
       THEN Finish(r) /\ returned' = returned \cup {t}
       ELSE Goto(r, "trackRead") /\ UNCHANGED returned
    /\ UNCHANGED <<dead, lateAccept>>

\* Slip: revokeAllUserTokens goes on without writing the new version.
UseVersionUnwritten(r, v) ==
    \/ /\ req[r].phase = "check"
       /\ IF ver[req[r].token] = v THEN Honour(r) ELSE Reject(r)
    \/ req[r].phase = "issue" /\ Sign(r, v)
    \/ /\ req[r].phase = "revoke"
       /\ Goto(r, "list")
       /\ UNCHANGED <<claims, returned, dead, lateAccept>>

\* What the caller of getCurrentTokenVersion does with the answer v.
UseVersion(r, v) ==
    \/ /\ req[r].phase = "check"
       /\ IF ver[req[r].token] = v THEN Honour(r) ELSE Reject(r)
    \/ /\ req[r].phase = "issue"
       /\ Sign(r, v)
    \/ /\ req[r].phase = "revoke"
       /\ Become(r, [req[r] EXCEPT !.pc = "bump", !.seen = v])
       /\ UNCHANGED <<claims, returned, dead, lateAccept>>

\* getCurrentTokenVersion: GET, and when the key is missing SET it to 1.
GetVersion(r) ==
    LET v == version[req[r].user] IN
    /\ req[r].pc = "version"
    /\ \/ v > 0 /\ UseVersion(r, v)
       \/ /\ v = 0
          /\ Goto(r, "init")
          /\ UNCHANGED <<claims, returned, dead, lateAccept>>
    /\ UNCHANGED <<clock, redis>>

SetVersion(u, v) ==
    /\ version' = [version EXCEPT ![u] = v]
    /\ versionUntil' = [versionUntil EXCEPT ![u] = clock + VersionTtl]
    /\ UNCHANGED <<tracked, trackedUntil, blacklistUntil, revokedUntil>>

InitVersion(r) ==
    /\ req[r].pc = "init"
    /\ SetVersion(req[r].user, 1)
    /\ UseVersion(r, 1)
    /\ UNCHANGED clock

-----------------------------------------------------------------------------
(* createTokens hands the token over once trackUserTokens has returned.    *)

\* Slip: the caller is handed the token it came with.
ReturnOld(r) ==
    /\ Finish(r)
    /\ returned' = returned \cup {req[r].token}
    /\ UNCHANGED <<claims, dead, lateAccept>>

Return(r) ==
    /\ Finish(r)
    /\ returned' = returned \cup {req[r].new}
    /\ UNCHANGED <<claims, dead, lateAccept>>

\* Slip: the list is read under a key without the user's id.
TrackReadShared(r) ==
    /\ req[r].pc = "trackRead"
    /\ Become(r, [req[r] EXCEPT !.pc = "trackWrite", !.snap = UNION {tracked[u] : u \in Users}])
    /\ UNCHANGED <<clock, redis, claims, returned, dead, lateAccept>>

TrackRead(r) ==
    /\ req[r].pc = "trackRead"
    /\ Become(r, [req[r] EXCEPT !.pc = "trackWrite", !.snap = tracked[req[r].user]])
    /\ UNCHANGED <<clock, redis, claims, returned, dead, lateAccept>>

TrackWrite(r) ==
    LET u == req[r].user IN
    /\ req[r].pc = "trackWrite"
    /\ tracked' = [tracked EXCEPT ![u] = req[r].snap \cup {req[r].new}]
    /\ trackedUntil' = [trackedUntil EXCEPT ![u] = clock + VersionTtl]
    /\ Return(r)
    /\ UNCHANGED <<clock, version, versionUntil, blacklistUntil, revokedUntil>>

-----------------------------------------------------------------------------
(* revokeAllUserTokens and incrementTokenVersion.                          *)

\* incrementTokenVersion reads without initialising: a missing key counts 0.
IncrementRead(r) ==
    /\ req[r].pc = "increment"
    /\ Become(r, [req[r] EXCEPT !.pc = "bump", !.seen = version[req[r].user]])
    /\ UNCHANGED <<clock, redis, claims, returned, dead, lateAccept>>

\* Slip: the version is written back as it was read.
BumpNothing(r) ==
    /\ req[r].pc = "bump"
    /\ SetVersion(req[r].user, req[r].seen)
    /\ IF req[r].op = "increment" THEN Finish(r) ELSE Goto(r, "list")
    /\ UNCHANGED <<clock, claims, returned, dead, lateAccept>>

\* The version read earlier plus one is written back.
Bump(r) ==
    /\ req[r].pc = "bump"
    /\ SetVersion(req[r].user, req[r].seen + 1)
    /\ IF req[r].op = "increment" THEN Finish(r) ELSE Goto(r, "list")
    /\ UNCHANGED <<clock, claims, returned, dead, lateAccept>>

\* Slip: the list is read under a key without the user's id.
ListTokensShared(r) ==
    /\ req[r].pc = "list"
    /\ Become(r, [req[r] EXCEPT !.pc = "blacklistAll", !.list = UNION {tracked[u] : u \in Users}])
    /\ UNCHANGED <<clock, redis, claims, returned, dead, lateAccept>>

\* With the list in hand every token on it is blacklisted at once; an empty
\* or missing list leads straight to the DEL.
ListTokens(r) ==
    LET u == req[r].user IN
    /\ req[r].pc = "list"
    /\ Become(r, [req[r] EXCEPT !.pc = IF tracked[u] = {} THEN "clear" ELSE "blacklistAll",
                                !.list = tracked[u]])
    /\ UNCHANGED <<clock, redis, claims, returned, dead, lateAccept>>

Blacklist(S) ==
    /\ blacklistUntil' = [t \in Tokens |->
                            IF t \in S THEN clock + RevocationTtl ELSE blacklistUntil[t]]
    /\ UNCHANGED <<version, versionUntil, tracked, trackedUntil, revokedUntil>>

BlacklistAll(r) ==
    /\ req[r].pc = "blacklistAll"
    /\ Blacklist(req[r].list)
    /\ Goto(r, "clear")
    /\ UNCHANGED <<clock, claims, returned, dead, lateAccept>>

\* Slip: the key deleted is the user's version.
ClearVersion(r) ==
    LET u == req[r].user IN
    /\ req[r].pc = "clear"
    /\ version' = [version EXCEPT ![u] = 0]
    /\ versionUntil' = [versionUntil EXCEPT ![u] = 0]
    /\ dead' = dead \cup req[r].snap
    /\ Finish(r)
    /\ UNCHANGED <<clock, tracked, trackedUntil, blacklistUntil, revokedUntil,
                   claims, returned, lateAccept>>

\* DEL user:tokens:<user>
Untrack(u) ==
    /\ tracked' = [tracked EXCEPT ![u] = {}]
    /\ trackedUntil' = [trackedUntil EXCEPT ![u] = 0]
    /\ UNCHANGED <<version, versionUntil, blacklistUntil, revokedUntil>>

\* The logout answers success.  From here on every token the user held when
\* the logout began is dead.
ClearTracked(r) ==
    /\ req[r].pc = "clear"
    /\ Untrack(req[r].user)
    /\ dead' = dead \cup req[r].snap
    /\ Finish(r)
    /\ UNCHANGED <<clock, claims, returned, lateAccept>>

RevokeJti(t) ==
    /\ revokedUntil' = [revokedUntil EXCEPT ![t] = clock + RevocationTtl]
    /\ UNCHANGED <<version, versionUntil, tracked, trackedUntil, blacklistUntil>>

RevokeToken(r) ==
    /\ req[r].pc = "revoke"
    /\ RevokeJti(req[r].token)
    /\ Finish(r)
    /\ UNCHANGED <<clock, claims, returned, dead, lateAccept>>

-----------------------------------------------------------------------------
(* A Redis command fails.  trackUserTokens swallows the error and the login *)
(* succeeds; everywhere else the request fails where it stands, and         *)
(* Promise.all may have blacklisted some of the tokens by then.             *)

RedisFails(r) ==
    /\ RedisFaults
    /\ InFlight(r)
    /\ \/ /\ req[r].pc \in {"trackRead", "trackWrite"}
          /\ Return(r)
          /\ UNCHANGED redis
       \/ /\ req[r].pc = "blacklistAll"
          /\ \E S \in SUBSET req[r].list : Blacklist(S)
          /\ Reject(r)
       \/ /\ req[r].pc \notin {"trackRead", "trackWrite", "blacklistAll"}
          /\ Reject(r)
          /\ UNCHANGED redis
    /\ UNCHANGED clock

\* A command that Redis carries out although its answer does not come within
\* commandTimeout: the caller takes it for failed.  (At "trackWrite" that is
\* TrackWrite, at "blacklistAll" it is RedisFails with the whole list.)
Unanswered(r) ==
    /\ RedisFaults
    /\ \/ req[r].pc = "init" /\ SetVersion(req[r].user, 1)
       \/ req[r].pc = "bump" /\ SetVersion(req[r].user, req[r].seen + 1)
       \/ req[r].pc = "clear" /\ Untrack(req[r].user)
       \/ req[r].pc = "revoke" /\ RevokeJti(req[r].token)
    /\ Reject(r)
    /\ UNCHANGED clock

\* Keys whose time has come are gone.
Live(until, t) == IF until <= t THEN 0 ELSE until

Tick ==
    /\ clock < MaxClock
    /\ PromptRequests => \A r \in Requests : ~InFlight(r)
    /\ clock' = clock + 1
    /\ version' = [u \in Users |-> IF versionUntil[u] <= clock + 1 THEN 0 ELSE version[u]]
    /\ versionUntil' = [u \in Users |-> Live(versionUntil[u], clock + 1)]
    /\ tracked' = [u \in Users |-> IF trackedUntil[u] <= clock + 1 THEN {} ELSE tracked[u]]
    /\ trackedUntil' = [u \in Users |-> Live(trackedUntil[u], clock + 1)]
    /\ blacklistUntil' = [t \in Tokens |-> Live(blacklistUntil[t], clock + 1)]
    /\ revokedUntil' = [t \in Tokens |-> Live(revokedUntil[t], clock + 1)]
    /\ UNCHANGED <<claims, returned, req, dead, lateAccept>>

Arrive(r) ==
    \/ \E op \in {"login", "generate"}, u \in Users, t \in Tokens : StartIssue(r, op, u, t)
    \/ \E op \in {"validate", "refresh"}, t \in returned, n \in Tokens \cup {NoToken} :
          StartCheck(r, op, t, n)
    \/ \E t \in returned : StartLogout(r, t) \/ StartRevoke(r, t)
    \/ \E u \in Users : StartIncrement(r, u)

Proceed(r) ==
    \/ GetBlacklist(r) \/ GetRevocation(r) \/ GetVersion(r) \/ InitVersion(r)
    \/ TrackRead(r) \/ TrackWrite(r)
    \/ IncrementRead(r) \/ Bump(r)
    \/ ListTokens(r) \/ BlacklistAll(r) \/ ClearTracked(r)
    \/ RevokeToken(r)

Next == Tick \/ \E r \in Requests : Arrive(r) \/ Proceed(r) \/ RedisFails(r) \/ Unanswered(r)

Spec == Init /\ [][Next]_vars

-----------------------------------------------------------------------------
(* Properties.                                                             *)

Pcs == {"idle", "blacklist", "revocation", "version", "init", "trackRead", "trackWrite",
        "increment", "bump", "list", "blacklistAll", "clear", "revoke"}
Phases == {"none", "check", "issue", "revoke"}

ReqRecord ==
    [op : OperationNames \cup {"none"}, pc : Pcs, phase : Phases,
     user : Users \cup {NoUser}, token : Tokens \cup {NoToken},
     new : Tokens \cup {NoToken}, seen : Nat, win : Nat,
     snap : SUBSET Tokens, list : SUBSET Tokens]

\* Every variable stays within its type.
TypeOK ==
    /\ clock \in Nat
    /\ version \in [Users -> Nat] /\ versionUntil \in [Users -> Nat]
    /\ tracked \in [Users -> SUBSET Tokens] /\ trackedUntil \in [Users -> Nat]
    /\ blacklistUntil \in [Tokens -> Nat] /\ revokedUntil \in [Tokens -> Nat]
    /\ owner \in [Tokens -> Users \cup {NoUser}]
    /\ ver \in [Tokens -> Nat] /\ window \in [Tokens -> Nat]
    /\ returned \subseteq Tokens
    /\ req \in [Requests -> ReqRecord]
    /\ dead \subseteq Tokens /\ lateAccept \subseteq Tokens

\* A token its user held when a logout began is never honoured again by a
\* check that begins after that logout has answered success (auth.service.ts,
\* logout: "Invalidate all tokens for the user").
RevokedNeverHonoured == lateAccept = {}

\* A token is blacklisted only by a logout of the user it was issued to, even
\* though the list of tokens to blacklist is rebuilt by unsynchronised reads
\* and writes of every login.
BlacklistedByOwner ==
    \A t \in Tokens :
        blacklistUntil'[t] > blacklistUntil[t]
        => \E r \in Requests : req[r].op = "logout" /\ req[r].user = owner[t]

OnlyOwnLogoutBlacklists == [][BlacklistedByOwner]_vars

\* The service implements TokenRevocation: a token counts for something when
\* it carries the current version of the user it was issued to.
Revocation == INSTANCE TokenRevocation
    WITH valid <- {t \in Tokens : owner[t] \in Users /\ ver[t] = version[owner[t]]}

ImplementsRevocation == Revocation!RSpec

-----------------------------------------------------------------------------
(* The inductive invariants behind the properties.                         *)

\* What a request's record holds at each of its steps.
RequestShape(q) ==
    /\ q.pc = "idle" => q = Idle
    /\ q.pc = "revoke" => q.op = "revoke" /\ q.phase = "none" /\ q.token \in Tokens
    /\ q.phase = "none" => q.pc \in {"idle", "revoke"}
    /\ q.phase # "none" => q.user \in Users /\ q.pc \notin {"idle", "revoke"}
    /\ q.pc \in {"blacklist", "revocation"} => q.phase = "check"
    /\ q.phase = "check" => /\ q.pc \in {"blacklist", "revocation", "version", "init"}
                            /\ q.op \in {"validate", "refresh", "logout"}
                            /\ q.op = "refresh" => q.new \in Tokens
                            /\ q.op # "refresh" => q.new = NoToken
                            /\ q.token \in Tokens
    /\ q.pc \in {"trackRead", "trackWrite"} => q.phase = "issue"
    /\ q.phase = "issue" => /\ q.pc \in {"version", "init", "trackRead", "trackWrite"}
                            /\ q.op \in {"login", "generate", "refresh"}
                            /\ q.op = "generate" => q.pc \in {"version", "init"}
                            /\ q.new \in Tokens
    /\ q.pc \in {"increment", "bump", "list", "blacklistAll", "clear"} => q.phase = "revoke"
    /\ q.phase = "revoke" => /\ q.pc \in {"version", "init", "increment", "bump", "list",
                                           "blacklistAll", "clear"}
                             /\ q.op \in WriterOps
                             /\ q.op = "increment" => q.pc \in {"increment", "bump"}
                             /\ q.new = NoToken

\* The tokens a request's record speaks of.  A token being issued is nobody's
\* until it is signed; every list of tokens the request holds is its user's.
RequestOwns(q) ==
    /\ q.new # NoToken /\ q.pc \notin {"trackRead", "trackWrite"} => owner[q.new] = NoUser
    /\ q.pc \in {"trackRead", "trackWrite"} => owner[q.new] = q.user
    /\ q.phase = "check" => owner[q.token] = q.user
    /\ q.pc = "trackWrite" => q.snap \subseteq TokensOf(q.user)
    /\ q.phase = "revoke" => q.snap \subseteq TokensOf(q.user)
    /\ q.pc = "blacklistAll" => q.list \subseteq TokensOf(q.user)

\* Who owns what.  Every list of a user's tokens, in Redis or in the hands of
\* a request, holds only tokens issued to that user, and only one request is
\* issuing a given token.
Ownership ==
    /\ \A r \in Requests : RequestShape(req[r]) /\ RequestOwns(req[r])
    /\ \A t \in returned : owner[t] \in Users
    /\ \A u \in Users : tracked[u] \subseteq TokensOf(u)
    /\ \A r, s \in Requests : r # s /\ req[r].new # NoToken => req[r].new # req[s].new

\* What a request has read is still so: a writer about to write holds the
\* version it read, a logout that has written it leaves every token it answers
\* for behind.
RequestCurrent(q) ==
    /\ q.pc # "init"
    /\ q.pc = "bump" => q.seen = version[q.user]
    /\ q.pc \in {"list", "blacklistAll", "clear"} => \A t \in q.snap : ver[t] < version[q.user]
    /\ q.phase = "check" => q.snap \subseteq dead

\* While nobody else writes a user's version and its key cannot expire, the
\* version only grows, no token is ahead of it and every dead token is behind.
VersionsGrow ==
    /\ clock <= MaxClock
    /\ \A u \in Users : version[u] > 0 /\ versionUntil[u] >= VersionTtl
    /\ \A t \in Tokens : owner[t] \in Users => ver[t] <= version[owner[t]]
    /\ \A r, s \in Requests :
          r # s /\ req[r].op \in WriterOps /\ req[s].op \in WriterOps => req[r].user # req[s].user
    /\ \A r \in Requests : RequestCurrent(req[r])
    /\ \A t \in dead : owner[t] \in Users /\ ver[t] < version[owner[t]]
    /\ lateAccept = {}
=============================================================================
