---------------------------- MODULE TokensProofs ----------------------------
(* What holds of Tokens for every set of users, tokens and requests.       *)
EXTENDS Tokens, TLAPS

LEMMA IdleIsRecord == Idle \in ReqRecord
  BY DEF Idle, ReqRecord, Pcs, Phases

LEMMA InitTypeOK == Init => TypeOK
  BY TokensAssumption, IdleIsRecord DEF Init, TypeOK

LEMMA InitOwnership == Init => Ownership
  BY TokensAssumption DEF Init, Ownership, RequestShape, RequestOwns, Idle, TokensOf

LEMMA WindowIsNat == ASSUME clock \in Nat PROVE CurrentWindow \in Nat
  BY TokensAssumption DEF CurrentWindow

\* A handler only ever writes request records for itself.
LEMMA BecomeType ==
  ASSUME TypeOK, NEW r \in Requests, NEW q \in ReqRecord, Become(r, q)
  PROVE  req' \in [Requests -> ReqRecord]
  BY DEF Become, TypeOK

LEMMA GotoType ==
  ASSUME TypeOK, NEW r \in Requests, NEW pc \in Pcs, Goto(r, pc)
  PROVE  req' \in [Requests -> ReqRecord]
<1>1. [req[r] EXCEPT !.pc = pc] \in ReqRecord
  BY DEF TypeOK, ReqRecord
<1> QED BY <1>1, BecomeType DEF Goto

LEMMA FinishType ==
  ASSUME TypeOK, NEW r \in Requests, Finish(r)
  PROVE  req' \in [Requests -> ReqRecord]
  BY BecomeType, IdleIsRecord DEF Finish

\* The operations that arrive bring a request record.
LEMMA ArriveTypeOK ==
  ASSUME TypeOK, Ownership, NEW r \in Requests, Arrive(r)
  PROVE  TypeOK'
<1> USE TokensAssumption
<1>1. ASSUME NEW op \in {"login", "generate"}, NEW u \in Users, NEW t \in Tokens,
             StartIssue(r, op, u, t)
      PROVE  TypeOK'
  BY <1>1, WindowIsNat DEF StartIssue, Start, Become, TypeOK, ReqRecord, Pcs, Phases, Idle, OperationNames, redis, claims
<1>2. ASSUME NEW op \in {"validate", "refresh"}, NEW t \in returned,
             NEW n \in Tokens \cup {NoToken}, StartCheck(r, op, t, n)
      PROVE  TypeOK'
  BY <1>2 DEF StartCheck, Start, Become, TypeOK, ReqRecord, Pcs, Phases, Idle, OperationNames, redis, claims
<1>3. ASSUME NEW t \in returned, StartLogout(r, t) PROVE TypeOK'
  BY <1>3 DEF StartLogout, Start, Become, TypeOK, ReqRecord, Pcs, Phases, Idle, OperationNames, redis, claims
<1>4. ASSUME NEW t \in returned, StartRevoke(r, t) PROVE TypeOK'
  BY <1>4 DEF StartRevoke, Start, Become, TypeOK, ReqRecord, Pcs, Phases, Idle, OperationNames, redis, claims
<1>5. ASSUME NEW u \in Users, StartIncrement(r, u) PROVE TypeOK'
  BY <1>5 DEF StartIncrement, Start, Become, TypeOK, ReqRecord, Pcs, Phases, Idle, OperationNames, redis, claims
<1> QED BY <1>1, <1>2, <1>3, <1>4, <1>5 DEF Arrive

LEMMA UseVersionTypeOK ==
  ASSUME TypeOK, Ownership, NEW r \in Requests, NEW v \in Nat, UseVersion(r, v),
         req[r].pc \in {"version", "init"},
         version' \in [Users -> Nat], versionUntil' \in [Users -> Nat],
         UNCHANGED <<clock, tracked, trackedUntil, blacklistUntil, revokedUntil>>
  PROVE  TypeOK'
<1> USE TokensAssumption
<1>1. req[r] \in ReqRecord
  BY DEF TypeOK
<1>3. req' \in [Requests -> ReqRecord]
  <2>1. CASE Reject(r)
    BY <2>1, FinishType DEF Reject
  <2>2. CASE req[r].phase = "check" /\ Honour(r)
    <3>1. [req[r] EXCEPT !.phase = "issue", !.pc = "version",
                         !.win = CurrentWindow, !.snap = {}] \in ReqRecord
      BY <1>1, WindowIsNat DEF ReqRecord, Pcs, Phases, TypeOK
    <3>2. [req[r] EXCEPT !.phase = "revoke", !.pc = "version",
                         !.snap = returned \cap TokensOf(req[r].user)] \in ReqRecord
      BY <1>1 DEF ReqRecord, Pcs, Phases, TypeOK
    <3>3. req[r].op \in {"validate", "refresh", "logout"}
      BY <2>2 DEF Ownership, RequestShape
    <3> QED BY <2>2, <3>1, <3>2, <3>3, FinishType, BecomeType DEF Honour
  <2>3. CASE req[r].phase = "issue" /\ Sign(r, v)
    BY <2>3, FinishType, GotoType DEF Sign, Pcs
  <2>4. CASE req[r].phase = "revoke" /\ Become(r, [req[r] EXCEPT !.pc = "bump", !.seen = v])
    <3>1. [req[r] EXCEPT !.pc = "bump", !.seen = v] \in ReqRecord
      BY <1>1 DEF ReqRecord, Pcs
    <3> QED BY <2>4, <3>1, BecomeType
  <2> QED BY <2>1, <2>2, <2>3, <2>4 DEF UseVersion
<1>4. claims' = claims \/ (req[r].phase = "issue" /\ Sign(r, v))
  BY DEF UseVersion, Honour, Reject
<1>5. /\ owner' \in [Tokens -> Users \cup {NoUser}]
      /\ ver' \in [Tokens -> Nat] /\ window' \in [Tokens -> Nat]
  <2>1. CASE claims' = claims
    BY <2>1 DEF claims, TypeOK
  <2>2. CASE req[r].phase = "issue" /\ Sign(r, v)
    <3>1. req[r].user \in Users \cup {NoUser} /\ req[r].win \in Nat
      BY <1>1 DEF ReqRecord
    <3> QED BY <2>2, <3>1 DEF Sign, TypeOK
  <2> QED BY <1>4, <2>1, <2>2
<1>6. returned' \subseteq Tokens /\ dead' \subseteq Tokens /\ lateAccept' \subseteq Tokens
  <2>1. req[r].phase = "issue" => req[r].new \in Tokens
    BY DEF Ownership, RequestShape
  <2>2. req[r].phase = "check" => req[r].token \in Tokens
    BY DEF Ownership, RequestShape
  <2>3. CASE Reject(r) \/ req[r].phase = "revoke"
    <3>1. returned' = returned /\ dead' = dead /\ lateAccept' = lateAccept
      BY <2>3 DEF UseVersion, Reject
    <3> QED BY <3>1 DEF TypeOK
  <2>4. CASE req[r].phase = "check" /\ Honour(r)
    <3>1. returned' = returned /\ dead' = dead
      BY <2>4 DEF Honour
    <3>2. lateAccept' \subseteq lateAccept \cup {req[r].token}
      BY <2>4 DEF Honour
    <3> QED BY <2>2, <2>4, <3>1, <3>2 DEF TypeOK
  <2>5. CASE req[r].phase = "issue" /\ Sign(r, v)
    BY <2>1, <2>5 DEF Sign, TypeOK
  <2> QED BY <2>3, <2>4, <2>5 DEF UseVersion
<1> QED BY <1>3, <1>5, <1>6 DEF TypeOK

LEMMA NextTypeOK ==
  ASSUME TypeOK, Ownership, [Next]_vars
  PROVE  TypeOK'
<1> USE TokensAssumption
<1>r. ASSUME NEW r \in Requests PROVE req[r] \in ReqRecord /\ RequestShape(req[r])
  BY DEF TypeOK, Ownership
<1>2. ASSUME NEW r \in Requests, GetBlacklist(r) \/ GetRevocation(r) PROVE TypeOK'
  <2>1. req' \in [Requests -> ReqRecord]
    BY <1>2, FinishType, GotoType DEF GetBlacklist, GetRevocation, Reject, Pcs
  <2> QED BY <1>2, <2>1 DEF GetBlacklist, GetRevocation, Reject, TypeOK, redis, claims
<1>3. ASSUME NEW r \in Requests, GetVersion(r) PROVE TypeOK'
  <2>1. req[r].pc = "version" /\ req[r].user \in Users /\ UNCHANGED <<clock, redis>>
    BY <1>3, <1>r DEF GetVersion, RequestShape
  <2>2. version[req[r].user] \in Nat
    BY <2>1 DEF TypeOK
  <2>3. CASE UseVersion(r, version[req[r].user])
    BY UseVersionTypeOK, <2>1, <2>2, <2>3 DEF redis, TypeOK
  <2>4. CASE Goto(r, "init") /\ UNCHANGED <<claims, returned, dead, lateAccept>>
    <3>1. req' \in [Requests -> ReqRecord]
      BY <2>4, GotoType DEF Pcs
    <3> QED BY <2>1, <2>4, <3>1 DEF TypeOK, redis, claims
  <2> QED BY <1>3, <2>3, <2>4 DEF GetVersion
<1>5. ASSUME NEW r \in Requests, InitVersion(r) PROVE TypeOK'
  <2>1. version' \in [Users -> Nat] /\ versionUntil' \in [Users -> Nat]
    <3>1. clock + VersionTtl \in Nat
      BY DEF TypeOK
    <3> QED BY <1>5, <3>1 DEF InitVersion, SetVersion, TypeOK
  <2> QED BY UseVersionTypeOK, <1>5, <2>1 DEF InitVersion, SetVersion
<1>6. ASSUME NEW r \in Requests, TrackRead(r) \/ TrackWrite(r) PROVE TypeOK'
  <2>1. req[r].user \in Users /\ req[r].new \in Tokens /\ req[r].snap \subseteq Tokens
    BY <1>6, <1>r DEF TrackRead, TrackWrite, RequestShape, ReqRecord
  <2>2. [req[r] EXCEPT !.pc = "trackWrite", !.snap = tracked[req[r].user]] \in ReqRecord
    <3>1. tracked[req[r].user] \subseteq Tokens
      BY <2>1 DEF TypeOK
    <3> QED BY <3>1, <1>r DEF ReqRecord, Pcs
  <2>3. req' \in [Requests -> ReqRecord]
    BY <1>6, <2>2, BecomeType, FinishType DEF TrackRead, TrackWrite, Return
  <2> QED BY <1>6, <2>1, <2>3 DEF TrackRead, TrackWrite, Return, TypeOK, redis, claims
<1>7. ASSUME NEW r \in Requests, IncrementRead(r) \/ Bump(r) PROVE TypeOK'
  <2>1. req[r].user \in Users /\ req[r].seen \in Nat
    BY <1>7, <1>r DEF IncrementRead, Bump, RequestShape, ReqRecord
  <2>2. [req[r] EXCEPT !.pc = "bump", !.seen = version[req[r].user]] \in ReqRecord
    <3>1. version[req[r].user] \in Nat
      BY <2>1 DEF TypeOK
    <3> QED BY <3>1, <1>r DEF ReqRecord, Pcs
  <2>3. req' \in [Requests -> ReqRecord]
    BY <1>7, <2>2, BecomeType, FinishType, GotoType DEF IncrementRead, Bump, Pcs
  <2> QED BY <1>7, <2>1, <2>3 DEF IncrementRead, Bump, SetVersion, TypeOK, redis, claims
<1>8. ASSUME NEW r \in Requests, ListTokens(r) \/ BlacklistAll(r) PROVE TypeOK'
  <2>1. CASE ListTokens(r)
    <3>1. req[r].user \in Users
      BY <2>1, <1>r DEF ListTokens, RequestShape
    <3>2. \A pc \in Pcs : [req[r] EXCEPT !.pc = pc, !.list = tracked[req[r].user]] \in ReqRecord
      BY <3>1, <1>r DEF ReqRecord, TypeOK
    <3>3. [req[r] EXCEPT !.pc = IF tracked[req[r].user] = {} THEN "clear" ELSE "blacklistAll",
                         !.list = tracked[req[r].user]] \in ReqRecord
      BY <3>2 DEF Pcs
    <3>4. req' \in [Requests -> ReqRecord]
      BY <2>1, <3>3, BecomeType DEF ListTokens
    <3> QED BY <2>1, <3>4 DEF ListTokens, TypeOK, redis, claims
  <2>2. CASE BlacklistAll(r)
    <3>1. req' \in [Requests -> ReqRecord]
      BY <2>2, GotoType DEF BlacklistAll, Pcs
    <3> QED BY <2>2, <3>1 DEF BlacklistAll, Blacklist, TypeOK, claims
  <2> QED BY <1>8, <2>1, <2>2
<1>9. ASSUME NEW r \in Requests, ClearTracked(r) \/ RevokeToken(r) PROVE TypeOK'
  <2>1. req' \in [Requests -> ReqRecord]
    BY <1>9, FinishType DEF ClearTracked, RevokeToken
  <2>2. req[r].snap \subseteq Tokens
    BY <1>r DEF ReqRecord
  <2> QED BY <1>9, <2>1, <2>2 DEF ClearTracked, RevokeToken, Untrack, RevokeJti, TypeOK, claims
<1>10. ASSUME NEW r \in Requests, RedisFails(r) PROVE TypeOK'
  <2>1. req[r].pc \in {"trackRead", "trackWrite"} => req[r].new \in Tokens
    BY <1>r DEF RequestShape
  <2>2. req' \in [Requests -> ReqRecord]
    BY <1>10, FinishType DEF RedisFails, Return, Reject
  <2> QED
    BY <1>10, <2>1, <2>2 DEF RedisFails, Return, Reject, Blacklist, TypeOK, redis, claims
<1>13. ASSUME NEW r \in Requests, Unanswered(r) PROVE TypeOK'
  <2>1. req' \in [Requests -> ReqRecord]
    BY <1>13, FinishType DEF Unanswered, Reject
  <2>2. req[r].pc \in {"init", "bump"} => req[r].user \in Users
    BY <1>r DEF RequestShape
  <2>3. req[r].seen + 1 \in Nat /\ clock + VersionTtl \in Nat /\ clock + RevocationTtl \in Nat
    BY <1>r DEF ReqRecord, TypeOK
  <2> QED BY <1>13, <2>1, <2>2, <2>3 DEF Unanswered, Reject, SetVersion, Untrack, RevokeJti, TypeOK, claims
<1>11. CASE Tick
  BY <1>11 DEF Tick, Live, TypeOK, claims
<1>12. CASE UNCHANGED vars
  BY <1>12 DEF vars, redis, claims, TypeOK
<1> QED
  BY ArriveTypeOK, <1>2, <1>3, <1>5, <1>6, <1>7, <1>8, <1>9, <1>10, <1>11, <1>12,
     <1>13 DEF Next, Proceed

\* A step that issues no token keeps ownership when the request it belongs to
\* keeps to its own tokens.
LEMMA OwnershipFrame ==
  ASSUME TypeOK, Ownership, NEW r \in Requests, NEW q, Become(r, q),
         RequestShape(q), RequestOwns(q),
         q.new \in {NoToken, req[r].new} \/ \A s \in Requests : req[s].new # q.new,
         owner' = owner,
         \A t \in returned' : owner[t] \in Users,
         \A u \in Users : tracked'[u] \subseteq TokensOf(u)
  PROVE  Ownership'
<1>1. req'[r] = q /\ \A s \in Requests : s # r => req'[s] = req[s]
  BY DEF Become, TypeOK
<1>2. \A s \in Requests : RequestShape(req'[s])
  BY <1>1 DEF Ownership
<1>3. \A x : RequestOwns(x) => RequestOwns(x)'
  BY DEF RequestOwns, TokensOf
<1>4. \A s \in Requests : RequestOwns(req'[s])
  BY <1>1 DEF Ownership
<1>5. \A s, t \in Requests : s # t /\ req'[s].new # NoToken => req'[s].new # req'[t].new
  BY <1>1 DEF Ownership
<1> QED
  BY <1>2, <1>3, <1>4, <1>5 DEF Ownership, TokensOf, RequestOwns, RequestShape

LEMMA OwnershipFinish ==
  ASSUME TypeOK, Ownership, NEW r \in Requests, Finish(r), owner' = owner,
         \A t \in returned' : owner[t] \in Users,
         \A u \in Users : tracked'[u] \subseteq TokensOf(u)
  PROVE  Ownership'
<1>1. RequestShape(Idle) /\ RequestOwns(Idle) /\ Idle.new = NoToken
  BY DEF RequestShape, RequestOwns, Idle
<1> QED BY <1>1, OwnershipFrame DEF Finish

LEMMA OwnershipGoto ==
  ASSUME TypeOK, Ownership, NEW r \in Requests, NEW pc, Goto(r, pc),
         RequestShape([req[r] EXCEPT !.pc = pc]), RequestOwns([req[r] EXCEPT !.pc = pc]),
         owner' = owner,
         \A t \in returned' : owner[t] \in Users,
         \A u \in Users : tracked'[u] \subseteq TokensOf(u)
  PROVE  Ownership'
<1>1. [req[r] EXCEPT !.pc = pc].new = req[r].new
  BY DEF TypeOK, ReqRecord
<1> QED BY <1>1, OwnershipFrame DEF Goto

\* Signing gives the token that was nobody's to the request's user.
LEMMA SignOwnership ==
  ASSUME TypeOK, Ownership, NEW r \in Requests, NEW v \in Nat,
         req[r].phase = "issue", req[r].pc \in {"version", "init"}, Sign(r, v),
         tracked' = tracked
  PROVE  Ownership'
<1> DEFINE t == req[r].new
           u == req[r].user
<1> USE TokensAssumption
<1>1. /\ t \in Tokens /\ u \in Users /\ owner[t] = NoUser
      /\ req[r].op \in {"login", "generate", "refresh"}
  BY DEF Ownership, RequestShape, RequestOwns
<1>2. owner'[t] = u /\ \A s \in Tokens \ {t} : owner'[s] = owner[s]
  BY <1>1 DEF Sign, TypeOK
<1>3. \A w \in Users : TokensOf(w) \subseteq TokensOf(w)'
  BY <1>1, <1>2 DEF TokensOf
<1>4. \A w \in Users : tracked'[w] \subseteq TokensOf(w)'
  BY <1>3 DEF Ownership
<1>5. \A s \in returned' : owner'[s] \in Users
  BY <1>1, <1>2 DEF Sign, Ownership, TypeOK
<1>6. PICK q : /\ Become(r, q)
               /\ \/ q = Idle
                  \/ q = [req[r] EXCEPT !.pc = "trackRead"] /\ req[r].op # "generate"
  BY DEF Sign, Finish, Goto
<1>7. RequestShape(q) /\ RequestOwns(q)' /\ q.new \in {NoToken, t}
  <2>1. CASE q = Idle
    BY <2>1 DEF RequestShape, RequestOwns, Idle
  <2>2. CASE q # Idle
    <3>1. /\ q.pc = "trackRead" /\ q.phase = "issue" /\ q.new = t /\ q.user = u
          /\ q.op = req[r].op /\ q.op # "generate"
      BY <1>6, <2>2 DEF TypeOK, ReqRecord
    <3>2. RequestShape(q)
      BY <1>1, <3>1 DEF RequestShape
    <3> QED BY <1>2, <3>1, <3>2 DEF RequestOwns
  <2> QED BY <2>1, <2>2
<1>8. req'[r] = q /\ \A s \in Requests : s # r => req'[s] = req[s]
  BY <1>6 DEF Become, TypeOK
<1>9. ASSUME NEW s \in Requests, s # r PROVE RequestShape(req[s])' /\ RequestOwns(req[s])'
  <2> DEFINE p == req[s]
  <2>1. p' = p /\ RequestShape(p) /\ RequestOwns(p) /\ p.new # t /\ p \in ReqRecord
    BY <1>1, <1>8, <1>9 DEF Ownership, TypeOK
  <2>2. p.phase = "check" => p.token \in Tokens \ {t} /\ owner[p.token] = p.user
    BY <1>1, <2>1 DEF RequestShape, RequestOwns
  <2>3. p.phase # "none" => p.user \in Users
    BY <2>1 DEF RequestShape
  <2>4. p.new # NoToken => p.new \in Tokens \ {t}
    BY <2>1 DEF ReqRecord
  <2>5. /\ p.pc \in {"trackRead", "trackWrite"} => p.new \in Tokens \ {t}
        /\ p.pc \in {"trackWrite", "blacklistAll"} => p.phase # "none"
    BY <2>1 DEF RequestShape
  <2>6. RequestShape(p)'
    BY <2>1 DEF RequestShape
  <2>7. ASSUME NEW o, o = p PROVE RequestOwns(o)'
    BY <1>2, <1>3, <2>1, <2>2, <2>3, <2>4, <2>5, <2>7 DEF RequestOwns
  <2> QED BY <2>1, <2>6, <2>7 DEF RequestOwns
<1>10. \A s \in Requests : RequestShape(req[s])' /\ RequestOwns(req[s])'
  BY <1>7, <1>8, <1>9 DEF RequestShape, RequestOwns
<1>11. \A s, w \in Requests : s # w /\ req'[s].new # NoToken => req'[s].new # req'[w].new
  BY <1>7, <1>8 DEF Ownership
<1> QED
  BY <1>4, <1>5, <1>10, <1>11 DEF Ownership

\* The rest of a handler that has learnt the version.
LEMMA UseVersionOwnership ==
  ASSUME TypeOK, Ownership, NEW r \in Requests, NEW v \in Nat, UseVersion(r, v),
         req[r].pc \in {"version", "init"}, tracked' = tracked
  PROVE  Ownership'
<1> DEFINE p == req[r]
<1>1. /\ p \in ReqRecord /\ RequestShape(p) /\ RequestOwns(p)
      /\ \A t \in returned : owner[t] \in Users
      /\ \A u \in Users : tracked'[u] \subseteq TokensOf(u)
  BY DEF Ownership, TypeOK
<1>2. CASE Reject(r)
  BY <1>1, <1>2, OwnershipFinish DEF Reject, claims
<1>3. CASE p.phase = "check" /\ Honour(r)
  <2>1. owner' = owner /\ returned' = returned
    BY <1>3 DEF Honour, claims
  <2>2. CASE p.op = "validate"
    BY <1>1, <1>3, <2>1, <2>2, OwnershipFinish DEF Honour
  <2>3. CASE p.op = "refresh"
    <3> DEFINE q == [p EXCEPT !.phase = "issue", !.pc = "version", !.win = CurrentWindow, !.snap = {}]
    <3>1. /\ q.op = "refresh" /\ q.phase = "issue" /\ q.pc = "version" /\ q.user = p.user
          /\ q.new = p.new
      BY <1>1, <2>3 DEF ReqRecord
    <3>2. RequestShape(q) /\ RequestOwns(q)
      BY <1>1, <1>3, <2>3, <3>1 DEF RequestShape, RequestOwns
    <3>3. Become(r, q)
      BY <1>3, <2>3 DEF Honour
    <3> HIDE DEF q
    <3> QED BY <1>1, <2>1, <3>1, <3>2, <3>3, OwnershipFrame
  <2>4. CASE p.op = "logout"
    <3> DEFINE q == [p EXCEPT !.phase = "revoke", !.pc = "version",
                              !.snap = returned \cap TokensOf(p.user)]
    <3>1. /\ q.op = "logout" /\ q.phase = "revoke" /\ q.pc = "version" /\ q.user = p.user
          /\ q.new = p.new /\ q.snap = returned \cap TokensOf(p.user)
      BY <1>1, <2>4 DEF ReqRecord
    <3>2. RequestShape(q) /\ RequestOwns(q)
      BY <1>1, <1>3, <2>4, <3>1 DEF RequestShape, RequestOwns, WriterOps
    <3>3. Become(r, q)
      BY <1>3, <2>4 DEF Honour
    <3> HIDE DEF q
    <3> QED BY <1>1, <2>1, <3>1, <3>2, <3>3, OwnershipFrame
  <2> QED BY <1>1, <1>3, <2>2, <2>3, <2>4 DEF RequestShape
<1>4. CASE p.phase = "issue" /\ Sign(r, v)
  BY <1>4, SignOwnership
<1>5. CASE /\ p.phase = "revoke" /\ Become(r, [p EXCEPT !.pc = "bump", !.seen = v])
           /\ UNCHANGED <<claims, returned, dead, lateAccept>>
  <2> DEFINE q == [p EXCEPT !.pc = "bump", !.seen = v]
  <2>1. /\ q.op = p.op /\ q.phase = "revoke" /\ q.pc = "bump" /\ q.user = p.user
        /\ q.new = p.new /\ q.snap = p.snap
    BY <1>1, <1>5 DEF ReqRecord
  <2>2. RequestShape(q) /\ RequestOwns(q)
    BY <1>1, <1>5, <2>1 DEF RequestShape, RequestOwns, WriterOps
  <2>3. owner' = owner /\ returned' = returned /\ Become(r, q)
    BY <1>5 DEF claims
  <2> HIDE DEF q
  <2> QED BY <1>1, <2>1, <2>2, <2>3, OwnershipFrame
<1> QED BY <1>2, <1>3, <1>4, <1>5 DEF UseVersion

\* A request arrives with records of its own.
LEMMA ArriveOwnership ==
  ASSUME TypeOK, Ownership, NEW r \in Requests, Arrive(r)
  PROVE  Ownership'
<1> USE TokensAssumption
<1>1. /\ \A t \in returned : owner[t] \in Users /\ t \in Tokens
      /\ \A u \in Users : tracked[u] \subseteq TokensOf(u)
  BY DEF Ownership, TypeOK
<1>2. ASSUME NEW rec, Start(r, rec), RequestShape(rec), RequestOwns(rec),
             rec.new = NoToken \/ (rec.new \in Tokens /\ Unused(rec.new))
      PROVE  Ownership'
  <2>1. owner' = owner /\ returned' = returned /\ tracked' = tracked /\ Become(r, rec)
    BY <1>2 DEF Start, claims, redis
  <2> QED BY <1>1, <1>2, <2>1, OwnershipFrame DEF Unused
<1>3. ASSUME NEW op \in {"login", "generate"}, NEW u \in Users, NEW t \in Tokens,
             StartIssue(r, op, u, t)
      PROVE  Ownership'
  <2> DEFINE rec == [Idle EXCEPT !.op = op, !.pc = "version", !.phase = "issue",
                                 !.user = u, !.new = t, !.win = CurrentWindow]
  <2>1. /\ rec.op = op /\ rec.pc = "version" /\ rec.phase = "issue" /\ rec.user = u
        /\ rec.new = t /\ rec.snap = {}
    BY DEF Idle
  <2>2. Unused(t) /\ Start(r, rec)
    BY <1>3 DEF StartIssue
  <2> HIDE DEF rec
  <2>3. RequestShape(rec) /\ RequestOwns(rec)
    BY <2>1, <2>2 DEF RequestShape, RequestOwns, Unused
  <2> QED BY <1>2, <2>1, <2>2, <2>3
<1>4. ASSUME NEW op \in {"validate", "refresh"}, NEW t \in returned,
             NEW n \in Tokens \cup {NoToken}, StartCheck(r, op, t, n)
      PROVE  Ownership'
  <2> DEFINE rec == [Idle EXCEPT !.op = op, !.pc = "blacklist", !.phase = "check",
                                 !.user = owner[t], !.token = t, !.new = n, !.snap = dead]
  <2>1. /\ rec.op = op /\ rec.pc = "blacklist" /\ rec.phase = "check" /\ rec.user = owner[t]
        /\ rec.token = t /\ rec.new = n
    BY DEF Idle
  <2>2. /\ Start(r, rec)
        /\ \/ op = "validate" /\ n = NoToken
           \/ op = "refresh" /\ n \in Tokens /\ Unused(n)
    BY <1>4 DEF StartCheck
  <2> HIDE DEF rec
  <2>3. RequestShape(rec)
    BY <1>1, <2>1, <2>2 DEF RequestShape
  <2>4. RequestOwns(rec)
    BY <2>1, <2>2 DEF RequestOwns, Unused
  <2> QED BY <1>2, <2>1, <2>2, <2>3, <2>4
<1>5. ASSUME NEW t \in returned, StartLogout(r, t) PROVE Ownership'
  <2> DEFINE rec == [Idle EXCEPT !.op = "logout", !.pc = "blacklist", !.phase = "check",
                                 !.user = owner[t], !.token = t, !.snap = dead]
  <2>1. /\ rec.op = "logout" /\ rec.pc = "blacklist" /\ rec.phase = "check"
        /\ rec.user = owner[t] /\ rec.token = t /\ rec.new = NoToken
    BY DEF Idle
  <2>2. Start(r, rec)
    BY <1>5 DEF StartLogout
  <2> HIDE DEF rec
  <2>3. RequestShape(rec) /\ RequestOwns(rec)
    BY <1>1, <2>1 DEF RequestShape, RequestOwns
  <2> QED BY <1>2, <2>1, <2>2, <2>3
<1>6. ASSUME NEW t \in returned, StartRevoke(r, t) PROVE Ownership'
  <2> DEFINE rec == [Idle EXCEPT !.op = "revoke", !.pc = "revoke", !.token = t]
  <2>1. /\ rec.op = "revoke" /\ rec.pc = "revoke" /\ rec.phase = "none"
        /\ rec.token = t /\ rec.new = NoToken
    BY DEF Idle
  <2>2. Start(r, rec)
    BY <1>6 DEF StartRevoke
  <2> HIDE DEF rec
  <2>3. RequestShape(rec) /\ RequestOwns(rec)
    BY <1>1, <2>1 DEF RequestShape, RequestOwns
  <2> QED BY <1>2, <2>1, <2>2, <2>3
<1>7. ASSUME NEW u \in Users, StartIncrement(r, u) PROVE Ownership'
  <2> DEFINE rec == [Idle EXCEPT !.op = "increment", !.pc = "increment",
                                 !.phase = "revoke", !.user = u]
  <2>1. /\ rec.op = "increment" /\ rec.pc = "increment" /\ rec.phase = "revoke"
        /\ rec.user = u /\ rec.new = NoToken /\ rec.snap = {}
    BY DEF Idle
  <2>2. Start(r, rec)
    BY <1>7 DEF StartIncrement
  <2> HIDE DEF rec
  <2>3. RequestShape(rec) /\ RequestOwns(rec)
    BY <2>1 DEF RequestShape, RequestOwns, WriterOps
  <2> QED BY <1>2, <2>1, <2>2, <2>3
<1> QED BY <1>3, <1>4, <1>5, <1>6, <1>7 DEF Arrive

LEMMA NextOwnership ==
  ASSUME TypeOK, Ownership, [Next]_vars
  PROVE  Ownership'
<1> USE TokensAssumption
<1>1. /\ \A t \in returned : owner[t] \in Users
      /\ \A u \in Users : tracked[u] \subseteq TokensOf(u)
  BY DEF Ownership
<1>2. ASSUME NEW r \in Requests
      PROVE  req[r] \in ReqRecord /\ RequestShape(req[r]) /\ RequestOwns(req[r])
  BY DEF TypeOK, Ownership
<1>3. ASSUME NEW r \in Requests, NEW pc,
             Goto(r, pc), owner' = owner, returned' = returned, tracked' = tracked,
             \/ req[r].pc = "blacklist" /\ pc = "revocation"
             \/ req[r].pc = "revocation" /\ pc = "version"
             \/ req[r].pc = "version" /\ pc = "init" /\ req[r].phase \in {"check", "issue", "revoke"}
             \/ req[r].pc = "bump" /\ pc = "list" /\ req[r].op # "increment"
             \/ req[r].pc = "blacklistAll" /\ pc = "clear"
      PROVE  Ownership'
  <2> DEFINE q == [req[r] EXCEPT !.pc = pc]
  <2>1. /\ q.pc = pc /\ q.op = req[r].op /\ q.phase = req[r].phase /\ q.user = req[r].user
        /\ q.token = req[r].token /\ q.new = req[r].new /\ q.snap = req[r].snap
    BY <1>2 DEF ReqRecord
  <2> HIDE DEF q
  <2>2. RequestShape(q)
    BY <1>2, <1>3, <2>1 DEF RequestShape
  <2>3. RequestOwns(q)
    BY <1>2, <1>3, <2>1 DEF RequestOwns
  <2>4. Goto(r, pc) /\ q = [req[r] EXCEPT !.pc = pc]
    BY <1>3 DEF q
  <2> QED BY <1>1, <1>3, <2>2, <2>3, <2>4, OwnershipGoto
<1>4. ASSUME NEW r \in Requests, Reject(r), tracked' = tracked PROVE Ownership'
  BY <1>1, <1>4, OwnershipFinish DEF Reject, claims
<1>5. ASSUME NEW r \in Requests, GetBlacklist(r) \/ GetRevocation(r) PROVE Ownership'
  BY <1>3, <1>4, <1>5 DEF GetBlacklist, GetRevocation, redis, claims
<1>6. ASSUME NEW r \in Requests, GetVersion(r) PROVE Ownership'
  <2>1. version[req[r].user] \in Nat /\ req[r].phase \in {"check", "issue", "revoke"}
    BY <1>2, <1>6 DEF GetVersion, RequestShape, TypeOK, ReqRecord, Phases
  <2> QED BY <1>3, <1>6, <2>1, UseVersionOwnership DEF GetVersion, redis, claims
<1>7. ASSUME NEW r \in Requests, InitVersion(r) PROVE Ownership'
  BY <1>7, UseVersionOwnership DEF InitVersion, SetVersion
<1>8. ASSUME NEW r \in Requests, Return(r), req[r].pc \in {"trackRead", "trackWrite"},
             \A u \in Users : tracked'[u] \subseteq TokensOf(u)
      PROVE  Ownership'
  <2>1. req[r].user \in Users /\ owner[req[r].new] = req[r].user
    BY <1>2, <1>8 DEF RequestShape, RequestOwns
  <2> QED BY <1>1, <1>8, <2>1, OwnershipFinish DEF Return, claims
<1>9. ASSUME NEW r \in Requests, TrackRead(r) PROVE Ownership'
  <2> DEFINE q == [req[r] EXCEPT !.pc = "trackWrite", !.snap = tracked[req[r].user]]
  <2>1. /\ q.pc = "trackWrite" /\ q.op = req[r].op /\ q.phase = req[r].phase
        /\ q.user = req[r].user /\ q.new = req[r].new /\ q.snap = tracked[req[r].user]
    BY <1>2 DEF ReqRecord
  <2>2. Become(r, q) /\ owner' = owner /\ returned' = returned /\ tracked' = tracked
        /\ req[r].pc = "trackRead"
    BY <1>9 DEF TrackRead, redis, claims
  <2> HIDE DEF q
  <2>3. RequestShape(q) /\ RequestOwns(q)
    BY <1>1, <1>2, <2>1, <2>2 DEF RequestShape, RequestOwns
  <2> QED BY <1>1, <2>1, <2>2, <2>3, OwnershipFrame
<1>10. ASSUME NEW r \in Requests, TrackWrite(r) PROVE Ownership'
  <2>1. /\ req[r].user \in Users /\ req[r].new \in Tokens
        /\ req[r].snap \cup {req[r].new} \subseteq TokensOf(req[r].user)
    BY <1>2, <1>10 DEF TrackWrite, RequestShape, RequestOwns, TokensOf
  <2>2. \A u \in Users : tracked'[u] \subseteq TokensOf(u)
    BY <1>1, <1>10, <2>1 DEF TrackWrite, TypeOK
  <2> QED BY <1>8, <1>10, <2>2 DEF TrackWrite
<1>11. ASSUME NEW r \in Requests, IncrementRead(r) PROVE Ownership'
  <2> DEFINE q == [req[r] EXCEPT !.pc = "bump", !.seen = version[req[r].user]]
  <2>1. /\ q.pc = "bump" /\ q.op = req[r].op /\ q.phase = req[r].phase
        /\ q.user = req[r].user /\ q.new = req[r].new /\ q.snap = req[r].snap
    BY <1>2 DEF ReqRecord
  <2>2. Become(r, q) /\ owner' = owner /\ returned' = returned /\ tracked' = tracked
        /\ req[r].pc = "increment"
    BY <1>11 DEF IncrementRead, redis, claims
  <2> HIDE DEF q
  <2>3. RequestShape(q) /\ RequestOwns(q)
    BY <1>1, <1>2, <2>1, <2>2 DEF RequestShape, RequestOwns
  <2> QED BY <1>1, <2>1, <2>2, <2>3, OwnershipFrame
<1>12. ASSUME NEW r \in Requests, Bump(r) PROVE Ownership'
  <2>1. owner' = owner /\ returned' = returned /\ tracked' = tracked /\ req[r].pc = "bump"
    BY <1>12 DEF Bump, SetVersion, claims
  <2> QED BY <1>1, <1>3, <1>12, <2>1, OwnershipFinish DEF Bump
<1>13. ASSUME NEW r \in Requests, ListTokens(r) PROVE Ownership'
  <2>1. PICK pc \in {"clear", "blacklistAll"} :
           Become(r, [req[r] EXCEPT !.pc = pc, !.list = tracked[req[r].user]])
    BY <1>13 DEF ListTokens
  <2> DEFINE q == [req[r] EXCEPT !.pc = pc, !.list = tracked[req[r].user]]
  <2>2. /\ q.pc = pc /\ q.op = req[r].op /\ q.phase = req[r].phase
        /\ q.user = req[r].user /\ q.new = req[r].new /\ q.snap = req[r].snap
        /\ q.list = tracked[req[r].user]
    BY <1>2 DEF ReqRecord
  <2>3. Become(r, q) /\ owner' = owner /\ returned' = returned /\ tracked' = tracked
        /\ req[r].pc = "list"
    BY <1>13, <2>1 DEF ListTokens, redis, claims
  <2> HIDE DEF q
  <2>4. RequestShape(q) /\ RequestOwns(q)
    BY <1>1, <1>2, <2>2, <2>3 DEF RequestShape, RequestOwns
  <2> QED BY <1>1, <2>2, <2>3, <2>4, OwnershipFrame
<1>14. ASSUME NEW r \in Requests, BlacklistAll(r) PROVE Ownership'
  BY <1>3, <1>14 DEF BlacklistAll, Blacklist, claims
<1>15. ASSUME NEW r \in Requests, ClearTracked(r) \/ RevokeToken(r) PROVE Ownership'
  <2>1. \A u \in Users : tracked'[u] \subseteq TokensOf(u)
    BY <1>1, <1>15 DEF ClearTracked, RevokeToken, Untrack, RevokeJti, TypeOK
  <2> QED BY <1>1, <1>15, <2>1, OwnershipFinish DEF ClearTracked, RevokeToken, claims
<1>16. ASSUME NEW r \in Requests, RedisFails(r) PROVE Ownership'
  BY <1>1, <1>4, <1>8, <1>16 DEF RedisFails, Blacklist, redis
<1>19. ASSUME NEW r \in Requests, Unanswered(r) PROVE Ownership'
  <2>1. \A u \in Users : tracked'[u] \subseteq TokensOf(u)
    BY <1>1, <1>19 DEF Unanswered, SetVersion, Untrack, RevokeJti, TypeOK
  <2> QED BY <1>1, <1>19, <2>1, OwnershipFinish DEF Unanswered, Reject, claims
<1>17. CASE Tick
  BY <1>1, <1>17 DEF Tick, Ownership, RequestShape, RequestOwns, TokensOf, claims
<1>18. CASE UNCHANGED vars
  BY <1>18 DEF vars, redis, claims, Ownership, RequestShape, RequestOwns, TokensOf
<1> QED
  BY ArriveOwnership, <1>5, <1>6, <1>7, <1>9, <1>10, <1>11, <1>12, <1>13, <1>14, <1>15,
     <1>16, <1>17, <1>18, <1>19 DEF Next, Proceed

-----------------------------------------------------------------------------
\* Every variable keeps its type and every token its owner, whatever overlaps,
\* fails or expires.
THEOREM TypesAndOwnership == Spec => [](TypeOK /\ Ownership)
<1>1. Init => TypeOK /\ Ownership
  BY InitTypeOK, InitOwnership
<1>2. TypeOK /\ Ownership /\ [Next]_vars => TypeOK' /\ Ownership'
  BY NextTypeOK, NextOwnership
<1> QED BY <1>1, <1>2, PTL DEF Spec

\* Every list of a user's tokens, in Redis or in the hands of a request, holds only
\* tokens issued to that user; a token being issued is nobody's until it is signed, and
\* one request only is issuing it.
THEOREM RequestsOwn == Spec => []Ownership
<1>1. TypeOK /\ Ownership => Ownership
  OBVIOUS
<1> QED BY <1>1, TypesAndOwnership, PTL

\* In any number of overlapping logins and logouts, with commands failing and
\* keys expiring, only a logout of a user blacklists that user's tokens.
THEOREM BlacklistOwnership == Spec => OnlyOwnLogoutBlacklists
<1> DEFINE Blamed(t) ==
      blacklistUntil'[t] > blacklistUntil[t]
      => \E r \in Requests : req[r].op = "logout" /\ req[r].user = owner[t]
<1>1. ASSUME TypeOK, Ownership, NEW t \in Tokens, NEW r \in Requests, NEW S \in SUBSET req[r].list,
             req[r].pc = "blacklistAll", Blacklist(S)
      PROVE  Blamed(t)
  <2>1. RequestShape(req[r]) /\ RequestOwns(req[r])
    BY <1>1 DEF Ownership
  <2>2. req[r].op = "logout" /\ req[r].list \subseteq TokensOf(req[r].user)
    BY <1>1, <2>1 DEF RequestShape, RequestOwns, WriterOps
  <2>3. t \in S \/ blacklistUntil'[t] = blacklistUntil[t]
    BY <1>1 DEF Blacklist
  <2>4. blacklistUntil[t] \in Nat
    BY <1>1 DEF TypeOK
  <2> QED BY <2>2, <2>3, <2>4 DEF TokensOf
<1>2. ASSUME TypeOK, Ownership, [Next]_vars, NEW t \in Tokens
      PROVE  Blamed(t)
  <2>1. blacklistUntil[t] \in Nat /\ clock \in Nat
    BY <1>2 DEF TypeOK
  <2>2. CASE Tick
    <3>1. blacklistUntil'[t] \in {0, blacklistUntil[t]}
      BY <2>2 DEF Tick, Live
    <3> QED BY <2>1, <3>1
  <2>3. CASE blacklistUntil' = blacklistUntil
    BY <2>1, <2>3
  <2>4. CASE \E r \in Requests : /\ req[r].pc = "blacklistAll"
                                 /\ \E S \in SUBSET req[r].list : Blacklist(S)
    BY <1>1, <1>2, <2>4
  <2>5. ASSUME NEW r \in Requests, Arrive(r) PROVE blacklistUntil' = blacklistUntil
    BY <2>5 DEF Arrive, StartIssue, StartCheck, StartLogout, StartRevoke, StartIncrement, Start, redis
  <2>6. ASSUME NEW r \in Requests, Proceed(r), ~BlacklistAll(r)
        PROVE  blacklistUntil' = blacklistUntil
    BY <2>6 DEF Proceed, GetBlacklist, GetRevocation, GetVersion, InitVersion, SetVersion,
       TrackRead, TrackWrite, IncrementRead, Bump, ListTokens, ClearTracked, RevokeToken,
       Untrack, RevokeJti, redis
  <2>7. ASSUME NEW r \in Requests, BlacklistAll(r)
        PROVE  req[r].pc = "blacklistAll" /\ \E S \in SUBSET req[r].list : Blacklist(S)
    BY <2>7 DEF BlacklistAll
  <2>8. ASSUME NEW r \in Requests, RedisFails(r)
        PROVE  \/ blacklistUntil' = blacklistUntil
               \/ req[r].pc = "blacklistAll" /\ \E S \in SUBSET req[r].list : Blacklist(S)
    BY <2>8 DEF RedisFails, redis
  <2>10. ASSUME NEW r \in Requests, Unanswered(r) PROVE blacklistUntil' = blacklistUntil
    BY <2>10 DEF Unanswered, SetVersion, Untrack, RevokeJti
  <2>9. CASE UNCHANGED vars
    BY <2>3, <2>9 DEF vars, redis
  <2> QED BY <1>2, <2>2, <2>3, <2>4, <2>5, <2>6, <2>7, <2>8, <2>9, <2>10 DEF Next
<1>3. TypeOK /\ Ownership /\ [Next]_vars => [BlacklistedByOwner]_vars
  BY <1>2 DEF BlacklistedByOwner
<1> QED
  BY <1>3, TypesAndOwnership, PTL DEF Spec, OnlyOwnLogoutBlacklists

-----------------------------------------------------------------------------
(* With the version key in Redis from the start, one writer per user at a   *)
(* time and a horizon below the key's lifetime, a revoked token stays so.   *)

OneHorizon == SerialWriters /\ KnownUsers = Users /\ MaxClock < VersionTtl

LEMMA InitVersionsGrow == OneHorizon /\ Init => VersionsGrow
  BY TokensAssumption DEF OneHorizon, Init, VersionsGrow, RequestCurrent, Idle, WriterOps

\* A step that touches no version, token or clock.
LEMMA GrowFrame ==
  ASSUME TypeOK, VersionsGrow, NEW r \in Requests, NEW q, Become(r, q), RequestCurrent(q),
         \/ q.op \notin WriterOps
         \/ q.op = req[r].op /\ q.user = req[r].user
         \/ ~WriterInFlight(q.user),
         UNCHANGED <<clock, version, versionUntil, owner, ver, dead, lateAccept>>
  PROVE  VersionsGrow'
<1>1. req'[r] = q /\ \A s \in Requests : s # r => req'[s] = req[s]
  BY DEF Become, TypeOK
<1>2. \A s \in Requests : RequestCurrent(req[s])'
  BY <1>1 DEF VersionsGrow, RequestCurrent
<1>3. \A s, w \in Requests : s # w /\ req'[s].op \in WriterOps /\ req'[w].op \in WriterOps
                             => req'[s].user # req'[w].user
  BY <1>1 DEF VersionsGrow, WriterInFlight
<1> QED BY <1>2, <1>3 DEF VersionsGrow

LEMMA GrowFinish ==
  ASSUME TypeOK, VersionsGrow, NEW r \in Requests, Finish(r),
         UNCHANGED <<clock, version, versionUntil, owner, ver, dead, lateAccept>>
  PROVE  VersionsGrow'
<1>1. RequestCurrent(Idle) /\ Idle.op \notin WriterOps
  BY DEF RequestCurrent, Idle, WriterOps
<1> QED BY <1>1, GrowFrame DEF Finish

\* A token is signed with the version just read, so it is not ahead of it.
LEMMA SignGrows ==
  ASSUME TypeOK, Ownership, VersionsGrow, NEW r \in Requests,
         req[r].phase = "issue", req[r].pc = "version", Sign(r, version[req[r].user]),
         UNCHANGED <<clock, version, versionUntil>>
  PROVE  VersionsGrow'
<1> DEFINE t == req[r].new
           u == req[r].user
<1> USE TokensAssumption
<1>1. /\ t \in Tokens /\ u \in Users /\ owner[t] = NoUser
      /\ req[r].op \in {"login", "generate", "refresh"}
  BY DEF Ownership, RequestShape, RequestOwns
<1>2. /\ owner'[t] = u /\ \A s \in Tokens \ {t} : owner'[s] = owner[s]
      /\ ver'[t] = version[u] /\ \A s \in Tokens \ {t} : ver'[s] = ver[s]
  BY <1>1 DEF Sign, TypeOK
<1>3. PICK q : /\ Become(r, q)
               /\ q \in {Idle, [req[r] EXCEPT !.pc = "trackRead"]}
  BY DEF Sign, Finish, Goto
<1>4. /\ q.op \notin WriterOps /\ q.pc \in {"idle", "trackRead"} /\ q.phase # "check"
  BY <1>1, <1>3 DEF TypeOK, ReqRecord, Idle, WriterOps
<1>5. req'[r] = q /\ \A s \in Requests : s # r => req'[s] = req[s]
  BY <1>3 DEF Become, TypeOK
<1>6. dead' = dead /\ lateAccept' = lateAccept
  BY DEF Sign
<1>7. \A s \in Tokens : owner'[s] \in Users => ver'[s] <= version[owner'[s]]
  <2>1. version[u] \in Nat
    BY <1>1 DEF TypeOK
  <2> QED BY <1>1, <1>2, <2>1 DEF VersionsGrow
<1>8. \A s \in dead : owner'[s] \in Users /\ ver'[s] < version[owner'[s]]
  BY <1>1, <1>2 DEF VersionsGrow, TypeOK
<1>9. ASSUME NEW s \in Requests PROVE RequestCurrent(req[s])'
  <2>1. CASE s = r
    BY <1>4, <1>5, <2>1 DEF RequestCurrent
  <2>2. CASE s # r
    <3> DEFINE p == req[s]
    <3>1. p' = p /\ RequestShape(p) /\ RequestOwns(p) /\ RequestCurrent(p)
      BY <1>5, <2>2 DEF Ownership, VersionsGrow
    <3>2. p.pc \in {"list", "blacklistAll", "clear"}
          => p.user \in Users /\ p.snap \subseteq TokensOf(p.user)
      BY <3>1 DEF RequestShape, RequestOwns
    <3>3. p.pc \in {"list", "blacklistAll", "clear"} => \A x \in p.snap : ver'[x] < version[p.user]
      BY <1>1, <1>2, <3>1, <3>2 DEF RequestCurrent, TokensOf
    <3> QED BY <1>6, <3>1, <3>3 DEF RequestCurrent
  <2> QED BY <2>1, <2>2
<1>10. \A s, w \in Requests : s # w /\ req'[s].op \in WriterOps /\ req'[w].op \in WriterOps
                              => req'[s].user # req'[w].user
  BY <1>4, <1>5 DEF VersionsGrow
<1> QED BY <1>6, <1>7, <1>8, <1>9, <1>10 DEF VersionsGrow

\* The one writer of a user's version writes one more than it is.
\* A writer's SET, whether its answer comes or not.
Writes(r) ==
    /\ req[r].pc = "bump"
    /\ SetVersion(req[r].user, req[r].seen + 1)
    /\ Finish(r) \/ (Goto(r, "list") /\ req[r].op # "increment")
    /\ UNCHANGED <<clock, claims, dead, lateAccept>>

LEMMA BumpGrows ==
  ASSUME TypeOK, Ownership, VersionsGrow, NEW r \in Requests, Writes(r)
  PROVE  VersionsGrow'
<1> DEFINE u == req[r].user
<1> USE TokensAssumption
<1>1. /\ u \in Users /\ req[r].op \in WriterOps /\ req[r].seen = version[u]
      /\ req[r].snap \subseteq TokensOf(u) /\ req[r] \in ReqRecord
  BY DEF Writes, Ownership, RequestShape, RequestOwns, VersionsGrow, RequestCurrent, TypeOK
<1>2. version[u] \in Nat /\ clock \in Nat
  BY <1>1 DEF TypeOK
<1>3. /\ version'[u] = version[u] + 1 /\ versionUntil'[u] = clock + VersionTtl
      /\ \A w \in Users \ {u} : version'[w] = version[w] /\ versionUntil'[w] = versionUntil[w]
  BY <1>1 DEF Writes, SetVersion, TypeOK
<1>4. UNCHANGED <<clock, owner, ver, dead, lateAccept>>
  BY DEF Writes, claims
<1>5. PICK q : /\ Become(r, q)
               /\ \/ q = Idle
                  \/ q = [req[r] EXCEPT !.pc = "list"] /\ req[r].op # "increment"
  BY DEF Writes, Finish, Goto
<1>6. /\ q.pc \in {"idle", "list"} /\ q.phase # "check"
      /\ q.pc = "list" => q.user = u /\ q.snap = req[r].snap
      /\ q.op \in WriterOps => q.op = req[r].op /\ q.user = u
  <2>1. req[r].phase = "revoke"
    BY DEF Writes, Ownership, RequestShape
  <2> QED BY <1>1, <1>5, <2>1 DEF ReqRecord, Idle, WriterOps
<1>7. req'[r] = q /\ \A s \in Requests : s # r => req'[s] = req[s]
  BY <1>5 DEF Become, TypeOK
<1>8. \A w \in Users : version'[w] > 0 /\ versionUntil'[w] >= VersionTtl
  BY <1>1, <1>2, <1>3 DEF VersionsGrow
<1>9. \A w \in Users : version[w] \in Nat /\ version'[w] \in Nat /\ version[w] <= version'[w]
  BY <1>1, <1>2, <1>3 DEF TypeOK
<1>10. \A t \in Tokens : ver[t] \in Nat
  BY DEF TypeOK
<1>11. \A t \in Tokens : owner[t] \in Users => ver[t] <= version'[owner[t]]
  BY <1>9, <1>10 DEF VersionsGrow
<1>12. \A t \in dead : owner[t] \in Users /\ ver[t] < version'[owner[t]]
  BY <1>9, <1>10 DEF VersionsGrow, TypeOK
<1>13. ASSUME NEW s \in Requests PROVE RequestCurrent(req[s])'
  <2>1. CASE s = r
    <3>1. \A t \in req[r].snap : ver[t] < version'[u]
      BY <1>1, <1>2, <1>3, <1>10 DEF TokensOf, VersionsGrow
    <3> QED BY <1>4, <1>6, <1>7, <2>1, <3>1 DEF RequestCurrent
  <2>2. CASE s # r
    <3> DEFINE p == req[s]
    <3>1. p' = p /\ RequestShape(p) /\ RequestOwns(p) /\ RequestCurrent(p)
      BY <1>7, <2>2 DEF Ownership, VersionsGrow
    <3>2. p.op \in WriterOps => p.user # u
      BY <1>1, <2>2 DEF VersionsGrow
    <3>3. p.pc \in {"bump", "list", "blacklistAll", "clear"} => version'[p.user] = version[p.user]
      BY <1>3, <3>1, <3>2 DEF RequestShape
    <3> QED BY <1>4, <3>1, <3>3 DEF RequestCurrent
  <2> QED BY <2>1, <2>2
<1>14. \A s, w \in Requests : s # w /\ req'[s].op \in WriterOps /\ req'[w].op \in WriterOps
                              => req'[s].user # req'[w].user
  BY <1>1, <1>6, <1>7 DEF VersionsGrow
<1> QED BY <1>4, <1>8, <1>11, <1>12, <1>13, <1>14 DEF VersionsGrow

\* A logout that has listed or blacklisted nothing new stays what it was.
LEMMA GrowStep ==
  ASSUME TypeOK, VersionsGrow, NEW r \in Requests, NEW q, Become(r, q),
         q.op = req[r].op, q.user = req[r].user, RequestCurrent(q),
         UNCHANGED <<clock, version, versionUntil, owner, ver, dead, lateAccept>>
  PROVE  VersionsGrow'
  BY GrowFrame

\* An honoured check: the token carries the current version, so it is not dead.
LEMMA HonourGrows ==
  ASSUME TypeOK, Ownership, VersionsGrow, NEW r \in Requests,
         req[r].phase = "check", ver[req[r].token] = version[req[r].user], Honour(r),
         UNCHANGED <<clock, version, versionUntil>>
  PROVE  VersionsGrow'
<1> DEFINE p == req[r]
<1>1. /\ p \in ReqRecord /\ RequestShape(p) /\ RequestOwns(p) /\ RequestCurrent(p)
  BY DEF TypeOK, Ownership, VersionsGrow
<1>2. p.token \in Tokens /\ owner[p.token] = p.user /\ p.user \in Users /\ p.snap \subseteq dead
  BY <1>1 DEF RequestShape, RequestOwns, RequestCurrent
<1>3. p.token \notin dead
  <2>1. ver[p.token] \in Nat
    BY <1>2 DEF TypeOK
  <2> QED BY <1>2, <2>1 DEF VersionsGrow
<1>4. UNCHANGED <<clock, version, versionUntil, owner, ver, dead, lateAccept>>
  BY <1>2, <1>3 DEF Honour, claims
<1>5. CASE p.op = "validate"
  BY <1>4, <1>5, GrowFinish DEF Honour
<1>6. CASE p.op = "refresh"
  <2> DEFINE q == [p EXCEPT !.phase = "issue", !.pc = "version", !.win = CurrentWindow, !.snap = {}]
  <2>1. q.op = "refresh" /\ q.phase = "issue" /\ q.pc = "version"
    BY <1>1, <1>6 DEF ReqRecord
  <2>2. Become(r, q)
    BY <1>6 DEF Honour
  <2> HIDE DEF q
  <2>3. q.op \notin WriterOps /\ RequestCurrent(q)
    BY <2>1 DEF RequestCurrent, WriterOps
  <2> QED BY <1>4, <2>2, <2>3, GrowFrame
<1>7. CASE p.op = "logout"
  <2> DEFINE q == [p EXCEPT !.phase = "revoke", !.pc = "version",
                            !.snap = returned \cap TokensOf(p.user)]
  <2>1. q.op = p.op /\ q.user = p.user /\ q.phase = "revoke" /\ q.pc = "version"
    BY <1>1, <1>7 DEF ReqRecord
  <2>2. Become(r, q)
    BY <1>7 DEF Honour
  <2> HIDE DEF q
  <2>3. RequestCurrent(q)
    BY <2>1 DEF RequestCurrent
  <2> QED BY <1>4, <2>1, <2>2, <2>3, GrowStep
<1> QED BY <1>1, <1>5, <1>6, <1>7 DEF RequestShape

LEMMA NextVersionsGrow ==
  ASSUME OneHorizon, TypeOK, Ownership, VersionsGrow, [Next]_vars
  PROVE  VersionsGrow'
<1> USE TokensAssumption
<1>1. ASSUME NEW r \in Requests
      PROVE  /\ req[r] \in ReqRecord /\ RequestShape(req[r]) /\ RequestOwns(req[r])
             /\ RequestCurrent(req[r])
  BY DEF TypeOK, Ownership, VersionsGrow
<1> DEFINE Still == UNCHANGED <<clock, version, versionUntil, owner, ver, dead, lateAccept>>
<1>2. ASSUME NEW r \in Requests, Arrive(r) PROVE VersionsGrow'
  <2>1. ASSUME NEW rec, Start(r, rec), RequestCurrent(rec),
               rec.op \notin WriterOps \/ ~WriterInFlight(rec.user)
        PROVE  VersionsGrow'
    BY <2>1, GrowFrame DEF Start, redis, claims
  <2>2. ASSUME NEW op \in {"login", "generate"}, NEW u \in Users, NEW t \in Tokens,
               StartIssue(r, op, u, t)
        PROVE  VersionsGrow'
    <3> DEFINE rec == [Idle EXCEPT !.op = op, !.pc = "version", !.phase = "issue",
                                   !.user = u, !.new = t, !.win = CurrentWindow]
    <3>1. rec.op = op /\ rec.pc = "version" /\ rec.phase = "issue" /\ Start(r, rec)
      BY <2>2 DEF StartIssue, Idle
    <3> HIDE DEF rec
    <3> QED BY <2>1, <3>1 DEF RequestCurrent, WriterOps
  <2>3. ASSUME NEW op \in {"validate", "refresh"}, NEW t \in returned,
               NEW n \in Tokens \cup {NoToken}, StartCheck(r, op, t, n)
        PROVE  VersionsGrow'
    <3> DEFINE rec == [Idle EXCEPT !.op = op, !.pc = "blacklist", !.phase = "check",
                                   !.user = owner[t], !.token = t, !.new = n, !.snap = dead]
    <3>1. rec.op = op /\ rec.pc = "blacklist" /\ rec.snap = dead /\ Start(r, rec)
      BY <2>3 DEF StartCheck, Idle
    <3> HIDE DEF rec
    <3> QED BY <2>1, <3>1 DEF RequestCurrent, WriterOps
  <2>4. ASSUME NEW t \in returned, StartLogout(r, t) PROVE VersionsGrow'
    <3> DEFINE rec == [Idle EXCEPT !.op = "logout", !.pc = "blacklist", !.phase = "check",
                                   !.user = owner[t], !.token = t, !.snap = dead]
    <3>1. rec.pc = "blacklist" /\ rec.snap = dead /\ rec.user = owner[t] /\ Start(r, rec)
      BY <2>4 DEF StartLogout, Idle
    <3>2. ~WriterInFlight(owner[t])
      BY <2>4 DEF StartLogout, MayWrite, OneHorizon
    <3> HIDE DEF rec
    <3> QED BY <2>1, <3>1, <3>2 DEF RequestCurrent
  <2>5. ASSUME NEW t \in returned, StartRevoke(r, t) PROVE VersionsGrow'
    <3> DEFINE rec == [Idle EXCEPT !.op = "revoke", !.pc = "revoke", !.token = t]
    <3>1. rec.op = "revoke" /\ rec.pc = "revoke" /\ rec.phase = "none" /\ Start(r, rec)
      BY <2>5 DEF StartRevoke, Idle
    <3> HIDE DEF rec
    <3> QED BY <2>1, <3>1 DEF RequestCurrent, WriterOps
  <2>6. ASSUME NEW u \in Users, StartIncrement(r, u) PROVE VersionsGrow'
    <3> DEFINE rec == [Idle EXCEPT !.op = "increment", !.pc = "increment",
                                   !.phase = "revoke", !.user = u]
    <3>1. rec.pc = "increment" /\ rec.phase = "revoke" /\ rec.user = u /\ Start(r, rec)
      BY <2>6 DEF StartIncrement, Idle
    <3>2. ~WriterInFlight(u)
      BY <2>6 DEF StartIncrement, MayWrite, OneHorizon
    <3> HIDE DEF rec
    <3> QED BY <2>1, <3>1, <3>2 DEF RequestCurrent
  <2> QED BY <1>2, <2>2, <2>3, <2>4, <2>5, <2>6 DEF Arrive
<1>3. ASSUME NEW r \in Requests, Reject(r), UNCHANGED <<clock, version, versionUntil>>
      PROVE  VersionsGrow'
  BY <1>3, GrowFinish DEF Reject, claims
<1>4. ASSUME NEW r \in Requests, NEW pc, Goto(r, pc), Still,
             \/ req[r].phase = "check" /\ pc \in {"revocation", "version"}
             \/ req[r].pc = "blacklistAll" /\ pc = "clear"
      PROVE  VersionsGrow'
  <2> DEFINE q == [req[r] EXCEPT !.pc = pc]
  <2>1. /\ q.pc = pc /\ q.op = req[r].op /\ q.phase = req[r].phase /\ q.user = req[r].user
        /\ q.snap = req[r].snap
    BY <1>1 DEF ReqRecord
  <2>2. Become(r, q)
    BY <1>4 DEF Goto
  <2> HIDE DEF q
  <2>3. RequestCurrent(q)
    BY <1>1, <1>4, <2>1 DEF RequestCurrent
  <2> QED BY <1>4, <2>1, <2>2, <2>3, GrowStep
<1>5. ASSUME NEW r \in Requests, GetBlacklist(r) \/ GetRevocation(r) PROVE VersionsGrow'
  <2>1. req[r].phase = "check"
    BY <1>1, <1>5 DEF GetBlacklist, GetRevocation, RequestShape
  <2> QED BY <1>3, <1>4, <1>5, <2>1 DEF GetBlacklist, GetRevocation, redis, claims
<1>6. ASSUME NEW r \in Requests, GetVersion(r) PROVE VersionsGrow'
  <2> DEFINE p == req[r]
             v == version[p.user]
  <2>1. /\ p.user \in Users /\ v > 0 /\ v \in Nat /\ p.pc = "version"
        /\ UNCHANGED <<clock, version, versionUntil>>
    <3>1. p.user \in Users /\ p.pc = "version"
      BY <1>1, <1>6 DEF GetVersion, RequestShape
    <3> QED BY <1>6, <3>1 DEF GetVersion, VersionsGrow, TypeOK, redis
  <2>2. UseVersion(r, v)
    BY <1>6, <2>1 DEF GetVersion
  <2>3. CASE p.phase = "check"
    <3>1. IF ver[p.token] = v THEN Honour(r) ELSE Reject(r)
      BY <2>2, <2>3 DEF UseVersion
    <3> QED BY <1>3, <2>1, <2>3, <3>1, HonourGrows
  <2>4. CASE p.phase = "issue"
    BY <2>1, <2>2, <2>4, SignGrows DEF UseVersion
  <2>5. CASE p.phase = "revoke"
    <3> DEFINE q == [p EXCEPT !.pc = "bump", !.seen = v]
    <3>1. /\ q.pc = "bump" /\ q.op = p.op /\ q.phase = p.phase /\ q.user = p.user /\ q.seen = v
      BY <1>1 DEF ReqRecord
    <3>2. Become(r, q) /\ Still
      BY <2>1, <2>2, <2>5 DEF UseVersion, claims
    <3> HIDE DEF q
    <3>3. RequestCurrent(q)
      BY <2>5, <3>1 DEF RequestCurrent
    <3> QED BY <3>1, <3>2, <3>3, GrowStep
  <2> QED BY <2>2, <2>3, <2>4, <2>5 DEF UseVersion
<1>7. ASSUME NEW r \in Requests, InitVersion(r) PROVE VersionsGrow'
  BY <1>1, <1>7 DEF InitVersion, RequestCurrent
<1>8. ASSUME NEW r \in Requests, TrackRead(r) PROVE VersionsGrow'
  <2> DEFINE q == [req[r] EXCEPT !.pc = "trackWrite", !.snap = tracked[req[r].user]]
  <2>1. q.pc = "trackWrite" /\ q.op = req[r].op /\ q.phase = req[r].phase /\ q.user = req[r].user
    BY <1>1 DEF ReqRecord
  <2>2. Become(r, q) /\ Still /\ req[r].phase = "issue"
    BY <1>1, <1>8 DEF TrackRead, redis, claims, RequestShape
  <2> HIDE DEF q
  <2>3. RequestCurrent(q)
    BY <2>1, <2>2 DEF RequestCurrent
  <2> QED BY <2>1, <2>2, <2>3, GrowStep
<1>9. ASSUME NEW r \in Requests, TrackWrite(r) PROVE VersionsGrow'
  BY <1>9, GrowFinish DEF TrackWrite, Return, claims
<1>10. ASSUME NEW r \in Requests, IncrementRead(r) PROVE VersionsGrow'
  <2> DEFINE q == [req[r] EXCEPT !.pc = "bump", !.seen = version[req[r].user]]
  <2>1. /\ q.pc = "bump" /\ q.op = req[r].op /\ q.phase = req[r].phase /\ q.user = req[r].user
        /\ q.seen = version[req[r].user]
    BY <1>1 DEF ReqRecord
  <2>2. Become(r, q) /\ Still /\ req[r].phase = "revoke"
    BY <1>1, <1>10 DEF IncrementRead, redis, claims, RequestShape
  <2> HIDE DEF q
  <2>3. RequestCurrent(q)
    BY <2>1, <2>2 DEF RequestCurrent
  <2> QED BY <2>1, <2>2, <2>3, GrowStep
<1>11. ASSUME NEW r \in Requests, Bump(r) PROVE VersionsGrow'
  BY <1>11, BumpGrows DEF Bump, Writes
<1>12. ASSUME NEW r \in Requests, ListTokens(r) PROVE VersionsGrow'
  <2>1. PICK pc \in {"clear", "blacklistAll"} :
           Become(r, [req[r] EXCEPT !.pc = pc, !.list = tracked[req[r].user]])
    BY <1>12 DEF ListTokens
  <2> DEFINE q == [req[r] EXCEPT !.pc = pc, !.list = tracked[req[r].user]]
  <2>2. /\ q.pc = pc /\ q.op = req[r].op /\ q.phase = req[r].phase
        /\ q.user = req[r].user /\ q.snap = req[r].snap
    BY <1>1 DEF ReqRecord
  <2>3. Become(r, q) /\ Still /\ req[r].pc = "list" /\ req[r].phase = "revoke"
    BY <1>1, <1>12, <2>1 DEF ListTokens, redis, claims, RequestShape
  <2> HIDE DEF q
  <2>4. RequestCurrent(q)
    BY <1>1, <2>2, <2>3 DEF RequestCurrent
  <2> QED BY <2>2, <2>3, <2>4, GrowStep
<1>13. ASSUME NEW r \in Requests, BlacklistAll(r) PROVE VersionsGrow'
  BY <1>4, <1>13 DEF BlacklistAll, Blacklist, claims
<1>14. ASSUME NEW r \in Requests, ClearTracked(r) PROVE VersionsGrow'
  <2> DEFINE u == req[r].user
  <2>1. /\ u \in Users /\ req[r].snap \subseteq TokensOf(u)
        /\ \A t \in req[r].snap : ver[t] < version[u]
    BY <1>1, <1>14 DEF ClearTracked, RequestShape, RequestOwns, RequestCurrent
  <2>2. UNCHANGED <<clock, version, versionUntil, owner, ver, lateAccept>>
    BY <1>14 DEF ClearTracked, Untrack, claims
  <2>3. dead \subseteq dead' /\ \A t \in dead' : owner[t] \in Users /\ ver[t] < version[owner[t]]
    BY <1>14, <2>1 DEF ClearTracked, VersionsGrow, TokensOf
  <2>4. req'[r] = Idle /\ \A s \in Requests : s # r => req'[s] = req[s]
    BY <1>14 DEF ClearTracked, Finish, Become, TypeOK
  <2>5. ASSUME NEW s \in Requests PROVE RequestCurrent(req[s])'
    <3>1. CASE s = r
      BY <2>4, <3>1 DEF RequestCurrent, Idle
    <3>2. CASE s # r
      BY <1>1, <2>2, <2>3, <2>4, <3>2 DEF RequestCurrent
    <3> QED BY <3>1, <3>2
  <2>6. \A s, w \in Requests : s # w /\ req'[s].op \in WriterOps /\ req'[w].op \in WriterOps
                               => req'[s].user # req'[w].user
    BY <2>4 DEF VersionsGrow, Idle, WriterOps
  <2> QED BY <2>2, <2>3, <2>5, <2>6 DEF VersionsGrow
<1>15. ASSUME NEW r \in Requests, RevokeToken(r) PROVE VersionsGrow'
  BY <1>15, GrowFinish DEF RevokeToken, RevokeJti, claims
<1>16. ASSUME NEW r \in Requests, RedisFails(r) PROVE VersionsGrow'
  BY <1>3, <1>16, GrowFinish DEF RedisFails, Return, Blacklist, redis, claims
<1>19. ASSUME NEW r \in Requests, Unanswered(r) PROVE VersionsGrow'
  <2>1. req[r].pc # "init"
    BY <1>1 DEF RequestCurrent
  <2>2. CASE req[r].pc = "bump"
    BY <1>19, <2>2, BumpGrows DEF Unanswered, Reject, Writes
  <2>3. CASE req[r].pc \in {"clear", "revoke"}
    BY <1>3, <1>19, <2>3 DEF Unanswered, Untrack, RevokeJti
  <2> QED BY <1>19, <2>1, <2>2, <2>3 DEF Unanswered
<1>17. CASE Tick
  <2>1. clock' = clock + 1 /\ clock + 1 <= MaxClock /\ MaxClock < VersionTtl /\ clock \in Nat
    BY <1>17 DEF Tick, OneHorizon, TypeOK
  <2>2. \A u \in Users : versionUntil[u] > clock + 1 /\ versionUntil[u] \in Nat
    BY <2>1 DEF VersionsGrow, TypeOK
  <2>3. \A u \in Users : version'[u] = version[u] /\ versionUntil'[u] = versionUntil[u]
    BY <1>17, <2>1, <2>2 DEF Tick, Live
  <2>4. UNCHANGED <<owner, ver, req, dead, lateAccept>>
    BY <1>17 DEF Tick, claims
  <2>5. ASSUME NEW s \in Requests PROVE RequestCurrent(req[s])'
    <3>1. req[s].pc \in {"bump", "list", "blacklistAll", "clear"} => req[s].user \in Users
      BY <1>1 DEF RequestShape
    <3> QED BY <1>1, <2>3, <2>4, <3>1 DEF RequestCurrent
  <2>6. \A u \in Users : version'[u] > 0 /\ versionUntil'[u] >= VersionTtl
    BY <2>3 DEF VersionsGrow
  <2>7. /\ \A t \in Tokens : owner[t] \in Users => ver[t] <= version'[owner[t]]
        /\ \A t \in dead : owner[t] \in Users /\ ver[t] < version'[owner[t]]
    BY <2>3 DEF VersionsGrow
  <2> QED BY <2>1, <2>4, <2>5, <2>6, <2>7 DEF VersionsGrow
<1>18. CASE UNCHANGED vars
  BY <1>18 DEF vars, redis, claims, VersionsGrow, RequestCurrent
<1> QED
  BY <1>2, <1>5, <1>6, <1>7, <1>8, <1>9, <1>10, <1>11, <1>12, <1>13, <1>14, <1>15,
     <1>16, <1>17, <1>18, <1>19 DEF Next, Proceed

\* The strengthening RevokedNeverHonoured needs: version numbers only grow.
THEOREM GrowthInvariant ==
  ASSUME OneHorizon
  PROVE  Spec => [](TypeOK /\ Ownership /\ VersionsGrow)
<1>1. Init => VersionsGrow
  BY InitVersionsGrow
<1>2. TypeOK /\ Ownership /\ VersionsGrow /\ [Next]_vars => VersionsGrow'
  BY NextVersionsGrow
<1> QED BY <1>1, <1>2, TypesAndOwnership, PTL DEF Spec

\* Whatever else overlaps and whichever commands fail, no check that begins
\* after a user's logout has succeeded honours a token of before it.
THEOREM RevokedStaysRevoked ==
  ASSUME OneHorizon
  PROVE  Spec => []RevokedNeverHonoured
<1>1. VersionsGrow => RevokedNeverHonoured
  BY DEF VersionsGrow, RevokedNeverHonoured
<1> QED BY <1>1, GrowthInvariant, PTL

\* How a step may change the version keys: not at all, or as a writer's SET.
LEMMA VersionChange ==
  ASSUME OneHorizon, TypeOK, Ownership, VersionsGrow, [Next]_vars, version' # version
  PROVE  \E r \in Requests : Writes(r)
<1>1. ASSUME NEW r \in Requests, Arrive(r) PROVE version' = version
  BY <1>1 DEF Arrive, StartIssue, StartCheck, StartLogout, StartRevoke, StartIncrement, Start, redis
<1>2. ASSUME NEW r \in Requests, Proceed(r), ~Bump(r) PROVE version' = version
  <2>1. ~InitVersion(r)
    BY DEF InitVersion, VersionsGrow, RequestCurrent
  <2> QED
    BY <1>2, <2>1 DEF Proceed, GetBlacklist, GetRevocation, GetVersion,
       TrackRead, TrackWrite, IncrementRead, ListTokens, BlacklistAll, Blacklist,
       ClearTracked, RevokeToken, Untrack, RevokeJti, redis
<1>6. ASSUME NEW r \in Requests, Bump(r) PROVE Writes(r)
  BY <1>6 DEF Bump, Writes
<1>7. ASSUME NEW r \in Requests, Unanswered(r) PROVE version' = version \/ Writes(r)
  BY <1>7 DEF Unanswered, Untrack, RevokeJti, Reject, Writes, VersionsGrow, RequestCurrent
<1>3. ASSUME NEW r \in Requests, RedisFails(r) PROVE version' = version
  BY <1>3 DEF RedisFails, Blacklist, redis
<1>4. CASE Tick
  <2>1. clock + 1 <= MaxClock /\ MaxClock < VersionTtl /\ clock \in Nat /\ MaxClock \in Nat
    BY <1>4, TokensAssumption DEF Tick, OneHorizon, TypeOK
  <2>2. \A u \in Users : ~(versionUntil[u] <= clock + 1)
    BY <2>1, TokensAssumption DEF VersionsGrow, TypeOK
  <2>3. version' = [u \in Users |-> version[u]]
    BY <1>4, <2>2 DEF Tick
  <2> QED BY <2>3 DEF TypeOK
<1>5. CASE UNCHANGED vars
  BY <1>5 DEF vars, redis
<1> QED BY <1>1, <1>2, <1>3, <1>4, <1>5, <1>6, <1>7 DEF Next

\* How a step may change the tokens issued: not at all, or by signing one.
LEMMA IssueChange ==
  ASSUME OneHorizon, TypeOK, Ownership, VersionsGrow, [Next]_vars
  PROVE  \/ owner' = owner /\ ver' = ver
         \/ \E r \in Requests : /\ req[r].phase = "issue" /\ req[r].pc = "version"
                                /\ Sign(r, version[req[r].user]) /\ version' = version
<1>1. ASSUME NEW r \in Requests, GetVersion(r)
      PROVE  \/ owner' = owner /\ ver' = ver
             \/ /\ req[r].phase = "issue" /\ req[r].pc = "version"
                /\ Sign(r, version[req[r].user]) /\ version' = version
  BY <1>1 DEF GetVersion, UseVersion, Honour, Reject, claims, redis
<1>2. ASSUME NEW r \in Requests, Arrive(r) PROVE owner' = owner /\ ver' = ver
  BY <1>2 DEF Arrive, StartIssue, StartCheck, StartLogout, StartRevoke, StartIncrement, Start, claims
<1>3. ASSUME NEW r \in Requests, Proceed(r), ~GetVersion(r) PROVE owner' = owner /\ ver' = ver
  <2>1. ~InitVersion(r)
    BY DEF InitVersion, VersionsGrow, RequestCurrent
  <2> QED
    BY <1>3, <2>1 DEF Proceed, GetBlacklist, GetRevocation, Reject, TrackRead, TrackWrite, Return,
       IncrementRead, Bump, ListTokens, BlacklistAll, ClearTracked, RevokeToken, claims
<1>4. ASSUME NEW r \in Requests, RedisFails(r) PROVE owner' = owner /\ ver' = ver
  BY <1>4 DEF RedisFails, Return, Reject, claims
<1>6. ASSUME NEW r \in Requests, Unanswered(r) PROVE owner' = owner /\ ver' = ver
  BY <1>6 DEF Unanswered, Reject, claims
<1>5. CASE Tick \/ UNCHANGED vars
  BY <1>5 DEF Tick, vars, claims
<1> QED BY <1>1, <1>2, <1>3, <1>4, <1>5, <1>6 DEF Next

\* The seven Redis commands of a logout amount to one atomic revocation, and
\* the commands of a login to one issue.
THEOREM TokensRefine ==
  ASSUME OneHorizon
  PROVE  Spec => ImplementsRevocation
<1> DEFINE V == {t \in Tokens : owner[t] \in Users /\ ver[t] = version[owner[t]]}
<1> USE TokensAssumption
<1>1. Init => Revocation!RInit
  BY DEF Init, Revocation!RInit
<1>2. ASSUME TypeOK, Ownership, VersionsGrow, [Next]_vars
      PROVE  [Revocation!RNext]_(Revocation!rvars)
  <2>1. ASSUME version' # version PROVE Revocation!RNext
    <3>1. PICK r \in Requests : Writes(r)
      BY <1>2, <2>1, VersionChange
    <3>2. PICK u \in Users : u = req[r].user /\ req[r].seen = version[u]
      BY <1>2, <3>1 DEF Writes, Ownership, RequestShape, VersionsGrow, RequestCurrent
    <3>3. owner' = owner /\ ver' = ver
      BY <3>1 DEF Writes, claims
    <3>4. version' = [version EXCEPT ![u] = version[u] + 1] /\ version[u] \in Nat
      BY <1>2, <3>1, <3>2 DEF Writes, SetVersion, TypeOK
    <3>5. \A t \in Tokens : owner[t] = u => ver[t] # version'[u]
      BY <1>2, <3>2, <3>4 DEF VersionsGrow, TypeOK
    <3>6. V' = {t \in V : owner[t] # u}
      <4>1. \A w \in Users \ {u} : version'[w] = version[w]
        BY <1>2, <3>4 DEF TypeOK
      <4>2. \A t \in Tokens : owner[t] \in Users /\ ver'[t] = version'[owner'[t]]
                             <=> owner[t] \in Users /\ ver[t] = version[owner[t]] /\ owner[t] # u
        BY <3>3, <3>5, <4>1
      <4>3. V' = {t \in Tokens : owner'[t] \in Users /\ ver'[t] = version'[owner'[t]]}
        OBVIOUS
      <4>4. \A t : t \in V' <=> t \in V /\ owner[t] # u
        BY <3>3, <4>2, <4>3
      <4> QED BY <4>4
    <3>7. Revocation!RevokeAll(u)
      BY <3>3, <3>6 DEF Revocation!RevokeAll
    <3> QED BY <3>2, <3>7 DEF Revocation!RNext
  <2>2. CASE version' = version /\ owner' = owner /\ ver' = ver
    BY <2>2 DEF Revocation!rvars
  <2>3. ASSUME NEW r \in Requests, req[r].phase = "issue", req[r].pc = "version",
               Sign(r, version[req[r].user]), version' = version
        PROVE  Revocation!RNext
    <3>1. PICK t \in Tokens, u \in Users :
             t = req[r].new /\ u = req[r].user /\ owner[t] = NoUser
      BY <1>2, <2>3 DEF Ownership, RequestShape, RequestOwns
    <3>2. owner' = [owner EXCEPT ![t] = u] /\ ver' = [ver EXCEPT ![t] = version[u]]
      BY <2>3, <3>1 DEF Sign
    <3>3. V' = V \cup {t}
      <4>1. owner'[t] = u /\ ver'[t] = version'[u]
        BY <1>2, <2>3, <3>1, <3>2 DEF TypeOK
      <4>2. \A s \in Tokens \ {t} : owner'[s] = owner[s] /\ ver'[s] = ver[s]
        BY <1>2, <3>2 DEF TypeOK
      <4>3. \A s \in Tokens : owner'[s] \in Users /\ ver'[s] = version'[owner'[s]]
                             <=> s = t \/ (owner[s] \in Users /\ ver[s] = version[owner[s]])
        BY <2>3, <3>1, <4>1, <4>2
      <4>4. V' = {s \in Tokens : owner'[s] \in Users /\ ver'[s] = version'[owner'[s]]}
        OBVIOUS
      <4>5. \A s : s \in V' <=> s \in V \cup {t}
        BY <3>1, <4>3, <4>4
      <4> QED BY <4>5
    <3>4. Revocation!Issue(t, u)
      BY <3>1, <3>2, <3>3 DEF Revocation!Issue
    <3> QED BY <3>1, <3>4 DEF Revocation!RNext
  <2> QED BY <1>2, <2>1, <2>2, <2>3, IssueChange
<1>3. TypeOK /\ Ownership /\ VersionsGrow /\ [Next]_vars => [Revocation!RNext]_(Revocation!rvars)
  BY <1>2
<1> QED BY <1>1, <1>3, GrowthInvariant, PTL DEF Spec, ImplementsRevocation, Revocation!RSpec
=============================================================================
