------------------------ MODULE PermissionCacheProofs ------------------------
(* What holds of PermissionCache for any users, organizations, rows, roles,  *)
(* permissions and requests, whether a query has its tenant or has lost it.  *)
EXTENDS PermissionCache, TLAPS

Filling(q) == q.pc \in {"getMember", "getPerms", "setMember", "setPerms"}

\* A request that has found a row is in the row's organization, unless it found it without
\* its tenant, and carries permissions that the row's user has had there.
Owned(q) ==
    /\ Filling(q) \/ q.pc \in {"find", "write", "create", "assign", "invalidate"} => q.id \in Ids
    /\ q.pc = "assign" \/ (Filling(q) /\ ~q.stray) => KeyOf[q.id][2] = q.key[2]
    /\ Filling(q) => q.snap \in Snapshots /\ q.snap.perms \subseteq held[KeyOf[q.id]]

Requesting == \A r \in Requests : Owned(req[r])

\* held has what the rows have now.
Holding == \A i \in Live : PermsOf(row[i], grants) \subseteq held[KeyOf[i]]

Inv == TypeOK /\ GrantedWasHeld /\ QuietMemberCoherent /\ Requesting /\ Holding

MemberRow == [status : Statuses, role : Roles \cup {None}]

LEMMA NotRows == Unused \notin MemberRow /\ Gone \notin MemberRow
  BY PermissionCacheAssumption DEF MemberRow

LEMMA IdleIsRecord == Idle \in ReqRecord /\ Idle.pc = "idle" /\ Owned(Idle)
<1>1. Keys # {}
  <2>1. PICK u \in Users, o \in Orgs : TRUE
    BY PermissionCacheAssumption
  <2>2. <<u, o>> \in Keys
    BY DEF Keys
  <2> QED BY <2>2
<1>2. (CHOOSE k \in Keys : TRUE) \in Keys
  BY <1>1
<1> QED BY <1>2 DEF Idle, ReqRecord, Pcs, Operations, Owned, Filling

LEMMA LiveRows ==
  ASSUME TypeOK, NEW i \in Live
  PROVE  i \in Ids /\ row[i] \in MemberRow
  BY DEF TypeOK, Live, MemberRow

LEMMA PermsAreSets ==
  ASSUME NEW rw \in MemberRow, NEW g \in [Roles -> SUBSET Perms]
  PROVE  PermsOf(rw, g) \in SUBSET Perms
  BY DEF PermsOf, MemberRow

LEMMA CacheKeyIsKey ==
  ASSUME TypeOK, NEW r \in Requests, NEW i \in Ids
  PROVE  /\ CacheKey(r, i) \in Keys /\ KeyOf[i] \in Keys /\ KeyOf[i][2] \in Orgs
         /\ KeyOf[i] = <<CacheKey(r, i)[1], KeyOf[i][2]>>
         /\ KeyOf[i][2] = req[r].key[2] => CacheKey(r, i) = KeyOf[i]
<1>1. KeyOf[i] \in Users \X Orgs /\ req[r].key \in Users \X Orgs
  BY PermissionCacheAssumption DEF Keys, TypeOK, ReqRecord
<1> QED BY <1>1 DEF CacheKey, Keys

LEMMA InitInv == Init => Inv
<1> SUFFICES ASSUME Init PROVE Inv
  OBVIOUS
<1>1. \A i \in Live : i \in Ids /\ row[i] \in MemberRow
  BY NotRows DEF Init, Live, MemberRow, Statuses
<1>2. \A i \in Live : PermsOf(row[i], grants) \in SUBSET Perms
  BY <1>1, PermsAreSets DEF Init
<1>3. held \in [Keys -> SUBSET Perms] /\ \A k \in Keys : held[k] = HeldBy(k)
  BY <1>2 DEF Init, HeldBy, RowsOf
<1>4. TypeOK
  BY <1>3, IdleIsRecord, PermissionCacheAssumption DEF Init, TypeOK, Statuses
<1>5. Holding
  BY <1>1, <1>3, PermissionCacheAssumption DEF Holding, HeldBy, RowsOf
<1>6. Requesting
  BY IdleIsRecord DEF Init, Requesting
<1>7. GrantedWasHeld /\ QuietMemberCoherent
  BY DEF Init, GrantedWasHeld, QuietMemberCoherent, Coherent
<1> QED BY <1>4, <1>5, <1>6, <1>7 DEF Inv

\* What a step leaves of a pending invalidation.
LEMMA PendingKept ==
  ASSUME Inv, NEW r \in Requests, NEW q, req' = [req EXCEPT ![r] = q],
         NEW k \in Keys, Pending(k),
         req[r].pc # "invalidate" \/ CacheKey(r, req[r].id) # k
  PROVE  Pending(k)'
<1>1. PICK s \in Requests : req[s].pc = "invalidate" /\ CacheKey(s, req[s].id) = k
  BY DEF Pending, At
<1>2. s # r
  BY <1>1
<1>3. req'[s] = req[s]
  BY <1>2 DEF Inv, TypeOK
<1> QED BY <1>1, <1>3 DEF Pending, At, CacheKey

\* A step of a request that changes neither the database nor a cached member.
LEMMA RequestStep ==
  ASSUME Inv, NEW r \in Requests, NEW q \in ReqRecord, Owned(q), req[r].pc # "invalidate",
         req' = [req EXCEPT ![r] = q],
         UNCHANGED <<db, memberKey, excused>>, strayed' \in SUBSET Keys,
         permKey' \in [Keys -> SUBSET Perms], GrantedWasHeld'
  PROVE  Inv'
<1> USE DEF db
<1>1. TypeOK'
  BY DEF Inv, TypeOK, Live
<1>2. Requesting'
  BY DEF Inv, TypeOK, Requesting, Owned
<1>3. Holding'
  BY DEF Inv, Holding, Live
<1>4. QuietMemberCoherent'
  <2> SUFFICES ASSUME NEW k \in Keys, k \notin excused
               PROVE  Coherent(k)' \/ Pending(k)'
    BY DEF QuietMemberCoherent
  <2>1. CASE Coherent(k)
    BY <2>1 DEF Coherent, RowsOf, Live, Snapshot
  <2>2. CASE Pending(k)
    BY <2>2, PendingKept
  <2> QED BY <2>1, <2>2 DEF Inv, QuietMemberCoherent
<1> QED BY <1>1, <1>2, <1>3, <1>4 DEF Inv

LEMMA SimpleStep ==
  ASSUME Inv, NEW r \in Requests, NEW q \in ReqRecord, Owned(q), req[r].pc # "invalidate",
         Become(r, q), UNCHANGED <<db, redis>>
  PROVE  Inv'
<1>1. permKey' \in [Keys -> SUBSET Perms] /\ strayed' \in SUBSET Keys /\ GrantedWasHeld'
  BY DEF Inv, TypeOK, GrantedWasHeld, db, redis
<1> QED BY <1>1, RequestStep DEF Become, redis

LEMMA StartInv ==
  ASSUME Inv, NEW r \in Requests, NEW k \in Callers, NEW members \in BOOLEAN,
         Start(r, k, members)
  PROVE  Inv'
<1> DEFINE q == [Idle EXCEPT !.key = k, !.members = members,
                             !.pc = IF members THEN "lookup" ELSE "check"]
<1>1. k \in Keys
  BY PermissionCacheAssumption
<1>2. q \in ReqRecord
  BY <1>1, IdleIsRecord DEF ReqRecord, Pcs
<1>3. q.pc \in {"lookup", "check"}
  BY DEF Idle
<1>4. Become(r, q) /\ req[r].pc # "invalidate" /\ UNCHANGED <<db, redis>>
  BY DEF Start, At
<1> HIDE DEF q
<1>5. Owned(q)
  BY <1>3 DEF Owned, Filling
<1> QED BY <1>2, <1>4, <1>5, SimpleStep

\* The guard's and the handler's steps that only read.
LEMMA GotoRecord ==
  ASSUME TypeOK, NEW r \in Requests, NEW pc \in Pcs
  PROVE  LET q == [req[r] EXCEPT !.pc = pc] IN
         /\ q \in ReqRecord /\ q.pc = pc /\ q.id = req[r].id /\ q.key = req[r].key
         /\ q.snap = req[r].snap /\ q.stray = req[r].stray
  BY DEF TypeOK, ReqRecord

LEMMA GotoInv ==
  ASSUME Inv, NEW r \in Requests, Filling(req[r]),
         NEW pc \in {"getMember", "getPerms", "setMember", "setPerms"},
         Goto(r, pc), UNCHANGED <<db, redis>>
  PROVE  Inv'
<1> DEFINE q == [req[r] EXCEPT !.pc = pc]
<1>1. /\ q \in ReqRecord /\ q.pc = pc /\ q.id = req[r].id /\ q.key = req[r].key
      /\ q.snap = req[r].snap /\ q.stray = req[r].stray
  <2>1. pc \in Pcs
    BY DEF Pcs
  <2> QED BY <2>1, GotoRecord DEF Inv
<1>2. Become(r, q)
  BY DEF Goto
<1> HIDE DEF q
<1>3. Owned(q)
  BY <1>1 DEF Inv, Requesting, Owned, Filling
<1> QED BY <1>1, <1>2, <1>3, SimpleStep DEF Filling

LEMMA ReturnRecord ==
  ASSUME TypeOK, NEW r \in Requests, Return(r)
  PROVE  \E q \in ReqRecord : q.pc \in {"check", "idle"} /\ req' = [req EXCEPT ![r] = q]
<1>1. CASE req[r].guard
  <2> DEFINE q == [Idle EXCEPT !.pc = "check", !.key = req[r].key, !.members = TRUE]
  <2>1. req[r].key \in Keys
    BY DEF TypeOK, ReqRecord
  <2>2. q \in ReqRecord /\ q.pc = "check"
    BY <2>1, IdleIsRecord DEF ReqRecord, Pcs
  <2>3. req' = [req EXCEPT ![r] = q]
    BY <1>1 DEF Return, Become
  <2> HIDE DEF q
  <2> QED BY <2>2, <2>3
<1>2. CASE ~req[r].guard
  BY <1>2, IdleIsRecord DEF Return, Become
<1> QED BY <1>1, <1>2

LEMMA ReadsInv ==
  ASSUME Inv, NEW r \in Requests,
         Lookup(r) \/ Find(r) \/ GetMember(r) \/ GetPerms(r) \/ Fail(r)
  PROVE  Inv'
<1> USE DEF At
<1>0. CASE Become(r, Idle) /\ req[r].pc # "invalidate" /\ UNCHANGED <<db, redis>>
  BY <1>0, IdleIsRecord, SimpleStep
<1>1. ASSUME Lookup(r), ~Become(r, Idle)
      PROVE  Inv'
  <2>1. PICK i \in RowsOf(req[r].key) : Become(r, [req[r] EXCEPT !.pc = "find", !.id = i])
    BY <1>1 DEF Lookup
  <2> DEFINE q == [req[r] EXCEPT !.pc = "find", !.id = i]
  <2>2. i \in Ids
    BY DEF RowsOf, Live
  <2>3. q \in ReqRecord /\ q.pc = "find" /\ q.id = i
    BY <2>2 DEF Inv, TypeOK, ReqRecord, Pcs
  <2>4. Become(r, q) /\ req[r].pc # "invalidate" /\ UNCHANGED <<db, redis>>
    BY <2>1, <1>1 DEF Lookup
  <2> HIDE DEF q
  <2>5. Owned(q)
    BY <2>2, <2>3 DEF Owned, Filling
  <2> QED BY <2>3, <2>4, <2>5, SimpleStep
<1>2. ASSUME Find(r), ~Become(r, Idle)
      PROVE  Inv'
  <2>0. PICK i : i = req[r].id
    OBVIOUS
  <2>1. PICK scoped \in BOOLEAN :
          /\ Reaches(r, i, scoped)
          /\ Become(r, [req[r] EXCEPT !.pc = "getMember", !.snap = Snapshot(i),
                                      !.stray = Strays(r, i, scoped)])
    BY <1>2, <2>0 DEF Find
  <2> DEFINE q == [req[r] EXCEPT !.pc = "getMember", !.snap = Snapshot(i),
                                 !.stray = Strays(r, i, scoped)]
  <2>2. i \in Live /\ i \in Ids /\ row[i] \in MemberRow /\ req[r].pc = "find" /\ UNCHANGED <<db, redis>>
    BY <1>2, <2>1, LiveRows DEF Find, Reaches, Inv
  <2>3. Snapshot(i) \in Snapshots /\ Snapshot(i).perms \subseteq held[KeyOf[i]]
    BY <2>2, PermsAreSets DEF Snapshot, Snapshots, MemberRow, Inv, TypeOK, Holding
  <2>4. /\ q \in ReqRecord /\ q.pc = "getMember" /\ q.id = i /\ q.key = req[r].key
        /\ q.snap = Snapshot(i) /\ q.stray = Strays(r, i, scoped)
    <3>1. Strays(r, i, scoped) \in BOOLEAN
      BY DEF Strays
    <3> QED BY <2>0, <2>3, <3>1 DEF Inv, TypeOK, ReqRecord, Pcs
  <2>5. Become(r, q)
    BY <2>1
  <2> HIDE DEF q
  <2>6. Owned(q)
    BY <2>1, <2>2, <2>3, <2>4 DEF Owned, Filling, Reaches, Strays
  <2> QED BY <2>2, <2>4, <2>5, <2>6, SimpleStep
<1>3. CASE GetMember(r)
  <2>1. PICK h \in BOOLEAN : Become(r, [req[r] EXCEPT !.pc = "getPerms", !.hit = h])
    BY <1>3 DEF GetMember
  <2> DEFINE q == [req[r] EXCEPT !.pc = "getPerms", !.hit = h]
  <2>2. q \in ReqRecord /\ q.pc = "getPerms" /\ q.id = req[r].id /\ q.key = req[r].key
        /\ q.snap = req[r].snap /\ q.stray = req[r].stray
    BY DEF Inv, TypeOK, ReqRecord, Pcs
  <2>3. Become(r, q) /\ req[r].pc = "getMember" /\ UNCHANGED <<db, redis>>
    BY <2>1, <1>3 DEF GetMember
  <2> HIDE DEF q
  <2>4. Owned(q)
    BY <2>2, <2>3 DEF Inv, Requesting, Owned, Filling
  <2> QED BY <2>2, <2>3, <2>4, SimpleStep
<1>4. CASE GetPerms(r)
  <2>1. Filling(req[r]) /\ req[r].pc # "invalidate" /\ UNCHANGED <<db, redis>>
    BY <1>4 DEF GetPerms, Filling
  <2>2. Goto(r, "setMember") \/ Goto(r, "setPerms") \/ Return(r)
    BY <1>4 DEF GetPerms
  <2>3. CASE Return(r)
    <3>1. PICK q \in ReqRecord : q.pc \in {"check", "idle"} /\ req' = [req EXCEPT ![r] = q]
      BY <2>3, ReturnRecord DEF Inv
    <3>2. Owned(q)
      BY <3>1 DEF Owned, Filling
    <3> QED BY <2>1, <3>1, <3>2, SimpleStep DEF Become
  <2> QED BY <2>1, <2>2, <2>3, GotoInv
<1> QED BY <1>0, <1>1, <1>2, <1>3, <1>4 DEF Lookup, Find, Fail

LEMMA CheckInv ==
  ASSUME Inv, NEW r \in Requests, NEW op \in Operations, NEW t \in Ids, Check(r, op, t)
  PROVE  Inv'
<1>1. CASE Become(r, Idle)
  BY <1>1, IdleIsRecord, SimpleStep DEF Check, At
<1>2. CASE ~Become(r, Idle)
  <2> DEFINE q == [Idle EXCEPT !.op = op, !.key = req[r].key, !.pc = Handler(op),
                               !.guard = FALSE, !.id = t]
  <2>1. Handler(op) \in {"find", "create", "write"}
    BY DEF Handler
  <2>2. req[r].key \in Keys
    BY DEF Inv, TypeOK, ReqRecord
  <2>3. q \in ReqRecord /\ q.pc = Handler(op) /\ q.id = t
    BY <2>1, <2>2, IdleIsRecord DEF ReqRecord, Pcs
  <2>4. Become(r, q) /\ req[r].pc # "invalidate" /\ UNCHANGED <<db, redis>>
    BY <1>2 DEF Check, At
  <2> HIDE DEF q
  <2>5. Owned(q)
    BY <2>1, <2>3 DEF Owned, Filling
  <2> QED BY <2>3, <2>4, <2>5, SimpleStep
<1> QED BY <1>1, <1>2

\* The permissions stored are the ones the row was found with, under the row's own key or,
\* of a row found without the tenant, under another key of the same user.
LEMMA SetPermsInv ==
  ASSUME Inv, NEW r \in Requests, SetPerms(r)
  PROVE  Inv'
<1>0. PICK i : i = req[r].id
  OBVIOUS
<1>1. i \in Ids /\ req[r].snap \in Snapshots /\ req[r].snap.perms \subseteq held[KeyOf[i]]
      /\ req[r].pc = "setPerms" /\ (~req[r].stray => KeyOf[i][2] = req[r].key[2])
  BY <1>0 DEF SetPerms, At, Inv, Requesting, Owned, Filling
<1>2. PICK k \in Keys : k = CacheKey(r, i)
  BY <1>1, CacheKeyIsKey DEF Inv
<1>3. /\ permKey' = [permKey EXCEPT ![k] = req[r].snap.perms] /\ UNCHANGED <<db, memberKey, excused>>
      /\ strayed' = IF req[r].stray THEN strayed \cup {k} ELSE strayed \ {k}
  BY <1>0, <1>2 DEF SetPerms
<1>4. PICK q \in ReqRecord : q.pc \in {"check", "idle"} /\ req' = [req EXCEPT ![r] = q]
  BY ReturnRecord DEF SetPerms, Inv
<1>5. Owned(q)
  BY <1>4 DEF Owned, Filling
<1>6. permKey' \in [Keys -> SUBSET Perms] /\ strayed' \in SUBSET Keys
  BY <1>1, <1>3 DEF Inv, TypeOK, Snapshots
<1>7. GrantedWasHeld'
  <2>1. ASSUME NEW j \in Keys, j # k
        PROVE  permKey'[j] = permKey[j] /\ (j \in strayed' <=> j \in strayed)
    BY <1>3, <2>1 DEF Inv, TypeOK
  <2>2. permKey'[k] = req[r].snap.perms /\ (k \in strayed' <=> req[r].stray)
    BY <1>3 DEF Inv, TypeOK, ReqRecord
  <2>3. ~req[r].stray => req[r].snap.perms \subseteq held[k]
    BY <1>1, <1>2, CacheKeyIsKey DEF Inv
  <2>4. req[r].snap.perms \subseteq UNION {held[<<k[1], o>>] : o \in Orgs}
    <3>1. KeyOf[i] = <<k[1], KeyOf[i][2]>> /\ KeyOf[i][2] \in Orgs
      BY <1>1, <1>2, CacheKeyIsKey DEF Inv
    <3> QED BY <1>1, <3>1
  <2>5. held' = held
    BY <1>3 DEF db
  <2> QED BY <2>1, <2>2, <2>3, <2>4, <2>5 DEF Inv, GrantedWasHeld
<1> QED BY <1>1, <1>3, <1>4, <1>5, <1>6, <1>7, RequestStep

\* Steps that change cached members and not the database.
LEMMA CacheStep ==
  ASSUME Inv, UNCHANGED <<db, permKey, strayed>>,
         req' \in [Requests -> ReqRecord], \A s \in Requests : Owned(req'[s]),
         NEW k \in Keys, NEW e \in Snapshots \cup {None}, memberKey' = [memberKey EXCEPT ![k] = e],
         excused' \in {excused \cup {k}, excused \ {k}},
         k \notin excused' => Coherent(k)',
         \A j \in Keys : j # k /\ Pending(j) => Pending(j)'
  PROVE  Inv'
<1> USE DEF db
<1>1. TypeOK'
  BY DEF Inv, TypeOK, Live
<1>2. Requesting' /\ Holding' /\ GrantedWasHeld'
  <2>1. Requesting' /\ Holding'
    BY DEF Inv, Requesting, Owned, Holding, Live
  <2>2. GrantedWasHeld'
    BY DEF Inv, GrantedWasHeld
  <2> QED BY <2>1, <2>2
<1>3. QuietMemberCoherent'
  <2> SUFFICES ASSUME NEW j \in Keys, j # k, j \notin excused
               PROVE  Coherent(j)' \/ Pending(j)'
    BY DEF QuietMemberCoherent
  <2>1. CASE Coherent(j)
    <3>1. memberKey'[j] = memberKey[j]
      BY DEF Inv, TypeOK
    <3> QED BY <2>1, <3>1 DEF Coherent, RowsOf, Live, Snapshot
  <2> QED BY <2>1 DEF Inv, QuietMemberCoherent
<1> QED BY <1>1, <1>2, <1>3 DEF Inv

LEMMA SetMemberInv ==
  ASSUME Inv, NEW r \in Requests, SetMember(r)
  PROVE  Inv'
<1>0. PICK i : i = req[r].id
  OBVIOUS
<1>1. i \in Ids /\ i = req[r].id /\ req[r].snap \in Snapshots
      /\ req[r].pc = "setMember" /\ Filling(req[r])
  BY <1>0 DEF SetMember, At, Inv, Requesting, Owned, Filling
<1>2. PICK k \in Keys : CacheKey(r, i) = k
  BY <1>1, CacheKeyIsKey DEF Inv
<1>3. CASE UNCHANGED <<memberKey, excused>>
  <2>1. Goto(r, "setPerms") /\ UNCHANGED <<db, redis>>
    BY <1>3 DEF SetMember, redis
  <2> QED BY <1>1, <2>1, GotoInv
<1>4. CASE ~UNCHANGED <<memberKey, excused>>
  <2> DEFINE q == [req[r] EXCEPT !.pc = "setPerms"]
  <2>1. memberKey' = [memberKey EXCEPT ![k] = req[r].snap] /\ UNCHANGED <<db, permKey, strayed>>
        /\ excused' = IF i \in RowsOf(k) /\ req[r].snap = Snapshot(i) THEN excused \ {k}
                      ELSE excused \cup {k}
    BY <1>1, <1>2, <1>4 DEF SetMember
  <2>2. req' = [req EXCEPT ![r] = q]
    BY DEF SetMember, Goto, Become
  <2>3. /\ q \in ReqRecord /\ q.pc = "setPerms" /\ q.id = i /\ q.key = req[r].key
        /\ q.snap = req[r].snap /\ q.stray = req[r].stray
    <3>1. "setPerms" \in Pcs
      BY DEF Pcs
    <3> QED BY <1>1, <3>1, GotoRecord DEF Inv
  <2> HIDE DEF q
  <2>4. Owned(q)
    BY <1>1, <2>3 DEF Inv, Requesting, Owned, Filling
  <2>5. req' \in [Requests -> ReqRecord] /\ \A s \in Requests : Owned(req'[s])
    BY <2>2, <2>3, <2>4 DEF Inv, TypeOK, Requesting
  <2>6. k \notin excused' => Coherent(k)'
    BY <1>2, <2>1 DEF Coherent, Inv, TypeOK, RowsOf, Live, Snapshot, db
  <2>7. \A j \in Keys : Pending(j) => Pending(j)'
    BY <1>1, <2>2, PendingKept
  <2>8. req[r].snap \in Snapshots \cup {None} /\ excused' \in {excused \cup {k}, excused \ {k}}
    BY <1>1, <2>1
  <2> QED BY <1>2, <2>1, <2>5, <2>6, <2>7, <2>8, CacheStep
<1> QED BY <1>3, <1>4

LEMMA ExpireInv ==
  ASSUME Inv, NEW k \in Keys, ExpireMember(k) \/ ExpirePerms(k)
  PROVE  Inv'
<1>1. CASE ExpireMember(k)
  <2>1. UNCHANGED <<db, permKey, req, strayed>> /\ memberKey' = [memberKey EXCEPT ![k] = None]
        /\ excused' = excused \ {k}
    BY <1>1 DEF ExpireMember
  <2>2. Coherent(k)'
    BY <2>1 DEF Coherent, Inv, TypeOK
  <2>3. \A j \in Keys : Pending(j) => Pending(j)'
    BY <2>1 DEF Pending, At, CacheKey
  <2>4. req' \in [Requests -> ReqRecord] /\ \A s \in Requests : Owned(req'[s])
    BY <2>1 DEF Inv, TypeOK, Requesting
  <2> QED BY <2>1, <2>2, <2>3, <2>4, CacheStep
<1>2. CASE ExpirePerms(k)
  <2>1. UNCHANGED <<db, memberKey, excused, req>> /\ permKey' = [permKey EXCEPT ![k] = {}]
        /\ strayed' = strayed \ {k}
    BY <1>2 DEF ExpirePerms
  <2>2. TypeOK' /\ GrantedWasHeld'
    BY <2>1 DEF Inv, TypeOK, GrantedWasHeld, Live, db
  <2>3. QuietMemberCoherent' /\ Requesting' /\ Holding'
    BY <2>1 DEF Inv, QuietMemberCoherent, Coherent, Pending, At, CacheKey, RowsOf, Live, Snapshot,
       Requesting, Owned, Holding, db
  <2> QED BY <2>2, <2>3 DEF Inv
<1> QED BY <1>1, <1>2

LEMMA InvalidateInv ==
  ASSUME Inv, NEW r \in Requests, Invalidate(r) \/ InvalidateFails(r)
  PROVE  Inv'
<1>1. req[r].id \in Ids /\ req[r].pc = "invalidate"
  BY DEF Invalidate, InvalidateFails, At, Inv, Requesting, Owned
<1>2. PICK k \in Keys : CacheKey(r, req[r].id) = k
  BY <1>1, CacheKeyIsKey DEF Inv
<1>3. req' = [req EXCEPT ![r] = Idle] /\ UNCHANGED <<db, permKey, strayed>>
  BY DEF Invalidate, InvalidateFails, Become
<1>4. req' \in [Requests -> ReqRecord] /\ \A s \in Requests : Owned(req'[s])
  BY <1>3, IdleIsRecord DEF Inv, TypeOK, Requesting
<1>5. \A j \in Keys : j # k /\ Pending(j) => Pending(j)'
  BY <1>2, <1>3, PendingKept
<1>6. CASE Invalidate(r)
  <2>1. memberKey' = [memberKey EXCEPT ![k] = None] /\ excused' = excused \ {k}
    BY <1>2, <1>6 DEF Invalidate, Invalidated
  <2>2. Coherent(k)'
    BY <1>2, <2>1 DEF Coherent, Inv, TypeOK
  <2> QED BY <1>2, <1>3, <1>4, <1>5, <2>1, <2>2, CacheStep
<1>7. CASE InvalidateFails(r)
  <2>1. memberKey' = [memberKey EXCEPT ![k] = memberKey[k]] /\ excused' = excused \cup {k}
        /\ memberKey[k] \in Snapshots \cup {None}
    BY <1>2, <1>7 DEF InvalidateFails, Inv, TypeOK
  <2> QED BY <1>2, <1>3, <1>4, <1>5, <2>1, CacheStep
<1> QED BY <1>6, <1>7

\* A change of rows or roles: the keys it touches have an excuse, an invalidation to come or
\* no entry.
LEMMA ChangeStep ==
  ASSUME Inv, NEW rows \in [Ids -> {Unused, Gone} \cup MemberRow],
         NEW g \in [Roles -> SUBSET Perms], Change(rows, g), CountWrite \/ UNCHANGED writes,
         \A i, j \in Ids : rows[i] \in MemberRow /\ rows[j] \in MemberRow /\ KeyOf[i] = KeyOf[j] => i = j,
         UNCHANGED <<memberKey, permKey, strayed>>,
         excused' \in SUBSET Keys, excused \subseteq excused',
         req' \in [Requests -> ReqRecord], \A s \in Requests : Owned(req'[s]),
         \A k \in Keys : Pending(k) => Pending(k)',
         NEW K \in SUBSET Keys,
         \A i \in Live : KeyOf[i] \notin K => rows[i] = row[i] /\ PermsOf(rows[i], g) = PermsOf(row[i], grants),
         \A k \in K : k \in excused' \/ Pending(k)' \/ memberKey[k] = None
  PROVE  Inv'
<1> DEFINE now(i) == rows[i] \notin {Unused, Gone}
<1>1. \A i \in Ids : now(i) <=> rows[i] \in MemberRow
  BY NotRows
<1>2. Live' = {i \in Ids : now(i)} /\ row' = rows /\ grants' = g
  BY DEF Change, Live
<1>3. \A i \in Ids : now(i) => PermsOf(rows[i], g) \in SUBSET Perms
  BY <1>1, PermsAreSets
<1>4. held' = [k \in Keys |-> held[k] \cup
                   UNION {PermsOf(rows[i], g) : i \in {j \in Ids : now(j) /\ KeyOf[j] = k}}]
  BY DEF Change
<1> HIDE DEF now
<1>5. held' \in [Keys -> SUBSET Perms] /\ \A k \in Keys : held[k] \subseteq held'[k]
  BY <1>3, <1>4 DEF Inv, TypeOK
<1>6. \A i \in Ids : now(i) => PermsOf(rows[i], g) \subseteq held'[KeyOf[i]]
  BY <1>4, PermissionCacheAssumption
<1>7. Holding'
  BY <1>2, <1>6 DEF Holding
<1>8. writes' \in 0..MaxWrites
  BY PermissionCacheAssumption DEF CountWrite, Inv, TypeOK
<1>9. TypeOK'
  BY <1>1, <1>2, <1>5, <1>8 DEF Inv, TypeOK, MemberRow
<1>10. Requesting' /\ GrantedWasHeld'
  <2>1. GrantedWasHeld'
    <3>1. ASSUME NEW k \in Keys
          PROVE  UNION {held[<<k[1], o>>] : o \in Orgs} \subseteq UNION {held'[<<k[1], o>>] : o \in Orgs}
      <4>1. \A o \in Orgs : <<k[1], o>> \in Keys
        BY DEF Keys
      <4> QED BY <1>5, <4>1
    <3> QED BY <1>5, <3>1 DEF Inv, GrantedWasHeld
  <2>2. ASSUME NEW s \in Requests PROVE Owned(req[s])'
    <3>1. Owned(req'[s])
      OBVIOUS
    <3>2. Filling(req'[s]) => KeyOf[req'[s].id] \in Keys
      BY <3>1, PermissionCacheAssumption DEF Owned
    <3> QED BY <1>5, <3>1, <3>2 DEF Owned, Filling
  <2> QED BY <2>1, <2>2 DEF Requesting
<1>11. QuietMemberCoherent'
  <2> SUFFICES ASSUME NEW k \in Keys, k \notin excused', k \notin K, Coherent(k)
               PROVE  Coherent(k)'
    BY DEF QuietMemberCoherent, Inv, Coherent
  <2> SUFFICES ASSUME memberKey[k] # None
               PROVE  \E i \in RowsOf(k)' : memberKey[k] = Snapshot(i)'
    BY DEF Coherent
  <2>1. PICK i \in RowsOf(k) : memberKey[k] = Snapshot(i)
    BY DEF Coherent
  <2>2. i \in Live /\ i \in Ids /\ KeyOf[i] = k /\ row[i] \in MemberRow
    BY <2>1, LiveRows DEF Inv, RowsOf
  <2>3. rows[i] = row[i] /\ PermsOf(rows[i], g) = PermsOf(row[i], grants)
    BY <2>2
  <2>4. i \in RowsOf(k)'
    BY <1>1, <1>2, <2>2, <2>3 DEF RowsOf
  <2>5. Snapshot(i)' = Snapshot(i)
    BY <1>2, <2>3 DEF Snapshot
  <2> QED BY <2>1, <2>4, <2>5
<1> QED BY <1>7, <1>9, <1>10, <1>11 DEF Inv

\* A change of one row.
LEMMA RowChange ==
  ASSUME Inv, NEW i \in Ids, NEW rw \in {Gone} \cup MemberRow,
         Change([row EXCEPT ![i] = rw], grants), CountWrite \/ UNCHANGED writes,
         i \in Live \/ RowsOf(KeyOf[i]) = {},
         UNCHANGED <<memberKey, permKey, strayed>>,
         excused' \in SUBSET Keys, excused \subseteq excused',
         req' \in [Requests -> ReqRecord], \A s \in Requests : Owned(req'[s]),
         \A k \in Keys : Pending(k) => Pending(k)',
         KeyOf[i] \in excused' \/ Pending(KeyOf[i])' \/ memberKey[KeyOf[i]] = None
  PROVE  Inv'
<1> DEFINE rows == [row EXCEPT ![i] = rw]
           K == {KeyOf[i]}
<1>1. row \in [Ids -> {Unused, Gone} \cup MemberRow] /\ grants \in [Roles -> SUBSET Perms]
      /\ KeyOf[i] \in Keys
  BY PermissionCacheAssumption DEF Inv, TypeOK, MemberRow
<1>2. rows \in [Ids -> {Unused, Gone} \cup MemberRow]
  BY <1>1
<1>3. \A j \in Ids : row[j] \in MemberRow <=> j \in Live
  BY <1>1, NotRows DEF Live
<1>4. \A a, b \in Ids : rows[a] \in MemberRow /\ rows[b] \in MemberRow /\ KeyOf[a] = KeyOf[b] => a = b
  BY <1>1, <1>3 DEF Inv, TypeOK, RowsOf
<1>5. \A j \in Live : KeyOf[j] \notin K => rows[j] = row[j] /\ PermsOf(rows[j], grants) = PermsOf(row[j], grants)
  BY <1>1 DEF Live
<1>6. K \in SUBSET Keys /\ \A k \in K : k \in excused' \/ Pending(k)' \/ memberKey[k] = None
  BY <1>1
<1>7. Change(rows, grants)
  OBVIOUS
<1> HIDE DEF rows, K
<1> QED BY <1>1, <1>2, <1>4, <1>5, <1>6, <1>7, ChangeStep

LEMMA PendingSame == req' = req => \A k \in Keys : Pending(k) => Pending(k)'
  BY DEF Pending, At, CacheKey

LEMMA UninvalidatedInv ==
  ASSUME Inv, NEW i \in Ids,
         Accept(i) \/ Decline(i) \/ \E o \in Roles \cup {None} : Register(i, o)
  PROVE  Inv'
<1>1. KeyOf[i] \in Keys
  BY PermissionCacheAssumption
<1>2. CountWrite /\ excused' = excused \cup {KeyOf[i]} /\ UNCHANGED <<memberKey, permKey, req, strayed>>
  BY DEF Accept, Decline, Register, Uninvalidated
<1>3. PICK rw \in {Gone} \cup MemberRow :
        Change([row EXCEPT ![i] = rw], grants) /\ (i \in Live \/ RowsOf(KeyOf[i]) = {})
  <2>1. CASE Accept(i)
    <3>1. row[i] \in MemberRow
      BY <2>1, LiveRows DEF Accept, Inv
    <3>2. [row[i] EXCEPT !.status = "active"] \in MemberRow
      BY <3>1 DEF MemberRow, Statuses
    <3>3. Change([row EXCEPT ![i] = [row[i] EXCEPT !.status = "active"]], grants) /\ i \in Live
      BY <2>1 DEF Accept
    <3> QED BY <3>2, <3>3
  <2>2. CASE Decline(i)
    BY <2>2 DEF Decline
  <2>3. ASSUME NEW o \in Roles \cup {None}, Register(i, o)
        PROVE  \E rw \in {Gone} \cup MemberRow :
                   Change([row EXCEPT ![i] = rw], grants) /\ (i \in Live \/ RowsOf(KeyOf[i]) = {})
    BY <2>3 DEF Register, Free, MemberRow, Statuses
  <2> QED BY <2>1, <2>2, <2>3
<1>4. req' \in [Requests -> ReqRecord] /\ \A s \in Requests : Owned(req'[s])
  BY <1>2 DEF Inv, TypeOK, Requesting
<1>5. excused' \in SUBSET Keys /\ excused \subseteq excused' /\ KeyOf[i] \in excused'
  BY <1>1, <1>2 DEF Inv, TypeOK
<1> QED BY <1>2, <1>3, <1>4, <1>5, PendingSame, RowChange

LEMMA EditRoleInv ==
  ASSUME Inv, NEW o \in Roles, NEW P \in SUBSET Perms, EditRole(o, P)
  PROVE  Inv'
<1> DEFINE g == [grants EXCEPT ![o] = P]
           K == {KeyOf[i] : i \in {j \in Live : row[j].role = o}}
<1>1. row \in [Ids -> {Unused, Gone} \cup MemberRow] /\ g \in [Roles -> SUBSET Perms]
  BY DEF Inv, TypeOK, MemberRow
<1>2. Change(row, g) /\ CountWrite /\ excused' = excused \cup K /\ UNCHANGED <<memberKey, permKey, req, strayed>>
  BY DEF EditRole, Uninvalidated
<1>3. \A i, j \in Ids : row[i] \in MemberRow /\ row[j] \in MemberRow /\ KeyOf[i] = KeyOf[j] => i = j
  BY NotRows DEF Inv, TypeOK, Live
<1>4. K \in SUBSET Keys
  BY PermissionCacheAssumption DEF Live
<1>5. \A i \in Live : KeyOf[i] \notin K => row[i] = row[i] /\ PermsOf(row[i], g) = PermsOf(row[i], grants)
  <2> SUFFICES ASSUME NEW i \in Live, row[i].role # o
               PROVE  PermsOf(row[i], g) = PermsOf(row[i], grants)
    OBVIOUS
  <2>1. row[i].role \in Roles \cup {None}
    BY LiveRows DEF Inv, MemberRow
  <2> QED BY <2>1 DEF PermsOf, Inv, TypeOK
<1>6. req' \in [Requests -> ReqRecord] /\ \A s \in Requests : Owned(req'[s])
  BY <1>2 DEF Inv, TypeOK, Requesting
<1>7. excused' \in SUBSET Keys /\ excused \subseteq excused' /\ \A k \in K : k \in excused'
  BY <1>2, <1>4 DEF Inv, TypeOK
<1> HIDE DEF g, K
<1> QED BY <1>1, <1>2, <1>3, <1>4, <1>5, <1>6, <1>7, PendingSame, ChangeStep

\* The writers that have an invalidation to come, and the row that has none yet.
LEMMA WriterStep ==
  ASSUME Inv, NEW r \in Requests, req[r].pc \in {"write", "create", "assign"},
         NEW pc \in {"assign", "invalidate"}, Goto(r, pc),
         UNCHANGED <<memberKey, permKey, strayed>>,
         excused' \in {excused, excused \cup {KeyOf[req[r].id]}},
         NEW rw \in {Gone} \cup MemberRow, Change([row EXCEPT ![req[r].id] = rw], grants),
         CountWrite \/ UNCHANGED writes,
         \/ KeyOf[req[r].id][2] = req[r].key[2]
         \/ pc = "invalidate" /\ KeyOf[req[r].id] \in excused',
         IF pc = "invalidate" THEN req[r].id \in Live ELSE RowsOf(KeyOf[req[r].id]) = {}
  PROVE  Inv'
<1> DEFINE q == [req[r] EXCEPT !.pc = pc]
<1>1. PICK i \in Ids : i = req[r].id
  BY DEF Inv, Requesting, Owned
<1>2. q \in ReqRecord /\ q.pc = pc /\ q.id = i /\ q.key = req[r].key /\ q.snap = req[r].snap
  <2>1. pc \in Pcs
    BY DEF Pcs
  <2> QED BY <1>1, <2>1, GotoRecord DEF Inv
<1>3. req' = [req EXCEPT ![r] = q]
  BY DEF Goto, Become
<1> HIDE DEF q
<1>4. Owned(q)
  BY <1>1, <1>2 DEF Owned, Filling
<1>5. req' \in [Requests -> ReqRecord] /\ \A s \in Requests : Owned(req'[s])
  BY <1>2, <1>3, <1>4 DEF Inv, TypeOK, Requesting
<1>6. PICK k \in Keys : KeyOf[i] = k /\ (k \in excused' \/ CacheKey(r, i) = k)
  BY <1>1, CacheKeyIsKey DEF Inv
<1>7. \A j \in Keys : Pending(j) => Pending(j)'
  BY <1>3, PendingKept
<1>8. excused' \in SUBSET Keys /\ excused \subseteq excused'
  BY <1>1, <1>6 DEF Inv, TypeOK
<1>9. k \in excused' \/ Pending(k)' \/ memberKey[k] = None
  <2>1. CASE pc = "invalidate"
    <3>1. req'[r] = q
      BY <1>3 DEF Inv, TypeOK
    <3>2. req'[r].pc = "invalidate" /\ req'[r].id = i /\ req'[r].key = req[r].key
      BY <1>2, <2>1, <3>1
    <3> QED BY <1>6, <3>2 DEF Pending, At, CacheKey
  <2>2. CASE pc = "assign"
    <3>1. RowsOf(k) = {}
      BY <1>1, <1>6, <2>2
    <3>2. k \in excused \/ Pending(k) \/ memberKey[k] = None
      BY <3>1 DEF Inv, QuietMemberCoherent, Coherent
    <3> QED BY <1>7, <1>8, <3>2
  <2> QED BY <2>1, <2>2
<1>10. Change([row EXCEPT ![i] = rw], grants) /\ (i \in Live \/ RowsOf(KeyOf[i]) = {})
  BY <1>1
<1> QED BY <1>5, <1>6, <1>7, <1>8, <1>9, <1>10, RowChange

LEMMA WritersInv ==
  ASSUME Inv, NEW r \in Requests,
         \/ \E rw \in {Gone} \cup [status : Statuses, role : Roles \cup {None}], scoped \in BOOLEAN :
                Write(r, rw, scoped)
         \/ Create(r)
         \/ \E o \in Roles : Assign(r, o)
  PROVE  Inv'
<1> USE DEF At
<1>1. ASSUME NEW rw \in {Gone} \cup MemberRow, NEW scoped \in BOOLEAN, Write(r, rw, scoped)
      PROVE  Inv'
  <2>1. req[r].id \in Live /\ excused' \in {excused, excused \cup {KeyOf[req[r].id]}}
    BY <1>1 DEF Write, Reaches
  <2>2. KeyOf[req[r].id][2] = req[r].key[2] \/ KeyOf[req[r].id] \in excused'
    BY <1>1 DEF Write, Reaches, Strays
  <2> QED BY <1>1, <2>1, <2>2, WriterStep DEF Write
<1>2. CASE Create(r)
  <2>1. [status |-> "invited", role |-> None] \in MemberRow
    BY DEF MemberRow, Statuses
  <2> QED BY <1>2, <2>1, WriterStep DEF Create, Free, redis
<1>3. ASSUME NEW o \in Roles, Assign(r, o)
      PROVE  Inv'
  <2> DEFINE i == req[r].id
  <2>1. i \in Live /\ row[i] \in MemberRow /\ KeyOf[i][2] = req[r].key[2]
    BY <1>3, LiveRows DEF Assign, Inv, Requesting, Owned
  <2>2. [row[i] EXCEPT !.role = o] \in MemberRow
    BY <2>1 DEF MemberRow
  <2>3. Change([row EXCEPT ![i] = [row[i] EXCEPT !.role = o]], grants)
    BY <1>3 DEF Assign
  <2> QED BY <1>3, <2>1, <2>2, <2>3, WriterStep DEF Assign, redis
<1> QED BY <1>1, <1>2, <1>3 DEF MemberRow

LEMMA NextInv == Inv /\ [Next]_vars => Inv'
<1> SUFFICES ASSUME Inv, [Next]_vars PROVE Inv'
  OBVIOUS
<1>1. CASE UNCHANGED vars
  BY <1>1 DEF vars, Inv, TypeOK, GrantedWasHeld, QuietMemberCoherent, Coherent, Pending, At,
     CacheKey, RowsOf, Live, Snapshot, Requesting, Owned, Holding
<1>2. ASSUME NEW r \in Requests, Proceed(r) PROVE Inv'
  BY <1>2, ReadsInv, CheckInv, SetMemberInv, SetPermsInv, InvalidateInv, WritersInv DEF Proceed
<1> QED BY <1>1, <1>2, StartInv, UninvalidatedInv, EditRoleInv, ExpireInv DEF Next

-----------------------------------------------------------------------------
(* What the caches hold.                                                    *)

\* Types of rows, entries and requests, and one row of a user in an organization, which the
\* index keeps whether the queries of the services have their tenant or not.
THEOREM PermissionCacheTypes == Spec => []TypeOK
<1>1. Inv => TypeOK
  BY DEF Inv
<1> QED BY <1>1, InitInv, NextInv, PTL DEF Spec

\* PermissionGuard decides from permissions that the user's own row in the organization has
\* had, whoever asks for whose row, whatever overlaps and fails; and where a query had lost
\* its tenant, from ones the same user has had in some organization.
THEOREM GrantsWereHeld == Spec => []GrantedWasHeld
<1>1. Inv => GrantedWasHeld
  BY DEF Inv
<1> QED BY <1>1, InitInv, NextInv, PTL DEF Spec

\* A cached member that is neither the row nor about to be invalidated is one of the kinds
\* the code does not look after: a failed invalidation, a writer without one, a reader that
\* was overtaken, and a query that had lost its tenant.
THEOREM MembersCoherent == Spec => []QuietMemberCoherent
<1>1. Inv => QuietMemberCoherent
  BY DEF Inv
<1> QED BY <1>1, InitInv, NextInv, PTL DEF Spec
=============================================================================
