--------------------------- MODULE PermissionCache ---------------------------
(***************************************************************************)
(* PermissionGuard and what it decides from: the members and permissions   *)
(* that MemberCacheService and OrganizationPermissionService keep in Redis *)
(* under a user and an organization, filled by MemberService.getMember and *)
(* invalidated by some of the writers of a row.                            *)
(*                                                                         *)
(* A row here is a member with a user and at most one role.  One query     *)
(* reads a row with its roles and their permissions.  The checks that the  *)
(* writers make before they write are those of Membership; here they may   *)
(* refuse at any time.  The list of an organization's members is also      *)
(* cached, but no route reads it.                                          *)
(*                                                                         *)
(* The rows a request names are found with the tenant as a filter.  The    *)
(* response of another request may have cleared it (Tenancy): every such   *)
(* query here has its tenant or has lost it.                               *)
(***************************************************************************)
EXTENDS Naturals

CONSTANTS Users, Orgs, Roles, Perms,
          Ids,            \* the ids of member rows
          KeyOf,          \* the user and the organization of a row
          Requests,
          Callers,        \* bound: the users that call, and the organization they call in
          None,           \* no role, no row, no entry
          Unused, Gone,   \* a row that does not exist yet, or any more
          Needs,          \* the permission @RequirePermissions asks for an operation
          SystemAdmins,   \* users with the system role SYSTEM_ADMIN
          MaxWrites       \* bound: operations that change rows or roles

Keys == Users \X Orgs
Statuses == {"invited", "active"}   \* active stands for the other statuses too
MemberRoutes == {"read", "update", "remove", "invite"}
Operations == MemberRoutes \cup {"other"}

ASSUME PermissionCacheAssumption ==
    /\ Users # {} /\ Orgs # {}
    /\ None \notin Ids \cup Roles
    /\ \A x \in {Unused, Gone, None} : x \notin [status : Statuses, role : Roles \cup {None}]
    /\ None \notin [id : Ids, status : Statuses, perms : SUBSET Perms]
    /\ KeyOf \in [Ids -> Keys]
    /\ Needs \in [Operations -> Perms]
    /\ SystemAdmins \subseteq Users /\ Callers \subseteq Keys
    /\ MaxWrites \in Nat

VARIABLES
    row,        \* organization_members with member_roles: Unused, Gone, or status and role
    grants,     \* role_permissions: the permissions of a role
    memberKey,  \* Redis, member:<user>:<organization>: a member as a query found it, or None
    permKey,    \* Redis, the permissions of a user in an organization; missing is empty
    req,        \* the requests in flight
    writes,     \* bound
    held,       \* history: every permission a user's row in an organization has had
    excused,    \* history: keys whose entry the code knows no way to keep up to date
    strayed     \* history: keys whose permissions a query without its tenant found

db    == <<row, grants, writes, held>>
redis == <<memberKey, permKey, excused, strayed>>
vars  == <<row, grants, memberKey, permKey, req, writes, held, excused, strayed>>

Live == {i \in Ids : row[i] \notin {Unused, Gone}}
RowsOf(k) == {i \in Live : KeyOf[i] = k}

\* extractPermissions.
PermsOf(rw, g) == IF rw.role = None THEN {} ELSE g[rw.role]
Snapshot(i) == [id |-> i, status |-> row[i].status, perms |-> PermsOf(row[i], grants)]
NoSnap == [id |-> None, status |-> "invited", perms |-> {}]

HeldBy(k) == UNION {PermsOf(row[i], grants) : i \in RowsOf(k)}

Idle == [pc |-> "idle", guard |-> TRUE, members |-> FALSE, key |-> CHOOSE k \in Keys : TRUE,
         op |-> "other", id |-> None, snap |-> NoSnap, hit |-> FALSE, stray |-> FALSE]

Become(r, q) == req' = [req EXCEPT ![r] = q]
Goto(r, pc)  == Become(r, [req[r] EXCEPT !.pc = pc])
At(r, pc)    == req[r].pc = pc

Init ==
    /\ row \in [Ids -> {Unused} \cup [status : Statuses, role : Roles \cup {None}]]
    /\ \A i, j \in Live : KeyOf[i] = KeyOf[j] => i = j
    /\ grants \in [Roles -> SUBSET Perms]
    /\ memberKey = [k \in Keys |-> None]
    /\ permKey = [k \in Keys |-> {}]
    /\ req = [r \in Requests |-> Idle]
    /\ writes = 0
    /\ held = [k \in Keys |-> HeldBy(k)]
    /\ excused = {} /\ strayed = {}

-----------------------------------------------------------------------------
(* The guard and getMember.                                                *)

\* canActivate: a members route looks its user up first.  The guard asks no more of the
\* operation and its target; they are chosen when it lets the request pass.
Start(r, k, members) ==
    /\ At(r, "idle")
    /\ Become(r, [Idle EXCEPT !.key = k, !.members = members,
                              !.pc = IF members THEN "lookup" ELSE "check"])
    /\ UNCHANGED <<db, redis>>

\* A user with no row is refused; the status of the row is not asked for.
Lookup(r) ==
    /\ At(r, "lookup")
    /\ \/ RowsOf(req[r].key) = {} /\ Become(r, Idle)
       \/ \E i \in RowsOf(req[r].key) : Become(r, [req[r] EXCEPT !.pc = "find", !.id = i])
    /\ UNCHANGED <<db, redis>>

\* The organization of the request and the user of the row make the key.
CacheKey(r, i) == <<KeyOf[i][1], req[r].key[2]>>

\* A query that has its tenant finds rows of its organization, one that has lost it any
\* row; and were the filter forgotten.
ReachesAny(r, i, scoped) == i \in Live
Reaches(r, i, scoped) == i \in Live /\ (scoped => KeyOf[i][2] = req[r].key[2])
Strays(r, i, scoped) == ~scoped /\ KeyOf[i][2] # req[r].key[2]

Find(r) ==
    /\ At(r, "find")
    /\ \E scoped \in BOOLEAN :
          LET i == req[r].id IN
          IF Reaches(r, i, scoped)
          THEN Become(r, [req[r] EXCEPT !.pc = "getMember", !.snap = Snapshot(i),
                                        !.stray = Strays(r, i, scoped)])
          ELSE Become(r, Idle)
    /\ UNCHANGED <<db, redis>>

\* getCachedMember answers a failure with a miss.
GetMember(r) ==
    /\ At(r, "getMember")
    /\ \E hit \in {memberKey[CacheKey(r, req[r].id)] # None, FALSE} :
           Become(r, [req[r] EXCEPT !.pc = "getPerms", !.hit = hit])
    /\ UNCHANGED <<db, redis>>

\* getMember returns to the guard, or to the handler of GET /members/:id.
Return(r) ==
    IF req[r].guard
    THEN Become(r, [Idle EXCEPT !.pc = "check", !.key = req[r].key, !.members = TRUE])
    ELSE Become(r, Idle)

GetPerms(r) ==
    /\ At(r, "getPerms")
    /\ IF ~req[r].hit THEN Goto(r, "setMember")
       ELSE IF permKey[CacheKey(r, req[r].id)] = {} THEN Goto(r, "setPerms")
       ELSE Return(r)
    /\ UNCHANGED <<db, redis>>

\* cacheMember; a failure is logged.
SetMember(r) ==
    LET i == req[r].id
        k == CacheKey(r, i)
    IN
    /\ At(r, "setMember")
    /\ Goto(r, "setPerms")
    /\ \/ /\ memberKey' = [memberKey EXCEPT ![k] = req[r].snap]
          /\ excused' = IF i \in RowsOf(k) /\ req[r].snap = Snapshot(i) THEN excused \ {k}
                        ELSE excused \cup {k}
       \/ UNCHANGED <<memberKey, excused>>
    /\ UNCHANGED <<db, permKey, strayed>>

\* cachePermissions, of the row as the query found it.
SetPerms(r) ==
    LET k == CacheKey(r, req[r].id) IN
    /\ At(r, "setPerms")
    /\ permKey' = [permKey EXCEPT ![k] = req[r].snap.perms]
    /\ strayed' = IF req[r].stray THEN strayed \cup {k} ELSE strayed \ {k}
    /\ Return(r)
    /\ UNCHANGED <<db, memberKey, excused>>

Handler(op) ==
    CASE op = "read"   -> "find"
      [] op = "invite" -> "create"
      [] OTHER         -> "write"

\* hasPermissions.
Passes(r, op) == req[r].key[1] \in SystemAdmins \/ Needs[op] \in permKey[req[r].key]

Check(r, op, t) ==
    /\ At(r, "check")
    /\ Passes(r, op)
    /\ req[r].members <=> op \in MemberRoutes
    /\ IF op = "other" THEN Become(r, Idle)
       ELSE Become(r, [Idle EXCEPT !.op = op, !.key = req[r].key, !.pc = Handler(op),
                                   !.guard = FALSE, !.id = t])
    /\ UNCHANGED <<db, redis>>

-----------------------------------------------------------------------------
(* Writers.                                                                *)

\* A row id that may be given out: the index on user and organization allows one row.
Free(i) == row[i] = Unused /\ RowsOf(KeyOf[i]) = {}

CountWrite == writes < MaxWrites /\ writes' = writes + 1

\* A change of rows or roles, and what the users' rows have had with it.
Change(rows, g) ==
    /\ row' = rows
    /\ grants' = g
    /\ held' = [k \in Keys |-> held[k] \cup
           UNION {PermsOf(rows[i], g) : i \in {j \in Ids : rows[j] \notin {Unused, Gone} /\ KeyOf[j] = k}}]

\* updateMember and removeMember, the write itself.  Of a row of another organization the
\* code invalidates a key that is not the row's.
Write(r, rw, scoped) ==
    LET i == req[r].id IN
    /\ At(r, "write")
    /\ Reaches(r, i, scoped)
    /\ CountWrite
    /\ IF req[r].op = "remove" THEN rw = Gone ELSE \E s \in Statuses : rw = [row[i] EXCEPT !.status = s]
    /\ Change([row EXCEPT ![i] = rw], grants)
    /\ Goto(r, "invalidate")
    /\ excused' = IF Strays(r, i, scoped) THEN excused \cup {KeyOf[i]} ELSE excused
    /\ UNCHANGED <<memberKey, permKey, strayed>>

\* inviteMember: a row, and then its roles.
Create(r) ==
    LET i == req[r].id IN
    /\ At(r, "create")
    /\ CountWrite
    /\ Free(i) /\ KeyOf[i][2] = req[r].key[2]
    /\ Change([row EXCEPT ![i] = [status |-> "invited", role |-> None]], grants)
    /\ Goto(r, "assign")
    /\ UNCHANGED redis

Assign(r, o) ==
    LET i == req[r].id IN
    /\ At(r, "assign")
    /\ i \in Live
    /\ Change([row EXCEPT ![i].role = o], grants)
    /\ Goto(r, "invalidate")
    /\ UNCHANGED <<redis, writes>>

\* invalidateMemberCache of the key it is given; and of the user who asks.
InvalidatedRequester(r) == [memberKey EXCEPT ![req[r].key] = None]
Invalidated(r) == [memberKey EXCEPT ![CacheKey(r, req[r].id)] = None]

Invalidate(r) ==
    /\ At(r, "invalidate")
    /\ memberKey' = Invalidated(r)
    /\ excused' = excused \ {CacheKey(r, req[r].id)}
    /\ Become(r, Idle)
    /\ UNCHANGED <<db, permKey, strayed>>

\* A failure is logged and the operation succeeds.
InvalidateFails(r) ==
    /\ At(r, "invalidate")
    /\ excused' = excused \cup {CacheKey(r, req[r].id)}
    /\ Become(r, Idle)
    /\ UNCHANGED <<db, memberKey, permKey, strayed>>

\* Anything else that fails or refuses ends the request.
Fail(r) ==
    /\ req[r].pc \notin {"idle", "invalidate"}
    /\ Become(r, Idle)
    /\ UNCHANGED <<db, redis>>

\* The writers that invalidate nothing: acceptInvitation, declineInvitation, the
\* registration with an invitation, updateRolePermissions and deleteRole.
Uninvalidated(K) ==
    /\ CountWrite
    /\ excused' = excused \cup K
    /\ UNCHANGED <<memberKey, permKey, req, strayed>>

Accept(i) ==
    /\ i \in Live /\ row[i].status = "invited"
    /\ Change([row EXCEPT ![i].status = "active"], grants)
    /\ Uninvalidated({KeyOf[i]})

Decline(i) ==
    /\ i \in Live /\ row[i].status = "invited"
    /\ Change([row EXCEPT ![i] = Gone], grants)
    /\ Uninvalidated({KeyOf[i]})

Register(i, o) ==
    /\ Free(i)
    /\ Change([row EXCEPT ![i] = [status |-> "active", role |-> o]], grants)
    /\ Uninvalidated({KeyOf[i]})

EditRole(o, P) ==
    /\ P # grants[o]
    /\ Change(row, [grants EXCEPT ![o] = P])
    /\ Uninvalidated({KeyOf[i] : i \in {j \in Live : row[j].role = o}})

-----------------------------------------------------------------------------
(* Time.                                                                   *)

ExpireMember(k) ==
    /\ memberKey[k] # None
    /\ memberKey' = [memberKey EXCEPT ![k] = None]
    /\ excused' = excused \ {k}
    /\ UNCHANGED <<db, permKey, req, strayed>>

\* PERMISSION_TTL; and were the key stored without it.
LapsesNever(k) == FALSE
Lapses(k) == permKey[k] # {}

ExpirePerms(k) ==
    /\ Lapses(k)
    /\ permKey' = [permKey EXCEPT ![k] = {}]
    /\ strayed' = strayed \ {k}
    /\ UNCHANGED <<db, memberKey, excused, req>>

-----------------------------------------------------------------------------
Proceed(r) ==
    \/ Lookup(r) \/ Find(r) \/ GetMember(r) \/ GetPerms(r) \/ SetMember(r) \/ SetPerms(r)
    \/ \E op \in Operations, t \in Ids : Check(r, op, t)
    \/ Create(r) \/ Invalidate(r) \/ InvalidateFails(r) \/ Fail(r)
    \/ \E rw \in {Gone} \cup [status : Statuses, role : Roles \cup {None}], scoped \in BOOLEAN :
           Write(r, rw, scoped)
    \/ \E o \in Roles : Assign(r, o)

Next ==
    \/ \E r \in Requests :
           \/ \E k \in Callers, members \in BOOLEAN : Start(r, k, members)
           \/ Proceed(r)
    \/ \E i \in Ids : Accept(i) \/ Decline(i) \/ \E o \in Roles \cup {None} : Register(i, o)
    \/ \E o \in Roles, P \in SUBSET Perms : EditRole(o, P)
    \/ \E k \in Keys : ExpireMember(k) \/ ExpirePerms(k)

Spec == Init /\ [][Next]_vars

\* Every query and command is answered, and Redis lets a key expire in the end.
FairSpec ==
    /\ Spec
    /\ \A r \in Requests : WF_vars(Proceed(r))
    /\ \A k \in Keys : WF_vars(ExpirePerms(k))

-----------------------------------------------------------------------------
(* Properties.                                                             *)

Snapshots == [id : Ids, status : Statuses, perms : SUBSET Perms]
Pcs == {"idle", "lookup", "find", "getMember", "getPerms", "setMember", "setPerms", "check",
        "write", "create", "assign", "invalidate"}
ReqRecord == [pc : Pcs, guard : BOOLEAN, members : BOOLEAN, key : Keys, op : Operations,
              id : Ids \cup {None}, snap : Snapshots \cup {NoSnap}, hit : BOOLEAN,
              stray : BOOLEAN]

\* Rows, entries and requests are of their types, and a user has one row in an organization.
TypeOK ==
    /\ row \in [Ids -> {Unused, Gone} \cup [status : Statuses, role : Roles \cup {None}]]
    /\ \A i, j \in Live : KeyOf[i] = KeyOf[j] => i = j
    /\ grants \in [Roles -> SUBSET Perms]
    /\ memberKey \in [Keys -> Snapshots \cup {None}]
    /\ permKey \in [Keys -> SUBSET Perms]
    /\ req \in [Requests -> ReqRecord]
    /\ writes \in 0..MaxWrites
    /\ held \in [Keys -> SUBSET Perms]
    /\ excused \in SUBSET Keys /\ strayed \in SUBSET Keys

\* The guard never decides from permissions that the user's own row in that organization has
\* not had, nor ever from a colleague's.  An entry that a query found without its tenant may
\* hold what the user has had in another organization, and no more than that.
GrantedWasHeld ==
    \A k \in Keys :
        permKey[k] \subseteq IF k \in strayed THEN UNION {held[<<k[1], o>>] : o \in Orgs}
                           ELSE held[k]

\* Between a write of a row and its invalidation the cached member may be old.  After that
\* it is the row of the database, except where the code leaves it: a failed invalidation, a
\* writer that does not invalidate, a reader that stores the row it found before the write,
\* and a reader or a writer that reaches another organization's row without its tenant.
Coherent(k) == memberKey[k] # None => \E i \in RowsOf(k) : memberKey[k] = Snapshot(i)
Pending(k) == \E r \in Requests : At(r, "invalidate") /\ CacheKey(r, req[r].id) = k
QuietMemberCoherent == \A k \in Keys \ excused : Coherent(k) \/ Pending(k)

\* Nothing invalidates permissions, but a permission that is lost for good is in the end
\* not granted any more, however many requests keep reading, if queries that lost their
\* tenant do not keep bringing it from another organization.
RevocationReaches ==
    \A k \in Keys, p \in Perms :
        <>[](p \notin HeldBy(k) /\ k \notin strayed) => <>[](p \notin permKey[k])
=============================================================================
