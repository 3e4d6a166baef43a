------------------------------- MODULE Tenancy -------------------------------
(***************************************************************************)
(* TenantContext, its middleware and the tenant-aware repositories         *)
(* (src/src/shared/), driven by the requests of MemberController and       *)
(* OrganizationsController.                                                *)
(*                                                                         *)
(* enterWith stores the tenant in the asynchronous context of one request  *)
(* and of everything it awaits: store[r].  clear puts a new                *)
(* AsyncLocalStorage in the place of the static one, so that no request    *)
(* in flight finds anything in it any more.                                *)
(*                                                                         *)
(* Every row is an active member with the admin role.  A step is a query;  *)
(* its filter is built from the context at that moment.                    *)
(***************************************************************************)
EXTENDS Naturals, FiniteSets

CONSTANTS Orgs,
          None,         \* undefined: no organization, no row
          Unused,       \* a row id that the sequence has not given out yet
          Garbage,      \* an X-Organization-Id that is not a number
          Members,      \* the ids of member rows
          Requests,
          Operations,   \* the operations clients call
          Serial        \* one request at a time

OperationNames == {"get", "list", "update", "remove", "invite", "organization"}

ASSUME TenancyAssumption ==
    /\ Orgs \cap {None, Unused, Garbage} = {}
    /\ Unused # None /\ Garbage # None /\ None \notin Members
    /\ IsFiniteSet(Members)
    /\ Operations \subseteq OperationNames
    /\ Serial \in BOOLEAN

VARIABLES
    row,      \* organization_members: the organization of a row; None: deleted
    store,    \* what the static storage holds for a request; None: undefined
    req,      \* the requests in flight
    touched   \* history: the organizations whose rows a request read or wrote

vars == <<row, store, req, touched>>

Headers == Orgs \cup {None, Garbage}

Idle == [op |-> "none", pc |-> "idle", header |-> None, org |-> None, id |-> None, admins |-> 0]

InFlight(r) == req[r].pc # "idle"
Become(r, q) == req' = [req EXCEPT ![r] = q]
Goto(r, pc)  == Become(r, [req[r] EXCEPT !.pc = pc])

RowsOf(o) == {m \in Members : row[m] = o}

Init ==
    /\ row \in [Members -> Orgs \cup {Unused}]
    /\ \A o \in Orgs : RowsOf(o) # {}
    /\ store = [r \in Requests |-> None]
    /\ req = [r \in Requests |-> Idle]
    /\ touched = [r \in Requests |-> {}]

\* getCurrentTenantId; and were the storage one static field.
CurrentTenantShared(r) ==
    IF \E s \in Requests : store[s] # None THEN store[CHOOSE s \in Requests : store[s] # None]
    ELSE None
CurrentTenant(r) == store[r]

\* clear.
Cleared == [r \in Requests |-> None]

\* The rows a query finds: applyTenantContext sets organizationId to the current tenant,
\* and Prisma drops a filter that is undefined, the one the caller wrote included.
Visible(r) ==
    {m \in Members : row[m] \in Orgs /\ (CurrentTenant(r) # None => row[m] = CurrentTenant(r))}

Touch(r, S) == touched' = [touched EXCEPT ![r] = @ \cup {row[m] : m \in S}]

-----------------------------------------------------------------------------
(* The middleware, the decorator and the end of the response.              *)

\* use: a number is entered, no header clears the storage, garbage does neither; and without
\* the isNaN test.
EnteredUnchecked(r, h) == IF h = None THEN Cleared ELSE [store EXCEPT ![r] = h]
Entered(r, h) ==
    CASE h \in Orgs  -> [store EXCEPT ![r] = h]
      [] h = None    -> Cleared
      [] h = Garbage -> store

Enter(r, op, h, i) ==
    /\ ~InFlight(r)
    /\ op \in Operations
    /\ i = None <=> op \in {"list", "invite", "organization"}
    /\ Serial => \A s \in Requests : ~InFlight(s)
    /\ Become(r, [Idle EXCEPT !.op = op, !.pc = "guards", !.header = h, !.id = i])
    /\ store' = Entered(r, h)
    /\ touched' = [touched EXCEPT ![r] = {}]
    /\ UNCHANGED row

FirstQuery(op) ==
    CASE op \in {"get", "update", "remove"} -> "find"
      [] op = "list" -> "list"
      [] OTHER -> "exists"

\* After the guards the decorator @OrganizationId() takes the tenant from the context and
\* refuses the request without one; OrganizationsController takes an id from the path.
Begin(r) ==
    /\ req[r].pc = "guards"
    /\ LET t == CurrentTenant(r) IN
       IF req[r].op = "organization" THEN Goto(r, "organization")
       ELSE IF t = None THEN Goto(r, "respond")
       ELSE Become(r, [req[r] EXCEPT !.pc = FirstQuery(req[r].op), !.org = t])
    /\ UNCHANGED <<row, store, touched>>

Leave(r) == Become(r, Idle) /\ UNCHANGED <<row, touched>>

\* The response is sent: "finish" clears the storage.
Finish(r) ==
    /\ req[r].pc = "respond"
    /\ store' = Cleared
    /\ Leave(r)

\* The client has gone: there is no "finish" and the context ends with the request.
Close(r) ==
    /\ req[r].pc = "respond"
    /\ store' = [store EXCEPT ![r] = None]
    /\ Leave(r)

-----------------------------------------------------------------------------
(* The queries.                                                            *)

\* findById: the row is what getMember answers with, and what update and remove go on with.
Find(r) ==
    /\ req[r].pc = "find"
    /\ LET S == Visible(r) \cap {req[r].id} IN
       /\ Touch(r, S)
       /\ Goto(r, CASE S = {} \/ req[r].op = "get" -> "respond"
                    [] req[r].op = "update" -> "update"
                    [] OTHER -> "countAdmins")
    /\ UNCHANGED <<row, store>>

\* findByOrganization.
List(r) ==
    /\ req[r].pc = "list"
    /\ Touch(r, Visible(r))
    /\ Goto(r, "respond")
    /\ UNCHANGED <<row, store>>

\* update, by id; a row that is gone makes it fail.
Update(r) ==
    /\ req[r].pc = "update"
    /\ Touch(r, Visible(r) \cap {req[r].id})
    /\ Goto(r, "respond")
    /\ UNCHANGED <<row, store>>

\* isLastAdmin: findAdmins, then findById once more.
CountAdmins(r) ==
    /\ req[r].pc = "countAdmins"
    /\ Touch(r, Visible(r))
    /\ Become(r, [req[r] EXCEPT !.pc = "checkAdmin", !.admins = Cardinality(Visible(r))])
    /\ UNCHANGED <<row, store>>

\* One admin is the last; and none.
IsLastAdminLate(r) == req[r].id \in Visible(r) /\ req[r].admins = 0
IsLastAdmin(r) == req[r].id \in Visible(r) /\ req[r].admins = 1

CheckAdmin(r) ==
    /\ req[r].pc = "checkAdmin"
    /\ Touch(r, Visible(r) \cap {req[r].id})
    /\ Goto(r, IF IsLastAdmin(r) THEN "respond" ELSE "delete")
    /\ UNCHANGED <<row, store>>

Delete(r) ==
    /\ req[r].pc = "delete"
    /\ LET S == Visible(r) \cap {req[r].id} IN
       /\ Touch(r, S)
       /\ row' = [m \in Members |-> IF m \in S THEN None ELSE row[m]]
    /\ Goto(r, "respond")
    /\ UNCHANGED store

\* inviteMember: exists counts the rows with the address that the filter lets through.
Exists(r, S) ==
    /\ req[r].pc = "exists"
    /\ S \subseteq Visible(r)
    /\ Touch(r, S)
    /\ Goto(r, IF S = {} THEN "create" ELSE "respond")
    /\ UNCHANGED <<row, store>>

\* create names the organization itself; it is not taken from the context again.
Create(r, m) ==
    /\ req[r].pc = "create"
    /\ row[m] = Unused
    /\ row' = [row EXCEPT ![m] = req[r].org]
    /\ touched' = [touched EXCEPT ![r] = @ \cup {req[r].org}]
    /\ Goto(r, "respond")
    /\ UNCHANGED store

\* OrganizationRepository is tenant-aware though organizations have no organizationId:
\* with a tenant Prisma refuses the query, without one it finds the organization.
FindOrganization(r, o) ==
    /\ req[r].pc = "organization"
    /\ IF CurrentTenant(r) # None THEN UNCHANGED touched
       ELSE touched' = [touched EXCEPT ![r] = @ \cup {o}]
    /\ Goto(r, "respond")
    /\ UNCHANGED <<row, store>>

\* A query that fails is answered with an error.
QueryFails(r) ==
    /\ req[r].pc \notin {"idle", "guards", "respond"}
    /\ Goto(r, "respond")
    /\ UNCHANGED <<row, store, touched>>

-----------------------------------------------------------------------------
Next ==
    \E r \in Requests :
        \/ \E op \in Operations, h \in Headers, i \in Members \cup {None} : Enter(r, op, h, i)
        \/ Begin(r) \/ Finish(r) \/ Close(r)
        \/ Find(r) \/ List(r) \/ Update(r)
        \/ CountAdmins(r) \/ CheckAdmin(r) \/ Delete(r)
        \/ \E S \in SUBSET Members : Exists(r, S)
        \/ \E m \in Members : Create(r, m)
        \/ QueryFails(r)
        \/ \E o \in Orgs : FindOrganization(r, o)

Spec == Init /\ [][Next]_vars

-----------------------------------------------------------------------------
(* Properties.                                                             *)

Pcs == {"idle", "guards", "respond", "find", "list", "update", "countAdmins", "checkAdmin",
        "delete", "exists", "create", "organization"}
ReqRecord == [op : OperationNames \cup {"none"}, pc : Pcs, header : Headers,
              org : Orgs \cup {None}, id : Members \cup {None}, admins : Nat]

\* Rows, contexts and requests are of their types; in particular no garbage header ever
\* becomes a context.
TypeOK ==
    /\ row \in [Members -> Orgs \cup {None, Unused}]
    /\ store \in [Requests -> Orgs \cup {None}]
    /\ req \in [Requests -> ReqRecord]
    /\ touched \in [Requests -> SUBSET Orgs]

\* A request that names an organization reads and writes rows of that organization only.
TouchesOwn ==
    \A r \in Requests : InFlight(r) /\ req[r].header \in Orgs => touched[r] \subseteq {req[r].header}

\* The one way to leave one's organization is to lose the context: while a request still
\* has a tenant it is the one of its header and every row it touched was that tenant's.
OwnUntilCleared ==
    \A r \in Requests : store[r] # None =>
        InFlight(r) /\ store[r] = req[r].header /\ touched[r] \subseteq {store[r]}

\* Whatever becomes of the context later, a row is created in the organization of the
\* request's header.
CreatesInOwn ==
    [][\A m \in Members : row[m] = Unused /\ row'[m] \in Orgs =>
        \E r \in Requests : req'[r] # req[r] /\ req[r].header = row'[m]]_vars

\* A removal that has kept its context, and whose count of admins still holds when it
\* deletes a row, leaves its organization with an admin.
ScopedRemovalLeavesAdmin ==
    [][\A r \in Requests :
        /\ req[r].pc = "delete" /\ req'[r] # req[r] /\ row' # row
        /\ store[r] # None
        /\ Cardinality(RowsOf(store[r])) = req[r].admins
        => \E m \in Members : row'[m] = store[r]]_vars
=============================================================================
