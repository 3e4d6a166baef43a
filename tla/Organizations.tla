--------------------------- MODULE Organizations ---------------------------
(***************************************************************************)
(* Organizations and their roles (src/src/modules/organizations and        *)
(* modules/admin/organizations): creating, changing and deleting them, and *)
(* assigning roles to members by name, each query a step.                  *)
(*                                                                         *)
(* Members come and go as Membership has it, each once.  Slugs, texts and  *)
(* the permissions of a role are left out: a slug that is taken or a       *)
(* permission that does not exist is a request that fails.                 *)
(***************************************************************************)
EXTENDS Naturals, FiniteSets

CONSTANTS Orgs, Users, Roles, Requests,
          Base,                    \* the system role org_admin
          NoOrg, NoUser

OrganizationsAssumption == NoOrg \notin Orgs

VARIABLES org,        \* organizations: "free", "live" or "gone"
          role,       \* roles of organizations: [org, name]; NoOrg: not yet, or deleted
          used,       \* the ids of roles given out
          member,     \* organization_members: "no", "in" or "out"
          assigned,   \* member_roles
          logged,     \* members with member_activities
          req
vars == <<org, role, used, member, assigned, logged, req>>

Names == {"org_admin", "editor"}
Everyone == Orgs \X Users
OrganizationRow(s) == s
RoleRow(o, n) == [org |-> o, name |-> n]
MemberRole(m, q) == <<m[1], m[2], q>>
Idle == [op |-> "idle", pc |-> "idle", org |-> NoOrg, user |-> NoUser, role |-> Base,
         name |-> "editor", found |-> {}]

Init ==
  /\ org = [o \in Orgs |-> OrganizationRow("free")]
  /\ role = [q \in Roles |-> RoleRow(NoOrg, "editor")] /\ used = {}
  /\ member = [m \in Everyone |-> "no"] /\ assigned = {} /\ logged = {}
  /\ req = [r \in Requests |-> Idle]

At(r, ops, pc) == req[r].op \in ops /\ req[r].pc = pc
Become(r, q) == req' = [req EXCEPT ![r] = q]
Goto(r, pc) == Become(r, [req[r] EXCEPT !.pc = pc])
Finish(r) == Become(r, Idle)
Quiet == UNCHANGED <<org, role, used, member, assigned, logged>>
Begin(r, q, pc) == req[r] = Idle /\ Become(r, [q EXCEPT !.pc = pc]) /\ Quiet
Live(o) == o # NoOrg /\ org[o] = "live"
RolesOf(o) == {q \in Roles : role[q].org = o}
NameOf(q) == IF q = Base THEN "org_admin" ELSE role[q].name

----------------------------------------------------------------------------
(* OrganizationsController and AdminOrganizationController. *)
HttpCreate(r, u) == Begin(r, [Idle EXCEPT !.op = "create", !.user = u], "findRole")
HttpUpdate(r, u, o) == Begin(r, [Idle EXCEPT !.op = "update", !.user = u, !.org = o], "verify")
HttpRemove(r, u, o) == Begin(r, [Idle EXCEPT !.op = "remove", !.user = u, !.org = o], "verify")
AdminCreate(r) == Begin(r, [Idle EXCEPT !.op = "adminCreate"], "findSlug")
AdminUpdate(r, o) == Begin(r, [Idle EXCEPT !.op = "update", !.org = o], "findOrg")
AdminDelete(r, o) == Begin(r, [Idle EXCEPT !.op = "remove", !.org = o], "findOrg")

FindOrgAdmin(r) == At(r, {"create"}, "findRole") /\ Goto(r, "write") /\ Quiet
FindBySlug(r) == At(r, {"adminCreate"}, "findSlug") /\ Goto(r, "write") /\ Quiet
CreateWithAdmin(r, o) ==   \* one transaction
  /\ At(r, {"create"}, "write") /\ org[o] = "free"
  /\ org' = [org EXCEPT ![o] = "live"]
  /\ member' = [member EXCEPT ![<<o, req[r].user>>] = "in"]
  /\ assigned' = assigned \cup {MemberRole(<<o, req[r].user>>, Base)}
  /\ Finish(r) /\ UNCHANGED <<role, used, logged>>
CreateOrganization(r, o) ==   \* by an administrator: with no member
  /\ At(r, {"adminCreate"}, "write") /\ org[o] = "free"
  /\ org' = [org EXCEPT ![o] = "live"]
  /\ Finish(r) /\ UNCHANGED <<role, used, member, assigned, logged>>
VerifyUserIsAdmin(r) ==   \* by the role's name: one of the organization's own will do
  /\ At(r, {"update", "remove"}, "verify")
  /\ IF \E q \in Roles \cup {Base} : /\ <<req[r].org, req[r].user, q>> \in assigned
                                     /\ NameOf(q) = "org_admin"
     THEN Goto(r, "write") ELSE Finish(r)
  /\ Quiet
FindOrganization(r) ==   \* of the administrator's request, or createRole's
  /\ req[r].pc = "findOrg"
  /\ IF Live(req[r].org) THEN Goto(r, IF req[r].op = "createRole" THEN "findName" ELSE "write")
     ELSE Finish(r)
  /\ Quiet
UpdateOrganization(r) == At(r, {"update"}, "write") /\ Finish(r) /\ Quiet
DeleteOrganization(r) ==   \* cascades, but activities hold on to their members
  /\ At(r, {"remove"}, "write")
  /\ LET o == req[r].org IN
     IF Live(o) /\ {m \in logged : m[1] = o} = {}
     THEN /\ org' = [org EXCEPT ![o] = "gone"]
          /\ role' = [q \in Roles |-> IF role[q].org = o THEN RoleRow(NoOrg, "editor") ELSE role[q]]
          /\ member' = [m \in Everyone |-> IF m[1] = o THEN "out" ELSE member[m]]
          /\ assigned' = {a \in assigned : a[1] # o}
     ELSE UNCHANGED <<org, role, member, assigned>>
  /\ Finish(r) /\ UNCHANGED <<used, logged>>

----------------------------------------------------------------------------
(* RoleController. *)
HttpCreateRole(r, o, n) ==
  Begin(r, [Idle EXCEPT !.op = "createRole", !.org = o, !.name = n], "findOrg")
HttpUpdateRolePermissions(r, o, q) ==
  Begin(r, [Idle EXCEPT !.op = "grant", !.org = o, !.role = q], "getRole")
HttpDeleteRole(r, o, q) ==
  Begin(r, [Idle EXCEPT !.op = "deleteRole", !.org = o, !.role = q], "getRole")

Taken(o, n) == \E q \in RolesOf(o) : role[q].name = n
FindName(r) ==
  /\ At(r, {"createRole"}, "findName")
  /\ (IF Taken(req[r].org, req[r].name) THEN Finish(r) ELSE Goto(r, "write")) /\ Quiet
InsertRole(r, q) ==   \* unique on name and organization
  /\ At(r, {"createRole"}, "write") /\ q \notin used
  /\ LET o == req[r].org  n == req[r].name IN
     IF Live(o) /\ ~Taken(o, n)
     THEN role' = [role EXCEPT ![q] = RoleRow(o, n)] /\ used' = used \cup {q}
     ELSE UNCHANGED <<role, used>>
  /\ Finish(r) /\ UNCHANGED <<org, member, assigned, logged>>
GetRole(r) ==   \* never a system role, which has no organization
  /\ At(r, {"grant", "deleteRole"}, "getRole")
  /\ (IF req[r].role \in RolesOf(req[r].org) THEN Goto(r, "write") ELSE Finish(r)) /\ Quiet
UpdateRolePermissions(r) == At(r, {"grant"}, "write") /\ Finish(r) /\ Quiet
DeleteRole(r) ==
  /\ At(r, {"deleteRole"}, "write")
  /\ role' = [role EXCEPT ![req[r].role] = RoleRow(NoOrg, "editor")]
  /\ assigned' = {a \in assigned : a[3] # req[r].role}
  /\ Finish(r) /\ UNCHANGED <<org, used, member, logged>>

----------------------------------------------------------------------------
(* MemberRoleRepository.assignRolesByNames, of an invitation or an update. *)
AssignRoles(r, o, u, n) ==
  /\ member[<<o, u>>] = "in"
  /\ Begin(r, [Idle EXCEPT !.op = "assign", !.org = o, !.user = u, !.name = n], "findRoles")
\* The organization's roles and the system's of that name; and everybody's.
OfNameAnywhere(o, n) == {q \in Roles \cup {Base} : NameOf(q) = n /\ (q = Base \/ role[q].org # NoOrg)}
OfName(o, n) == {q \in RolesOf(o) \cup {Base} : NameOf(q) = n}
FindRoles(r) ==
  /\ At(r, {"assign"}, "findRoles")
  /\ LET found == OfName(req[r].org, req[r].name) IN
     IF found = {} THEN Finish(r) ELSE Become(r, [req[r] EXCEPT !.pc = "clear", !.found = found])
  /\ Quiet
ClearRoles(r) ==
  /\ At(r, {"assign"}, "clear")
  /\ assigned' = {a \in assigned : ~(a[1] = req[r].org /\ a[2] = req[r].user)}
  /\ Goto(r, "assign") /\ UNCHANGED <<org, role, used, member, logged>>
CreateMemberRoles(r) ==   \* one statement: the member and every role must still be there
  /\ At(r, {"assign"}, "assign")
  /\ LET m == <<req[r].org, req[r].user>> IN
     IF member[m] = "in" /\ \A q \in req[r].found : q = Base \/ role[q].org # NoOrg
     THEN assigned' = assigned \cup {MemberRole(m, q) : q \in req[r].found}
     ELSE UNCHANGED assigned
  /\ Goto(r, "log") /\ UNCHANGED <<org, role, used, member, logged>>
LogActivity(r) ==   \* with the member, or not at all
  /\ At(r, {"assign"}, "log")
  /\ LET m == <<req[r].org, req[r].user>> IN
     logged' = IF member[m] = "in" THEN logged \cup {m} ELSE logged
  /\ Finish(r) /\ UNCHANGED <<org, role, used, member, assigned>>

Joins(o, u) ==
  /\ Live(o) /\ member[<<o, u>>] = "no"
  /\ member' = [member EXCEPT ![<<o, u>>] = "in"]
  /\ UNCHANGED <<org, role, used, assigned, logged, req>>
Leaves(o, u) ==
  /\ member[<<o, u>>] = "in" /\ <<o, u>> \notin logged
  /\ member' = [member EXCEPT ![<<o, u>>] = "out"]
  /\ assigned' = {a \in assigned : ~(a[1] = o /\ a[2] = u)}
  /\ UNCHANGED <<org, role, used, logged, req>>
Fail(r) == req[r] # Idle /\ Finish(r) /\ Quiet

Step(r) ==
  \/ FindOrgAdmin(r) \/ FindBySlug(r) \/ VerifyUserIsAdmin(r) \/ FindOrganization(r)
  \/ \E o \in Orgs : CreateWithAdmin(r, o) \/ CreateOrganization(r, o)
  \/ UpdateOrganization(r) \/ DeleteOrganization(r)
  \/ FindName(r) \/ (\E q \in Roles : InsertRole(r, q))
  \/ GetRole(r) \/ UpdateRolePermissions(r) \/ DeleteRole(r)
  \/ FindRoles(r) \/ ClearRoles(r) \/ CreateMemberRoles(r) \/ LogActivity(r) \/ Fail(r)
Arrive(r) ==
  \/ AdminCreate(r) \/ \E u \in Users : HttpCreate(r, u)
  \/ \E o \in Orgs :
       \/ AdminUpdate(r, o) \/ AdminDelete(r, o)
       \/ \E u \in Users : HttpUpdate(r, u, o) \/ HttpRemove(r, u, o)
       \/ \E n \in Names : HttpCreateRole(r, o, n) \/ \E u \in Users : AssignRoles(r, o, u, n)
       \/ \E q \in Roles : HttpUpdateRolePermissions(r, o, q) \/ HttpDeleteRole(r, o, q)
Next == \/ \E r \in Requests : Arrive(r) \/ Step(r)
        \/ \E o \in Orgs, u \in Users : Joins(o, u) \/ Leaves(o, u)
Spec == Init /\ [][Next]_vars

----------------------------------------------------------------------------
Operations == {"idle", "create", "adminCreate", "update", "remove", "createRole", "grant",
               "deleteRole", "assign"}
Points == {"idle", "findRole", "findSlug", "verify", "findOrg", "write", "findName", "getRole",
           "findRoles", "clear", "assign", "log"}
Records == [op: Operations, pc: Points, org: Orgs \cup {NoOrg}, user: Users \cup {NoUser},
            role: Roles \cup {Base}, name: Names, found: SUBSET (Roles \cup {Base})]
TypeOK ==
  /\ org \in [Orgs -> {"free", "live", "gone"}] /\ used \subseteq Roles
  /\ role \in [Roles -> [org: Orgs \cup {NoOrg}, name: Names]]
  /\ member \in [Everyone -> {"no", "in", "out"}] /\ logged \subseteq Everyone
  /\ assigned \subseteq Orgs \X Users \X (Roles \cup {Base})
  /\ req \in [Requests -> Records]

\* A member holds roles of its own organization and of the system only, each of them
\* still there, however deletions of roles, members and organizations overlap with an
\* assignment that has looked its roles up (member-role.repository.ts 28-65).
OwnRoles ==
  \A a \in assigned : /\ member[<<a[1], a[2]>>] = "in" /\ Live(a[1])
                      /\ a[3] = Base \/ role[a[3]].org = a[1]

\* Why: a member belongs to an organization that is there (Seated), the id of a role is
\* given out once (Spent), so each role an assignment has found is still its
\* organization's or nobody's (Holds), and the insertion refuses the latter.
Seated == \A o \in Orgs, u \in Users : member[<<o, u>>] = "in" => Live(o)
Spent == \A q \in Roles : role[q].org # NoOrg => q \in used
Possible(q, o) == q = Base \/ (q \in used /\ role[q].org \in {o, NoOrg})
Holds(x) == /\ x.op = "create" => x.user \in Users
            /\ x.op = "assign" => /\ x.org \in Orgs /\ x.user \in Users
                                  /\ \A q \in x.found : Possible(q, x.org)
Inv == TypeOK /\ OwnRoles /\ Seated /\ Spent /\ \A r \in Requests : Holds(req[r])
=============================================================================
