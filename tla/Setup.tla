------------------------------- MODULE Setup -------------------------------
(***************************************************************************)
(* The first administrator and the system roles: setup tokens and the      *)
(* transaction that uses one (src/src/modules/system/setup), the roles     *)
(* SYSTEM_ADMIN and SYSTEM_AUDITOR and their holders (modules/admin/       *)
(* system-roles).  Requests come over HTTP or from the CLI, and each query *)
(* is a step.                                                              *)
(*                                                                         *)
(* The administrator being made is a user whose e-mail address stands for  *)
(* the row; names, passwords and the audit rows are left out, and so is    *)
(* the request counter per address, which only refuses.  A system role is  *)
(* known by its name, which is unique, where the routes take its id.       *)
(***************************************************************************)
EXTENDS Naturals, FiniteSets

CONSTANTS SetupTokens, Users, Requests, AnyToken, AnyUser

RoleNames == {"SYSTEM_ADMIN", "SYSTEM_AUDITOR"}

VARIABLES token,      \* setup_tokens.isUsed: "none", "new" or "used"
          expired,    \* tokens past their 24 hours
          people,     \* users rows
          roles,      \* system_roles rows, by name
          holders,    \* the users connected to each role
          req,
          uses,       \* history: completions with each token (2: or more)
          setups,     \* history: completions since SYSTEM_ADMIN was last deleted (2: or more)
          reopened    \* history: tokens that had passed the check when the role was deleted
tokenRows == <<token, expired>>
past == <<uses, setups, reopened>>
vars == <<token, expired, people, roles, holders, req, uses, setups, reopened>>

Idle == [op |-> "idle", pc |-> "idle", token |-> AnyToken, user |-> AnyUser,
         role |-> "SYSTEM_ADMIN"]

Init ==
  /\ token = [t \in SetupTokens |-> "none"] /\ expired = {}
  /\ people = {} /\ roles = {} /\ holders = [n \in RoleNames |-> {}]
  /\ req = [r \in Requests |-> Idle]
  /\ uses = [t \in SetupTokens |-> 0] /\ setups = 0 /\ reopened = {}

At(r, op, pc) == req[r].op = op /\ req[r].pc = pc
Goto(r, pc) == req' = [req EXCEPT ![r].pc = pc]
Finish(r) == req' = [req EXCEPT ![r] = Idle]
Begin(r, op, pc, t, u, n) ==
  /\ req[r] = Idle
  /\ req' = [req EXCEPT ![r] = [op |-> op, pc |-> pc, token |-> t, user |-> u, role |-> n]]
Quiet == UNCHANGED <<token, expired, people, roles, holders, uses, setups, reopened>>
More(n) == IF n = 0 THEN 1 ELSE 2

----------------------------------------------------------------------------
(* Where setup requests come in, and what they pass on the way. *)
IsSetupRequired == "SYSTEM_ADMIN" \notin roles
Usable(t) == token[t] = "new" /\ t \notin expired

HttpGenerate(r) == Begin(r, "generate", "guard", AnyToken, AnyUser, "SYSTEM_ADMIN") /\ Quiet
HttpComplete(r, t, u) == Begin(r, "complete", "guard", t, u, "SYSTEM_ADMIN") /\ Quiet
CliGenerate(r) == Begin(r, "generate", "create", AnyToken, AnyUser, "SYSTEM_ADMIN") /\ Quiet
CliComplete(r, t, u) == Begin(r, "complete", "validate", t, u, "SYSTEM_ADMIN") /\ Quiet

\* SetupSecurityGuard; the header with a token is optional.
Guard(r) ==
  /\ req[r].pc = "guard"
  /\ IF IsSetupRequired
     THEN \/ Goto(r, "controller")
          \/ req[r].op = "complete" /\ Goto(r, "header")
     ELSE Finish(r)
  /\ Quiet
ValidateToken(r) ==   \* of the header, or in the command before the prompts
  /\ req[r].pc \in {"header", "validate"}
  /\ IF Usable(req[r].token)
     THEN Goto(r, IF req[r].pc = "header" THEN "controller" ELSE "find") ELSE Finish(r)
  /\ Quiet
Controller(r) ==
  /\ req[r].pc = "controller"
  /\ IF IsSetupRequired
     THEN Goto(r, IF req[r].op = "generate" THEN "create" ELSE "find") ELSE Finish(r)
  /\ Quiet
\* The guard refuses an address or an origin, a pipe the data, or a query fails.
Refuse(r) == req[r] # Idle /\ Finish(r) /\ Quiet

CreateToken(r) ==
  /\ At(r, "generate", "create")
  /\ \E t \in SetupTokens :
       token[t] = "none" /\ token' = [token EXCEPT ![t] = "new"]
  /\ Finish(r) /\ UNCHANGED <<expired, people, roles, holders, past>>
Expire(t) ==
  /\ token[t] # "none" /\ t \notin expired /\ expired' = expired \cup {t}
  /\ UNCHANGED <<token, people, roles, holders, req, past>>

----------------------------------------------------------------------------
(* completeSetup: the token is checked, the attempt recorded, and then one  *)
(* transaction inserts the user and the role and marks the token.           *)
FindToken(r) ==
  /\ At(r, "complete", "find")
  /\ IF Usable(req[r].token) THEN Goto(r, "attempt") ELSE Finish(r)
  /\ Quiet
RecordAttempt(r) ==
  /\ At(r, "complete", "attempt") /\ Goto(r, "commit") /\ Quiet

\* The two unique indexes the inserts meet; and the role name without its index.
InsertableAnyRole(u) == u \notin people
Insertable(u) == u \notin people /\ "SYSTEM_ADMIN" \notin roles
MarkAsUsed(t) == [token EXCEPT ![t] = "used"]
CompleteSetup(r) ==
  /\ At(r, "complete", "commit")
  /\ LET t == req[r].token  u == req[r].user IN
     IF Insertable(u)
     THEN /\ people' = people \cup {u}
          /\ roles' = roles \cup {"SYSTEM_ADMIN"}
          /\ holders' = [holders EXCEPT !["SYSTEM_ADMIN"] = @ \cup {u}]
          /\ token' = MarkAsUsed(t)
          /\ uses' = [uses EXCEPT ![t] = More(@)] /\ setups' = More(setups)
          /\ UNCHANGED <<expired, reopened>>
     ELSE Quiet
  /\ Finish(r)

----------------------------------------------------------------------------
(* System roles.  A handler asks for SYSTEM_ADMIN, or for the role it names *)
(* (reading only asks for SYSTEM_AUDITOR and changes nothing).              *)
HasRole(u, n) == n \in roles /\ u \in holders[n]
ManageRole(r, actor, op, u, n) ==
  /\ HasRole(actor, "SYSTEM_ADMIN")
  /\ Begin(r, op, "find", AnyToken, u, n) /\ Quiet
HttpCreateRole(r, actor, n) == ManageRole(r, actor, "create", AnyUser, n)
HttpDeleteRole(r, actor, n) == ManageRole(r, actor, "delete", AnyUser, n)
HttpAssign(r, actor, u, n) == ManageRole(r, actor, "assign", u, n)
HttpRemove(r, actor, u, n) == ManageRole(r, actor, "remove", u, n)
FindRole(r) ==   \* createRole wants it absent, the others present
  /\ req[r].pc = "find" /\ req[r].op \in {"create", "assign", "remove", "delete"}
  /\ IF (req[r].op = "create") = (req[r].role \notin roles)
     THEN Goto(r, "write") ELSE Finish(r)
  /\ Quiet

CreateRole(r) ==
  /\ At(r, "create", "write")
  /\ roles' = roles \cup {req[r].role}   \* a second row of the name is refused
  /\ Finish(r) /\ UNCHANGED <<tokenRows, people, holders, past>>
AssignToUser(r) ==
  /\ At(r, "assign", "write")
  /\ LET n == req[r].role  u == req[r].user IN
     holders' = IF n \in roles /\ u \in people
                THEN [holders EXCEPT ![n] = @ \cup {u}] ELSE holders
  /\ Finish(r) /\ UNCHANGED <<tokenRows, people, roles, past>>
RemoveFromUser(r) ==
  /\ At(r, "remove", "write")
  /\ holders' = [holders EXCEPT ![req[r].role] = @ \ {req[r].user}]
  /\ Finish(r) /\ UNCHANGED <<tokenRows, people, roles, past>>
\* Requests that are past the token check.
Attempting == {r \in Requests : req[r].op = "complete" /\ req[r].pc \in {"attempt", "commit"}}
DeleteRole(r) ==
  /\ At(r, "delete", "write")
  /\ roles' = roles \ {req[r].role}
  /\ holders' = [holders EXCEPT ![req[r].role] = {}]
  /\ IF req[r].role = "SYSTEM_ADMIN" /\ "SYSTEM_ADMIN" \in roles
     THEN setups' = 0 /\ reopened' = reopened \cup {req[a].token : a \in Attempting}
     ELSE UNCHANGED <<setups, reopened>>
  /\ Finish(r) /\ UNCHANGED <<tokenRows, people, uses>>
\* Other users come and go with the rest of the system.
Register(u) ==
  /\ u \notin people /\ people' = people \cup {u}
  /\ UNCHANGED <<tokenRows, roles, holders, req, past>>
\* onDelete('CASCADE') of the join table; and without it.
CascadeNone(u) == holders
Cascade(u) == [n \in RoleNames |-> holders[n] \ {u}]
DeleteUser(u) ==
  /\ u \in people /\ people' = people \ {u}
  /\ holders' = Cascade(u)
  /\ UNCHANGED <<tokenRows, roles, req, past>>

Ask(r) ==
  \/ HttpGenerate(r) \/ CliGenerate(r)
  \/ \E t \in SetupTokens, u \in Users : HttpComplete(r, t, u) \/ CliComplete(r, t, u)
  \/ \E actor, u \in Users, n \in RoleNames :
       \/ HttpCreateRole(r, actor, n) \/ HttpDeleteRole(r, actor, n)
       \/ HttpAssign(r, actor, u, n) \/ HttpRemove(r, actor, u, n)
Step(r) ==
  \/ Guard(r) \/ ValidateToken(r) \/ Controller(r) \/ Refuse(r) \/ CreateToken(r)
  \/ FindToken(r) \/ RecordAttempt(r) \/ CompleteSetup(r)
  \/ FindRole(r) \/ CreateRole(r) \/ AssignToUser(r) \/ RemoveFromUser(r) \/ DeleteRole(r)
Next == \/ \E r \in Requests : Ask(r) \/ Step(r)
        \/ \E t \in SetupTokens : Expire(t)
        \/ \E u \in Users : Register(u) \/ DeleteUser(u)
Spec == Init /\ [][Next]_vars

----------------------------------------------------------------------------
Records == [op: {"idle", "generate", "complete", "create", "assign", "remove", "delete"},
            pc: {"idle", "guard", "header", "validate", "controller", "create",
                 "find", "attempt", "commit", "write"},
            token: SetupTokens \cup {AnyToken}, user: Users \cup {AnyUser}, role: RoleNames]
\* Types; who holds a role is a user, and nobody holds a role that is not there.
TypeOK ==
  /\ token \in [SetupTokens -> {"none", "new", "used"}] /\ expired \subseteq SetupTokens
  /\ people \subseteq Users /\ roles \subseteq RoleNames
  /\ holders \in [RoleNames -> SUBSET people] /\ \A n \in RoleNames \ roles : holders[n] = {}
  /\ req \in [Requests -> Records] /\ reopened \subseteq SetupTokens \cup {AnyToken}
  /\ uses \in [SetupTokens -> 0..2] /\ setups \in 0..2

\* Setup completes once until an administrator deletes the role SYSTEM_ADMIN,
\* however many requests and commands passed the checks before the first of them
\* committed: the checks are outside the transaction (setup.service.ts 76-98), and
\* the command makes none (complete-setup.command.ts 159-177).  And a token makes one
\* administrator, unless the role was deleted while a request with that token was
\* past its check: markAsUsed does not look at isUsed (setup.service.ts 77-156).
OneAdministrator == setups <= 1 /\ \A t \in SetupTokens \ reopened : uses[t] <= 1

\* Why: CompleteSetup does not look at isUsed, and what stops a second use of a token is
\* the row of the role.  Without that row nothing was completed since it was last deleted
\* (Fresh), a token that made an administrator is marked (Marked), and a request past its
\* check with such a token finds the row there, unless it was deleted beneath it (Held).
Attempts(q) == q.op = "complete" /\ q.pc \in {"attempt", "commit"}
Fresh == "SYSTEM_ADMIN" \notin roles => setups = 0
Marked == \A t \in SetupTokens : uses[t] # 0 => token[t] = "used"
Held == \A r \in Requests :
          LET t == req[r].token IN
          Attempts(req[r]) /\ t \in SetupTokens \ reopened /\ uses[t] # 0
            => "SYSTEM_ADMIN" \in roles
Named(q) == q.op = "complete" => q.user \in Users
AllNamed == \A r \in Requests : Named(req[r])
Inv == TypeOK /\ AllNamed /\ OneAdministrator /\ Fresh /\ Marked /\ Held
=============================================================================
