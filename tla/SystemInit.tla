----------------------------- MODULE SystemInit -----------------------------
(***************************************************************************)
(* What every instance does as it starts.  PrismaService connects, makes   *)
(* the two tables a database without migrations lacks, statement by        *)
(* statement, and sees to the record of the platform's own host;           *)
(* SystemInitService then upserts the required permissions one by one,     *)
(* reads them all, and finds or creates the two base roles.  Each query is *)
(* a step.  Instances may start together, stop anywhere and start again.   *)
(***************************************************************************)
EXTENDS Naturals, FiniteSets, Sequences, SequencesExt

CONSTANTS Instances,
          Required,     \* requiredPermissions, in any order
          SystemOnly,   \* those whose name begins with "system:"
          Deployments   \* [migrated, licensed]: a database that migrations made, and
                        \* a cloud deployment or one with a licence key

SystemInitAssumption == Deployments \subseteq [migrated: BOOLEAN, licensed: BOOLEAN]

VARIABLES schema,        \* per table: what the database has of it
          ownHost,       \* the custom_domains row of the platform's own host
          permissions,   \* permissions rows
          baseRoles,     \* roles rows with no organization: name, maker, permissions
          boot,          \* per instance: the step, and what it has read
          crossed,       \* history: names that two instances looked up and created
                         \* across each other
          torn,          \* history: tables whose making was cut short
          licensed       \* as configured
database == <<schema, ownHost, torn>>
roles == <<permissions, baseRoles, crossed>>
vars == <<schema, ownHost, permissions, baseRoles, boot, crossed, torn, licensed>>

Names == {"system_admin", "org_admin"}
\* permissions and role_permissions rows.
PermissionRow(p) == p
Granted(n, S) == IF n = "org_admin" THEN S \ SystemOnly ELSE S
RoleRow(n, i, S) == [name |-> n, maker |-> i, grants |-> Granted(n, S)]
Down == [pc |-> "down", name |-> "system_admin", todo |-> {}, read |-> {}, at |-> 1]

\* The statements that make each table, the indexes in one; all but the last two of
\* custom_domains and the constraints are no-ops where what they make is there.
Statements == [custom_domains |-> <<"table", "indexes", "fkey", "enum", "status">>,
               ssl_certificates |-> <<"table", "indexes", "fkey">>]
Tables == DOMAIN Statements
Whole(t) == ToSet(Statements[t])

Init ==
  /\ \E d \in Deployments :
       /\ schema = [t \in Tables |-> IF d.migrated THEN Whole(t) ELSE {}]
       /\ licensed = d.licensed
  /\ ownHost = "none" /\ torn = {}
  /\ permissions = {} /\ baseRoles = {} /\ crossed = {}
  /\ boot = [i \in Instances |-> Down]

Become(i, b) == boot' = [boot EXCEPT ![i] = b]

\* PrismaService.onModuleInit.  No failure past the connection keeps it from going on.
OnModuleInit(i) ==
  /\ boot[i].pc = "down" /\ Become(i, [Down EXCEPT !.pc = "check", !.name = "custom_domains"])
  /\ UNCHANGED database /\ UNCHANGED roles
NextTable(i) ==
  Become(i, IF boot[i].name = "custom_domains"
            THEN [Down EXCEPT !.pc = "check", !.name = "ssl_certificates"]
            ELSE [Down EXCEPT !.pc = "ownHost"])
CheckTable(i) ==   \* a query that fails for another reason counts as no table
  /\ boot[i].pc = "check"
  /\ \/ "table" \in schema[boot[i].name] /\ NextTable(i)
     \/ Become(i, [boot[i] EXCEPT !.pc = "make"])
  /\ UNCHANGED database /\ UNCHANGED roles
\* A constraint cannot be added twice; and the status column, a TEXT with a default, is
\* never converted to the enum, which its default cannot be cast to.
Refused(t, s) == s = "status" \/ (s = "fkey" /\ s \in schema[t])
Makes(t, s) == s = "fkey" => "table" \in schema["custom_domains"]   \* what it refers to
MakeTable(i) ==
  LET t == boot[i].name
      s == Statements[t][boot[i].at]
  IN
  /\ boot[i].pc = "make" /\ Makes(t, s)
  /\ IF Refused(t, s) THEN NextTable(i) /\ UNCHANGED schema
     ELSE /\ schema' = [schema EXCEPT ![t] = @ \cup {s}]
          /\ IF boot[i].at = Len(Statements[t]) THEN NextTable(i)
             ELSE Become(i, [boot[i] EXCEPT !.at = @ + 1])
  /\ UNCHANGED <<ownHost, torn>> /\ UNCHANGED roles
MakingFails(i) ==
  /\ boot[i].pc = "make" /\ NextTable(i)
  /\ torn' = torn \cup {boot[i].name}
  /\ UNCHANGED <<schema, ownHost>> /\ UNCHANGED roles
\* ensureDefaultDomainRecord: verified without proof, if there is a row or an organization.
FindOwnHost(i) ==
  /\ boot[i].pc = "ownHost"
  /\ \/ ownHost = "unverified" /\ Become(i, [Down EXCEPT !.pc = "verify"])
     \/ ownHost = "none" /\ Become(i, [Down EXCEPT !.pc = "insert"])
     \/ Become(i, [Down EXCEPT !.pc = "connected"])   \* verified; or no organization, or an error
  /\ UNCHANGED database /\ UNCHANGED roles
WriteOwnHost(i) ==   \* the row may be gone, or inserted, by now
  /\ boot[i].pc \in {"verify", "insert"}
  /\ \/ (ownHost = "none") = (boot[i].pc = "insert") /\ ownHost' = "VERIFIED"
     \/ UNCHANGED ownHost   \* an error
  /\ Become(i, [Down EXCEPT !.pc = "connected"])
  /\ UNCHANGED <<schema, torn>> /\ UNCHANGED roles
EditOwnHost ==   \* by requests of an organization (module Domains), while it matters
  /\ \E i \in Instances : boot[i].pc \in {"ownHost", "verify", "insert"}
  /\ \/ ownHost = "none" /\ ownHost' = "unverified"
     \/ ownHost # "none" /\ ownHost' = "none"
  /\ UNCHANGED <<schema, torn, boot>> /\ UNCHANGED roles

\* A self-hosted deployment without a licence key initialises nothing.
InitializeSystem(i) ==
  Become(i, IF licensed THEN [Down EXCEPT !.pc = "upsert", !.todo = Required] ELSE Down)
OnApplicationBootstrap(i) ==
  /\ boot[i].pc = "connected" /\ InitializeSystem(i)
  /\ UNCHANGED database /\ UNCHANGED roles
InitializePermission(i) ==
  /\ boot[i].pc = "upsert"
  /\ \E p \in boot[i].todo :
       /\ permissions' = permissions \cup {PermissionRow(p)}
       /\ Become(i, [boot[i] EXCEPT !.todo = @ \ {p}])
  /\ UNCHANGED database /\ UNCHANGED <<baseRoles, crossed>>

\* initializeSystemRoles begins when every upsert is through; and when it does not wait.
ReadyAtOnce(i) == boot[i].pc = "upsert"
Ready(i) == boot[i].pc = "upsert" /\ boot[i].todo = {}
ReadPermissions(i) ==
  /\ Ready(i)
  /\ Become(i, [boot[i] EXCEPT !.pc = "find", !.read = permissions])
  /\ UNCHANGED database /\ UNCHANGED roles

\* Done with one role: on to the other, or finished.
NextRole(i) ==
  Become(i, IF boot[i].name = "system_admin"
            THEN [boot[i] EXCEPT !.pc = "find", !.name = "org_admin"] ELSE Down)
Looking(n) == {i \in Instances : boot[i].pc = "create" /\ boot[i].name = n}
Find(n) == {b \in baseRoles : b.name = n}
FindRole(i) ==
  /\ boot[i].pc = "find"
  /\ LET n == boot[i].name IN
     IF Find(n) # {} THEN NextRole(i) /\ UNCHANGED crossed
     ELSE /\ Become(i, [boot[i] EXCEPT !.pc = "create"])
          /\ crossed' = IF Looking(n) # {} THEN crossed \cup {n} ELSE crossed
  /\ UNCHANGED database /\ UNCHANGED <<permissions, baseRoles>>
CreateRole(i) ==   \* the unique index on name and organization lets NULLs pass
  /\ boot[i].pc = "create"
  /\ baseRoles' = baseRoles \cup {RoleRow(boot[i].name, i, boot[i].read)}
  /\ NextRole(i) /\ UNCHANGED database /\ UNCHANGED <<permissions, crossed>>
Stop(i) ==   \* an error, or the process ends
  /\ boot[i].pc # "down" /\ Become(i, Down)
  /\ torn' = IF boot[i].pc = "make" THEN torn \cup {boot[i].name} ELSE torn
  /\ UNCHANGED <<schema, ownHost>> /\ UNCHANGED roles

Boots(i) ==
  \/ OnModuleInit(i) \/ CheckTable(i) \/ MakeTable(i) \/ MakingFails(i)
  \/ FindOwnHost(i) \/ WriteOwnHost(i)
  \/ OnApplicationBootstrap(i) \/ InitializePermission(i) \/ ReadPermissions(i)
  \/ FindRole(i) \/ CreateRole(i) \/ Stop(i)
Next == (EditOwnHost \/ \E i \in Instances : Boots(i)) /\ UNCHANGED licensed
Spec == Init /\ [][Next]_vars

----------------------------------------------------------------------------
Boot == [pc: {"down", "check", "make", "ownHost", "verify", "insert", "connected",
              "upsert", "find", "create"},
         name: Names \cup Tables, todo: SUBSET Required, read: SUBSET Required, at: 1..5]
TypeOK ==
  /\ permissions \subseteq Required /\ crossed \subseteq Names
  /\ baseRoles \subseteq [name: Names, maker: Instances, grants: SUBSET Required]
  /\ schema \in [Tables -> SUBSET {"table", "indexes", "fkey", "enum", "status"}]
  /\ \A t \in Tables : schema[t] \subseteq Whole(t)
  /\ ownHost \in {"none", "unverified", "VERIFIED"} /\ torn \subseteq Tables /\ licensed \in BOOLEAN
  /\ boot \in [Instances -> Boot]

Making(t) == {i \in Instances : boot[i].pc = "make" /\ boot[i].name = t}

\* Initialisation is idempotent, as its comment says (system-init.service.ts 18):
\* whatever instances start together or stop half way, there is one role of a name,
\* unless two instances looked it up before either had created it, and it holds every
\* permission meant for it (43-49, 255-310: the roles are written from what was read
\* after the instance's own upserts).
BaseRolesSound ==
  \A a \in baseRoles :
    /\ a.grants = Granted(a.name, Required)
    /\ \A b \in baseRoles : a.name = b.name /\ a.name \notin crossed => a = b

\* A table is made in the order of its statements, whoever makes it and wherever they
\* stop; one that nobody stopped making lacks nothing but the conversion of its status,
\* which no start and no later one achieves: instances that make it together, where one's
\* statements fail because the other was there, leave nothing else out.  The next start
\* only looks if the table is there, so what is cut short stays as it is
\* (prisma.service.ts 95-165, 171-221).
Made(t) == Whole(t) \ {"status"}
InOrder ==
  \A t \in Tables : \A k, l \in 1..Len(Statements[t]) :
    k < l /\ Statements[t][l] \in schema[t] => Statements[t][k] \in schema[t]
SchemaMade ==
  \A t \in Tables \ torn :
    "table" \in schema[t] => Made(t) \subseteq schema[t] \/ Making(t) # {}
SchemaSound == InOrder /\ SchemaMade

\* Why: every permission is there, or still to upsert, when an instance reads them; one
\* instance at a time is between looking for a role and creating it; whoever makes a
\* table is past the statements the table has of it, and the constraint, which turns
\* others away, is followed only by statements of whoever added it.
Upserted(b) ==
  /\ b.pc \in {"upsert", "find", "create"} => b.name \in Names
  /\ b.pc = "upsert" => Required \ b.todo \subseteq permissions
  /\ b.pc \in {"find", "create"} => b.read = Required
Complete == \A a \in baseRoles : a.grants = Granted(a.name, Required)
Once == \A n \in Names \ crossed :
  /\ \A a, b \in Find(n) : a = b
  /\ \A i, j \in Looking(n) : i = j
  /\ Looking(n) = {} \/ Find(n) = {}
Reached(b) ==
  b.pc \in {"check", "make"} =>
    /\ b.name \in Tables /\ b.at \in 1..Len(Statements[b.name])
    /\ b.pc = "check" => b.at = 1
    /\ \A k \in 1..(b.at - 1) : Statements[b.name][k] \in schema[b.name]
Constrained ==
  \A t \in Tables \ torn :
    "fkey" \in schema[t] => Made(t) \subseteq schema[t] \/ \E i \in Making(t) : boot[i].at > 3
Inv == /\ TypeOK /\ Complete /\ Once /\ SchemaSound /\ Constrained
       /\ \A i \in Instances : Upserted(boot[i]) /\ Reached(boot[i])
=============================================================================
