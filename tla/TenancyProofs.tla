---------------------------- MODULE TenancyProofs ----------------------------
(* What holds of Tenancy for every set of organizations, rows and requests. *)
EXTENDS Tenancy, FiniteSetTheorems, TLAPS

\* A query of a member operation runs in the organization the decorator captured, which is
\* the header's.
Querying(q) == q.pc \notin {"idle", "guards", "respond", "organization"}
Captured == \A r \in Requests : Querying(req[r]) =>
                req[r].header \in Orgs /\ req[r].org = req[r].header

Inv == TypeOK /\ OwnUntilCleared /\ Captured

LEMMA IdleIsRecord == Idle \in ReqRecord
  BY DEF Idle, ReqRecord, Pcs, Headers

LEMMA InitInv == Init => Inv
  BY TenancyAssumption, IdleIsRecord
     DEF Init, Inv, TypeOK, OwnUntilCleared, Captured, Querying, Idle

LEMMA VisibleRows ==
  ASSUME TypeOK, NEW r \in Requests
  PROVE  /\ Visible(r) \subseteq Members
         /\ \A m \in Visible(r) : row[m] \in Orgs
         /\ store[r] # None => \A m \in Visible(r) : row[m] = store[r]
  BY DEF Visible, CurrentTenant, TypeOK

\* A query that changes no row and no context and goes on with the request it belongs to.
LEMMA QueryStep ==
  ASSUME Inv, NEW r \in Requests, NEW q \in ReqRecord, NEW S \in SUBSET Visible(r),
         Querying(req[r]), q.pc # "idle", q.header = req[r].header, q.org = req[r].org,
         Become(r, q), touched' = touched \/ Touch(r, S), UNCHANGED store,
         row' \in [Members -> Orgs \cup {None, Unused}]
  PROVE  Inv'
<1>1. S \subseteq Members /\ (\A m \in S : row[m] \in Orgs)
      /\ (store[r] # None => \A m \in S : row[m] = store[r])
  BY VisibleRows DEF Inv
<1>2. touched' \in [Requests -> SUBSET Orgs]
  BY <1>1 DEF Touch, Inv, TypeOK
<1>3. req' \in [Requests -> ReqRecord]
  BY DEF Become, Inv, TypeOK
<1>4. TypeOK'
  BY <1>2, <1>3 DEF Inv, TypeOK
<1>5. OwnUntilCleared'
  BY <1>1, TenancyAssumption DEF Inv, TypeOK, OwnUntilCleared, InFlight, Become, Touch
<1>6. Captured'
  BY DEF Inv, TypeOK, Captured, Querying, Become
<1> QED BY <1>4, <1>5, <1>6 DEF Inv

LEMMA EnterInv ==
  ASSUME Inv, NEW r \in Requests, NEW op \in Operations, NEW h \in Headers,
         NEW i \in Members \cup {None}, Enter(r, op, h, i)
  PROVE  Inv'
<1> DEFINE q == [Idle EXCEPT !.op = op, !.pc = "guards", !.header = h, !.id = i]
<1>1. q \in ReqRecord
  BY IdleIsRecord, TenancyAssumption DEF ReqRecord, Pcs
<1>2. q.pc = "guards" /\ q.header = h
  BY DEF Idle
<1>3. req' = [req EXCEPT ![r] = q] /\ touched' = [touched EXCEPT ![r] = {}] /\ row' = row
      /\ store' = Entered(r, h) /\ ~InFlight(r)
  BY DEF Enter, Become
<1> HIDE DEF q
<1>4. TypeOK'
  BY <1>1, <1>3, TenancyAssumption DEF Inv, TypeOK, Entered, Cleared, Headers
<1>5. OwnUntilCleared'
  BY <1>1, <1>2, <1>3, TenancyAssumption
     DEF Inv, TypeOK, OwnUntilCleared, InFlight, Entered, Cleared, Headers
<1>6. Captured'
  BY <1>1, <1>2, <1>3 DEF Inv, TypeOK, Captured, Querying
<1> QED BY <1>4, <1>5, <1>6 DEF Inv

LEMMA BeginInv ==
  ASSUME Inv, NEW r \in Requests, Begin(r)
  PROVE  Inv'
<1>0. req[r] \in ReqRecord /\ req[r].pc = "guards" /\ store[r] \in Orgs \cup {None}
  BY DEF Inv, TypeOK, Begin
<1>1. PICK q \in ReqRecord : /\ req' = [req EXCEPT ![r] = q] /\ q.header = req[r].header
                             /\ q.pc # "idle"
                             /\ Querying(q) => store[r] # None /\ q.org = store[r]
  <2>1. CASE req[r].op = "organization"
    <3>1. [req[r] EXCEPT !.pc = "organization"] \in ReqRecord
      BY <1>0 DEF ReqRecord, Pcs
    <3> QED BY <1>0, <2>1, <3>1 DEF Begin, Goto, Become, Querying, ReqRecord
  <2>2. CASE req[r].op # "organization" /\ store[r] = None
    <3>1. [req[r] EXCEPT !.pc = "respond"] \in ReqRecord
      BY <1>0 DEF ReqRecord, Pcs
    <3> QED BY <1>0, <2>2, <3>1 DEF Begin, Goto, Become, Querying, ReqRecord, CurrentTenant
  <2>3. CASE req[r].op # "organization" /\ store[r] # None
    <3> DEFINE q == [req[r] EXCEPT !.pc = FirstQuery(req[r].op), !.org = store[r]]
    <3>1. FirstQuery(req[r].op) \in {"find", "list", "exists"}
      BY DEF FirstQuery
    <3>2. q \in ReqRecord
      BY <1>0, <2>3, <3>1 DEF ReqRecord, Pcs
    <3>3. q.header = req[r].header /\ q.pc # "idle" /\ q.org = store[r]
      BY <1>0, <3>1 DEF ReqRecord
    <3>4. req' = [req EXCEPT ![r] = q]
      BY <2>3 DEF Begin, Become, CurrentTenant
    <3> HIDE DEF q
    <3> QED BY <2>3, <3>2, <3>3, <3>4
  <2> QED BY <2>1, <2>2, <2>3
<1>2. store' = store /\ row' = row /\ touched' = touched
  BY DEF Begin
<1>3. TypeOK'
  BY <1>1, <1>2 DEF Inv, TypeOK
<1>4. OwnUntilCleared'
  BY <1>0, <1>1, <1>2 DEF Inv, TypeOK, OwnUntilCleared, InFlight
<1>5. Captured'
  BY <1>1, <1>2, <1>0 DEF Inv, TypeOK, Captured, OwnUntilCleared, Querying
<1> QED BY <1>3, <1>4, <1>5 DEF Inv

LEMMA LeaveInv ==
  ASSUME Inv, NEW r \in Requests, Finish(r) \/ Close(r)
  PROVE  Inv'
<1>1. req' = [req EXCEPT ![r] = Idle] /\ row' = row /\ touched' = touched
      /\ (store' = Cleared \/ store' = [store EXCEPT ![r] = None])
  BY DEF Finish, Close, Leave, Become
<1>2. TypeOK'
  BY <1>1, IdleIsRecord DEF Inv, TypeOK, Cleared
<1>3. OwnUntilCleared'
  BY <1>1 DEF Inv, TypeOK, OwnUntilCleared, InFlight, Cleared, Idle
<1>4. Captured'
  BY <1>1, IdleIsRecord DEF Inv, TypeOK, Captured, Querying, Idle
<1> QED BY <1>2, <1>3, <1>4 DEF Inv

\* The ways in which a query leaves its request.
LEMMA GotoRecord ==
  ASSUME Inv, NEW r \in Requests, NEW pc \in Pcs, pc # "idle"
  PROVE  LET q == [req[r] EXCEPT !.pc = pc] IN
         /\ q \in ReqRecord /\ q.pc # "idle"
         /\ q.header = req[r].header /\ q.org = req[r].org
  BY DEF Inv, TypeOK, ReqRecord

LEMMA GotoQuery ==
  ASSUME Inv, NEW r \in Requests, NEW pc \in Pcs, pc # "idle", Querying(req[r]),
         Goto(r, pc), NEW S \in SUBSET Visible(r),
         touched' = touched \/ Touch(r, S), UNCHANGED store,
         row' \in [Members -> Orgs \cup {None, Unused}]
  PROVE  Inv'
  BY GotoRecord, QueryStep DEF Goto

LEMMA QueriesInv ==
  ASSUME Inv, NEW r \in Requests,
         Find(r) \/ List(r) \/ Update(r) \/ CheckAdmin(r) \/ Delete(r)
  PROVE  Inv'
<1> USE DEF Pcs
<1>r. row \in [Members -> Orgs \cup {None, Unused}]
  BY DEF Inv, TypeOK
<1>1. CASE Find(r)
  <2>1. Querying(req[r])
    BY <1>1 DEF Find, Querying
  <2>2. PICK pc \in {"respond", "update", "countAdmins"} : Goto(r, pc)
    BY <1>1 DEF Find
  <2> QED BY <1>1, <1>r, <2>1, <2>2, GotoQuery DEF Find
<1>2. CASE List(r)
  BY <1>2, <1>r, GotoQuery DEF List, Querying
<1>3. CASE Update(r)
  BY <1>3, <1>r, GotoQuery DEF Update, Querying
<1>4. CASE CheckAdmin(r)
  <2>1. Querying(req[r])
    BY <1>4 DEF CheckAdmin, Querying
  <2>2. PICK pc \in {"respond", "delete"} : Goto(r, pc)
    BY <1>4 DEF CheckAdmin
  <2> QED BY <1>4, <1>r, <2>1, <2>2, GotoQuery DEF CheckAdmin
<1>5. CASE Delete(r)
  <2>1. row' \in [Members -> Orgs \cup {None, Unused}]
    BY <1>5, <1>r DEF Delete
  <2> QED BY <1>5, <2>1, GotoQuery DEF Delete, Querying
<1> QED BY <1>1, <1>2, <1>3, <1>4, <1>5

LEMMA CountAdminsInv ==
  ASSUME Inv, NEW r \in Requests, CountAdmins(r)
  PROVE  Inv'
<1> DEFINE q == [req[r] EXCEPT !.pc = "checkAdmin", !.admins = Cardinality(Visible(r))]
<1>1. Visible(r) \subseteq Members
  BY VisibleRows DEF Inv
<1>2. Cardinality(Visible(r)) \in Nat
  BY <1>1, TenancyAssumption, FS_Subset, FS_CardinalityType
<1>3. q \in ReqRecord /\ q.pc # "idle" /\ q.header = req[r].header /\ q.org = req[r].org
  BY <1>2 DEF Inv, TypeOK, ReqRecord, Pcs
<1>4. Become(r, q) /\ Querying(req[r]) /\ Touch(r, Visible(r)) /\ UNCHANGED <<row, store>>
  BY DEF CountAdmins, Querying
<1> HIDE DEF q
<1> QED BY <1>3, <1>4, QueryStep DEF Inv, TypeOK

LEMMA InviteInv ==
  ASSUME Inv, NEW r \in Requests,
         (\E S \in SUBSET Members : Exists(r, S)) \/ (\E m \in Members : Create(r, m))
  PROVE  Inv'
<1> USE DEF Pcs
<1>1. ASSUME NEW S \in SUBSET Members, Exists(r, S) PROVE Inv'
  <2>1. PICK pc \in {"create", "respond"} : Goto(r, pc)
    BY <1>1 DEF Exists
  <2> QED BY <1>1, <2>1, GotoQuery DEF Exists, Querying, Inv, TypeOK
<1>2. ASSUME NEW m \in Members, Create(r, m) PROVE Inv'
  <2>1. req[r].header \in Orgs /\ req[r].org = req[r].header
    BY <1>2 DEF Inv, Captured, Querying, Create
  <2> DEFINE q == [req[r] EXCEPT !.pc = "respond"]
  <2>2. q \in ReqRecord /\ q.pc = "respond" /\ q.header = req[r].header
    BY DEF Inv, TypeOK, ReqRecord
  <2>3. req' = [req EXCEPT ![r] = q] /\ row' = [row EXCEPT ![m] = req[r].org]
        /\ touched' = [touched EXCEPT ![r] = @ \cup {req[r].org}] /\ store' = store
    BY <1>2 DEF Create, Goto, Become
  <2> HIDE DEF q
  <2>4. TypeOK'
    BY <2>1, <2>2, <2>3 DEF Inv, TypeOK
  <2>5. OwnUntilCleared'
    BY <2>1, <2>2, <2>3 DEF Inv, TypeOK, OwnUntilCleared, InFlight
  <2>6. Captured'
    BY <2>2, <2>3 DEF Inv, TypeOK, Captured, Querying
  <2> QED BY <2>4, <2>5, <2>6 DEF Inv
<1> QED BY <1>1, <1>2

\* The query of an organization, and a query that fails, go straight to the response.
LEMMA ToResponseInv ==
  ASSUME Inv, NEW r \in Requests, QueryFails(r) \/ \E o \in Orgs : FindOrganization(r, o)
  PROVE  Inv'
<1> DEFINE q == [req[r] EXCEPT !.pc = "respond"]
<1>1. q \in ReqRecord /\ q.pc = "respond" /\ q.header = req[r].header
  BY DEF Inv, TypeOK, ReqRecord, Pcs
<1>2. req' = [req EXCEPT ![r] = q] /\ row' = row /\ store' = store
      /\ (touched' = touched
          \/ (store[r] = None
              /\ \E o \in Orgs : touched' = [touched EXCEPT ![r] = @ \cup {o}]))
  BY DEF QueryFails, FindOrganization, Goto, Become, CurrentTenant
<1> HIDE DEF q
<1>3. TypeOK'
  BY <1>1, <1>2 DEF Inv, TypeOK
<1>4. OwnUntilCleared'
  BY <1>1, <1>2 DEF Inv, TypeOK, OwnUntilCleared, InFlight
<1>5. Captured'
  BY <1>1, <1>2 DEF Inv, TypeOK, Captured, Querying
<1> QED BY <1>3, <1>4, <1>5 DEF Inv

LEMMA NextInv == Inv /\ [Next]_vars => Inv'
<1> SUFFICES ASSUME Inv, [Next]_vars PROVE Inv'
  OBVIOUS
<1>1. CASE UNCHANGED vars
  BY <1>1 DEF vars, Inv, TypeOK, OwnUntilCleared, Captured, InFlight
<1>2. CASE Next
  BY <1>2, EnterInv, BeginInv, LeaveInv, QueriesInv, CountAdminsInv, InviteInv,
     ToResponseInv DEF Next
<1> QED BY <1>1, <1>2

\* Types and contexts, for any number of organizations, rows and overlapping requests.
THEOREM TenancyTypes == Spec => []TypeOK
<1>1. Inv => TypeOK
  BY DEF Inv
<1> QED BY <1>1, InitInv, NextInv, PTL DEF Spec

\* clear of tenant.context.ts is the only way out of one's organization: whatever else
\* overlaps, a request that still has a tenant has only touched rows of its own header's.
THEOREM ScopedUntilCleared == Spec => []OwnUntilCleared
<1>1. Inv => OwnUntilCleared
  BY DEF Inv
<1> QED BY <1>1, InitInv, NextInv, PTL DEF Spec

\* inviteMember names the organization the decorator captured: rows are created in the
\* organization of the header even after the context is gone.
THEOREM RowsCreatedInOwn == Spec => CreatesInOwn
<1> DEFINE Kept == \A m \in Members : row[m] = Unused /\ row'[m] \in Orgs =>
                       \E r \in Requests : req'[r] # req[r] /\ req[r].header = row'[m]
<1>1. Inv /\ [Next]_vars => [Kept]_vars
  <2> SUFFICES ASSUME Inv, Next, NEW m \in Members, row[m] = Unused, row'[m] \in Orgs
               PROVE  \E r \in Requests : req'[r] # req[r] /\ req[r].header = row'[m]
    BY TenancyAssumption DEF vars
  <2>1. PICK r \in Requests : \E n \in Members : Create(r, n)
    BY TenancyAssumption DEF Next, Enter, Begin, Finish, Close, Leave, Find, List, Update, CountAdmins,
       CheckAdmin, Delete, QueryFails, Exists, FindOrganization, Inv, TypeOK
  <2>2. PICK n \in Members : Create(r, n)
    BY <2>1
  <2>3. row' = [row EXCEPT ![n] = req[r].org] /\ req' = [req EXCEPT ![r] = [@ EXCEPT !.pc = "respond"]]
        /\ req[r].pc = "create"
    BY <2>2 DEF Create, Goto, Become
  <2>4. row'[m] = req[r].org
    BY <2>3, TenancyAssumption DEF Inv, TypeOK
  <2>5. req[r].org = req[r].header
    BY <2>3 DEF Inv, Captured, Querying
  <2>6. req'[r] # req[r]
    BY <2>3 DEF Inv, TypeOK, ReqRecord
  <2> QED BY <2>4, <2>5, <2>6
<1> QED BY <1>1, InitInv, NextInv, PTL DEF Spec, CreatesInOwn

\* With one request at a time nobody else clears the storage: the context entered for a
\* header stays until the response.
Alone == \A r, s \in Requests : InFlight(r) /\ InFlight(s) => r = s
KeepsContext == \A r \in Requests : InFlight(r) /\ req[r].header \in Orgs => store[r] = req[r].header

\* Neither guards nor queries begin or end a request, or change a context.
LEMMA InsideRequest ==
  ASSUME Inv, NEW r \in Requests,
         \/ Begin(r) \/ Find(r) \/ List(r) \/ Update(r) \/ CountAdmins(r) \/ CheckAdmin(r)
         \/ Delete(r) \/ (\E S \in SUBSET Members : Exists(r, S)) \/ QueryFails(r)
         \/ (\E m \in Members : Create(r, m)) \/ (\E o \in Orgs : FindOrganization(r, o))
  PROVE  /\ store' = store /\ InFlight(r)
         /\ \E q : req' = [req EXCEPT ![r] = q] /\ q.header = req[r].header
<1>1. req[r] \in ReqRecord
  BY DEF Inv, TypeOK
<1>2. store' = store /\ InFlight(r)
  BY DEF Begin, Find, List, Update, CountAdmins, CheckAdmin, Delete, Exists, Create, QueryFails,
     FindOrganization, InFlight
<1>3. \A pc : [req[r] EXCEPT !.pc = pc].header = req[r].header
  BY <1>1 DEF ReqRecord
<1>4. CASE \E pc : Goto(r, pc)
  BY <1>2, <1>3, <1>4 DEF Goto, Become
<1>5. CASE Begin(r)
  <2>1. (\E pc : Goto(r, pc)) \/ Become(r, [req[r] EXCEPT !.pc = FirstQuery(req[r].op), !.org = store[r]])
    BY <1>5 DEF Begin, CurrentTenant
  <2>2. [req[r] EXCEPT !.pc = FirstQuery(req[r].op), !.org = store[r]].header = req[r].header
    BY <1>1 DEF ReqRecord
  <2> QED BY <1>2, <1>4, <2>1, <2>2 DEF Become
<1>6. CASE CountAdmins(r)
  <2>1. [req[r] EXCEPT !.pc = "checkAdmin", !.admins = Cardinality(Visible(r))].header = req[r].header
    BY <1>1 DEF ReqRecord
  <2> QED BY <1>2, <1>6, <2>1 DEF CountAdmins, Become
<1> QED
  BY <1>4, <1>5, <1>6 DEF Find, List, Update, CheckAdmin, Delete, Exists, Create, QueryFails,
     FindOrganization

LEMMA SerialStep ==
  ASSUME Serial, Inv, Alone, KeepsContext, [Next]_vars
  PROVE  Alone' /\ KeepsContext'
<1>1. CASE UNCHANGED vars
  BY <1>1 DEF vars, Alone, KeepsContext, InFlight
<1>2. ASSUME NEW r \in Requests, NEW op \in Operations, NEW h \in Headers,
             NEW i \in Members \cup {None}, Enter(r, op, h, i)
      PROVE  Alone' /\ KeepsContext'
  <2> DEFINE q == [Idle EXCEPT !.op = op, !.pc = "guards", !.header = h, !.id = i]
  <2>1. q.header = h
    BY DEF Idle
  <2>2. req' = [req EXCEPT ![r] = q] /\ store' = Entered(r, h) /\ \A s \in Requests : ~InFlight(s)
    BY <1>2 DEF Enter, Become
  <2> HIDE DEF q
  <2>3. req \in [Requests -> ReqRecord] /\ store \in [Requests -> Orgs \cup {None}]
    BY DEF Inv, TypeOK
  <2> QED BY <2>1, <2>2, <2>3, TenancyAssumption DEF Alone, KeepsContext, InFlight, Entered
<1>3. ASSUME NEW r \in Requests, Finish(r) \/ Close(r)
      PROVE  Alone' /\ KeepsContext'
  <2>1. req' = [req EXCEPT ![r] = Idle] /\ InFlight(r)
    BY <1>3 DEF Finish, Close, Leave, Become, InFlight
  <2> QED BY <2>1 DEF Alone, KeepsContext, InFlight, Idle, Inv, TypeOK
<1>4. ASSUME NEW r \in Requests, store' = store /\ InFlight(r),
             \E q : req' = [req EXCEPT ![r] = q] /\ q.header = req[r].header
      PROVE  Alone' /\ KeepsContext'
  <2>1. req \in [Requests -> ReqRecord]
    BY DEF Inv, TypeOK
  <2> QED BY <1>4, <2>1 DEF Alone, KeepsContext, InFlight
<1> QED BY <1>1, <1>2, <1>3, <1>4, InsideRequest DEF Next

\* One request at a time, every request stays in the organization of its header: what leads
\* the run with two requests out of it is the overlap, and nothing else in these files.
THEOREM SerialTouchesOwn ==
  ASSUME Serial
  PROVE  Spec => []TouchesOwn
<1> DEFINE I == Inv /\ Alone /\ KeepsContext
<1>1. Init => I
  BY InitInv DEF Init, Alone, KeepsContext, InFlight, Idle
<1>2. I /\ [Next]_vars => I'
  BY NextInv, SerialStep
<1>3. I => TouchesOwn
  BY TenancyAssumption DEF Inv, OwnUntilCleared, KeepsContext, TouchesOwn
<1> HIDE DEF I
<1> QED BY <1>1, <1>2, <1>3, PTL DEF Spec

-----------------------------------------------------------------------------
(* A removal looks for its row first, and checks the count before it deletes. *)

Removing == {"countAdmins", "checkAdmin", "delete"}
Checked(r) ==
  req[r].pc \in Removing =>
    /\ req[r].id \in Members /\ row[req[r].id] # Unused
    /\ req[r].pc = "delete" /\ store[r] # None /\ row[req[r].id] = store[r]
         => req[r].admins # 1
RemovalInv == \A r \in Requests : Checked(r)

\* A step of r: rows are used once, contexts of others are kept or lost.
Ages(r) ==
  /\ \A m \in Members : row'[m] = row[m] \/ row[m] = Unused \/ row'[m] = None
  /\ \A s \in Requests \ {r} : req'[s] = req[s] /\ store'[s] \in {store[s], None}

LEMMA CheckedStays ==
  ASSUME Inv, RemovalInv, NEW r \in Requests, Ages(r), Checked(r)'
  PROVE  RemovalInv'
<1>1. ASSUME NEW s \in Requests \ {r} PROVE Checked(s)'
  <2>1. Checked(s) /\ req'[s] = req[s] /\ store'[s] \in {store[s], None}
    BY DEF RemovalInv, Ages
  <2>2. \A m \in Members : row'[m] = row[m] \/ row[m] = Unused \/ row'[m] = None
    BY DEF Ages
  <2>3. \A m \in Members : row[m] # Unused => row'[m] # Unused
    BY <2>2, TenancyAssumption
  <2> QED BY <2>1, <2>2, <2>3 DEF Checked
<1> QED BY <1>1 DEF RemovalInv

\* Rows stay, or the one that was created was unused, or the deleted one goes.
LEMMA StepAges ==
  ASSUME Inv, NEW r \in Requests,
         \/ \E op \in Operations, h \in Headers, i \in Members \cup {None} : Enter(r, op, h, i)
         \/ Begin(r) \/ Finish(r) \/ Close(r) \/ Find(r) \/ List(r) \/ Update(r)
         \/ CountAdmins(r) \/ CheckAdmin(r) \/ Delete(r)
         \/ (\E S \in SUBSET Members : Exists(r, S)) \/ (\E m \in Members : Create(r, m))
         \/ QueryFails(r) \/ (\E o \in Orgs : FindOrganization(r, o))
  PROVE  Ages(r)
<1>1. \A m \in Members : row'[m] = row[m] \/ row[m] = Unused \/ row'[m] = None
  BY DEF Inv, TypeOK, Enter, Begin, Finish, Close, Leave, Find, List, Update, CountAdmins,
     CheckAdmin, Delete, Exists, Create, QueryFails, FindOrganization
<1>2. ASSUME NEW s \in Requests \ {r} PROVE req'[s] = req[s]
  BY DEF Inv, TypeOK, Enter, Begin, Finish, Close, Leave, Find, List, Update, CountAdmins,
     CheckAdmin, Delete, Exists, Create, QueryFails, FindOrganization, Goto, Become
<1>3. ASSUME NEW s \in Requests \ {r} PROVE store'[s] \in {store[s], None}
  BY DEF Inv, TypeOK, Enter, Entered, Cleared, Headers, Begin, Finish, Close, Find, List,
     Update, CountAdmins, CheckAdmin, Delete, Exists, Create, QueryFails, FindOrganization
<1> QED BY <1>1, <1>2, <1>3 DEF Ages

\* Anywhere but in a removal nothing has been checked.
LEMMA NotRemoving ==
  ASSUME Inv, RemovalInv, NEW r \in Requests, Ages(r), req'[r].pc \notin Removing
  PROVE  RemovalInv'
  BY CheckedStays DEF Checked

LEMMA RemovalSteps ==
  ASSUME Inv, RemovalInv, NEW r \in Requests, Ages(r),
         Find(r) \/ CountAdmins(r) \/ CheckAdmin(r)
  PROVE  RemovalInv'
<1>0. /\ req[r] \in ReqRecord /\ req \in [Requests -> ReqRecord]
      /\ row \in [Members -> Orgs \cup {None, Unused}] /\ Checked(r)
  BY DEF Inv, TypeOK, RemovalInv
<1>1. row' = row /\ store' = store
  BY DEF Find, CountAdmins, CheckAdmin
<1>2. CASE Find(r)
  <2>0. PICK pc : pc = CASE Visible(r) \cap {req[r].id} = {} \/ req[r].op = "get" -> "respond"
                         [] req[r].op = "update" -> "update"
                         [] OTHER -> "countAdmins"
    OBVIOUS
  <2>1. /\ req' = [req EXCEPT ![r] = [req[r] EXCEPT !.pc = pc]]
        /\ pc = "countAdmins" => req[r].id \in Visible(r)
    <3>1. req' = [req EXCEPT ![r] = [req[r] EXCEPT !.pc = pc]]
      BY <1>2, <2>0 DEF Find, Goto, Become
    <3>2. pc = "countAdmins" => Visible(r) \cap {req[r].id} # {}
      BY <2>0
    <3> QED BY <3>1, <3>2
  <2>2. req'[r].pc = pc /\ req'[r].id = req[r].id
    BY <1>0, <2>1 DEF ReqRecord
  <2>3. pc = "countAdmins" => req[r].id \in Members /\ row[req[r].id] # Unused
    BY <1>0, <2>1, TenancyAssumption DEF Visible
  <2>4. pc \in {"respond", "update", "countAdmins"}
    BY <2>0
  <2>5. Checked(r)'
    BY <1>1, <2>2, <2>3, <2>4 DEF Checked, Removing
  <2> QED BY <2>5, CheckedStays
<1>3. CASE CountAdmins(r)
  <2>1. PICK q : q = [req[r] EXCEPT !.pc = "checkAdmin", !.admins = Cardinality(Visible(r))]
    OBVIOUS
  <2>2. req'[r] = q /\ q.pc = "checkAdmin" /\ q.id = req[r].id
    BY <1>0, <1>3, <2>1 DEF CountAdmins, Become, ReqRecord
  <2>3. req[r].pc = "countAdmins"
    BY <1>3 DEF CountAdmins
  <2>4. Checked(r)'
    BY <1>0, <1>1, <2>2, <2>3 DEF Checked, Removing
  <2> QED BY <2>4, CheckedStays
<1>4. CASE CheckAdmin(r)
  <2>1. PICK pc \in {"respond", "delete"} :
           req' = [req EXCEPT ![r] = [req[r] EXCEPT !.pc = pc]]
             /\ (pc = "delete" => ~IsLastAdmin(r))
    BY <1>4 DEF CheckAdmin, Goto, Become
  <2>2. req'[r].pc = pc /\ req'[r].id = req[r].id /\ req'[r].admins = req[r].admins
    BY <1>0, <2>1 DEF ReqRecord
  <2>3. req[r].id \in Members /\ row[req[r].id] # Unused
    BY <1>0, <1>4 DEF Checked, Removing, CheckAdmin
  <2>4. pc = "delete" /\ store[r] # None /\ row[req[r].id] = store[r] => req[r].admins # 1
    <3> SUFFICES ASSUME pc = "delete", store[r] # None, row[req[r].id] = store[r]
                 PROVE  req[r].admins # 1
      OBVIOUS
    <3>1. store[r] \in Orgs
      BY DEF Inv, TypeOK
    <3>2. req[r].id \in Visible(r)
      BY <2>3, <3>1 DEF Visible, CurrentTenant
    <3> QED BY <2>1, <3>2 DEF IsLastAdmin
  <2>5. Checked(r)'
    BY <1>1, <2>2, <2>3, <2>4 DEF Checked, Removing
  <2> QED BY <2>5, CheckedStays
<1> QED BY <1>2, <1>3, <1>4

LEMMA NextRemoval == Inv /\ RemovalInv /\ [Next]_vars => RemovalInv'
<1> SUFFICES ASSUME Inv, RemovalInv, [Next]_vars PROVE RemovalInv'
  OBVIOUS
<1>1. CASE UNCHANGED vars
  BY <1>1 DEF vars, RemovalInv, Checked
<1>2. ASSUME NEW r \in Requests, Ages(r),
             \/ \E op \in Operations, h \in Headers, i \in Members \cup {None} : Enter(r, op, h, i)
             \/ Begin(r) \/ Finish(r) \/ Close(r)
             \/ List(r) \/ Update(r) \/ Delete(r)
             \/ (\E S \in SUBSET Members : Exists(r, S)) \/ (\E m \in Members : Create(r, m))
             \/ QueryFails(r) \/ (\E o \in Orgs : FindOrganization(r, o))
      PROVE  RemovalInv'
  <2>1. req \in [Requests -> ReqRecord]
    BY DEF Inv, TypeOK
  <2>2. \E pc \in {"guards", "organization", "respond", "create", "idle", "find", "list",
                   "exists"} : req'[r].pc = pc
    <3>1. ASSUME NEW pc, Goto(r, pc) PROVE req'[r].pc = pc
      BY <2>1, <3>1 DEF Goto, Become, ReqRecord
    <3>2. CASE \E op \in Operations, h \in Headers, i \in Members \cup {None} : Enter(r, op, h, i)
      <4>1. PICK op \in Operations, h \in Headers, i \in Members \cup {None} : Enter(r, op, h, i)
        BY <3>2
      <4>2. PICK q : q = [Idle EXCEPT !.op = op, !.pc = "guards", !.header = h, !.id = i]
        OBVIOUS
      <4>3. q.pc = "guards" /\ req'[r] = q
        BY <2>1, <4>1, <4>2 DEF Enter, Become, Idle
      <4> QED BY <4>3
    <3>3. CASE Begin(r)
      <4>1. FirstQuery(req[r].op) \in {"find", "list", "exists"}
        BY DEF FirstQuery
      <4>2. PICK q : q = [req[r] EXCEPT !.pc = FirstQuery(req[r].op), !.org = CurrentTenant(r)]
        OBVIOUS
      <4>3. q.pc = FirstQuery(req[r].op)
        BY <2>1, <4>2 DEF ReqRecord
      <4>4. Goto(r, "organization") \/ Goto(r, "respond") \/ Become(r, q)
        BY <3>3, <4>2 DEF Begin
      <4>5. Become(r, q) => req'[r] = q
        BY <2>1 DEF Become
      <4> QED BY <3>1, <4>1, <4>3, <4>4, <4>5
    <3>4. CASE Finish(r) \/ Close(r)
      BY <2>1, <3>4 DEF Finish, Close, Leave, Become, Idle
    <3>5. CASE \/ List(r) \/ Update(r) \/ Delete(r) \/ QueryFails(r)
               \/ (\E m \in Members : Create(r, m)) \/ (\E o \in Orgs : FindOrganization(r, o))
      <4>1. Goto(r, "respond")
        BY <3>5 DEF List, Update, Delete, QueryFails, Create, FindOrganization
      <4> QED BY <3>1, <4>1
    <3>6. CASE \E S \in SUBSET Members : Exists(r, S)
      <4>1. Goto(r, "respond") \/ Goto(r, "create")
        BY <3>6 DEF Exists
      <4> QED BY <3>1, <4>1
    <3> QED BY <1>2, <3>2, <3>3, <3>4, <3>5, <3>6
  <2>3. req'[r].pc \notin Removing
    BY <2>2 DEF Removing
  <2> QED BY <1>2, <2>3, NotRemoving
<1> QED BY <1>1, <1>2, StepAges, RemovalSteps DEF Next

\* isLastAdmin suffices for a removal that keeps its context and whose count still holds:
\* whatever else overlaps, deletions and clear of tenant.context.ts included, another admin
\* of the organization is left.
THEOREM RemovalLeavesAdmin == Spec => ScopedRemovalLeavesAdmin
<1> DEFINE Leaves == \A r \in Requests :
        /\ req[r].pc = "delete" /\ req'[r] # req[r] /\ row' # row
        /\ store[r] # None
        /\ Cardinality(RowsOf(store[r])) = req[r].admins
        => \E m \in Members : row'[m] = store[r]
<1>1. Inv /\ RemovalInv /\ [Next]_vars => [Leaves]_vars
  <2> SUFFICES ASSUME Inv, RemovalInv, Next, NEW r \in Requests,
                      req[r].pc = "delete", req'[r] # req[r], row' # row, store[r] # None,
                      Cardinality(RowsOf(store[r])) = req[r].admins
               PROVE  \E m \in Members : row'[m] = store[r]
    BY DEF vars
  <2>1. PICK s \in Requests :
          \/ \E op \in Operations, h \in Headers, i \in Members \cup {None} : Enter(s, op, h, i)
          \/ Begin(s) \/ Finish(s) \/ Close(s) \/ Find(s) \/ List(s) \/ Update(s)
          \/ CountAdmins(s) \/ CheckAdmin(s) \/ Delete(s)
          \/ (\E S \in SUBSET Members : Exists(s, S)) \/ (\E m \in Members : Create(s, m))
          \/ QueryFails(s) \/ (\E o \in Orgs : FindOrganization(s, o))
    BY DEF Next
  <2>2. s = r
    BY <2>1, StepAges DEF Ages
  <2>3. Delete(r)
    BY <2>1, <2>2 DEF Enter, InFlight, Begin, Finish, Close, Find, List, Update, CountAdmins,
       CheckAdmin, Exists, Create, QueryFails, FindOrganization
  <2>4. row \in [Members -> Orgs \cup {None, Unused}]
    BY DEF Inv, TypeOK
  <2>5. req[r].id \in Visible(r)
    BY <2>3, <2>4 DEF Delete
  <2>6. req[r].id \in RowsOf(store[r])
    BY <2>5, VisibleRows DEF RowsOf, Inv
  <2>7. req[r].admins # 1
    BY <2>6 DEF RemovalInv, Checked, Removing, RowsOf
  <2>8. RowsOf(store[r]) # {req[r].id}
    BY <2>7, FS_Singleton
  <2>9. PICK m \in RowsOf(store[r]) : m # req[r].id
    BY <2>6, <2>8
  <2> QED BY <2>3, <2>4, <2>9 DEF Delete, RowsOf
<1>2. Init => RemovalInv
  BY DEF Init, RemovalInv, Checked, Removing, Idle
<1> QED BY <1>1, <1>2, InitInv, NextInv, NextRemoval, PTL DEF Spec, ScopedRemovalLeavesAdmin
=============================================================================
