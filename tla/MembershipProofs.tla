-------------------------- MODULE MembershipProofs --------------------------
(* What holds of Membership for every set of people and requests.          *)
EXTENDS Membership, FiniteSetTheorems, SequenceTheorems, WellFoundedInduction, TLAPS

\* Where the handler of each operation can be.
Stage(q) ==
    \/ q.op \in {"invite", "bulk"} /\ q.pc \in {"limit", "exists", "lookup", "createInvited",
           "createReg", "mailReg", "createPending", "dropRoles", "addRoles", "mailInvited", "act"}
    \/ q.op = "update" /\ q.pc \in {"find", "setStatus", "act"}
    \/ q.op = "remove" /\ q.pc \in {"find", "countAdmins", "checkAdmin", "delete", "act"}
    \/ q.op = "accept" /\ q.pc \in {"findInvited", "activate", "mailAccepted", "act"}
    \/ q.op = "decline" /\ q.pc \in {"findInvited", "delete", "act"}
    \/ q.op = "register" /\ q.pc \in {"createUser", "findToken", "join", "act"}
    \/ q.op = "registerInto" /\ q.pc \in {"createJoined", "findToken", "join", "act"}
    \/ q.op = "complete" /\ q.pc \in {"findReg", "link", "dropRoles", "addRoles",
                                      "deleteReg", "act"}

\* What a request record says when its handler is somewhere.
Shape(q) ==
    q.pc # "idle" => /\ q.op \in Operations /\ Stage(q)
                     /\ q.op \in {"invite", "bulk"} => q.todo # <<>>
                     /\ q.op = "invite" => Len(q.todo) = 1
                     /\ q.op \notin {"invite", "bulk"} => q.todo = <<>>
                     /\ q.op \in {"accept", "decline", "register", "registerInto", "complete"}
                        => q.who \in People
                     /\ q.op = "update" => q.status \in Settable
RequestShape == \A r \in Requests : Shape(req[r])

-----------------------------------------------------------------------------
LEMMA JoinsBounded == MaxJoins \in Nat
<1>1. IsFiniteSet(People) /\ People # {}
  BY MembershipAssumption
<1>2. Cardinality(People) \in Nat /\ Cardinality(People) # 0
  BY <1>1, FS_CardinalityType, FS_EmptySet
<1> QED BY <1>2 DEF MaxJoins

-----------------------------------------------------------------------------
(* Request records.                                                        *)

LEMMA IdleIsRecord == Idle \in ReqRecord /\ Shape(Idle)
<1>1. <<>> \in Seq(People)
  OBVIOUS
<1> QED BY <1>1 DEF Idle, ReqRecord, Pcs, RoleLists, Shape

\* A handler only ever writes its own record.
LEMMA BecomeType ==
  ASSUME TypeOK, RequestShape, NEW r \in Requests, NEW q \in ReqRecord, Shape(q), Become(r, q)
  PROVE  req' \in [Requests -> ReqRecord] /\ RequestShape'
  BY DEF Become, TypeOK, RequestShape

LEMMA FinishType ==
  ASSUME TypeOK, RequestShape, NEW r \in Requests, Finish(r)
  PROVE  req' \in [Requests -> ReqRecord] /\ RequestShape'
  BY BecomeType, IdleIsRecord DEF Finish

\* Moving on within the operation's stages.
LEMMA GotoType ==
  ASSUME TypeOK, RequestShape, NEW r \in Requests, NEW pc \in Pcs, InFlight(r),
         Stage([req[r] EXCEPT !.pc = pc]), Goto(r, pc)
  PROVE  req' \in [Requests -> ReqRecord] /\ RequestShape'
<1>1. req[r] \in ReqRecord /\ Shape(req[r])
  BY DEF TypeOK, RequestShape
<1>2. [req[r] EXCEPT !.pc = pc] \in ReqRecord
  BY <1>1 DEF ReqRecord
<1>3. Shape([req[r] EXCEPT !.pc = pc])
  BY <1>1 DEF Shape, ReqRecord, InFlight
<1> QED BY <1>2, <1>3, BecomeType DEF Goto

\* A step that leaves the other tables alone keeps their types.
LEMMA QuietTypes ==
  ASSUME TypeOK, req' \in [Requests -> ReqRecord], RequestShape',
         UNCHANGED <<tables, registered, ids, mailed>>
  PROVE  TypeOK' /\ RequestShape'
  BY DEF TypeOK, tables, ids

LEMMA StartTypes ==
  ASSUME TypeOK, RequestShape, NEW r \in Requests, NEW q \in ReqRecord,
         q.op \in Operations => Shape(q), Start(r, q)
  PROVE  TypeOK' /\ RequestShape'
  BY BecomeType, QuietTypes DEF Start

LEMMA StartsTypes ==
  ASSUME TypeOK, RequestShape, NEW r \in Requests, Starts(r)
  PROVE  TypeOK' /\ RequestShape'
<1> USE MembershipAssumption
<1>i. Idle \in ReqRecord
  BY IdleIsRecord
<1>1. ASSUME NEW p \in People, NEW role \in Roles, StartInvite(r, p, role)
      PROVE  TypeOK' /\ RequestShape'
  <2> DEFINE q == [Idle EXCEPT !.op = "invite", !.pc = "limit", !.todo = <<p>>, !.role = role]
  <2>1. <<p>> \in Seq(People) /\ Len(<<p>>) = 1 /\ <<p>> # <<>>
    OBVIOUS
  <2>2. q \in ReqRecord
    BY <1>i, <2>1 DEF ReqRecord, Pcs, OperationNames
  <2>3. q.op \in Operations => Shape(q)
    BY <2>1, <2>2 DEF Shape, Stage, ReqRecord, Idle
  <2> QED BY <1>1, <2>2, <2>3, StartTypes DEF StartInvite
<1>2. ASSUME NEW b \in Batches, NEW role \in Roles, StartBulk(r, b, role)
      PROVE  TypeOK' /\ RequestShape'
  <2> DEFINE q == [Idle EXCEPT !.op = "bulk", !.pc = "limit", !.todo = b, !.role = role]
  <2>1. b \in Seq(People) /\ b # <<>>
    BY <1>2 DEF StartBulk
  <2>2. q \in ReqRecord
    BY <1>i, <2>1 DEF ReqRecord, Pcs, OperationNames
  <2>3. q.op \in Operations => Shape(q)
    BY <2>1, <2>2 DEF Shape, Stage, ReqRecord, Idle
  <2> QED BY <1>2, <2>2, <2>3, StartTypes DEF StartBulk
<1>3. ASSUME NEW i \in MemberIds, NEW s \in Settable, StartUpdate(r, i, s)
      PROVE  TypeOK' /\ RequestShape'
  <2> DEFINE q == [Idle EXCEPT !.op = "update", !.pc = "find", !.id = i, !.status = s]
  <2>0. i \in Nat
    BY DEF MemberIds
  <2>1. q \in ReqRecord
    BY <1>i, <2>0 DEF ReqRecord, Pcs, OperationNames
  <2>2. q.op \in Operations => Shape(q)
    BY <2>1 DEF Shape, Stage, ReqRecord, Idle
  <2> QED BY <1>3, <2>1, <2>2, StartTypes DEF StartUpdate
<1>4. ASSUME NEW i \in MemberIds, StartRemove(r, i)
      PROVE  TypeOK' /\ RequestShape'
  <2> DEFINE q == [Idle EXCEPT !.op = "remove", !.pc = "find", !.id = i]
  <2>0. i \in Nat
    BY DEF MemberIds
  <2>1. q \in ReqRecord
    BY <1>i, <2>0 DEF ReqRecord, Pcs, OperationNames
  <2>2. q.op \in Operations => Shape(q)
    BY <2>1 DEF Shape, Stage, ReqRecord, Idle
  <2> QED BY <1>4, <2>1, <2>2, StartTypes DEF StartRemove
<1>5. ASSUME NEW op \in {"accept", "decline"}, NEW p \in People, StartAnswer(r, op, p)
      PROVE  TypeOK' /\ RequestShape'
  <2> DEFINE q == [Idle EXCEPT !.op = op, !.pc = "findInvited", !.who = p]
  <2>1. q \in ReqRecord
    BY <1>i DEF ReqRecord, Pcs, OperationNames
  <2>2. q.op \in Operations => Shape(q)
    BY <2>1 DEF Shape, Stage, ReqRecord, Idle
  <2> QED BY <1>5, <2>1, <2>2, StartTypes DEF StartAnswer
<1>6. ASSUME NEW p \in People, NEW t \in Tokens \cup {0}, StartRegister(r, p, t)
      PROVE  TypeOK' /\ RequestShape'
  <2> DEFINE q == [Idle EXCEPT !.op = "register", !.pc = "createUser", !.who = p, !.token = t]
  <2>0. t \in Nat
    BY DEF Tokens
  <2>1. q \in ReqRecord
    BY <1>i, <2>0 DEF ReqRecord, Pcs, OperationNames
  <2>2. q.op \in Operations => Shape(q)
    BY <2>1 DEF Shape, Stage, ReqRecord, Idle
  <2> QED BY <1>6, <2>1, <2>2, StartTypes DEF StartRegister
<1>7. ASSUME NEW p \in People, NEW t \in Tokens, StartComplete(r, p, t)
      PROVE  TypeOK' /\ RequestShape'
  <2> DEFINE q == [Idle EXCEPT !.op = "complete", !.pc = "findReg", !.who = p, !.token = t]
  <2>0. t \in Nat
    BY DEF Tokens
  <2>1. q \in ReqRecord
    BY <1>i, <2>0 DEF ReqRecord, Pcs, OperationNames
  <2>2. q.op \in Operations => Shape(q)
    BY <2>1 DEF Shape, Stage, ReqRecord, Idle
  <2> QED BY <1>7, <2>1, <2>2, StartTypes DEF StartComplete
<1>8. ASSUME NEW p \in People, NEW t \in Tokens \cup {0}, StartRegisterInto(r, p, t)
      PROVE  TypeOK' /\ RequestShape'
  <2> DEFINE q == [Idle EXCEPT !.op = "registerInto", !.pc = "createJoined", !.who = p,
                               !.token = t]
  <2>0. t \in Nat
    BY DEF Tokens
  <2>1. q \in ReqRecord
    BY <1>i, <2>0 DEF ReqRecord, Pcs, OperationNames
  <2>2. q.op \in Operations => Shape(q)
    BY <2>1 DEF Shape, Stage, ReqRecord, Idle
  <2> QED BY <1>8, <2>1, <2>2, StartTypes DEF StartRegisterInto
<1> QED BY <1>1, <1>2, <1>3, <1>4, <1>5, <1>6, <1>7, <1>8 DEF Starts

-----------------------------------------------------------------------------
(* Steps that only read.                                                   *)

LEMMA TodoType ==
  ASSUME TypeOK, RequestShape, NEW r \in Requests, InFlight(r),
         req[r].op \in {"invite", "bulk"}
  PROVE  Invitee(r) \in People /\ req[r].todo \in Seq(People) /\ req[r].todo # <<>>
<1>1. req[r].todo \in Seq(People) /\ req[r].todo # <<>>
  BY DEF TypeOK, ReqRecord, RequestShape, Shape, InFlight
<1> QED BY <1>1 DEF Invitee

LEMMA LongTail ==
  ASSUME NEW S, NEW s \in Seq(S), s # <<>>, Len(s) # 1
  PROVE  Tail(s) \in Seq(S) /\ Tail(s) # <<>>
<1>1. Len(s) \in Nat \ {0}
  BY EmptySeq
<1>2. Tail(s) \in Seq(S) /\ Len(Tail(s)) = Len(s) - 1
  BY HeadTailProperties
<1>3. Len(<<>>) = 0
  OBVIOUS
<1>4. Len(Tail(s)) # Len(<<>>)
  BY <1>1, <1>2, <1>3
<1> QED BY <1>2, <1>4, Zenon

LEMMA NextInviteeType ==
  ASSUME TypeOK, RequestShape, NEW r \in Requests, InFlight(r),
         req[r].op \in {"invite", "bulk"}, NextInvitee(r)
  PROVE  req' \in [Requests -> ReqRecord] /\ RequestShape'
<1>1. CASE LastInvitee(r)
  BY <1>1, FinishType DEF NextInvitee
<1>2. CASE ~LastInvitee(r)
  <2> DEFINE q == [req[r] EXCEPT !.pc = "exists", !.todo = Tail(@)]
  <2>1. req[r] \in ReqRecord /\ Shape(req[r])
    BY DEF TypeOK, RequestShape
  <2>2. req[r].todo \in Seq(People) /\ req[r].todo # <<>> /\ Len(req[r].todo) # 1
    BY <1>2, TodoType DEF LastInvitee
  <2>3. Tail(req[r].todo) \in Seq(People) /\ Tail(req[r].todo) # <<>>
    BY <2>2, LongTail
  <2>4. q \in ReqRecord
    BY <2>1, <2>3 DEF ReqRecord, Pcs
  <2>5. req[r].op = "bulk"
    BY <2>1, <2>2 DEF Shape, InFlight
  <2>6. q.op = "bulk" /\ q.pc = "exists" /\ q.todo = Tail(req[r].todo)
    BY <2>1, <2>5 DEF ReqRecord
  <2>7. Shape(q)
    <3> HIDE DEF q
    <3> QED BY <2>1, <2>3, <2>5, <2>6 DEF Shape, Stage, InFlight
  <2> QED BY <1>2, <2>4, <2>7, BecomeType DEF NextInvitee
<1> QED BY <1>1, <1>2

LEMMA ReadTypes ==
  ASSUME TypeOK, RequestShape, NEW r \in Requests,
         \/ CheckLimit(r) \/ CheckExists(r) \/ Mail(r) \/ MailFails(r) \/ QueryFails(r) \/ Find(r)
         \/ CountAdmins(r) \/ CheckAdmin(r) \/ FindInvited(r) \/ FindToken(r) \/ FindReg(r)
  PROVE  TypeOK' /\ RequestShape'
<1> USE MembershipAssumption
<1>1. req[r] \in ReqRecord /\ Shape(req[r])
  BY DEF TypeOK, RequestShape
<1>q. UNCHANGED <<tables, registered, ids, mailed>>
  BY DEF CheckLimit, CheckExists, Mail, MailFails, QueryFails, Find, CountAdmins, CheckAdmin,
         FindInvited, FindToken, FindReg
<1> SUFFICES req' \in [Requests -> ReqRecord] /\ RequestShape'
  BY <1>q, QuietTypes
<1>g. \A pc \in Pcs : /\ [req[r] EXCEPT !.pc = pc].op = req[r].op
                       /\ [req[r] EXCEPT !.pc = pc].pc = pc
  BY <1>1 DEF ReqRecord
<1>2. CASE CheckLimit(r)
  BY <1>1, <1>2, <1>g, GotoType, FinishType
     DEF CheckLimit, Shape, Stage, InFlight, Pcs
<1>3. CASE CheckExists(r)
  <2>1. InFlight(r) /\ req[r].op \in {"invite", "bulk"}
    BY <1>1, <1>3 DEF CheckExists, Shape, Stage, InFlight
  <2> QED BY <1>3, <1>g, <2>1, GotoType, FinishType, NextInviteeType
          DEF CheckExists, Stage, Pcs
<1>4. CASE Mail(r)
  BY <1>1, <1>4, <1>g, GotoType DEF Mail, Shape, Stage, InFlight, Pcs
<1>5. CASE MailFails(r) \/ QueryFails(r)
  BY <1>5, FinishType DEF MailFails, QueryFails
<1>6. CASE Find(r)
  BY <1>1, <1>6, <1>g, GotoType, FinishType DEF Find, Shape, Stage, InFlight, Pcs
<1>7. CASE CountAdmins(r)
  <2> DEFINE q == [req[r] EXCEPT !.pc = "checkAdmin", !.admins = Cardinality(Admins)]
  <2>1. IsFiniteSet(Admins)
    <3>1. IsFiniteSet(MemberIds)
      BY FS_Interval, JoinsBounded, MembershipAssumption DEF MemberIds
    <3> QED BY <3>1, FS_Subset DEF Admins
  <2>2. Cardinality(Admins) \in Nat
    BY <2>1, FS_CardinalityType
  <2>3. q \in ReqRecord
    BY <1>1, <2>2 DEF ReqRecord, Pcs
  <2>4. req[r].op = "remove"
    BY <1>1, <1>7 DEF CountAdmins, Shape, Stage
  <2>5. q.op = "remove" /\ q.pc = "checkAdmin" /\ q.todo = req[r].todo
    BY <1>1, <2>4 DEF ReqRecord
  <2>6. Shape(q)
    <3> HIDE DEF q
    <3> QED BY <1>1, <1>7, <2>4, <2>5 DEF Shape, Stage, CountAdmins
  <2> QED BY <1>7, <2>3, <2>6, BecomeType DEF CountAdmins
<1>8. CASE CheckAdmin(r)
  BY <1>1, <1>8, <1>g, GotoType, FinishType DEF CheckAdmin, Shape, Stage, InFlight, Pcs
<1>9. CASE FindInvited(r)
  <2>1. ASSUME NEW i \in Present, NEW pc \in {"activate", "delete"},
               pc = IF req[r].op = "accept" THEN "activate" ELSE "delete",
               Become(r, [req[r] EXCEPT !.id = i, !.pc = pc])
        PROVE  req' \in [Requests -> ReqRecord] /\ RequestShape'
    <3> DEFINE q == [req[r] EXCEPT !.id = i, !.pc = pc]
    <3>1. i \in Nat
      BY DEF Present, MemberIds
    <3>2. q \in ReqRecord
      BY <1>1, <3>1 DEF ReqRecord, Pcs
    <3>3. q.op = req[r].op /\ q.pc = pc /\ q.who = req[r].who /\ q.todo = req[r].todo
      BY <1>1 DEF ReqRecord
    <3>4. Shape(q)
      <4> HIDE DEF q
      <4> QED BY <1>1, <1>9, <2>1, <3>3 DEF Shape, Stage, FindInvited
    <3> QED BY <2>1, <3>2, <3>4, BecomeType
  <2> QED BY <1>9, <2>1, FinishType DEF FindInvited
<1>10. CASE FindToken(r)
  <2>1. ASSUME NEW i \in Present, Become(r, [req[r] EXCEPT !.id = i, !.pc = "join"])
        PROVE  req' \in [Requests -> ReqRecord] /\ RequestShape'
    <3> DEFINE q == [req[r] EXCEPT !.id = i, !.pc = "join"]
    <3>1. i \in Nat
      BY DEF Present, MemberIds
    <3>2. q \in ReqRecord
      BY <1>1, <3>1 DEF ReqRecord, Pcs
    <3>3. q.op = req[r].op /\ q.pc = "join" /\ q.who = req[r].who /\ q.todo = req[r].todo
      BY <1>1 DEF ReqRecord
    <3>4. Shape(q)
      <4> HIDE DEF q
      <4> QED BY <1>1, <1>10, <3>3 DEF Shape, Stage, FindToken
    <3> QED BY <2>1, <3>2, <3>4, BecomeType
  <2> QED BY <1>10, <2>1, FinishType DEF FindToken
<1>11. CASE FindReg(r)
  <2>1. ASSUME NEW g \in RegIds,
               Become(r, [req[r] EXCEPT !.pc = "link", !.reg = g, !.role = regs[g].role])
        PROVE  req' \in [Requests -> ReqRecord] /\ RequestShape'
    <3> DEFINE q == [req[r] EXCEPT !.pc = "link", !.reg = g, !.role = regs[g].role]
    <3>1. g \in Nat /\ regs[g].role \in RoleLists
      BY DEF TypeOK, RegIds, RegRecord
    <3>2. q \in ReqRecord
      BY <1>1, <3>1 DEF ReqRecord, Pcs
    <3>3. q.op = req[r].op /\ q.pc = "link" /\ q.who = req[r].who /\ q.todo = req[r].todo
      BY <1>1 DEF ReqRecord
    <3>4. Shape(q)
      <4> HIDE DEF q
      <4> QED BY <1>1, <1>11, <3>3 DEF Shape, Stage, FindReg
    <3> QED BY <2>1, <3>2, <3>4, BecomeType
  <2> QED BY <1>11, <2>1, FinishType DEF FindReg
<1> QED BY <1>2, <1>3, <1>4, <1>5, <1>6, <1>7, <1>8, <1>9, <1>10, <1>11

-----------------------------------------------------------------------------
(* Steps that write.                                                       *)

\* A row made by an invitation is a row of the table.
LEMMA CreateMemberTypes ==
  ASSUME TypeOK, RequestShape, NEW r \in Requests, NEW row \in MemberRecord, NEW pc \in Pcs,
         InFlight(r), Stage([req[r] EXCEPT !.pc = pc]), CreateMember(r, row, pc)
  PROVE  TypeOK' /\ RequestShape'
<1>1. req[r] \in ReqRecord /\ Shape(req[r])
  BY DEF TypeOK, RequestShape
<1>2. member' \in [MemberIds -> MemberRecord] /\ lastMember' \in Nat
  BY DEF CreateMember, TypeOK
<1>3. req' \in [Requests -> ReqRecord] /\ RequestShape'
  <2> DEFINE q == [req[r] EXCEPT !.pc = pc, !.id = lastMember + 1]
  <2>0. lastMember + 1 \in Nat
    BY DEF TypeOK
  <2>1. q \in ReqRecord
    BY <1>1, <2>0 DEF ReqRecord
  <2>2. /\ q.op = req[r].op /\ q.pc = pc /\ q.who = req[r].who
        /\ q.todo = req[r].todo /\ q.status = req[r].status
    BY <1>1 DEF ReqRecord
  <2>3. Stage(q)
    BY <1>1, <2>2 DEF Stage, ReqRecord
  <2>4. Shape(q)
    <3> HIDE DEF q
    <3> QED BY <1>1, <2>2, <2>3 DEF Shape, InFlight
  <2> QED BY <2>1, <2>4, BecomeType, FinishType DEF CreateMember
<1> QED BY <1>2, <1>3 DEF CreateMember, TypeOK

\* An update of some fields of a row that is there.
LEMMA RowTypes ==
  ASSUME TypeOK, NEW i \in Present
  PROVE  /\ \A s \in Statuses : [member EXCEPT ![i].status = s] \in [MemberIds -> MemberRecord]
         /\ \A b \in BOOLEAN : [member EXCEPT ![i].admin = b] \in [MemberIds -> MemberRecord]
         /\ [member EXCEPT ![i].status = "ACTIVE", ![i].token = 0]
               \in [MemberIds -> MemberRecord]
         /\ \A p \in People : LinkUser(i, p) \in [MemberIds -> MemberRecord]
<1>1. i \in MemberIds /\ member[i] \in MemberRecord
  BY DEF Present, TypeOK
<1>2. /\ \A s \in Statuses : [member[i] EXCEPT !.status = s] \in MemberRecord
      /\ \A b \in BOOLEAN : [member[i] EXCEPT !.admin = b] \in MemberRecord
      /\ [member[i] EXCEPT !.status = "ACTIVE", !.token = 0] \in MemberRecord
      /\ \A p \in People :
           [member[i] EXCEPT !.status = "ACTIVE", !.token = 0, !.user = p] \in MemberRecord
  BY <1>1 DEF MemberRecord, Statuses
<1> QED BY <1>1, <1>2 DEF LinkUser, TypeOK

\* A step that changes member only.
LEMMA MemberTypes ==
  ASSUME TypeOK, req' \in [Requests -> ReqRecord], RequestShape',
         member' \in [MemberIds -> MemberRecord],
         UNCHANGED <<regs, acts, registered, ids, mailed>>
  PROVE  TypeOK' /\ RequestShape'
  BY DEF TypeOK, ids

LEMMA RewriteTypes ==
  ASSUME TypeOK, RequestShape, NEW r \in Requests,
         \/ DropRoles(r) \/ AddRoles(r) \/ SetStatus(r) \/ Activate(r)
         \/ DeleteMember(r) \/ Join(r) \/ Link(r)
  PROVE  TypeOK' /\ RequestShape'
<1> USE MembershipAssumption
<1>1. req[r] \in ReqRecord /\ Shape(req[r])
  BY DEF TypeOK, RequestShape
<1>g. \A pc \in Pcs : /\ [req[r] EXCEPT !.pc = pc].op = req[r].op
                       /\ [req[r] EXCEPT !.pc = pc].pc = pc
  BY <1>1 DEF ReqRecord
<1>m. member \in [MemberIds -> MemberRecord]
  BY DEF TypeOK
<1>2. CASE DropRoles(r)
  <2>1. req' \in [Requests -> ReqRecord] /\ RequestShape'
    BY <1>1, <1>2, <1>g, GotoType, FinishType DEF DropRoles, Shape, Stage, InFlight, Pcs
  <2>2. member' \in [MemberIds -> MemberRecord]
    <3>1. CASE req[r].id \in Present
      <4>1. [member EXCEPT ![req[r].id].admin = FALSE] \in [MemberIds -> MemberRecord]
        BY <3>1, RowTypes
      <4> QED BY <4>1, <1>2, <1>m DEF DropRoles
    <3>2. CASE member' = member
      BY <1>m, <3>2
    <3> QED BY <1>2, <3>1, <3>2 DEF DropRoles
  <2> QED BY <1>2, <2>1, <2>2, MemberTypes DEF DropRoles
<1>3. CASE AddRoles(r)
  <2>1. req' \in [Requests -> ReqRecord] /\ RequestShape'
    BY <1>1, <1>3, <1>g, GotoType, FinishType DEF AddRoles, Shape, Stage, InFlight, Pcs
  <2>2. (req[r].role = "org_admin") \in BOOLEAN
    OBVIOUS
  <2>3. member' \in [MemberIds -> MemberRecord]
    <3>1. CASE req[r].id \in Present
      <4>1. [member EXCEPT ![req[r].id].admin = (req[r].role = "org_admin")]
            \in [MemberIds -> MemberRecord]
        BY <2>2, <3>1, RowTypes
      <4> QED BY <4>1, <1>3, <1>m DEF AddRoles
    <3>2. CASE member' = member
      BY <1>m, <3>2
    <3> QED BY <1>3, <3>1, <3>2 DEF AddRoles
  <2> QED BY <1>3, <2>1, <2>3, MemberTypes DEF AddRoles
<1>4. CASE SetStatus(r)
  <2>1. req' \in [Requests -> ReqRecord] /\ RequestShape'
    BY <1>1, <1>4, <1>g, GotoType, FinishType DEF SetStatus, Shape, Stage, InFlight, Pcs
  <2>2. member' \in [MemberIds -> MemberRecord]
    <3>1. req[r].status \in Statuses
      BY <1>1, <1>4 DEF SetStatus, Shape, Stage
    <3>2. CASE req[r].id \in Present
      <4>1. [member EXCEPT ![req[r].id].status = req[r].status] \in [MemberIds -> MemberRecord]
        BY <3>1, <3>2, RowTypes
      <4> QED BY <4>1, <1>4, <1>m DEF SetStatus
    <3>3. CASE member' = member
      BY <1>m, <3>3
    <3> QED BY <1>4, <3>2, <3>3 DEF SetStatus
  <2> QED BY <1>4, <2>1, <2>2, MemberTypes DEF SetStatus
<1>5. CASE Activate(r)
  <2>1. req' \in [Requests -> ReqRecord] /\ RequestShape'
    BY <1>1, <1>5, <1>g, GotoType, FinishType DEF Activate, Shape, Stage, InFlight, Pcs
  <2>2. member' \in [MemberIds -> MemberRecord]
    <3>1. CASE req[r].id \in Present
      <4>1. [member EXCEPT ![req[r].id].status = "ACTIVE", ![req[r].id].token = 0]
            \in [MemberIds -> MemberRecord]
        BY <3>1, RowTypes
      <4> QED BY <4>1, <1>5, <1>m DEF Activate
    <3>2. CASE member' = member
      BY <1>m, <3>2
    <3> QED BY <1>5, <3>1, <3>2 DEF Activate
  <2> QED BY <1>5, <2>1, <2>2, MemberTypes DEF Activate
<1>6. CASE DeleteMember(r)
  <2>1. req' \in [Requests -> ReqRecord] /\ RequestShape'
    BY <1>1, <1>6, <1>g, GotoType, FinishType DEF DeleteMember, Shape, Stage, InFlight, Pcs
  <2>2. NoMember \in MemberRecord
    BY DEF NoMember, MemberRecord
  <2>3. member' \in [MemberIds -> MemberRecord]
    BY <1>6, <1>m, <2>2 DEF DeleteMember
  <2> QED BY <1>6, <2>1, <2>3, MemberTypes DEF DeleteMember
<1>7. CASE Join(r)
  <2>1. req' \in [Requests -> ReqRecord] /\ RequestShape'
    BY <1>1, <1>7, <1>g, GotoType, FinishType DEF Join, Shape, Stage, InFlight, Pcs
  <2>2. req[r].who \in People
    BY <1>1, <1>7 DEF Join, Shape, Stage
  <2>3. member' \in [MemberIds -> MemberRecord]
    <3>1. CASE req[r].id \in Present
      <4>1. LinkUser(req[r].id, req[r].who) \in [MemberIds -> MemberRecord]
        BY <2>2, <3>1, RowTypes
      <4> QED BY <4>1, <1>7, <1>m DEF Join
    <3>2. CASE member' = member
      BY <1>m, <3>2
    <3> QED BY <1>7, <3>1, <3>2 DEF Join
  <2> QED BY <1>7, <2>1, <2>3, MemberTypes DEF Join
<1>8. CASE Link(r)
  <2>1. req[r].who \in People /\ req[r].op = "complete"
    BY <1>1, <1>8 DEF Link, Shape, Stage
  <2> DEFINE q == [req[r] EXCEPT !.pc = "dropRoles", !.id = req[r].reg]
  <2>2. q \in ReqRecord
    BY <1>1 DEF ReqRecord, Pcs
  <2>3. q.op = "complete" /\ q.pc = "dropRoles" /\ q.who = req[r].who /\ q.todo = req[r].todo
    BY <1>1, <2>1 DEF ReqRecord
  <2>4. Shape(q)
    <3> HIDE DEF q
    <3> QED BY <1>1, <1>8, <2>1, <2>3 DEF Shape, Stage, Link
  <2>5. req' \in [Requests -> ReqRecord] /\ RequestShape'
    <3>1. Finish(r) \/ Become(r, q)
      BY <1>8 DEF Link
    <3> HIDE DEF q
    <3> QED BY <2>2, <2>4, <3>1, BecomeType, FinishType
  <2>6. member' \in [MemberIds -> MemberRecord]
    <3>1. CASE req[r].reg \in Present
      <4>1. LinkUser(req[r].reg, req[r].who) \in [MemberIds -> MemberRecord]
        BY <2>1, <3>1, RowTypes
      <4> QED BY <4>1, <1>8, <1>m DEF Link
    <3>2. CASE member' = member
      BY <1>m, <3>2
    <3> QED BY <1>8, <3>1, <3>2 DEF Link
  <2> QED BY <1>8, <2>5, <2>6, MemberTypes DEF Link
<1> QED BY <1>2, <1>3, <1>4, <1>5, <1>6, <1>7, <1>8

LEMMA OtherTypes ==
  ASSUME TypeOK, RequestShape, NEW r \in Requests,
         \/ LookupUser(r) \/ CreateInvited(r) \/ CreateReg(r) \/ MailReg(r)
         \/ CreatePending(r) \/ TrackActivity(r) \/ CreateUser(r) \/ CreateJoined(r)
         \/ DeleteReg(r) \/ ExpireReg(r)
  PROVE  TypeOK' /\ RequestShape'
<1> USE MembershipAssumption
<1>1. req[r] \in ReqRecord /\ Shape(req[r])
  BY DEF TypeOK, RequestShape
<1>g. \A pc \in Pcs : /\ [req[r] EXCEPT !.pc = pc].op = req[r].op
                       /\ [req[r] EXCEPT !.pc = pc].pc = pc
  BY <1>1 DEF ReqRecord
<1>n. req[r].id \in Nat /\ req[r].token \in Nat /\ req[r].role \in RoleLists
  BY <1>1 DEF ReqRecord
<1>2. CASE LookupUser(r)
  <2>1. req[r].op \in {"invite", "bulk"} /\ InFlight(r)
    BY <1>1, <1>2 DEF LookupUser, Shape, Stage, InFlight
  <2>2. lastToken + 1 \in Nat
    BY DEF TypeOK
  <2>3. PICK pc \in {"createInvited", "createReg"} :
           Become(r, [req[r] EXCEPT !.token = lastToken + 1, !.pc = pc])
    BY <1>2 DEF LookupUser
  <2> DEFINE q == [req[r] EXCEPT !.token = lastToken + 1, !.pc = pc]
  <2>4. q \in ReqRecord
    BY <1>1, <2>2 DEF ReqRecord, Pcs
  <2>5. q.op = req[r].op /\ q.pc = pc /\ q.todo = req[r].todo
    BY <1>1 DEF ReqRecord
  <2>6. Shape(q)
    <3> HIDE DEF q
    <3> QED BY <1>1, <2>1, <2>5 DEF Shape, Stage, InFlight
  <2>7. req' \in [Requests -> ReqRecord] /\ RequestShape'
    BY <2>3, <2>4, <2>6, BecomeType
  <2> QED BY <1>2, <2>2, <2>7 DEF LookupUser, TypeOK, tables
<1>3. CASE CreateInvited(r) \/ CreatePending(r)
  <2>1. req[r].op \in {"invite", "bulk"} /\ InFlight(r)
    BY <1>1, <1>3 DEF CreateInvited, CreatePending, Shape, Stage, InFlight
  <2>2. Invitee(r) \in People
    BY <2>1, TodoType
  <2>3. CASE CreateInvited(r)
    <3>1. [email |-> Invitee(r), user |-> Invitee(r), status |-> "INVITED",
           admin |-> FALSE, token |-> req[r].token] \in MemberRecord
      BY <1>n, <2>2 DEF MemberRecord, Statuses
    <3>2. Stage([req[r] EXCEPT !.pc = "dropRoles"]) /\ "dropRoles" \in Pcs
      BY <1>g, <2>1 DEF Stage, Pcs
    <3> QED BY <2>1, <2>3, <3>1, <3>2, CreateMemberTypes DEF CreateInvited
  <2>4. CASE CreatePending(r)
    <3>1. [email |-> Invitee(r), user |-> NoPerson, status |-> "PENDING_REGISTRATION",
           admin |-> FALSE, token |-> req[r].token] \in MemberRecord
      BY <1>n, <2>2 DEF MemberRecord, Statuses
    <3>2. Stage([req[r] EXCEPT !.pc = "act"]) /\ "act" \in Pcs
      BY <1>g, <2>1 DEF Stage, Pcs
    <3> QED BY <2>1, <2>4, <3>1, <3>2, CreateMemberTypes DEF CreatePending
  <2> QED BY <1>3, <2>3, <2>4
<1>4. CASE CreateReg(r) \/ MailReg(r)
  <2>1. req[r].op \in {"invite", "bulk"} /\ InFlight(r)
    BY <1>1, <1>4 DEF CreateReg, MailReg, Shape, Stage, InFlight
  <2>2. Invitee(r) \in People
    BY <2>1, TodoType
  <2>3. req' \in [Requests -> ReqRecord] /\ RequestShape'
    BY <1>4, <1>g, <2>1, GotoType DEF CreateReg, MailReg, Stage, Pcs
  <2>4. CASE CreateReg(r)
    <3>1. lastReg' \in Nat
      BY <2>4 DEF CreateReg, TypeOK
    <3>2. [email |-> Invitee(r), token |-> req[r].token, role |-> req[r].role] \in RegRecord
      BY <1>n, <2>2 DEF RegRecord
    <3>3. regs' \in [RegIds -> RegRecord]
      BY <2>4, <3>2 DEF CreateReg, TypeOK
    <3> QED BY <2>3, <2>4, <3>1, <3>3 DEF CreateReg, TypeOK
  <2>5. CASE MailReg(r)
    <3>1. mailed' \subseteq People \X Nat
      BY <1>n, <2>2, <2>5 DEF MailReg, TypeOK
    <3> QED BY <2>3, <2>5, <3>1 DEF MailReg, TypeOK, tables, ids
  <2> QED BY <1>4, <2>4, <2>5
<1>5. CASE TrackActivity(r)
  <2>1. req' \in [Requests -> ReqRecord] /\ RequestShape'
    <3>1. InFlight(r)
      BY <1>5 DEF TrackActivity, InFlight
    <3> QED BY <1>5, <3>1, NextInviteeType, FinishType DEF TrackActivity
  <2>2. acts' \subseteq Nat
    BY <1>5, <1>n DEF TrackActivity, TypeOK
  <2> QED BY <1>5, <2>1, <2>2 DEF TrackActivity, TypeOK, ids
<1>6. CASE CreateUser(r)
  <2>1. req[r].op = "register" /\ InFlight(r) /\ req[r].who \in People
    BY <1>1, <1>6 DEF CreateUser, Shape, Stage, InFlight
  <2>2. req' \in [Requests -> ReqRecord] /\ RequestShape'
    BY <1>6, <1>g, <2>1, GotoType, FinishType DEF CreateUser, Stage, Pcs
  <2>3. registered' \subseteq People
    BY <1>6, <1>n, <2>1 DEF CreateUser, TypeOK
  <2> QED BY <1>6, <2>2, <2>3 DEF CreateUser, TypeOK, tables, ids
<1>7. CASE DeleteReg(r)
  <2>1. req[r].op = "complete" /\ InFlight(r)
    BY <1>1, <1>7 DEF DeleteReg, Shape, Stage, InFlight
  <2>2. req' \in [Requests -> ReqRecord] /\ RequestShape'
    BY <1>7, <1>g, <2>1, GotoType, FinishType DEF DeleteReg, Stage, Pcs
  <2>3. NoReg \in RegRecord
    BY DEF NoReg, RegRecord, RoleLists
  <2>4. regs' \in [RegIds -> RegRecord]
    BY <1>7, <2>3 DEF DeleteReg, TypeOK
  <2> QED BY <1>7, <2>2, <2>4 DEF DeleteReg, TypeOK, ids
<1>8. CASE ExpireReg(r)
  <2>1. req' \in [Requests -> ReqRecord] /\ RequestShape'
    BY <1>8, FinishType DEF ExpireReg
  <2>2. NoReg \in RegRecord
    BY DEF NoReg, RegRecord, RoleLists
  <2>3. regs' \in [RegIds -> RegRecord]
    BY <1>8, <2>2 DEF ExpireReg, TypeOK
  <2> QED BY <1>8, <2>1, <2>3 DEF ExpireReg, TypeOK, ids
<1>9. CASE CreateJoined(r)
  <2>1. req[r].op = "registerInto" /\ InFlight(r) /\ req[r].who \in People
    BY <1>1, <1>9 DEF CreateJoined, Shape, Stage, InFlight
  <2>2. req' \in [Requests -> ReqRecord] /\ RequestShape'
    BY <1>9, <1>g, <2>1, GotoType, FinishType DEF CreateJoined, Stage, Pcs
  <2>3. registered' \subseteq People /\ lastMember' \in Nat
    <3>1. CASE registered' = registered /\ lastMember' = lastMember
      BY <3>1 DEF TypeOK
    <3>2. CASE registered' = registered \cup {req[r].who} /\ lastMember' = lastMember + 1
      BY <1>n, <2>1, <3>2 DEF TypeOK
    <3> QED BY <1>9, <3>1, <3>2 DEF CreateJoined
  <2>4. [email |-> req[r].who, user |-> req[r].who, status |-> "ACTIVE",
         admin |-> FALSE, token |-> 0] \in MemberRecord
    BY <2>1 DEF MemberRecord, Statuses
  <2>5. member' \in [MemberIds -> MemberRecord]
    BY <1>9, <2>4 DEF CreateJoined, TypeOK
  <2> QED BY <1>9, <2>2, <2>3, <2>5 DEF CreateJoined, TypeOK
<1> QED BY <1>2, <1>3, <1>4, <1>5, <1>6, <1>7, <1>8, <1>9

-----------------------------------------------------------------------------
LEMMA InitTypes == Init => TypeOK /\ RequestShape
<1> SUFFICES ASSUME Init PROVE TypeOK /\ RequestShape
  OBVIOUS
<1> USE MembershipAssumption
<1>1. req \in [Requests -> ReqRecord] /\ RequestShape
  BY IdleIsRecord DEF Init, RequestShape
<1>2. member \in [MemberIds -> MemberRecord]
  BY DEF Init, NoMember, MemberRecord, Statuses
<1>3. regs \in [RegIds -> RegRecord]
  BY DEF Init, NoReg, RegRecord, RoleLists
<1> QED BY <1>1, <1>2, <1>3 DEF Init, TypeOK

LEMMA NextTypes == TypeOK /\ RequestShape /\ [Next]_vars => TypeOK' /\ RequestShape'
<1> SUFFICES ASSUME TypeOK, RequestShape, [Next]_vars PROVE TypeOK' /\ RequestShape'
  OBVIOUS
<1>1. ASSUME NEW r \in Requests, Starts(r) PROVE TypeOK' /\ RequestShape'
  BY <1>1, StartsTypes
<1>2. ASSUME NEW r \in Requests, Works(r) PROVE TypeOK' /\ RequestShape'
  BY <1>2, ReadTypes, RewriteTypes, OtherTypes DEF Works
<1>3. CASE UNCHANGED vars
  BY <1>3 DEF vars, tables, ids, TypeOK, RequestShape
<1> QED BY <1>1, <1>2, <1>3 DEF Next

\* Types and request shapes hold whatever operations run, however many at once.
THEOREM MembershipTypes == Spec => [](TypeOK /\ RequestShape)
  BY InitTypes, NextTypes, PTL DEF Spec

-----------------------------------------------------------------------------
(* What every step keeps.  Rows keep their numbers and addresses, numbers are *)
(* not used again, and requests that have to be apart stay apart.             *)

\* Rows are numbered in the order they are made.
Numbered == \A i \in Present : i <= lastMember

\* Requests of which one has to be alone do not overlap.
Apart ==
  \A r, s \in Requests : r # s /\ InFlight(r) /\ InFlight(s) => req[r].op \notin Alone

\* No other step adds a row: an update, a link or a deletion is of a row that is there.
LEMMA RowsKept ==
  ASSUME TypeOK, NEW r \in Requests,
         \/ DropRoles(r) \/ AddRoles(r) \/ SetStatus(r) \/ Activate(r)
         \/ DeleteMember(r) \/ Join(r) \/ Link(r)
  PROVE  Present' \subseteq Present /\ lastMember' = lastMember
<1>1. \A x \in MemberIds \ Present : member'[x] = member[x] \/ member'[x] = NoMember
  <2> SUFFICES ASSUME NEW x \in MemberIds, x \notin Present
               PROVE  member'[x] = member[x] \/ member'[x] = NoMember
    OBVIOUS
  <2>m. member \in [MemberIds -> MemberRecord]
    BY DEF TypeOK
  <2>1. CASE DropRoles(r)
    BY <2>1, <2>m DEF DropRoles
  <2>2. CASE AddRoles(r)
    BY <2>2, <2>m DEF AddRoles
  <2>3. CASE SetStatus(r)
    BY <2>3, <2>m DEF SetStatus
  <2>4. CASE Activate(r)
    BY <2>4, <2>m DEF Activate
  <2>5. CASE DeleteMember(r)
    BY <2>5, <2>m DEF DeleteMember
  <2>6. CASE Join(r)
    BY <2>6, <2>m DEF Join, LinkUser
  <2>7. CASE Link(r)
    BY <2>7, <2>m DEF Link, LinkUser
  <2> QED BY <2>1, <2>2, <2>3, <2>4, <2>5, <2>6, <2>7
<1>2. Present' \subseteq Present
  BY <1>1 DEF Present, TypeOK, NoMember
<1> QED BY <1>2 DEF DropRoles, AddRoles, SetStatus, Activate, DeleteMember, Join, Link, ids

\* Rows may go, and new ones take new numbers.
RowsStay ==
  /\ lastMember' \in Nat /\ lastMember' >= lastMember
  /\ \A i \in Present' : IF i <= lastMember
                         THEN i \in Present /\ member'[i].email = member[i].email
                         ELSE i <= lastMember'

\* A new row's number is beyond all others.
LEMMA NewRow ==
  ASSUME TypeOK, Numbered, NEW row, lastMember' = lastMember + 1,
         member' = [member EXCEPT ![lastMember + 1] = row]
  PROVE  RowsStay
<1>1. lastMember \in Nat /\ \A x \in MemberIds : x # lastMember + 1 => member'[x] = member[x]
  BY DEF TypeOK
<1>2. ASSUME NEW i \in Present', i # lastMember + 1
      PROVE  i \in Present /\ i \in Nat /\ i <= lastMember /\ member'[i] = member[i]
  BY <1>1, <1>2 DEF Present, Numbered, MemberIds
<1>3. \A i \in Present' : i \in Nat
  BY DEF Present, MemberIds
<1> QED BY <1>1, <1>2, <1>3 DEF RowsStay

LEMMA SameRows ==
  ASSUME Numbered, TypeOK, member' = member, lastMember' = lastMember
  PROVE  RowsStay
  BY DEF RowsStay, Present, Numbered, TypeOK

\* What an update or a deletion leaves of a row: the address, the user but for a join, the
\* status but for an update of it, and the token unless it is cleared.
Kept(r, x) ==
  /\ member'[x].email = member[x].email
  /\ \/ member'[x].user = member[x].user \/ Link(r)
     \/ Join(r) /\ x = req[r].id /\ member'[x].user = req[r].who
  /\ \/ member'[x].status = member[x].status \/ SetStatus(r) \/ Link(r)
     \/ (Activate(r) \/ Join(r)) /\ x = req[r].id /\ member'[x].status = "ACTIVE"
  /\ member'[x].token \in {member[x].token, 0}

LEMMA KeptRows ==
  ASSUME TypeOK, NEW r \in Requests,
         \/ DropRoles(r) \/ AddRoles(r) \/ SetStatus(r) \/ Activate(r)
         \/ DeleteMember(r) \/ Join(r) \/ Link(r)
  PROVE  \A x \in Present' : Kept(r, x)
<1> SUFFICES ASSUME NEW x \in MemberIds, member'[x].status # "none"
             PROVE  Kept(r, x)
  BY DEF Present
<1>m. member \in [MemberIds -> MemberRecord] /\ member[x] \in MemberRecord
  BY DEF TypeOK
<1>1. CASE DropRoles(r)
  <2>1. \/ member'[x] = member[x]
        \/ x = req[r].id /\ member'[x] = [member[x] EXCEPT !.admin = FALSE]
    BY <1>1, <1>m DEF DropRoles
  <2> QED BY <1>1, <1>m, <2>1 DEF Kept, MemberRecord
<1>2. CASE AddRoles(r)
  <2>1. \/ member'[x] = member[x]
        \/ x = req[r].id /\ member'[x] = [member[x] EXCEPT !.admin = (req[r].role = "org_admin")]
    BY <1>2, <1>m DEF AddRoles
  <2> QED BY <1>2, <1>m, <2>1 DEF Kept, MemberRecord
<1>3. CASE SetStatus(r)
  <2>1. \/ member'[x] = member[x]
        \/ x = req[r].id /\ member'[x] = [member[x] EXCEPT !.status = req[r].status]
    BY <1>3, <1>m DEF SetStatus
  <2> QED BY <1>3, <1>m, <2>1 DEF Kept, MemberRecord
<1>4. CASE Activate(r)
  <2>1. \/ member'[x] = member[x]
        \/ x = req[r].id /\ member'[x] = [member[x] EXCEPT !.status = "ACTIVE", !.token = 0]
    BY <1>4, <1>m DEF Activate
  <2> QED BY <1>4, <1>m, <2>1 DEF Kept, MemberRecord
<1>5. CASE DeleteMember(r)
  <2>1. member'[x] = member[x]
    BY <1>5, <1>m DEF DeleteMember, NoMember
  <2> QED BY <1>5, <1>m, <2>1 DEF Kept, MemberRecord
<1>6. CASE Join(r)
  <2>1. \/ member'[x] = member[x]
        \/ /\ x = req[r].id
           /\ member'[x] = [member[x] EXCEPT !.status = "ACTIVE", !.token = 0, !.user = req[r].who]
    BY <1>6, <1>m DEF Join, LinkUser
  <2> QED BY <1>6, <1>m, <2>1 DEF Kept, MemberRecord
<1>7. CASE Link(r)
  <2>1. \/ member'[x] = member[x]
        \/ /\ x = req[r].reg
           /\ member'[x] = [member[x] EXCEPT !.status = "ACTIVE", !.token = 0, !.user = req[r].who]
    BY <1>7, <1>m DEF Link, LinkUser
  <2> QED BY <1>7, <1>m, <2>1 DEF Kept, MemberRecord
<1> QED BY <1>1, <1>2, <1>3, <1>4, <1>5, <1>6, <1>7

\* Every step leaves the addresses of the rows that stay.
LEMMA StepRows ==
  ASSUME TypeOK, Numbered, NEW r \in Requests, Starts(r) \/ Works(r)
  PROVE  RowsStay
<1>1. CASE Starts(r)
  <2>1. member' = member /\ lastMember' = lastMember
    BY <1>1 DEF Starts, StartInvite, StartBulk, StartUpdate, StartRemove, StartAnswer,
                StartRegister, StartRegisterInto, StartComplete, Start, tables, ids
  <2> QED BY <2>1, SameRows
<1>2. CASE \/ DropRoles(r) \/ AddRoles(r) \/ SetStatus(r) \/ Activate(r)
           \/ DeleteMember(r) \/ Join(r) \/ Link(r)
  <2>1. Present' \subseteq Present /\ lastMember' = lastMember
    BY <1>2, RowsKept
  <2>2. \A x \in Present' : member'[x].email = member[x].email
    BY <1>2, KeptRows DEF Kept
  <2> QED BY <2>1, <2>2 DEF RowsStay, Numbered, TypeOK
<1>3. CASE CreateInvited(r) \/ CreatePending(r) \/ CreateJoined(r)
  <2>1. \/ member' = member /\ lastMember' = lastMember
        \/ \E row : /\ lastMember' = lastMember + 1
                    /\ member' = [member EXCEPT ![lastMember + 1] = row]
    BY <1>3 DEF CreateInvited, CreatePending, CreateJoined, CreateMember
  <2> QED BY <2>1, NewRow, SameRows
<1>4. CASE \/ CheckLimit(r) \/ CheckExists(r) \/ LookupUser(r) \/ CreateReg(r) \/ MailReg(r)
           \/ Mail(r) \/ MailFails(r) \/ QueryFails(r) \/ TrackActivity(r) \/ Find(r) \/ CountAdmins(r)
           \/ CheckAdmin(r) \/ FindInvited(r) \/ CreateUser(r) \/ FindToken(r) \/ FindReg(r)
           \/ ExpireReg(r) \/ DeleteReg(r)
  <2>1. member' = member /\ lastMember' = lastMember
    BY <1>4 DEF CheckLimit, CheckExists, LookupUser, CreateReg, MailReg, Mail, MailFails, QueryFails,
           TrackActivity, Find, CountAdmins, CheckAdmin, FindInvited, CreateUser, FindToken,
           FindReg, ExpireReg, DeleteReg, tables, ids
  <2> QED BY <2>1, SameRows
<1> QED BY <1>1, <1>2, <1>3, <1>4 DEF Works

\* Where requests start.
LEMMA StartsAt ==
  ASSUME NEW r \in Requests, Starts(r)
  PROVE  \E q : /\ Start(r, q)
                /\ \/ q.pc \in {"limit", "find", "findInvited"}
                   \/ q.pc = "findReg" /\ q.who \in registered
                   \/ /\ q.pc \in {"createUser", "createJoined"} /\ q.who \notin registered
                      /\ q.token # 0 => <<q.who, q.token>> \in mailed
                /\ q.todo = <<>> \/ Len(q.todo) = 1 \/ (q.op = "bulk" /\ q.todo \in Batches)
<1> DEFINE Goal(q) ==
             /\ \/ q.pc \in {"limit", "find", "findInvited"}
                \/ q.pc = "findReg" /\ q.who \in registered
                \/ /\ q.pc \in {"createUser", "createJoined"} /\ q.who \notin registered
                   /\ q.token # 0 => <<q.who, q.token>> \in mailed
             /\ q.todo = <<>> \/ Len(q.todo) = 1 \/ (q.op = "bulk" /\ q.todo \in Batches)
<1> SUFFICES \E q : Start(r, q) /\ Goal(q)
  OBVIOUS
<1>1. ASSUME NEW p \in People, NEW role \in Roles, StartInvite(r, p, role)
      PROVE  \E q : Start(r, q) /\ Goal(q)
  <2>1. PICK q : q = [Idle EXCEPT !.op = "invite", !.pc = "limit", !.todo = <<p>>, !.role = role]
    OBVIOUS
  <2>2. q.pc = "limit" /\ Len(q.todo) = 1
    BY <2>1 DEF Idle
  <2> QED BY <1>1, <2>1, <2>2 DEF StartInvite
<1>2. ASSUME NEW b \in Batches, NEW role \in Roles, StartBulk(r, b, role)
      PROVE  \E q : Start(r, q) /\ Goal(q)
  <2>1. PICK q : q = [Idle EXCEPT !.op = "bulk", !.pc = "limit", !.todo = b, !.role = role]
    OBVIOUS
  <2>2. q.pc = "limit" /\ q.op = "bulk" /\ q.todo = b
    BY <2>1 DEF Idle
  <2> QED BY <1>2, <2>1, <2>2 DEF StartBulk
<1>3. ASSUME NEW i \in MemberIds, NEW s \in Settable, StartUpdate(r, i, s)
      PROVE  \E q : Start(r, q) /\ Goal(q)
  <2>1. PICK q : q = [Idle EXCEPT !.op = "update", !.pc = "find", !.id = i, !.status = s]
    OBVIOUS
  <2>2. q.pc = "find" /\ q.todo = <<>>
    BY <2>1 DEF Idle
  <2> QED BY <1>3, <2>1, <2>2 DEF StartUpdate
<1>4. ASSUME NEW i \in MemberIds, StartRemove(r, i) PROVE \E q : Start(r, q) /\ Goal(q)
  <2>1. PICK q : q = [Idle EXCEPT !.op = "remove", !.pc = "find", !.id = i]
    OBVIOUS
  <2>2. q.pc = "find" /\ q.todo = <<>>
    BY <2>1 DEF Idle
  <2> QED BY <1>4, <2>1, <2>2 DEF StartRemove
<1>5. ASSUME NEW op \in {"accept", "decline"}, NEW p \in People, StartAnswer(r, op, p)
      PROVE  \E q : Start(r, q) /\ Goal(q)
  <2>1. PICK q : q = [Idle EXCEPT !.op = op, !.pc = "findInvited", !.who = p]
    OBVIOUS
  <2>2. q.pc = "findInvited" /\ q.todo = <<>>
    BY <2>1 DEF Idle
  <2> QED BY <1>5, <2>1, <2>2 DEF StartAnswer
<1>6. ASSUME NEW p \in People, NEW t \in Tokens \cup {0}, StartRegister(r, p, t)
      PROVE  \E q : Start(r, q) /\ Goal(q)
  <2>1. PICK q : q = [Idle EXCEPT !.op = "register", !.pc = "createUser", !.who = p, !.token = t]
    OBVIOUS
  <2>2. q.pc = "createUser" /\ q.who = p /\ q.token = t /\ q.todo = <<>>
    BY <2>1 DEF Idle
  <2> QED BY <1>6, <2>1, <2>2 DEF StartRegister
<1>7. ASSUME NEW p \in People, NEW t \in Tokens \cup {0}, StartRegisterInto(r, p, t)
      PROVE  \E q : Start(r, q) /\ Goal(q)
  <2>1. PICK q : q = [Idle EXCEPT !.op = "registerInto", !.pc = "createJoined", !.who = p,
                               !.token = t]
    OBVIOUS
  <2>2. q.pc = "createJoined" /\ q.who = p /\ q.token = t /\ q.todo = <<>>
    BY <2>1 DEF Idle
  <2> QED BY <1>7, <2>1, <2>2 DEF StartRegisterInto
<1>8. ASSUME NEW p \in People, NEW t \in Tokens, StartComplete(r, p, t)
      PROVE  \E q : Start(r, q) /\ Goal(q)
  <2>1. PICK q : q = [Idle EXCEPT !.op = "complete", !.pc = "findReg", !.who = p, !.token = t]
    OBVIOUS
  <2>2. q.pc = "findReg" /\ q.who = p /\ q.todo = <<>>
    BY <2>1 DEF Idle
  <2> QED BY <1>8, <2>1, <2>2 DEF StartComplete
<1> HIDE DEF Goal
<1> QED BY <1>1, <1>2, <1>3, <1>4, <1>5, <1>6, <1>7, <1>8 DEF Starts

\* A handler at work writes its own record, and goes on with the invitees it has.
LEMMA StepsOn ==
  ASSUME TypeOK, RequestShape, NEW r \in Requests, Works(r)
  PROVE  /\ InFlight(r)
         /\ \E q : /\ Become(r, q) /\ (q.pc = "idle" \/ q.op = req[r].op)
                   /\ \/ q.todo \in {<<>>, req[r].todo}
                      \/ /\ NextInvitee(r) /\ req[r].op \in {"invite", "bulk"}
                         /\ req[r].pc \in {"exists", "act"}
<1> DEFINE Following == /\ NextInvitee(r) /\ req[r].op \in {"invite", "bulk"}
                        /\ req[r].pc \in {"exists", "act"}
           On == \E q : /\ Become(r, q) /\ (q.pc = "idle" \/ q.op = req[r].op)
                         /\ (q.todo \in {<<>>, req[r].todo} \/ Following)
<1>0. req[r] \in ReqRecord
  BY DEF TypeOK
<1>i. InFlight(r)
  BY DEF Works, CheckLimit, CheckExists, LookupUser, CreateInvited, CreateReg, MailReg,
         CreatePending, DropRoles, AddRoles, Mail, MailFails, QueryFails, TrackActivity, Find, SetStatus,
         CountAdmins, CheckAdmin, DeleteMember, FindInvited, Activate, CreateUser,
         CreateJoined, FindToken, Join, FindReg, ExpireReg, Link, DeleteReg, InFlight
<1> SUFFICES On
  BY <1>i
<1>f. ASSUME Finish(r) PROVE On
  BY <1>f DEF Finish, Idle
<1>g. ASSUME NEW pc, Goto(r, pc) PROVE On
  <2>1. /\ [req[r] EXCEPT !.pc = pc].todo = req[r].todo
        /\ [req[r] EXCEPT !.pc = pc].op = req[r].op
    BY <1>0 DEF ReqRecord
  <2> QED BY <1>g, <2>1 DEF Goto
<1>n. ASSUME Following PROVE On
  <2>1. [req[r] EXCEPT !.pc = "exists", !.todo = Tail(@)].op = req[r].op
    BY <1>0 DEF ReqRecord
  <2> QED BY <1>f, <1>n, <2>1 DEF NextInvitee
<1>h. ASSUME NEW q, Become(r, q), q.todo = req[r].todo, q.op = req[r].op PROVE On
  BY <1>h
<1>1. CASE \/ CheckLimit(r) \/ CreateReg(r) \/ MailReg(r) \/ DropRoles(r) \/ AddRoles(r)
           \/ Mail(r) \/ MailFails(r) \/ QueryFails(r) \/ Find(r) \/ SetStatus(r) \/ CheckAdmin(r)
           \/ DeleteMember(r) \/ Activate(r) \/ CreateUser(r) \/ CreateJoined(r) \/ Join(r)
           \/ ExpireReg(r) \/ DeleteReg(r) \/ CheckExists(r) \/ TrackActivity(r)
  <2>0. Shape(req[r])
    BY DEF RequestShape
  <2>1. Finish(r) \/ Following \/ \E pc : Goto(r, pc)
    BY <1>1, <1>i, <2>0 DEF Shape, Stage, InFlight, CheckLimit, CreateReg, MailReg, DropRoles, AddRoles, Mail, MailFails, QueryFails, Find,
         SetStatus, CheckAdmin, DeleteMember, Activate, CreateUser, CreateJoined, Join,
         ExpireReg, DeleteReg, CheckExists, TrackActivity
  <2> HIDE DEF On
  <2> QED BY <1>f, <1>g, <1>n, <2>1
<1>2. CASE LookupUser(r)
  <2>1. \E pc : Become(r, [req[r] EXCEPT !.token = lastToken + 1, !.pc = pc])
    BY <1>2 DEF LookupUser
  <2>2. \A pc :
           LET q == [req[r] EXCEPT !.token = lastToken + 1, !.pc = pc] IN q.todo = req[r].todo /\ q.op = req[r].op
    BY <1>0 DEF ReqRecord
  <2> HIDE DEF On
  <2> QED BY <1>h, <2>1, <2>2
<1>3. CASE CreateInvited(r) \/ CreatePending(r)
  <2>1. Finish(r) \/ \E pc : Become(r, [req[r] EXCEPT !.pc = pc, !.id = lastMember + 1])
    BY <1>3 DEF CreateInvited, CreatePending, CreateMember
  <2>2. \A pc :
           LET q == [req[r] EXCEPT !.pc = pc, !.id = lastMember + 1] IN q.todo = req[r].todo /\ q.op = req[r].op
    BY <1>0 DEF ReqRecord
  <2> HIDE DEF On
  <2> QED BY <1>f, <1>h, <2>1, <2>2
<1>4. CASE CountAdmins(r)
  <2>1. LET q == [req[r] EXCEPT !.pc = "checkAdmin", !.admins = Cardinality(Admins)]
        IN  q.todo = req[r].todo /\ q.op = req[r].op
    BY <1>0 DEF ReqRecord
  <2> HIDE DEF On
  <2> QED BY <1>4, <1>h, <2>1 DEF CountAdmins
<1>5. CASE FindInvited(r)
  <2>1. Finish(r) \/ \E i, pc : Become(r, [req[r] EXCEPT !.id = i, !.pc = pc])
    BY <1>5 DEF FindInvited
  <2>2. \A i, pc :
           LET q == [req[r] EXCEPT !.id = i, !.pc = pc] IN q.todo = req[r].todo /\ q.op = req[r].op
    BY <1>0 DEF ReqRecord
  <2> HIDE DEF On
  <2> QED BY <1>f, <1>h, <2>1, <2>2
<1>6. CASE FindToken(r)
  <2>1. Finish(r) \/ \E i : Become(r, [req[r] EXCEPT !.id = i, !.pc = "join"])
    BY <1>6 DEF FindToken
  <2>2. \A i :
           LET q == [req[r] EXCEPT !.id = i, !.pc = "join"] IN q.todo = req[r].todo /\ q.op = req[r].op
    BY <1>0 DEF ReqRecord
  <2> HIDE DEF On
  <2> QED BY <1>f, <1>h, <2>1, <2>2
<1>7. CASE FindReg(r)
  <2>1. Finish(r) \/ \E g, role :
                        Become(r, [req[r] EXCEPT !.pc = "link", !.reg = g, !.role = role])
    BY <1>7 DEF FindReg
  <2>2. \A g, role :
           LET q == [req[r] EXCEPT !.pc = "link", !.reg = g, !.role = role] IN q.todo = req[r].todo /\ q.op = req[r].op
    BY <1>0 DEF ReqRecord
  <2> HIDE DEF On
  <2> QED BY <1>f, <1>h, <2>1, <2>2
<1>8. CASE Link(r)
  <2>1. Finish(r) \/ Become(r, [req[r] EXCEPT !.pc = "dropRoles", !.id = req[r].reg])
    BY <1>8 DEF Link
  <2>2. LET q == [req[r] EXCEPT !.pc = "dropRoles", !.id = req[r].reg]
        IN  q.todo = req[r].todo /\ q.op = req[r].op
    BY <1>0 DEF ReqRecord
  <2> HIDE DEF On
  <2> QED BY <1>f, <1>h, <2>1, <2>2
<1> HIDE DEF On, Following
<1> QED BY <1>1, <1>2, <1>3, <1>4, <1>5, <1>6, <1>7, <1>8 DEF Works

\* A step of a request that is in flight starts no other operation.
LEMMA ApartAfter ==
  ASSUME TypeOK, Apart, NEW r \in Requests, InFlight(r), NEW q, Become(r, q),
         q.pc = "idle" \/ q.op = req[r].op
  PROVE  Apart'
<1>1. req'[r] = q /\ \A s \in Requests : s # r => req'[s] = req[s]
  BY DEF Become, TypeOK
<1>2. \A s \in Requests : InFlight(s)' => InFlight(s) /\ req'[s].op = req[s].op
  BY <1>1 DEF InFlight
<1> QED BY <1>2 DEF Apart

LEMMA NextApart == TypeOK /\ RequestShape /\ Apart /\ [Next]_vars => Apart'
<1> SUFFICES ASSUME TypeOK, RequestShape, Apart, [Next]_vars PROVE Apart'
  OBVIOUS
<1>1. CASE UNCHANGED vars
  BY <1>1 DEF vars, Apart, InFlight
<1>2. ASSUME NEW r \in Requests, Starts(r) PROVE Apart'
  <2>1. PICK q : Start(r, q)
    BY <1>2, StartsAt
  <2>2. req'[r] = q /\ \A s \in Requests : s # r => req'[s] = req[s]
    BY <2>1 DEF Start, Become, TypeOK
  <2>3. \A s \in Requests : InFlight(s) => q.op \notin Alone /\ req[s].op \notin Alone
    BY <2>1 DEF Start
  <2> QED BY <2>2, <2>3 DEF Apart, InFlight
<1>3. ASSUME NEW r \in Requests, Works(r) PROVE Apart'
  BY <1>3, StepsOn, ApartAfter
<1> QED BY <1>1, <1>2, <1>3 DEF Next

LEMMA NextNumbered == TypeOK /\ Numbered /\ [Next]_vars => Numbered'
<1> SUFFICES ASSUME TypeOK, Numbered, [Next]_vars PROVE Numbered'
  OBVIOUS
<1>1. CASE UNCHANGED vars
  BY <1>1 DEF vars, tables, ids, Numbered, Present
<1>2. ASSUME NEW r \in Requests, Starts(r) \/ Works(r) PROVE Numbered'
  <2>1. RowsStay /\ lastMember \in Nat /\ \A i \in Present' : i \in Nat
    BY <1>2, StepRows DEF TypeOK, Present, MemberIds
  <2> QED BY <2>1 DEF RowsStay, Numbered
<1> QED BY <1>1, <1>2 DEF Next

LEMMA KeptApart == Spec => [](Apart /\ Numbered)
<1>1. Init => Apart /\ Numbered
  BY DEF Init, Apart, InFlight, Idle, Numbered, Present, MemberIds, NoMember
<1> QED BY <1>1, NextApart, NextNumbered, MembershipTypes, PTL DEF Spec

-----------------------------------------------------------------------------
(* The member limit.  A request that passed checkMemberLimit may create a row *)
(* for each invitee it has left.  The rows, and those it may still create,    *)
(* stay within the limit, the overrun that requests checking together can     *)
(* cause, and the accounts for which nobody asked.                            *)

PastPcs == {"exists", "lookup", "createInvited", "createReg", "mailReg", "createPending"}
CreatedPcs == {"dropRoles", "addRoles", "mailInvited", "act"}

\* The k-th row from the last that a request may still create.
MayCreate(q, k) ==
    \/ q.pc \in PastPcs /\ k <= Len(q.todo)
    \/ q.pc \in CreatedPcs /\ k < Len(q.todo)

Slots(S) == S \X (1 .. LongestBatch)
Claims == {c \in Slots(Requests) : MayCreate(req[c[1]], c[2])}

Allowed == MemberLimit - 1 + Together
Budget == Cardinality(Present) + Cardinality(Claims) <= Allowed + Unasked

LimitInv ==
    /\ Budget
    /\ Creator \in registered
    /\ \A r \in Requests : Len(req[r].todo) <= LongestBatch

\* A set of numbers below some bound has a greatest one.
LEMMA GreatestExists ==
  ASSUME NEW S \in SUBSET Nat, S # {}, NEW n \in Nat, \A x \in S : x <= n
  PROVE  Max(S) \in S /\ \A x \in S : x <= Max(S)
<1> DEFINE U == {m \in Nat : \A x \in S : x <= m}
<1>1. PICK m \in U : \A k \in U : ~(k < m)
  <2>1. U \subseteq Nat /\ U # {}
    OBVIOUS
  <2>2. PICK m \in U : \A k \in U : <<k, m>> \notin OpToRel(<, Nat)
    BY <2>1, NatLessThanWellFounded, WFMin
  <2> QED BY <2>1, <2>2 DEF OpToRel
<1>2. m \in S
  <2> SUFFICES ASSUME m \notin S PROVE FALSE
    OBVIOUS
  <2>1. \A x \in S : x \in Nat /\ x < m
    BY <1>1
  <2>2. PICK x \in S : x \in Nat /\ x < m
    BY <2>1
  <2>3. m - 1 \in Nat /\ m - 1 < m
    BY <1>1, <2>2
  <2>4. m - 1 \in U
    BY <1>1, <2>1, <2>3
  <2> QED BY <1>1, <2>3, <2>4
<1>3. \E x \in S : \A y \in S : x >= y
  BY <1>1, <1>2
<1>4. Max(S) \in S /\ \A y \in S : Max(S) >= y
  BY <1>3 DEF Max
<1> QED BY <1>4

LEMMA BatchesFit ==
  /\ LongestBatch \in Nat /\ LongestBatch >= 1
  /\ "bulk" \in Operations => \A b \in Batches : Len(b) <= LongestBatch
<1> DEFINE S == {Len(b) : b \in Batches} \cup {1}
<1>1. S \in SUBSET Nat /\ \A x \in S : x <= 100
  <2>1. \A b \in Batches : Len(b) \in Nat /\ Len(b) <= 100
    BY MembershipAssumption, LenProperties DEF MaxBatch
  <2> QED BY <2>1
<1>2. 1 \in S /\ \A b \in Batches : Len(b) \in S
  OBVIOUS
<1>3. LongestBatch = IF "bulk" \in Operations THEN Max(S) ELSE 1
  BY DEF LongestBatch
<1> HIDE DEF S
<1>4. Max(S) \in S /\ \A x \in S : x <= Max(S)
  BY <1>1, <1>2, GreatestExists
<1>5. Max(S) \in Nat /\ Max(S) >= 1 /\ \A b \in Batches : Len(b) <= Max(S)
  BY <1>1, <1>2, <1>4
<1> HIDE DEF S
<1> QED BY <1>3, <1>5

LEMMA SlotsFinite ==
  ASSUME NEW S, IsFiniteSet(S)
  PROVE  /\ IsFiniteSet(Slots(S))
         /\ Cardinality(Slots(S)) = Cardinality(S) * LongestBatch
         /\ Cardinality(Slots(S)) \in Nat
<1>1. IsFiniteSet(1 .. LongestBatch) /\ Cardinality(1 .. LongestBatch) = LongestBatch
  BY BatchesFit, FS_Interval
<1> QED BY <1>1, FS_Product, FS_CardinalityType DEF Slots

\* A request that is alone, or every request with one invitation, or with a batch.
LEMMA TogetherFits ==
  /\ Together \in Nat /\ Together >= LongestBatch
  /\ "bulk" \in Operations \ Alone => Together = Cardinality(Requests) * LongestBatch
  /\ "bulk" \notin Operations \ Alone /\ "invite" \notin Alone
     => Together >= Cardinality(Requests)
<1>1. /\ Cardinality(Requests) \in Nat \ {0}
      /\ LongestBatch \in Nat /\ LongestBatch >= 1
  BY MembershipAssumption, FS_CardinalityType, FS_EmptySet, BatchesFit
<1> DEFINE n == Cardinality(Requests)
           single == IF "invite" \in Alone THEN 1 ELSE n
<1>2. Together = IF "bulk" \in Operations \ Alone THEN n * LongestBatch
                 ELSE IF single > LongestBatch THEN single ELSE LongestBatch
  BY DEF Together
<1>3. single \in Nat /\ ("invite" \notin Alone => single = n) /\ n \in Nat /\ n >= 1
  BY <1>1
<1> HIDE DEF n, single
<1>4. n * LongestBatch \in Nat /\ n * LongestBatch >= LongestBatch
  BY <1>1, <1>3
<1>5. CASE "bulk" \in Operations \ Alone
  BY <1>2, <1>4, <1>5 DEF n
<1>6. CASE "bulk" \notin Operations \ Alone
  <2>1. /\ Together \in Nat /\ Together >= LongestBatch
        /\ "invite" \notin Alone => Together >= n
    BY <1>1, <1>2, <1>3, <1>6
  <2> QED BY <1>6, <2>1 DEF n
<1> QED BY <1>5, <1>6

LEMMA FiniteSets ==
  /\ IsFiniteSet(Present) /\ Cardinality(Present) \in Nat
  /\ IsFiniteSet(Claims) /\ Cardinality(Claims) \in Nat
  /\ Cardinality(Requests) \in Nat \ {0} /\ Allowed \in Nat
<1> USE MembershipAssumption
<1>1. IsFiniteSet(Present)
  BY FS_Interval, FS_Subset, JoinsBounded DEF Present, MemberIds
<1>2. IsFiniteSet(Claims)
  BY SlotsFinite, FS_Subset DEF Claims
<1>3. Cardinality(Requests) \in Nat /\ Cardinality(Requests) # 0
  BY FS_CardinalityType, FS_EmptySet
<1>4. Allowed \in Nat
  BY TogetherFits DEF Allowed
<1> QED BY <1>1, <1>2, <1>3, <1>4, FS_CardinalityType

LEMMA UnaskedCounts == TypeOK => Unasked \in Nat
<1> SUFFICES ASSUME TypeOK PROVE Unasked \in Nat
  OBVIOUS
<1>1. IsFiniteSet(registered \ {Creator})
  BY MembershipAssumption, FS_Subset DEF TypeOK
<1> QED BY <1>1, FS_CardinalityType DEF Unasked

LEMMA UnaskedGrows ==
  ASSUME TypeOK, TypeOK', registered \subseteq registered'
  PROVE  Unasked \in Nat /\ Unasked' \in Nat /\ Unasked <= Unasked'
<1>1. IsFiniteSet(registered') /\ IsFiniteSet(registered' \ {Creator})
  BY MembershipAssumption, FS_Subset DEF TypeOK
<1>2. /\ IsFiniteSet(registered \ {Creator})
      /\ Cardinality(registered \ {Creator}) <= Cardinality(registered' \ {Creator})
  BY <1>1, FS_Subset
<1> QED BY <1>1, <1>2, FS_CardinalityType DEF Unasked

\* A row more at most.
LEMMA RowMore ==
  ASSUME NEW x, Present' \subseteq Present \cup {x}
  PROVE  Cardinality(Present') \in Nat /\ Cardinality(Present') <= Cardinality(Present) + 1
<1>1. /\ IsFiniteSet(Present \cup {x})
      /\ \/ Cardinality(Present \cup {x}) = Cardinality(Present)
         \/ Cardinality(Present \cup {x}) = Cardinality(Present) + 1
  <2>1. IsFiniteSet(Present)
    BY FiniteSets
  <2> QED BY <2>1, FS_AddElement
<1>2. /\ IsFiniteSet(Present') /\ Cardinality(Present') <= Cardinality(Present \cup {x})
      /\ Cardinality(Present') \in Nat /\ Cardinality(Present \cup {x}) \in Nat
  BY <1>1, FS_Subset, FS_CardinalityType
<1> QED BY <1>1, <1>2, FiniteSets

\* Nothing is created and nobody may create more.
LEMMA KeepBudget ==
  ASSUME TypeOK, TypeOK', Budget, registered \subseteq registered',
         Present' \subseteq Present, Claims' \subseteq Claims
  PROVE  Budget'
<1>1. /\ Cardinality(Present') <= Cardinality(Present) /\ Cardinality(Present') \in Nat
      /\ Cardinality(Claims') <= Cardinality(Claims) /\ Cardinality(Claims') \in Nat
  BY FiniteSets, FS_Subset, FS_CardinalityType
<1> QED BY <1>1, FiniteSets, UnaskedGrows DEF Budget, Allowed

\* A row is created that was claimed.
LEMMA ClaimBudget ==
  ASSUME TypeOK, TypeOK', Budget, registered' = registered, NEW c \in Claims,
         NEW x, Present' \subseteq Present \cup {x}, Claims' \subseteq Claims \ {c}
  PROVE  Budget'
<1>1. IsFiniteSet(Claims \ {c}) /\ Cardinality(Claims \ {c}) = Cardinality(Claims) - 1
  BY FiniteSets, FS_RemoveElement
<1>2. Cardinality(Claims') <= Cardinality(Claims) - 1 /\ Cardinality(Claims') \in Nat
  BY <1>1, FS_Subset, FS_CardinalityType
<1>3. Unasked' = Unasked /\ Unasked \in Nat /\ Allowed' = Allowed
  BY UnaskedCounts DEF Unasked, Allowed
<1>4. Cardinality(Present') \in Nat /\ Cardinality(Present') <= Cardinality(Present) + 1
  BY RowMore
<1> QED BY <1>2, <1>3, <1>4, FiniteSets DEF Budget

\* A row is created with an account.
LEMMA AccountBudget ==
  ASSUME TypeOK, Budget, Creator \in registered, "registerInto" \in Operations,
         NEW p, p \notin registered, registered' = registered \cup {p},
         NEW x, Present' \subseteq Present \cup {x}, Claims' \subseteq Claims
  PROVE  Budget'
<1> DEFINE R == registered \ {Creator}
<1>1. registered' \ {Creator} = R \cup {p} /\ p \notin R
  OBVIOUS
<1>2. IsFiniteSet(R)
  BY MembershipAssumption, FS_Subset DEF TypeOK
<1> HIDE DEF R
<1>3. Cardinality(R \cup {p}) = Cardinality(R) + 1 /\ Cardinality(R) \in Nat
  BY <1>1, <1>2, FS_AddElement, FS_CardinalityType
<1>4. Unasked' = Unasked + 1 /\ Unasked \in Nat
  BY <1>1, <1>3 DEF Unasked, R
<1>5. Cardinality(Claims') <= Cardinality(Claims) /\ Cardinality(Claims') \in Nat
  BY FiniteSets, FS_Subset, FS_CardinalityType
<1>6. Cardinality(Present') \in Nat /\ Cardinality(Present') <= Cardinality(Present) + 1
  BY RowMore
<1>7. Allowed' = Allowed
  BY DEF Allowed
<1> QED BY <1>4, <1>5, <1>6, <1>7, FiniteSets DEF Budget

\* The check, with one row to spare: no more rows are claimed after it than the requests
\* that pass it together can claim.
LEMMA CheckBudget ==
  ASSUME TypeOK, TypeOK', UnderLimit, registered' = registered, Present' = Present,
         Cardinality(Claims') <= Together
  PROVE  Budget'
<1> USE MembershipAssumption
<1>1. Cardinality(Claims') \in Nat
  <2>1. IsFiniteSet(Slots(Requests)) /\ Claims' \subseteq Slots(Requests)
    BY SlotsFinite DEF Claims
  <2> QED BY <2>1, FS_Subset, FS_CardinalityType
<1>2. Allowed = MemberLimit - 1 + Together /\ Together \in Nat
  BY TogetherFits DEF Allowed
<1>3. Cardinality(Present) <= MemberLimit - 1
  BY FiniteSets DEF UnderLimit
<1>4. Allowed' = Allowed
  BY DEF Allowed, Together, LongestBatch
<1> QED BY <1>1, <1>2, <1>3, <1>4, FiniteSets, UnaskedGrows DEF Budget

-----------------------------------------------------------------------------
\* What a step of one request does to the claims.
LEMMA ClaimsAfter ==
  ASSUME TypeOK, NEW r \in Requests, NEW q, Become(r, q)
  PROVE  \A c \in Claims' : /\ c \in Slots(Requests) /\ c[2] \in 1 .. LongestBatch
                            /\ IF c[1] = r THEN MayCreate(q, c[2]) ELSE c \in Claims
<1>1. \A s \in Requests : req'[s] = IF s = r THEN q ELSE req[s]
  BY DEF Become, TypeOK
<1>2. ASSUME NEW c \in Claims'
      PROVE  /\ c \in Slots(Requests) /\ c[1] \in Requests /\ c[2] \in 1 .. LongestBatch
             /\ MayCreate(req'[c[1]], c[2])
  BY <1>2 DEF Claims, Slots, MayCreate
<1> QED BY <1>1, <1>2 DEF Claims

LEMMA ClaimsKept ==
  ASSUME TypeOK, NEW r \in Requests, NEW q, Become(r, q),
         \A k \in 1 .. LongestBatch : MayCreate(q, k) => MayCreate(req[r], k)
  PROVE  Claims' \subseteq Claims
<1>1. ASSUME NEW c \in Claims', c[1] = r PROVE c \in Claims
  BY <1>1, ClaimsAfter DEF Claims
<1>2. ASSUME NEW c \in Claims', c[1] # r PROVE c \in Claims
  BY <1>2, ClaimsAfter
<1> QED BY <1>1, <1>2

\* A handler that ends, or works without a list of invitees, claims nothing.
LEMMA NothingClaimed ==
  ASSUME NEW q, q.todo = <<>> \/ q.pc \notin PastPcs \cup CreatedPcs
  PROVE  \A k \in 1 .. LongestBatch : ~MayCreate(q, k)
<1>1. CASE q.todo = <<>>
  <2>1. Len(q.todo) = 0
    BY <1>1
  <2> QED BY <2>1, BatchesFit DEF MayCreate
<1>2. CASE q.pc \notin PastPcs \cup CreatedPcs
  BY <1>2 DEF MayCreate
<1> QED BY <1>1, <1>2

\* Where a handler with invitees goes, but for the check and the creations.
LEMMA InvitePcs ==
  ASSUME TypeOK, RequestShape, NEW r \in Requests, Works(r),
         req[r].op \in {"invite", "bulk"},
         NextInvitee(r) => req[r].pc \notin {"exists", "act"},
         ~CheckLimit(r), ~CreateInvited(r), ~CreatePending(r)
  PROVE  /\ req'[r].pc \in PastPcs => req[r].pc \in PastPcs
         /\ req'[r].pc \in CreatedPcs => req[r].pc \in CreatedPcs
<1>0. req[r] \in ReqRecord /\ Shape(req[r]) /\ InFlight(r)
  BY StepsOn DEF TypeOK, RequestShape
<1>1. Stage(req[r]) /\ req[r].op \in {"invite", "bulk"}
  BY <1>0 DEF Shape, InFlight
<1>f. ASSUME Finish(r) PROVE req'[r].pc = "idle"
  BY <1>f DEF Finish, Become, TypeOK, Idle
<1>g. ASSUME NEW pc, Goto(r, pc) PROVE req'[r].pc = pc
  BY <1>0, <1>g DEF Goto, Become, TypeOK, ReqRecord
<1>2. CASE CheckExists(r)
  <2>1. req[r].pc \in PastPcs /\ (req'[r].pc = "idle" \/ req'[r].pc = "lookup")
    BY <1>2, <1>f, <1>g DEF CheckExists, PastPcs
  <2> QED BY <2>1 DEF PastPcs, CreatedPcs
<1>3. CASE LookupUser(r)
  <2>1. req[r].pc \in PastPcs
    BY <1>3 DEF LookupUser, PastPcs
  <2>2. \E pc \in {"createInvited", "createReg"} :
           Become(r, [req[r] EXCEPT !.token = lastToken + 1, !.pc = pc])
    BY <1>3 DEF LookupUser
  <2>3. req'[r].pc \in {"createInvited", "createReg"}
    BY <1>0, <2>2 DEF Become, TypeOK, ReqRecord
  <2> QED BY <2>1, <2>3 DEF PastPcs, CreatedPcs
<1>4. CASE CreateReg(r) \/ MailReg(r)
  <2>1. req[r].pc \in PastPcs /\ req'[r].pc \in {"mailReg", "createPending"}
    BY <1>4, <1>g DEF CreateReg, MailReg, PastPcs
  <2> QED BY <2>1 DEF PastPcs, CreatedPcs
<1>5. CASE DropRoles(r) \/ AddRoles(r) \/ Mail(r) \/ TrackActivity(r)
  <2>1. req[r].pc \in CreatedPcs
    BY <1>1, <1>5 DEF DropRoles, AddRoles, Mail, TrackActivity, CreatedPcs, Stage
  <2>2. req'[r].pc \in {"idle", "addRoles", "deleteReg", "mailInvited", "act"}
    BY <1>1, <1>5, <1>f, <1>g DEF DropRoles, AddRoles, Mail, TrackActivity
  <2> QED BY <2>1, <2>2 DEF PastPcs, CreatedPcs
<1>6. CASE MailFails(r) \/ QueryFails(r)
  BY <1>6, <1>f DEF MailFails, QueryFails, PastPcs, CreatedPcs
<1>7. CASE \/ Find(r) \/ SetStatus(r) \/ CountAdmins(r) \/ CheckAdmin(r) \/ DeleteMember(r)
           \/ FindInvited(r) \/ Activate(r) \/ CreateUser(r) \/ CreateJoined(r) \/ FindToken(r)
           \/ Join(r) \/ FindReg(r) \/ ExpireReg(r) \/ Link(r) \/ DeleteReg(r)
  BY <1>1, <1>7 DEF Find, SetStatus, CountAdmins, CheckAdmin, DeleteMember, FindInvited,
         Activate, CreateUser, CreateJoined, FindToken, Join, FindReg, ExpireReg, Link,
         DeleteReg, Stage
<1> QED BY <1>2, <1>3, <1>4, <1>5, <1>6, <1>7 DEF Works

LEMMA TodoShort ==
  ASSUME TypeOK, RequestShape, NEW r \in Requests, InFlight(r),
         req[r].op \in {"invite", "bulk"}, ~LastInvitee(r)
  PROVE  Len(Tail(req[r].todo)) = Len(req[r].todo) - 1 /\ Len(req[r].todo) \in Nat
<1>1. req[r].todo \in Seq(People) /\ req[r].todo # <<>>
  BY TodoType
<1> QED BY <1>1, HeadTailProperties, LenProperties

\* No step but the check adds to what may be created, or to the invitees of a request.
LEMMA StepsKeepClaims ==
  ASSUME TypeOK, RequestShape, NEW r \in Requests, Works(r),
         ~CheckLimit(r), ~CreateInvited(r), ~CreatePending(r)
  PROVE  Claims' \subseteq Claims
<1>0. req[r] \in ReqRecord /\ Shape(req[r]) /\ InFlight(r)
  BY StepsOn DEF TypeOK, RequestShape
<1>1. PICK q : /\ Become(r, q)
               /\ \/ q.todo \in {<<>>, req[r].todo}
                  \/ /\ NextInvitee(r) /\ req[r].op \in {"invite", "bulk"}
                     /\ req[r].pc \in {"exists", "act"}
  BY StepsOn
<1>2. CASE q.todo = <<>>
  BY <1>1, <1>2, NothingClaimed, ClaimsKept
<1>3. CASE NextInvitee(r) /\ req[r].op \in {"invite", "bulk"} /\ req[r].pc \in {"exists", "act"}
  <2>1. CASE LastInvitee(r)
    <3>1. Become(r, Idle) /\ Idle.todo = <<>>
      BY <1>3, <2>1 DEF NextInvitee, Finish, Idle
    <3> QED BY <3>1, NothingClaimed, ClaimsKept
  <2>2. CASE ~LastInvitee(r)
    <3> DEFINE p == [req[r] EXCEPT !.pc = "exists", !.todo = Tail(@)]
    <3>1. Become(r, p)
      BY <1>3, <2>2 DEF NextInvitee
    <3>2. p.pc = "exists" /\ p.todo = Tail(req[r].todo)
      BY <1>0 DEF ReqRecord
    <3> HIDE DEF p
    <3>3. Len(p.todo) = Len(req[r].todo) - 1 /\ Len(req[r].todo) \in Nat
      BY <1>0, <1>3, <2>2, <3>2, TodoShort
    <3>4. \A k \in 1 .. LongestBatch : MayCreate(p, k) => MayCreate(req[r], k)
      BY <1>3, <3>2, <3>3 DEF MayCreate, PastPcs, CreatedPcs
    <3> QED BY <3>1, <3>4, ClaimsKept
  <2> QED BY <2>1, <2>2
<1>4. CASE /\ q.todo = req[r].todo /\ req[r].op \in {"invite", "bulk"}
           /\ NextInvitee(r) => req[r].pc \notin {"exists", "act"}
  <2>1. req'[r] = q
    BY <1>1 DEF Become, TypeOK
  <2>2. \A k \in 1 .. LongestBatch : MayCreate(q, k) => MayCreate(req[r], k)
    BY <1>4, <2>1, InvitePcs DEF MayCreate
  <2> QED BY <1>1, <2>2, ClaimsKept
<1>5. CASE q.todo = req[r].todo /\ req[r].op \notin {"invite", "bulk"}
  BY <1>0, <1>2, <1>5 DEF Shape, InFlight
<1> QED BY <1>1, <1>2, <1>3, <1>4, <1>5

LEMMA TodoAfter ==
  ASSUME TypeOK, RequestShape, \A s \in Requests : Len(req[s].todo) <= LongestBatch,
         NEW r \in Requests, Works(r)
  PROVE  \A s \in Requests : Len(req'[s].todo) <= LongestBatch
<1>f. InFlight(r) /\ req[r] \in ReqRecord
  BY StepsOn DEF TypeOK
<1>1. ASSUME NEW q, Become(r, q), Len(q.todo) <= LongestBatch
      PROVE  \A s \in Requests : Len(req'[s].todo) <= LongestBatch
  BY <1>1 DEF Become, TypeOK
<1>2. PICK q : /\ Become(r, q)
               /\ \/ q.todo \in {<<>>, req[r].todo}
                  \/ /\ NextInvitee(r) /\ req[r].op \in {"invite", "bulk"}
                     /\ req[r].pc \in {"exists", "act"}
  BY StepsOn
<1>e. ASSUME NEW p, p.todo = <<>> PROVE Len(p.todo) <= LongestBatch
  <2>1. Len(p.todo) = 0
    BY <1>e
  <2> QED BY <2>1, BatchesFit
<1>3. CASE q.todo \in {<<>>, req[r].todo}
  BY <1>1, <1>2, <1>3, <1>e
<1>4. CASE NextInvitee(r) /\ req[r].op \in {"invite", "bulk"}
  <2>1. CASE LastInvitee(r)
    <3>1. Become(r, Idle) /\ Idle.todo = <<>>
      BY <1>4, <2>1 DEF NextInvitee, Finish, Idle
    <3> QED BY <1>1, <1>e, <3>1
  <2>2. CASE ~LastInvitee(r)
    <3> DEFINE p == [req[r] EXCEPT !.pc = "exists", !.todo = Tail(@)]
    <3>1. Become(r, p)
      BY <1>4, <2>2 DEF NextInvitee
    <3>2. p.todo = Tail(req[r].todo)
      BY <1>f DEF ReqRecord
    <3> HIDE DEF p
    <3>3. Len(p.todo) = Len(req[r].todo) - 1 /\ Len(req[r].todo) \in Nat
      BY <1>f, <1>4, <2>2, <3>2, TodoShort
    <3>4. Len(p.todo) <= LongestBatch
      BY <3>3, BatchesFit
    <3> QED BY <1>1, <3>1, <3>4
  <2> QED BY <2>1, <2>2
<1> QED BY <1>2, <1>3, <1>4

\* The claims are those of one request, or of one invitation for each request, or any.
ClaimsFit == Cardinality(Claims) <= Together

LEMMA ClaimsCounted == TypeOK /\ RequestShape /\ Apart => ClaimsFit
<1> SUFFICES ASSUME TypeOK, RequestShape, Apart PROVE Cardinality(Claims) <= Together
  BY DEF ClaimsFit
<1>0. \A c \in Claims : /\ c \in Slots(Requests) /\ c[1] \in Requests
                        /\ c[2] \in 1 .. LongestBatch /\ MayCreate(req[c[1]], c[2])
  BY DEF Claims, Slots, MayCreate
<1>1. \A c \in Claims : /\ InFlight(c[1])
                        /\ req[c[1]].op \in {"invite", "bulk"} \cap Operations
                        /\ req[c[1]].op = "invite" => c[2] = 1
  <2>1. \A s \in Requests : \A k \in 1 .. LongestBatch : MayCreate(req[s], k) =>
          /\ InFlight(s) /\ req[s].op \in {"invite", "bulk"} \cap Operations
          /\ req[s].op = "invite" => k = 1
    <3> SUFFICES ASSUME NEW s \in Requests, NEW k \in 1 .. LongestBatch, MayCreate(req[s], k)
                 PROVE  /\ req[s].pc # "idle"
                        /\ req[s].op \in {"invite", "bulk"} \cap Operations
                        /\ req[s].op = "invite" => k = 1
      BY DEF InFlight
    <3>1. /\ Shape(req[s]) /\ req[s].pc # "idle"
          /\ k \in Nat /\ k >= 1 /\ k <= Len(req[s].todo)
      <4>1. k \in Nat /\ k >= 1 /\ Len(req[s].todo) \in Nat
        BY BatchesFit, LenProperties DEF TypeOK, ReqRecord
      <4>2. Shape(req[s])
        BY DEF RequestShape, Shape, Stage
      <4> QED BY <4>1, <4>2 DEF MayCreate, PastPcs, CreatedPcs
    <3>2. req[s].todo # <<>>
      <4>1. ASSUME req[s].todo = <<>> PROVE Len(req[s].todo) = 0
        BY <4>1
      <4> QED BY <3>1, <4>1
    <3>3. req[s].op \in {"invite", "bulk"} /\ req[s].op \in Operations
      BY <3>1, <3>2 DEF Shape
    <3>4. ASSUME req[s].op = "invite" PROVE k = 1
      <4>1. Len(req[s].todo) = 1
        BY <3>1, <3>4 DEF Shape
      <4> QED BY <3>1, <4>1
    <3>5. req[s].op \in {"invite", "bulk"} \cap Operations
      BY <3>3
    <3> QED BY <3>1, <3>4, <3>5
  <2> QED BY <1>0, <2>1
<1>2. CASE "bulk" \in Operations \ Alone
  <2>1. IsFiniteSet(Slots(Requests)) /\ Claims \subseteq Slots(Requests)
    BY SlotsFinite, MembershipAssumption DEF Claims
  <2>2. Cardinality(Claims) <= Cardinality(Slots(Requests))
    BY <2>1, FS_Subset
  <2> QED BY <1>2, <2>2, SlotsFinite, TogetherFits, MembershipAssumption
<1>3. CASE \E c \in Claims : req[c[1]].op \in Alone
  <2>1. PICK d \in Claims : req[d[1]].op \in Alone
    BY <1>3
  <2> DEFINE s == d[1]
  <2>2. s \in Requests /\ req[s].pc # "idle" /\ req[s].op \in Alone
    BY <1>0, <1>1, <2>1 DEF InFlight
  <2>3. ASSUME NEW c \in Claims PROVE c \in Slots({s})
    <3>1. c \in Slots(Requests) /\ c[1] \in Requests /\ req[c[1]].pc # "idle"
      BY <1>0, <1>1 DEF InFlight
    <3>2. c[1] = s
      BY <2>2, <3>1 DEF Apart, InFlight
    <3> QED BY <3>1, <3>2 DEF Slots
  <2> HIDE DEF s
  <2>4. IsFiniteSet({s}) /\ Cardinality({s}) = 1
    BY FS_Singleton
  <2>5. IsFiniteSet(Slots({s})) /\ Cardinality(Slots({s})) = 1 * LongestBatch
    BY <2>4, SlotsFinite
  <2>6. Cardinality(Claims) <= Cardinality(Slots({s}))
    BY <2>3, <2>5, FS_Subset
  <2>7. Cardinality(Claims) \in Nat /\ LongestBatch \in Nat
    BY <2>3, <2>5, FS_Subset, FS_CardinalityType, BatchesFit
  <2> QED BY <2>5, <2>6, <2>7, TogetherFits
<1>4. CASE "bulk" \notin Operations \ Alone /\ \A c \in Claims : req[c[1]].op \notin Alone
  <2>1. CASE Claims = {}
    <3>1. Cardinality(Claims) = 0
      BY <2>1, FS_EmptySet
    <3> QED BY <3>1, TogetherFits, MembershipAssumption, FS_CardinalityType
  <2>2. CASE Claims # {}
    <3>1. ASSUME NEW c \in Claims PROVE req[c[1]].op = "invite" /\ c[2] = 1
      <4>1. req[c[1]].op \in {"invite", "bulk"} \cap Operations /\ req[c[1]].op \notin Alone
        BY <1>1, <1>4
      <4>2. req[c[1]].op = "invite"
        BY <1>4, <4>1
      <4> QED BY <1>1, <4>2
    <3>2. "invite" \notin Alone
      BY <1>4, <2>2, <3>1
    <3>3. \A c \in Claims : c \in Requests \X {1}
      BY <1>0, <3>1 DEF Slots
    <3>4. IsFiniteSet({1}) /\ Cardinality({1}) = 1
      BY FS_Singleton
    <3>5. /\ IsFiniteSet(Requests \X {1})
          /\ Cardinality(Requests \X {1}) = Cardinality(Requests) * 1
      BY <3>4, FS_Product, MembershipAssumption
    <3>6. Cardinality(Claims) <= Cardinality(Requests \X {1})
      BY <3>3, <3>5, FS_Subset
    <3>7. Cardinality(Claims) \in Nat /\ Cardinality(Requests) \in Nat
      BY <3>3, <3>5, FS_Subset, FS_CardinalityType, MembershipAssumption
    <3> QED BY <1>4, <3>2, <3>5, <3>6, <3>7, TogetherFits
  <2> QED BY <2>1, <2>2
<1> QED BY <1>2, <1>3, <1>4

LEMMA CheckStep ==
  ASSUME TypeOK, TypeOK', LimitInv, ClaimsFit', NEW r \in Requests, CheckLimit(r)
  PROVE  Budget'
<1>p. Present' = Present /\ registered' = registered
  BY DEF CheckLimit, Present, tables
<1>1. CASE Finish(r)
  <2>1. Claims' \subseteq Claims
    BY <1>1, NothingClaimed, ClaimsKept DEF Finish, Idle
  <2> QED BY <1>p, <2>1, KeepBudget DEF LimitInv
<1>2. CASE UnderLimit /\ Goto(r, "exists")
  BY <1>2, <1>p, CheckBudget DEF ClaimsFit
<1> QED BY <1>1, <1>2 DEF CheckLimit

\* A row that is created was claimed: it is the last one the request had left.
LEMMA CreateStep ==
  ASSUME TypeOK, TypeOK', RequestShape, LimitInv, NEW r \in Requests,
         CreateInvited(r) \/ CreatePending(r)
  PROVE  Budget'
<1>0. req[r] \in ReqRecord /\ Shape(req[r]) /\ InFlight(r) /\ req[r].pc \in PastPcs
  BY DEF TypeOK, RequestShape, CreateInvited, CreatePending, InFlight, PastPcs
<1>1. req[r].op \in {"invite", "bulk"}
  BY <1>0 DEF Shape, Stage, CreateInvited, CreatePending, InFlight
<1>2. PICK row, pc : CreateMember(r, row, pc) /\ pc \in {"dropRoles", "act"}
  BY DEF CreateInvited, CreatePending
<1>r. registered' = registered
  BY <1>2 DEF CreateMember
<1>3. CASE Finish(r) /\ member' = member
  <2>1. Claims' \subseteq Claims
    BY <1>3, NothingClaimed, ClaimsKept DEF Finish, Idle
  <2>2. Present' = Present
    BY <1>3 DEF Present
  <2> QED BY <1>r, <2>1, <2>2, KeepBudget DEF LimitInv
<1>4. CASE /\ member' = [member EXCEPT ![lastMember + 1] = row]
           /\ Become(r, [req[r] EXCEPT !.pc = pc, !.id = lastMember + 1])
  <2> DEFINE q == [req[r] EXCEPT !.pc = pc, !.id = lastMember + 1]
             c == <<r, Len(req[r].todo)>>
  <2>1. Become(r, q) /\ q.pc = pc /\ q.todo = req[r].todo
    BY <1>0, <1>4 DEF ReqRecord
  <2>2. Len(req[r].todo) \in 1 .. LongestBatch
    <3>1. req[r].todo \in Seq(People) /\ req[r].todo # <<>>
      BY <1>0, <1>1, TodoType
    <3>2. Len(req[r].todo) \in Nat /\ Len(req[r].todo) # 0
      BY <3>1, LenProperties
    <3> QED BY <3>2, BatchesFit DEF LimitInv
  <2> HIDE DEF q
  <2>3. c \in Claims
    BY <1>0, <2>2 DEF Claims, Slots, MayCreate
  <2>4. \A k \in 1 .. LongestBatch :
           MayCreate(q, k) => MayCreate(req[r], k) /\ k # Len(req[r].todo)
    BY <1>0, <1>2, <2>1, <2>2 DEF MayCreate, PastPcs, CreatedPcs
  <2>5. Claims' \subseteq Claims
    BY <2>1, <2>4, ClaimsKept
  <2>6. c \notin Claims'
    BY <2>1, <2>2, <2>4, ClaimsAfter
  <2>7. Present' \subseteq Present \cup {lastMember + 1}
    BY <1>4 DEF Present, TypeOK
  <2> HIDE DEF c
  <2> QED BY <1>r, <2>3, <2>5, <2>6, <2>7, ClaimBudget DEF LimitInv
<1> QED BY <1>2, <1>3, <1>4 DEF CreateMember

\* A row made by registering comes with a new account.
LEMMA JoinedStep ==
  ASSUME TypeOK, TypeOK', RequestShape, LimitInv, NEW r \in Requests, CreateJoined(r)
  PROVE  Budget'
<1>1. Claims' \subseteq Claims
  BY StepsKeepClaims DEF Works, CreateJoined, CheckLimit, CreateInvited, CreatePending
<1>2. CASE registered' = registered /\ member' = member
  <2>1. Present' = Present
    BY <1>2 DEF Present
  <2> QED BY <1>1, <1>2, <2>1, KeepBudget DEF LimitInv
<1>3. CASE /\ req[r].who \notin registered /\ registered' = registered \cup {req[r].who}
           /\ \E row : member' = [member EXCEPT ![lastMember + 1] = row]
  <2>1. Present' \subseteq Present \cup {lastMember + 1}
    BY <1>3 DEF Present, TypeOK
  <2>2. "registerInto" \in Operations
    BY DEF RequestShape, Shape, Stage, CreateJoined
  <2> QED BY <1>1, <1>3, <2>1, <2>2, AccountBudget DEF LimitInv
<1> QED BY <1>2, <1>3 DEF CreateJoined

LEMMA WorksLimit ==
  ASSUME TypeOK, TypeOK', RequestShape, LimitInv, ClaimsFit', NEW r \in Requests, Works(r)
  PROVE  LimitInv'
<1>1. registered \subseteq registered'
  BY DEF Works, CheckLimit, CheckExists, LookupUser, CreateInvited, CreateReg, MailReg,
         CreatePending, CreateMember, DropRoles, AddRoles, Mail, MailFails, QueryFails, TrackActivity,
         Find, SetStatus, CountAdmins, CheckAdmin, DeleteMember, FindInvited, Activate,
         CreateUser, CreateJoined, FindToken, Join, FindReg, ExpireReg, Link, DeleteReg
<1>2. Budget'
  <2>1. CASE CheckLimit(r)
    BY <2>1, CheckStep
  <2>2. CASE CreateInvited(r) \/ CreatePending(r)
    BY <2>2, CreateStep
  <2>3. CASE CreateJoined(r)
    BY <2>3, JoinedStep
  <2>4. CASE ~CheckLimit(r) /\ ~CreateInvited(r) /\ ~CreatePending(r) /\ ~CreateJoined(r)
    <3>1. Claims' \subseteq Claims
      BY <2>4, StepsKeepClaims
    <3>2. Present' \subseteq Present
      <4>1. CASE \/ DropRoles(r) \/ AddRoles(r) \/ SetStatus(r) \/ Activate(r)
                 \/ DeleteMember(r) \/ Join(r) \/ Link(r)
        BY <4>1, RowsKept
      <4>2. CASE member' = member
        BY <4>2 DEF Present
      <4> QED BY <2>4, <4>1, <4>2
              DEF Works, CheckExists, LookupUser, CreateReg, MailReg, Mail, MailFails, QueryFails,
                  TrackActivity, Find, CountAdmins, CheckAdmin, FindInvited, CreateUser,
                  FindToken, FindReg, DeleteReg, ExpireReg, tables
    <3> QED BY <1>1, <3>1, <3>2, KeepBudget DEF LimitInv
  <2> QED BY <2>1, <2>2, <2>3, <2>4
<1>3. \A s \in Requests : Len(req'[s].todo) <= LongestBatch
  BY TodoAfter DEF LimitInv
<1> QED BY <1>1, <1>2, <1>3 DEF LimitInv

LEMMA StartsLimit ==
  ASSUME TypeOK, TypeOK', LimitInv, NEW r \in Requests, Starts(r)
  PROVE  LimitInv'
<1>1. PICK q : /\ Start(r, q)
               /\ q.pc \in {"limit", "find", "findInvited", "findReg", "createUser",
                            "createJoined"}
               /\ q.todo = <<>> \/ Len(q.todo) = 1 \/ (q.op = "bulk" /\ q.todo \in Batches)
  BY StartsAt
<1>2. Become(r, q) /\ q.op \in Operations /\ registered' = registered /\ Present' = Present
  BY <1>1 DEF Start, Present, tables
<1>3. Claims' \subseteq Claims
  BY <1>1, <1>2, NothingClaimed, ClaimsKept DEF PastPcs, CreatedPcs
<1>4. Budget'
  BY <1>2, <1>3, KeepBudget DEF LimitInv
<1>5. Len(q.todo) <= LongestBatch
  <2>1. CASE q.todo = <<>>
    <3>1. Len(q.todo) = 0
      BY <2>1
    <3> QED BY <3>1, BatchesFit
  <2>2. CASE Len(q.todo) = 1
    BY <2>2, BatchesFit
  <2>3. CASE q.op = "bulk" /\ q.todo \in Batches
    BY <1>2, <2>3, BatchesFit
  <2> QED BY <1>1, <2>1, <2>2, <2>3
<1>6. \A s \in Requests : Len(req'[s].todo) <= LongestBatch
  BY <1>2, <1>5 DEF LimitInv, Become, TypeOK
<1> QED BY <1>2, <1>4, <1>6 DEF LimitInv

LEMMA InitLimit == Init => LimitInv
<1> SUFFICES ASSUME Init PROVE LimitInv
  OBVIOUS
<1> USE MembershipAssumption
<1>1. Present \subseteq {1} /\ \A r \in Requests : req[r] = Idle
  BY DEF Init, Present, NoMember
<1>2. Claims = {}
  BY <1>1 DEF Claims, Slots, MayCreate, Idle, PastPcs, CreatedPcs
<1>3. Cardinality(Present) <= 1 /\ Cardinality(Claims) = 0
  <2>1. IsFiniteSet({1}) /\ Cardinality({1}) = 1
    BY FS_Singleton
  <2>2. Cardinality(Present) <= Cardinality({1})
    BY <1>1, <2>1, FS_Subset
  <2> QED BY <1>2, <2>1, <2>2, FS_EmptySet
<1>4. Unasked \in Nat
  <2>1. IsFiniteSet(registered \ {Creator})
    BY FS_Subset DEF Init
  <2> QED BY <2>1, FS_CardinalityType DEF Unasked
<1>5. Allowed >= 1
  BY BatchesFit, TogetherFits, MembershipAssumption DEF Allowed
<1>6. Len(Idle.todo) = 0
  BY DEF Idle
<1> QED BY <1>1, <1>3, <1>4, <1>5, <1>6, FiniteSets, BatchesFit DEF LimitInv, Budget, Init

LEMMA LimitInvariant == Spec => []LimitInv
<1>1. TypeOK /\ TypeOK' /\ RequestShape /\ ClaimsFit' /\ LimitInv /\ [Next]_vars => LimitInv'
  <2> SUFFICES ASSUME TypeOK, TypeOK', RequestShape, ClaimsFit', LimitInv, [Next]_vars
               PROVE  LimitInv'
    OBVIOUS
  <2>1. CASE UNCHANGED vars
    BY <2>1 DEF vars, tables, LimitInv, Budget, Present, Claims, MayCreate, Unasked, Allowed
  <2> QED BY <2>1, StartsLimit, WorksLimit DEF Next
<1> QED BY <1>1, InitLimit, ClaimsCounted, MembershipTypes, KeptApart, PTL DEF Spec

\* However many requests pass the check together, whether for one invitee or a batch, the
\* member limit is overrun by at most what they carry, less the one row that was allowed,
\* and by those who registered straight into the organization.
THEOREM OverrunBounded == Spec => []LimitOverrun
<1>1. LimitInv /\ TypeOK => LimitOverrun
  BY TogetherFits, UnaskedCounts, FiniteSets, MembershipAssumption
     DEF LimitInv, Budget, Allowed, LimitOverrun
<1> QED BY <1>1, LimitInvariant, MembershipTypes, PTL

\* One request at a time, invitations that name one person each keep the organization within
\* its plan, but for those who registered straight into it.
THEOREM SerialWithinLimit ==
  ASSUME "invite" \in Alone, "bulk" \notin Operations
  PROVE  Spec => []WithinLimit
<1>1. TypeOK /\ LimitInv => WithinLimit
  <2>1. LongestBatch = 1
    BY DEF LongestBatch
  <2>2. Together = 1
    BY <2>1 DEF Together
  <2>3. Allowed = MemberLimit
    BY <2>2, MembershipAssumption DEF Allowed
  <2> QED BY <2>3, FiniteSets, UnaskedCounts, MembershipAssumption
          DEF LimitInv, Budget, WithinLimit
<1> QED BY <1>1, LimitInvariant, MembershipTypes, PTL

-----------------------------------------------------------------------------
\* A row that was there before the step, or the new one.
LEMMA OldOrNew ==
  ASSUME TypeOK, Numbered, NEW row, member' = [member EXCEPT ![lastMember + 1] = row],
         NEW x \in Present'
  PROVE  \/ x = lastMember + 1 /\ member'[x] = row
         \/ x # lastMember + 1 /\ x \in Present /\ member'[x] = member[x]
  BY DEF Present, TypeOK

\* Which steps write rows, and how.
LEMMA StepKinds ==
  ASSUME NEW r \in Requests, Starts(r) \/ Works(r)
  PROVE  \/ member' = member /\ lastMember' = lastMember
         \/ /\ CreateInvited(r) \/ CreatePending(r) \/ CreateJoined(r)
            /\ lastMember' = lastMember + 1
            /\ \E row : /\ member' = [member EXCEPT ![lastMember + 1] = row]
                        /\ row.user \in {row.email, NoPerson}
         \/ \/ DropRoles(r) \/ AddRoles(r) \/ SetStatus(r) \/ Activate(r)
            \/ DeleteMember(r) \/ Join(r) \/ Link(r)
<1>1. CASE Starts(r)
  <2>1. PICK q : Start(r, q)
    BY <1>1, StartsAt
  <2> QED BY <2>1 DEF Start, tables, ids
<1>2. CASE CreateInvited(r) \/ CreatePending(r) \/ CreateJoined(r)
  BY <1>2 DEF CreateInvited, CreatePending, CreateJoined, CreateMember
<1>3. CASE \/ CheckLimit(r) \/ CheckExists(r) \/ LookupUser(r) \/ CreateReg(r) \/ MailReg(r)
           \/ Mail(r) \/ MailFails(r) \/ QueryFails(r) \/ TrackActivity(r) \/ Find(r) \/ CountAdmins(r)
           \/ CheckAdmin(r) \/ FindInvited(r) \/ CreateUser(r) \/ FindToken(r) \/ FindReg(r)
           \/ ExpireReg(r) \/ DeleteReg(r)
  BY <1>3 DEF CheckLimit, CheckExists, LookupUser, CreateReg, MailReg, Mail, MailFails, QueryFails,
         TrackActivity, Find, CountAdmins, CheckAdmin, FindInvited, CreateUser, FindToken,
         FindReg, ExpireReg, DeleteReg, tables, ids
<1> QED BY <1>1, <1>2, <1>3 DEF Works

-----------------------------------------------------------------------------
(* The last admin.  Invitations may overlap, and queries may fail; every     *)
(* other request is alone, so what removeMember and declineInvitation read   *)
(* still holds when they delete.                                             *)

InvitesOverlap == Operations \ {"invite"} \subseteq Alone

GuardPcs == {"checkAdmin", "delete", "dropRoles", "addRoles"}

\* What a request relies on between its checks and its writes.
Guarded(q) ==
    /\ q.pc = "checkAdmin" => q.admins = Cardinality(Admins)
    /\ q.pc = "delete" /\ q.id \in Admins => \E j \in Admins : j # q.id
    /\ q.pc \in {"dropRoles", "addRoles"} /\ q.op # "complete"
       => q.id <= lastMember /\ (q.id \in Present => member[q.id].status = "INVITED")

AdminInv == \A r \in Requests : Guarded(req[r])

\* Roles are only given to the row the request created, which is not active yet: steps of
\* the other invitations in flight leave it so.
LEMMA OthersGuarded ==
  ASSUME InvitesOverlap, TypeOK, RequestShape, Apart, Numbered, AdminInv,
         NEW r \in Requests, Works(r), NEW s \in Requests, s # r
  PROVE  Guarded(req[s])'
<1>0. InFlight(r) /\ req'[s] = req[s] /\ Shape(req[r]) /\ Shape(req[s]) /\ Guarded(req[s])
  BY StepsOn DEF Become, TypeOK, RequestShape, AdminInv
<1>1. CASE req[s].pc \notin GuardPcs
  BY <1>0, <1>1 DEF Guarded, GuardPcs
<1>2. CASE req[s].pc \in GuardPcs
  <2>1. InFlight(s)
    BY <1>2 DEF InFlight, GuardPcs
  <2>2. req[r].op \notin Alone /\ req[s].op \notin Alone
    BY <1>0, <2>1 DEF Apart
  <2>3. req[r].op = "invite" /\ req[s].op = "invite"
    BY <1>0, <2>1, <2>2 DEF Shape, InFlight, InvitesOverlap
  <2> DEFINE i == req[s].id
  <2>4. i <= lastMember /\ (i \in Present => member[i].status = "INVITED")
    BY <1>0, <1>2, <2>1, <2>3 DEF Guarded, GuardPcs, Shape, Stage, InFlight
  <2>5. ~SetStatus(r) /\ ~Activate(r) /\ ~DeleteMember(r) /\ ~Join(r) /\ ~Link(r)
    BY <1>0, <2>3 DEF Shape, Stage, SetStatus, Activate, DeleteMember, Join, Link
  <2>6. /\ member \in [MemberIds -> MemberRecord] /\ i \in Nat
        /\ lastMember \in Nat /\ lastMember' \in Nat /\ lastMember' >= lastMember
        /\ i \in Present' => i \in Present
    BY <2>4, StepRows DEF TypeOK, ReqRecord, RowsStay
  <2> HIDE DEF i
  <2>7. ASSUME i \in Present' PROVE member'[i].status = "INVITED"
    <3>0. i \in MemberIds /\ member[i].status = "INVITED"
      BY <2>4, <2>6, <2>7 DEF Present
    <3>1. CASE member' = member
      BY <3>0, <3>1
    <3>2. CASE \E row : member' = [member EXCEPT ![lastMember + 1] = row]
      BY <2>4, <2>6, <3>0, <3>2
    <3>3. CASE DropRoles(r)
      BY <2>6, <3>0, <3>3 DEF DropRoles, MemberRecord
    <3>4. CASE AddRoles(r)
      BY <2>6, <3>0, <3>4 DEF AddRoles, MemberRecord
    <3> QED BY <2>5, <3>1, <3>2, <3>3, <3>4, StepKinds
  <2>8. req[s].pc \in {"dropRoles", "addRoles"}
    BY <1>0, <1>2, <2>1, <2>3 DEF GuardPcs, Shape, Stage, InFlight
  <2> QED BY <1>0, <2>4, <2>6, <2>7, <2>8 DEF Guarded, i
<1> QED BY <1>1, <1>2

\* It suffices that the request's own record is guarded.
LEMMA AdminAfter ==
  ASSUME InvitesOverlap, TypeOK, RequestShape, Apart, Numbered, AdminInv,
         NEW r \in Requests, Works(r), Guarded(req[r])'
  PROVE  AdminInv'
  BY OthersGuarded DEF AdminInv

LEMMA UnguardedAfter ==
  ASSUME InvitesOverlap, TypeOK, RequestShape, Apart, Numbered, AdminInv,
         NEW r \in Requests, Works(r), NEW q, Become(r, q), q.pc \notin GuardPcs
  PROVE  AdminInv'
<1>1. req'[r] = q
  BY DEF Become, TypeOK
<1>2. Guarded(req[r])'
  BY <1>1 DEF Guarded, GuardPcs
<1> QED BY <1>2, AdminAfter

\* Ending the request, or moving on to a step that relies on nothing.
LEMMA LeaveGuard ==
  ASSUME InvitesOverlap, TypeOK, RequestShape, Apart, Numbered, AdminInv,
         NEW r \in Requests, Works(r), Finish(r) \/ \E pc \in Pcs \ GuardPcs : Goto(r, pc)
  PROVE  AdminInv'
<1>1. req[r] \in ReqRecord
  BY DEF TypeOK
<1>2. Idle.pc \notin GuardPcs
  BY DEF Idle, GuardPcs
<1>3. \A pc \in Pcs : [req[r] EXCEPT !.pc = pc].pc = pc
  BY <1>1 DEF ReqRecord
<1> QED BY <1>1, <1>2, <1>3, UnguardedAfter DEF Finish, Goto

\* Steps after which the request relies on nothing.
LEMMA UnguardedSteps ==
  ASSUME InvitesOverlap, TypeOK, RequestShape, Apart, Numbered, AdminInv,
         NEW r \in Requests, Works(r),
         ~CountAdmins(r), ~CheckAdmin(r), ~FindInvited(r), ~CreateInvited(r), ~DropRoles(r),
         ~Link(r)
  PROVE  AdminInv'
<1>1. req[r] \in ReqRecord /\ Shape(req[r]) /\ InFlight(r)
  BY StepsOn DEF TypeOK, RequestShape
<1>q. ASSUME NEW q, Become(r, q), q.pc \notin GuardPcs PROVE AdminInv'
  BY <1>q, UnguardedAfter
<1>n. ASSUME NextInvitee(r) PROVE AdminInv'
  <2>1. [req[r] EXCEPT !.pc = "exists", !.todo = Tail(@)].pc \notin GuardPcs
    BY <1>1 DEF ReqRecord, GuardPcs
  <2> QED BY <1>q, <1>n, <2>1, LeaveGuard DEF NextInvitee
<1>2. CASE \/ CheckLimit(r) \/ CreateReg(r) \/ MailReg(r) \/ AddRoles(r) \/ Mail(r)
           \/ MailFails(r) \/ QueryFails(r) \/ SetStatus(r) \/ DeleteMember(r) \/ Activate(r)
           \/ CreateUser(r) \/ CreateJoined(r) \/ Join(r) \/ ExpireReg(r) \/ DeleteReg(r)
           \/ Find(r)
  <2>1. Finish(r) \/ \E pc \in Pcs \ GuardPcs : Goto(r, pc)
    BY <1>2 DEF CheckLimit, CreateReg, MailReg, AddRoles, Mail, MailFails, QueryFails, SetStatus,
         DeleteMember, Activate, CreateUser, CreateJoined, Join, ExpireReg, DeleteReg, Find,
         Pcs, GuardPcs
  <2> QED BY <2>1, LeaveGuard
<1>3. CASE CheckExists(r) \/ TrackActivity(r)
  <2>1. Finish(r) \/ NextInvitee(r) \/ \E pc \in Pcs \ GuardPcs : Goto(r, pc)
    BY <1>3 DEF CheckExists, TrackActivity, Pcs, GuardPcs
  <2> QED BY <1>n, <2>1, LeaveGuard
<1>4. CASE LookupUser(r)
  <2>1. PICK pc \in {"createInvited", "createReg"} :
           Become(r, [req[r] EXCEPT !.token = lastToken + 1, !.pc = pc])
    BY <1>4 DEF LookupUser
  <2>2. [req[r] EXCEPT !.token = lastToken + 1, !.pc = pc].pc \notin GuardPcs
    BY <1>1 DEF ReqRecord, GuardPcs
  <2> QED BY <1>q, <2>1, <2>2
<1>5. CASE FindToken(r)
  <2>1. ASSUME NEW i, Become(r, [req[r] EXCEPT !.id = i, !.pc = "join"]) PROVE AdminInv'
    <3>1. [req[r] EXCEPT !.id = i, !.pc = "join"].pc \notin GuardPcs
      BY <1>1 DEF ReqRecord, GuardPcs
    <3> QED BY <1>q, <2>1, <3>1
  <2> QED BY <1>5, <2>1, LeaveGuard DEF FindToken
<1>6. CASE CreatePending(r)
  <2>1. Finish(r) \/ Become(r, [req[r] EXCEPT !.pc = "act", !.id = lastMember + 1])
    BY <1>6 DEF CreatePending, CreateMember
  <2>2. [req[r] EXCEPT !.pc = "act", !.id = lastMember + 1].pc \notin GuardPcs
    BY <1>1 DEF ReqRecord, GuardPcs
  <2> QED BY <1>q, <2>1, <2>2, LeaveGuard
<1>7. CASE FindReg(r)
  <2>1. ASSUME NEW g, Become(r, [req[r] EXCEPT !.pc = "link", !.reg = g, !.role = regs[g].role])
        PROVE  AdminInv'
    <3>1. [req[r] EXCEPT !.pc = "link", !.reg = g, !.role = regs[g].role].pc \notin GuardPcs
      BY <1>1 DEF ReqRecord, GuardPcs
    <3> QED BY <1>q, <2>1, <3>1
  <2> QED BY <1>7, <2>1, LeaveGuard DEF FindReg
<1> QED BY <1>2, <1>3, <1>4, <1>5, <1>6, <1>7 DEF Works

\* isLastAdmin: the count is fresh, so a request that goes on leaves another admin.  An
\* invitation is of a row that is no admin's.
LEMMA RemoveSteps ==
  ASSUME InvitesOverlap, TypeOK, RequestShape, Apart, Numbered, AdminInv,
         NEW r \in Requests, Works(r), CountAdmins(r) \/ CheckAdmin(r) \/ FindInvited(r)
  PROVE  AdminInv'
<1>1. req[r] \in ReqRecord /\ Guarded(req[r])
  BY DEF TypeOK, AdminInv
<1>2. member' = member /\ lastMember' = lastMember
  BY DEF CountAdmins, CheckAdmin, FindInvited, tables, ids
<1>3. Admins' = Admins /\ Present' = Present
  BY <1>2 DEF Admins, Present
<1>4. CASE CountAdmins(r)
  <2> DEFINE q == [req[r] EXCEPT !.pc = "checkAdmin", !.admins = Cardinality(Admins)]
  <2>1. Become(r, q)
    BY <1>4 DEF CountAdmins
  <2>2. q.pc = "checkAdmin" /\ q.admins = Cardinality(Admins)
    BY <1>1 DEF ReqRecord
  <2> HIDE DEF q
  <2>3. req'[r] = q
    BY <2>1 DEF Become, TypeOK
  <2>4. Guarded(req[r])'
    BY <1>3, <2>2, <2>3 DEF Guarded
  <2> QED BY <2>4, AdminAfter
<1>5. CASE CheckAdmin(r)
  <2>1. CASE IsLastAdmin(r)
    BY <1>5, <2>1, LeaveGuard DEF CheckAdmin
  <2>2. CASE ~IsLastAdmin(r)
    <3> DEFINE q == [req[r] EXCEPT !.pc = "delete"]
    <3>1. Become(r, q)
      BY <1>5, <2>2 DEF CheckAdmin, Goto
    <3>2. q.pc = "delete" /\ q.id = req[r].id
      BY <1>1 DEF ReqRecord
    <3> HIDE DEF q
    <3>3. req'[r] = q
      BY <3>1 DEF Become, TypeOK
    <3>4. req[r].admins = Cardinality(Admins)
      BY <1>1, <1>5 DEF Guarded, CheckAdmin
    <3>5. req[r].id \in Admins => \E j \in Admins : j # req[r].id
      <4> SUFFICES ASSUME req[r].id \in Admins PROVE \E j \in Admins : j # req[r].id
        OBVIOUS
      <4>1. Cardinality(Admins) # 1
        BY <2>2, <3>4 DEF IsLastAdmin, Admins, Present
      <4>2. Admins # {req[r].id}
        BY <4>1, FS_Singleton
      <4> QED BY <4>2
    <3>6. Guarded(req[r])'
      BY <1>3, <3>2, <3>3, <3>5 DEF Guarded
    <3> QED BY <3>6, AdminAfter
  <2> QED BY <2>1, <2>2
<1>6. CASE FindInvited(r)
  <2>1. ASSUME NEW i \in Present, InvitationOf(i, req[r].who), NEW pc \in {"activate", "delete"},
               Become(r, [req[r] EXCEPT !.id = i, !.pc = pc])
        PROVE  AdminInv'
    <3> DEFINE q == [req[r] EXCEPT !.id = i, !.pc = pc]
    <3>1. q.pc = pc /\ q.id = i
      BY <1>1 DEF ReqRecord
    <3>2. Become(r, q)
      BY <2>1
    <3> HIDE DEF q
    <3>3. req'[r] = q
      BY <3>2 DEF Become, TypeOK
    <3>4. i \notin Admins
      BY <2>1 DEF InvitationOf, Admins
    <3>5. Guarded(req[r])'
      BY <1>3, <3>1, <3>3, <3>4 DEF Guarded
    <3> QED BY <3>5, AdminAfter
  <2> QED BY <1>6, <2>1, LeaveGuard DEF FindInvited
<1> QED BY <1>4, <1>5, <1>6

\* Rows that get their roles.
LEMMA RoleSteps ==
  ASSUME InvitesOverlap, TypeOK, RequestShape, Apart, Numbered, AdminInv,
         NEW r \in Requests, Works(r), CreateInvited(r) \/ DropRoles(r) \/ Link(r)
  PROVE  AdminInv'
<1>1. req[r] \in ReqRecord /\ Shape(req[r]) /\ Guarded(req[r])
  BY DEF TypeOK, RequestShape, AdminInv
<1>m. member \in [MemberIds -> MemberRecord] /\ lastMember \in Nat
  BY DEF TypeOK
<1>2. CASE Finish(r)
  BY <1>2, LeaveGuard
<1>3. CASE CreateInvited(r) /\ ~Finish(r)
  <2> DEFINE q == [req[r] EXCEPT !.pc = "dropRoles", !.id = lastMember + 1]
             row == [email |-> Invitee(r), user |-> Invitee(r), status |-> "INVITED",
                     admin |-> FALSE, token |-> req[r].token]
  <2>1. Become(r, q) /\ member' = [member EXCEPT ![lastMember + 1] = row]
    BY <1>3 DEF CreateInvited, CreateMember
  <2>2. q.pc = "dropRoles" /\ q.id = lastMember + 1
    BY <1>1 DEF ReqRecord
  <2>3. row.status = "INVITED"
    OBVIOUS
  <2> HIDE DEF q, row
  <2>4. req'[r] = q
    BY <2>1 DEF Become, TypeOK
  <2>5. lastMember + 1 \in Present' => member'[lastMember + 1].status = "INVITED"
    BY <1>m, <2>1, <2>3 DEF Present
  <2>6. lastMember' = lastMember + 1
    BY <1>3 DEF CreateInvited, CreateMember
  <2>7. Guarded(req[r])'
    BY <1>m, <2>2, <2>4, <2>5, <2>6 DEF Guarded
  <2> QED BY <2>7, AdminAfter
<1>4. CASE DropRoles(r) /\ ~Finish(r)
  <2> DEFINE q == [req[r] EXCEPT !.pc = "addRoles"]
  <2>1. Become(r, q)
    BY <1>4 DEF DropRoles, Goto
  <2>2. q.pc = "addRoles" /\ q.id = req[r].id /\ q.op = req[r].op
    BY <1>1 DEF ReqRecord
  <2> HIDE DEF q
  <2>3. req'[r] = q
    BY <2>1 DEF Become, TypeOK
  <2>4. req[r].id \in Present /\ member' = [member EXCEPT ![req[r].id].admin = FALSE]
    BY <1>4 DEF DropRoles
  <2>5. req[r].op # "complete" => /\ member[req[r].id].status = "INVITED"
                                  /\ req[r].id <= lastMember
    BY <1>1, <1>4, <2>4 DEF Guarded, DropRoles
  <2>6. member'[req[r].id].status = member[req[r].id].status /\ lastMember' = lastMember
    BY <1>m, <1>4, <2>4 DEF Present, MemberRecord, DropRoles, ids
  <2>7. Guarded(req[r])'
    BY <2>2, <2>3, <2>5, <2>6 DEF Guarded
  <2> QED BY <2>7, AdminAfter
<1>5. CASE Link(r) /\ ~Finish(r)
  <2> DEFINE q == [req[r] EXCEPT !.pc = "dropRoles", !.id = req[r].reg]
  <2>1. Become(r, q)
    BY <1>5 DEF Link
  <2>2. q.pc = "dropRoles" /\ q.op = "complete"
    BY <1>1, <1>5 DEF ReqRecord, Link, Shape, Stage
  <2> HIDE DEF q
  <2>3. req'[r] = q
    BY <2>1 DEF Become, TypeOK
  <2>4. Guarded(req[r])'
    BY <2>2, <2>3 DEF Guarded
  <2> QED BY <2>4, AdminAfter
<1> QED BY <1>2, <1>3, <1>4, <1>5

LEMMA StartsAdmin ==
  ASSUME TypeOK, AdminInv, NEW r \in Requests, Starts(r)
  PROVE  AdminInv'
<1>1. PICK q : /\ Start(r, q)
               /\ q.pc \in {"limit", "find", "findInvited", "findReg", "createUser",
                            "createJoined"}
  BY StartsAt
<1>2. /\ member' = member /\ lastMember' = lastMember
      /\ req'[r] = q /\ \A s \in Requests : s # r => req'[s] = req[s]
  BY <1>1 DEF Start, Become, TypeOK, tables, ids
<1>3. Admins' = Admins /\ Present' = Present
  BY <1>2 DEF Admins, Present
<1>4. ASSUME NEW s \in Requests PROVE Guarded(req[s])'
  BY <1>1, <1>2, <1>3 DEF AdminInv, Guarded
<1> QED BY <1>4 DEF AdminInv

LEMMA InitAdmin == Init => AdminInv /\ LastAdmin
<1> SUFFICES ASSUME Init PROVE AdminInv /\ LastAdmin
  OBVIOUS
<1>1. 1 \in Admins
  BY MembershipAssumption, JoinsBounded DEF Init, Admins, MemberIds
<1> QED BY <1>1 DEF AdminInv, LastAdmin, Guarded, Init, Idle

LEMMA NextAdmin ==
  ASSUME InvitesOverlap
  PROVE  TypeOK /\ RequestShape /\ Apart /\ Numbered /\ AdminInv /\ [Next]_vars => AdminInv'
<1> SUFFICES ASSUME TypeOK, RequestShape, Apart, Numbered, AdminInv, [Next]_vars
             PROVE  AdminInv'
  OBVIOUS
<1>1. CASE UNCHANGED vars
  BY <1>1 DEF vars, tables, ids, AdminInv, Guarded, Admins, Present
<1> QED BY <1>1, StartsAdmin, UnguardedSteps, RemoveSteps, RoleSteps DEF Next

\* Steps on a row keep an admin: the rows of other members are left alone, and the row
\* itself is not an admin's or stays one.
LEMMA AdminRows ==
  ASSUME TypeOK, LastAdmin, NEW i,
         \A x \in MemberIds : x # i => member'[x] = member[x],
         i \in Admins => i \in Admins' \/ \E j \in Admins : j # i
  PROVE  LastAdmin'
<1>1. \A j \in Admins : j # i => j \in Admins'
  BY DEF Admins
<1> QED BY <1>1 DEF LastAdmin

\* The step that takes the last admin, if there is one, is an update's or a completion's.
LEMMA KeepingStep ==
  ASSUME TypeOK, RequestShape, Numbered, AdminInv, NEW r \in Requests, Starts(r) \/ Works(r),
         LastAdmin, ~LastAdmin'
  PROVE  req[r].op \in {"update", "complete"} /\ req'[r] # req[r]
<1>0. /\ req[r] \in ReqRecord /\ Shape(req[r]) /\ Guarded(req[r])
      /\ member \in [MemberIds -> MemberRecord]
  BY DEF TypeOK, RequestShape, AdminInv
<1>1. member' # member
  BY DEF LastAdmin, Admins
<1>2. ~ \E row : member' = [member EXCEPT ![lastMember + 1] = row]
  <2> SUFFICES ASSUME NEW row, member' = [member EXCEPT ![lastMember + 1] = row] PROVE FALSE
    OBVIOUS
  <2>1. lastMember + 1 \notin Admins
    BY DEF TypeOK, Numbered, Admins, Present
  <2> QED BY <1>0, <2>1, AdminRows
<1>3. ~Activate(r) /\ ~Join(r) /\ ~DeleteMember(r)
  <2> SUFFICES ASSUME Activate(r) \/ Join(r) \/ DeleteMember(r) PROVE FALSE
    OBVIOUS
  <2>1. \A x \in MemberIds : x # req[r].id => member'[x] = member[x]
    BY <1>0 DEF DeleteMember, Activate, Join, LinkUser
  <2>2. CASE DeleteMember(r)
    BY <1>0, <2>1, <2>2, AdminRows DEF DeleteMember, Guarded
  <2>3. CASE Activate(r)
    BY <1>0, <2>1, <2>3, AdminRows DEF Activate, Admins, MemberRecord
  <2>4. CASE Join(r)
    BY <1>0, <2>1, <2>4, AdminRows DEF Join, LinkUser, Admins, MemberRecord
  <2> QED BY <2>2, <2>3, <2>4
<1>4. DropRoles(r) \/ AddRoles(r) => req[r].op = "complete"
  <2> SUFFICES ASSUME DropRoles(r) \/ AddRoles(r), req[r].op # "complete" PROVE FALSE
    OBVIOUS
  <2>1. \A x \in MemberIds : x # req[r].id => member'[x] = member[x]
    BY <1>0 DEF DropRoles, AddRoles
  <2>2. req[r].id \notin Admins
    BY <1>0 DEF Guarded, DropRoles, AddRoles, Admins, Present
  <2> QED BY <2>1, <2>2, AdminRows
<1>5. DropRoles(r) \/ AddRoles(r) \/ SetStatus(r) \/ Link(r)
  BY <1>1, <1>2, <1>3, StepKinds
<1>6. req[r].op \in {"update", "complete"}
  BY <1>0, <1>4, <1>5 DEF SetStatus, Link, Shape, Stage
<1>7. req'[r].pc # req[r].pc
  <2>f. ASSUME Finish(r) PROVE req'[r].pc = "idle"
    BY <2>f DEF Finish, Become, TypeOK, Idle
  <2>g. ASSUME NEW pc, Goto(r, pc) PROVE req'[r].pc = pc
    BY <1>0, <2>g DEF Goto, Become, TypeOK, ReqRecord
  <2>1. CASE DropRoles(r)
    BY <2>1, <2>f, <2>g DEF DropRoles
  <2>2. CASE AddRoles(r)
    BY <2>2, <2>f, <2>g DEF AddRoles
  <2>3. CASE SetStatus(r)
    BY <2>3, <2>f, <2>g DEF SetStatus
  <2>4. CASE Link(r)
    <3>1. [req[r] EXCEPT !.pc = "dropRoles", !.id = req[r].reg].pc = "dropRoles"
      BY <1>0 DEF ReqRecord
    <3> QED BY <2>4, <2>f, <3>1 DEF Link, Become, TypeOK
  <2> QED BY <1>5, <2>1, <2>2, <2>3, <2>4
<1> QED BY <1>6, <1>7

\* While nothing but invitations overlaps, no request takes the last active admin, but for a
\* status set by hand and a registration completed by its number: removeMember's check
\* suffices, whatever queries fail.
THEOREM AdminKept ==
  ASSUME InvitesOverlap
  PROVE  Spec => KeepsAdmin
<1>1. TypeOK /\ RequestShape /\ Apart /\ Numbered /\ AdminInv /\ [Next]_vars
      => (Admins # {} /\ Admins' = {} =>
            \E r \in Requests : req[r].op \in {"update", "complete"} /\ req'[r] # req[r])
  <2> SUFFICES ASSUME TypeOK, RequestShape, Apart, Numbered, AdminInv, [Next]_vars,
                      LastAdmin, ~LastAdmin'
               PROVE  \E r \in Requests : req[r].op \in {"update", "complete"} /\ req'[r] # req[r]
    BY DEF LastAdmin
  <2>1. CASE UNCHANGED vars
    BY <2>1 DEF vars, tables, LastAdmin, Admins
  <2> QED BY <2>1, KeepingStep DEF Next
<1> QED BY <1>1, InitAdmin, NextAdmin, KeptApart, MembershipTypes, PTL DEF Spec, KeepsAdmin

\* Where nobody sets a status by hand or completes a registration by its number either, the
\* organization always has an active admin.
THEOREM LastAdminStays ==
  ASSUME InvitesOverlap, Operations \cap {"update", "complete"} = {}
  PROVE  Spec => []LastAdmin
<1>1. TypeOK /\ RequestShape /\ Apart /\ Numbered /\ AdminInv /\ LastAdmin /\ [Next]_vars
      => LastAdmin'
  <2> SUFFICES ASSUME TypeOK, RequestShape, Apart, Numbered, AdminInv, LastAdmin, [Next]_vars,
                      ~LastAdmin'
               PROVE  FALSE
    OBVIOUS
  <2>1. CASE UNCHANGED vars
    BY <2>1 DEF vars, tables, LastAdmin, Admins
  <2>2. ASSUME NEW r \in Requests, Starts(r) \/ Works(r) PROVE FALSE
    <3>1. req[r].op \in {"update", "complete"} /\ req'[r] # req[r]
      BY <2>2, KeepingStep
    <3>2. Shape(req[r]) /\ member' # member
      BY DEF RequestShape, LastAdmin, Admins
    <3>3. Works(r) => InFlight(r)
      BY StepsOn
    <3>4. Starts(r) => member' = member
      BY StartsAt DEF Start, tables
    <3> QED BY <2>2, <3>1, <3>2, <3>3, <3>4 DEF Shape, InFlight
  <2> QED BY <2>1, <2>2 DEF Next
<1> QED BY <1>1, InitAdmin, NextAdmin, KeptApart, MembershipTypes, PTL DEF Spec

-----------------------------------------------------------------------------
(* Whose row it is.  A row keeps its number and its address until it is      *)
(* deleted, and numbers are not used again: a number that a request read     *)
(* with the address of its user names that user's row, or none, ever after.  *)

\* The creator's row has no address, and nobody invites it.
CreatorsRow ==
  1 \in Present =>
    /\ member[1].email = NoPerson
    /\ "INVITED" \notin Settable => member[1].status # "INVITED"

\* A request about to join or to accept has the number of a row of its own user.
Joining(q) == q.pc = "join" \/ (q.pc = "activate" /\ "INVITED" \notin Settable)
Addressed(q) ==
  Joining(q) => q.id <= lastMember /\ (q.id \in Present => member[q.id].email = q.who)

PersonInv ==
  /\ Numbered /\ lastMember >= 1 /\ CreatorsRow /\ RightPerson
  /\ \A r \in Requests : Addressed(req[r])

-----------------------------------------------------------------------------
LEMMA AddressedAfter ==
  ASSUME TypeOK, RowsStay, \A s \in Requests : Addressed(req[s]), NEW r \in Requests,
         NEW q, Become(r, q), Addressed(q)'
  PROVE  \A s \in Requests : Addressed(req[s])'
<1>1. req'[r] = q /\ \A s \in Requests : s # r => req'[s] = req[s]
  BY DEF Become, TypeOK
<1>2. ASSUME NEW s \in Requests, s # r PROVE Addressed(req[s])'
  <2> SUFFICES ASSUME Joining(req[s])
               PROVE  /\ req[s].id <= lastMember'
                      /\ req[s].id \in Present' => member'[req[s].id].email = req[s].who
    BY <1>1, <1>2 DEF Addressed, Joining
  <2>1. /\ req[s].id \in Nat /\ lastMember \in Nat /\ req[s].id <= lastMember
        /\ req[s].id \in Present => member[req[s].id].email = req[s].who
    BY DEF TypeOK, ReqRecord, Addressed
  <2> QED BY <2>1 DEF RowsStay
<1> QED BY <1>1, <1>2

\* Only the requests that look for an invitation of their user find a row to join.
LEMMA NotJoining ==
  ASSUME TypeOK, RequestShape, NEW r \in Requests,
         Starts(r) \/ Works(r), ~FindInvited(r), ~FindToken(r)
  PROVE  \E q : Become(r, q) /\ ~Joining(q)
<1>0. req[r] \in ReqRecord /\ ~Joining(Idle)
  BY DEF TypeOK, Joining, Idle
<1>f. Finish(r) => \E q : Become(r, q) /\ ~Joining(q)
  BY <1>0 DEF Finish
<1>g. ASSUME NEW pc \in Pcs \ {"join", "activate"}, Goto(r, pc)
      PROVE  \E q : Become(r, q) /\ ~Joining(q)
  BY <1>0, <1>g DEF Goto, Joining, ReqRecord
<1>h. ASSUME NEW q, Become(r, q), q.pc \notin {"join", "activate"}
      PROVE  \E x : Become(r, x) /\ ~Joining(x)
  BY <1>h DEF Joining
<1>1. CASE Starts(r)
  BY <1>1, <1>h, StartsAt DEF Start
<1>2. CASE \/ CheckLimit(r) \/ CreateReg(r) \/ MailReg(r) \/ DropRoles(r) \/ AddRoles(r)
           \/ Mail(r) \/ MailFails(r) \/ QueryFails(r) \/ Find(r) \/ SetStatus(r) \/ CheckAdmin(r)
           \/ DeleteMember(r) \/ Activate(r) \/ CreateUser(r) \/ CreateJoined(r) \/ Join(r)
           \/ ExpireReg(r) \/ DeleteReg(r)
  <2>1. Finish(r) \/ \E pc \in Pcs \ {"join", "activate"} : Goto(r, pc)
    BY <1>2 DEF CheckLimit, CreateReg, MailReg, DropRoles, AddRoles, Mail, MailFails, QueryFails, Find,
         SetStatus, CheckAdmin, DeleteMember, Activate, CreateUser, CreateJoined, Join,
         ExpireReg, DeleteReg, Pcs
  <2> QED BY <1>f, <1>g, <2>1
<1>3. CASE CheckExists(r) \/ TrackActivity(r)
  <2>1. NextInvitee(r) \/ Finish(r) \/ Goto(r, "lookup")
    BY <1>3 DEF CheckExists, TrackActivity
  <2>2. ASSUME Become(r, [req[r] EXCEPT !.pc = "exists", !.todo = Tail(@)])
        PROVE  \E q : Become(r, q) /\ ~Joining(q)
    <3>1. [req[r] EXCEPT !.pc = "exists", !.todo = Tail(@)].pc = "exists"
      BY <1>0 DEF ReqRecord
    <3> QED BY <1>h, <2>2, <3>1
  <2> QED BY <1>f, <1>g, <2>1, <2>2 DEF NextInvitee, Pcs
<1>4. CASE LookupUser(r)
  <2>1. PICK pc \in {"createInvited", "createReg"} :
           Become(r, [req[r] EXCEPT !.token = lastToken + 1, !.pc = pc])
    BY <1>4 DEF LookupUser
  <2>2. [req[r] EXCEPT !.token = lastToken + 1, !.pc = pc].pc = pc
    BY <1>0 DEF ReqRecord
  <2> QED BY <1>h, <2>1, <2>2
<1>5. CASE CreateInvited(r) \/ CreatePending(r)
  <2>1. PICK pc \in {"dropRoles", "act"} :
           Finish(r) \/ Become(r, [req[r] EXCEPT !.pc = pc, !.id = lastMember + 1])
    BY <1>5 DEF CreateInvited, CreatePending, CreateMember
  <2>2. [req[r] EXCEPT !.pc = pc, !.id = lastMember + 1].pc = pc
    BY <1>0 DEF ReqRecord
  <2> QED BY <1>f, <1>h, <2>1, <2>2
<1>6. CASE CountAdmins(r)
  <2>1. [req[r] EXCEPT !.pc = "checkAdmin", !.admins = Cardinality(Admins)].pc = "checkAdmin"
    BY <1>0 DEF ReqRecord
  <2> QED BY <1>6, <1>h, <2>1 DEF CountAdmins
<1>7. CASE FindReg(r)
  <2>1. ASSUME NEW g, Become(r, [req[r] EXCEPT !.pc = "link", !.reg = g, !.role = regs[g].role])
        PROVE  \E q : Become(r, q) /\ ~Joining(q)
    <3>1. [req[r] EXCEPT !.pc = "link", !.reg = g, !.role = regs[g].role].pc = "link"
      BY <1>0 DEF ReqRecord
    <3> QED BY <1>h, <2>1, <3>1
  <2> QED BY <1>7, <1>f, <2>1 DEF FindReg
<1>8. CASE Link(r)
  <2>1. Finish(r) \/ Become(r, [req[r] EXCEPT !.pc = "dropRoles", !.id = req[r].reg])
    BY <1>8 DEF Link
  <2>2. [req[r] EXCEPT !.pc = "dropRoles", !.id = req[r].reg].pc = "dropRoles"
    BY <1>0 DEF ReqRecord
  <2> QED BY <1>f, <1>h, <2>1, <2>2
<1> QED BY <1>1, <1>2, <1>3, <1>4, <1>5, <1>6, <1>7, <1>8 DEF Works

\* A row that is read as the user's invitation has the user's address.
LEMMA StepAddressed ==
  ASSUME TypeOK, RequestShape, PersonInv, NEW r \in Requests, Starts(r) \/ Works(r)
  PROVE  \A s \in Requests : Addressed(req[s])'
<1> USE MembershipAssumption
<1>0. /\ req[r] \in ReqRecord /\ Shape(req[r]) /\ RowsStay
      /\ \A s \in Requests : Addressed(req[s])
  BY StepRows DEF TypeOK, RequestShape, PersonInv
<1>f. Finish(r) => \E q : Become(r, q) /\ ~Joining(q)
  BY DEF Finish, Joining, Idle
<1>q. ASSUME NEW q, Become(r, q), ~Joining(q) PROVE \A s \in Requests : Addressed(req[s])'
  <2>1. Addressed(q)'
    BY <1>q DEF Addressed, Joining
  <2> QED BY <1>0, <1>q, <2>1, AddressedAfter
<1>1. CASE FindToken(r)
  <2>1. ASSUME NEW i \in Present, HoldsToken(i, req[r].who, req[r].token),
               Become(r, [req[r] EXCEPT !.id = i, !.pc = "join"])
        PROVE  \A s \in Requests : Addressed(req[s])'
    <3>1. PICK q : q = [req[r] EXCEPT !.id = i, !.pc = "join"]
      OBVIOUS
    <3>2. q.id = i /\ q.who = req[r].who
      BY <1>0, <3>1 DEF ReqRecord
    <3>3. member' = member /\ lastMember' = lastMember
      BY <1>1 DEF FindToken, tables, ids
    <3>4. i <= lastMember /\ member[i].email = req[r].who
      BY <2>1 DEF PersonInv, Numbered, HoldsToken
    <3>5. Addressed(q)'
      BY <3>2, <3>3, <3>4 DEF Addressed
    <3> QED BY <1>0, <2>1, <3>1, <3>5, AddressedAfter
  <2> QED BY <1>1, <1>f, <1>q, <2>1 DEF FindToken
<1>2. CASE FindInvited(r)
  <2>1. ASSUME NEW i \in Present, InvitationOf(i, req[r].who), NEW pc \in {"activate", "delete"},
               Become(r, [req[r] EXCEPT !.id = i, !.pc = pc])
        PROVE  \A s \in Requests : Addressed(req[s])'
    <3>1. PICK q : q = [req[r] EXCEPT !.id = i, !.pc = pc]
      OBVIOUS
    <3>2. q.id = i /\ q.who = req[r].who /\ q.pc = pc
      BY <1>0, <3>1 DEF ReqRecord
    <3>3. member' = member /\ lastMember' = lastMember
      BY <1>2 DEF FindInvited, tables, ids
    <3>4. i <= lastMember
      BY <2>1 DEF PersonInv, Numbered
    <3>5. "INVITED" \notin Settable => member[i].email = req[r].who
      <4>1. req[r].who \in People
        BY <1>0, <1>2 DEF FindInvited, Shape, Stage
      <4>2. member[i].user = req[r].who /\ member[i].status = "INVITED"
        BY <2>1 DEF InvitationOf
      <4>3. "INVITED" \notin Settable => i # 1
        BY <2>1, <4>2 DEF PersonInv, CreatorsRow
      <4> QED BY <2>1, <4>1, <4>2, <4>3 DEF PersonInv, RightPerson, Owner
    <3>6. Addressed(q)'
      BY <3>2, <3>3, <3>4, <3>5 DEF Addressed, Joining
    <3> QED BY <1>0, <2>1, <3>1, <3>6, AddressedAfter
  <2> QED BY <1>2, <1>f, <1>q, <2>1 DEF FindInvited
<1>3. CASE ~FindInvited(r) /\ ~FindToken(r)
  BY <1>3, <1>q, NotJoining
<1> QED BY <1>1, <1>2, <1>3

-----------------------------------------------------------------------------
LEMMA StepRightPerson ==
  ASSUME "complete" \notin Operations, TypeOK, RequestShape, PersonInv, NEW r \in Requests,
         Starts(r) \/ Works(r)
  PROVE  RightPerson' /\ CreatorsRow'
<1> USE MembershipAssumption
<1>0. /\ Shape(req[r]) /\ RightPerson /\ CreatorsRow /\ Addressed(req[r])
      /\ lastMember \in Nat /\ lastMember >= 1 /\ Numbered
  BY DEF TypeOK, RequestShape, PersonInv
<1>1. CASE member' = member
  BY <1>0, <1>1 DEF RightPerson, CreatorsRow, Owner, Present
<1>2. ASSUME NEW row, member' = [member EXCEPT ![lastMember + 1] = row],
             row.user \in {row.email, NoPerson}
      PROVE  RightPerson' /\ CreatorsRow'
  <2>0. 1 # lastMember + 1
    BY <1>0
  <2>1. ASSUME NEW x \in Present' PROVE member'[x].user \in {Owner(x)', NoPerson}
    <3>1. CASE x = lastMember + 1 /\ member'[x] = row
      BY <1>2, <2>0, <3>1 DEF Owner
    <3>2. CASE x \in Present /\ member'[x] = member[x]
      BY <1>0, <3>2 DEF RightPerson, Owner
    <3> QED BY <1>0, <1>2, <3>1, <3>2, OldOrNew
  <2>2. CreatorsRow'
    BY <1>0, <1>2, <2>0, OldOrNew DEF CreatorsRow
  <2> QED BY <2>1, <2>2 DEF RightPerson
<1>3. CASE \/ DropRoles(r) \/ AddRoles(r) \/ SetStatus(r) \/ Activate(r)
           \/ DeleteMember(r) \/ Join(r) \/ Link(r)
  <2>1. ~Link(r)
    BY <1>0 DEF Link, Shape, Stage
  <2>2. Present' \subseteq Present /\ \A x \in Present' : Kept(r, x)
    BY <1>3, RowsKept, KeptRows
  <2>3. ASSUME NEW x \in Present' PROVE member'[x].user \in {Owner(x)', NoPerson}
    <3>1. CASE member'[x].user = member[x].user
      BY <1>0, <2>2, <3>1 DEF RightPerson, Owner, Kept
    <3>2. CASE Join(r) /\ x = req[r].id /\ member'[x].user = req[r].who
      <4>1. member[x].email = req[r].who /\ req[r].who \in People
        BY <1>0, <2>2, <3>2 DEF Addressed, Joining, Join, Shape, Stage
      <4>2. x # 1
        BY <1>0, <2>2, <4>1 DEF CreatorsRow
      <4> QED BY <2>2, <3>2, <4>1, <4>2 DEF Owner, Kept
    <3> QED BY <2>1, <2>2, <3>1, <3>2 DEF Kept
  <2>4. CreatorsRow'
    <3> SUFFICES ASSUME 1 \in Present'
                 PROVE  /\ member'[1].email = NoPerson
                        /\ "INVITED" \notin Settable => member'[1].status # "INVITED"
      BY DEF CreatorsRow
    <3>1. /\ 1 \in Present /\ member[1].email = NoPerson /\ Kept(r, 1)
          /\ "INVITED" \notin Settable => member[1].status # "INVITED"
      BY <1>0, <2>2 DEF CreatorsRow
    <3>2. ASSUME SetStatus(r), "INVITED" \notin Settable PROVE member'[1].status # "INVITED"
      <4>1. req[r].status \in Settable
        BY <1>0, <3>2 DEF SetStatus, Shape, Stage
      <4>2. member'[1].status \in {member[1].status, req[r].status}
        BY <3>1, <3>2 DEF SetStatus, TypeOK, MemberRecord, Present
      <4> QED BY <3>1, <3>2, <4>1, <4>2
    <3> QED BY <2>1, <3>1, <3>2 DEF Kept
  <2> QED BY <2>3, <2>4 DEF RightPerson
<1> QED BY <1>1, <1>2, <1>3, StepKinds

LEMMA InitPerson == Init => PersonInv
<1> SUFFICES ASSUME Init PROVE PersonInv
  OBVIOUS
<1>1. 1 \in MemberIds /\ MemberIds \subseteq Nat
  BY MembershipAssumption, JoinsBounded DEF MemberIds
<1>2. Present = {1}
  BY <1>1 DEF Init, Present, NoMember
<1>3. member[1].email = NoPerson /\ member[1].user = Creator /\ member[1].status = "ACTIVE"
  BY <1>1 DEF Init
<1>4. RightPerson
  BY <1>2, <1>3 DEF RightPerson, Owner
<1>5. \A r \in Requests : Addressed(req[r])
  BY DEF Init, Idle, Addressed, Joining
<1> QED BY <1>2, <1>3, <1>4, <1>5 DEF Init, PersonInv, Numbered, CreatorsRow

LEMMA NextPerson ==
  ASSUME "complete" \notin Operations
  PROVE  TypeOK /\ RequestShape /\ PersonInv /\ [Next]_vars => PersonInv'
<1> SUFFICES ASSUME TypeOK, RequestShape, PersonInv, [Next]_vars PROVE PersonInv'
  OBVIOUS
<1>1. CASE UNCHANGED vars
  BY <1>1 DEF vars, tables, ids, PersonInv, Numbered, CreatorsRow, RightPerson, Owner, Present,
         Addressed
<1>2. ASSUME NEW r \in Requests, Starts(r) \/ Works(r) PROVE PersonInv'
  <2>1. RowsStay /\ lastMember >= 1 /\ lastMember \in Nat
    BY <1>2, StepRows DEF PersonInv, TypeOK
  <2>2. Numbered' /\ lastMember' >= 1
    <3>1. \A i \in Present' : i \in Nat
      BY DEF Present, MemberIds
    <3> QED BY <2>1, <3>1 DEF RowsStay, Numbered
  <2> QED BY <1>2, <2>2, StepRightPerson, StepAddressed DEF PersonInv
<1> QED BY <1>1, <1>2 DEF Next

\* The user linked to a row is the person it invites, however requests overlap, as long as
\* nobody completes a registration by the number of the registration.
THEOREM PersonsKept ==
  ASSUME "complete" \notin Operations
  PROVE  Spec => []RightPerson
<1>1. PersonInv => RightPerson
  BY DEF PersonInv
<1> QED BY <1>1, InitPerson, NextPerson, MembershipTypes, PTL DEF Spec

-----------------------------------------------------------------------------
\* The step that makes a row active is one of the person it invites.
LEMMA InviteesStep ==
  ASSUME "complete" \notin Operations, Settable \cap {"ACTIVE", "INVITED"} = {},
         TypeOK, RequestShape, PersonInv, [Next]_vars, NEW i \in MemberIds
  PROVE  ~Activates(i)
<1> SUFFICES ASSUME Activates(i) PROVE FALSE
  OBVIOUS
<1>1. i \in Present /\ i \in Present' /\ member'[i].status # member[i].status
  BY DEF Activates, Present
<1>2. PICK r \in Requests : Starts(r) \/ Works(r)
  BY <1>1 DEF Next, vars, tables
<1>3. /\ Shape(req[r]) /\ req[r] \in ReqRecord /\ lastMember + 1 \notin Present /\ Numbered
      /\ Addressed(req[r])
  BY DEF TypeOK, RequestShape, PersonInv, Numbered
<1>4. ~Link(r)
  BY <1>3 DEF Link, Shape, Stage
<1>s. ~SetStatus(r)
  <2> SUFFICES ASSUME SetStatus(r) PROVE FALSE
    OBVIOUS
  <2>1. req[r].status \in Settable
    BY <1>3 DEF SetStatus, Shape, Stage
  <2>2. member'[i].status \in {member[i].status, req[r].status}
    BY <1>1 DEF SetStatus, TypeOK, MemberRecord, Present
  <2> QED BY <1>1, <2>1, <2>2 DEF Activates
<1>5. \/ DropRoles(r) \/ AddRoles(r) \/ SetStatus(r) \/ Activate(r)
      \/ DeleteMember(r) \/ Join(r) \/ Link(r)
  BY <1>1, <1>2, <1>3, StepKinds, OldOrNew
<1>6. Activate(r) \/ Join(r)
  BY <1>1, <1>4, <1>s, <1>5, KeptRows DEF Kept
<1>7. i = req[r].id
  BY <1>1, <1>4, <1>s, <1>5, KeptRows DEF Kept
<1>8. req[r].op \in {"accept", "register", "registerInto"} /\ req[r].who = member[i].email
  BY <1>1, <1>3, <1>6, <1>7 DEF Activate, Join, Shape, Stage, Addressed, Joining
<1>9. req'[r] # req[r]
  <2>1. req'[r].pc \in {"act", "mailAccepted", "idle"}
    BY <1>3, <1>6 DEF Activate, Join, Finish, Goto, Become, Idle, TypeOK, ReqRecord
  <2> QED BY <1>6, <2>1 DEF Activate, Join
<1> QED BY <1>7, <1>8, <1>9 DEF Activates

\* A row becomes active only by a request of the person it invites, if no admin sets it to
\* active or back to invited, and nobody completes a registration by its number.
THEOREM InviteesActivate ==
  ASSUME "complete" \notin Operations, Settable \cap {"ACTIVE", "INVITED"} = {}
  PROVE  Spec => OnlyInviteeActivates
<1>1. TypeOK /\ RequestShape /\ PersonInv /\ [Next]_vars => \A i \in MemberIds : ~Activates(i)
  BY InviteesStep
<1>2. TypeOK /\ RequestShape /\ PersonInv /\ [Next]_vars => PersonInv'
  BY NextPerson
<1> QED BY <1>1, <1>2, InitPerson, MembershipTypes, PTL DEF Spec, OnlyInviteeActivates

=============================================================================
