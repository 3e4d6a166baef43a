----------------------------- MODULE Membership -----------------------------
(***************************************************************************)
(* MemberService over the rows of one organization                         *)
(* (src/src/modules/organizations/services/member.service.ts, with its     *)
(* repositories), UsersService.create, which joins an invited person on    *)
(* registration, and SubscriptionService.checkMemberLimit.                 *)
(*                                                                         *)
(* No handler runs in a transaction: every query is a step of its own and  *)
(* any number of requests run at once.  A failed query, a refused check or *)
(* a failed e-mail ends the request where it stands and undoes nothing.    *)
(* A person stands for an e-mail address and the user account under it.    *)
(***************************************************************************)
EXTENDS Naturals, Sequences, FiniteSets, FiniteSetsExt, Functions

CONSTANTS People, NoPerson,
          Creator,        \* the person who created the organization
          Requests,
          MemberLimit,    \* the plan's memberLimit
          Operations,     \* the operations clients call
          Batches,        \* the lists of people bulk invitations name
          Roles,          \* the roles invitations name, of those in RoleLists
          Alone,          \* the operations no other request overlaps
          Settable,       \* the statuses updates set
          EmailFaults,    \* the mail server may refuse a message
          MaxAccounts,    \* bound: accounts ever made
          MaxInvites      \* bound: invitations ever begun

RoleLists == {"member", "org_admin", "unknown"}   \* what an invitation asks for
MaxBatch == 100     \* people a bulk invitation may name
Statuses == {"INVITED", "ACTIVE", "INACTIVE", "PENDING_REGISTRATION"}
OperationNames ==
    {"invite", "bulk", "update", "remove", "accept", "decline", "register", "registerInto",
     "complete"}

ASSUME MembershipAssumption ==
    /\ Creator \in People /\ NoPerson \notin People
    /\ IsFiniteSet(People)
    /\ IsFiniteSet(Requests) /\ Requests # {}
    /\ MemberLimit \in Nat \ {0} /\ MaxInvites \in Nat
    /\ Operations \subseteq OperationNames
    /\ Batches \subseteq Seq(People)
    /\ \A b \in Batches : Len(b) <= MaxBatch
    /\ Roles \subseteq RoleLists
    /\ Alone \subseteq Operations /\ Settable \subseteq Statuses
    /\ EmailFaults \in BOOLEAN

\* Rows are numbered as PostgreSQL does, from 1; the creator's is row 1.  Nobody but the
\* creator registers straight into the organization more than once.
MaxJoins == IF "registerInto" \in Operations THEN Cardinality(People) - 1 ELSE 0
MemberIds == 1 .. (MaxInvites + MaxJoins + 1)
RegIds == 1 .. MaxInvites
Tokens == 1 .. MaxInvites          \* 0: null


VARIABLES
    member,      \* organization_members; status "none": no such row
    regs,        \* pending_registrations
    acts,        \* members with a row in member_activities
    registered,  \* people with a user account
    lastMember, lastReg, lastToken,   \* the sequences behind ids and tokens
    req,         \* the requests in flight
    mailed       \* history: <<person, token>> of registration invitations sent

tables == <<member, regs, acts>>
ids    == <<lastMember, lastReg, lastToken>>
vars   == <<tables, registered, ids, req, mailed>>

NoMember == [email |-> NoPerson, user |-> NoPerson, status |-> "none", admin |-> FALSE,
             token |-> 0]
NoReg == [email |-> NoPerson, token |-> 0, role |-> "member"]
Idle == [op |-> "none", pc |-> "idle", todo |-> <<>>, who |-> NoPerson, id |-> 0, reg |-> 0,
         token |-> 0, role |-> "member", status |-> "none", admins |-> 0]

Present == {i \in MemberIds : member[i].status # "none"}
Admins  == {i \in MemberIds : member[i].status = "ACTIVE" /\ member[i].admin}
InFlight(r) == req[r].pc # "idle"

Become(r, q) == req' = [req EXCEPT ![r] = q]
Goto(r, pc)  == Become(r, [req[r] EXCEPT !.pc = pc])
Finish(r)    == Become(r, Idle)

\* organization.service.ts create: one transaction, the e-mail left empty.
Init ==
    /\ member = [i \in MemberIds |->
                   IF i = 1 THEN [email |-> NoPerson, user |-> Creator, status |-> "ACTIVE",
                                  admin |-> TRUE, token |-> 0]
                   ELSE NoMember]
    /\ regs = [i \in RegIds |-> NoReg]
    /\ acts = {}
    /\ registered = {Creator}
    /\ lastMember = 1 /\ lastReg = 0 /\ lastToken = 0
    /\ req = [r \in Requests |-> Idle]
    /\ mailed = {}

-----------------------------------------------------------------------------
(* Requests arrive.                                                        *)

Start(r, rec) ==
    /\ ~InFlight(r)
    /\ \A s \in Requests : InFlight(s) => rec.op \notin Alone /\ req[s].op \notin Alone
    /\ rec.op \in Operations
    /\ Become(r, rec)
    /\ UNCHANGED <<tables, registered, ids, mailed>>

\* Bounds invitations: a request in flight still draws a token per address left, the
\* current one included until its lookup.
Undrawn(q) == Len(q.todo) - IF q.pc \in {"idle", "limit", "exists", "lookup"} \/ q.todo = <<>>
                            THEN 0 ELSE 1
InvitesBegun == lastToken + SumFunction([r \in Requests |-> Undrawn(req[r])])

StartInvite(r, p, role) ==
    /\ InvitesBegun < MaxInvites
    /\ Start(r, [Idle EXCEPT !.op = "invite", !.pc = "limit", !.todo = <<p>>, !.role = role])

\* bulkInviteMembers checks first that the inviter is an admin.
StartBulk(r, b, role) ==
    /\ InvitesBegun + Len(b) <= MaxInvites
    /\ Admins # {} /\ b # <<>>
    /\ Start(r, [Idle EXCEPT !.op = "bulk", !.pc = "limit", !.todo = b, !.role = role])

StartUpdate(r, i, s) ==
    Start(r, [Idle EXCEPT !.op = "update", !.pc = "find", !.id = i, !.status = s])

StartRemove(r, i) ==
    Start(r, [Idle EXCEPT !.op = "remove", !.pc = "find", !.id = i])

\* acceptInvitation and declineInvitation are for the user who is signed in.
StartAnswer(r, op, p) ==
    /\ op \in {"accept", "decline"}
    /\ p \in registered
    /\ Start(r, [Idle EXCEPT !.op = op, !.pc = "findInvited", !.who = p])

\* register, with the token of an invitation the person was sent or with none.
StartRegister(r, p, t) ==
    /\ p \notin registered /\ Cardinality(registered) < MaxAccounts
    /\ t # 0 => <<p, t>> \in mailed
    /\ Start(r, [Idle EXCEPT !.op = "register", !.pc = "createUser", !.who = p, !.token = t])

\* register, naming an organization: the id is a field of the request anybody may fill.
StartRegisterInto(r, p, t) ==
    /\ p \notin registered /\ Cardinality(registered) < MaxAccounts
    /\ t # 0 => <<p, t>> \in mailed
    /\ Start(r, [Idle EXCEPT !.op = "registerInto", !.pc = "createJoined", !.who = p,
                            !.token = t])

StartComplete(r, p, t) ==
    /\ p \in registered
    /\ <<p, t>> \in mailed
    /\ Start(r, [Idle EXCEPT !.op = "complete", !.pc = "findReg", !.who = p, !.token = t])

-----------------------------------------------------------------------------
(* inviteMember and bulkInviteMembers.                                     *)

\* Mutant: the check off by one.
UnderOrAtLimit == Cardinality(Present) <= MemberLimit

\* checkMemberLimit counts rows of every status.
UnderLimit == Cardinality(Present) < MemberLimit

CheckLimit(r) ==
    /\ req[r].pc = "limit"
    /\ IF UnderLimit THEN Goto(r, "exists") ELSE Finish(r)
    /\ UNCHANGED <<tables, registered, ids, mailed>>

Invitee(r) == Head(req[r].todo)
LastInvitee(r) == Len(req[r].todo) = 1

\* The loop of bulkInviteMembers goes on, or the request answers.
NextInvitee(r) ==
    IF LastInvitee(r) THEN Finish(r)
    ELSE Become(r, [req[r] EXCEPT !.pc = "exists", !.todo = Tail(@)])

\* An invitation to an address that is there already fails, a bulk skips it.
CheckExists(r) ==
    /\ req[r].pc = "exists"
    /\ \/ /\ \E i \in Present : member[i].email = Invitee(r)
          /\ IF req[r].op = "invite" THEN Finish(r) ELSE NextInvitee(r)
       \/ /\ \A i \in Present : member[i].email # Invitee(r)
          /\ Goto(r, "lookup")
    /\ UNCHANGED <<tables, registered, ids, mailed>>

\* The invitation token is a fresh uuid.
LookupUser(r) ==
    /\ req[r].pc = "lookup"
    /\ lastToken' = lastToken + 1
    /\ Become(r, [req[r] EXCEPT !.token = lastToken + 1,
                                !.pc = IF Invitee(r) \in registered THEN "createInvited"
                                       ELSE "createReg"])
    /\ UNCHANGED <<tables, registered, lastMember, lastReg, mailed>>

\* organization_members is unique by e-mail and by user.
UniqueMember(i, email, user) ==
    \A j \in Present \ {i} :
        member[j].email # email /\ (user # NoPerson => member[j].user # user)

CreateMember(r, row, pc) ==
    /\ IF UniqueMember(0, row.email, row.user)
       THEN /\ lastMember' = lastMember + 1
            /\ member' = [member EXCEPT ![lastMember + 1] = row]
            /\ Become(r, [req[r] EXCEPT !.pc = pc, !.id = lastMember + 1])
       ELSE /\ Finish(r)
            /\ UNCHANGED <<member, lastMember>>
    /\ UNCHANGED <<regs, acts, registered, lastReg, lastToken, mailed>>

CreateInvited(r) ==
    /\ req[r].pc = "createInvited"
    /\ CreateMember(r, [email |-> Invitee(r), user |-> Invitee(r), status |-> "INVITED",
                        admin |-> FALSE, token |-> req[r].token], "dropRoles")

CreateReg(r) ==
    /\ req[r].pc = "createReg"
    /\ lastReg' = lastReg + 1
    /\ regs' = [regs EXCEPT ![lastReg + 1] =
                  [email |-> Invitee(r), token |-> req[r].token, role |-> req[r].role]]
    /\ Goto(r, "mailReg")
    /\ UNCHANGED <<member, acts, registered, lastMember, lastToken, mailed>>

\* The registration invitation goes out before the member row exists.
MailReg(r) ==
    /\ req[r].pc = "mailReg"
    /\ mailed' = mailed \cup {<<Invitee(r), req[r].token>>}
    /\ Goto(r, "createPending")
    /\ UNCHANGED <<tables, registered, ids>>

CreatePending(r) ==
    /\ req[r].pc = "createPending"
    /\ CreateMember(r, [email |-> Invitee(r), user |-> NoPerson,
                        status |-> "PENDING_REGISTRATION", admin |-> FALSE,
                        token |-> req[r].token], "act")

\* assignRoles: the member is read, every name is resolved or the request fails, ...
DropRoles(r) ==
    /\ req[r].pc = "dropRoles"
    /\ IF req[r].id \in Present /\ req[r].role # "unknown"
       THEN /\ member' = [member EXCEPT ![req[r].id].admin = FALSE]
            /\ Goto(r, "addRoles")
       ELSE Finish(r) /\ UNCHANGED member
    /\ UNCHANGED <<regs, acts, registered, ids, mailed>>

\* ... and the roles are inserted, which the foreign key refuses for a deleted row.
AddRoles(r) ==
    /\ req[r].pc = "addRoles"
    /\ IF req[r].id \in Present
       THEN /\ member' = [member EXCEPT ![req[r].id].admin = (req[r].role = "org_admin")]
            /\ Goto(r, IF req[r].op = "complete" THEN "deleteReg" ELSE "mailInvited")
       ELSE Finish(r) /\ UNCHANGED member
    /\ UNCHANGED <<regs, acts, registered, ids, mailed>>

\* A message nothing later depends on.
Mail(r) ==
    /\ req[r].pc \in {"mailInvited", "mailAccepted"}
    /\ Goto(r, "act")
    /\ UNCHANGED <<tables, registered, ids, mailed>>

\* The mail server refuses; what was written stays written.
MailFails(r) ==
    /\ EmailFaults
    /\ req[r].pc \in {"mailReg", "mailInvited", "mailAccepted"}
    /\ Finish(r)
    /\ UNCHANGED <<tables, registered, ids, mailed>>

\* The database refuses a query.
QueryFails(r) ==
    /\ req[r].pc \notin {"idle", "mailReg", "mailInvited", "mailAccepted"}
    /\ Finish(r)
    /\ UNCHANGED <<tables, registered, ids, mailed>>

\* trackActivity, last in every handler; the row refers to the member's row.
TrackActivity(r) ==
    /\ req[r].pc = "act"
    /\ IF req[r].id \in Present
       THEN /\ acts' = acts \cup {req[r].id}
            /\ IF req[r].op \in {"invite", "bulk"} THEN NextInvitee(r) ELSE Finish(r)
       ELSE Finish(r) /\ UNCHANGED acts
    /\ UNCHANGED <<member, regs, registered, ids, mailed>>

-----------------------------------------------------------------------------
(* updateMember and removeMember.                                          *)

Find(r) ==
    /\ req[r].pc = "find"
    /\ IF req[r].id \in Present
       THEN Goto(r, IF req[r].op = "update" THEN "setStatus" ELSE "countAdmins")
       ELSE Finish(r)
    /\ UNCHANGED <<tables, registered, ids, mailed>>

SetStatus(r) ==
    /\ req[r].pc = "setStatus"
    /\ IF req[r].id \in Present
       THEN /\ member' = [member EXCEPT ![req[r].id].status = req[r].status]
            /\ Goto(r, "act")
       ELSE Finish(r) /\ UNCHANGED member
    /\ UNCHANGED <<regs, acts, registered, ids, mailed>>

\* isLastAdmin counts the admins, ...
CountAdmins(r) ==
    /\ req[r].pc = "countAdmins"
    /\ Become(r, [req[r] EXCEPT !.pc = "checkAdmin", !.admins = Cardinality(Admins)])
    /\ UNCHANGED <<tables, registered, ids, mailed>>

\* Mutant: the count is compared with zero.
IsLastAdminLate(r) ==
    req[r].id \in Present /\ member[req[r].id].admin /\ req[r].admins = 0

\* ... then reads the member again; a row that is gone is not the last admin.
IsLastAdmin(r) ==
    req[r].id \in Present /\ member[req[r].id].admin /\ req[r].admins = 1

CheckAdmin(r) ==
    /\ req[r].pc = "checkAdmin"
    /\ IF IsLastAdmin(r) THEN Finish(r) ELSE Goto(r, "delete")
    /\ UNCHANGED <<tables, registered, ids, mailed>>

\* Activities have no cascade: a member with one cannot be deleted.
DeleteMember(r) ==
    /\ req[r].pc = "delete"
    /\ IF req[r].id \in Present /\ req[r].id \notin acts
       THEN /\ member' = [member EXCEPT ![req[r].id] = NoMember]
            /\ Goto(r, "act")
       ELSE Finish(r) /\ UNCHANGED member
    /\ UNCHANGED <<regs, acts, registered, ids, mailed>>

-----------------------------------------------------------------------------
(* acceptInvitation and declineInvitation.                                 *)

\* Mutant: the organization's invitation is taken for the user's.
InvitationInOrg(i, p) == member[i].status = "INVITED"

InvitationOf(i, p) == member[i].user = p /\ member[i].status = "INVITED"

FindInvited(r) ==
    /\ req[r].pc = "findInvited"
    /\ \/ \E i \in Present :
             /\ InvitationOf(i, req[r].who)
             /\ Become(r, [req[r] EXCEPT !.id = i, !.pc = IF req[r].op = "accept"
                                                        THEN "activate" ELSE "delete"])
       \/ /\ \A i \in Present : ~InvitationOf(i, req[r].who)
          /\ Finish(r)
    /\ UNCHANGED <<tables, registered, ids, mailed>>

\* The update is by id: what became of the invitation since it was read is not seen.
\* The admin to notify is looked up afterwards, and there may be none.
Activate(r) ==
    /\ req[r].pc = "activate"
    /\ IF req[r].id \in Present
       THEN /\ member' = [member EXCEPT ![req[r].id].status = "ACTIVE", ![req[r].id].token = 0]
            /\ Goto(r, IF Admins = {} THEN "act" ELSE "mailAccepted")
       ELSE Finish(r) /\ UNCHANGED member
    /\ UNCHANGED <<regs, acts, registered, ids, mailed>>

-----------------------------------------------------------------------------
(* Registration, and completeRegistration.                                 *)

\* UsersService.create; the account stands whatever becomes of the invitation.
CreateUser(r) ==
    /\ req[r].pc = "createUser"
    /\ IF req[r].who \notin registered
       THEN /\ registered' = registered \cup {req[r].who}
            /\ IF req[r].token # 0 THEN Goto(r, "findToken") ELSE Finish(r)
       ELSE Finish(r) /\ UNCHANGED <<registered>>
    /\ UNCHANGED <<tables, ids, mailed>>

\* The account and an active row in one insert, for which nobody asks checkMemberLimit; a
\* row the address has already refuses both.
CreateJoined(r) ==
    /\ req[r].pc = "createJoined"
    /\ IF req[r].who \notin registered /\ UniqueMember(0, req[r].who, req[r].who)
       THEN /\ registered' = registered \cup {req[r].who}
            /\ lastMember' = lastMember + 1
            /\ member' = [member EXCEPT ![lastMember + 1] =
                            [email |-> req[r].who, user |-> req[r].who, status |-> "ACTIVE",
                             admin |-> FALSE, token |-> 0]]
            /\ IF req[r].token # 0 THEN Goto(r, "findToken") ELSE Finish(r)
       ELSE Finish(r) /\ UNCHANGED <<registered, lastMember, member>>
    /\ UNCHANGED <<regs, acts, lastReg, lastToken, mailed>>

HoldsToken(i, p, t) == member[i].token = t /\ member[i].email = p

FindToken(r) ==
    /\ req[r].pc = "findToken"
    /\ \/ \E i \in Present :
             /\ HoldsToken(i, req[r].who, req[r].token)
             /\ member[i].status = "PENDING_REGISTRATION"
             /\ Become(r, [req[r] EXCEPT !.id = i, !.pc = "join"])
       \/ /\ \A i \in Present : HoldsToken(i, req[r].who, req[r].token)
                                    => member[i].status # "PENDING_REGISTRATION"
          /\ Finish(r)
    /\ UNCHANGED <<tables, registered, ids, mailed>>

\* Mutant: the member's id is connected where the user's belongs.
LinkMemberId(i, p) ==
    [member EXCEPT ![i].status = "ACTIVE", ![i].token = 0, ![i].user = i]

LinkUser(i, p) ==
    [member EXCEPT ![i].status = "ACTIVE", ![i].token = 0, ![i].user = p]

\* The row read before has no user, so nobody is notified.
Join(r) ==
    /\ req[r].pc = "join"
    /\ IF req[r].id \in Present /\ UniqueMember(req[r].id, member[req[r].id].email, req[r].who)
       THEN member' = LinkUser(req[r].id, req[r].who) /\ Goto(r, "act")
       ELSE Finish(r) /\ UNCHANGED member
    /\ UNCHANGED <<regs, acts, registered, ids, mailed>>

FindReg(r) ==
    /\ req[r].pc = "findReg"
    /\ \/ \E g \in RegIds :
             /\ regs[g].email = req[r].who /\ regs[g].token = req[r].token
             /\ Become(r, [req[r] EXCEPT !.pc = "link", !.reg = g, !.role = regs[g].role])
       \/ /\ \A g \in RegIds : regs[g].email # req[r].who \/ regs[g].token # req[r].token
          /\ Finish(r)
    /\ UNCHANGED <<tables, registered, ids, mailed>>

\* findByToken deletes a registration that is older than seven days and finds nothing.
ExpireReg(r) ==
    /\ req[r].pc = "findReg"
    /\ \E g \in RegIds :
          /\ regs[g].email = req[r].who /\ regs[g].token = req[r].token
          /\ regs' = [regs EXCEPT ![g] = NoReg]
    /\ Finish(r)
    /\ UNCHANGED <<member, acts, registered, ids, mailed>>

\* The id of the registration is used as the id of the member.
Link(r) ==
    /\ req[r].pc = "link"
    /\ LET i == req[r].reg IN
       IF i \in Present /\ UniqueMember(i, member[i].email, req[r].who)
       THEN /\ member' = LinkUser(i, req[r].who)
            /\ Become(r, [req[r] EXCEPT !.pc = "dropRoles", !.id = i])
       ELSE Finish(r) /\ UNCHANGED member
    /\ UNCHANGED <<regs, acts, registered, ids, mailed>>

DeleteReg(r) ==
    /\ req[r].pc = "deleteReg"
    /\ IF regs[req[r].reg] # NoReg
       THEN regs' = [regs EXCEPT ![req[r].reg] = NoReg] /\ Goto(r, "act")
       ELSE Finish(r) /\ UNCHANGED regs
    /\ UNCHANGED <<member, acts, registered, ids, mailed>>

-----------------------------------------------------------------------------
Starts(r) ==
    \/ \E p \in People, role \in Roles : StartInvite(r, p, role)
    \/ \E b \in Batches, role \in Roles : StartBulk(r, b, role)
    \/ \E i \in MemberIds, s \in Settable : StartUpdate(r, i, s)
    \/ \E i \in MemberIds : StartRemove(r, i)
    \/ \E op \in {"accept", "decline"}, p \in People : StartAnswer(r, op, p)
    \/ \E p \in People, t \in Tokens \cup {0} : StartRegister(r, p, t)
    \/ \E p \in People, t \in Tokens \cup {0} : StartRegisterInto(r, p, t)
    \/ \E p \in People, t \in Tokens : StartComplete(r, p, t)

Works(r) ==
    \/ CheckLimit(r) \/ CheckExists(r) \/ LookupUser(r) \/ CreateInvited(r)
    \/ CreateReg(r) \/ MailReg(r) \/ CreatePending(r) \/ DropRoles(r) \/ AddRoles(r)
    \/ Mail(r) \/ MailFails(r) \/ QueryFails(r) \/ TrackActivity(r)
    \/ Find(r) \/ SetStatus(r) \/ CountAdmins(r) \/ CheckAdmin(r) \/ DeleteMember(r)
    \/ FindInvited(r) \/ Activate(r)
    \/ CreateUser(r) \/ CreateJoined(r) \/ FindToken(r) \/ Join(r) \/ FindReg(r)
    \/ ExpireReg(r) \/ Link(r) \/ DeleteReg(r)

Next == \E r \in Requests : Starts(r) \/ Works(r)

Spec == Init /\ [][Next]_vars

-----------------------------------------------------------------------------
(* Properties.                                                             *)

MemberRecord == [email : People \cup {NoPerson}, user : People \cup {NoPerson},
                 status : Statuses \cup {"none"}, admin : BOOLEAN, token : Nat]
RegRecord == [email : People \cup {NoPerson}, token : Nat, role : RoleLists]
Pcs == {"idle", "limit", "exists", "lookup", "createInvited", "createReg", "mailReg",
        "createPending", "dropRoles", "addRoles", "mailInvited", "mailAccepted", "act",
        "find", "setStatus", "countAdmins", "checkAdmin", "delete", "findInvited",
        "activate", "createUser", "createJoined", "findToken", "join", "findReg", "link",
        "deleteReg"}
ReqRecord == [op : OperationNames \cup {"none"}, pc : Pcs, todo : Seq(People),
              who : People \cup {NoPerson}, id : Nat, reg : Nat, token : Nat,
              role : RoleLists, status : Statuses \cup {"none"}, admins : Nat]

\* Every table, sequence and request keeps the shape the schema and the code give it.
TypeOK ==
    /\ member \in [MemberIds -> MemberRecord]
    /\ regs \in [RegIds -> RegRecord]
    /\ acts \subseteq Nat
    /\ registered \subseteq People
    /\ lastMember \in Nat /\ lastReg \in Nat /\ lastToken \in Nat
    /\ req \in [Requests -> ReqRecord]
    /\ mailed \subseteq People \X Nat

\* removeMember never leaves the organization without an active admin.
LastAdmin == Admins # {}

\* What checkMemberLimit is not asked about: those who register straight into the
\* organization, each with a new account.
Unasked ==
    IF "registerInto" \in Operations THEN Cardinality(registered \ {Creator}) ELSE 0

\* checkMemberLimit keeps the organization within its plan, but for those who register
\* straight into it: at most one row for each account made since.
WithinLimit == Cardinality(Present) <= MemberLimit + Unasked

\* A check that passes leaves room for one invitation.  The requests that pass it together,
\* each for all the invitations it carries, overrun the limit by at most what they carry,
\* less that one; requests nobody overlaps by what the longest of them carries.
LongestBatch ==
    IF "bulk" \in Operations THEN Max({Len(b) : b \in Batches} \cup {1}) ELSE 1
Together ==
    LET single == IF "invite" \in Alone THEN 1 ELSE Cardinality(Requests) IN
    IF "bulk" \in Operations \ Alone THEN Cardinality(Requests) * LongestBatch
    ELSE IF single > LongestBatch THEN single ELSE LongestBatch
LimitOverrun == Cardinality(Present) <= MemberLimit - 1 + Together + Unasked

\* Removing, declining, inviting and accepting never take the organization's last active
\* admin, whatever queries fail on the way; only a status update, which asks nobody, and a
\* completed registration, which takes a registration's id for a member's, can.
KeepsAdmin ==
    [][Admins # {} /\ Admins' = {} =>
          \E r \in Requests : req[r].op \in {"update", "complete"} /\ req'[r] # req[r]]_vars

\* The user account linked to a row is that of the e-mail it invites; the creator's row
\* stays the creator's.
Owner(i) == IF i = 1 THEN Creator ELSE member[i].email
RightPerson == \A i \in Present : member[i].user \in {Owner(i), NoPerson}

\* A row becomes active only by a request of the person it invites: rows come and go
\* between a handler's read and its write, and an id read before never names another's row.
Activates(i) ==
    /\ i \in Present /\ member[i].status # "ACTIVE" /\ member'[i].status = "ACTIVE"
    /\ \A r \in Requests :
          ~ (req[r].op \in {"accept", "register", "registerInto"}
             /\ req[r].who = member[i].email /\ req[r].id = i /\ req'[r] # req[r])
OnlyInviteeActivates == [][\A i \in MemberIds : ~Activates(i)]_vars

=============================================================================
