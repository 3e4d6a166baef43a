------------------------- MODULE AdminSessionsProofs -------------------------
(* What holds of AdminSessions for any users, sessions and requests. *)
EXTENDS AdminSessions, TLAPS

Copying == {"store", "storeAgain"}

\* What is so of a request when the rows are rw and their owners ow: it knows a row; if the row
\* is still valid it was when the request arrived; an admitted one's was; a sweep has the
\* sessions of its user to revoke that are still valid, or has failed; one that is done has none.
Sound(q, rw, ow) ==
    /\ q.pc # "idle" => q.token \in Sessions /\ rw[q.token] # "none"
    /\ q.pc \in Copying <=> q.copy # None
    /\ q.pc \in Validating /\ rw[q.token] = "active" => q.wasValid
    /\ q.pc \in Admitted => q.wasValid
    /\ q.pc \in {"sweep", "answer"} =>
          \A s \in q.before :
              /\ rw[s] # "none"
              /\ s = q.token \/ rw[s] # "active" \/ (q.pc = "sweep" /\ (s \in q.todo \/ q.failed))
    /\ q.pc = "sweep" =>
          /\ q.user \in Users
          /\ \A s \in q.todo : s # q.token /\ rw[s] # "none" /\ ow[s] \in {q.user, None}

Rowed(rw, ow, ch) ==
    /\ rw \in [Sessions -> Rows] /\ ow \in [Sessions -> Users \cup {None}]
    /\ ch \in [Sessions -> Copies]
    /\ \A s \in Sessions :
          /\ rw[s] = "none" => ch[s] = None
          /\ rw[s] \in {"none", "deleted"} <=> ow[s] = None

Inv ==
    /\ Rowed(row, owner, cache)
    /\ req \in [Requests -> ReqRecord]
    /\ \A r \in Requests : Sound(req[r], row, owner)

\* A row that exists goes on existing, or having existed, with its owner; it never becomes
\* valid again.
Onward(rw, ow, nrw, now) ==
    \A s \in Sessions : rw[s] # "none" =>
        /\ nrw[s] # "none"
        /\ nrw[s] = "active" => rw[s] = "active"
        /\ now[s] \in {ow[s], None}

LEMMA IdleIsSound ==
  ASSUME NEW rw, NEW ow
  PROVE  Idle \in ReqRecord /\ Idle.pc = "idle" /\ Sound(Idle, rw, ow)
  BY DEF Idle, ReqRecord, Pcs, Copies, Sound, Copying, Validating, Admitted

LEMMA InitInv == Init => Inv
<1> SUFFICES ASSUME Init PROVE Inv
  OBVIOUS
<1>1. Rowed(row, owner, cache)
  BY DEF Init, Rowed, Rows, Copies
<1>2. req \in [Requests -> ReqRecord] /\ \A r \in Requests : Sound(req[r], row, owner)
  BY IdleIsSound DEF Init
<1> QED BY <1>1, <1>2 DEF Inv

LEMMA SoundStays ==
  ASSUME NEW q \in ReqRecord, NEW rw, NEW ow, NEW nrw, NEW now,
         Sound(q, rw, ow), Onward(rw, ow, nrw, now)
  PROVE  Sound(q, nrw, now)
<1>1. q.before \subseteq Sessions /\ q.todo \subseteq Sessions
  BY DEF ReqRecord
<1>2. q.pc # "idle" => q.token \in Sessions /\ rw[q.token] # "none"
  BY DEF Sound
<1>3. q.pc \in Validating => q.pc # "idle"
  BY DEF Validating
<1> QED BY <1>1, <1>2, <1>3 DEF Sound, Onward

\* A step of a request.
LEMMA RequestStep ==
  ASSUME Inv, NEW r \in Requests, NEW q \in ReqRecord, Become(r, q),
         Sound(q, row', owner'), Onward(row, owner, row', owner'),
         Rowed(row', owner', cache')
  PROVE  Inv'
<1>1. req' \in [Requests -> ReqRecord]
  BY DEF Inv, Become
<1>2. \A t \in Requests : Sound(req'[t], row', owner')
  <2> TAKE t \in Requests
  <2>1. CASE t = r
    BY <2>1 DEF Inv, Become
  <2>2. CASE t # r
    BY <2>2, SoundStays DEF Inv, Become
  <2> QED BY <2>1, <2>2
<1> QED BY <1>1, <1>2 DEF Inv

LEMMA NothingMoves == Onward(row, owner, row, owner)
  BY DEF Onward

\* A step of a request that leaves the database alone.
LEMMA QuietStep ==
  ASSUME Inv, NEW r \in Requests, NEW q \in ReqRecord, Become(r, q), Sound(q, row, owner),
         UNCHANGED db,
         cache' = cache \/ (\E s \in Sessions, c \in Copies :
                                row[s] # "none" /\ cache' = [cache EXCEPT ![s] = c])
  PROVE  Inv'
<1>1. Rowed(row', owner', cache')
  BY DEF Inv, Rowed, db
<1> QED BY <1>1, NothingMoves, RequestStep DEF db

LEMMA BackToIdle ==
  ASSUME Inv, NEW r \in Requests, Become(r, Idle), UNCHANGED <<db, cache>>
  PROVE  Inv'
  BY IdleIsSound, QuietStep

LEMMA InsertInv ==
  ASSUME Inv, NEW r \in Requests, NEW u \in Users, NEW s \in Sessions, Insert(r, u, s)
  PROVE  Inv'
<1> DEFINE q == [Idle EXCEPT !.pc = "storeNew", !.token = s]
<1>1. q \in ReqRecord
  BY IdleIsSound DEF ReqRecord, Pcs
<1>2. q.pc = "storeNew" /\ q.token = s /\ q.copy = None
  BY DEF Idle
<1>3. row[s] = "none" /\ row' = [row EXCEPT ![s] = "active"] /\ owner' = [owner EXCEPT ![s] = u]
      /\ cache' = cache /\ Become(r, q)
  BY DEF Insert
<1> HIDE DEF q
<1>4. Rowed(row', owner', cache')
  BY <1>3, AdminSessionsAssumption DEF Inv, Rowed, Rows
<1>5. Onward(row, owner, row', owner')
  BY <1>3 DEF Inv, Rowed, Onward
<1>6. Sound(q, row', owner')
  BY <1>2, <1>3 DEF Sound, Copying, Validating, Admitted, Inv, Rowed
<1> QED BY <1>1, <1>3, <1>4, <1>5, <1>6, RequestStep

LEMMA StoreNewInv ==
  ASSUME Inv, NEW r \in Requests, StoreNew(r)
  PROVE  Inv'
<1>1. req[r].token \in Sessions /\ row[req[r].token] # "none"
  BY DEF StoreNew, At, Inv, Sound
<1>2. "active" \in Copies
  BY DEF Copies
<1> QED BY <1>1, <1>2, IdleIsSound, QuietStep DEF StoreNew

LEMMA ArriveInv ==
  ASSUME Inv, NEW r \in Requests, NEW s \in Sessions, Arrive(r, s)
  PROVE  Inv'
<1> DEFINE q == [Idle EXCEPT !.pc = "get", !.token = s, !.wasValid = Valid(s)]
<1>1. q \in ReqRecord
  BY IdleIsSound DEF ReqRecord, Pcs, Validating, Valid
<1>2. q.pc = "get" /\ q.token = s /\ q.copy = None /\ q.wasValid = (row[s] = "active")
  BY DEF Idle, Valid
<1>3. row[s] # "none" /\ Become(r, q) /\ UNCHANGED <<db, cache>>
  BY DEF Arrive
<1> HIDE DEF q
<1>4. Sound(q, row, owner)
  BY <1>2, <1>3 DEF Sound, Copying, Validating, Admitted
<1> QED BY <1>1, <1>3, <1>4, QuietStep

\* To another place of the guard or of a handler, nothing else being asked of it there.
LEMMA GotoSound ==
  ASSUME Inv, NEW r \in Requests, NEW pc, req[r].pc # "idle",
         \/ pc \in {"drop", "find"} /\ req[r].pc \in Validating
         \/ pc = "touch" /\ req[r].pc \in Validating /\ req[r].wasValid
         \/ pc = "storeAgain" /\ req[r].pc = "store"
         \/ pc = "del" /\ req[r].pc = "handle"
         \/ pc = "answer" /\ req[r].pc = "sweep" /\ req[r].todo = {} /\ ~req[r].failed
  PROVE  LET q == [req[r] EXCEPT !.pc = pc]
         IN  q \in ReqRecord /\ Sound(q, row, owner)
<1> DEFINE q == [req[r] EXCEPT !.pc = pc]
<1>1. req[r] \in ReqRecord /\ Sound(req[r], row, owner)
  BY DEF Inv
<1>2. pc \in Pcs
  BY DEF Pcs, Validating, Admitted
<1>3. q \in ReqRecord
  BY <1>1, <1>2 DEF ReqRecord
<1>4. /\ q.pc = pc /\ q.token = req[r].token /\ q.copy = req[r].copy /\ q.wasValid = req[r].wasValid
      /\ q.before = req[r].before /\ q.todo = req[r].todo /\ q.failed = req[r].failed
      /\ q.user = req[r].user
  BY <1>1 DEF ReqRecord
<1> HIDE DEF q
<1>5. Sound(q, row, owner)
  BY <1>1, <1>4 DEF Sound, Copying, Validating, Admitted
<1> QED BY <1>3, <1>5 DEF q

LEMMA GetInv ==
  ASSUME Inv, NEW r \in Requests, Get(r)
  PROVE  Inv'
<1>1. PICK pc \in {"drop", "find"} : Goto(r, pc) /\ UNCHANGED <<db, cache>>
  BY DEF Get, CopyIsValid
<1>2. req[r].pc # "idle" /\ req[r].pc \in Validating
  BY DEF Get, At, Validating
<1> QED BY <1>1, <1>2, GotoSound, QuietStep DEF Goto

LEMMA DropInv ==
  ASSUME Inv, NEW r \in Requests, Drop(r)
  PROVE  Inv'
<1>1. req[r].pc # "idle" /\ req[r].pc \in Validating
  BY DEF Drop, At, Validating
<1>2. req[r].token \in Sessions /\ row[req[r].token] # "none" /\ None \in Copies
  BY <1>1 DEF Inv, Sound, Copies
<1>3. Goto(r, "find") /\ UNCHANGED db /\ cache' = [cache EXCEPT ![req[r].token] = None]
  BY DEF Drop
<1> QED BY <1>1, <1>2, <1>3, GotoSound, QuietStep DEF Goto

LEMMA FindInv ==
  ASSUME Inv, NEW r \in Requests, Find(r)
  PROVE  Inv'
<1>1. req[r].pc # "idle" /\ req[r].pc \in Validating /\ UNCHANGED <<db, cache>>
  BY DEF Find, At, Validating
<1>2. CASE Valid(req[r].token)
  <2>1. req[r].wasValid
    BY <1>1, <1>2 DEF Inv, Sound, Valid
  <2>2. Goto(r, "touch")
    BY <1>2 DEF Find
  <2> QED BY <1>1, <2>1, <2>2, GotoSound, QuietStep DEF Goto
<1>3. CASE ~Valid(req[r].token)
  BY <1>1, <1>3, BackToIdle DEF Find
<1> QED BY <1>2, <1>3

LEMMA TouchInv ==
  ASSUME Inv, NEW r \in Requests, Touch(r)
  PROVE  Inv'
<1> DEFINE c == CopyOf(row[req[r].token])
           q == [req[r] EXCEPT !.pc = "store", !.copy = c]
<1>1. req[r] \in ReqRecord /\ Sound(req[r], row, owner) /\ req[r].pc = "touch"
  BY DEF Inv, Touch, At
<1>2. c \in {"active", "revoked"}
  BY DEF CopyOf
<1>3. Become(r, q) /\ UNCHANGED <<db, cache>>
  BY DEF Touch
<1> HIDE DEF c
<1>4. "store" \in Pcs /\ c \in Copies /\ c # None
  BY <1>2, AdminSessionsAssumption DEF Pcs, Admitted, Copies
<1>5. q \in ReqRecord
  BY <1>1, <1>4 DEF ReqRecord
<1>6. q.pc = "store" /\ q.token = req[r].token /\ q.copy # None /\ q.wasValid = req[r].wasValid
  BY <1>1, <1>4 DEF ReqRecord
<1> HIDE DEF q
<1>7. Sound(q, row, owner)
  BY <1>1, <1>6 DEF Sound, Copying, Validating, Admitted
<1> QED BY <1>3, <1>5, <1>7, QuietStep

LEMMA StoreInv ==
  ASSUME Inv, NEW r \in Requests, Store(r)
  PROVE  Inv'
<1>1. req[r].pc = "store" /\ Goto(r, "storeAgain") /\ UNCHANGED db
      /\ cache' = [cache EXCEPT ![req[r].token] = req[r].copy]
  BY DEF Store, At
<1>2. req[r].token \in Sessions /\ row[req[r].token] # "none" /\ req[r].copy \in Copies
  BY <1>1 DEF Inv, Sound, ReqRecord
<1>3. PICK s \in Sessions, c \in Copies :
          row[s] # "none" /\ cache' = [cache EXCEPT ![s] = c]
  BY <1>1, <1>2
<1> QED BY <1>1, <1>3, GotoSound, QuietStep DEF Goto

LEMMA StoreAgainInv ==
  ASSUME Inv, NEW r \in Requests, StoreAgain(r)
  PROVE  Inv'
<1> DEFINE q == [req[r] EXCEPT !.pc = "handle", !.copy = None]
<1>1. req[r] \in ReqRecord /\ Sound(req[r], row, owner) /\ req[r].pc = "storeAgain"
  BY DEF Inv, StoreAgain, At
<1>2. Become(r, q) /\ UNCHANGED db /\ cache' = [cache EXCEPT ![req[r].token] = req[r].copy]
  BY DEF StoreAgain
<1>3. "handle" \in Pcs /\ None \in Copies
  BY DEF Pcs, Admitted, Copies
<1>4. q \in ReqRecord
  BY <1>1, <1>3 DEF ReqRecord
<1>5. q.pc = "handle" /\ q.token = req[r].token /\ q.copy = None /\ q.wasValid = req[r].wasValid
  BY <1>1 DEF ReqRecord
<1>6. req[r].token \in Sessions /\ row[req[r].token] # "none" /\ req[r].copy \in Copies
  BY <1>1 DEF Sound, ReqRecord
<1> HIDE DEF q
<1>7. Sound(q, row, owner)
  BY <1>1, <1>5 DEF Sound, Copying, Validating, Admitted
<1> QED BY <1>2, <1>4, <1>6, <1>7, QuietStep

LEMMA AnswerInv ==
  ASSUME Inv, NEW r \in Requests, Answer(r)
  PROVE  Inv'
  BY BackToIdle DEF Answer

\* A row that exists and is revoked.
LEMMA RevokedMoves ==
  ASSUME Inv, NEW s \in Sessions, row[s] \notin {"none", "deleted"}, Revoked(s),
         UNCHANGED <<owner, cache>>
  PROVE  Onward(row, owner, row', owner') /\ Rowed(row', owner', cache')
  BY DEF Inv, Revoked, Onward, Rowed, Rows

LEMMA RevokeInv ==
  ASSUME Inv, NEW r \in Requests, Revoke(r)
  PROVE  Inv'
<1>1. req[r].pc = "handle" /\ Goto(r, "del") /\ Revoked(req[r].token) /\ UNCHANGED <<owner, cache>>
  BY DEF Revoke, At
<1>2. req[r].token \in Sessions /\ row[req[r].token] \notin {"none", "deleted"}
  BY <1>1 DEF Inv, Sound, Revoke, CanRevoke
<1>3. Onward(row, owner, row', owner') /\ Rowed(row', owner', cache')
  BY <1>1, <1>2, RevokedMoves
<1> DEFINE q == [req[r] EXCEPT !.pc = "del"]
<1>4. q \in ReqRecord /\ Sound(q, row, owner)
  BY <1>1, GotoSound
<1>5. Become(r, q)
  BY <1>1 DEF Goto
<1> HIDE DEF q
<1> QED BY <1>3, <1>4, <1>5, SoundStays, RequestStep

LEMMA DelInv ==
  ASSUME Inv, NEW r \in Requests, Del(r)
  PROVE  Inv'
<1>1. req[r].token \in Sessions /\ row[req[r].token] # "none" /\ None \in Copies
  BY DEF Del, At, Inv, Sound, Copies
<1> QED BY <1>1, IdleIsSound, QuietStep DEF Del

LEMMA ListInv ==
  ASSUME Inv, NEW r \in Requests, NEW u \in Users, List(r, u)
  PROVE  Inv'
<1> DEFINE q == [req[r] EXCEPT !.pc = "sweep", !.user = u, !.before = ActiveOf(u),
                               !.todo = ActiveOf(u) \ {req[r].token}]
<1>1. req[r] \in ReqRecord /\ Sound(req[r], row, owner) /\ req[r].pc = "handle"
  BY DEF Inv, List, At
<1>2. Become(r, q) /\ UNCHANGED <<db, cache>>
  BY DEF List
<1>3. "sweep" \in Pcs /\ ActiveOf(u) \in SUBSET Sessions
  BY DEF Pcs, Admitted, ActiveOf
<1>4. q \in ReqRecord
  BY <1>1, <1>3 DEF ReqRecord
<1>5. /\ q.pc = "sweep" /\ q.token = req[r].token /\ q.copy = req[r].copy
      /\ q.wasValid = req[r].wasValid /\ q.user = u /\ q.before = ActiveOf(u)
      /\ q.todo = ActiveOf(u) \ {req[r].token}
  BY <1>1 DEF ReqRecord
<1> HIDE DEF q
<1>6. Sound(q, row, owner)
  BY <1>1, <1>5 DEF Sound, Copying, Validating, Admitted, ActiveOf, Valid
<1> QED BY <1>2, <1>4, <1>6, QuietStep

\* A sweep with fewer sessions left to revoke, the others being no longer valid or it failed.
LEMMA SweepSound ==
  ASSUME NEW p \in ReqRecord, NEW q \in ReqRecord, NEW s, NEW rw, NEW ow,
         Sound(p, rw, ow), p.pc = "sweep", q.pc = "sweep", q.user = p.user, q.token = p.token,
         q.copy = p.copy, q.wasValid = p.wasValid, q.before = p.before,
         q.todo \subseteq p.todo, p.todo \subseteq q.todo \cup {s},
         p.failed => q.failed, q.failed \/ rw[s] # "active" \/ q.todo = p.todo
  PROVE  Sound(q, rw, ow)
  BY DEF Sound, Copying, Validating, Admitted

LEMMA SweepRevokeInv ==
  ASSUME Inv, NEW r \in Requests, NEW s \in Sessions, SweepRevoke(r, s)
  PROVE  Inv'
<1> DEFINE q == [req[r] EXCEPT !.todo = @ \ {s}, !.dels = @ \cup {s}]
<1>1. req[r] \in ReqRecord /\ Sound(req[r], row, owner) /\ req[r].pc = "sweep"
      /\ s \in req[r].todo
  BY DEF Inv, SweepRevoke, At
<1>2. Become(r, q) /\ Revoked(s) /\ UNCHANGED <<owner, cache>>
  BY DEF SweepRevoke
<1>3. row[s] \notin {"none", "deleted"}
  BY <1>1 DEF Sound, SweepRevoke, CanRevoke
<1>4. Onward(row, owner, row', owner') /\ Rowed(row', owner', cache')
  BY <1>2, <1>3, RevokedMoves
<1>5. q \in ReqRecord
  BY <1>1 DEF ReqRecord
<1>6. /\ q.pc = "sweep" /\ q.user = req[r].user /\ q.token = req[r].token
      /\ q.copy = req[r].copy /\ q.wasValid = req[r].wasValid /\ q.before = req[r].before
      /\ q.todo = req[r].todo \ {s} /\ q.failed = req[r].failed
  BY <1>1 DEF ReqRecord
<1> HIDE DEF q
<1>7. row'[s] = "revoked"
  BY <1>2 DEF Revoked, Inv, Rowed
<1>8. Sound(req[r], row', owner')
  BY <1>1, <1>4, SoundStays
<1>9. Sound(q, row', owner')
  BY <1>1, <1>5, <1>6, <1>7, <1>8, SweepSound
<1> QED BY <1>2, <1>4, <1>5, <1>9, RequestStep

LEMMA SweepDelInv ==
  ASSUME Inv, NEW r \in Requests, NEW s \in Sessions, SweepDel(r, s)
  PROVE  Inv'
<1> DEFINE q == [req[r] EXCEPT !.dels = @ \ {s}]
<1>1. req[r] \in ReqRecord /\ Sound(req[r], row, owner) /\ req[r].pc = "sweep"
  BY DEF Inv, SweepDel, At
<1>2. Become(r, q) /\ UNCHANGED db /\ cache' = [cache EXCEPT ![s] = None]
  BY DEF SweepDel
<1>3. q \in ReqRecord
  BY <1>1 DEF ReqRecord
<1>4. /\ q.pc = "sweep" /\ q.user = req[r].user /\ q.token = req[r].token
      /\ q.copy = req[r].copy /\ q.wasValid = req[r].wasValid /\ q.before = req[r].before
      /\ q.todo = req[r].todo /\ q.failed = req[r].failed
  BY <1>1 DEF ReqRecord
<1> HIDE DEF q
<1>5. Sound(q, row, owner)
  BY <1>1, <1>3, <1>4, SweepSound
<1>6. Rowed(row', owner', cache')
  BY <1>2 DEF Inv, Rowed, db, Copies
<1> QED BY <1>2, <1>3, <1>5, <1>6, NothingMoves, RequestStep DEF db

LEMMA SweepFailsInv ==
  ASSUME Inv, NEW r \in Requests, NEW s \in Sessions, SweepFails(r, s)
  PROVE  Inv'
<1> DEFINE p == [req[r] EXCEPT !.todo = @ \ {s}, !.dels = @ \ {s}]
           q == [p EXCEPT !.failed = TRUE]
<1>1. req[r] \in ReqRecord /\ Sound(req[r], row, owner) /\ req[r].pc = "sweep"
  BY DEF Inv, SweepFails, At
<1>2. Become(r, q) /\ UNCHANGED <<db, cache>>
  BY DEF SweepFails, Rejected
<1>3. p \in ReqRecord /\ q \in ReqRecord
  BY <1>1 DEF ReqRecord
<1>4. /\ q.pc = "sweep" /\ q.user = req[r].user /\ q.token = req[r].token
      /\ q.copy = req[r].copy /\ q.wasValid = req[r].wasValid /\ q.before = req[r].before
      /\ q.todo = req[r].todo \ {s} /\ q.failed
  BY <1>1 DEF ReqRecord
<1> HIDE DEF q
<1>5. Sound(q, row, owner)
  BY <1>1, <1>3, <1>4, SweepSound
<1> QED BY <1>2, <1>3, <1>5, QuietStep

LEMMA SweepDoneInv ==
  ASSUME Inv, NEW r \in Requests, SweepDone(r)
  PROVE  Inv'
<1>1. req[r].pc = "sweep" /\ req[r].todo = {} /\ UNCHANGED <<db, cache>>
  BY DEF SweepDone, At
<1>2. CASE req[r].failed
  BY <1>1, <1>2, BackToIdle DEF SweepDone
<1>3. CASE ~req[r].failed
  <2>1. Goto(r, "answer")
    BY <1>3 DEF SweepDone
  <2> QED BY <1>1, <1>3, <2>1, GotoSound, QuietStep DEF Goto
<1> QED BY <1>2, <1>3

LEMMA FailInv ==
  ASSUME Inv, NEW r \in Requests, Fail(r)
  PROVE  Inv'
  BY BackToIdle DEF Fail

\* A step of the rest of the program.
LEMMA OtherStep ==
  ASSUME Inv, UNCHANGED req, Onward(row, owner, row', owner'), Rowed(row', owner', cache')
  PROVE  Inv'
<1> SUFFICES ASSUME NEW t \in Requests PROVE Sound(req[t], row', owner')
  BY DEF Inv
<1> QED BY SoundStays DEF Inv

LEMMA GoneInv ==
  ASSUME Inv, NEW S, Gone(S), \A s \in Sessions \cap S : row[s] # "none"
  PROVE  Inv'
<1>1. Onward(row, owner, row', owner')
  BY DEF Gone, Onward, Inv, Rowed
<1>2. Rowed(row', owner', cache')
  BY AdminSessionsAssumption DEF Gone, Inv, Rowed, Rows
<1> QED BY <1>1, <1>2, OtherStep DEF Gone

LEMMA CleanupInv ==
  ASSUME Inv, Cleanup
  PROVE  Inv'
  BY GoneInv DEF Cleanup

LEMMA DeleteUserInv ==
  ASSUME Inv, NEW u \in Users, DeleteUser(u)
  PROVE  Inv'
<1>1. \A s \in Sessions : owner[s] = u => row[s] # "none"
  BY AdminSessionsAssumption DEF Inv, Rowed
<1> QED BY <1>1, GoneInv DEF DeleteUser

LEMMA ExpireInv ==
  ASSUME Inv, NEW s \in Sessions, Expire(s)
  PROVE  Inv'
<1>1. Onward(row, owner, row', owner') /\ Rowed(row', owner', cache')
  BY DEF Expire, Onward, Inv, Rowed, Rows
<1> QED BY <1>1, OtherStep DEF Expire

LEMMA ExpireCopyInv ==
  ASSUME Inv, NEW s \in Sessions, ExpireCopy(s)
  PROVE  Inv'
<1>1. Rowed(row', owner', cache')
  BY DEF ExpireCopy, Inv, Rowed, Copies, db
<1> QED BY <1>1, NothingMoves, OtherStep DEF ExpireCopy, db

LEMMA StepInv == Inv /\ [Next]_vars => Inv'
<1> SUFFICES ASSUME Inv, [Next]_vars PROVE Inv'
  OBVIOUS
<1>1. CASE \E r \in Requests : \E s \in Sessions :
               \/ \E u \in Users : Insert(r, u, s)
               \/ Arrive(r, s)
               \/ SweepRevoke(r, s) \/ SweepDel(r, s) \/ SweepFails(r, s)
  BY <1>1, InsertInv, ArriveInv, SweepRevokeInv, SweepDelInv, SweepFailsInv
<1>2. CASE \E r \in Requests : StoreNew(r) \/ Get(r) \/ Drop(r) \/ Find(r) \/ Touch(r)
               \/ Store(r) \/ StoreAgain(r)
  BY <1>2, StoreNewInv, GetInv, DropInv, FindInv, TouchInv, StoreInv, StoreAgainInv
<1>3. CASE \E r \in Requests : Answer(r) \/ Revoke(r) \/ Del(r) \/ (\E u \in Users : List(r, u))
               \/ SweepDone(r) \/ Fail(r)
  BY <1>3, AnswerInv, RevokeInv, DelInv, ListInv, SweepDoneInv, FailInv
<1>4. CASE Cleanup \/ (\E u \in Users : DeleteUser(u))
           \/ (\E s \in Sessions : Expire(s) \/ ExpireCopy(s))
  BY <1>4, CleanupInv, DeleteUserInv, ExpireInv, ExpireCopyInv
<1>5. CASE UNCHANGED vars
  BY <1>5, NothingMoves, OtherStep DEF vars, Inv
<1> QED BY <1>1, <1>2, <1>3, <1>4, <1>5 DEF Next

LEMMA InvHolds == Spec => []Inv
  BY InitInv, StepInv, PTL DEF Spec

-----------------------------------------------------------------------------
\* Whatever the requests and the deletions of sessions and users, the rows, the copies and the
\* requests of AdminSessionService stay of their types.
THEOREM AdminSessionsTypes == Spec => []TypeOK
<1>1. Inv => TypeOK
  BY DEF Inv, Rowed, Sound, Copying, TypeOK, At
<1> QED BY <1>1, InvHolds, PTL

\* AdminSessionGuard admits no session that was revoked, expired or gone when the request
\* arrived: a valid row has always been valid, and a cached copy never decides.
THEOREM RevokedIsRejected == Spec => []RevokedRejected
<1>1. Inv => RevokedRejected
  BY DEF Inv, Sound, RevokedRejected
<1> QED BY <1>1, InvHolds, PTL

\* A DELETE /others that succeeds leaves its user no session it had but the current one.
THEOREM OthersAreSwept == Spec => []OthersSwept
<1>1. Inv => OthersSwept
  BY DEF Inv, Sound, OthersSwept, Valid, At
<1> QED BY <1>1, InvHolds, PTL

LEMMA RequestChanges ==
  ASSUME Inv, NEW r \in Requests, NEW pc, Goto(r, pc), req[r].pc # pc
  PROVE  req'[r] # req[r]
<1>1. req[r] \in ReqRecord
  BY DEF Inv
<1>2. [req[r] EXCEPT !.pc = pc].pc = pc
  BY <1>1 DEF ReqRecord
<1> QED BY <1>2 DEF Goto, Become, Inv

\* A session is revoked by a request that came with it, or with another and its owner's JWT.
THEOREM RevocationsAreByRight == Spec => RevokedByRight
<1> DEFINE Right(s) == \E r \in Requests :
              /\ req'[r] # req[r] /\ req[r].wasValid
              /\ \/ At(r, "handle") /\ req[r].token = s
                 \/ At(r, "sweep") /\ req[r].user = owner[s] /\ req[r].token # s
           Rightly == \A s \in Sessions : Valid(s) /\ row'[s] = "revoked" => Right(s)
<1>1. ASSUME Inv, [Next]_vars PROVE Rightly
  <2> SUFFICES ASSUME NEW s \in Sessions, row[s] = "active", row'[s] = "revoked" PROVE Right(s)
    BY DEF Valid
  <2> USE <1>1
  <2>1. ASSUME NEW r \in Requests, Revoke(r) PROVE Right(s)
    <3>1. req[r].token = s
      BY <2>1 DEF Revoke, Revoked, Inv, Rowed
    <3>2. At(r, "handle") /\ req'[r] # req[r]
      BY <2>1, RequestChanges DEF Revoke, At
    <3>3. req[r].wasValid
      BY <3>2 DEF At, Inv, Sound, Admitted
    <3> QED BY <3>1, <3>2, <3>3
  <2>2. ASSUME NEW r \in Requests, NEW t \in Sessions, SweepRevoke(r, t) PROVE Right(s)
    <3>1. t = s /\ At(r, "sweep") /\ s \in req[r].todo
      BY <2>2 DEF SweepRevoke, Revoked, Inv, Rowed
    <3>2. req[r] \in ReqRecord /\ req[r].wasValid /\ req[r].token # s
          /\ owner[s] \in {req[r].user, None}
      BY <3>1 DEF At, Inv, Sound, Admitted
    <3>3. owner[s] = req[r].user
      BY <3>2 DEF Inv, Rowed
    <3>4. [req[r] EXCEPT !.todo = @ \ {t}, !.dels = @ \cup {t}].todo = req[r].todo \ {t}
      BY <3>2 DEF ReqRecord
    <3>5. req'[r] # req[r]
      BY <2>2, <3>1, <3>4 DEF SweepRevoke, Become, Inv
    <3> QED BY <3>1, <3>2, <3>3, <3>5
  <2>3. ASSUME NEW r \in Requests, NEW t \in Sessions, NEW u \in Users, Insert(r, u, t)
        PROVE  FALSE
    BY <2>3 DEF Insert, Inv, Rowed
  <2>4. Cleanup \/ (\E u \in Users : DeleteUser(u)) \/ (\E t \in Sessions : Expire(t)) => FALSE
    BY DEF Cleanup, DeleteUser, Gone, Expire, Inv, Rowed
  <2>5. row' = row => FALSE
    OBVIOUS
  <2>6. ASSUME NEW r \in Requests,
               \/ StoreNew(r) \/ Get(r) \/ Drop(r) \/ Find(r) \/ Touch(r) \/ Store(r)
               \/ StoreAgain(r) \/ Answer(r) \/ Del(r) \/ SweepDone(r) \/ Fail(r)
               \/ (\E u \in Users : List(r, u))
               \/ (\E t \in Sessions : Arrive(r, t) \/ SweepDel(r, t) \/ SweepFails(r, t))
        PROVE  row' = row
    BY <2>6 DEF StoreNew, Get, Drop, Find, Touch, Store, StoreAgain, Answer, Del, SweepDone, Fail,
                List, Arrive, SweepDel, SweepFails, db
  <2>7. ASSUME NEW t \in Sessions, ExpireCopy(t) PROVE row' = row
    BY <2>7 DEF ExpireCopy, db
  <2>8. UNCHANGED vars => row' = row
    BY DEF vars
  <2> QED BY <2>1, <2>2, <2>3, <2>4, <2>5, <2>6, <2>7, <2>8 DEF Next
<1>2. Inv /\ [Next]_vars => [Rightly]_vars
  BY <1>1
<1> QED BY <1>2, InvHolds, PTL DEF Spec, RevokedByRight
=============================================================================
