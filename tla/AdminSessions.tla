---------------------------- MODULE AdminSessions ----------------------------
(***************************************************************************)
(* AdminSessionService with its guard and controller: sessions in the      *)
(* database, copies of them in Redis.  A session is named by its token.    *)
(* The user of a request comes from its JWT and the session from a header  *)
(* or a cookie; nothing ties the two.                                      *)
(*                                                                         *)
(* A step is one query or one Redis command.                               *)
(***************************************************************************)

CONSTANTS Users, Sessions, Requests,
          None        \* no copy, no session, no user

ASSUME AdminSessionsAssumption == None \notin Users \cup Sessions \cup {"active", "revoked"}

VARIABLES
    row,      \* admin_sessions: none yet, active, expired (expiresAt has passed), revoked
              \* (revokedAt is set, whatever expiresAt) or deleted
    owner,    \* admin_sessions: userId
    cache,    \* Redis: the copy of a row that was not revoked ("active") or was, or None
    req       \* the requests in flight

db   == <<row, owner>>
vars == <<row, owner, cache, req>>

\* wasValid and before are history: whether the request's session was valid when it
\* arrived, and the valid sessions its user had when its handler began.
Idle == [pc |-> "idle", user |-> None, token |-> None, todo |-> {}, dels |-> {},
         copy |-> None, failed |-> FALSE, wasValid |-> FALSE, before |-> {}]

Become(r, q) == req' = [req EXCEPT ![r] = q]
Goto(r, pc)  == Become(r, [req[r] EXCEPT !.pc = pc])
At(r, pc)    == req[r].pc = pc

\* isSessionValid of a row.
Valid(s) == row[s] = "active"

\* isSessionValid of a copy: its expiresAt has become a string, which is never later than a
\* Date; and were the dates revived.
CopyIsValidRevived(s) == cache[s] = "active"
CopyIsValid(s) == FALSE

\* findActiveByUserId; and without the user.
ActiveOfAll(u) == {s \in Sessions : Valid(s)}
ActiveOf(u) == {s \in Sessions : Valid(s) /\ owner[s] = u}

Init ==
    /\ row = [s \in Sessions |-> "none"]
    /\ owner = [s \in Sessions |-> None]
    /\ cache = [s \in Sessions |-> None]
    /\ req = [r \in Requests |-> Idle]

-----------------------------------------------------------------------------
(* createSession.                                                          *)

Insert(r, u, s) ==
    /\ At(r, "idle")
    /\ row[s] = "none"
    /\ row' = [row EXCEPT ![s] = "active"]
    /\ owner' = [owner EXCEPT ![s] = u]
    /\ Become(r, [Idle EXCEPT !.pc = "storeNew", !.token = s])
    /\ UNCHANGED cache

StoreNew(r) ==
    /\ At(r, "storeNew")
    /\ cache' = [cache EXCEPT ![req[r].token] = "active"]
    /\ Become(r, Idle)
    /\ UNCHANGED db

-----------------------------------------------------------------------------
(* AdminSessionGuard: validateSession.                                     *)

Arrive(r, s) ==
    /\ At(r, "idle")
    /\ row[s] # "none"
    /\ Become(r, [Idle EXCEPT !.pc = "get", !.token = s, !.wasValid = Valid(s)])
    /\ UNCHANGED <<db, cache>>

\* A valid copy would have its activity updated and be answered with, too.
Get(r) ==
    /\ At(r, "get")
    /\ Goto(r, IF cache[req[r].token] = None THEN "find"
               ELSE IF CopyIsValid(req[r].token) THEN "touch"
               ELSE "drop")
    /\ UNCHANGED <<db, cache>>

Drop(r) ==
    /\ At(r, "drop")
    /\ cache' = [cache EXCEPT ![req[r].token] = None]
    /\ Goto(r, "find")
    /\ UNCHANGED db

Find(r) ==
    /\ At(r, "find")
    /\ IF Valid(req[r].token) THEN Goto(r, "touch") ELSE Become(r, Idle)
    /\ UNCHANGED <<db, cache>>

\* What a copy tells of its row.
CopyOf(status) == IF status = "revoked" THEN "revoked" ELSE "active"

\* updateActivity answers with the row of that moment, whatever it has become.
Touch(r) ==
    /\ At(r, "touch")
    /\ row[req[r].token] # "deleted"
    /\ Become(r, [req[r] EXCEPT !.pc = "store", !.copy = CopyOf(row[req[r].token])])
    /\ UNCHANGED <<db, cache>>

\* updateSessionActivity stores the row and validateSession stores it again.
Store(r) ==
    /\ At(r, "store")
    /\ cache' = [cache EXCEPT ![req[r].token] = req[r].copy]
    /\ Goto(r, "storeAgain")
    /\ UNCHANGED db

StoreAgain(r) ==
    /\ At(r, "storeAgain")
    /\ cache' = [cache EXCEPT ![req[r].token] = req[r].copy]
    /\ Become(r, [req[r] EXCEPT !.pc = "handle", !.copy = None])
    /\ UNCHANGED db

-----------------------------------------------------------------------------
(* The handlers of an admitted request.                                    *)

\* GET /current and GET / only read.
Answer(r) ==
    /\ req[r].pc \in {"handle", "answer"}
    /\ Become(r, Idle)
    /\ UNCHANGED <<db, cache>>

\* repository.revoke: revokedAt is set whether or not it was; a row that is gone is P2025.
CanRevoke(s) == row[s] # "deleted"
Revoked(s) == row' = [row EXCEPT ![s] = "revoked"]

\* DELETE /current, then its copy in Redis.
Revoke(r) ==
    /\ At(r, "handle")
    /\ CanRevoke(req[r].token)
    /\ Revoked(req[r].token)
    /\ Goto(r, "del")
    /\ UNCHANGED <<owner, cache>>

Del(r) ==
    /\ At(r, "del")
    /\ cache' = [cache EXCEPT ![req[r].token] = None]
    /\ Become(r, Idle)
    /\ UNCHANGED db

\* DELETE /others: the sessions of the JWT's user to revoke, all at once.
List(r, u) ==
    /\ At(r, "handle")
    /\ Become(r, [req[r] EXCEPT !.pc = "sweep", !.user = u, !.before = ActiveOf(u),
                                !.todo = ActiveOf(u) \ {req[r].token}])
    /\ UNCHANGED <<db, cache>>

SweepRevoke(r, s) ==
    /\ At(r, "sweep") /\ s \in req[r].todo
    /\ CanRevoke(s)
    /\ Revoked(s)
    /\ Become(r, [req[r] EXCEPT !.todo = @ \ {s}, !.dels = @ \cup {s}])
    /\ UNCHANGED <<owner, cache>>

SweepDel(r, s) ==
    /\ At(r, "sweep") /\ s \in req[r].dels
    /\ cache' = [cache EXCEPT ![s] = None]
    /\ Become(r, [req[r] EXCEPT !.dels = @ \ {s}])
    /\ UNCHANGED db

\* One that fails makes Promise.all fail, and the others go on; and Promise.allSettled.
SettledAll(q) == q
Rejected(q) == [q EXCEPT !.failed = TRUE]

SweepFails(r, s) ==
    /\ At(r, "sweep") /\ s \in req[r].todo \cup req[r].dels
    /\ Become(r, Rejected([req[r] EXCEPT !.todo = @ \ {s}, !.dels = @ \ {s}]))
    /\ UNCHANGED <<db, cache>>

SweepDone(r) ==
    /\ At(r, "sweep") /\ req[r].todo = {} /\ req[r].dels = {}
    /\ IF req[r].failed THEN Become(r, Idle) ELSE Goto(r, "answer")
    /\ UNCHANGED <<db, cache>>

\* A query or a command that fails, or a row that is gone.
Fail(r) ==
    /\ req[r].pc \notin {"idle", "sweep", "answer"}
    /\ Become(r, Idle)
    /\ UNCHANGED <<db, cache>>

-----------------------------------------------------------------------------
(* The rest of the program, and time.                                      *)

Gone(S) ==
    /\ row' = [s \in Sessions |-> IF s \in S THEN "deleted" ELSE row[s]]
    /\ owner' = [s \in Sessions |-> IF s \in S THEN None ELSE owner[s]]
    /\ UNCHANGED <<cache, req>>

\* cleanupSessions, which nothing schedules yet.
Cleanup == Gone({s \in Sessions : row[s] \in {"revoked", "expired"}})

\* The sessions of a user go with the user; and were they only to lose their owner.
DeleteUserSetNull(u) ==
    /\ owner' = [s \in Sessions |-> IF owner[s] = u THEN None ELSE owner[s]]
    /\ UNCHANGED <<row, cache, req>>
DeleteUser(u) == Gone({s \in Sessions : owner[s] = u})

Expire(s) ==
    /\ row[s] = "active"
    /\ row' = [row EXCEPT ![s] = "expired"]
    /\ UNCHANGED <<owner, cache, req>>

\* The copy's life, a number of seconds given as milliseconds, ends long before the session.
ExpireCopy(s) ==
    /\ cache[s] # None
    /\ cache' = [cache EXCEPT ![s] = None]
    /\ UNCHANGED <<db, req>>

-----------------------------------------------------------------------------
Next ==
    \/ \E r \in Requests :
           \/ \E s \in Sessions :
                  \/ \E u \in Users : Insert(r, u, s)
                  \/ Arrive(r, s)
                  \/ SweepRevoke(r, s) \/ SweepDel(r, s) \/ SweepFails(r, s)
           \/ StoreNew(r) \/ Get(r) \/ Drop(r) \/ Find(r) \/ Touch(r) \/ Store(r) \/ StoreAgain(r)
           \/ Answer(r) \/ Revoke(r) \/ Del(r) \/ \E u \in Users : List(r, u)
           \/ SweepDone(r) \/ Fail(r)
    \/ Cleanup
    \/ \E u \in Users : DeleteUser(u)
    \/ \E s \in Sessions : Expire(s) \/ ExpireCopy(s)

Spec == Init /\ [][Next]_vars

-----------------------------------------------------------------------------
(* Properties.                                                             *)

Validating == {"get", "drop", "find"}
Admitted == {"touch", "store", "storeAgain", "handle", "del", "sweep", "answer"}
Pcs == Validating \cup Admitted \cup {"idle", "storeNew"}
Rows == {"none", "active", "expired", "revoked", "deleted"}
Copies == {"active", "revoked", None}
ReqRecord == [pc : Pcs, user : Users \cup {None}, token : Sessions \cup {None},
              todo : SUBSET Sessions, dels : SUBSET Sessions, copy : Copies, failed : BOOLEAN,
              wasValid : BOOLEAN, before : SUBSET Sessions]

\* Rows, copies and requests are of their types, a row has an owner until it is gone, and
\* between updateActivity and the last store a request has the copy it took of its session.
TypeOK ==
    /\ row \in [Sessions -> Rows]
    /\ owner \in [Sessions -> Users \cup {None}]
    /\ cache \in [Sessions -> Copies]
    /\ req \in [Requests -> ReqRecord]
    /\ \A s \in Sessions :
          /\ row[s] = "none" => cache[s] = None
          /\ row[s] \in {"none", "deleted"} <=> owner[s] = None
    /\ \A r \in Requests :
          /\ ~At(r, "idle") => req[r].token \in Sessions /\ row[req[r].token] # "none"
          /\ req[r].pc \in {"store", "storeAgain"} <=> req[r].copy # None

\* A session that was revoked, had expired or was deleted when the request arrived is never
\* admitted by AdminSessionGuard, whatever copies of it other requests leave in Redis.
RevokedRejected == \A r \in Requests : req[r].pc \in Admitted => req[r].wasValid

\* When DELETE /others answers that it succeeded, none of the sessions its user had when it
\* began is valid any more, but the one it came with.
OthersSwept ==
    \A r \in Requests :
        At(r, "answer") => \A s \in req[r].before : s = req[r].token \/ ~Valid(s)

\* A valid session is revoked only by a request that came with that session when it was
\* valid, or by one that came with another valid session and the session's owner's JWT.
RevokedByRight ==
    [][\A s \in Sessions : Valid(s) /\ row'[s] = "revoked" =>
          \E r \in Requests :
              /\ req'[r] # req[r] /\ req[r].wasValid
              /\ \/ At(r, "handle") /\ req[r].token = s
                 \/ At(r, "sweep") /\ req[r].user = owner[s] /\ req[r].token # s]_vars
=============================================================================
