---------------------------- MODULE AccessTokens ----------------------------
(***************************************************************************)
(* The API access tokens of modules/access-tokens: creating, listing and   *)
(* deleting rows, and the guard that validates a presented value, each     *)
(* query a step.                                                           *)
(*                                                                         *)
(* Ids and random values are numbers, a new one each time.  A scope is     *)
(* "all" or "read".  No route of the repository uses the guard; it is      *)
(* exported for those to come.                                             *)
(***************************************************************************)
EXTENDS Naturals, FiniteSets

CONSTANTS Users, Names, Requests, NoUser,
          MaxDrawn      \* bound on the ids and values drawn

AccessTokensAssumption == MaxDrawn \in Nat

VARIABLES stored,     \* access_tokens rows
          handed,     \* history: the values answered to users
          seen,       \* how many ids and values were drawn
          call,       \* per request
          accepted    \* history: the values the guard accepted
vars == <<stored, handed, seen, call, accepted>>

Row(i, v, u, n, x, s) ==   \* access_tokens; x: the row has an expiry date
  [id |-> i, token |-> v, user |-> u, name |-> n, expires |-> x, scope |-> s]
Strings == 1..MaxDrawn
Rows == [id: Strings, token: Strings, user: Users, name: Names, expires: BOOLEAN,
         scope: {"all", "read"}]
Idle == [pc |-> "idle", user |-> NoUser, value |-> 0, scope |-> "none", found |-> {}]

Init ==
  /\ stored = {} /\ handed = {} /\ seen = 0 /\ accepted = {}
  /\ call = [r \in Requests |-> Idle]

Become(r, c) == call' = [call EXCEPT ![r] = c]
Finish(r) == Become(r, Idle)
Quiet == UNCHANGED <<stored, handed, seen, accepted>>

\* The repository draws a value of its own.
Kept(drawn, own) == own
\* ... and takes the time to live from a field the service does not fill in.
HasExpiry(ttl) == FALSE

\* A user's names are unique.
CreateToken(u, n, ttl, s) ==
  /\ ~\E t \in stored : t.user = u /\ t.name = n
  /\ seen + 3 <= MaxDrawn /\ seen' = seen + 3
  /\ LET drawn == seen + 1  own == seen + 2 IN
     /\ stored' = stored \cup {Row(seen + 3, Kept(drawn, own), u, n, HasExpiry(ttl), s)}
     /\ handed' = handed \cup {drawn}
  /\ UNCHANGED <<call, accepted>>
HttpCreate(u, n, ttl, s) == CreateToken(u, n, ttl, s)

\* deleteToken looks the id up as a value.
DeleteToken(r, u, id) ==
  /\ call[r] = Idle
  /\ \E t \in stored : t.token = id /\ t.user = u
  /\ Become(r, [Idle EXCEPT !.pc = "delete", !.user = u, !.value = id]) /\ Quiet
HttpRemove(r, u, id) == DeleteToken(r, u, id)
DeleteMany(r) ==
  /\ call[r].pc = "delete"
  /\ stored' = {t \in stored : ~(t.id = call[r].value /\ t.user = call[r].user)}
  /\ Finish(r) /\ UNCHANGED <<handed, seen, accepted>>

\* validateToken for a route that requires a scope, or none.
CanActivate(r, v, s) ==
  /\ call[r] = Idle
  /\ Become(r, [Idle EXCEPT !.pc = "find", !.value = v, !.scope = s]) /\ Quiet
FindByToken(r) ==   \* no row has an expiry date to pass
  /\ call[r].pc = "find"
  /\ LET found == {t \in stored : t.token = call[r].value} IN
     IF found = {} THEN Finish(r)
     ELSE Become(r, [call[r] EXCEPT !.pc = "touch", !.found = found])
  /\ Quiet
InScope(t, s) == s = "none" \/ t.scope \in {s, "all"}
TouchToken(r) ==   \* lastUsedAt; the row must still be there
  /\ call[r].pc = "touch"
  /\ accepted' = IF \E t \in call[r].found \cap stored : InScope(t, call[r].scope)
                 THEN accepted \cup {call[r].value} ELSE accepted
  /\ Finish(r) /\ UNCHANGED <<stored, handed, seen>>

DeleteUser(u) ==   \* the rows go with their user
  /\ \E t \in stored : t.user = u
  /\ stored' = {t \in stored : t.user # u}
  /\ UNCHANGED <<handed, seen, call, accepted>>

Next ==
  \/ \E u \in Users, n \in Names, ttl \in BOOLEAN, s \in {"all", "read"} : HttpCreate(u, n, ttl, s)
  \/ \E r \in Requests :
       \/ \E u \in Users, id \in Strings : HttpRemove(r, u, id)
       \/ \E v \in Strings, s \in {"none", "read", "write"} : CanActivate(r, v, s)
       \/ DeleteMany(r) \/ FindByToken(r) \/ TouchToken(r)
  \/ \E u \in Users : DeleteUser(u)
Spec == Init /\ [][Next]_vars

----------------------------------------------------------------------------
Calls == [pc: {"idle", "delete", "find", "touch"}, user: Users \cup {NoUser},
          value: Strings \cup {0}, found: SUBSET Rows, scope: {"none", "read", "write"}]
TypeOK ==
  /\ stored \subseteq Rows
  /\ handed \subseteq 1..seen /\ accepted \subseteq 1..seen /\ seen \in 0..MaxDrawn
  /\ call \in [Requests -> Calls]

\* The guard accepts no value that was ever answered to a user: what is answered and
\* what is stored are two draws (access-token.service.ts 48-66,
\* access-token.repository.ts 40-50).
HandedOutNeverAccepted == accepted \cap handed = {}

\* Why: no row, stored or found, has a value that was handed out, nor one still to draw.
Withheld(S) == \A t \in S : t.token \in 1..seen /\ t.token \notin handed
Inv == /\ TypeOK /\ HandedOutNeverAccepted /\ Withheld(stored)
       /\ \A r \in Requests : Withheld(call[r].found)
                              /\ \A t \in call[r].found : t.token = call[r].value
=============================================================================
