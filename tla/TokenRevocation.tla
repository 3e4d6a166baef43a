-------------------------- MODULE TokenRevocation --------------------------
(***************************************************************************)
(* What logging out promises, with no Redis in sight: every token belongs  *)
(* to the user it was issued to, and one indivisible act makes ALL the     *)
(* tokens of a user worthless for good.  auth.service.ts words it "Logout  *)
(* user and invalidate their tokens".                                      *)
(***************************************************************************)
CONSTANTS Users, Tokens, NoUser

VARIABLES owner,   \* owner[t]: the user token t was issued to, or NoUser
          valid    \* the tokens that are still worth something

rvars == <<owner, valid>>

RInit == owner = [t \in Tokens |-> NoUser] /\ valid = {}

\* A new token is issued to u.  One whose login overlapped a logout may be
\* worthless from the start.
Issue(t, u) ==
    /\ owner[t] = NoUser
    /\ owner' = [owner EXCEPT ![t] = u]
    /\ \/ valid' = valid \cup {t}
       \/ UNCHANGED valid

RevokeAll(u) ==
    /\ valid' = {t \in valid : owner[t] # u}
    /\ UNCHANGED owner

RNext == \E u \in Users : RevokeAll(u) \/ \E t \in Tokens : Issue(t, u)

RSpec == RInit /\ [][RNext]_rvars
=============================================================================
