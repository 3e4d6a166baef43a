---------------------------- MODULE MCMembership ----------------------------
(* Small organizations for TLC.                                            *)
EXTENDS Membership, TLC

CONSTANTS p1, p2, p3, p4, r1, r2

TwoPeople == {p1, p2}
FourPeople == {p1, p2, p3, p4}
TwoRequests == {r1, r2}

\* Invitations overlap, the other requests run alone.
LimitOps == {"invite", "bulk", "update", "remove", "accept", "decline", "register",
             "registerInto", "complete"}
AloneOps == LimitOps \ {"invite"}
AdminOps == {"invite", "remove", "accept", "register"}

NoBatches == {}
Pairs == {b \in {p2, p3, p4} \X {p2, p3, p4} : b[1] # b[2]}

\* Three invitations are followed while nobody but the creator has an account, two
\* otherwise; people begin to register straight in, and a row stays suspended, while one is.
Followed ==
  \/ registered = {Creator} /\ member[1].status = "ACTIVE"
  \/ /\ InvitesBegun <= 2
     /\ \A i \in Present : member[i].status = "INACTIVE" => InvitesBegun <= 1
     /\ \A r \in Requests :
           req[r].op \in {"update", "registerInto"} => InvitesBegun <= 1

Symmetry == Permutations({r1, r2}) \cup Permutations({p2, p3, p4})
=============================================================================
