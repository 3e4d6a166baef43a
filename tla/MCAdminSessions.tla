-------------------------- MODULE MCAdminSessions --------------------------
(* Two users, three sessions and two requests.                          *)
EXTENDS AdminSessions, TLC

CONSTANTS u1, u2, s1, s2, s3, r1, r2

TwoUsers == {u1, u2}
Sessions3 == {s1, s2, s3}
TwoRequests == {r1, r2}

Symmetry == Permutations(Users) \cup Permutations(Sessions) \cup Permutations(Requests)
=============================================================================
