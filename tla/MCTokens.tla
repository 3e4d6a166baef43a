------------------------------ MODULE MCTokens ------------------------------
(* Model values for Tokens.  Ticks are about 100 s: a revocation entry      *)
(* (86.4 s) lives one, a fingerprint window (300 s) three and a version key *)
(* (604.8 s) six.                                                           *)
EXTENDS Tokens, TLC

CONSTANTS u1, u2, t1, t2, r1, r2, r3

OneUser == {u1}
TwoUsers == {u1, u2}
TwoTokens == {t1, t2}
TwoRequests == {r1, r2}
ThreeRequests == {r1, r2, r3}

LogOps == {"login", "logout"}
WriterRaceOps == {"login", "validate", "logout", "increment"}
SingleOps == {"login", "validate", "refresh", "logout", "generate", "revoke"}

Symmetry == Permutations(Tokens) \cup Permutations(Requests) \cup Permutations(Users)
=============================================================================
