----------------------------- MODULE MCTenancy -----------------------------
(* Two organizations and a few rows for TLC.                               *)
EXTENDS Tenancy, TLC

CONSTANTS o1, o2, m1, m2, m3, m4, r1, r2

TwoOrgs == {o1, o2}
FourMembers == {m1, m2, m3, m4}
TwoRequests == {r1, r2}

Symmetry == Permutations(Orgs) \cup Permutations(Members) \cup Permutations(Requests)
=============================================================================
