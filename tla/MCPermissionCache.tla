------------------------- MODULE MCPermissionCache -------------------------
(* A caller and a colleague, who is in another organization too.            *)
EXTENDS PermissionCache, TLC

CONSTANTS u1, u2, o1, o2, m1, m2, m3, r1, r2, p1, admin

TwoUsers == {u1, u2}
TwoOrgs == {o1, o2}
TwoRequests == {r1, r2}
OnePerm == {p1}
OneRole == {admin}

OneUser == {u1}
OneCaller == {<<u1, o1>>}
ThreeIds == {m1, m2, m3}

ThreeMembers == m1 :> <<u1, o1>> @@ m2 :> <<u2, o1>> @@ m3 :> <<u2, o2>>

\* Bound: to begin with the caller is an active admin here, the colleague one in the other
\* organization, and what the colleague is here is one of three.
ActiveAdmin == [status |-> "active", role |-> admin]
Settled == writes = 0 => /\ row[m1] = ActiveAdmin /\ row[m3] = ActiveAdmin
                         /\ row[m2] \in {Unused, ActiveAdmin, [status |-> "invited", role |-> None]}

Symmetry == Permutations(Requests)

NeedsOne == [op \in Operations |-> p1]
=============================================================================
