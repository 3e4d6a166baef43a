----------------------------- MODULE MCPlatform -----------------------------
(***************************************************************************)
(* Constants for TLC: two or three requests, and two of everything that is *)
(* fought over.                                                            *)
(***************************************************************************)
EXTENDS Platform, TLC

CONSTANTS r1, r2, r3, s1, s2, u1, u2, e1, e2, o1, o2, h1

MCIdentities == [provider: {"apple", "google", "github", "microsoft"}, id: {1}]
MCProviders == {i.provider : i \in MCIdentities}
\* A state made for Apple is for Android, one for the others for the web.
MCPurposes == {p \in [provider: MCProviders, platform: {"web", "android"}] :
                 (p.platform = "android") = (p.provider = "apple")}
OneProvider == {{p} : p \in MCProviders}
MCMemberOps == {"invite", "remove", "accept", "decline", "register"}
MCJoinOps == {"invite", "update", "accept", "register", "registerInto"}
MCTerms == {[price |-> 0, interval |-> "month"], [price |-> 1, interval |-> "one_time"]}
\* A migrated database and a licence, or neither.
MCDeployments == {[migrated |-> d, licensed |-> d] : d \in BOOLEAN}

\* Histories are not followed past what excuses, for good, the accounts of an identity
\* (what is said of state parameters does not depend on accounts); and the requests of
\* billing are two changes of a plan, or one of them and a creation, and any other
\* request by itself, while every plan is offered and the status is not an administrator's.
OneChanges == \E r \in Requests : reqB[r].op \in {"idle", "change"}
OneIsIdle == \E r \in Requests : reqB[r].op = "idle"
Followed ==
  /\ part = "accounts" => ~crossedA
  /\ part = "billing" =>
       /\ OneChanges
       /\ OneIsIdle \/ (plans = offered /\ row.status \in {"none", "ACTIVE"})

Symmetry == Permutations({r1, r2}) \cup Permutations({s1, s2}) \cup Permutations({u1, u2})
              \cup Permutations({e1, e2})
=============================================================================
