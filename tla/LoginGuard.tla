----------------------------- MODULE LoginGuard -----------------------------
(***************************************************************************)
(* The two in-memory limits of the auth module: the failed-login counter   *)
(* with its lock (login-attempt.service.ts), as validateUser uses it with  *)
(* requests overlapping at each await, and the per-address limit on        *)
(* fingerprint comparisons (fingerprint.service.ts).  Both live in Maps of *)
(* the process and are gone after a restart.                               *)
(***************************************************************************)
EXTENDS Naturals, FiniteSets

CONSTANTS Emails,        \* accounts with a password
          Requests,      \* logins in flight
          Ips,           \* client addresses
          MaxFailed,     \* AUTH_CONSTANTS.MAX_FAILED_ATTEMPTS
          MaxAttempts,   \* AUTH_FINGERPRINT_MAX_ATTEMPTS
          ResetAfter     \* AUTH_FINGERPRINT_RESET_AFTER, in ticks

LoginGuardAssumption ==
  /\ MaxFailed \in Nat \ {0} /\ MaxAttempts \in Nat \ {0} /\ ResetAfter \in Nat \ {0}
  /\ IsFiniteSet(Requests) /\ Emails # {}

VARIABLES attempts,   \* failed attempts per email
          lock,       \* "none", "on" or "over" (its time has passed)
          login,      \* the requests: where they are, and for which email
          limits,     \* per address: counted comparisons and time since the last
          passed      \* history: comparisons let through since the last reset
vars == <<attempts, lock, login, limits, passed>>
accounts == <<attempts, lock, login>>

Quiet == [pc |-> "idle", email |-> CHOOSE e \in Emails : TRUE]
NewLimit == [count |-> 0, age |-> 0]

Init ==
  /\ attempts = [e \in Emails |-> 0] /\ lock = [e \in Emails |-> "none"]
  /\ login = [r \in Requests |-> Quiet]
  /\ limits = [i \in Ips |-> NewLimit] /\ passed = [i \in Ips |-> 0]

----------------------------------------------------------------------------
\* validateUser's first step; a lock whose time has passed is taken off, and
\* the count with it.
IsLocked(e) == lock[e] = "on"
Begin(r, e) ==
  /\ login[r] = Quiet /\ ~IsLocked(e)
  /\ IF lock[e] = "over"
     THEN lock' = [lock EXCEPT ![e] = "none"] /\ attempts' = [attempts EXCEPT ![e] = 0]
     ELSE UNCHANGED <<lock, attempts>>
  /\ login' = [login EXCEPT ![r] = [pc |-> "compare", email |-> e]]
  /\ UNCHANGED <<limits, passed>>
HttpLogin(r, e) == Begin(r, e)

\* The password was compared: count the failure, and lock from MaxFailed on.
AtMaximumLate(n) == n > MaxFailed   \* and one too late
AtMaximum(n) == n >= MaxFailed
RecordFailedAttempt(r) ==
  /\ login[r].pc = "compare"
  /\ LET e == login[r].email IN
     /\ attempts' = [attempts EXCEPT ![e] = @ + 1]
     /\ lock' = IF AtMaximum(attempts[e] + 1) THEN [lock EXCEPT ![e] = "on"] ELSE lock
  /\ login' = [login EXCEPT ![r] = Quiet]
  /\ UNCHANGED <<limits, passed>>
ResetAttempts(r) ==
  /\ login[r].pc = "compare"
  /\ attempts' = [attempts EXCEPT ![login[r].email] = 0]
  /\ lock' = [lock EXCEPT ![login[r].email] = "none"]
  /\ login' = [login EXCEPT ![r] = Quiet]
  /\ UNCHANGED <<limits, passed>>
\* No such user, an account without a password, or a query that fails: not counted.
Uncounted(r) ==
  /\ login[r].pc = "compare"
  /\ login' = [login EXCEPT ![r] = Quiet]
  /\ UNCHANGED <<attempts, lock, limits, passed>>
LockExpires(e) ==
  /\ lock[e] = "on" /\ lock' = [lock EXCEPT ![e] = "over"]
  /\ UNCHANGED <<attempts, login, limits, passed>>

----------------------------------------------------------------------------
\* checkRateLimit before a comparison: the quiet period forgets the count
\* without counting this comparison, a full count refuses, anything else counts.
Forgets(i) == limits[i].age >= ResetAfter
Full(i) == limits[i].count >= MaxAttempts
CheckRateLimit(i) ==
  /\ \/ /\ Forgets(i)
        /\ limits' = [limits EXCEPT ![i] = NewLimit]
        /\ passed' = [passed EXCEPT ![i] = 1]
     \/ /\ ~Forgets(i) /\ ~Full(i)
        /\ limits' = [limits EXCEPT ![i] = [count |-> @.count + 1, age |-> 0]]
        /\ passed' = [passed EXCEPT ![i] = @ + 1]
  /\ UNCHANGED accounts
\* Time passes for an address that was seen; ResetAfter stands for "or more".
Tick(i) ==
  /\ limits[i].count + passed[i] > 0 /\ limits[i].age < ResetAfter
  /\ limits' = [limits EXCEPT ![i].age = @ + 1]
  /\ UNCHANGED <<attempts, lock, login, passed>>

Restart ==
  /\ attempts' = [e \in Emails |-> 0] /\ lock' = [e \in Emails |-> "none"]
  /\ login' = [r \in Requests |-> Quiet]
  /\ limits' = [i \in Ips |-> NewLimit] /\ passed' = [i \in Ips |-> 0]

Next == \/ \E r \in Requests : \/ \E e \in Emails : HttpLogin(r, e)
                               \/ RecordFailedAttempt(r) \/ ResetAttempts(r) \/ Uncounted(r)
        \/ \E e \in Emails : LockExpires(e)
        \/ \E i \in Ips : CheckRateLimit(i) \/ Tick(i)
        \/ Restart
Spec == Init /\ [][Next]_vars

----------------------------------------------------------------------------
TypeOK ==
  /\ attempts \in [Emails -> Nat] /\ lock \in [Emails -> {"none", "on", "over"}]
  /\ login \in [Requests -> [pc: {"idle", "compare"}, email: Emails]]
  /\ limits \in [Ips -> [count: Nat, age: 0..ResetAfter]]
  /\ passed \in [Ips -> Nat]

\* However many logins run side by side, wrong passwords are tried at most
\* MaxFailed - 1 times, plus once for every login already past the lock check,
\* before the account is locked or the count starts again (auth.service.ts
\* 72-103: the lock is read before the comparison, the failure counted after).
\* And one address gets at most one fingerprint comparison more than the maximum
\* between two quiet periods (fingerprint.service.ts 156-177: the one that ends the
\* quiet period is not counted).
Past(e) == {r \in Requests : login[r].pc = "compare" /\ login[r].email = e}
GuessingBounded ==
  /\ \A e \in Emails : attempts[e] + Cardinality(Past(e)) < MaxFailed + Cardinality(Requests)
  /\ \A i \in Ips : passed[i] <= MaxAttempts + 1

\* Why: an account that is not locked has failed too seldom for it; and a comparison
\* let through was counted, but the one that ended a quiet period.
Unlocked == \A e \in Emails : lock[e] = "none" => attempts[e] < MaxFailed
Counted == \A i \in Ips : limits[i].count <= MaxAttempts /\ passed[i] <= limits[i].count + 1
Inv == TypeOK /\ Unlocked /\ Counted /\ GuessingBounded
=============================================================================
