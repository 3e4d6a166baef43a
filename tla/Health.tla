------------------------------- MODULE Health -------------------------------
(***************************************************************************)
(* The health endpoints: HealthService with its two cached results and the *)
(* flag of the quick check, over PrismaHealthIndicator, which caches its   *)
(* own.  Every cache keeps when the check behind a result BEGAN; time goes *)
(* by in ticks, and an age stands for each of those times.  "late" says    *)
(* how long before the beginning of a check its evidence lay, the last     *)
(* query that the database answered.                                       *)
(*                                                                         *)
(* The retry loop of checkAll is left out: the indicator throws            *)
(* HealthCheckErrors only, and the loop repeats TimeoutErrors only.  Disk  *)
(* and memory checks answer without an error whatever they find.           *)
(***************************************************************************)
EXTENDS Naturals, FiniteSets

CONSTANTS Probes,     \* requests to the endpoints
          Interval,   \* CHECK_INTERVAL, in ticks
          Timeout     \* of the connection and of the query, in ticks
HealthAssumption == Interval \in Nat \ {0} /\ Timeout \in Nat

VARIABLES prisma,      \* PrismaHealthIndicator.lastCheckResult, {} for null
          quick,       \* lastQuickCheckResult
          full,        \* lastCheckResult
          isQuickChecking,
          probe,
          told         \* history: the last answer, and if a check was going on
vars == <<prisma, quick, full, isQuickChecking, probe, told>>

Ages == 0..Interval   \* Interval: that old or older, and never served
Idle == [pc |-> "idle", kind |-> "full", wait |-> 0, since |-> 0, ok |-> FALSE, late |-> 0]

Init ==
  /\ prisma = {} /\ quick = {} /\ full = {} /\ isQuickChecking = FALSE
  /\ probe = [r \in Probes |-> Idle]
  /\ told = [ok |-> FALSE, busy |-> FALSE, late |-> 0]

\* Cached results that are served; and were the boundary served too.
WithinInclusive(cached) == {c \in cached : c.age <= Interval}
Within(cached) == {c \in cached : c.age < Interval}
Tell(ok, busy, late) == told' = [ok |-> ok, busy |-> busy, late |-> late]
Serve(c, busy) == Tell(c.ok, busy, c.age + c.late)
Become(r, q) == probe' = [probe EXCEPT ![r] = q]
Goto(r, pc) == Become(r, [probe[r] EXCEPT !.pc = pc, !.wait = 0])

----------------------------------------------------------------------------
\* PrismaHealthIndicator.isHealthy: its cache, else a connection and then a query.
\* Only a success is cached, and any failure clears the cache.
IsHealthy(r, kind) ==
  LET mine == Within(prisma) IN
  IF mine = {} THEN Become(r, [Idle EXCEPT !.pc = "tcp", !.kind = kind])
  ELSE \E c \in mine :
         Become(r, [Idle EXCEPT !.pc = "done", !.kind = kind, !.ok = TRUE, !.late = c.age])
Unhealthy(r) ==
  /\ prisma' = {} /\ Become(r, [probe[r] EXCEPT !.pc = "done", !.wait = 0, !.ok = FALSE])
CheckTcpConnection(r) ==
  /\ probe[r].pc = "tcp"
  /\ \/ Goto(r, "query") /\ UNCHANGED prisma
     \/ Unhealthy(r)   \* refused, or the timeout
  /\ UNCHANGED <<quick, full, isQuickChecking, told>>
\* What a success leaves: the time it began.
Remembered(r) == {[ok |-> TRUE, age |-> probe[r].since, late |-> 0]}
Query(r) ==
  /\ probe[r].pc = "query"
  /\ \/ /\ prisma' = Remembered(r)
        /\ Become(r, [probe[r] EXCEPT !.pc = "done", !.wait = 0, !.ok = TRUE])
     \/ Unhealthy(r)
  /\ UNCHANGED <<quick, full, isQuickChecking, told>>

----------------------------------------------------------------------------
\* quickCheck: who comes while one is going on gets the last result, however old.
Busy == isQuickChecking
QuickCheck(r) ==
  /\ probe[r] = Idle
  /\ \/ /\ ~Busy /\ Within(quick) # {}
        /\ \E c \in quick : Serve(c, FALSE)
        /\ UNCHANGED <<isQuickChecking, probe>>
     \/ /\ Busy
        /\ IF quick = {} THEN Tell(FALSE, TRUE, 0) ELSE \E c \in quick : Serve(c, TRUE)
        /\ UNCHANGED <<isQuickChecking, probe>>
     \/ /\ ~Busy /\ Within(quick) = {}
        /\ isQuickChecking' = TRUE /\ IsHealthy(r, "quick") /\ UNCHANGED told
  /\ UNCHANGED <<prisma, quick, full>>
ConcludeQuick(r) ==
  LET q == probe[r] IN
  /\ q.pc = "done" /\ q.kind = "quick"
  /\ quick' = {[ok |-> q.ok, age |-> q.since, late |-> q.late]}
  /\ isQuickChecking' = FALSE
  /\ Tell(q.ok, FALSE, q.late) /\ Become(r, Idle)
  /\ UNCHANGED <<prisma, full>>

\* checkAll: checks overlap freely, and the answer waits for the disk as well.
CheckAll(r) ==
  /\ probe[r] = Idle
  /\ IF Within(full) # {}
     THEN (\E c \in full : Serve(c, FALSE)) /\ UNCHANGED probe
     ELSE IsHealthy(r, "full") /\ UNCHANGED told
  /\ UNCHANGED <<prisma, quick, full, isQuickChecking>>
CheckDiskSpace(r) ==
  LET q == probe[r] IN
  /\ q.pc = "done" /\ q.kind = "full"
  /\ full' = IF q.ok THEN {[ok |-> TRUE, age |-> q.since, late |-> q.late]} ELSE {}
  /\ Tell(q.ok, FALSE, q.late) /\ Become(r, Idle)
  /\ UNCHANGED <<prisma, quick, isQuickChecking>>

\* Timeouts fire when they are due.
Due(r) == \/ probe[r].pc \in {"tcp", "query"} /\ probe[r].wait = Timeout
          \/ probe[r].pc = "done" /\ probe[r].kind = "quick"
Aged(a) == IF a = Interval THEN Interval ELSE a + 1
Old(cached) == {[c EXCEPT !.age = Aged(@)] : c \in cached}
Tick ==
  /\ \A r \in Probes : ~Due(r)
  /\ prisma' = Old(prisma) /\ quick' = Old(quick) /\ full' = Old(full)
  /\ probe' = [r \in Probes |->
       IF probe[r].pc = "idle" THEN Idle
       ELSE [probe[r] EXCEPT !.since = Aged(@),
                             !.wait = IF probe[r].pc = "done" THEN 0 ELSE @ + 1]]
  /\ UNCHANGED <<isQuickChecking, told>>

Step(r) == \/ CheckTcpConnection(r) \/ Query(r) \/ ConcludeQuick(r) \/ CheckDiskSpace(r)
Next == Tick \/ \E r \in Probes : QuickCheck(r) \/ CheckAll(r) \/ Step(r)
Spec == Init /\ [][Next]_vars

----------------------------------------------------------------------------
Cached == {{}} \cup {{c} : c \in [ok: BOOLEAN, age: Ages, late: Ages]}
Records == [pc: {"idle", "tcp", "query", "done"}, kind: {"quick", "full"},
            wait: 0..Timeout, since: Ages, ok: BOOLEAN, late: Ages]
TypeOK ==
  /\ prisma \in Cached /\ quick \in Cached /\ full \in Cached /\ isQuickChecking \in BOOLEAN
  /\ probe \in [Probes -> Records]
  /\ told \in [ok: BOOLEAN, busy: BOOLEAN, late: 0..2 * Interval]

Running == {r \in Probes : probe[r].pc # "idle" /\ probe[r].kind = "quick"}

\* An answer that says "ok" rests on a query the database answered less than two
\* intervals before the question (one for the service's cache, one for the
\* indicator's), whatever checks overlap, fail or finish late; except the answers
\* given while a quick check is going on, which may be of any age
\* (health.service.ts 109-163, 199-218; prisma.health.ts 54-95).  And one quick check
\* runs at a time (121-150).
OkIsRecent ==
  /\ told.ok /\ ~told.busy => told.late <= 2 * (Interval - 1)
  /\ Cardinality(Running) = IF isQuickChecking THEN 1 ELSE 0

\* Why: what a check leaves in the service's caches, and brings with it, is younger than
\* an interval; and whoever runs a quick check holds the flag.
Young == /\ \A c \in quick \cup full : c.late < Interval
         /\ \A r \in Probes : probe[r].late < Interval
Recent == told.ok /\ ~told.busy => told.late <= 2 * (Interval - 1)
OneQuick == /\ \A r, o \in Running : r = o
            /\ isQuickChecking <=> Running # {}
Inv == TypeOK /\ Young /\ Recent /\ OneQuick
=============================================================================
