----------------------------- MODULE RedisClient -----------------------------
(***************************************************************************)
(* The one Redis connection of a process (src/src/core/redis): ioredis     *)
(* with its retries, and the service's own reconnect timer beside it.      *)
(*                                                                         *)
(* ioredis is external and modelled by what its options and its events     *)
(* say: "waiting" is its status "reconnecting" (a retry is due), and quit  *)
(* closes the client for good.  A quit while a retry is due drops that     *)
(* retry ("stuck"), unless commands are queued: then it queues behind them. *)
(***************************************************************************)
EXTENDS Naturals

CONSTANTS MaxRetries,      \* 30: retryStrategy gives up after so many
          PerRequest       \* maxRetriesPerRequest (5): queued commands fail
                           \* after so many retries

RedisClientAssumption == MaxRetries \in Nat /\ PerRequest \in Nat

VARIABLES up,        \* the server answers
          status,    \* of the client
          attempts,  \* retries since the client was last ready
          timer,     \* reconnectTimer is set
          quitting,  \* a quit waits in the offline queue
          excused    \* history: the timer ran out before the client had connected, a
                     \* health check failed or came between that and ready, the
                     \* retries ran out, or the module stopped
vars == <<up, status, attempts, timer, quitting, excused>>

Init == /\ up \in BOOLEAN /\ status = "connecting" /\ attempts = 0
        /\ timer = FALSE /\ quitting = FALSE /\ excused = FALSE

\* The server, or the way to it, goes and comes back.
Server == up' = ~up /\ UNCHANGED <<status, attempts, timer, quitting, excused>>

\* The limit of retryStrategy.
GivesUp == attempts + 1 > MaxRetries
\* retryStrategy: after the last retry null, which ends the client.
RetryStrategy ==
  /\ attempts' = IF GivesUp THEN attempts ELSE attempts + 1
  /\ status' = IF GivesUp THEN "end" ELSE "waiting"
  /\ excused' = (excused \/ GivesUp)

\* close and end set the timer unless it is set; queued commands fail now and then.
ScheduleReconnect == timer' = TRUE
Close ==
  /\ RetryStrategy /\ ScheduleReconnect
  /\ quitting' = (quitting /\ ~GivesUp /\ attempts' % (PerRequest + 1) # 0)
Lost == /\ ~up /\ status \in {"connecting", "connected", "ready"}
        /\ Close /\ UNCHANGED up
\* reconnectOnError: the server answers with an error that says it is not to be used.
ReconnectOnError == /\ up /\ status \in {"connected", "ready"}
                    /\ Close /\ UNCHANGED up
Retry == /\ status = "waiting" /\ status' = "connecting"
         /\ UNCHANGED <<up, attempts, timer, quitting, excused>>

\* The timer after connect; and were it left running.
LeftRunning == timer
Cleared == FALSE
Connect == /\ up /\ status = "connecting"
           /\ status' = "connected" /\ timer' = Cleared
           /\ UNCHANGED <<up, attempts, quitting, excused>>
\* The ready check passed: the queued commands go out, a quit among them.
Ready == /\ up /\ status = "connected" /\ attempts' = 0
         /\ status' = IF quitting THEN "end" ELSE "ready"
         /\ timer' = (timer \/ quitting)
         /\ quitting' = FALSE
         /\ UNCHANGED <<up, excused>>

\* Every 15 seconds: a client that is ready is pinged, which may fail or time out all the
\* same; one that is neither ready nor on its way sets the timer, and so does one that has
\* connected and waits for its ready check.
HealthCheck ==
  /\ status \in {"ready", "connected", "end"}
  /\ ScheduleReconnect
  /\ excused' = (excused \/ status # "end")
  /\ UNCHANGED <<up, status, attempts, quitting>>

\* The timer runs out after 5 seconds: quit.  The handlers of close and end set
\* it again when the client ends; a quit of a closed client is refused.
Quit ==
  \/ /\ status \in {"connecting", "connected", "ready"} /\ status' = "end"
     /\ ScheduleReconnect /\ quitting' = FALSE
  \/ /\ status = "waiting" /\ status' = "stuck"
     /\ timer' = FALSE /\ quitting' = FALSE
  \/ /\ status \in {"connecting", "connected", "waiting"} /\ UNCHANGED status
     /\ timer' = FALSE /\ quitting' = TRUE
  \/ /\ status \in {"end", "stuck"} /\ timer' = FALSE /\ UNCHANGED <<status, quitting>>
ForcedReconnect ==
  /\ timer
  /\ Quit
  /\ excused' = (excused \/ status \in {"connecting", "connected", "waiting"})
  /\ UNCHANGED <<up, attempts>>

\* The module stops: the timer is cleared and the client told to quit.
OnModuleDestroy == Quit /\ excused' = TRUE /\ UNCHANGED <<up, attempts>>

Next == Server \/ Lost \/ ReconnectOnError \/ Retry \/ Connect \/ Ready \/ HealthCheck \/ ForcedReconnect
        \/ OnModuleDestroy
\* Retries and timers run out, and a server that is there answers.
Fairness == WF_vars(Lost) /\ WF_vars(Retry) /\ WF_vars(Connect) /\ WF_vars(Ready)
            /\ WF_vars(ForcedReconnect)
Spec == Init /\ [][Next]_vars

----------------------------------------------------------------------------
TypeOK == /\ up \in BOOLEAN /\ timer \in BOOLEAN /\ quitting \in BOOLEAN /\ excused \in BOOLEAN
          /\ status \in {"connecting", "connected", "ready", "waiting", "stuck", "end"}
          /\ attempts \in 0..MaxRetries

\* The client ends, or has a quit waiting, only if an outage outlasted the timer, a health
\* check failed or came too early, the retries ran out or the module stopped: the timer
\* that an outage sets is no longer running once the client has connected again, however
\* outages and attempts follow each other (redis.service.ts 191-201, 267-290).
ClosedForCause ==
  ~excused => /\ status \notin {"stuck", "end"} /\ ~quitting
              /\ timer => status \in {"connecting", "waiting"}

\* However often the connection was lost or dropped, once the server stays and answers
\* without such errors the client is ready for good, as long as each outage ended before
\* the reconnect timer ran out and no health check failed or came too early: what
\* ClosedForCause keeps open, the retries of ioredis bring back.
Reconnects ==
  (<>[]up /\ <>[][~ReconnectOnError]_vars /\ []~excused) => <>[](status = "ready")

\* Inductive: that the timer stopped says nothing of a quit that waits already.
Inv == TypeOK /\ ClosedForCause
=============================================================================
