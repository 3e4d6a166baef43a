------------------------------- MODULE MCLive -------------------------------
(***************************************************************************)
(* What must eventually happen, in one run: "part" is chosen in the        *)
(* initial state and every step is a step of that part.  A fairness        *)
(* condition is about a step of its part.                                  *)
(***************************************************************************)
EXTENDS Naturals, FiniteSets, TLC

CONSTANTS u1, o1, m1, r1, r2, perm, admin, file, None, Unused, Gone

VARIABLES part
VARIABLES row, grants, memberKey, permKey, check, writes, held, excused, strayed
VARIABLES kind, disk, cmeta, cexist, clist, access, last, signed, gone, raced
VARIABLES up, status, attempts, timer, quitting, late

permVars == <<row, grants, memberKey, permKey, check, writes, held, excused, strayed>>
fileVars == <<kind, disk, cmeta, cexist, clist, access, last, signed, gone, raced>>
redisVars == <<up, status, attempts, timer, quitting, late>>
vars == <<part, permVars, fileVars, redisVars>>

\* One user with one row.
P == INSTANCE PermissionCache WITH
       Users <- {u1}, Orgs <- {o1}, Roles <- {admin}, Perms <- {perm}, Ids <- {m1},
       KeyOf <- m1 :> <<u1, o1>>, Requests <- {r1, r2},
       Needs <- [op \in {"read", "update", "remove", "invite", "other"} |-> perm],
       Callers <- {<<u1, o1>>}, SystemAdmins <- {}, MaxWrites <- 2, req <- check
S == INSTANCE Storage WITH
       Paths <- {file}, Requests <- {r1, r2}, Kinds <- {"local", "github"}, MaxVersions <- 1,
       Sizes <- {1}, MaxFileSize <- 1, Quota <- 1, MaxListing <- 0, RedisFaults <- TRUE,
       req <- access
R == INSTANCE RedisClient WITH MaxRetries <- 3, PerRequest <- 1, excused <- late

Permission(A) == part = "permissions" /\ A /\ UNCHANGED <<part, fileVars, redisVars>>
File(A) == part = "files" /\ A /\ UNCHANGED <<part, permVars, redisVars>>
Redis(A) == part = "redis" /\ A /\ UNCHANGED <<part, permVars, fileVars>>

Init == /\ part \in {"permissions", "files", "redis"}
        /\ P!Init /\ S!Init /\ R!Init
        /\ part = "permissions" \/ (writes = 0 /\ row[m1] = Unused /\ grants[admin] = {})
        /\ part = "files" \/ kind = "local"
        /\ part = "redis" \/ up = FALSE
Next == Permission(P!Next) \/ File(S!Next) \/ Redis(R!Next)
Fairness ==
  /\ \A r \in {r1, r2} : WF_vars(Permission(P!Proceed(r))) /\ WF_vars(File(S!Step(r)))
  /\ \A k \in {u1} \X {o1} : WF_vars(Permission(P!ExpirePerms(k)))
  /\ WF_vars(File(S!ExpireMetadata(file))) /\ WF_vars(File(S!ExpireExistence(file)))
  /\ WF_vars(File(S!ExpireListing))
  /\ WF_vars(Redis(R!Lost)) /\ WF_vars(Redis(R!Retry)) /\ WF_vars(Redis(R!Connect))
  /\ WF_vars(Redis(R!Ready)) /\ WF_vars(Redis(R!ForcedReconnect))
Spec == Init /\ [][Next]_vars /\ Fairness

\* A permission lost for good is in the end not granted any more (PermissionCache).
RevocationReaches == P!RevocationReaches
\* When the writing stops, the cached answers come to agree with the store (Storage).
Converges == S!Converges
\* Short outages leave the client ready for good (RedisClient).
Reconnects == R!Reconnects
=============================================================================
