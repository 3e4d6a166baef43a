------------------------------ MODULE Platform ------------------------------
(***************************************************************************)
(* The components that share no state, side by side: "part" is chosen in   *)
(* the initial state, and every step is a step of that part, so the state  *)
(* graph is the sum of theirs and not the product.  The variables of the   *)
(* other parts stay idle.  Two parts share the variables of Membership,    *)
(* and two those of Storage, which each of them gives other constants.     *)
(***************************************************************************)
EXTENDS Naturals, FiniteSets

CONSTANTS Requests, Users, NoUser,
          Emails, States, Identities, Configurations, Purposes,
          NoEmail, NoState, NoIdentity,                                  \* accounts
          LoginEmails, Logins, Ips, MaxFailed, MaxAttempts, ResetAfter,  \* guard
          SetupTokens, AnyToken, AnyUser,                                \* setup
          People, Creator, NoPerson, MemberLimit,                        \* members, joins
          MemberOps, MemberInvites, JoinOps, JoinInvites,
          Hosts, HostOrgs, HostIds, Default, Settings, NoId,             \* domains
          Instances, Required, SystemOnly, Deployments,                  \* boot
          Plans, NoPlan, Terms, Chosen, MaxSettled,                      \* billing
          Paths, FileKinds, BucketKinds, MaxVersions, Sizes,             \* files, buckets
          MaxFileSize, Quota, MaxListing,
          TokenNames, MaxDrawn,                                          \* keys
          Orgs, Persons, OrgRoles, Base, NoOrg,                          \* organizations
          Interval, Timeout,                                             \* health
          MaxRetries, PerRequest                                         \* redis

VARIABLES part,
          configured, live, about, verifier, users, spent, tied, reqA, crossedA,
          attempts, lock, login, limits, passed,
          token, expired, people, roles, holders, uses, setups, reopened, reqU,
          member, regs, acts, registered, lastMember, lastReg, lastToken, mailed, reqM,
          allowSSL, rows, certs, txt, route, proved, stale, reqD,
          schema, ownHost, permissions, baseRoles, boot, torn, licensed, crossedI,
          plans, terms, offered, row, over, billed, forgone, reqB,
          kind, disk, cmeta, cexist, clist, last, signed, gone, raced, reqF,
          stored, handed, seen, call, accepted,
          org, role, used, memberO, assigned, logged, reqO,
          prisma, quick, full, isQuickChecking, probe, told,
          up, status, retried, timer, quitting, late

A == INSTANCE Accounts WITH req <- reqA, crossed <- crossedA
G == INSTANCE LoginGuard WITH Emails <- LoginEmails, Requests <- Logins
U == INSTANCE Setup WITH req <- reqU
M == INSTANCE Membership WITH
       Operations <- MemberOps, MaxInvites <- MemberInvites, Batches <- {}, Roles <- {"member"},
       Alone <- {}, Settable <- {}, MaxAccounts <- Cardinality(People), EmailFaults <- FALSE,
       req <- reqM
J == INSTANCE Membership WITH    \* people register straight into the organization, too
       Operations <- JoinOps, MaxInvites <- JoinInvites, Batches <- {}, Roles <- {"member"},
       Alone <- {}, Settable <- {"INACTIVE"}, MaxAccounts <- Cardinality(People),
       EmailFaults <- FALSE, req <- reqM
D == INSTANCE Domains WITH Orgs <- HostOrgs, Ids <- HostIds, req <- reqD
I == INSTANCE SystemInit WITH crossed <- crossedI
H == INSTANCE Health WITH Probes <- Requests
R == INSTANCE RedisClient WITH attempts <- retried, excused <- late
B == INSTANCE Billing WITH req <- reqB
F == INSTANCE Storage WITH Kinds <- FileKinds, RedisFaults <- TRUE, req <- reqF
K == INSTANCE Storage WITH    \* the buckets, with Redis there
       Kinds <- BucketKinds, RedisFaults <- FALSE, req <- reqF
T == INSTANCE AccessTokens WITH Names <- TokenNames
O == INSTANCE Organizations WITH
       Users <- Persons, Roles <- OrgRoles, member <- memberO, req <- reqO

accounts == <<configured, live, about, verifier, users, spent, tied, reqA, crossedA>>
guard == <<attempts, lock, login, limits, passed>>
setup == <<token, expired, people, roles, holders, uses, setups, reopened, reqU>>
membership == <<member, regs, acts, registered, lastMember, lastReg, lastToken, mailed, reqM>>
domains == <<allowSSL, rows, certs, txt, route, proved, stale, reqD>>
startup == <<schema, ownHost, permissions, baseRoles, boot, torn, licensed, crossedI>>
billing == <<plans, terms, offered, row, over, billed, forgone, reqB>>
storage == <<kind, disk, cmeta, cexist, clist, last, signed, gone, raced, reqF>>
keys == <<stored, handed, seen, call, accepted>>
organizations == <<org, role, used, memberO, assigned, logged, reqO>>
health == <<prisma, quick, full, isQuickChecking, probe, told>>
redis == <<up, status, retried, timer, quitting, late>>
vars == <<part, accounts, guard, setup, membership, domains, startup, billing, storage,
          keys, organizations, health, redis>>

ASSUME PlatformAssumption ==
  /\ A!AccountsAssumption /\ G!LoginGuardAssumption /\ D!DomainsAssumption
  /\ I!SystemInitAssumption /\ B!BillingAssumption /\ F!StorageAssumption
  /\ K!StorageAssumption /\ T!AccessTokensAssumption
  /\ O!OrganizationsAssumption /\ H!HealthAssumption
  /\ R!RedisClientAssumption
  \* And what Membership asks of its constants.
  /\ Creator \in People /\ NoPerson \notin People /\ IsFiniteSet(People)
  /\ IsFiniteSet(Requests) /\ Requests # {}
  /\ MemberLimit \in Nat \ {0} /\ MemberInvites \in Nat /\ JoinInvites \in Nat
  /\ MemberOps \cup JoinOps \subseteq M!OperationNames

Parts == {"accounts", "guard", "setup", "members", "joins", "domains", "boot", "billing",
          "files", "buckets", "keys", "organizations", "health", "redis"}
Idle == "idle"   \* of a variable the part has no use for
NoAccounts == configured = Idle /\ live = Idle /\ about = Idle /\ verifier = Idle
              /\ users = Idle /\ spent = Idle /\ tied = Idle /\ reqA = Idle
              /\ crossedA = Idle
NoGuard == attempts = Idle /\ lock = Idle /\ login = Idle /\ limits = Idle /\ passed = Idle
NoSetup == token = Idle /\ expired = Idle /\ people = Idle /\ roles = Idle
           /\ holders = Idle /\ uses = Idle /\ setups = Idle /\ reopened = Idle
           /\ reqU = Idle
NoMembership == member = Idle /\ regs = Idle /\ acts = Idle /\ registered = Idle
                /\ lastMember = Idle /\ lastReg = Idle /\ lastToken = Idle /\ mailed = Idle
                /\ reqM = Idle
NoDomains == allowSSL = Idle /\ rows = Idle /\ certs = Idle /\ txt = Idle /\ route = Idle
             /\ proved = Idle /\ stale = Idle /\ reqD = Idle
NoStartup == schema = Idle /\ ownHost = Idle /\ permissions = Idle /\ baseRoles = Idle
             /\ boot = Idle /\ torn = Idle /\ licensed = Idle /\ crossedI = Idle
NoBilling == plans = Idle /\ terms = Idle /\ offered = Idle /\ row = Idle /\ over = Idle
             /\ billed = Idle /\ forgone = Idle /\ reqB = Idle
NoStorage == kind = Idle /\ disk = Idle /\ cmeta = Idle /\ cexist = Idle /\ clist = Idle
             /\ last = Idle /\ signed = Idle /\ gone = Idle /\ raced = Idle /\ reqF = Idle
NoKeys == stored = Idle /\ handed = Idle /\ seen = Idle /\ call = Idle /\ accepted = Idle
NoOrganizations == org = Idle /\ role = Idle /\ used = Idle /\ memberO = Idle
                   /\ assigned = Idle /\ logged = Idle /\ reqO = Idle
NoHealth == prisma = Idle /\ quick = Idle /\ full = Idle /\ isQuickChecking = Idle
            /\ probe = Idle /\ told = Idle
NoRedis == up = Idle /\ status = Idle /\ retried = Idle /\ timer = Idle /\ quitting = Idle
           /\ late = Idle

Init == /\ part \in Parts
        /\ IF part = "accounts" THEN A!Init ELSE NoAccounts
        /\ IF part = "guard" THEN G!Init ELSE NoGuard
        /\ IF part = "setup" THEN U!Init ELSE NoSetup
        /\ IF part = "members" THEN M!Init ELSE IF part = "joins" THEN J!Init ELSE NoMembership
        /\ IF part = "domains" THEN D!Init ELSE NoDomains
        /\ IF part = "boot" THEN I!Init ELSE NoStartup
        /\ IF part = "billing" THEN B!Init ELSE NoBilling
        /\ IF part = "files" THEN F!Init ELSE IF part = "buckets" THEN K!Init ELSE NoStorage
        /\ IF part = "keys" THEN T!Init ELSE NoKeys
        /\ IF part = "organizations" THEN O!Init ELSE NoOrganizations
        /\ IF part = "health" THEN H!Init ELSE NoHealth
        /\ IF part = "redis" THEN R!Init ELSE NoRedis

\* The other parts' variables stay; the part chosen takes a step.
Others == /\ UNCHANGED part
          /\ part # "accounts" => UNCHANGED accounts
          /\ part # "guard" => UNCHANGED guard
          /\ part # "setup" => UNCHANGED setup
          /\ part \notin {"members", "joins"} => UNCHANGED membership
          /\ part # "domains" => UNCHANGED domains
          /\ part # "boot" => UNCHANGED startup
          /\ part # "billing" => UNCHANGED billing
          /\ part \notin {"files", "buckets"} => UNCHANGED storage
          /\ part # "keys" => UNCHANGED keys
          /\ part # "organizations" => UNCHANGED organizations
          /\ part # "health" => UNCHANGED health
          /\ part # "redis" => UNCHANGED redis
Next == /\ Others
        /\ \/ part = "accounts" /\ A!Next
           \/ part = "guard" /\ G!Next
           \/ part = "setup" /\ U!Next
           \/ part = "members" /\ M!Next
           \/ part = "joins" /\ J!Next
           \/ part = "domains" /\ D!Next
           \/ part = "boot" /\ I!Next
           \/ part = "billing" /\ B!Next
           \/ part = "files" /\ F!Next
           \/ part = "buckets" /\ K!Next
           \/ part = "keys" /\ T!Next
           \/ part = "organizations" /\ O!Next
           \/ part = "health" /\ H!Next
           \/ part = "redis" /\ R!Next
Spec == Init /\ [][Next]_vars

----------------------------------------------------------------------------
\* The types of the part that runs.
TypeOK ==
  /\ part \in Parts
  /\ part = "accounts" => A!TypeOK
  /\ part = "guard" => G!TypeOK
  /\ part = "setup" => U!TypeOK
  /\ part = "members" => M!TypeOK
  /\ part = "joins" => J!TypeOK
  /\ part = "domains" => D!TypeOK
  /\ part = "boot" => I!TypeOK
  /\ part = "billing" => B!TypeOK
  /\ part = "files" => F!TypeOK
  /\ part = "buckets" => K!TypeOK
  /\ part = "keys" => T!TypeOK
  /\ part = "organizations" => O!TypeOK
  /\ part = "health" => H!TypeOK
  /\ part = "redis" => R!TypeOK
\* A state parameter is accepted once, and one external account leads to one user,
\* unless two requests crossed (Accounts).
SignInSound == part = "accounts" => A!StateUsedOnce /\ A!OneAccountPerIdentity
\* Wrong passwords and fingerprint comparisons are bounded (LoginGuard).
GuessingBounded == part = "guard" => G!GuessingBounded
\* Setup completes once until SYSTEM_ADMIN is deleted (Setup).
OneAdministrator == part = "setup" => U!OneAdministrator
\* With two overlapping requests a row stays linked to the person it invites (Membership).
RightPerson == /\ part = "members" => M!RightPerson
               /\ part = "joins" => J!RightPerson
\* A row becomes active only by a request of the person it invites (Membership).
OnlyInviteeActivates ==
  [][/\ part = "members" => \A i \in M!MemberIds : ~M!Activates(i)
     /\ part = "joins" => \A i \in J!MemberIds : ~J!Activates(i)]_vars
\* Requests go to the organization that proved the host, or to the default (Domains).
RoutesToOwner == part = "domains" => D!RoutesToOwner
\* Instances that start together leave each base role once and complete, and the
\* tables they make with all but the conversion of a status (SystemInit).
StartupSound == part = "boot" => I!BaseRolesSound /\ I!SchemaSound
\* The plan on record was paid for, or let go where the code asks nobody (Billing).
PaidInFull == part = "billing" => B!PaidInFull
\* A replaced or deleted content never comes back (Storage).
NeverReverts == /\ part = "files" => F!NeverReverts
                /\ part = "buckets" => K!NeverReverts
\* After a deletion no cached answer says the file is there (Storage).
DeletedIsGone == /\ part = "files" => F!DeletedIsGone
                 /\ part = "buckets" => K!DeletedIsGone
\* Members hold roles of their organization or of the system (Organizations).
OwnRoles == part = "organizations" => O!OwnRoles
\* An "ok" of the health endpoints is recent, and quick checks do not overlap (Health).
OkIsRecent == part = "health" => H!OkIsRecent
\* The Redis client closes its connection only for a cause (RedisClient).
ClosedForCause == part = "redis" => R!ClosedForCause
=============================================================================
