# A verified model of the NestJS starter

This directory holds TLA+ specifications of the parts of the starter whose
correctness depends on the order in which things happen: concurrent requests,
Redis keys that expire, queries that fail half way through a handler. Every
definition is translated from the code under `src/src/`; `PROJECT.json` names the
lines. TLC checks each module on a small instance, TLAPS proves the main
invariants for every instance.

## 1. The system

A multi-tenant SaaS back end: one Node process (or several) serving HTTP, with
PostgreSQL through Prisma and Redis through ioredis. A handler is an `async`
function. Between two `await`s nothing else runs; at each `await` any other
request may. Hardly any handler opens a transaction, so in the models **one step
is one query or one Redis command** (several commands sent together by
`Promise.all` over the one Redis connection are one step), and a step that fails
ends the request and undoes nothing.

| Component | State | Operations | Interacts with | What is hard | What makes it correct |
|---|---|---|---|---|---|
| Token service (`modules/auth/services/token.service.ts`, `auth.service.ts`) | Redis: version and token list per user, blacklist and revocation entries per token; the claims inside each JWT | login, register, refresh, validate, logout, revoke, increment | Redis client, fingerprints, JWT strategy | read-modify-write in two commands, expiring keys, failures half way | a token a logout has covered is never honoured again |
| Membership (`modules/organizations/services/member.service.ts`) | rows of members, roles, activities, pending registrations; user accounts | invite, bulk invite, update, remove, accept, decline, register, complete a registration | plan limits, e-mail, users, member cache, tenant context | checks and writes in separate queries, foreign keys, e-mails sent before rows exist | the plan's limit, an admin always left, rows linked to the person invited |
| Tenant context (`shared/context`, `shared/middleware`, `shared/repositories`) | one static `AsyncLocalStorage` | set, read, clear, run | every tenant-aware repository | cleared for everyone by whoever finishes | a request reads and writes its own organization's rows |
| Member and permission caches (`member-cache.service.ts`, `organization-permission.service.ts`, `permission.guard.ts`) | Redis: a member row and a permission list per user and organization, a list per organization | read through, invalidate, check | membership, guard | a fill racing an invalidation, failures swallowed | permissions granted are permissions held |
| Admin sessions (`modules/admin/sessions`) | session rows, a Redis copy per token | create, validate, revoke, revoke others, clean up | guard, Redis | a validation racing a revocation | a revoked session is rejected |
| Social login (`modules/auth/oauth`, `auth.controller.ts`) | one-time state values and code verifiers in Redis, social accounts | start, callback of four providers, find or create | providers, users | get-then-delete, find-then-create | a state is used once, one account per identity |
| Login attempts, fingerprint limit | in-memory counters and locks per account, per address | record, lock, reset, compare | login | the check and the count are awaits apart | guesses are bounded |
| System setup and system roles (`modules/system/setup`, `modules/admin/system-roles`) | setup tokens, SYSTEM_ADMIN and SYSTEM_AUDITOR and their holders | generate, validate, complete (HTTP and CLI), create, assign, remove, delete | users | checks outside the transaction | one administrator, a token used once |
| Start-up (`system-init.service.ts`, `prisma.service.ts`) | permissions, base roles, two tables, the record of the own host | what every instance does as it starts | custom domains, roles | instances start together or stop half way | idempotent |
| Subscriptions and billing (`modules/subscriptions`, `modules/admin/subscription`) | one subscription per organization, billing records, plans | create, cancel, change plan, change payment method, administrators' changes | payment providers, membership (limit) | money moves before rows change | the plan on record was paid for |
| Custom domains (`modules/custom-domain`) | domains, certificates, a routing cache | add, verify, delete, route | DNS, certificate authority, Redis | stale routes, swallowed errors | a host routes to its owner |
| API access tokens (`modules/access-tokens`) | token rows | create, validate, delete | guard | the token returned is not the one stored | what is handed out validates |
| Storage (`modules/storage`) | objects at one of four providers, three caches | upload, replace, delete, read, list, metadata, signed URLs | providers, Redis | a cache fill racing a delete, read-then-put at GitHub | deleted or replaced contents do not come back |
| Organizations and roles (`modules/organizations`, `modules/admin/organizations`) | organizations, their roles, role assignments | create, change, delete, assign | membership, permission checker | roles looked up, then written, while they are deleted | members hold roles of their own organization |
| Users (`modules/users`) | accounts, passwords | create, update, delete, change password | membership, setup, sessions | unique address | one account per address |
| Redis client (`core/redis`) | a connection, a reconnect timer | connect, retry, ping, reconnect | all caches | two reconnection mechanisms side by side | it comes back |
| Health (`modules/health`) | results cached in two layers, a flag | quick check, full check | database | stale results, overlapping checks | an "ok" is recent |
| E-mail (`modules/email`) | none | send | membership | a refused message | nothing later depends on it |
| Monitoring and metrics, HTTP plumbing, configuration | none, or counters nothing reads back | dashboards, formatting | | | left out |

## 2. Plan

The modules, in the order in which they were written:

1. `Tokens` (detailed) and `TokenRevocation` (abstract: logging out kills all
   tokens of a user in one act), with the refinement between them; `TokensProofs`.
2. `Membership`, `MembershipProofs`.
3. `Tenancy`, `TenancyProofs`: the static storage under interleaved requests, with
   the member queries that read it.
4. `PermissionCache`, `PermissionCacheProofs`: guard, caches and membership
   writes, with queries that have their tenant and queries that have lost it.
5. `AdminSessions`, `AdminSessionsProofs`.
6. `Accounts`, `LoginGuard`: how accounts come about, and what limits guessing.
7. `Setup`: the first administrator and the system roles.
8. `Billing`, `Domains`, `SystemInit`: the subscription of an organization, the
   hosts it serves, and what an instance does as it starts.
9. `Storage`, `StorageProofs`; `AccessTokens`.
10. `Organizations`.
11. `RedisClient`, `Health`: what keeps trying, and what tells that all is well.
12. `Platform`: the components of 2 and 6 to 11 that share no state, side by side
    under one specification. `PlatformParts` has the proofs of the parts that have
    no proof module of their own, `PlatformProofs` the theorems about the whole.

`MCTokens`, `MCMembership`, `MCTenancy`, `MCPermissionCache` and `MCAdminSessions`
instantiate the first five, `MCPlatform` instantiates `Platform`, `MCLive` the
components about which something must eventually happen, and `MCAccounts` shows by
itself what becomes of a sign-in (section 4).

What would be worth adding: `Billing` composed with `Membership`, so that the
plan's limit changes while members are invited; the invalidation of cached
permissions as an abstract specification that `PermissionCache` would have to
meet, and today does not.

## 3. The modules

### Tokens

`Tokens.tla` models `TokenService` with its callers in `AuthService`.

* **State.** One variable per Redis key family: `version` (0 when the key is
  missing), `tracked`, `blacklistUntil`, `revokedUntil`, each with the time it
  expires; `owner`, `ver` and `window` are the claims inside a JWT; `returned`
  the tokens clients hold; `req` the requests in flight, each with its program
  counter and the values it has read. `dead` and `lateAccept` are history: the
  tokens a completed logout covers, and those honoured by a check that *began*
  when they were dead.
* **Actions.** `Start…` begin requests; then one action per Redis command of
  `validateToken` (`GetBlacklist`, `GetRevocation`, `GetVersion`), of
  `createTokens` and `trackUserTokens` (`GetVersion`, `InitVersion`,
  `TrackRead`, `TrackWrite`), of `revokeAllUserTokens` (`IncrementRead`, `Bump`,
  `ListTokens`, `BlacklistAll`, `ClearTracked`) and of `revokeToken`;
  `RedisFails` is any of them failing, with the effect swallowed or not as the
  `catch` blocks say; `Tick` lets time pass and keys expire.
* **Abstractions.** The access and the refresh token of one login are issued,
  tracked and blacklisted together and stand as one token. A refresh validates
  its token twice, in the guard and in `refreshTokens`; one validation stands for
  both. Signatures always verify. `generateToken`, `revokeToken` and
  `incrementTokenVersion` have no callers in the repository but are public
  operations of the service and are modelled. A token's own expiry lies beyond
  the horizon: `auth.service.ts` adds a time to live multiplied by 1000 to a time
  in seconds, so tokens live for days. A tick is about 100 s: a blacklist entry
  (86.4 s) lives one, a fingerprint window (300 s) three and the version key
  (604.8 s) six.

`TokenRevocation.tla` is what logging out promises without Redis: issue a token,
and make all tokens of a user worthless in one step.

### Membership

`Membership.tla` models `MemberService` over one organization, with
`UsersService.create` (which joins an invited person on registration) and
`SubscriptionService.checkMemberLimit`.

* **State.** `member`, `regs`, `acts`: the tables; rows are numbered from 1 by
  a sequence, as PostgreSQL does, because one operation confuses the ids of two
  tables. `registered`: people with an account. `req`: requests in flight.
  `mailed`, `presented`: history of registration invitations.
* **Actions.** One per query or e-mail. `CheckLimit`, `CheckExists`,
  `LookupUser`, `CreateInvited` / `CreateReg`, `MailReg`, `CreatePending`,
  `DropRoles`, `AddRoles`, `Mail`, `TrackActivity` are an invitation; a bulk
  invitation runs them once per address after a single `CheckLimit`. `Find`,
  `CountAdmins`, `CheckAdmin`, `DeleteMember` are a removal, and so on.
  `MailFails` is a refused e-mail; the unique columns are guards of the creating
  actions (`UniqueMember`); a delete is refused while activity rows refer to the
  member (`schema.prisma:217`).
* **Abstractions.** A person is an e-mail address and the account under it. Only
  the admin role and its absence are told apart; an unknown role name makes
  `assignRoles` fail. Invitation tokens are fresh numbers. The `find` and
  `deleteMany` of `assignRoles` are one step. Prisma drops the empty objects of
  the `OR` in `exists`, which leaves the e-mail filter. Caches are left to
  `PermissionCache`, the tenant context to `Tenancy`; here every query is scoped.
* **Failures.** `QueryFails` is any query that is refused: it ends the request where
  it stands. After a registration that is what the code does too:
  `UsersService.create` catches an error of `findByInvitationToken` and of the update
  (`users.service.ts:131`-`144`) and keeps the account, so whoever registers with a
  mailed token may stay PENDING_REGISTRATION. The code promises no more, and no
  property does.
* **Overlap.** `Alone` are the operations that no other request overlaps: all of them
  for a serial instance, none for a free one.
* **Registering straight in.** `UsersService.create` with an `organizationId`, a
  field of the public registration, inserts the account and an active member row
  together (`CreateJoined`) and asks for no limit. `LimitOverrun` allows for one such
  row per account made since (`Unasked`).
* **Not modelled.** `updateMember` with role names, a field Prisma refuses.

### Tenancy

`Tenancy.tla` models `TenantContext`, its middleware, the decorator that hands
the tenant to a handler, and `BaseRepository.applyTenantContext`, driven by the
member and organization routes.

* **State.** `store[r]`: what the static `AsyncLocalStorage` holds in the
  asynchronous context of request `r`; `row`: the organization of each member
  row; `req`: the header, the organization captured by the decorator and the
  program counter; `touched`: history, the organizations whose rows a request
  has read or written.
* **Actions.** `Enter` is the middleware (a number is entered, a missing header
  *clears*, garbage does neither), `Begin` the decorator, `Finish` the `finish`
  event, which clears, `Close` a client that leaves, after which nothing is
  cleared. `Cleared` empties every request's context, because `clear` replaces
  the one static storage. The queries (`Find`, `List`, `Update`, `CountAdmins`,
  `CheckAdmin`, `Delete`, `Exists`, `Create`) see `Visible(r)`: with no tenant
  the filter is `undefined`, Prisma drops it, and every row is visible.
* **Abstractions.** Every row is an active administrator (the worst case of a
  removal); the tests of `exists` on e-mail and user are any subset of the
  visible rows; a query is started in the context it is filtered by.
  `runWithTenant` re-enters the tenant the repository has just read and ends with
  the query, so it changes no context.
* **Found.** `OrganizationRepository` inherits the tenant filter although
  organizations have no `organizationId`: with a tenant every read of an
  organization fails (`FindOrganization`).

### PermissionCache

`PermissionCache.tla` models `PermissionGuard`, `MemberService.getMember`,
`MemberCacheService` and `OrganizationPermissionService` against the writers of
member rows and roles.

* **State.** `row` and `grants`: the tables; `memberKey`, `permKey`: the two
  Redis keys of a user and an organization; `req`: requests; `held`: history,
  every permission a user's own row in an organization has had; `excused`:
  history, the keys whose entry the code knows no way to keep up to date (a
  failed invalidation, a writer that invalidates nothing, a reader that stores
  what it found before a write, a reader or writer that reached another
  organization's row); `strayed`: history, the keys whose permissions a query
  without its tenant found.
* **Actions.** `Start`, `Lookup`, `Find`, `GetMember`, `GetPerms`, `SetMember`,
  `SetPerms`, `Check` are the guard, and the same path again when the handler
  itself reads a member; `Write`, `Create`, `Assign`, `Invalidate`,
  `InvalidateFails` the writers that invalidate; `Accept`, `Decline`,
  `Register`, `EditRole` those that do not; `ExpireMember`, `ExpirePerms` the
  ends of the keys' lives; `Fail` any query or command that fails.
* **Abstractions.** A row has at most one role, and one query reads it with its
  roles and permissions, which Prisma fetches with several selects. Statuses
  other than `INVITED` stand together: the guard asks for none of them, so the
  permissions of suspended members count. The operation and its target are chosen
  when the guard lets the request pass. The checks the writers make first are
  `Membership`'s; here they may refuse at any time. `updateMemberRoles`, which
  would be the one caller of `invalidatePermissions`, has no caller itself.
* **Linked to** `Tenancy`, which shows that another request's response may take a
  query's tenant. Every `Find` and `Write` here has its tenant or has lost it
  (`scoped`). Without it `find` reaches the row of any organization (`Reaches`), and
  what it found is cached under the user of that row and the organization of the
  request (`CacheKey`): the user is then granted here what they hold elsewhere. A
  write gone astray (`Strays`) invalidates a key that is not the row's.

### AdminSessions

`AdminSessions.tla` models `AdminSessionService`, its repository, guard and
controller.

* **State.** `row`, `owner`: the table (none, active, expired, revoked,
  deleted); `cache`: the copy in Redis; `req`: requests, with two history fields,
  `wasValid` (the session was valid when the request arrived) and `before` (the
  user's valid sessions when its sweep began).
* **Actions.** `Insert`, `StoreNew` create a session; `Get`, `Drop`, `Find`,
  `Touch`, `Store`, `StoreAgain` validate one, one action per query or command;
  `Revoke`, `Del` log out; `List`, `SweepRevoke`, `SweepDel`, `SweepFails`,
  `SweepDone` are `revokeOtherSessions`, whose revocations run concurrently
  under `Promise.all`; `Cleanup`, `DeleteUser`, `Expire`, `ExpireCopy` are the
  rest of the program and time.
* **Abstractions.** A copy tells only whether its row was revoked. `CopyIsValid`
  is FALSE: JSON turns `expiresAt` into a string, and a string that is not a
  number is not greater than any `Date`. The cache therefore never admits anybody;
  every validation reads the database, after deleting the copy. The mutant that revives the
  dates shows what this hides: a validation that read the row before a logout
  stores its copy after it, and the revoked session would be admitted again.
* The user of a request comes from its JWT and the session from another header;
  the code does not compare them, so `List` takes any user.

### Accounts

`Accounts.tla` models `UsersService`'s accounts and sign-in with an external
provider: `OAuthStateService`, the callbacks of `AuthController`, the four
providers and `OAuthUserRepository.findOrCreateUser`.

* **State.** `live`, `about`, `verifier`: the state parameters in Redis, what each
  was made for, and Apple's code verifiers; `users`: rows with e-mail and external
  identity; `configured`: the providers of this process; `req`: callbacks. History:
  `spent` (how often a state was accepted), `tied` (read by two requests before one
  deleted it), `crossed` (two sign-ins of one identity across each other).
* **Actions.** `GenerateState`, `StoreCodeVerifier`, `GetProviderAuthUrl` and
  `Expire` for the parameter; `Handle…Callback` begin callbacks; `GetState` and
  `DelState` are `validateState` (twice for a request through the controller); one
  action per provider for what it answers; `FindById`, `FindByEmail`,
  `UpdateUser`, `CreateUser` the search and the write; `Register`, `Update` and
  `Delete` what else happens to accounts.
* **Abstractions.** A provider answers any identity and address. A request comes
  through the controller or starts at the service, which is where the check itself
  is interesting: the controller validates the state, which deletes it, and the
  service then validates the same state again. Names, pictures, and Apple's form data
  (which holds a name) are left out; the tokens issued at the end are `Tokens`'.

### LoginGuard

`LoginGuard.tla` models `LoginAttemptService` as `validateUser` uses it, and the
rate limit of `FingerprintService`. Both live in `Map`s of the process (`Restart`
empties them). `Begin` reads the lock, then the password is compared;
`RecordFailedAttempt` and `ResetAttempts` come after that await, and between them
other logins run. `CheckRateLimit` and `Tick` are the count per address with its
sliding window. `Uncounted` is a comparison that ends without a count (an unknown
account, an error).

### Setup

`Setup.tla` models `SetupService` with its guard, controller and CLI commands, and
`SystemRoleService`.

* **State.** `token`, `expired`: setup tokens; `people`, `roles`, `holders`: users,
  system roles by name, who holds them; `req`: requests. History: `uses` per token,
  `setups` since SYSTEM_ADMIN was last deleted, `reopened` (tokens past their check
  when it was).
* **Actions.** `Guard`, `ValidateToken`, `Controller` are the checks an HTTP
  request passes; the CLI begins behind them. `FindToken`, `RecordAttempt` and
  `CompleteSetup` are `completeSetup`: the transaction is one step, what comes
  before it is not. `FindRole` and then `CreateRole`, `AssignToUser`,
  `RemoveFromUser` or `DeleteRole` are the administrators' operations, `Refuse` any
  check that fails.
* **Abstractions.** Audit rows and the counter of requests per address, which only
  refuses, are left out. A role is known by its name.

### Domains

`Domains.tla` models `CustomDomainService`, its repository, `SslService` as far as
it is called, and `DomainRoutingMiddleware`.

* **State.** `rows`, `certs`: domains and which have a certificate; `txt`: the DNS;
  `route`: the cache of the middleware; `allowSSL`: the deployment's setting.
  History: `proved` (ids whose token a verification found), `stale` (hosts that
  lost their verification while it was cached or on its way there).
* **Actions.** `AddDomain`; `VerifyDomain`, `ResolveDns`, `ProvisionCertificate`
  and `WriteVerified` or `WriteFailed`; `DeleteDomain`, `DeleteRow`; `Use`,
  `FindOrganization`, `CacheOrganization` and `Handle` for a request of that host;
  `ExpireRoute`; `Publish` for whoever controls the host.
* **Abstractions.** The random token of a row is its id. Renewal and the health
  checks of domains are called by nothing.

### SystemInit

`SystemInit.tla` models the start of an instance: `PrismaService.onModuleInit`
(two tables, made statement by statement if they are missing, and the record of the
platform's own host) and `SystemInitService` (permissions upserted one by one, then
read, then two base roles found or created). Instances start together, stop
anywhere (`Stop`) and start again. `MakingFails` is a statement that fails. `Refused`
are those the database never accepts: a constraint that is already there, and the last
statement of `custom_domains`, which converts `status` to the enum `DomainStatus`
(`prisma.service.ts:156`-`160`). The column is a TEXT with the default `'PENDING'`
(`114`), a default PostgreSQL does not cast to the enum by itself, so the statement
fails each time, its error is caught, and the column stays TEXT; only migrations make
it otherwise. A self-hosted deployment without a licence key (`licensed`) initialises
no permissions and no roles.

### Billing

`Billing.tla` models the subscription of one organization: `SubscriptionService`,
`BillingService`, `PlanService` and the administrators' `SubscriptionAdminService`.

* **State.** `plans`, `terms`, `offered`: the plan rows, what each costs and for how
  long, which are active; `row`: the subscription, with the interval its period was
  given; `over`: that period has ended; `billed`: what was paid; `forgone`: history,
  what the code asks nobody for.
* **Actions.** Creating (`FindExisting`, `FindPlan`, `Insert`, `BillCreated`),
  changing plans (`FindForChange`, `FindPlan`, `HandlePlanChange`, which charges,
  `UpdateProvider`, `WritePlan`), cancelling, and changing the payment method,
  each query or provider call a step; administrators' and `PlanService`'s changes in
  one step each. `UpdatePlan` writes any price and any interval, while subscriptions
  are on the plan and while requests hold what they read of it.
* **Periods.** A change leaves the start of the period and computes its end anew, with
  the new plan's interval (`CalculatePeriodEnd`): it may come to lie before or after
  now. The charge is the share of the days left of the *old* period (`Prorated`), of
  which all and none are modelled, since what lies between is between the two; after
  the period the days are negative and the sign turns. An interval the code does not
  know makes `WritePlan` fail after the charge (`Writable`); the theorem covers such
  intervals, the run has none.
* **What `PaidInFull` says.** The period on record was paid for once, at the price the
  plan on record has: what was billed and what was let go add up to it. A longer
  interval at the same price is a new period for that price, for which the code asks
  nothing more; that the price is per period is thus not what the property holds the
  code to, and nothing in the code bills a second period. What is let go (`forgone`)
  is named: creations and changes without a payment method, trials, a first bill that
  fails, the share of the days gone by, everything once the period is over, and rises
  of a plan's price under who is on it.
* **Abstractions.** The manual provider accepts everything and is the only one that
  can be configured.

### Storage

`Storage.tla` models `StorageService`, `StorageCacheService`, the routes of
`StorageController`, the local, S3, Spaces and GitHub providers and
`GithubApiClient`, for the files of one organization.

* **State.** `kind`: the provider; `disk`: the content stored per path, the number
  of the upload that wrote it; `cmeta`, `cexist`, `clist`: the caches; `signed`:
  paths a signed URL lets its holder write to; `req`. History: `gone` (contents
  replaced or deleted), `raced` (paths deleted beneath a request that had read
  them, or whose invalidation failed).
* **Actions.** Each route begins with a request; then one action per provider call
  (several for GitHub, which asks for the sha before it puts), per cache read and
  write, and for the invalidation. Redis calls may fail where the code catches that.
* **Abstractions.** A metadata answer is the content it describes. File contents,
  MIME types and URLs are left out. The quota is compared with one upload, because
  the code's usage is always zero.

### AccessTokens

`AccessTokens.tla` models `AccessTokenService`, its repository and
`AccessTokenGuard`: what is drawn, what is stored, what is answered, and what the
guard accepts. Deleting looks an id up as if it were a token value. No route uses
the guard yet.

### Organizations

`Organizations.tla` models `OrganizationService`, `RoleService`,
`MemberRoleRepository.assignRolesByNames` and the administrators'
`AdminOrganizationService`.

* **State.** `org`, `role`, `used`, `member`, `assigned`, `logged`: the tables with
  the ids given out and the members that have activity rows; `req`.
* **Actions.** Each operation as its queries. Assigning reads the names
  (`found`), then deletes the member's roles, then writes the found ones; foreign
  keys refuse or cascade as the schema says: a role that is deleted takes its
  assignments along, an organization whose members have activities cannot go.
* **Abstractions.** Members come and go once each, as `Membership` has it. Taken
  slugs and unknown permissions are requests that fail.

### RedisClient

`RedisClient.tla` models the ioredis client as `RedisService` configures it
(`retryStrategy`, `maxRetriesPerRequest`) with the reconnect timer beside it.
ioredis is external and modelled by its options and events. `Lost`, `Retry`,
`Connect`, `Ready` are the client, `ReconnectOnError` a connection it drops because the
server answers READONLY or the like, `ForcedReconnect` the timer, which quits. The
timer may run out at any moment after it is set, so five seconds are no assumption.
`HealthCheck` is the periodic one: it sets the timer when a ping fails, and when it
finds the client neither ready nor on its way, connected and not yet ready included.
`OnModuleDestroy` may come at any time. `excused` records what may end the client for
good; `ClosedForCause` says that nothing else does, and `Reconnects` that the client
then comes back.

### Health

`Health.tla` models `HealthService` and `PrismaHealthIndicator`: three cached
results and a flag, in ticks of time. `CHECK_INTERVAL` and the timeouts are
constants; a timeout fires when it is due (`Due`), which bounds how long a check
can last. The retry loop of `checkAll` is left out because it repeats
`TimeoutError`s only and gets none.

### Platform and MCLive

The components of `Platform` share no state in the code, so their product would
say nothing more than they do apart. Its variable `part` is chosen in the initial
state, every step is a step of that part, and the variables of the others stay
idle: the state graph is the sum of theirs, and an invariant of `Platform` is one
of each part. `Membership` appears twice: as `members`, and as `joins` with people
who register straight into the organization; and `Storage` twice, as `files` (local
disk and GitHub, calls of Redis failing) and as `buckets` (S3 and Spaces, Redis
there). `PlatformAssumption` collects what the components ask of their constants.
`MCLive` is built in the same way of the three components with liveness properties,
and its fairness conditions are about steps of their part. The Redis client is in
both: its safety in `Platform`, its liveness in `MCLive`.

Each of these components ends with `Inv`, the inductive invariant its proof needs,
and says why it holds. What a request carries at each step, which these invariants
speak of, is the best short explanation of why the code is right.

## 4. What is checked

Every passing run is exhaustive for its instance. Bounds are constants of the
modules, named in their declarations.

| Run | Instance | Shows |
|---|---|---|
| `MCTokens_serial` | one user, two tokens, three requests, Redis failures, logouts of the user one at a time, no key expires | `TypeOK`, `RevokedNeverHonoured`, `VersionsGrow`, and the refinement of `TokenRevocation` |
| `MCTokens_all` | two users, two tokens, two requests, keys expire after one tick, everything interleaved | `Ownership`, `OnlyOwnLogoutBlacklists` |
| `MCTokens_overlap` | one user, three requests, overlapping logouts | a counterexample: the slower logout writes an older version back and tokens of a completed logout work again |
| `MCMembership` | four people, limit 2, two requests; invitations overlap each other, every other request (bulk invitations, status updates, straight registrations and `completeRegistration` included) runs alone; any query and any e-mail may fail | `TypeOK`, `LimitOverrun`, `KeepsAdmin` |
| `MCMembership_admins` | two people, two requests that overlap freely | a counterexample to `LastAdmin`: two removals each count the other's admin |
| `MCTenancy` | two organizations, four rows, two overlapping requests, every header and operation | `OwnUntilCleared`, `CreatesInOwn`, `ScopedRemovalLeavesAdmin` |
| `MCTenancy_overlap` | the same instance | a counterexample to `TouchesOwn`: the response to one request takes the other's tenant, and its next query sees all organizations |
| `MCPermissionCache` | two organizations; a caller who is also a system administrator, and another user with a row in each; two requests, queries with and without their tenant, one writer | `GrantedWasHeld`, `QuietMemberCoherent` |
| `MCAdminSessions` | two users, three sessions, two requests | `RevokedRejected`, `OthersSwept`, `RevokedByRight` |
| `MCPlatform` | fourteen parts, each with two requests (three logins; two instances that start) | see below |
| `MCAccounts` | one user, one provider, one request, nothing fails or expires | a counterexample to `CallbackCompletes`: the service refuses the state the controller has just accepted and deleted |
| `MCLive` | permission cache with one user who may come back, two requests and two writers; storage with one file; the Redis client | `RevocationReaches`, `Converges`, `Reconnects` |

What `MCPlatform` says of its parts:

| Property | Part | In words |
|---|---|---|
| `SignInSound` | accounts | a state parameter is accepted once and an external account leads to one user, unless two requests read before either wrote; those crossings are recorded by the history and nothing else excuses them |
| `GuessingBounded` | guard | wrong passwords before a lock exceed the maximum by at most the logins already past the lock check; comparisons per address by one |
| `OneAdministrator` | setup | setup completes once until SYSTEM_ADMIN is deleted, and a token makes one administrator, though every check is outside the transaction |
| `RightPerson`, `OnlyInviteeActivates` | members, joins | under overlap, a row stays linked to the person it invites and becomes active by that person's request only |
| `RoutesToOwner` | domains | a request of a host is handled for an organization that proved the host, or the default, unless the verification was lost while cached |
| `StartupSound` | boot | whatever starts together or stops half way, base roles are complete and single but for crossings; tables are made in order, and those nobody stopped making lack nothing but the conversion of their status column, which no start achieves |
| `PaidInFull` | billing | what was billed and what the code lets go cover the price of the plan on record, while changes overlap, fail or are repeated and plans change their prices and intervals |
| `NeverReverts`, `DeletedIsGone` | files, buckets | a replaced or deleted content never comes back; after a deletion no cached answer says the file is there, unless a read was under way |
| `OwnRoles` | organizations | members hold roles of their organization or the system, each still there |
| `OkIsRecent` | health | an "ok" rests on a query less than two intervals old, and one quick check runs at a time |
| `ClosedForCause` | redis | the client is closed for good only after an outage the timer or the retries did not outlast, a failed or early health check, or a shutdown |

Several of these properties excuse what the code does not prevent. The excuse is
always a history variable set by the very step that goes wrong (two requests past
the same read, a request that fails between a write and a charge), so a new way to
go wrong is not covered by it.

Why the bounds are enough. Two requests are what the races need (a check and a
write of one, a write of the other between them); a third lets a login or a
validation overlap two logouts. Two tokens give an old and a new one. One user
suffices for revocation because no key is shared between users, which
`MCTokens_all` checks with two. In `MCMembership` two invitations pass the limit
check together one below the limit and carry a row each past it; the third is one
more, to somebody who left or in a batch of two. The constraint `Followed` keeps the
third to histories where nobody but the creator has an account and the creator's row
is active, and the straight registrations and suspended rows to one invitation:
two rows past the limit, and the one a new account adds, are reached with that.

Four rows in two organizations give each two administrators, or one of them a row less
and a new row to create. In `MCPermissionCache` three rows of two users, one of whom is
in both organizations, are what mixing up two keys needs, of two users or of two
organizations; `Settled` starts the run with active admins, and what the second user is
here is one of three. The caller calls in one organization, so that what comes from the
other one comes by a lost tenant. In `MCLive` a row that may come back is what losing
and regaining a membership needs, and two writers let the second undo the first. Three
sessions are a current one and two to sweep, of which one can fail.

In `MCPlatform`, `members` has two invitations, `joins` one. Once two sign-ins of an
identity have crossed, `OneAccountPerIdentity` says no more of the accounts, and what is
said of state parameters does not depend on accounts. The two requests of billing are
two changes of a plan, or a change and another request while every plan is offered and
no administrator has set a status; two requests neither of which changes a plan do not
touch what the other has read. A constraint (`Followed`) keeps TLC from following either
further; the theorems have no such bound. Two state parameters, users and addresses let
two sign-ins share any of them or none. Three logins overlap with a maximum of two, so
that more are past the check than are left. Two organizations compete for one host, with
a row each. Two instances start over two permissions, one of which only one base role
gets: over a migrated database with a licence, or over an empty one without, because
what makes the tables and what initialises the roles touch nothing in common. A state
made for Apple is for Android, with its code verifier and names; one for the others is
for the web. Plans are for nothing by the month or cost 1 once and for all, and either
may become the other: a period that ends and one that does not, an upgrade and a
downgrade. No change begins and no price rises once 1 has been billed or let go
(`MaxSettled`), which covers either. Two uploads are a content and its replacement;
sizes 1, 2 and 3 lie below the quota, between it and the file limit, and above both. Two
organizations with one member each, one role and the system's are what looking a name up
in the wrong organization needs. Time in `Health` is in ticks, two to an interval, with
a timeout as long as the interval. In `MCLive` one file suffices as no key is shared
between files. For the Redis client three retries, one of which fails queued commands,
stand for thirty, there and in `MCPlatform`.

Symmetry is over requests, and in `MCPlatform` over the two states, users,
e-mails and ids of rows, in no part of which an order or a `CHOOSE` tells them
apart. Runs with a liveness property use none.

Fairness: none is assumed, but for `MCLive` and `MCAccounts`. The others are safety
properties: a request may stop for good at any `await`, which is what a crash or a lost
connection does. `MCLive` assumes that a request that has started goes on (queries,
commands and provider calls are answered, if only by an error, and the event loop
starves nobody); that permission keys and storage's cache entries expire (each is stored
with a TTL); and of the Redis client that a lost connection is noticed, retries and the
reconnect timer run out, and a server that is up lets the client connect and become
ready. No fairness is assumed of new requests, of members' keys, of any writer, of the
server's staying up or of the health check's pings. `Reconnects` is for a server that
stays up in the end (`<>[]up`) and gives no answers that make the client drop the
connection, after short outages only, pings that are answered and no
shutdown (`excused`); section 6 says what becomes of the long ones.

`MCAccounts` assumes that the steps of a callback that can be taken are taken.

`CHECK_DEADLOCK FALSE` appears in `MCTokens_overlap` only, where the bound on
versions ends the logouts: the system would go on, the instance has nothing left
to do.

## 5. What is proved

`TokensProofs`, `MembershipProofs`, `TenancyProofs`, `PermissionCacheProofs`,
`AdminSessionsProofs`, `StorageProofs`, `PlatformParts` and `PlatformProofs` hold
the proofs; each theorem is for every value of the constants allowed by the
module's assumption. The theorems that have more hypotheses than that name them,
and the instances TLC checks satisfy them.

* `TypesAndOwnership`: types, the shape of a request at each program counter and
  `Ownership`, together inductive. `RequestsOwn` is the half about owners.
* `BlacklistOwnership`: only the owner's logout blacklists a token.
* `GrowthInvariant`: under `OneHorizon` (logouts of a user do not overlap, its
  version key exists and does not expire within the horizon) the invariant
  `VersionsGrow`. It says that every token's version is at most its owner's
  current one, that dead tokens are strictly behind it and that the versions
  requests have read are current unless a writer is at work. `RevokedNeverHonoured`
  alone is not inductive: it needs to know what a check in flight has read.
* `RevokedStaysRevoked`: `RevokedNeverHonoured` from `VersionsGrow`.
* `TokensRefine`: every step of `Tokens` is a step of `TokenRevocation` or a
  stutter under the mapping in `Tokens` (`valid` are the tokens whose version is
  current).
* `MembershipTypes`: types and request shapes, for every operation, with queries and
  e-mails failing anywhere.
* `OverrunBounded`: `LimitOverrun`, for every operation under any overlap. Rows plus
  the invitees that requests past the limit check may still add (`Claims`: one for
  the step under way, the rest of the batch after it) never exceed what the check
  allows plus the accounts registered straight in (`Budget`); only a check that
  passes adds claims, at most `LongestBatch` of them, and every row made uses one up.
  A bulk invitation has a longest batch because it names at most a hundred people
  (`MaxBatch`), which the assumption says of `Batches`.
* `SerialWithinLimit`: `WithinLimit` where no other request overlaps an invitation and
  there are no bulk invitations, from the same invariant, where then at most one claim
  is left.
* `AdminKept`: where only invitations overlap (`InvitesOverlap`), no step takes the last
  active admin but one of a status update or of a registration completed by number:
  the action property `KeepsAdmin`. The invariant `AdminInv` says what a removal has
  learnt at each of its steps; no two requests are in flight that have to be apart
  (`Apart`), and no row has a number that was not given out (`Numbered`).
* `LastAdminStays`: without those two operations there is then an admin in every state
  (`LastAdmin`), whoever is invited in batches or registers straight in.
* `PersonsKept`: where registrations are not completed by their number,
  `RightPerson` under any overlap. A number is given to one row (`Numbered`), so a
  request that has read one with its user's address names that user's row, or none,
  ever after (`Addressed`).
* `InviteesActivate`: where statuses are not set by hand either,
  `OnlyInviteeActivates`, from the same invariant.
* `TenancyTypes`, `ScopedUntilCleared`, `RowsCreatedInOwn`: `TypeOK`,
  `OwnUntilCleared` and `CreatesInOwn` for any overlap. The last one rests on
  `Captured`: between the decorator and the response the captured organization is
  the header's, whatever has become of the context.
* `SerialTouchesOwn`: with one request at a time (`Serial`) `TouchesOwn` holds;
  the invariant adds that a request past the decorator still has its context.
  Together with the counterexample this locates the flaw in `clear` alone.
* `RemovalLeavesAdmin`: `ScopedRemovalLeavesAdmin` with any overlap. A removal knows
  a row that was there and is not used again, and one that is about to delete a row of
  its own tenant, still in place, has counted more than one admin (`RemovalInv`); a
  context that is lost does not come back within a request.
* `PermissionCacheTypes`: `TypeOK`, with one row of a user in an organization, from
  what a request carries (`Carries`).
* `GrantsWereHeld`, `MembersCoherent`: `GrantedWasHeld` and `QuietMemberCoherent`,
  for queries that keep their tenant or lose it at any time. Inductive only together
  with what each request carries (`Owned`: the permissions it will store are among
  those the row's user has had, here or, for a query astray, in some organization) and
  with `Holding` (`held` covers what the rows have now).
* `AdminSessionsTypes`, `RevokedIsRejected`, `OthersAreSwept`,
  `RevocationsAreByRight`: all four properties of `AdminSessions`. The invariant
  `Sound` says of a request that is still validating: *if* its session is valid
  now it was valid on arrival; and of a sweep: every session it began with is
  invalid, still to do, or the sweep has failed. It survives other requests' steps
  because rows only move `Onward`, never back to valid.
* `StoreNeverReverts`, under `StorageAssumption`: `NeverReverts` for any of the
  four providers and any number of paths, requests and uploads. The invariant says
  which contents are known (`Known`), that two uploads never carry the same
  (`Apart`), and that a metadata update at GitHub holding a sha that is still
  current holds the content that goes with it (`Holds`).
* `StorageTypes`, `StoreDeletes`, under the same assumption: `TypeOK` and
  `DeletedIsGone`. The caches can be spoilt by a request that holds the answer that
  the file is there (`Believes`): once a file is gone, nothing raced its deletion and
  no deletion is on its way to the caches (`Cleans`), neither they nor any request
  believe in it (`Clean`).

The theorems of `PlatformProofs` are about `Platform`, under `PlatformAssumption`.
Their invariant `Inv` says of the part that runs that its own invariant holds. Those
of the files, the buckets and the members come from `StorageProofs` and
`MembershipProofs`, whose instances are first shown to define the same as
`Platform`'s (`FilesSame`, `BucketsSame`, `MembersSame`, `JoinsSame`); those of the
other ten parts are the `Inv` of their modules, proved in `PlatformParts`.

* `PlatformTypes`: `TypeOK`, the types of all parts.
* `RefusesForGood`: what section 6 says of sign-in and of API tokens, for any overlap.
  A callback of the controller that has read a state finds it gone when the service
  reads again (`Stopped`), and no row of an API token, stored or found, has a value
  that was handed out or is still to be drawn (`Withheld`). It proves that the code
  does *not* do what its documentation says, and no run takes it for a property.
* `SignsInOnce`: `SignInSound`. A state still stored was never accepted, and one
  request at a time is between reading and deleting it unless it is `tied`
  (`Unspent`); a sign-in between search and write knows every row of its identity
  unless it was crossed (`Alone`).
* `GuessesAreFew`: `GuessingBounded`, because an account that is not locked has
  failed less often than the maximum (`Unlocked`) and comparisons are counted but
  for one (`Counted`). That the requests are a finite set is used here.
* `SetupHappensOnce`: `OneAdministrator`. Without the row SYSTEM_ADMIN nothing was
  completed since it was last deleted (`Fresh`), a token that has been used is marked
  (`Marked`), and a request past its check with such a token finds the row there or
  is recorded in `reopened` (`Held`). That the role has a unique name is what stops
  the second transaction; no check of the service does.
* `RowsKeepTheirPerson`, `InviteesActivateRows`: `RightPerson` and
  `OnlyInviteeActivates` of both parts of members, where registrations are not
  completed by their number; statuses set by hand are none but INACTIVE.
* `HostsLeadHome`: `RoutesToOwner`. A verified row was proved (`Genuine`), and what a
  cache or a request holds for a host is a rightful owner's, unless the host is
  recorded as stale (`Rightful`).
* `StartsSoundly`: `StartupSound`. What an instance reads after its upserts is every
  permission (`Upserted`); one instance at a time is between looking for a role and
  creating it, unless they crossed (`Once`); whoever makes a table is past the
  statements it already has (`Reached`), and its constraint, which turns others away,
  is followed by its own maker's statements only (`Constrained`).
* `PlansArePaid`: `PaidInFull`, for any prices and any intervals, known to the code or
  not. The price a change is charged against is itself settled, by what was billed, let
  go or is still to be billed first (`Settled`); once charged the plan it will write
  is; and a plan that was read costs more only by what was let go since (`Charged`).
* `ContentsStayGone`, `DeletionsAreSeen`: `NeverReverts` and `DeletedIsGone`, behind
  all four providers.
* `RolesStayOwn`: `OwnRoles`. A request assigning roles holds ids found earlier:
  each was given out (`Spent`), and a found role still there is the organization's or
  the system's (`Holds`), since an id is never given out again; and a member's
  organization is there (`Seated`).
* `OksAreFresh`: `OkIsRecent`. What the caches and the checks on their way hold is
  younger than an interval (`Young`), and whoever runs a quick check holds the flag
  (`OneQuick`).
* `ClosesForCause`: `ClosedForCause`. While nothing excuses the end of the client, no
  quit waits in its queue and the timer is set only on the way to a connection, which
  clears it; that it is cleared on `connect`, not on `ready`, is what the proof uses.

TLC checked every one of these invariants on the instance of `MCPlatform` before it
was proved, and checks the properties there on every run.

Every invariant and action property a passing run checks is stated by a theorem.
Three properties are left to TLC, because they need fairness: `RevocationReaches`,
`Converges` and `Reconnects`. The hypotheses of the other theorems exclude what the
code gets wrong, as TLC shows on instances without them:

* `WithinLimit` fails for overlapping invitations and for a batch, which is what
  `LimitOverrun` measures; `LastAdmin` for overlapping removals
  (`MCMembership_admins`), when a registration is completed by its number and when a
  status is set by hand.
* `RightPerson` and `OnlyInviteeActivates` fail when a registration is completed by its
  number; a status set by hand is the other way a row becomes active.
* `RevokedNeverHonoured` fails for overlapping logouts (`MCTokens_overlap`), and when
  the version key is missing at first or expires.
* `TouchesOwn` fails for overlapping requests (`MCTenancy_overlap`), which costs
  queries their tenant; `GrantedWasHeld` and `QuietMemberCoherent` hold even then, as
  they are stated: they name what such a query may bring along.

## 6. Divergences

Four have a run that reaches them, listed under `findings` in `PROJECT.json`:
tokens revived by overlapping logouts, an organization left without an
administrator, a tenant lost to another request's response, and a sign-in that never
completes. These were read off
the code while modelling it and are visible in the modules, but have no run:

Sign-in and accounts

* `getCurrentTokenVersion` and `incrementTokenVersion` store the version for
  604 800 *milliseconds*, meant as seconds; tokens outlive the key (their lifetime
  in seconds is multiplied by 1000, `auth.service.ts:135`), and version 1 starts
  again.
* The controller's callback consumes the state (`auth.controller.ts:288`) and the
  service asks for it again (`auth.service.ts:361`), so no callback completes
  (`MCAccounts`), though the operation "completes the authentication flow"
  (`auth.controller.ts:236`). `STATE_TTL` of social logins is 600 ms besides.
* A cached admin session never counts as valid, and its copy is stored with
  seconds for milliseconds; a session stored in its last second gets no expiry.
* `users.controller.ts` in `modules/users` is not registered; deleting a user has no
  route. `updatePassword` revokes no tokens. `requestPasswordReset` has no caller.
* `AccessTokenRepository.create` stores a random token of its own and no expiry, so
  what is handed out never validates (`RefusesForGood`), though
  `access-tokens/README.md:11`-`14` promises "Token-based authentication for API
  endpoints" and "Automatic token expiration and validation"; `delete` looks the id up
  as a token value.

Organizations

* `bulkInviteMembers` checks the limit once for the whole batch, and registering
  with an `organizationId` asks for no limit. `getMemberLimit` sees ACTIVE
  subscriptions only.
* A declined invitation cannot be deleted while its activity row refers to it, and
  neither can an organization with one (`onDelete: NoAction`).
* Roles named in an invitation to an address without an account are stored in
  `pending_registrations` and never read.
* `completeRegistration` uses the id of a pending registration as a member's id.
* The registration mail goes out before the member row exists; who registers in
  between never joins.
* A registration that cannot find or update its invitation keeps the account and leaves
  the row pending, and nothing tries again (`users.service.ts:131`-`144`).
* Reads of organizations fail whenever a tenant is set.
* A member query that has lost its tenant caches a row of another organization under
  this one's key: `PermissionGuard` then grants here what the user holds there.
* `verifyUserIsAdmin` and the assignment of roles go by name: an organization's
  own role named like a system role is found together with it.

Subscriptions

* After the period a downgrade is charged and an upgrade is free
  (`billing.service.ts:166`); the provider is told the plan that was on record
  (`135`-`138`).
* `create` inserts an ACTIVE row before it charges. A charge that fails leaves the
  plan, a change whose write fails leaves the charge, and trying again charges again.
* A cancelled subscription keeps its organization from subscribing again
  (`subscription.service.ts:46`) and can still change plans.
* A change of plan charges the days left of the old period at the difference of the
  prices, whatever the intervals, and then gives the period the new plan's: from a
  month to a year at one price costs nothing (`billing.service.ts:156`-`166`,
  `subscription.service.ts:177`-`185`). A price raised under who is on the plan is
  never asked for, and nothing bills a second period. A plan whose interval the code
  does not know is refused after the charge.
* The service writes TRIALING, the administrators' enumeration says TRIAL.

Domains and start-up

* Verifying again with SSL on asks for a second certificate, is refused, and marks
  the domain FAILED. A domain with a certificate cannot be deleted; the refusal is
  swallowed and answered as done.
* Nothing clears the hour-long cache of routes; unknown hosts go to organization 1.
* `ensureDefaultDomainRecord` verifies the platform's own host without proof. The
  workaround table `ssl_certificates` has a column `customDomainId` where the
  schema has `domainId`. A table cut short is never completed. "Convert the text column
  to the enum type" (`prisma.service.ts:155`) never succeeds, because the column's
  default is not cast; the start goes on with a TEXT column.

Storage, Redis and health

* Uploads and metadata updates invalidate no cached metadata or existence, and
  nothing invalidates listings. The quota's usage is always zero. A cached
  `lastModified` is a string where the controller expects a date
  (`storage.controller.ts:260`). GitHub metadata is not kept. Presigned uploads
  ignore the organization's prefix, the quota and the caches.
* `redis.service.ts:274` says "Force reconnect by quitting and creating a new
  connection" and only quits: an outage longer than the timer, or one failed ping,
  ends the client for good. A quit while a retry is due leaves the status at
  "reconnecting". A health check that finds the status "connect" (`238`-`253`: it
  excepts "connecting" and "reconnecting" only) sets a timer that nothing clears any
  more, and which quits the connection when it has long been ready.
* `checkAll` repeats on `TimeoutError` only, which nothing it calls throws; while a
  quick check runs the last answer is given whatever its age; disk and memory
  checks never fail the check.

## 7. What is not modelled

`PROJECT.json` lists every component with its status. Left out: changing and
resetting passwords (nothing the other modules read depends on them), metrics and
monitoring (counters that nothing reads back), e-mail templates and transport, the
cached list of an organization's members (no route reads it), the guard's choice of
the organization whose permissions it checks when several are given, domain health
checks and certificate renewal (called by nothing), administrators' listings,
statistics and audit rows, the exchange of codes and keys with the providers of
social login, request validation and formatting, and static configuration.
`PermissionCache` states its fairness in `FairSpec` for readers; the run that uses
these conditions is `MCLive`.
