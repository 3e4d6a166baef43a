------------------------------ MODULE Domains ------------------------------
(***************************************************************************)
(* Custom domains (src/src/modules/custom-domain): adding, verifying and   *)
(* deleting the rows, and the middleware that turns the host name of a     *)
(* request into an organization through a cache.  Queries, the DNS lookup, *)
(* the certificate authority and the cache are steps of their own.         *)
(*                                                                         *)
(* A row is known by its id, and so is its random verification token.  A   *)
(* found organization is a set of at most one.  Listing, security headers  *)
(* and the host that the program verifies for itself are left out.         *)
(***************************************************************************)
EXTENDS Naturals, FiniteSets

CONSTANTS Hosts, Orgs, Ids, Requests,
          Default,          \* organization 1, taken when a host is not found
          Settings,         \* what features.customDomains.allowSSL may be
          NoId

DomainsAssumption == Hosts # {} /\ Default \in Orgs /\ Settings \subseteq BOOLEAN /\ NoId \notin Ids

VARIABLES allowSSL,  \* of this deployment
          rows,      \* custom_domains: [host, org, status] per id
          certs,     \* rows with a certificate
          txt,       \* DNS: the tokens published at each host
          route,     \* cache: "domain:<host>"
          req,
          proved,    \* history: ids whose token a verification found
          stale      \* history: hosts that lost their verification while it was cached
                     \* or on its way into the cache
vars == <<allowSSL, rows, certs, txt, route, req, proved, stale>>

AnyHost == CHOOSE h \in Hosts : TRUE
Row(h, o, s) == [host |-> h, org |-> o, status |-> s]
Free == Row(AnyHost, Default, "free")
Gone == Row(AnyHost, Default, "gone")
Idle == [op |-> "idle", pc |-> "idle", id |-> NoId, host |-> AnyHost, org |-> {}]

Init ==
  /\ allowSSL \in Settings
  /\ rows = [i \in Ids |-> Free] /\ certs = {}
  /\ txt = [h \in Hosts |-> {}] /\ route = [h \in Hosts |-> {}]
  /\ req = [r \in Requests |-> Idle] /\ proved = {} /\ stale = {}

Exists(i) == rows[i].status \in {"PENDING", "VERIFIED", "FAILED"}
FindById(i) == {j \in {i} : Exists(j)}
FindByDomain(h) == {i \in Ids : Exists(i) /\ rows[i].host = h}
\* findOrganizationIdByDomain; and whatever the row's status.
OwnersUnverified(h) == {rows[i].org : i \in FindByDomain(h)}
Owners(h) == {rows[i].org : i \in {j \in FindByDomain(h) : rows[j].status = "VERIFIED"}}

At(r, op, pc) == req[r].op = op /\ req[r].pc = pc
Become(r, q) == req' = [req EXCEPT ![r] = q]
Goto(r, pc) == Become(r, [req[r] EXCEPT !.pc = pc])
Finish(r) == Become(r, Idle)
Quiet == UNCHANGED <<rows, certs, txt, route, proved, stale>>
\* h is no longer verified: who goes on believing it is?
Believed(h) == route[h] # {} \/ \E r \in Requests : req[r].host = h /\ req[r].org # {}
Withdraw(h) == stale' = IF Owners(h) # {} /\ Believed(h) THEN stale \cup {h} ELSE stale

----------------------------------------------------------------------------
Create(i, h, o) ==   \* the domain is unique
  /\ rows[i] = Free /\ FindByDomain(h) = {}
  /\ rows' = [rows EXCEPT ![i] = Row(h, o, "PENDING")]
AddDomain(i, h, o) == Create(i, h, o) /\ UNCHANGED <<certs, txt, route, req, proved, stale>>
HttpAddDomain(i, h, o) == AddDomain(i, h, o)
Publish(h, i) ==   \* whoever controls the host edits its TXT records
  /\ rows[i] # Free
  /\ txt' = [txt EXCEPT ![h] = IF i \in @ THEN @ \ {i} ELSE @ \cup {i}]
  /\ UNCHANGED <<rows, certs, route, req, proved, stale>>

GetDomain(i) == FindById(i) # {}
DeleteDomain(r, i) ==
  /\ req[r] = Idle /\ GetDomain(i)
  /\ Become(r, [Idle EXCEPT !.op = "delete", !.pc = "delete", !.id = i]) /\ Quiet
HttpDeleteDomain(r, i) == DeleteDomain(r, i)
DeleteRow(r) ==   \* a certificate holds on to its row, and nobody is told
  /\ At(r, "delete", "delete")
  /\ LET i == req[r].id IN
     IF Exists(i) /\ i \notin certs
     THEN /\ rows' = [rows EXCEPT ![i] = Gone]
          /\ IF rows[i].status = "VERIFIED" THEN Withdraw(rows[i].host) ELSE UNCHANGED stale
     ELSE UNCHANGED <<rows, stale>>
  /\ Finish(r) /\ UNCHANGED <<certs, txt, route, proved>>

----------------------------------------------------------------------------
(* verifyDomain *)
VerifyDomain(r, i) ==
  /\ req[r] = Idle /\ FindById(i) # {}
  /\ Become(r, [Idle EXCEPT !.op = "verify", !.pc = "dns", !.id = i, !.host = rows[i].host])
  /\ Quiet
HttpVerifyDomain(r, i) == VerifyDomain(r, i)
\* verifyDNSRecord.
HasToken(h, i) == i \in txt[h]
ResolveDns(r) ==   \* a lookup that fails finds nothing
  /\ At(r, "verify", "dns")
  /\ \/ /\ HasToken(req[r].host, req[r].id)
        /\ Goto(r, IF allowSSL THEN "certificate" ELSE "verified")
     \/ Goto(r, "failed")
  /\ proved' = IF req[r].id \in txt[req[r].host] THEN proved \cup {req[r].id} ELSE proved
  /\ UNCHANGED <<rows, certs, txt, route, stale>>
ProvisionCertificate(r) ==
  /\ At(r, "verify", "certificate")
  /\ (Goto(r, "verified") \/ Goto(r, "failed")) /\ Quiet
\* updateStatus by the id that was asked for.
RowOf(r) == FindById(req[r].id)
UpdateStatus(S, s) ==
  rows' = [i \in Ids |-> IF i \in S THEN [rows[i] EXCEPT !.status = s] ELSE rows[i]]
WriteVerified(r) ==   \* a second certificate for the row is refused, and the row then fails
  /\ At(r, "verify", "verified")
  /\ IF RowOf(r) = {} \/ (allowSSL /\ RowOf(r) \cap certs # {})
     THEN Goto(r, "failed") /\ UNCHANGED <<rows, certs>>
     ELSE /\ UpdateStatus(RowOf(r), "VERIFIED")
          /\ certs' = IF allowSSL THEN certs \cup RowOf(r) ELSE certs
          /\ Finish(r)
  /\ UNCHANGED <<txt, route, proved, stale>>
WriteFailed(r) ==
  /\ At(r, "verify", "failed")
  /\ LET i == req[r].id IN
     /\ UpdateStatus(FindById(i), "FAILED")
     /\ IF rows[i].status = "VERIFIED" THEN Withdraw(rows[i].host) ELSE UNCHANGED stale
  /\ Finish(r) /\ UNCHANGED <<certs, txt, route, proved>>

----------------------------------------------------------------------------
(* DomainRoutingMiddleware.use *)
\* Health checks, addresses and hosts of the platform take organization 1 at once.
Bypass(r, h) ==
  /\ req[r] = Idle
  /\ Become(r, [Idle EXCEPT !.op = "route", !.host = h, !.pc = "next"]) /\ Quiet
Use(r, h) ==
  /\ req[r] = Idle
  /\ Become(r, [Idle EXCEPT !.op = "route", !.host = h,
                            !.pc = IF route[h] # {} THEN "next" ELSE "find", !.org = route[h]])
  /\ Quiet
FindOrganization(r) ==   \* a failing lookup means the default organization
  /\ At(r, "route", "find")
  /\ LET found == Owners(req[r].host) IN
     \/ Become(r, [req[r] EXCEPT !.org = found, !.pc = IF found # {} THEN "cache" ELSE "next"])
     \/ Goto(r, "next")
  /\ Quiet
CacheOrganization(r) ==
  /\ At(r, "route", "cache")
  /\ route' = [route EXCEPT ![req[r].host] = req[r].org]
  /\ Goto(r, "next") /\ UNCHANGED <<rows, certs, txt, proved, stale>>
Organization(r) == IF req[r].org = {} THEN {Default} ELSE req[r].org
Handle(r) == At(r, "route", "next") /\ Finish(r) /\ Quiet
ExpireRoute(h) ==
  /\ route[h] # {} /\ route' = [route EXCEPT ![h] = {}]
  /\ stale' = IF \E r \in Requests : req[r].host = h /\ req[r].org # {} THEN stale ELSE stale \ {h}
  /\ UNCHANGED <<rows, certs, txt, req, proved>>

Fail(r) == req[r] # Idle /\ req[r].op # "route" /\ Finish(r) /\ Quiet

Step(r) ==
  \/ DeleteRow(r) \/ ResolveDns(r) \/ ProvisionCertificate(r) \/ WriteVerified(r) \/ WriteFailed(r)
  \/ FindOrganization(r) \/ CacheOrganization(r) \/ Handle(r) \/ Fail(r)
Next ==
  /\ \/ \E r \in Requests : Step(r) \/ (\E i \in Ids : HttpDeleteDomain(r, i) \/ HttpVerifyDomain(r, i))
                                    \/ \E h \in Hosts : Use(r, h) \/ Bypass(r, h)
     \/ \E i \in Ids, h \in Hosts : Publish(h, i) \/ \E o \in Orgs : HttpAddDomain(i, h, o)
     \/ \E h \in Hosts : ExpireRoute(h)
  /\ UNCHANGED allowSSL
Spec == Init /\ [][Next]_vars

----------------------------------------------------------------------------
Rows == [host: Hosts, org: Orgs, status: {"free", "gone", "PENDING", "VERIFIED", "FAILED"}]
Records == [op: {"idle", "delete", "verify", "route"},
            pc: {"idle", "delete", "dns", "certificate", "verified", "failed",
                 "find", "cache", "next"},
            id: Ids \cup {NoId}, host: Hosts, org: SUBSET Orgs]
TypeOK ==
  /\ allowSSL \in Settings
  /\ rows \in [Ids -> Rows] /\ certs \subseteq Ids
  /\ txt \in [Hosts -> SUBSET Ids] /\ route \in [Hosts -> SUBSET Orgs]
  /\ req \in [Requests -> Records]
  /\ proved \subseteq Ids /\ stale \subseteq Hosts

\* A request for a host is handled for the default organization or for one that has
\* it verified, and proved it by its own token in the DNS, also when the domain changed
\* hands while a verification was on its way; unless the verification went away while
\* it was cached or about to be (domain-routing.middleware.ts 110-143: nothing clears
\* the cache; custom-domain.service.ts 120-183: the update goes by id).
RightfulOwners(h) ==
  {rows[i].org : i \in {j \in FindByDomain(h) \cap proved : rows[j].status = "VERIFIED"}}
RoutesToOwner ==
  \A r \in Requests : At(r, "route", "next") /\ req[r].host \notin stale
                        => Organization(r) \subseteq RightfulOwners(req[r].host) \cup {Default}

\* Why: verified rows were proved; what is cached or on its way is rightful; and who is
\* about to verify a row found its token.
Rightful(h, S) == h \in stale \/ S \subseteq RightfulOwners(h)
Genuine == \A i \in Ids : rows[i].status = "VERIFIED" => i \in proved
Backed(q) ==
  q.op \in {"delete", "verify"} =>
    q.id \in Ids /\ (q.op = "verify" /\ q.pc \in {"certificate", "verified"} => q.id \in proved)
Inv == /\ TypeOK /\ Genuine
       /\ \A h \in Hosts : Rightful(h, route[h])
       /\ \A r \in Requests : Backed(req[r]) /\ Rightful(req[r].host, req[r].org)
=============================================================================
