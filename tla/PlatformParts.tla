---------------------------- MODULE PlatformParts ----------------------------
(***************************************************************************)
(* Proofs about the parts of Platform that have no proof module of their   *)
(* own, one after the other: that the invariant Inv of each, which its     *)
(* module ends with and says the reason for, holds at first and is kept by *)
(* every step, and that it implies the properties of the part.             *)
(* PlatformProofs puts them together.  A lemma has the name of its         *)
(* component in front.                                                     *)
(***************************************************************************)
EXTENDS Platform, Sequences, FiniteSetTheorems, TLAPS

(***************************************************************************)
(* Social login (module Accounts).                                         *)
(***************************************************************************)

LEMMA AccountsIdleRecord == A!Idle \in A!Records /\ A!Idle.pc = "idle" /\ A!Idle.via = "none"
PROOF BY DEF A!Idle, A!Records

\* A step replaces the record of one request by another.
LEMMA AccountsOneRequest ==
  ASSUME A!TypeOK, NEW r \in Requests, NEW q \in A!Records, A!Become(r, q)
  PROVE  /\ reqA' \in [Requests -> A!Records] /\ reqA'[r] = q
         /\ \A o \in Requests \ {r} : reqA'[o] = reqA[o]
PROOF BY DEF A!TypeOK, A!Become, A!Records

\* A step after which the request is not about to delete a state, and no state is new.
LEMMA AccountsStatesKept ==
  ASSUME A!TypeOK, A!Unspent, \A o \in Requests : A!Stopped(reqA[o]),
         UNCHANGED <<spent, tied>>, live' \subseteq live,
         NEW r \in Requests, NEW q \in A!Records, A!Become(r, q),
         q.pc \notin {"del", "delAgain"}, A!Stopped(q)'
  PROVE  A!Unspent' /\ \A o \in Requests : A!Stopped(reqA[o])'
<1>1. reqA'[r] = q /\ \A o \in Requests \ {r} : reqA'[o] = reqA[o] BY AccountsOneRequest
<1>2. \A s \in States : A!Reading(s)' \subseteq A!Reading(s) BY <1>1 DEF A!Reading
<1>3. A!Unspent' BY <1>2 DEF A!Unspent
<1>4. ASSUME NEW o \in Requests PROVE A!Stopped(reqA[o])'
  <2>1. PICK z : z = reqA'[o] /\ A!Stopped(z)'
    <3>1. CASE o = r BY <1>1, <3>1
    <3>2. CASE o # r
      <4>1. PICK z : z = reqA[o] /\ A!Stopped(z) OBVIOUS
      <4> QED BY <1>1, <3>2, <4>1 DEF A!Stopped
    <3> QED BY <3>1, <3>2
  <2> QED BY <2>1 DEF A!Stopped
<1> QED BY <1>3, <1>4

\* A step that leaves the rows, after which the request does not search.
LEMMA AccountsRowsKept ==
  ASSUME A!TypeOK, A!Gone, A!Alone, UNCHANGED <<users, crossedA>>,
         NEW r \in Requests, NEW q \in A!Records, A!Become(r, q),
         q.pc \notin {"byEmail", "update", "create"}
  PROVE  A!Gone' /\ A!Alone'
<1>1. reqA'[r] = q /\ \A o \in Requests \ {r} : reqA'[o] = reqA[o] BY AccountsOneRequest
<1>2. \A i : A!Searching(i)' \subseteq A!Searching(i) /\ A!WithIdentity(i)' = A!WithIdentity(i)
  BY <1>1 DEF A!Searching, A!WithIdentity, A!Exists
<1>3. \A z : A!Known(z) => A!Known(z)' BY <1>2 DEF A!Known
<1>4. ASSUME ~crossedA, NEW o \in Requests PROVE A!Known(reqA[o])'
  <2>1. A!Known(q)' BY DEF A!Known
  <2>2. PICK z : z = reqA'[o] /\ A!Known(z)'
    BY <1>1, <1>3, <1>4, <2>1 DEF A!Alone
  <2> QED BY <2>2 DEF A!Known, A!WithIdentity, A!Exists
<1>5. A!Alone' BY <1>2, <1>4 DEF A!Alone
<1>6. A!Gone' BY DEF A!Gone, A!Exists
<1> QED BY <1>5, <1>6

\* A step of one request that leaves what is stored, but for states and verifiers that go.
LEMMA AccountsQuietStep ==
  ASSUME A!Inv, UNCHANGED <<configured, about, users, spent, tied, crossedA>>,
         live' \subseteq live, verifier' \subseteq verifier,
         NEW r \in Requests, NEW q \in A!Records, A!Become(r, q), A!Stopped(q), A!Backed(q),
         q.pc \notin {"del", "delAgain", "byEmail", "update", "create"}
  PROVE  A!Inv'
<1>1. A!TypeOK BY DEF A!Inv
<1>2. A!TypeOK' BY <1>1, AccountsOneRequest DEF A!TypeOK
<1>3. A!Stopped(q)' BY DEF A!Stopped
<1>4. A!Unspent' /\ \A o \in Requests : A!Stopped(reqA[o])'
  BY <1>1, <1>3, AccountsStatesKept DEF A!Inv
<1>5. A!Gone' /\ A!Alone' BY <1>1, AccountsRowsKept DEF A!Inv
<1>6. \A o \in Requests : A!Backed(reqA[o])'
  <2>1. \A o \in Requests : A!Backed(reqA'[o]) BY <1>1, AccountsOneRequest DEF A!Inv
  <2> QED BY <2>1 DEF A!Backed
<1> QED BY <1>2, <1>4, <1>5, <1>6 DEF A!Inv

-----------------------------------------------------------------------------
\* Callbacks, the provider's answers, and failures.
LEMMA AccountsArriveSafe ==
  ASSUME A!Inv, UNCHANGED configured, NEW r \in Requests, A!Arrive(r) PROVE A!Inv'
<1>1. UNCHANGED <<live, about, verifier, users, spent, tied, crossedA>> /\ reqA[r] = A!Idle
  BY DEF A!Arrive, A!HandleProviderCallback, A!HandleAppleAndroidCallback, A!HandleSocialCallback,
     A!Callback
<1>2. PICK via \in {"http", "service"}, s \in States, p \in A!Providers, f \in {"web", "android"},
           pc \in {"get", "getAgain"} :
        A!Callback(r, via, s, p, f, pc) /\ (via = "http" => pc = "get")
  BY DEF A!Arrive, A!HandleProviderCallback, A!HandleAppleAndroidCallback, A!HandleSocialCallback
<1>3. PICK q : q = [A!Idle EXCEPT !.pc = pc, !.via = via, !.state = s, !.provider = p,
                                  !.platform = f]
  OBVIOUS
<1>4. q \in A!Records /\ q.pc = pc /\ q.via = via /\ q.state = s
  BY <1>3, AccountsIdleRecord DEF A!Records
<1>5. A!Stopped(q) /\ A!Backed(q) BY <1>2, <1>4 DEF A!Stopped, A!Backed
<1>6. A!Become(r, q) BY <1>2, <1>3 DEF A!Callback
<1> QED BY <1>1, <1>4, <1>5, <1>6, AccountsQuietStep

LEMMA AccountsProfileRecord ==
  ASSUME A!TypeOK, NEW r \in Requests, reqA[r].via # "http", NEW next \in {"byId", "names"},
         A!Profile(r, next)
  PROVE  \E q \in A!Records : A!Become(r, q) /\ A!Stopped(q) /\ A!Backed(q)
         /\ q.pc \in {"byId", "names"}
<1>1. PICK i \in Identities, e \in Emails :
        A!Become(r, [A!Idle EXCEPT !.pc = next, !.via = reqA[r].via, !.who = i, !.email = e])
  BY DEF A!Profile
<1>2. PICK q : q = [A!Idle EXCEPT !.pc = next, !.via = reqA[r].via, !.who = i, !.email = e] OBVIOUS
<1>3. reqA[r].via \in {"none", "http", "service"} BY DEF A!TypeOK, A!Records
<1>4. q \in A!Records /\ q.pc = next /\ q.via = reqA[r].via /\ q.who = i /\ q.email = e
  BY <1>2, <1>3, AccountsIdleRecord DEF A!Records
<1>5. A!Stopped(q) /\ A!Backed(q) BY <1>4 DEF A!Stopped, A!Backed
<1> QED BY <1>1, <1>2, <1>4, <1>5

LEMMA AccountsProviderSafe ==
  ASSUME A!Inv, UNCHANGED configured, NEW r \in Requests,
         A!GoogleCallback(r) \/ A!GithubCallback(r) \/ A!MicrosoftCallback(r)
           \/ A!GetStoredCodeVerifier(r) \/ A!AppleCallback(r) \/ A!AppleUserData(r) \/ A!Fail(r)
  PROVE  A!Inv'
<1>1. /\ A!TypeOK /\ reqA[r] \in A!Records /\ A!Stopped(reqA[r]) /\ A!Backed(reqA[r])
      /\ UNCHANGED <<live, about, users, spent, tied, crossedA>> /\ verifier' \subseteq verifier
  BY DEF A!Inv, A!TypeOK, A!GoogleCallback, A!GithubCallback, A!MicrosoftCallback,
     A!GetStoredCodeVerifier,
     A!AppleCallback, A!AppleUserData, A!Fail, A!redis, A!past
<1>2. SUFFICES \E q \in A!Records : /\ A!Become(r, q) /\ A!Stopped(q) /\ A!Backed(q)
                                    /\ q.pc \in {"idle", "apple", "names", "byId"}
  BY <1>1, <1>2, AccountsQuietStep
<1>3. CASE A!Finish(r) BY <1>3, AccountsIdleRecord DEF A!Finish, A!Stopped, A!Backed
<1>4. CASE A!GoogleCallback(r) \/ A!GithubCallback(r) \/ A!MicrosoftCallback(r)
             \/ A!AppleCallback(r)
  <2>1. reqA[r].via # "http"
    BY <1>1, <1>4 DEF A!GoogleCallback, A!GithubCallback, A!MicrosoftCallback, A!AppleCallback,
       A!Stopped
  <2>2. \E next \in {"byId", "names"} : A!Profile(r, next)
    BY <1>4 DEF A!GoogleCallback, A!GithubCallback, A!MicrosoftCallback, A!AppleCallback
  <2> QED BY <1>1, <2>1, <2>2, AccountsProfileRecord
<1>5. CASE A!GetStoredCodeVerifier(r) /\ A!Goto(r, "apple")
  <2>1. PICK q : q = [reqA[r] EXCEPT !.pc = "apple"] OBVIOUS
  <2>2. q \in A!Records /\ q.pc = "apple" /\ q.via = reqA[r].via BY <1>1, <2>1 DEF A!Records
  <2>3. A!Stopped(q) /\ A!Backed(q)
    BY <1>1, <1>5, <2>2 DEF A!GetStoredCodeVerifier, A!Stopped, A!Backed
  <2> QED BY <1>5, <2>1, <2>2, <2>3 DEF A!Goto
<1>6. CASE A!AppleUserData(r)
  <2>1. PICK q : q = [reqA[r] EXCEPT !.pc = "byId"] OBVIOUS
  <2>2. q \in A!Records /\ q.pc = "byId" /\ q.via = reqA[r].via /\ q.who = reqA[r].who
        /\ q.email = reqA[r].email
    BY <1>1, <2>1 DEF A!Records
  <2>3. A!Stopped(q) /\ A!Backed(q) BY <1>1, <1>6, <2>2 DEF A!AppleUserData, A!Stopped, A!Backed
  <2> QED BY <1>6, <2>1, <2>2, <2>3 DEF A!AppleUserData, A!Goto
<1> QED BY <1>3, <1>4, <1>5, <1>6 DEF A!GetStoredCodeVerifier, A!Fail

-----------------------------------------------------------------------------
\* A state is read only while it is stored; two that read it tie.
LEMMA AccountsGetStateSafe ==
  ASSUME A!Inv, UNCHANGED configured, NEW r \in Requests, A!GetState(r) PROVE A!Inv'
<1>1. /\ A!TypeOK /\ reqA[r] \in A!Records /\ A!Stopped(reqA[r]) /\ A!Backed(reqA[r])
      /\ reqA[r].pc \in {"get", "getAgain"}
      /\ UNCHANGED <<live, about, verifier, users, spent, crossedA>>
  BY DEF A!Inv, A!TypeOK, A!GetState
<1>2. PICK s \in States : s = reqA[r].state BY <1>1 DEF A!Backed
<1>3. CASE s \in live /\ A!Matches(r)
  <2>1. PICK pc \in {"del", "delAgain"} : pc = IF reqA[r].pc = "get" THEN "del" ELSE "delAgain"
    OBVIOUS
  <2>2. A!Goto(r, pc) /\ tied' = IF A!Reading(s) # {} THEN tied \cup {s} ELSE tied
    BY <1>2, <1>3, <2>1 DEF A!GetState
  <2>3. PICK q : q = [reqA[r] EXCEPT !.pc = pc] OBVIOUS
  <2>4. q \in A!Records /\ q.pc = pc /\ q.via = reqA[r].via /\ q.state = s
    BY <1>1, <1>2, <2>3 DEF A!Records
  <2>5. reqA' \in [Requests -> A!Records] /\ reqA'[r] = q
        /\ \A o \in Requests \ {r} : reqA'[o] = reqA[o]
    BY <1>1, <2>2, <2>3, <2>4, AccountsOneRequest DEF A!Goto
  <2>6. A!TypeOK' BY <1>1, <1>2, <2>2, <2>5 DEF A!TypeOK
  <2>7. \A x \in States : A!Reading(x)' = IF x = s THEN A!Reading(x) \cup {r} ELSE A!Reading(x)
    BY <1>1, <2>4, <2>5 DEF A!Reading
  <2>8. A!Unspent'
    <3> SUFFICES ASSUME NEW x \in States \ tied'
                 PROVE  /\ \A o, p \in A!Reading(x)' : o = p
                        /\ spent[x] <= 1 /\ (x \in live \/ A!Reading(x)' # {} => spent[x] = 0)
      BY <1>1 DEF A!Unspent
    <3>1. x \notin tied BY <2>2
    <3>2. CASE x = s
      <4>1. A!Reading(s) = {} BY <2>2, <3>2
      <4> QED BY <1>3, <2>7, <3>1, <3>2, <4>1 DEF A!Inv, A!Unspent
    <3>3. CASE x # s BY <2>7, <3>1, <3>3 DEF A!Inv, A!Unspent
    <3> QED BY <3>2, <3>3
  <2>9. A!Stopped(q) BY <1>1, <1>2, <1>3, <2>1, <2>4 DEF A!Stopped
  <2>10. \A o \in Requests : A!Stopped(reqA[o])'
    <3>1. \A o \in Requests : A!Stopped(reqA'[o]) BY <2>5, <2>9 DEF A!Inv
    <3> QED BY <1>1, <3>1 DEF A!Stopped
  <2>11. A!Backed(q) BY <2>4 DEF A!Backed
  <2>12. \A o \in Requests : A!Backed(reqA[o])'
    <3>1. \A o \in Requests : A!Backed(reqA'[o]) BY <2>5, <2>11 DEF A!Inv
    <3> QED BY <3>1 DEF A!Backed
  <2>13. A!Gone' /\ A!Alone' BY <1>1, <2>2, <2>3, <2>4, AccountsRowsKept DEF A!Inv, A!Goto
  <2> QED BY <2>6, <2>8, <2>10, <2>12, <2>13 DEF A!Inv
<1>4. CASE ~(s \in live /\ A!Matches(r))
  <2>1. A!Finish(r) /\ UNCHANGED tied BY <1>2, <1>4 DEF A!GetState
  <2>2. A!Stopped(A!Idle) /\ A!Backed(A!Idle) BY AccountsIdleRecord DEF A!Stopped, A!Backed
  <2> QED BY <1>1, <2>1, <2>2, AccountsIdleRecord, AccountsQuietStep DEF A!Finish, A!Inv
<1> QED BY <1>3, <1>4

\* The state is deleted, and so accepted once.
LEMMA AccountsDelStateSafe ==
  ASSUME A!Inv, UNCHANGED configured, NEW r \in Requests, A!DelState(r) PROVE A!Inv'
<1>1. /\ A!TypeOK /\ reqA[r] \in A!Records /\ A!Stopped(reqA[r]) /\ A!Backed(reqA[r])
      /\ reqA[r].pc \in {"del", "delAgain"}
      /\ UNCHANGED <<about, verifier, users, tied, crossedA>>
  BY DEF A!Inv, A!TypeOK, A!DelState
<1>2. PICK s \in States : s = reqA[r].state BY <1>1 DEF A!Backed
<1>3. live' = live \ {s} /\ spent' = [spent EXCEPT ![s] = IF @ = 0 THEN 1 ELSE 2]
  BY <1>2 DEF A!DelState, A!Consumed
<1>4. PICK q \in A!Records : /\ A!Become(r, q)
                             /\ \/ reqA[r].pc = "del" /\ q.pc = "getAgain" /\ q.via = reqA[r].via
                                   /\ q.state = s
                                \/ reqA[r].pc = "delAgain" /\ q.pc = "exchange"
                                   /\ q.via = reqA[r].via
  <2>1. CASE reqA[r].pc = "del"
    <3>1. about[s].platform \in {"web", "android"}
      BY <1>1, PlatformAssumption DEF A!TypeOK, A!AccountsAssumption
    <3>2. PICK f \in {"web", "android"} :
            f = IF reqA[r].platform = "android" THEN reqA[r].platform ELSE about[s].platform
      BY <3>1
    <3>3. A!Become(r, [reqA[r] EXCEPT !.pc = "getAgain", !.platform = f])
      BY <1>2, <2>1, <3>2 DEF A!DelState
    <3>4. PICK q : q = [reqA[r] EXCEPT !.pc = "getAgain", !.platform = f] OBVIOUS
    <3>5. q \in A!Records /\ q.pc = "getAgain" /\ q.via = reqA[r].via /\ q.state = s
      BY <1>1, <1>2, <3>4 DEF A!Records
    <3> QED BY <2>1, <3>3, <3>4, <3>5
  <2>2. CASE reqA[r].pc = "delAgain"
    <3>1. PICK q : q = [reqA[r] EXCEPT !.pc = "exchange"] OBVIOUS
    <3>2. q \in A!Records /\ q.pc = "exchange" /\ q.via = reqA[r].via BY <1>1, <3>1 DEF A!Records
    <3> QED BY <2>2, <3>1, <3>2 DEF A!DelState, A!Goto
  <2> QED BY <1>1, <2>1, <2>2
<1>5. reqA' \in [Requests -> A!Records] /\ reqA'[r] = q
      /\ \A o \in Requests \ {r} : reqA'[o] = reqA[o]
  BY <1>1, <1>4, AccountsOneRequest
<1>6. spent' \in [States -> 0..2] /\ spent'[s] = (IF spent[s] = 0 THEN 1 ELSE 2)
      /\ \A x \in States \ {s} : spent'[x] = spent[x]
  BY <1>1, <1>3 DEF A!TypeOK
<1>7. A!TypeOK' BY <1>1, <1>3, <1>5, <1>6 DEF A!TypeOK
<1>8. \A x \in States : A!Reading(x)' = A!Reading(x) \ {r} BY <1>4, <1>5 DEF A!Reading
<1>9. r \in A!Reading(s) BY <1>1, <1>2 DEF A!Reading
<1>10. A!Unspent'
  <2> SUFFICES ASSUME NEW x \in States \ tied
               PROVE  /\ \A o, p \in A!Reading(x)' : o = p
                      /\ spent'[x] <= 1 /\ (x \in live' \/ A!Reading(x)' # {} => spent'[x] = 0)
    BY <1>1 DEF A!Unspent
  <2>1. CASE x = s
    <3>1. A!Reading(s) = {r} /\ spent[s] = 0 BY <1>9, <2>1 DEF A!Inv, A!Unspent
    <3> QED BY <1>3, <1>6, <1>8, <2>1, <3>1
  <2>2. CASE x # s BY <1>3, <1>6, <1>8, <2>2 DEF A!Inv, A!Unspent
  <2> QED BY <2>1, <2>2
<1>11. A!Stopped(q)' BY <1>1, <1>3, <1>4 DEF A!Stopped
<1>12. ASSUME NEW o \in Requests PROVE A!Stopped(reqA[o])' /\ A!Backed(reqA[o])'
  <2>1. A!Backed(q) BY <1>2, <1>4 DEF A!Backed
  <2>2. PICK z : z = reqA'[o] /\ A!Stopped(z)' /\ A!Backed(z)
    <3>1. CASE o = r BY <1>5, <1>11, <2>1, <3>1
    <3>2. CASE o # r
      <4>1. PICK z : z = reqA[o] /\ A!Stopped(z) /\ A!Backed(z) BY DEF A!Inv
      <4> QED BY <1>3, <1>5, <3>2, <4>1 DEF A!Stopped
    <3> QED BY <3>1, <3>2
  <2> QED BY <2>2 DEF A!Stopped, A!Backed
<1>13. A!Gone' /\ A!Alone' BY <1>1, <1>4, AccountsRowsKept DEF A!Inv
<1> QED BY <1>7, <1>10, <1>12, <1>13 DEF A!Inv

-----------------------------------------------------------------------------
\* The search: the first finds that another searches, or nobody does.
LEMMA AccountsSearchStep ==
  ASSUME A!Inv, UNCHANGED <<configured, live, about, verifier, users, spent, tied>>,
         crossedA' \in BOOLEAN, crossedA => crossedA',
         NEW r \in Requests, NEW q \in A!Records, A!Become(r, q), A!Stopped(q), A!Backed(q),
         q.pc \in {"byEmail", "update", "create"}, crossedA' \/ A!Known(q),
         crossedA' \/ A!Searching(q.who) \subseteq {r}
  PROVE  A!Inv'
<1>1. A!TypeOK BY DEF A!Inv
<1>2. reqA' \in [Requests -> A!Records] /\ reqA'[r] = q
        /\ \A o \in Requests \ {r} : reqA'[o] = reqA[o]
  BY <1>1, AccountsOneRequest
<1>3. A!TypeOK' BY <1>1, <1>2 DEF A!TypeOK
<1>4. A!Stopped(q)' BY DEF A!Stopped
<1>5. A!Unspent' /\ \A o \in Requests : A!Stopped(reqA[o])'
  BY <1>1, <1>4, AccountsStatesKept DEF A!Inv
<1>6. \A o \in Requests : A!Backed(reqA[o])'
  <2>1. \A o \in Requests : A!Backed(reqA'[o]) BY <1>2 DEF A!Inv
  <2> QED BY <2>1 DEF A!Backed
<1>7. A!Gone' BY DEF A!Inv, A!Gone, A!Exists
<1>8. ASSUME ~crossedA' PROVE A!Alone'
  <2>1. ~crossedA BY <1>8
  <2>2. \A i : A!WithIdentity(i)' = A!WithIdentity(i) BY DEF A!WithIdentity, A!Exists
  <2>3. \A i : i # q.who => A!Searching(i)' \subseteq A!Searching(i) BY <1>2 DEF A!Searching
  <2>4. A!Searching(q.who)' \subseteq {r} BY <1>2, <1>8 DEF A!Searching
  <2>5. \A i \in Identities : \A s, o \in A!Searching(i)' : s = o
    BY <2>1, <2>3, <2>4 DEF A!Inv, A!Alone
  <2>6. \A z : A!Known(z) => A!Known(z)' BY <2>2 DEF A!Known
  <2>7. ASSUME NEW o \in Requests PROVE A!Known(reqA[o])'
    <3>1. PICK z : z = reqA'[o] /\ A!Known(z)' BY <1>2, <1>8, <2>1, <2>6 DEF A!Inv, A!Alone
    <3> QED BY <3>1 DEF A!Known, A!WithIdentity, A!Exists
  <2> QED BY <2>1, <2>2, <2>5, <2>7 DEF A!Inv, A!Alone
<1>9. crossedA' => A!Alone' BY DEF A!Alone
<1> QED BY <1>3, <1>5, <1>6, <1>7, <1>8, <1>9 DEF A!Inv

LEMMA AccountsFindByIdSafe ==
  ASSUME A!Inv, UNCHANGED configured, NEW r \in Requests, A!FindById(r) PROVE A!Inv'
<1>1. /\ A!TypeOK /\ reqA[r] \in A!Records /\ A!Stopped(reqA[r]) /\ A!Backed(reqA[r])
         /\ reqA[r].pc = "byId"
      /\ UNCHANGED <<live, about, verifier, users, spent, tied>>
  BY DEF A!Inv, A!TypeOK, A!FindById, A!redis
<1>2. PICK i \in Identities : i = reqA[r].who BY <1>1 DEF A!Backed
<1>3. crossedA' = (crossedA \/ A!Searching(i) # {}) BY <1>2 DEF A!FindById
<1>4. crossedA' \in BOOLEAN /\ (crossedA => crossedA') BY <1>3
<1>5. crossedA' \/ A!Searching(i) \subseteq {r} BY <1>3
<1>6. PICK q \in A!Records : /\ A!Become(r, q) /\ q.via = reqA[r].via /\ q.who = i
                             /\ \/ /\ q.pc = "byEmail" /\ q.email = reqA[r].email
                                   /\ A!WithIdentity(i) = {}
                                \/ q.pc = "update" /\ q.user \in A!WithIdentity(i)
  <2>1. CASE A!WithIdentity(i) = {}
    <3>1. PICK q : q = [reqA[r] EXCEPT !.pc = "byEmail"] OBVIOUS
    <3>2. q \in A!Records /\ q.pc = "byEmail" /\ q.via = reqA[r].via /\ q.who = i
          /\ q.email = reqA[r].email
      BY <1>1, <1>2, <3>1 DEF A!Records
    <3> QED BY <1>2, <2>1, <3>1, <3>2 DEF A!FindById, A!Goto
  <2>2. CASE A!WithIdentity(i) # {}
    <3>1. PICK u \in A!WithIdentity(i) :
            A!Become(r, [reqA[r] EXCEPT !.pc = "update", !.user = u, !.email = NoEmail])
      BY <1>2, <2>2 DEF A!FindById
    <3>2. u \in Users BY DEF A!WithIdentity
    <3>3. PICK q : q = [reqA[r] EXCEPT !.pc = "update", !.user = u, !.email = NoEmail] OBVIOUS
    <3>4. q \in A!Records /\ q.pc = "update" /\ q.via = reqA[r].via /\ q.who = i /\ q.user = u
      BY <1>1, <1>2, <3>2, <3>3 DEF A!Records
    <3> QED BY <3>1, <3>3, <3>4
  <2> QED BY <2>1, <2>2
<1>7. A!Stopped(q) /\ A!Backed(q) BY <1>1, <1>6 DEF A!Stopped, A!Backed, A!WithIdentity
<1>8. crossedA' \/ A!Known(q)
  <2>1. CASE ~crossedA
    <3>1. \A u, v \in A!WithIdentity(i) : u = v BY <2>1 DEF A!Inv, A!Alone
    <3> QED BY <1>6, <3>1 DEF A!Known
  <2> QED BY <1>4, <2>1
<1> QED BY <1>1, <1>4, <1>5, <1>6, <1>7, <1>8, AccountsSearchStep

LEMMA AccountsFindByEmailSafe ==
  ASSUME A!Inv, UNCHANGED configured, NEW r \in Requests, A!FindByEmail(r) PROVE A!Inv'
<1>1. /\ A!TypeOK /\ reqA[r] \in A!Records /\ A!Stopped(reqA[r]) /\ A!Backed(reqA[r])
      /\ reqA[r].pc = "byEmail"
      /\ UNCHANGED <<live, about, verifier, users, spent, tied, crossedA>>
  BY DEF A!Inv, A!TypeOK, A!FindByEmail, A!redis, A!past
<1>2. PICK i \in Identities : i = reqA[r].who BY <1>1 DEF A!Backed
<1>3. crossedA' \in BOOLEAN /\ (crossedA => crossedA') BY <1>1 DEF A!TypeOK
<1>4. crossedA' \/ (A!Searching(i) \subseteq {r} /\ A!WithIdentity(i) = {})
  <2>1. r \in A!Searching(i) BY <1>1, <1>2 DEF A!Searching
  <2>2. crossedA \/ ((\A s, o \in A!Searching(i) : s = o) /\ A!Known(reqA[r]))
    BY <1>2 DEF A!Inv, A!Alone
  <2> QED BY <1>1, <1>2, <2>1, <2>2 DEF A!Known
<1>5. PICK q \in A!Records : /\ A!Become(r, q) /\ q.via = reqA[r].via /\ q.who = i
                             /\ \/ q.pc = "create" /\ q.email = reqA[r].email
                                \/ q.pc = "update" /\ q.user \in Users
  <2>1. CASE A!WithEmail(reqA[r].email) = {}
    <3>1. PICK q : q = [reqA[r] EXCEPT !.pc = "create"] OBVIOUS
    <3>2. q \in A!Records /\ q.pc = "create" /\ q.via = reqA[r].via /\ q.who = i
          /\ q.email = reqA[r].email
      BY <1>1, <1>2, <3>1 DEF A!Records
    <3> QED BY <2>1, <3>1, <3>2 DEF A!FindByEmail, A!Goto
  <2>2. CASE A!WithEmail(reqA[r].email) # {}
    <3>1. PICK u \in A!WithEmail(reqA[r].email) :
            A!Become(r, [reqA[r] EXCEPT !.pc = "update", !.user = u, !.email = NoEmail])
      BY <2>2 DEF A!FindByEmail
    <3>2. u \in Users BY DEF A!WithEmail
    <3>3. PICK q : q = [reqA[r] EXCEPT !.pc = "update", !.user = u, !.email = NoEmail] OBVIOUS
    <3>4. q \in A!Records /\ q.pc = "update" /\ q.via = reqA[r].via /\ q.who = i /\ q.user = u
      BY <1>1, <1>2, <3>2, <3>3 DEF A!Records
    <3> QED BY <3>1, <3>2, <3>3, <3>4
  <2> QED BY <2>1, <2>2
<1>6. A!Stopped(q) /\ A!Backed(q) BY <1>1, <1>5 DEF A!Stopped, A!Backed
<1>7. crossedA' \/ A!Known(q) BY <1>4, <1>5 DEF A!Known
<1> QED BY <1>1, <1>3, <1>4, <1>5, <1>6, <1>7, AccountsSearchStep

-----------------------------------------------------------------------------
\* A step that writes rows, and what it has to show of them: those of one identity may
\* change, and then its search ends; or of none.
LEMMA AccountsRowsWritten ==
  ASSUME A!Inv, users' \in [Users -> A!Row], A!Gone',
         UNCHANGED <<configured, live, about, verifier, spent, tied, crossedA>>,
         NEW r \in Requests, A!Finish(r), NEW i \in Identities, r \in A!Searching(i),
         \A j \in Identities \ {i} : A!WithIdentity(j)' \subseteq A!WithIdentity(j),
         crossedA \/ \A u, v \in A!WithIdentity(i)' : u = v
  PROVE  A!Inv'
<1>1. A!TypeOK BY DEF A!Inv
<1>2. /\ reqA' \in [Requests -> A!Records] /\ reqA'[r] = A!Idle
      /\ \A o \in Requests \ {r} : reqA'[o] = reqA[o]
  BY <1>1, AccountsOneRequest, AccountsIdleRecord DEF A!Finish
<1>3. A!TypeOK' BY <1>1, <1>2 DEF A!TypeOK
<1>4. A!Stopped(A!Idle)' /\ A!Backed(A!Idle) BY AccountsIdleRecord DEF A!Stopped, A!Backed
<1>5. A!Unspent' /\ \A o \in Requests : A!Stopped(reqA[o])'
  BY <1>1, <1>4, AccountsStatesKept, AccountsIdleRecord DEF A!Inv, A!Finish
<1>6. \A o \in Requests : A!Backed(reqA[o])'
  <2>1. \A o \in Requests : A!Backed(reqA'[o]) BY <1>2, <1>4 DEF A!Inv
  <2> QED BY <2>1 DEF A!Backed
<1>7. ASSUME ~crossedA PROVE A!Alone'
  <2>1. /\ \A j \in Identities : /\ \A s, o \in A!Searching(j) : s = o
                                 /\ \A u, v \in A!WithIdentity(j) : u = v
        /\ \A o \in Requests : A!Known(reqA[o])
    BY <1>7 DEF A!Inv, A!Alone
  <2>2. \A j \in Identities : A!Searching(j)' \subseteq A!Searching(j)
    BY <1>2, AccountsIdleRecord DEF A!Searching
  <2>3. \A j \in Identities : \A u, v \in A!WithIdentity(j)' : u = v BY <1>7, <2>1
  <2>4. ASSUME NEW o \in Requests PROVE A!Known(reqA[o])'
    <3>1. PICK z : z = reqA'[o] OBVIOUS
    <3>2. A!Known(z)'
      <4>1. CASE o = r BY <1>2, <3>1, <4>1, AccountsIdleRecord DEF A!Known
      <4>2. CASE o # r
        <5>1. z = reqA[o] /\ A!Known(z) /\ A!Backed(z) BY <1>2, <2>1, <3>1, <4>2 DEF A!Inv
        <5>2. CASE z.pc \in {"byEmail", "update", "create"}
          <6>1. o \in A!Searching(z.who) /\ z.who \in Identities
            BY <5>1, <5>2 DEF A!Searching, A!Backed
          <6>2. z.who # i BY <2>1, <4>2, <6>1
          <6>3. A!WithIdentity(z.who)' \subseteq A!WithIdentity(z.who) BY <6>1, <6>2
          <6> QED BY <5>1, <6>3 DEF A!Known
        <5> QED BY <5>2 DEF A!Known
      <4> QED BY <4>1, <4>2
    <3> QED BY <3>1, <3>2 DEF A!Known, A!WithIdentity, A!Exists
  <2> QED BY <2>1, <2>2, <2>3, <2>4 DEF A!Alone
<1>8. crossedA => A!Alone' BY DEF A!Alone
<1> QED BY <1>3, <1>5, <1>6, <1>7, <1>8 DEF A!Inv

LEMMA AccountsRowsFewer ==
  ASSUME A!Inv, users' \in [Users -> A!Row], A!Gone',
         UNCHANGED <<configured, live, about, verifier, reqA, spent, tied, crossedA>>,
         \A j \in Identities : A!WithIdentity(j)' \subseteq A!WithIdentity(j)
  PROVE  A!Inv'
<1>1. A!TypeOK' BY DEF A!Inv, A!TypeOK
<1>2. A!Unspent' BY DEF A!Inv, A!Unspent, A!Reading
<1>3. ASSUME NEW o \in Requests PROVE A!Stopped(reqA[o])' /\ A!Backed(reqA[o])'
  <2>1. PICK z : z = reqA[o] /\ A!Stopped(z) /\ A!Backed(z) BY DEF A!Inv
  <2> QED BY <2>1 DEF A!Stopped, A!Backed
<1>4. ASSUME ~crossedA PROVE A!Alone'
  <2>1. /\ \A j \in Identities : /\ \A s, o \in A!Searching(j) : s = o
                                 /\ \A u, v \in A!WithIdentity(j) : u = v
        /\ \A o \in Requests : A!Known(reqA[o])
    BY <1>4 DEF A!Inv, A!Alone
  <2>2. \A j : A!Searching(j)' = A!Searching(j) BY DEF A!Searching
  <2>3. ASSUME NEW o \in Requests PROVE A!Known(reqA[o])'
    <3>1. PICK z : z = reqA[o] /\ A!Known(z) /\ A!Backed(z) BY <2>1 DEF A!Inv
    <3>2. A!Known(z)' BY <3>1 DEF A!Known, A!Backed
    <3> QED BY <3>1, <3>2 DEF A!Known, A!WithIdentity, A!Exists
  <2> QED BY <2>1, <2>2, <2>3 DEF A!Alone
<1>5. crossedA => A!Alone' BY DEF A!Alone
<1> QED BY <1>1, <1>2, <1>3, <1>4, <1>5 DEF A!Inv

LEMMA AccountsUpdateUserSafe ==
  ASSUME A!Inv, UNCHANGED configured, NEW r \in Requests, A!UpdateUser(r) PROVE A!Inv'
<1>1. /\ A!TypeOK /\ A!Backed(reqA[r]) /\ reqA[r].pc = "update" /\ A!Finish(r) /\ A!Gone
      /\ UNCHANGED <<live, about, verifier, spent, tied, crossedA>>
  BY DEF A!Inv, A!UpdateUser, A!redis, A!past
<1>2. PICK i \in Identities, u \in Users : i = reqA[r].who /\ u = reqA[r].user
  BY <1>1 DEF A!Backed
<1>3. r \in A!Searching(i) BY <1>1, <1>2 DEF A!Searching
<1>4. crossedA \/ A!WithIdentity(i) \subseteq {u}
  <2>1. crossedA \/ A!Known(reqA[r]) BY DEF A!Inv, A!Alone
  <2> QED BY <1>1, <1>2, <2>1 DEF A!Known
<1>5. CASE A!Exists(u)
  <2>1. users' = [users EXCEPT ![u].who = i] BY <1>2, <1>5 DEF A!UpdateUser
  <2>2. /\ users' \in [Users -> A!Row] /\ users'[u].email = users[u].email /\ users'[u].who = i
        /\ \A v \in Users \ {u} : users'[v] = users[v]
    BY <1>1, <2>1 DEF A!TypeOK, A!Row
  <2>3. A!Gone' BY <1>1, <1>5, <2>2 DEF A!Gone, A!Exists
  <2>4. \A j \in Identities \ {i} : A!WithIdentity(j)' \subseteq A!WithIdentity(j)
    BY <2>2 DEF A!WithIdentity, A!Exists
  <2>5. A!WithIdentity(i)' \subseteq A!WithIdentity(i) \cup {u} BY <2>2 DEF A!WithIdentity, A!Exists
  <2> QED BY <1>1, <1>3, <1>4, <2>2, <2>3, <2>4, <2>5, AccountsRowsWritten
<1>6. CASE ~A!Exists(u)
  <2>1. users' = users BY <1>2, <1>6 DEF A!UpdateUser
  <2>2. A!Gone' /\ users' \in [Users -> A!Row] BY <1>1, <2>1 DEF A!Gone, A!Exists, A!TypeOK
  <2>3. \A j : A!WithIdentity(j)' = A!WithIdentity(j) BY <2>1 DEF A!WithIdentity, A!Exists
  <2> QED BY <1>1, <1>3, <1>4, <2>2, <2>3, AccountsRowsWritten
<1> QED BY <1>5, <1>6

\* A row is inserted where there is none, or nothing is.
LEMMA AccountsInserted ==
  ASSUME A!TypeOK, A!Gone, NEW e \in Emails, NEW i \in Identities \cup {NoIdentity}, A!Insert(e, i)
  PROVE  /\ users' \in [Users -> A!Row] /\ A!Gone'
         /\ \A j \in Identities \ {i} : A!WithIdentity(j)' = A!WithIdentity(j)
         /\ \E u : A!WithIdentity(i)' \subseteq A!WithIdentity(i) \cup {u}
<1>1. CASE users' = users BY <1>1 DEF A!TypeOK, A!Gone, A!WithIdentity, A!Exists
<1>2. CASE users' # users
  <2>1. PICK u \in Users : ~A!Exists(u) /\ users' = [users EXCEPT ![u] = [email |-> e, who |-> i]]
    BY <1>2 DEF A!Insert
  <2>2. /\ users' \in [Users -> A!Row] /\ users'[u].email = e /\ users'[u].who = i
        /\ \A v \in Users \ {u} : users'[v] = users[v]
    BY <2>1 DEF A!TypeOK, A!Row
  <2>3. e # NoEmail BY PlatformAssumption DEF A!AccountsAssumption
  <2>4. A!Gone' BY <2>2, <2>3 DEF A!Gone, A!Exists
  <2>5. \A j \in Identities \ {i} : A!WithIdentity(j)' = A!WithIdentity(j)
    BY <2>1, <2>2 DEF A!WithIdentity, A!Exists
  <2>6. A!WithIdentity(i)' \subseteq A!WithIdentity(i) \cup {u} BY <2>2 DEF A!WithIdentity, A!Exists
  <2> QED BY <2>2, <2>4, <2>5, <2>6
<1> QED BY <1>1, <1>2

LEMMA AccountsCreateUserSafe ==
  ASSUME A!Inv, UNCHANGED configured, NEW r \in Requests, A!CreateUser(r) PROVE A!Inv'
<1>1. /\ A!TypeOK /\ A!Backed(reqA[r]) /\ reqA[r].pc = "create" /\ A!Finish(r) /\ A!Gone
      /\ UNCHANGED <<live, about, verifier, spent, tied, crossedA>>
  BY DEF A!Inv, A!CreateUser, A!redis, A!past
<1>2. PICK i \in Identities, e \in Emails : i = reqA[r].who /\ e = reqA[r].email
  BY <1>1 DEF A!Backed
<1>3. r \in A!Searching(i) BY <1>1, <1>2 DEF A!Searching
<1>4. crossedA \/ A!WithIdentity(i) = {}
  <2>1. crossedA \/ A!Known(reqA[r]) BY DEF A!Inv, A!Alone
  <2> QED BY <1>1, <1>2, <2>1 DEF A!Known
<1>5. A!Insert(e, i) BY <1>2 DEF A!CreateUser
<1>6. /\ users' \in [Users -> A!Row] /\ A!Gone'
      /\ \A j \in Identities \ {i} : A!WithIdentity(j)' = A!WithIdentity(j)
      /\ \E u : A!WithIdentity(i)' \subseteq A!WithIdentity(i) \cup {u}
  BY <1>1, <1>5, AccountsInserted
<1> QED BY <1>1, <1>3, <1>4, <1>6, AccountsRowsWritten

-----------------------------------------------------------------------------
\* Registration and administration touch no identity; what expires is not accepted; and a
\* state that is made out is fresh.
LEMMA AccountsManageSafe ==
  ASSUME A!Inv, UNCHANGED configured, A!Manage PROVE A!Inv'
<1>1. A!TypeOK /\ A!Gone BY DEF A!Inv
<1>2. ASSUME NEW e \in Emails, A!HttpRegister(e) PROVE A!Inv'
  <2>1. A!Insert(e, NoIdentity) /\ UNCHANGED <<live, about, verifier, reqA, spent, tied, crossedA>>
    BY <1>2 DEF A!HttpRegister, A!SignUp, A!Register, A!redis, A!past
  <2>2. NoIdentity \notin Identities BY PlatformAssumption DEF A!AccountsAssumption
  <2>3. /\ users' \in [Users -> A!Row] /\ A!Gone'
        /\ \A j \in Identities : A!WithIdentity(j)' = A!WithIdentity(j)
    BY <1>1, <2>1, <2>2, AccountsInserted
  <2> QED BY <2>1, <2>3, AccountsRowsFewer
<1>3. ASSUME NEW u \in Users, NEW e \in Emails, A!Update(u, e) PROVE A!Inv'
  <2>1. /\ A!Exists(u) /\ users' = [users EXCEPT ![u].email = e]
        /\ UNCHANGED <<live, about, verifier, reqA, spent, tied, crossedA>>
    BY <1>3 DEF A!Update, A!redis, A!past
  <2>2. /\ users' \in [Users -> A!Row] /\ users'[u].email = e /\ users'[u].who = users[u].who
        /\ \A v \in Users \ {u} : users'[v] = users[v]
    BY <1>1, <2>1 DEF A!TypeOK, A!Row
  <2>3. e # NoEmail BY PlatformAssumption DEF A!AccountsAssumption
  <2>4. A!Gone' BY <1>1, <2>2, <2>3 DEF A!Gone, A!Exists
  <2>5. \A j : A!WithIdentity(j)' \subseteq A!WithIdentity(j)
    BY <2>1, <2>2 DEF A!WithIdentity, A!Exists
  <2> QED BY <2>1, <2>2, <2>4, <2>5, AccountsRowsFewer
<1>4. ASSUME NEW u \in Users, A!Delete(u) PROVE A!Inv'
  <2>1. /\ users' = [users EXCEPT ![u] = A!NoRow]
        /\ UNCHANGED <<live, about, verifier, reqA, spent, tied, crossedA>>
    BY <1>4 DEF A!Delete, A!redis, A!past
  <2>2. /\ users' \in [Users -> A!Row] /\ users'[u].email = NoEmail /\ users'[u].who = NoIdentity
        /\ \A v \in Users \ {u} : users'[v] = users[v]
    BY <1>1, <2>1 DEF A!TypeOK, A!Row, A!NoRow
  <2>3. A!Gone' BY <1>1, <2>2 DEF A!Gone, A!Exists
  <2>4. \A j : A!WithIdentity(j)' \subseteq A!WithIdentity(j)
    BY <2>1, <2>2 DEF A!WithIdentity, A!Exists
  <2> QED BY <2>1, <2>2, <2>3, <2>4, AccountsRowsFewer
<1>5. ASSUME UNCHANGED <<users, reqA, spent, tied, crossedA>> PROVE A!Gone' /\ A!Alone'
  <2>1. \A i : A!Searching(i)' = A!Searching(i) /\ A!WithIdentity(i)' = A!WithIdentity(i)
    BY <1>5 DEF A!Searching, A!WithIdentity, A!Exists
  <2>2. \A o \in Requests : A!Known(reqA[o])' <=> A!Known(reqA[o]) BY <1>5, <2>1 DEF A!Known
  <2> QED BY <1>5, <2>1, <2>2 DEF A!Inv, A!Gone, A!Exists, A!Alone
<1>6. ASSUME NEW s \in States, A!Expire(s) PROVE A!Inv'
  <2>1. /\ live' \subseteq live /\ verifier' \subseteq verifier
        /\ UNCHANGED <<about, users, reqA, spent, tied, crossedA>>
    BY <1>6 DEF A!Expire
  <2>2. A!TypeOK' BY <1>1, <2>1 DEF A!TypeOK
  <2>3. A!Unspent' BY <2>1 DEF A!Inv, A!Unspent, A!Reading
  <2>4. ASSUME NEW o \in Requests PROVE A!Stopped(reqA[o])' /\ A!Backed(reqA[o])'
    <3>1. PICK z : z = reqA[o] /\ A!Stopped(z) /\ A!Backed(z) BY DEF A!Inv
    <3> QED BY <2>1, <3>1 DEF A!Stopped, A!Backed
  <2> QED BY <1>5, <2>1, <2>2, <2>3, <2>4 DEF A!Inv
<1>7. ASSUME NEW s \in States, NEW p \in Purposes, A!GetProviderAuthUrl(s, p) PROVE A!Inv'
  <2>1. /\ A!Fresh(s) /\ live' = live \cup {s} /\ about' = [about EXCEPT ![s] = p]
        /\ verifier' = (IF p.provider = "apple" THEN verifier \cup {s} ELSE verifier)
        /\ UNCHANGED <<users, reqA, spent, tied, crossedA>>
    BY <1>7 DEF A!GetProviderAuthUrl, A!GenerateState, A!StoreCodeVerifier
  <2>2. A!TypeOK' BY <1>1, <2>1 DEF A!TypeOK
  <2>3. A!Unspent'
    <3>1. \A x : A!Reading(x)' = A!Reading(x) BY <2>1 DEF A!Reading
    <3> QED BY <2>1, <3>1 DEF A!Inv, A!Unspent, A!Fresh
  <2>4. ASSUME NEW o \in Requests PROVE A!Stopped(reqA[o])' /\ A!Backed(reqA[o])'
    <3>1. PICK z : z = reqA[o] /\ A!Stopped(z) /\ A!Backed(z) BY DEF A!Inv
    <3>2. z.state # s BY <2>1, <3>1 DEF A!Fresh
    <3> QED BY <2>1, <3>1, <3>2 DEF A!Stopped, A!Backed
  <2> QED BY <1>5, <2>1, <2>2, <2>3, <2>4 DEF A!Inv
<1> QED BY <1>2, <1>3, <1>4, <1>6, <1>7 DEF A!Manage, A!HttpUpdate, A!HttpUpdateMe

LEMMA AccountsInitially == ASSUME A!Init PROVE A!Inv
<1>1. A!TypeOK
  <2>1. A!AnyPurpose \in Purposes BY PlatformAssumption DEF A!AccountsAssumption, A!AnyPurpose
  <2>2. about \in [States -> Purposes] BY <2>1 DEF A!Init
  <2>3. users \in [Users -> A!Row] BY DEF A!Init, A!Row, A!NoRow
  <2>4. reqA \in [Requests -> A!Records] BY AccountsIdleRecord DEF A!Init
  <2>5. spent \in [States -> 0..2] BY DEF A!Init
  <2> QED BY <2>2, <2>3, <2>4, <2>5 DEF A!Init, A!TypeOK
<1>2. \A r \in Requests : reqA[r] = A!Idle BY DEF A!Init
<1>3. \A s : A!Reading(s) = {} /\ A!Searching(s) = {}
  BY <1>2, AccountsIdleRecord DEF A!Reading, A!Searching
<1>4. A!Unspent BY <1>3 DEF A!Init, A!Unspent
<1>5. A!Gone BY DEF A!Init, A!Gone, A!NoRow
<1>6. \A i : A!WithIdentity(i) = {} BY DEF A!Init, A!NoRow, A!WithIdentity, A!Exists
<1>7. A!Stopped(A!Idle) /\ A!Backed(A!Idle) /\ A!Known(A!Idle)
  BY AccountsIdleRecord DEF A!Stopped, A!Backed, A!Known
<1>8. A!Alone BY <1>2, <1>3, <1>6, <1>7 DEF A!Alone
<1> QED BY <1>1, <1>2, <1>4, <1>5, <1>7, <1>8 DEF A!Inv

LEMMA AccountsEveryStep == ASSUME A!Inv, [A!Next]_(A!vars) PROVE A!Inv'
<1>1. CASE UNCHANGED A!vars
  BY <1>1 DEF A!vars, A!Inv, A!TypeOK, A!Unspent, A!Reading, A!Gone, A!Exists, A!Alone,
     A!Searching, A!WithIdentity,
              A!Known, A!Stopped, A!Backed
<1>2. CASE A!Next
  <2>1. UNCHANGED configured BY <1>2 DEF A!Next
  <2>2. CASE A!Manage BY <2>1, <2>2, AccountsManageSafe
  <2>3. ASSUME NEW r \in Requests, A!Arrive(r) \/ A!Step(r) PROVE A!Inv'
    BY <2>1, <2>3, AccountsArriveSafe, AccountsProviderSafe, AccountsGetStateSafe,
       AccountsDelStateSafe, AccountsFindByIdSafe,
       AccountsFindByEmailSafe, AccountsUpdateUserSafe, AccountsCreateUserSafe DEF A!Step
  <2> QED BY <1>2, <2>2, <2>3 DEF A!Next
<1> QED BY <1>1, <1>2

LEMMA AccountsInvSignIn ==
  ASSUME A!Inv PROVE A!StateUsedOnce /\ A!ControllerNeverSignsIn /\ A!OneAccountPerIdentity
<1>1. A!StateUsedOnce BY DEF A!Inv, A!Unspent, A!StateUsedOnce
<1>2. A!ControllerNeverSignsIn BY DEF A!Inv, A!Stopped, A!ControllerNeverSignsIn
<1>3. ASSUME ~crossedA, NEW u \in Users, NEW v \in Users,
             users[u].who # NoIdentity, users[u].who = users[v].who
      PROVE  u = v
  <2>1. users[u].who \in Identities BY <1>3 DEF A!Inv, A!TypeOK, A!Row
  <2>2. A!Exists(u) /\ A!Exists(v) BY <1>3 DEF A!Inv, A!Gone
  <2> QED BY <1>3, <2>1, <2>2 DEF A!Inv, A!Alone, A!WithIdentity
<1> QED BY <1>1, <1>2, <1>3 DEF A!OneAccountPerIdentity

(***************************************************************************)
(* Login attempts and the fingerprint limit (module LoginGuard).           *)
(***************************************************************************)

\* What is counted here is what the library's theorems count.
LEMMA LoginGuardCounting ==
  \A S : G!Cardinality(S) = Cardinality(S) /\ (G!IsFiniteSet(S) <=> IsFiniteSet(S))
PROOF BY DEF G!Cardinality, Cardinality, G!IsFiniteSet, IsFiniteSet

LEMMA LoginGuardParams ==
  /\ MaxFailed \in Nat \ {0} /\ MaxAttempts \in Nat \ {0} /\ ResetAfter \in Nat \ {0}
  /\ IsFiniteSet(Logins) /\ Cardinality(Logins) \in Nat
  /\ G!Quiet \in [pc: {"idle", "compare"}, email: LoginEmails] /\ G!Quiet.pc = "idle"
<1>1. (CHOOSE e \in LoginEmails : TRUE) \in LoginEmails
  <2>1. LoginEmails # {} BY PlatformAssumption, LoginGuardCounting DEF G!LoginGuardAssumption
  <2> QED BY <2>1, Zenon
<1> QED
  BY <1>1, PlatformAssumption, FS_CardinalityType, LoginGuardCounting DEF G!LoginGuardAssumption,
     G!Quiet

\* The logins past the lock check are some of the requests.
LEMMA LoginGuardPastFew ==
  ASSUME NEW S, S \subseteq Logins
  PROVE  IsFiniteSet(S) /\ Cardinality(S) \in Nat /\ Cardinality(S) <= Cardinality(Logins)
PROOF BY LoginGuardParams, FS_Subset, FS_CardinalityType

\* A login that ends leaves one fewer past the check of its account.
LEMMA LoginGuardOneFewer ==
  ASSUME G!TypeOK, NEW r \in Logins, login[r].pc = "compare",
         login' = [login EXCEPT ![r] = G!Quiet], NEW e \in LoginEmails
  PROVE  Cardinality(G!Past(e)') =
           IF e = login[r].email THEN Cardinality(G!Past(e)) - 1 ELSE Cardinality(G!Past(e))
<1>1. G!Past(e)' = G!Past(e) \ {r} BY LoginGuardParams DEF G!Past, G!TypeOK
<1>2. IsFiniteSet(G!Past(e)) BY LoginGuardPastFew DEF G!Past
<1>3. r \in G!Past(e) <=> e = login[r].email BY DEF G!Past
<1>4. CASE e = login[r].email BY <1>1, <1>2, <1>3, <1>4, FS_RemoveElement
<1>5. CASE e # login[r].email
  <2>1. G!Past(e) \ {r} = G!Past(e) BY <1>3, <1>5
  <2> QED BY <1>1, <1>5, <2>1
<1> QED BY <1>4, <1>5

\* A login begins on an account that is not locked, and so has failed too seldom.
LEMMA LoginGuardBeginSafe ==
  ASSUME G!Inv, NEW r \in Logins, NEW e \in LoginEmails, G!HttpLogin(r, e) PROVE G!Inv'
<1>1. G!TypeOK /\ G!Unlocked /\ G!Counted /\ G!GuessingBounded BY DEF G!Inv
<1>2. lock[e] # "on" /\ UNCHANGED <<limits, passed>>
      /\ login' = [login EXCEPT ![r] = [pc |-> "compare", email |-> e]]
  BY DEF G!HttpLogin, G!Begin, G!IsLocked
<1>3. G!TypeOK' BY <1>1, <1>2 DEF G!HttpLogin, G!Begin, G!TypeOK
<1>4. /\ \A o \in LoginEmails \ {e} : attempts'[o] = attempts[o] /\ lock'[o] = lock[o]
      /\ lock'[e] = "none" /\ attempts'[e] < MaxFailed
  BY <1>1, <1>2, LoginGuardParams DEF G!HttpLogin, G!Begin, G!TypeOK, G!Unlocked
<1>5. G!Unlocked' BY <1>1, <1>4 DEF G!Unlocked
<1>6. ASSUME NEW o \in LoginEmails
      PROVE  attempts'[o] + Cardinality(G!Past(o)') < MaxFailed + Cardinality(Logins)
  <2>1. CASE o = e
    <3>1. Cardinality(G!Past(o)') \in Nat /\ Cardinality(G!Past(o)') <= Cardinality(Logins)
      BY LoginGuardPastFew DEF G!Past
    <3> QED BY <1>3, <1>4, <2>1, <3>1, LoginGuardParams DEF G!TypeOK
  <2>2. CASE o # e
    <3>1. G!Past(o)' \subseteq G!Past(o) BY <1>1, <1>2, <2>2 DEF G!Past, G!TypeOK
    <3>2. IsFiniteSet(G!Past(o)) /\ Cardinality(G!Past(o)) \in Nat
            /\ Cardinality(G!Past(o)') \in Nat
      BY LoginGuardPastFew DEF G!Past
    <3>3. Cardinality(G!Past(o)') <= Cardinality(G!Past(o)) BY <3>1, <3>2, FS_Subset
    <3>4. attempts[o] + Cardinality(G!Past(o)) < MaxFailed + Cardinality(Logins)
          /\ attempts'[o] = attempts[o] /\ attempts[o] \in Nat
      BY <1>1, <1>4, <2>2, LoginGuardCounting DEF G!GuessingBounded, G!TypeOK
    <3> QED BY <3>2, <3>3, <3>4, LoginGuardParams
  <2> QED BY <2>1, <2>2
<1>7. G!Counted' /\ \A i \in Ips : passed'[i] <= MaxAttempts + 1
  BY <1>1, <1>2, LoginGuardCounting DEF G!Counted, G!GuessingBounded
<1> QED BY <1>3, <1>5, <1>6, <1>7, LoginGuardCounting DEF G!Inv, G!GuessingBounded

\* A failure that is counted was a login past the check.
LEMMA LoginGuardEndSafe ==
  ASSUME G!Inv, NEW r \in Logins, G!RecordFailedAttempt(r) \/ G!ResetAttempts(r) \/ G!Uncounted(r)
  PROVE  G!Inv'
<1>1. G!TypeOK /\ G!Unlocked /\ G!Counted /\ G!GuessingBounded BY DEF G!Inv
<1>2. login[r].pc = "compare" /\ login' = [login EXCEPT ![r] = G!Quiet]
      /\ UNCHANGED <<limits, passed>>
  BY DEF G!RecordFailedAttempt, G!ResetAttempts, G!Uncounted
<1>3. PICK e \in LoginEmails : e = login[r].email BY <1>1 DEF G!TypeOK
<1>4. \A n \in Nat : n + 1 \in Nat /\ (~G!AtMaximum(n + 1) => n + 1 < MaxFailed)
  BY LoginGuardParams DEF G!AtMaximum
<1>5. /\ attempts' \in [LoginEmails -> Nat] /\ lock' \in [LoginEmails -> {"none", "on", "over"}]
      /\ \A o \in LoginEmails \ {e} : attempts'[o] = attempts[o] /\ lock'[o] = lock[o]
      /\ lock'[e] = "none" => attempts'[e] < MaxFailed
      /\ attempts'[e] <= attempts[e] + 1
  <2>1. CASE G!RecordFailedAttempt(r)
    <3>1. attempts' = [attempts EXCEPT ![e] = @ + 1]
          /\ lock' = IF G!AtMaximum(attempts[e] + 1) THEN [lock EXCEPT ![e] = "on"] ELSE lock
      BY <1>3, <2>1 DEF G!RecordFailedAttempt
    <3> QED BY <1>1, <1>4, <3>1 DEF G!TypeOK
  <2>2. CASE G!ResetAttempts(r)
    BY <1>1, <1>3, <2>2, LoginGuardParams DEF G!ResetAttempts, G!TypeOK
  <2>3. CASE G!Uncounted(r)
    BY <1>1, <2>3 DEF G!Uncounted, G!TypeOK, G!Unlocked
  <2> QED BY <2>1, <2>2, <2>3
<1>6. G!TypeOK' BY <1>1, <1>2, <1>5, LoginGuardParams DEF G!TypeOK
<1>7. G!Unlocked' BY <1>1, <1>5 DEF G!Unlocked
<1>8. ASSUME NEW o \in LoginEmails
      PROVE  attempts'[o] + Cardinality(G!Past(o)') < MaxFailed + Cardinality(Logins)
  <2>1. Cardinality(G!Past(o)) \in Nat /\ attempts[o] \in Nat /\ attempts'[o] \in Nat
        /\ attempts[o] + Cardinality(G!Past(o)) < MaxFailed + Cardinality(Logins)
    BY <1>1, <1>5, LoginGuardPastFew, LoginGuardCounting DEF G!Past, G!TypeOK, G!GuessingBounded
  <2>2. CASE o = e
    <3>1. Cardinality(G!Past(o)') = Cardinality(G!Past(o)) - 1
      BY <1>1, <1>2, <1>3, <2>2, LoginGuardOneFewer
    <3> QED BY <1>5, <2>1, <2>2, <3>1, LoginGuardParams
  <2>3. CASE o # e
    <3>1. Cardinality(G!Past(o)') = Cardinality(G!Past(o))
      BY <1>1, <1>2, <1>3, <2>3, LoginGuardOneFewer
    <3> QED BY <1>5, <2>1, <2>3, <3>1
  <2> QED BY <2>2, <2>3
<1>9. G!Counted' /\ \A i \in Ips : passed'[i] <= MaxAttempts + 1
  BY <1>1, <1>2, LoginGuardCounting DEF G!Counted, G!GuessingBounded
<1> QED BY <1>6, <1>7, <1>8, <1>9, LoginGuardCounting DEF G!Inv, G!GuessingBounded

\* The limit on comparisons.
LEMMA LoginGuardLimitSafe ==
  ASSUME G!Inv, NEW i \in Ips, G!CheckRateLimit(i) \/ G!Tick(i) PROVE G!Inv'
<1>1. G!TypeOK /\ G!Unlocked /\ G!Counted /\ G!GuessingBounded BY DEF G!Inv
<1>2. UNCHANGED <<attempts, lock, login>> BY DEF G!CheckRateLimit, G!Tick, G!accounts
<1>3. /\ limits' \in [Ips -> [count: Nat, age: 0..ResetAfter]] /\ passed' \in [Ips -> Nat]
      /\ \A j \in Ips \ {i} : limits'[j] = limits[j] /\ passed'[j] = passed[j]
      /\ limits'[i].count <= MaxAttempts /\ passed'[i] <= limits'[i].count + 1
  <2>1. limits[i].count \in Nat /\ limits[i].age \in 0..ResetAfter /\ passed[i] \in Nat
        /\ limits[i].count <= MaxAttempts /\ passed[i] <= limits[i].count + 1
    BY <1>1 DEF G!TypeOK, G!Counted
  <2>2. CASE G!Forgets(i) /\ G!CheckRateLimit(i)
    BY <1>1, <2>2, LoginGuardParams DEF G!CheckRateLimit, G!TypeOK, G!NewLimit
  <2>3. CASE ~G!Forgets(i) /\ G!CheckRateLimit(i)
    <3>1. PICK n \in Nat : n = limits[i].count + 1 BY <2>1
    <3>2. limits' = [limits EXCEPT ![i] = [count |-> n, age |-> 0]]
          /\ passed' = [passed EXCEPT ![i] = @ + 1]
      BY <2>3, <3>1 DEF G!CheckRateLimit
    <3>3. n <= MaxAttempts BY <2>1, <2>3, <3>1, LoginGuardParams DEF G!CheckRateLimit, G!Full
    <3> QED BY <1>1, <2>1, <3>1, <3>2, <3>3, LoginGuardParams DEF G!TypeOK
  <2>4. CASE G!Tick(i)
    <3>1. limits[i].age + 1 \in 0..ResetAfter BY <2>1, <2>4, LoginGuardParams DEF G!Tick
    <3> QED BY <1>1, <2>1, <2>4, <3>1 DEF G!Tick, G!TypeOK
  <2> QED BY <2>2, <2>3, <2>4
<1>4. G!TypeOK' BY <1>1, <1>2, <1>3 DEF G!TypeOK
<1>5. G!Counted' BY <1>1, <1>3 DEF G!Counted
<1>6. \A j \in Ips : passed'[j] <= MaxAttempts + 1
  BY <1>3, <1>5, LoginGuardParams DEF G!Counted
<1>7. G!Unlocked' /\ \A e \in LoginEmails : G!Past(e)' = G!Past(e)
  BY <1>1, <1>2 DEF G!Unlocked, G!Past
<1> QED BY <1>1, <1>2, <1>4, <1>5, <1>6, <1>7, LoginGuardCounting DEF G!Inv, G!GuessingBounded

\* An empty process.
LEMMA LoginGuardFreshSafe ==
  ASSUME G!TypeOK, \A e \in LoginEmails : attempts[e] = 0, \A r \in Logins : login[r] = G!Quiet,
         \A i \in Ips : limits[i] = G!NewLimit /\ passed[i] = 0
  PROVE  G!Inv
<1>1. G!Unlocked /\ G!Counted BY LoginGuardParams DEF G!Unlocked, G!Counted, G!NewLimit
<1>2. ASSUME NEW e \in LoginEmails
      PROVE  attempts[e] + Cardinality(G!Past(e)) < MaxFailed + Cardinality(Logins)
  BY LoginGuardPastFew, LoginGuardParams DEF G!Past
<1>3. \A i \in Ips : passed[i] <= MaxAttempts + 1 BY LoginGuardParams
<1> QED BY <1>1, <1>2, <1>3, LoginGuardCounting DEF G!Inv, G!GuessingBounded

LEMMA LoginGuardInitially == G!Init => G!Inv
<1> SUFFICES ASSUME G!Init PROVE G!Inv OBVIOUS
<1>1. G!TypeOK BY LoginGuardParams DEF G!Init, G!TypeOK, G!NewLimit
<1> QED BY <1>1, LoginGuardFreshSafe DEF G!Init

LEMMA LoginGuardEveryStep == G!Inv /\ [G!Next]_(G!vars) => G!Inv'
<1> SUFFICES ASSUME G!Inv, [G!Next]_(G!vars) PROVE G!Inv' OBVIOUS
<1>1. CASE UNCHANGED G!vars
  BY <1>1, LoginGuardCounting DEF G!vars, G!Inv, G!TypeOK, G!Unlocked, G!Counted,
     G!GuessingBounded, G!Past
<1>2. ASSUME NEW e \in LoginEmails, G!LockExpires(e) PROVE G!Inv'
  <2>1. lock' = [lock EXCEPT ![e] = "over"] /\ UNCHANGED <<attempts, login, limits, passed>>
    BY <1>2 DEF G!LockExpires
  <2>2. G!TypeOK' BY <2>1 DEF G!Inv, G!TypeOK
  <2>3. G!Unlocked' BY <2>1 DEF G!Inv, G!TypeOK, G!Unlocked
  <2> QED BY <2>1, <2>2, <2>3, LoginGuardCounting DEF G!Inv, G!Counted, G!GuessingBounded, G!Past
<1>3. CASE G!Restart
  <2>1. G!TypeOK' BY <1>3, LoginGuardParams DEF G!Restart, G!TypeOK, G!NewLimit
  <2>2. \A r \in Logins : login'[r] = G!Quiet BY <1>3 DEF G!Restart
  <2>3. G!Unlocked' /\ G!Counted'
    BY <1>3, LoginGuardParams DEF G!Restart, G!Unlocked, G!Counted, G!NewLimit
  <2>4. ASSUME NEW e \in LoginEmails
        PROVE  attempts'[e] + Cardinality(G!Past(e)') < MaxFailed + Cardinality(Logins)
    <3>1. Cardinality(G!Past(e)') \in Nat /\ Cardinality(G!Past(e)') <= Cardinality(Logins)
      BY LoginGuardPastFew DEF G!Past
    <3> QED BY <1>3, <3>1, LoginGuardParams DEF G!Restart
  <2>5. \A i \in Ips : passed'[i] <= MaxAttempts + 1 BY <1>3, LoginGuardParams DEF G!Restart
  <2> QED BY <2>1, <2>3, <2>4, <2>5, LoginGuardCounting DEF G!Inv, G!GuessingBounded
<1> QED BY <1>1, <1>2, <1>3, LoginGuardBeginSafe, LoginGuardEndSafe, LoginGuardLimitSafe DEF G!Next

(***************************************************************************)
(* System setup (module Setup).                                            *)
(***************************************************************************)

-----------------------------------------------------------------------------
(* What a step does to the request that takes it. *)

\* The idle record, and a record with another program counter, are records.
LEMMA SetupRecordTypes ==
  /\ U!Idle \in U!Records
  /\ \A q \in U!Records, pc \in {"idle", "guard", "header", "validate", "controller", "create",
                                 "find", "attempt", "commit", "write"} :
       [q EXCEPT !.pc = pc] \in U!Records
PROOF BY DEF U!Idle, U!Records, U!RoleNames

\* A step that changes one request leaves the others as they are.
LEMMA SetupOneRequest ==
  ASSUME U!TypeOK, NEW r \in Requests, NEW q \in U!Records, reqU' = [reqU EXCEPT ![r] = q]
  PROVE  /\ reqU' \in [Requests -> U!Records] /\ reqU'[r] = q
         /\ \A o \in Requests \ {r} : reqU'[o] = reqU[o]
PROOF BY DEF U!TypeOK, U!Records

\* Goto changes the program counter of one request.
LEMMA SetupGotoStep ==
  ASSUME U!TypeOK, NEW r \in Requests,
         NEW pc \in {"idle", "guard", "header", "validate", "controller", "create",
                     "find", "attempt", "commit", "write"},
         U!Goto(r, pc)
  PROVE  /\ reqU' \in [Requests -> U!Records]
         /\ reqU'[r] = [reqU[r] EXCEPT !.pc = pc]
         /\ \A o \in Requests \ {r} : reqU'[o] = reqU[o]
<1>1. reqU[r] \in U!Records BY DEF U!TypeOK, U!Records
<1>2. [reqU[r] EXCEPT !.pc = pc] \in U!Records BY <1>1, SetupRecordTypes
<1>3. reqU' = [reqU EXCEPT ![r] = [reqU[r] EXCEPT !.pc = pc]] BY DEF U!Goto
<1> QED BY <1>2, <1>3, SetupOneRequest

\* Finish makes one request idle.
LEMMA SetupFinishStep ==
  ASSUME U!TypeOK, NEW r \in Requests, U!Finish(r)
  PROVE  /\ reqU' \in [Requests -> U!Records] /\ reqU'[r] = U!Idle
         /\ \A o \in Requests \ {r} : reqU'[o] = reqU[o]
PROOF BY SetupRecordTypes, SetupOneRequest DEF U!Finish

\* A request that did not pass a token check in this step disturbs nothing.
LEMMA SetupQuietStep ==
  ASSUME U!Inv, U!Quiet, NEW r \in Requests,
         reqU' \in [Requests -> U!Records], U!Named(reqU'[r]),
         U!Attempts(reqU'[r]) => U!Attempts(reqU[r]) /\ reqU'[r].token = reqU[r].token,
         \A o \in Requests \ {r} : reqU'[o] = reqU[o]
  PROVE  U!Inv'
<1>1. U!TypeOK' BY DEF U!Inv, U!TypeOK, U!Quiet, U!Records
<1>2. (U!OneAdministrator /\ U!Fresh /\ U!Marked)'
  BY DEF U!Inv, U!OneAdministrator, U!Fresh, U!Marked, U!Quiet
<1>3. U!Held'
  <2> SUFFICES ASSUME NEW o \in Requests, U!Attempts(reqU'[o]),
                      reqU'[o].token \in SetupTokens \ reopened', uses'[reqU'[o].token] # 0
               PROVE  "SYSTEM_ADMIN" \in roles'
    BY DEF U!Held
  <2>1. U!Attempts(reqU[o]) /\ reqU'[o].token = reqU[o].token OBVIOUS
  <2> QED BY <2>1 DEF U!Inv, U!Held, U!Quiet
<1>4. U!AllNamed' BY DEF U!Inv, U!AllNamed, U!Named
<1> QED BY <1>1, <1>2, <1>3, <1>4 DEF U!Inv

-----------------------------------------------------------------------------
(* The steps that only move a request. *)

\* A request begins, with any operation and outside an attempt.
LEMMA SetupBeginStep ==
  ASSUME U!Inv, NEW r \in Requests, NEW t \in SetupTokens \cup {AnyToken},
         NEW u \in Users \cup {AnyUser}, NEW n \in U!RoleNames,
         NEW op \in {"generate", "complete", "create", "assign", "remove", "delete"},
         NEW pc \in {"guard", "validate", "create", "find"},
         U!Begin(r, op, pc, t, u, n), U!Quiet, op = "complete" => u \in Users
  PROVE  U!Inv'
<1> DEFINE q == [op |-> op, pc |-> pc, token |-> t, user |-> u, role |-> n]
<1>1. q \in U!Records BY DEF U!Records
<1>2. U!TypeOK /\ reqU' = [reqU EXCEPT ![r] = q] BY DEF U!Inv, U!Begin
<1>3. ~U!Attempts(q) /\ U!Named(q) BY DEF U!Attempts, U!Named
<1> HIDE DEF q
<1> QED BY <1>1, <1>2, <1>3, SetupOneRequest, SetupQuietStep

\* A request moves on and does not enter an attempt, or ends.
LEMMA SetupMoveStep ==
  ASSUME U!Inv, NEW r \in Requests, U!Quiet,
         \/ U!Finish(r)
         \/ \E pc \in {"controller", "header", "create", "find", "write"} : U!Goto(r, pc)
         \/ U!At(r, "complete", "attempt") /\ U!Goto(r, "commit")
         \/ U!Goto(r, "attempt") /\ (U!Usable(reqU[r].token) \/ reqU[r].token \notin SetupTokens)
  PROVE  U!Inv'
<1>0. U!TypeOK BY DEF U!Inv
<1>1. CASE U!Finish(r)
  <2>1. ~U!Attempts(U!Idle) /\ U!Named(U!Idle) BY DEF U!Attempts, U!Named, U!Idle
  <2> QED BY <1>0, <1>1, <2>1, SetupFinishStep, SetupQuietStep
<1>2. CASE \E pc \in {"controller", "header", "create", "find", "write"} : U!Goto(r, pc)
  <2>1. PICK pc \in {"controller", "header", "create", "find", "write"} : U!Goto(r, pc) BY <1>2
  <2>2. LET q == [reqU[r] EXCEPT !.pc = pc] IN ~U!Attempts(q) /\ U!Named(q)
    <3>1. reqU[r] \in U!Records /\ U!Named(reqU[r])
      BY <1>0 DEF U!Inv, U!AllNamed, U!TypeOK, U!Records
    <3> QED BY <3>1 DEF U!Attempts, U!Named, U!Records
  <2>3. reqU' \in [Requests -> U!Records] /\ ~U!Attempts(reqU'[r]) /\ U!Named(reqU'[r])
        /\ \A o \in Requests \ {r} : reqU'[o] = reqU[o]
    BY <1>0, <2>1, <2>2, SetupGotoStep
  <2> QED BY <2>3, SetupQuietStep
<1>3. CASE U!At(r, "complete", "attempt") /\ U!Goto(r, "commit")
  <2>1. reqU[r] \in U!Records /\ U!Named(reqU[r]) BY <1>0 DEF U!Inv, U!AllNamed, U!TypeOK, U!Records
  <2>2. U!Attempts(reqU[r]) BY <1>3 DEF U!At, U!Attempts
  <2>3. LET q == [reqU[r] EXCEPT !.pc = "commit"] IN U!Named(q) /\ q.token = reqU[r].token
    BY <2>1 DEF U!Named, U!Records
  <2> QED BY <1>0, <1>3, <2>2, <2>3, SetupGotoStep, SetupQuietStep
<1>4. CASE U!Goto(r, "attempt") /\ (U!Usable(reqU[r].token) \/ reqU[r].token \notin SetupTokens)
  <2> DEFINE q == [reqU[r] EXCEPT !.pc = "attempt"]
  <2>1. q.token = reqU[r].token /\ U!Named(q)
    BY <1>0 DEF U!Inv, U!AllNamed, U!Named, U!TypeOK, U!Records
  <2>2. reqU' \in [Requests -> U!Records] /\ reqU'[r] = q
        /\ \A o \in Requests \ {r} : reqU'[o] = reqU[o]
    BY <1>0, <1>4, SetupGotoStep
  <2> HIDE DEF q
  <2>3. U!TypeOK' BY <2>2 DEF U!Inv, U!TypeOK, U!Quiet, U!Records
  <2>4. (U!OneAdministrator /\ U!Fresh /\ U!Marked)'
    BY DEF U!Inv, U!OneAdministrator, U!Fresh, U!Marked, U!Quiet
  <2>5. ASSUME q.token \in SetupTokens PROVE uses[q.token] = 0
    BY <1>4, <2>1, <2>5 DEF U!Inv, U!Marked, U!Usable
  <2>6. U!Held'
    <3> SUFFICES ASSUME NEW o \in Requests, U!Attempts(reqU'[o]),
                        reqU'[o].token \in SetupTokens \ reopened', uses'[reqU'[o].token] # 0
                 PROVE  "SYSTEM_ADMIN" \in roles'
      BY DEF U!Held
    <3>1. CASE o = r BY <2>2, <2>5, <3>1 DEF U!Quiet
    <3>2. CASE o # r BY <2>2, <3>2 DEF U!Inv, U!Held, U!Quiet
    <3> QED BY <3>1, <3>2
  <2>7. U!AllNamed' BY <2>1, <2>2 DEF U!Inv, U!AllNamed, U!Named
  <2> QED BY <2>3, <2>4, <2>6, <2>7 DEF U!Inv
<1> QED BY <1>1, <1>2, <1>3, <1>4

\* Requests of setup and of the roles come in.
LEMMA SetupAskSafe == ASSUME U!Inv, NEW r \in Requests, U!Ask(r) PROVE U!Inv'
<1>0. "SYSTEM_ADMIN" \in U!RoleNames BY DEF U!RoleNames
<1>1. CASE U!HttpGenerate(r) \/ U!CliGenerate(r)
  BY <1>0, <1>1, SetupBeginStep DEF U!HttpGenerate, U!CliGenerate
<1>2. ASSUME NEW t \in SetupTokens, NEW u \in Users, U!HttpComplete(r, t, u)
             \/ U!CliComplete(r, t, u)
      PROVE  U!Inv'
  BY <1>0, <1>2, SetupBeginStep DEF U!HttpComplete, U!CliComplete
<1>3. ASSUME NEW actor \in Users, NEW u \in Users, NEW n \in U!RoleNames,
             \/ U!HttpCreateRole(r, actor, n) \/ U!HttpDeleteRole(r, actor, n)
             \/ U!HttpAssign(r, actor, u, n) \/ U!HttpRemove(r, actor, u, n)
      PROVE  U!Inv'
  <2>1. \E op \in {"create", "delete", "assign", "remove"}, v \in Users \cup {AnyUser} :
          U!Begin(r, op, "find", AnyToken, v, n) /\ U!Quiet
    BY <1>3 DEF U!HttpCreateRole, U!HttpDeleteRole, U!HttpAssign, U!HttpRemove, U!ManageRole
  <2> QED BY <2>1, SetupBeginStep
<1> QED BY <1>1, <1>2, <1>3 DEF U!Ask

\* The guard, the checks and the lookups before a write.
LEMMA SetupCheckSafe ==
  ASSUME U!Inv, NEW r \in Requests,
         \/ U!Guard(r) \/ U!ValidateToken(r) \/ U!Controller(r) \/ U!Refuse(r)
         \/ U!FindToken(r) \/ U!RecordAttempt(r) \/ U!FindRole(r)
  PROVE  U!Inv'
<1>1. CASE U!Guard(r) BY <1>1, SetupMoveStep DEF U!Guard
<1>2. CASE U!ValidateToken(r) BY <1>2, SetupMoveStep DEF U!ValidateToken
<1>3. CASE U!Controller(r) BY <1>3, SetupMoveStep DEF U!Controller
<1>4. CASE U!Refuse(r) BY <1>4, SetupMoveStep DEF U!Refuse
<1>5. CASE U!FindToken(r) BY <1>5, SetupMoveStep DEF U!FindToken
<1>6. CASE U!RecordAttempt(r) BY <1>6, SetupMoveStep DEF U!RecordAttempt
<1>7. CASE U!FindRole(r) BY <1>7, SetupMoveStep DEF U!FindRole
<1> QED BY <1>1, <1>2, <1>3, <1>4, <1>5, <1>6, <1>7

-----------------------------------------------------------------------------
(* The writes. *)

\* A new token has made nobody an administrator.
LEMMA SetupCreateTokenSafe == ASSUME U!Inv, NEW r \in Requests, U!CreateToken(r) PROVE U!Inv'
<1>0. U!TypeOK /\ U!Finish(r) BY DEF U!Inv, U!CreateToken
<1>1. PICK t \in SetupTokens : token[t] = "none" /\ token' = [token EXCEPT ![t] = "new"]
  BY DEF U!CreateToken
<1>2. UNCHANGED <<expired, people, roles, holders, uses, setups, reopened>>
  BY DEF U!CreateToken, U!past
<1>3. U!TypeOK' BY <1>0, <1>1, <1>2, SetupFinishStep DEF U!TypeOK, U!Records
<1>4. (U!OneAdministrator /\ U!Fresh)' BY <1>2 DEF U!Inv, U!OneAdministrator, U!Fresh
<1>5. U!Marked' BY <1>0, <1>1, <1>2 DEF U!Inv, U!Marked, U!TypeOK
<1>6. U!Held' BY <1>0, <1>2, SetupFinishStep DEF U!Inv, U!Held, U!Attempts, U!Idle
<1>7. U!AllNamed' BY <1>0, SetupFinishStep DEF U!Inv, U!AllNamed, U!Named, U!Idle
<1> QED BY <1>3, <1>4, <1>5, <1>6, <1>7 DEF U!Inv

\* The transaction: the role is absent, so nothing was completed since it was last
\* deleted (Fresh), and the token at hand made nobody an administrator (Held).
LEMMA SetupCompleteSetupSafe == ASSUME U!Inv, NEW r \in Requests, U!CompleteSetup(r) PROVE U!Inv'
<1> DEFINE t == reqU[r].token
           u == reqU[r].user
<1>0. /\ U!TypeOK /\ U!Finish(r) /\ U!Attempts(reqU[r])
      /\ reqU' \in [Requests -> U!Records] /\ reqU'[r] = U!Idle /\ ~U!Attempts(U!Idle)
         /\ U!Named(U!Idle)
      /\ \A o \in Requests \ {r} : reqU'[o] = reqU[o]
  BY SetupFinishStep DEF U!Inv, U!CompleteSetup, U!At, U!Attempts, U!Named, U!Idle
<1>1. CASE ~U!Insertable(u)
  BY <1>0, <1>1, SetupQuietStep DEF U!CompleteSetup
<1>2. CASE U!Insertable(u)
  <2>1. /\ people' = people \cup {u} /\ roles' = roles \cup {"SYSTEM_ADMIN"}
        /\ holders' = [holders EXCEPT !["SYSTEM_ADMIN"] = @ \cup {u}]
        /\ token' = [token EXCEPT ![t] = "used"]
        /\ uses' = [uses EXCEPT ![t] = U!More(@)] /\ setups' = U!More(setups)
        /\ UNCHANGED <<expired, reopened>>
    BY <1>2 DEF U!CompleteSetup, U!MarkAsUsed
  <2>2. "SYSTEM_ADMIN" \notin roles /\ setups = 0 BY <1>2 DEF U!Inv, U!Fresh, U!Insertable
  <2>3. t \in SetupTokens \ reopened => uses[t] = 0
    BY <1>0, <2>2 DEF U!Inv, U!Held
  <2>4. u \in Users BY DEF U!Inv, U!AllNamed, U!Named, U!CompleteSetup, U!At
  <2>5. U!TypeOK'
    <3>1. /\ token' \in [SetupTokens -> {"none", "new", "used"}] /\ people' \subseteq Users
          /\ roles' \subseteq U!RoleNames /\ expired' \subseteq SetupTokens
      BY <1>0, <2>1, <2>4 DEF U!TypeOK, U!RoleNames
    <3>2. /\ holders' \in [U!RoleNames -> SUBSET people']
          /\ \A n \in U!RoleNames \ roles' : holders'[n] = {}
      BY <1>0, <2>1 DEF U!TypeOK, U!RoleNames
    <3>3. \A k : U!More(k) \in 0..2 BY DEF U!More
    <3>4. uses' \in [SetupTokens -> 0..2]
      <4> HIDE DEF t
      <4> QED BY <1>0, <2>1, <3>3 DEF U!TypeOK
    <3>5. setups' \in 0..2 /\ reopened' \subseteq SetupTokens \cup {AnyToken}
      BY <1>0, <2>1, <3>3 DEF U!TypeOK
    <3> QED BY <1>0, <3>1, <3>2, <3>4, <3>5 DEF U!TypeOK, U!Records
  <2>6. (U!OneAdministrator /\ U!Fresh)'
    BY <1>0, <2>1, <2>2, <2>3 DEF U!Inv, U!OneAdministrator, U!Fresh, U!TypeOK, U!More
  <2>7. U!Marked' BY <1>0, <2>1 DEF U!Inv, U!Marked, U!TypeOK
  <2>8. U!Held' BY <2>1 DEF U!Held
  <2>9. U!AllNamed' BY <1>0 DEF U!Inv, U!AllNamed, U!Named
  <2> QED BY <2>5, <2>6, <2>7, <2>8, <2>9 DEF U!Inv
<1> QED BY <1>1, <1>2

\* A write that ends its request and leaves tokens and history alone.
LEMMA SetupFinishSafe ==
  ASSUME U!Inv, NEW r \in Requests, U!Finish(r), UNCHANGED <<token, uses, setups, reopened>>,
         "SYSTEM_ADMIN" \in roles => "SYSTEM_ADMIN" \in roles'
  PROVE  (U!AllNamed /\ U!OneAdministrator /\ U!Fresh /\ U!Marked /\ U!Held)'
         /\ reqU' \in [Requests -> U!Records]
<1>0. /\ U!TypeOK /\ reqU' \in [Requests -> U!Records] /\ reqU'[r] = U!Idle
      /\ ~U!Attempts(U!Idle) /\ U!Named(U!Idle) /\ \A o \in Requests \ {r} : reqU'[o] = reqU[o]
  BY SetupFinishStep DEF U!Inv, U!Attempts, U!Named, U!Idle
<1>1. (U!OneAdministrator /\ U!Fresh /\ U!Marked)'
  BY DEF U!Inv, U!OneAdministrator, U!Fresh, U!Marked
<1>2. U!AllNamed' BY <1>0 DEF U!Inv, U!AllNamed
<1>3. U!Held' BY <1>0 DEF U!Inv, U!Held
<1> QED BY <1>0, <1>1, <1>2, <1>3

\* A role is created: it was not there, and nothing is said of one that is absent.
LEMMA SetupCreateRoleSafe == ASSUME U!Inv, NEW r \in Requests, U!CreateRole(r) PROVE U!Inv'
<1>1. /\ U!Finish(r) /\ UNCHANGED <<token, expired, people, holders, uses, setups, reopened>>
      /\ roles' = roles \cup {reqU[r].role}
  BY DEF U!CreateRole, U!tokenRows, U!past
<1>2. (U!AllNamed /\ U!OneAdministrator /\ U!Fresh /\ U!Marked /\ U!Held)'
      /\ reqU' \in [Requests -> U!Records]
  BY <1>1, SetupFinishSafe
<1>3. U!TypeOK' BY <1>1, <1>2 DEF U!Inv, U!TypeOK, U!Records
<1> QED BY <1>2, <1>3 DEF U!Inv

\* Connecting a user who is there to a role that is there.
LEMMA SetupAssignSafe == ASSUME U!Inv, NEW r \in Requests, U!AssignToUser(r) PROVE U!Inv'
<1>1. /\ U!Finish(r) /\ UNCHANGED <<token, expired, people, roles, uses, setups, reopened>>
      /\ holders' = IF reqU[r].role \in roles /\ reqU[r].user \in people
                    THEN [holders EXCEPT ![reqU[r].role] = @ \cup {reqU[r].user}] ELSE holders
  BY DEF U!AssignToUser, U!tokenRows, U!past
<1>2. (U!AllNamed /\ U!OneAdministrator /\ U!Fresh /\ U!Marked /\ U!Held)'
      /\ reqU' \in [Requests -> U!Records]
  BY <1>1, SetupFinishSafe
<1>3. holders' \in [U!RoleNames -> SUBSET people] /\ \A n \in U!RoleNames \ roles : holders'[n] = {}
  BY <1>1 DEF U!Inv, U!TypeOK
<1>4. U!TypeOK' BY <1>1, <1>2, <1>3 DEF U!Inv, U!TypeOK, U!Records
<1> QED BY <1>2, <1>4 DEF U!Inv

\* Disconnecting a user from a role.
LEMMA SetupRemoveSafe == ASSUME U!Inv, NEW r \in Requests, U!RemoveFromUser(r) PROVE U!Inv'
<1>1. /\ U!Finish(r) /\ UNCHANGED <<token, expired, people, roles, uses, setups, reopened>>
      /\ holders' = [holders EXCEPT ![reqU[r].role] = @ \ {reqU[r].user}]
  BY DEF U!RemoveFromUser, U!tokenRows, U!past
<1>2. (U!AllNamed /\ U!OneAdministrator /\ U!Fresh /\ U!Marked /\ U!Held)'
      /\ reqU' \in [Requests -> U!Records]
  BY <1>1, SetupFinishSafe
<1>3. holders' \in [U!RoleNames -> SUBSET people] /\ \A n \in U!RoleNames \ roles : holders'[n] = {}
  BY <1>1 DEF U!Inv, U!TypeOK
<1>4. U!TypeOK' BY <1>1, <1>2, <1>3 DEF U!Inv, U!TypeOK, U!Records
<1> QED BY <1>2, <1>4 DEF U!Inv

\* Deleting SYSTEM_ADMIN starts the count over, and a request it overtakes is one of
\* those that may use its token again.
LEMMA SetupDeleteRoleSafe == ASSUME U!Inv, NEW r \in Requests, U!DeleteRole(r) PROVE U!Inv'
<1> DEFINE n == reqU[r].role
<1>0. /\ U!TypeOK /\ U!Finish(r) /\ reqU' \in [Requests -> U!Records] /\ reqU'[r] = U!Idle
      /\ ~U!Attempts(U!Idle) /\ U!Named(U!Idle) /\ \A o \in Requests \ {r} : reqU'[o] = reqU[o]
  BY SetupFinishStep DEF U!Inv, U!DeleteRole, U!Attempts, U!Named, U!Idle
<1>1. /\ UNCHANGED <<token, expired, people, uses>>
      /\ roles' = roles \ {n} /\ holders' = [holders EXCEPT ![n] = {}]
  BY DEF U!DeleteRole, U!tokenRows
<1>2. CASE n = "SYSTEM_ADMIN" /\ "SYSTEM_ADMIN" \in roles
  <2>1. setups' = 0 /\ reopened' = reopened \cup {reqU[a].token : a \in U!Attempting}
    BY <1>2 DEF U!DeleteRole
  <2>2. U!Attempting = {a \in Requests : U!Attempts(reqU[a])} BY DEF U!Attempting, U!Attempts
  <2>3. U!TypeOK'
    <3>1. \A a \in Requests : reqU[a].token \in SetupTokens \cup {AnyToken}
      BY <1>0 DEF U!TypeOK, U!Records
    <3>2. setups' \in 0..2 /\ reopened' \subseteq SetupTokens \cup {AnyToken}
      BY <1>0, <2>1, <2>2, <3>1 DEF U!TypeOK
    <3> QED BY <1>0, <1>1, <3>2 DEF U!TypeOK, U!Records
  <2>4. (U!OneAdministrator /\ U!Fresh /\ U!Marked)'
    BY <1>1, <2>1 DEF U!Inv, U!OneAdministrator, U!Fresh, U!Marked
  <2>5. U!Held' BY <1>0, <1>1, <2>1, <2>2 DEF U!Held
  <2>6. U!AllNamed' BY <1>0 DEF U!Inv, U!AllNamed
  <2> QED BY <2>3, <2>4, <2>5, <2>6 DEF U!Inv
<1>3. CASE ~(n = "SYSTEM_ADMIN" /\ "SYSTEM_ADMIN" \in roles)
  <2>1. UNCHANGED <<setups, reopened>> BY <1>3 DEF U!DeleteRole
  <2>2. "SYSTEM_ADMIN" \in roles => "SYSTEM_ADMIN" \in roles' BY <1>1, <1>3
  <2>3. (U!AllNamed /\ U!OneAdministrator /\ U!Fresh /\ U!Marked /\ U!Held)'
    BY <1>0, <1>1, <2>1, <2>2, SetupFinishSafe
  <2>4. U!TypeOK' BY <1>0, <1>1, <2>1 DEF U!TypeOK, U!Records
  <2> QED BY <2>3, <2>4 DEF U!Inv
<1> QED BY <1>2, <1>3

\* Users come and go, and time passes.
LEMMA SetupWorldSafe ==
  ASSUME U!Inv,
         \/ \E t \in SetupTokens : U!Expire(t)
         \/ \E u \in Users : U!Register(u) \/ U!DeleteUser(u)
  PROVE  U!Inv'
<1>1. UNCHANGED <<token, roles, reqU, uses, setups, reopened>>
  BY DEF U!Expire, U!Register, U!DeleteUser, U!tokenRows, U!past
<1>2. (U!AllNamed /\ U!OneAdministrator /\ U!Fresh /\ U!Marked /\ U!Held)'
  BY <1>1 DEF U!Inv, U!AllNamed, U!Named, U!OneAdministrator, U!Fresh, U!Marked, U!Held, U!Attempts
<1>3. U!TypeOK'
  <2>1. CASE \E t \in SetupTokens : U!Expire(t) BY <1>1, <2>1 DEF U!Inv, U!TypeOK, U!Expire
  <2>2. CASE \E u \in Users : U!Register(u)
    BY <1>1, <2>2 DEF U!Inv, U!TypeOK, U!Register, U!tokenRows
  <2>3. CASE \E u \in Users : U!DeleteUser(u)
    BY <1>1, <2>3 DEF U!Inv, U!TypeOK, U!DeleteUser, U!Cascade, U!tokenRows
  <2> QED BY <2>1, <2>2, <2>3
<1> QED BY <1>2, <1>3 DEF U!Inv

-----------------------------------------------------------------------------
\* The invariant holds at first and is kept by every step.
LEMMA SetupInitially == U!Init => U!Inv
<1> SUFFICES ASSUME U!Init PROVE U!Inv OBVIOUS
<1>1. U!TypeOK BY SetupRecordTypes DEF U!Init, U!TypeOK, U!Records
<1>2. U!AllNamed /\ U!Held BY DEF U!Init, U!AllNamed, U!Named, U!Held, U!Attempts, U!Idle
<1>3. U!OneAdministrator /\ U!Fresh /\ U!Marked BY DEF U!Init, U!OneAdministrator, U!Fresh, U!Marked
<1> QED BY <1>1, <1>2, <1>3 DEF U!Inv

LEMMA SetupEveryStep == U!Inv /\ [U!Next]_(U!vars) => U!Inv'
<1> SUFFICES ASSUME U!Inv, [U!Next]_(U!vars) PROVE U!Inv' OBVIOUS
<1>1. ASSUME NEW r \in Requests, U!Ask(r) PROVE U!Inv' BY <1>1, SetupAskSafe
<1>2. ASSUME NEW r \in Requests, U!Step(r) PROVE U!Inv'
  BY <1>2, SetupCheckSafe, SetupCreateTokenSafe, SetupCompleteSetupSafe, SetupCreateRoleSafe,
     SetupAssignSafe,
     SetupRemoveSafe, SetupDeleteRoleSafe DEF U!Step
<1>3. CASE UNCHANGED U!vars
  BY <1>3 DEF U!Inv, U!vars, U!TypeOK, U!AllNamed, U!Named, U!OneAdministrator, U!Fresh, U!Marked,
     U!Held, U!Attempts
<1> QED BY <1>1, <1>2, <1>3, SetupWorldSafe DEF U!Next

(***************************************************************************)
(* Custom domains (module Domains).                                        *)
(***************************************************************************)

\* A step replaces the record of one request by another.
LEMMA DomainsOneRequest ==
  ASSUME D!TypeOK, NEW r \in Requests, NEW q \in D!Records, D!Become(r, q)
  PROVE  /\ reqD' \in [Requests -> D!Records] /\ reqD'[r] = q
         /\ \A o \in Requests \ {r} : reqD'[o] = reqD[o]
PROOF BY DEF D!TypeOK, D!Become, D!Records

LEMMA DomainsAnyHostIsHost == D!AnyHost \in Hosts
<1>1. Hosts # {} BY PlatformAssumption DEF D!DomainsAssumption
<1> QED BY <1>1, Zenon DEF D!AnyHost

LEMMA DomainsIdleRecord ==
  D!Idle \in D!Records /\ D!Idle.org = {} /\ D!Idle.op = "idle" /\ D!Idle.host \in Hosts
PROOF BY DomainsAnyHostIsHost DEF D!Idle, D!Records

\* A record that only moves on is still one.
LEMMA DomainsMovedRecord ==
  ASSUME NEW q \in D!Records,
         NEW pc \in {"dns", "certificate", "verified", "failed", "cache", "next"}
  PROVE  LET z == [q EXCEPT !.pc = pc]
         IN  z \in D!Records /\ z.op = q.op /\ z.pc = pc /\ z.id = q.id /\ z.host = q.host
           /\ z.org = q.org
PROOF BY DEF D!Records

\* What was rightful stays so while rows that prove it stay, and proofs only grow.
LEMMA DomainsStaysRightful ==
  ASSUME D!TypeOK, D!TypeOK', proved \subseteq proved', NEW h \in Hosts, h \in stale
         => h \in stale',
         \A i \in HostIds : rows[i].status = "VERIFIED" /\ rows[i].host = h =>
            rows'[i].status = "VERIFIED" /\ rows'[i].host = h /\ rows'[i].org = rows[i].org,
         NEW S, D!Rightful(h, S)
  PROVE  D!Rightful(h, S)'
<1>1. CASE h \in stale BY <1>1 DEF D!Rightful
<1>2. CASE S \subseteq D!RightfulOwners(h)
  <2>1. D!RightfulOwners(h) \subseteq D!RightfulOwners(h)'
    <3> SUFFICES ASSUME NEW i \in HostIds, i \in D!FindByDomain(h), i \in proved,
                        rows[i].status = "VERIFIED"
                 PROVE  rows[i].org \in D!RightfulOwners(h)'
      BY DEF D!RightfulOwners, D!FindByDomain
    <3>1. rows[i].host = h BY DEF D!FindByDomain
    <3>2. rows'[i].status = "VERIFIED" /\ rows'[i].host = h /\ rows'[i].org = rows[i].org
      BY <3>1
    <3>3. i \in D!FindByDomain(h)' /\ i \in proved' BY <3>2 DEF D!FindByDomain, D!Exists
    <3> QED BY <3>2, <3>3 DEF D!RightfulOwners
  <2> QED BY <1>2, <2>1 DEF D!Rightful
<1> QED BY <1>1, <1>2 DEF D!Rightful

\* A step of one request that leaves the rows, and the routes but for one that is rightful.
LEMMA DomainsQuietStep ==
  ASSUME D!Inv, UNCHANGED <<allowSSL, rows, certs, txt, stale>>,
         proved \subseteq proved', proved' \subseteq HostIds,
         NEW r \in Requests, NEW q \in D!Records, D!Become(r, q),
         D!Rightful(q.host, q.org), D!Backed(q)',
         route' \in [Hosts -> SUBSET HostOrgs],
         \A h \in Hosts : route'[h] = route[h] \/ D!Rightful(h, route'[h])
  PROVE  D!Inv'
<1>1. D!TypeOK BY DEF D!Inv
<1>2. D!TypeOK' BY <1>1, DomainsOneRequest DEF D!TypeOK
<1>3. \A h \in Hosts : \A S : D!Rightful(h, S) => D!Rightful(h, S)'
  BY <1>1, <1>2, DomainsStaysRightful
<1>4. ASSUME NEW h \in Hosts PROVE D!Rightful(h, route[h])'
  <2>1. D!Rightful(h, route'[h]) BY DEF D!Inv
  <2>2. PICK S : S = route'[h] OBVIOUS
  <2>3. D!Rightful(h, S)' BY <1>3, <2>1, <2>2
  <2> QED BY <2>2, <2>3 DEF D!Rightful, D!RightfulOwners, D!FindByDomain, D!Exists
<1>5. ASSUME NEW o \in Requests PROVE (D!Backed(reqD[o]) /\ D!Rightful(reqD[o].host, reqD[o].org))'
  <2>1. PICK z \in D!Records : z = reqD'[o] /\ D!Rightful(z.host, z.org) /\ D!Backed(z)'
    <3>1. CASE o = r BY <1>1, <3>1, DomainsOneRequest
    <3>2. CASE o # r
      <4>1. reqD'[o] = reqD[o] /\ reqD[o] \in D!Records
        BY <1>1, <3>2, DomainsOneRequest DEF D!TypeOK
      <4>2. PICK z \in D!Records : z = reqD[o] /\ D!Backed(z) BY <4>1 DEF D!Inv
      <4>3. D!Backed(z)' BY <4>2 DEF D!Backed
      <4> QED BY <4>1, <4>2, <4>3 DEF D!Inv
    <3> QED BY <3>1, <3>2
  <2>2. z.host \in Hosts /\ z.org \in SUBSET HostOrgs BY DEF D!Records
  <2>3. PICK h \in Hosts, S \in SUBSET HostOrgs : h = z.host /\ S = z.org BY <2>2
  <2>4. D!Rightful(h, S)' BY <1>3, <2>1, <2>3
  <2> QED BY <2>1, <2>3, <2>4 DEF D!Rightful, D!RightfulOwners, D!FindByDomain, D!Exists, D!Backed
<1>6. D!Genuine' BY DEF D!Inv, D!Genuine
<1> QED BY <1>2, <1>4, <1>5, <1>6 DEF D!Inv

-----------------------------------------------------------------------------
\* Requests begin, move on without a change of rows, and end.
LEMMA DomainsBeginSafe ==
  ASSUME D!Inv, UNCHANGED allowSSL, NEW r \in Requests,
         \/ \E i \in HostIds : D!HttpDeleteDomain(r, i) \/ D!HttpVerifyDomain(r, i)
         \/ \E h \in Hosts : D!Use(r, h) \/ D!Bypass(r, h)
         \/ D!Handle(r) \/ D!Fail(r)
  PROVE  D!Inv'
<1>1. D!TypeOK /\ D!Quiet
  BY DEF D!Inv, D!HttpDeleteDomain, D!DeleteDomain, D!HttpVerifyDomain, D!VerifyDomain, D!Use,
     D!Bypass,
     D!Handle, D!Fail
<1>2. SUFFICES \E q \in D!Records : D!Become(r, q) /\ D!Rightful(q.host, q.org) /\ D!Backed(q)
  <2>1. PICK q \in D!Records : D!Become(r, q) /\ D!Rightful(q.host, q.org) /\ D!Backed(q) BY <1>2
  <2>2. D!Backed(q)' BY <1>1, <2>1 DEF D!Backed, D!Quiet
  <2> QED BY <1>1, <2>1, <2>2, DomainsQuietStep DEF D!Quiet, D!TypeOK
<1>3. CASE \E i \in HostIds : D!HttpDeleteDomain(r, i) \/ D!HttpVerifyDomain(r, i)
  <2>1. PICK i \in HostIds : D!HttpDeleteDomain(r, i) \/ D!HttpVerifyDomain(r, i) BY <1>3
  <2>2. rows[i].host \in Hosts BY <1>1 DEF D!TypeOK, D!Rows
  <2>3. CASE D!HttpDeleteDomain(r, i)
    <3>1. PICK q \in D!Records : q = [D!Idle EXCEPT !.op = "delete", !.pc = "delete", !.id = i]
      BY DomainsIdleRecord DEF D!Records
    <3>2. q.op = "delete" /\ q.id = i /\ q.org = {}
      BY <3>1, DomainsIdleRecord DEF D!Records
    <3> QED BY <2>3, <3>1, <3>2 DEF D!HttpDeleteDomain, D!DeleteDomain, D!Rightful, D!Backed
  <2>4. CASE D!HttpVerifyDomain(r, i)
    <3>1. PICK q \in D!Records : q = [D!Idle EXCEPT !.op = "verify", !.pc = "dns", !.id = i,
            !.host = rows[i].host]
      BY <2>2, DomainsIdleRecord DEF D!Records
    <3>2. q.pc = "dns" /\ q.id = i /\ q.org = {}
      BY <3>1, <2>2, DomainsIdleRecord DEF D!Records
    <3> QED BY <2>4, <3>1, <3>2 DEF D!HttpVerifyDomain, D!VerifyDomain, D!Rightful, D!Backed
  <2> QED BY <2>1, <2>3, <2>4
<1>4. CASE \E h \in Hosts : D!Use(r, h) \/ D!Bypass(r, h)
  <2>1. PICK h \in Hosts : D!Use(r, h) \/ D!Bypass(r, h) BY <1>4
  <2>2. route[h] \in SUBSET HostOrgs /\ D!Rightful(h, route[h]) BY <1>1 DEF D!TypeOK, D!Inv
  <2>3. CASE D!Use(r, h)
    <3>1. PICK pc \in {"next", "find"} : pc = IF route[h] # {} THEN "next" ELSE "find" OBVIOUS
    <3>2. PICK q \in D!Records : q = [D!Idle EXCEPT !.op = "route", !.host = h, !.pc = pc,
            !.org = route[h]]
      BY <2>2, DomainsIdleRecord DEF D!Records
    <3>3. q.op = "route" /\ q.host = h /\ q.org = route[h]
      BY <3>2, <2>2, DomainsIdleRecord DEF D!Records
    <3> QED BY <2>2, <2>3, <3>1, <3>2, <3>3 DEF D!Use, D!Backed
  <2>4. CASE D!Bypass(r, h)
    <3>1. PICK q \in D!Records : q = [D!Idle EXCEPT !.op = "route", !.host = h, !.pc = "next"]
      BY DomainsIdleRecord DEF D!Records
    <3>2. q.op = "route" /\ q.org = {}
      BY <3>1, DomainsIdleRecord DEF D!Records
    <3> QED BY <2>4, <3>1, <3>2 DEF D!Bypass, D!Rightful, D!Backed
  <2> QED BY <2>1, <2>3, <2>4
<1>5. CASE D!Handle(r) \/ D!Fail(r)
  BY <1>5, DomainsIdleRecord DEF D!Handle, D!Fail, D!Finish, D!Rightful, D!Backed
<1> QED BY <1>3, <1>4, <1>5

\* A lookup finds only what is rightful, and what it found is cached.
LEMMA DomainsFindOrganizationSafe ==
  ASSUME D!Inv, UNCHANGED allowSSL, NEW r \in Requests, D!FindOrganization(r)
  PROVE  D!Inv'
<1>1. D!TypeOK /\ D!Quiet /\ reqD[r] \in D!Records /\ reqD[r].op = "route"
      /\ D!Rightful(reqD[r].host, reqD[r].org)
  BY DEF D!Inv, D!FindOrganization, D!TypeOK, D!At
<1>2. PICK h \in Hosts : h = reqD[r].host BY <1>1 DEF D!Records
<1>3. PICK S \in SUBSET HostOrgs : S = D!Owners(h)
  BY <1>1 DEF D!Owners, D!FindByDomain, D!TypeOK, D!Rows
<1>4. S \subseteq D!RightfulOwners(h)
  BY <1>3 DEF D!Owners, D!RightfulOwners, D!FindByDomain, D!Inv, D!Genuine
<1>5. SUFFICES \E q \in D!Records : D!Become(r, q) /\ D!Rightful(q.host, q.org) /\ q.op = "route"
  <2>1. PICK q \in D!Records : D!Become(r, q) /\ D!Rightful(q.host, q.org) /\ q.op = "route" BY <1>5
  <2>2. D!Backed(q)' BY <2>1 DEF D!Backed
  <2> QED BY <1>1, <2>1, <2>2, DomainsQuietStep DEF D!Quiet, D!TypeOK
<1>6. CASE D!Goto(r, "next")
  <2>1. PICK q \in D!Records : q = [reqD[r] EXCEPT !.pc = "next"]
    BY <1>1, DomainsMovedRecord
  <2>2. q.op = "route" /\ q.host = reqD[r].host /\ q.org = reqD[r].org
    BY <2>1, <1>1, DomainsMovedRecord DEF D!Records
  <2> QED BY <1>1, <1>6, <2>1, <2>2 DEF D!Goto
<1>7. CASE ~D!Goto(r, "next")
  <2>1. PICK pc \in {"cache", "next"} : pc = IF S # {} THEN "cache" ELSE "next" OBVIOUS
  <2>2. PICK q \in D!Records : q = [reqD[r] EXCEPT !.org = S, !.pc = pc]
    BY <1>1, <1>2, <1>3 DEF D!Records
  <2>3. q.op = "route" /\ q.host = h /\ q.org = S
    BY <2>2, <1>1, <1>2, <1>3 DEF D!Records
  <2> QED BY <1>2, <1>3, <1>4, <1>7, <2>1, <2>2, <2>3 DEF D!FindOrganization, D!Rightful
<1> QED BY <1>6, <1>7

LEMMA DomainsCacheOrganizationSafe ==
  ASSUME D!Inv, UNCHANGED allowSSL, NEW r \in Requests, D!CacheOrganization(r)
  PROVE  D!Inv'
<1>1. /\ D!TypeOK /\ reqD[r] \in D!Records /\ reqD[r].op = "route"
         /\ D!Rightful(reqD[r].host, reqD[r].org)
      /\ UNCHANGED <<rows, certs, txt, proved, stale>> /\ D!Goto(r, "next")
      /\ route' = [route EXCEPT ![reqD[r].host] = reqD[r].org]
  BY DEF D!Inv, D!CacheOrganization, D!TypeOK, D!At
<1>2. PICK q \in D!Records : q = [reqD[r] EXCEPT !.pc = "next"]
  BY <1>1, DomainsMovedRecord
<1>7. q.op = "route" /\ q.host = reqD[r].host /\ q.org = reqD[r].org
  BY <1>2, <1>1, DomainsMovedRecord DEF D!Records
<1>3. route' \in [Hosts -> SUBSET HostOrgs]
      /\ \A h \in Hosts : route'[h] = route[h] \/ (h = reqD[r].host /\ route'[h] = reqD[r].org)
  BY <1>1 DEF D!TypeOK, D!Records
<1>4. \A h \in Hosts : route'[h] = route[h] \/ D!Rightful(h, route'[h]) BY <1>1, <1>3
<1>5. D!Backed(q)' BY <1>7 DEF D!Backed
<1>6. proved \subseteq proved' /\ proved' \subseteq HostIds BY <1>1 DEF D!TypeOK
<1> QED BY <1>1, <1>2, <1>3, <1>4, <1>5, <1>6, <1>7, DomainsQuietStep DEF D!Goto

-----------------------------------------------------------------------------
\* A verification goes on only after its token was found.
LEMMA DomainsResolveDnsSafe ==
  ASSUME D!Inv, UNCHANGED allowSSL, NEW r \in Requests,
         D!ResolveDns(r) \/ D!ProvisionCertificate(r)
  PROVE  D!Inv'
<1>1. /\ D!TypeOK /\ reqD[r] \in D!Records /\ reqD[r].op = "verify" /\ reqD[r].id \in HostIds
      /\ D!Rightful(reqD[r].host, reqD[r].org) /\ D!Backed(reqD[r])
      /\ UNCHANGED <<rows, certs, txt, route, stale>>
  BY DEF D!Inv, D!ResolveDns, D!ProvisionCertificate, D!TypeOK, D!At, D!Backed, D!Quiet
<1>2. PICK pc \in {"certificate", "verified", "failed"} :
        D!Goto(r, pc) /\ (pc # "failed" => reqD[r].id \in proved')
  <2>1. CASE D!ResolveDns(r)
    <3>1. CASE D!Goto(r, "failed") BY <3>1
    <3>2. CASE ~D!Goto(r, "failed")
      <4>1. reqD[r].id \in proved' BY <2>1, <3>2 DEF D!ResolveDns, D!HasToken
      <4> QED BY <2>1, <3>2, <4>1 DEF D!ResolveDns
    <3> QED BY <3>1, <3>2
  <2>2. CASE D!ProvisionCertificate(r)
    BY <1>1, <2>2 DEF D!ProvisionCertificate, D!Backed, D!At, D!Quiet
  <2> QED BY <2>1, <2>2
<1>3. PICK q \in D!Records : q = [reqD[r] EXCEPT !.pc = pc]
  BY <1>1, DomainsMovedRecord
<1>6. q.pc = pc /\ q.id = reqD[r].id /\ q.op = "verify" /\ q.host = reqD[r].host
        /\ q.org = reqD[r].org
  BY <1>3, <1>1, DomainsMovedRecord DEF D!Records
<1>4. proved \subseteq proved' /\ proved' \subseteq HostIds
  BY <1>1 DEF D!ResolveDns, D!ProvisionCertificate, D!Quiet, D!TypeOK
<1>5. D!Backed(q)' BY <1>1, <1>2, <1>6 DEF D!Backed
<1> QED BY <1>1, <1>2, <1>3, <1>4, <1>5, <1>6, DomainsQuietStep DEF D!Goto, D!TypeOK

-----------------------------------------------------------------------------
\* A step that leaves the routes and the proofs and may change rows: who still believes in
\* a host must go on being right about it.
LEMMA DomainsRowStep ==
  ASSUME D!Inv, UNCHANGED <<route, proved>>, D!TypeOK', D!Genuine',
         \A h \in Hosts : D!Believed(h) => \A S : D!Rightful(h, S) => D!Rightful(h, S)',
         \A o \in Requests : reqD'[o] = reqD[o] \/ reqD'[o] = D!Idle
  PROVE  D!Inv'
<1>1. D!TypeOK BY DEF D!Inv
<1>2. \A h : D!Rightful(h, {})' BY DEF D!Rightful
<1>3. ASSUME NEW h \in Hosts PROVE D!Rightful(h, route[h])'
  <2>1. PICK S : S = route[h] OBVIOUS
  <2>2. D!Rightful(h, S)' BY <1>2, <2>1 DEF D!Inv, D!Believed
  <2> QED BY <2>1, <2>2 DEF D!Rightful, D!RightfulOwners, D!FindByDomain, D!Exists
<1>4. ASSUME NEW o \in Requests PROVE (D!Backed(reqD[o]) /\ D!Rightful(reqD[o].host, reqD[o].org))'
  <2>1. CASE reqD'[o] = reqD[o]
    <3>1. PICK h \in Hosts, S \in SUBSET HostOrgs : h = reqD[o].host /\ S = reqD[o].org
      BY <1>1 DEF D!TypeOK, D!Records
    <3>2. D!Rightful(h, S)' BY <1>2, <3>1 DEF D!Inv, D!Believed
    <3>3. D!Rightful(reqD[o].host, reqD[o].org)'
      BY <2>1, <3>1, <3>2 DEF D!Rightful, D!RightfulOwners, D!FindByDomain, D!Exists
    <3>4. D!Backed(reqD[o])' BY <2>1 DEF D!Inv, D!Backed
    <3> QED BY <3>3, <3>4
  <2>2. CASE reqD'[o] = D!Idle
    BY <2>2, DomainsIdleRecord DEF D!Rightful, D!Backed
  <2> QED BY <2>1, <2>2
<1> QED BY <1>3, <1>4 DEF D!Inv

LEMMA DomainsFinishedOne ==
  ASSUME D!TypeOK, NEW r \in Requests, D!Finish(r)
  PROVE  /\ reqD' \in [Requests -> D!Records]
         /\ \A o \in Requests : reqD'[o] = reqD[o] \/ reqD'[o] = D!Idle
PROOF BY DomainsIdleRecord, DomainsOneRequest DEF D!Finish

\* A row that is no longer verified leaves its host stale for whoever believes in it.
LEMMA DomainsLostRow ==
  ASSUME D!Inv, D!TypeOK', UNCHANGED proved, NEW i \in HostIds,
         \A j \in HostIds \ {i} : rows'[j] = rows[j],
         rows'[i].status # "VERIFIED",
         IF rows[i].status = "VERIFIED" THEN D!Withdraw(rows[i].host) ELSE UNCHANGED stale
  PROVE  /\ D!Genuine'
         /\ \A h \in Hosts : D!Believed(h) => \A S : D!Rightful(h, S) => D!Rightful(h, S)'
<1>1. D!TypeOK BY DEF D!Inv
<1>2. D!Genuine' BY DEF D!Inv, D!Genuine
<1>3. ASSUME NEW h \in Hosts, D!Believed(h), NEW S, D!Rightful(h, S) PROVE D!Rightful(h, S)'
  <2>1. CASE rows[i].status = "VERIFIED" /\ rows[i].host = h
    <3>1. D!Owners(h) # {} BY <2>1 DEF D!Owners, D!FindByDomain, D!Exists
    <3>2. h \in stale' BY <1>3, <2>1, <3>1 DEF D!Withdraw
    <3> QED BY <3>2 DEF D!Rightful
  <2>2. CASE ~(rows[i].status = "VERIFIED" /\ rows[i].host = h)
    <3>1. h \in stale => h \in stale' BY DEF D!Withdraw
    <3>2. \A j \in HostIds : rows[j].status = "VERIFIED" /\ rows[j].host = h =>
            rows'[j].status = "VERIFIED" /\ rows'[j].host = h /\ rows'[j].org = rows[j].org
      BY <2>2
    <3> QED BY <1>1, <1>3, <3>1, <3>2, DomainsStaysRightful
  <2> QED BY <2>1, <2>2
<1> QED BY <1>2, <1>3

LEMMA DomainsStaleHosts ==
  ASSUME D!TypeOK, NEW h \in Hosts, D!Withdraw(h)
  PROVE  stale' \subseteq Hosts
PROOF BY DEF D!TypeOK, D!Withdraw

LEMMA DomainsDeleteRowSafe ==
  ASSUME D!Inv, UNCHANGED allowSSL, NEW r \in Requests, D!DeleteRow(r) PROVE D!Inv'
<1>1. D!TypeOK /\ reqD[r].id \in HostIds /\ D!Finish(r) /\ UNCHANGED <<certs, txt, route, proved>>
  BY DEF D!Inv, D!DeleteRow, D!At, D!Backed
<1>2. PICK i \in HostIds : i = reqD[r].id BY <1>1
<1>3. CASE D!Exists(i) /\ i \notin certs
  <2>1. rows' = [rows EXCEPT ![i] = D!Gone]
        /\ (IF rows[i].status = "VERIFIED" THEN D!Withdraw(rows[i].host) ELSE UNCHANGED stale)
    BY <1>2, <1>3 DEF D!DeleteRow
  <2>2. D!Gone \in D!Rows /\ D!Gone.status # "VERIFIED"
    BY DomainsAnyHostIsHost, PlatformAssumption DEF D!Gone, D!Row, D!Rows, D!DomainsAssumption
  <2>3. rows' \in [HostIds -> D!Rows] /\ rows'[i] = D!Gone
          /\ \A j \in HostIds \ {i} : rows'[j] = rows[j]
    BY <1>1, <2>1, <2>2 DEF D!TypeOK
  <2>4. stale' \subseteq Hosts
    BY <1>1, <2>1, DomainsStaleHosts DEF D!TypeOK, D!Rows
  <2>5. D!TypeOK' BY <1>1, <2>3, <2>4, DomainsFinishedOne DEF D!TypeOK
  <2> QED BY <1>1, <2>1, <2>2, <2>3, <2>5, DomainsFinishedOne, DomainsLostRow, DomainsRowStep
<1>4. CASE ~(D!Exists(i) /\ i \notin certs)
  <2>1. UNCHANGED <<rows, stale>> BY <1>2, <1>4 DEF D!DeleteRow
  <2>2. D!TypeOK' BY <1>1, <2>1, DomainsFinishedOne DEF D!TypeOK
  <2>3. \A h \in Hosts : \A S : D!Rightful(h, S) => D!Rightful(h, S)'
    BY <1>1, <2>1, <2>2, DomainsStaysRightful
  <2> QED BY <1>1, <2>1, <2>2, <2>3, DomainsFinishedOne, DomainsRowStep DEF D!Inv, D!Genuine
<1> QED BY <1>3, <1>4

LEMMA DomainsWriteFailedSafe ==
  ASSUME D!Inv, UNCHANGED allowSSL, NEW r \in Requests, D!WriteFailed(r) PROVE D!Inv'
<1>1. D!TypeOK /\ reqD[r].id \in HostIds /\ D!Finish(r) /\ UNCHANGED <<certs, txt, route, proved>>
  BY DEF D!Inv, D!WriteFailed, D!At, D!Backed
<1>2. PICK i \in HostIds : i = reqD[r].id BY <1>1
<1>3. D!UpdateStatus(D!FindById(i), "FAILED")
      /\ (IF rows[i].status = "VERIFIED" THEN D!Withdraw(rows[i].host) ELSE UNCHANGED stale)
  BY <1>2 DEF D!WriteFailed
<1>4. rows' \in [HostIds -> D!Rows] /\ rows'[i].status # "VERIFIED"
      /\ \A j \in HostIds \ {i} : rows'[j] = rows[j]
  BY <1>1, <1>3 DEF D!UpdateStatus, D!FindById, D!Exists, D!TypeOK, D!Rows
<1>5. stale' \subseteq Hosts BY <1>1, <1>3, DomainsStaleHosts DEF D!TypeOK, D!Rows
<1>6. D!TypeOK' BY <1>1, <1>4, <1>5, DomainsFinishedOne DEF D!TypeOK
<1> QED BY <1>1, <1>3, <1>4, <1>6, DomainsFinishedOne, DomainsLostRow, DomainsRowStep

\* The row that is verified is the one whose token was found.
LEMMA DomainsWriteVerifiedSafe ==
  ASSUME D!Inv, UNCHANGED allowSSL, NEW r \in Requests, D!WriteVerified(r) PROVE D!Inv'
<1>1. /\ D!TypeOK /\ reqD[r] \in D!Records /\ reqD[r].op = "verify" /\ reqD[r].id \in HostIds
      /\ reqD[r].id \in proved /\ D!Rightful(reqD[r].host, reqD[r].org)
      /\ UNCHANGED <<txt, route, proved, stale>>
  BY DEF D!Inv, D!WriteVerified, D!At, D!Backed, D!TypeOK
<1>2. CASE D!UpdateStatus(D!RowOf(r), "VERIFIED") /\ D!Finish(r)
           /\ certs' = IF allowSSL THEN certs \cup D!RowOf(r) ELSE certs
  <2>1. PICK i \in HostIds : i = reqD[r].id /\ i \in proved /\ D!RowOf(r) \subseteq {i}
    BY <1>1 DEF D!RowOf, D!FindById
  <2>2. rows' \in [HostIds -> D!Rows] BY <1>1, <1>2 DEF D!UpdateStatus, D!TypeOK, D!Rows
  <2>3. \A j \in HostIds : rows'[j] = rows[j]
                            \/ (j = i /\ rows'[j] = [rows[j] EXCEPT !.status = "VERIFIED"])
    BY <1>2, <2>1 DEF D!UpdateStatus
  <2>4. ASSUME NEW j \in HostIds
        PROVE  /\ rows'[j].host = rows[j].host /\ rows'[j].org = rows[j].org
               /\ rows[j].status = "VERIFIED" => rows'[j].status = "VERIFIED"
    <3>1. PICK x \in D!Rows : x = rows[j] BY <1>1 DEF D!TypeOK
    <3>2. rows'[j] = x \/ rows'[j] = [x EXCEPT !.status = "VERIFIED"] BY <2>3, <3>1
    <3> QED BY <3>1, <3>2 DEF D!Rows
  <2>5. D!Genuine' BY <1>1, <2>1, <2>3 DEF D!Inv, D!Genuine
  <2>6. certs' \subseteq HostIds BY <1>1, <1>2, <2>1 DEF D!TypeOK
  <2>7. D!TypeOK' BY <1>1, <1>2, <2>2, <2>6, DomainsFinishedOne DEF D!TypeOK
  <2>8. \A h \in Hosts : \A S : D!Rightful(h, S) => D!Rightful(h, S)'
    BY <1>1, <2>4, <2>7, DomainsStaysRightful
  <2> QED BY <1>1, <1>2, <2>5, <2>7, <2>8, DomainsFinishedOne, DomainsRowStep
<1>3. CASE D!Goto(r, "failed") /\ UNCHANGED <<rows, certs>>
  <2>1. PICK q \in D!Records : q = [reqD[r] EXCEPT !.pc = "failed"] BY <1>1, DomainsMovedRecord
  <2>2. q.pc = "failed" /\ q.id = reqD[r].id /\ q.host = reqD[r].host /\ q.org = reqD[r].org
    BY <1>1, <2>1, DomainsMovedRecord
  <2>3. D!Backed(q)' BY <1>1, <2>2 DEF D!Backed
  <2> QED BY <1>1, <1>3, <2>1, <2>2, <2>3, DomainsQuietStep DEF D!Goto, D!TypeOK
<1> QED BY <1>2, <1>3 DEF D!WriteVerified

LEMMA DomainsAddDomainSafe ==
  ASSUME D!Inv, UNCHANGED allowSSL, NEW i \in HostIds, NEW h \in Hosts, NEW o \in HostOrgs,
         D!HttpAddDomain(i, h, o)
  PROVE  D!Inv'
<1>1. /\ D!TypeOK /\ rows[i] = D!Free /\ rows' = [rows EXCEPT ![i] = D!Row(h, o, "PENDING")]
      /\ UNCHANGED <<certs, txt, route, reqD, proved, stale>>
  BY DEF D!Inv, D!HttpAddDomain, D!AddDomain, D!Create
<1>2. D!Row(h, o, "PENDING") \in D!Rows /\ D!Row(h, o, "PENDING").status # "VERIFIED"
      /\ D!Free.status # "VERIFIED"
  BY DEF D!Row, D!Rows, D!Free
<1>3. rows' \in [HostIds -> D!Rows] /\ \A j \in HostIds : rows[j].status = "VERIFIED"
        => rows'[j] = rows[j]
  BY <1>1, <1>2 DEF D!TypeOK
<1>4. D!Genuine' BY <1>1, <1>2 DEF D!Inv, D!Genuine, D!TypeOK
<1>5. D!TypeOK' BY <1>1, <1>3 DEF D!TypeOK
<1>6. \A k \in Hosts : \A S : D!Rightful(k, S) => D!Rightful(k, S)'
  BY <1>1, <1>3, <1>5, DomainsStaysRightful
<1> QED BY <1>1, <1>4, <1>5, <1>6, DomainsRowStep

\* Publishing a record concerns nobody yet.
LEMMA DomainsPublishSafe ==
  ASSUME D!Inv, UNCHANGED allowSSL, NEW i \in HostIds, NEW h \in Hosts, D!Publish(h, i) PROVE D!Inv'
<1>1. UNCHANGED <<rows, certs, route, reqD, proved, stale>> BY DEF D!Publish
<1>2. D!TypeOK' BY DEF D!Inv, D!TypeOK, D!Publish
<1> QED
  BY <1>1, <1>2 DEF D!Inv, D!Genuine, D!Rightful, D!RightfulOwners, D!FindByDomain, D!Exists,
     D!Backed

\* A host is no longer stale once nothing cached or on its way is for it.
LEMMA DomainsExpireRouteSafe ==
  ASSUME D!Inv, UNCHANGED allowSSL, NEW h \in Hosts, D!ExpireRoute(h) PROVE D!Inv'
<1>1. D!TypeOK /\ route' = [route EXCEPT ![h] = {}] /\ UNCHANGED <<rows, certs, txt, reqD, proved>>
  BY DEF D!Inv, D!ExpireRoute
<1>2. stale' = stale
      \/ (stale' = stale \ {h} /\ \A r \in Requests : reqD[r].host = h => reqD[r].org = {})
  BY DEF D!ExpireRoute
<1>3. D!TypeOK' BY <1>1, <1>2 DEF D!TypeOK
<1>4. \A k, S : D!Rightful(k, S) /\ (k # h \/ S = {} \/ stale' = stale) => D!Rightful(k, S)'
  BY <1>1, <1>2 DEF D!Rightful, D!RightfulOwners, D!FindByDomain, D!Exists
<1>5. ASSUME NEW k \in Hosts PROVE D!Rightful(k, route[k])'
  <2>1. PICK S : S = route'[k] OBVIOUS
  <2>2. D!Rightful(k, S) /\ (k # h \/ S = {}) BY <1>1, <2>1 DEF D!Inv, D!TypeOK, D!Rightful
  <2>3. D!Rightful(k, S)' BY <1>4, <2>2
  <2> QED BY <2>1, <2>3 DEF D!Rightful, D!RightfulOwners, D!FindByDomain, D!Exists
<1>6. ASSUME NEW r \in Requests PROVE (D!Backed(reqD[r]) /\ D!Rightful(reqD[r].host, reqD[r].org))'
  <2>1. PICK k, S : k = reqD[r].host /\ S = reqD[r].org /\ D!Rightful(k, S) BY DEF D!Inv
  <2>2. D!Rightful(k, S)' BY <1>2, <1>4, <2>1
  <2>3. D!Rightful(reqD[r].host, reqD[r].org)'
    BY <1>1, <2>1, <2>2 DEF D!Rightful, D!RightfulOwners, D!FindByDomain, D!Exists
  <2> QED BY <1>1, <2>3 DEF D!Inv, D!Backed
<1>7. D!Genuine' BY <1>1 DEF D!Inv, D!Genuine
<1> QED BY <1>3, <1>5, <1>6, <1>7 DEF D!Inv

-----------------------------------------------------------------------------
LEMMA DomainsInitially == D!Init => D!Inv
<1> SUFFICES ASSUME D!Init PROVE D!Inv OBVIOUS
<1>1. D!Free \in D!Rows /\ D!Free.status # "VERIFIED"
  BY DomainsAnyHostIsHost, PlatformAssumption DEF D!Free, D!Row, D!Rows, D!DomainsAssumption
<1>2. D!TypeOK BY <1>1, DomainsIdleRecord DEF D!Init, D!TypeOK
<1>3. D!Genuine BY <1>1 DEF D!Init, D!Genuine
<1>4. \A h \in Hosts : D!Rightful(h, route[h]) BY DEF D!Init, D!Rightful
<1>5. D!Backed(D!Idle) /\ D!Rightful(D!Idle.host, D!Idle.org)
  BY DomainsIdleRecord DEF D!Backed, D!Rightful
<1> QED BY <1>2, <1>3, <1>4, <1>5 DEF D!Inv, D!Init

LEMMA DomainsEveryStep == D!Inv /\ [D!Next]_(D!vars) => D!Inv'
<1> SUFFICES ASSUME D!Inv, [D!Next]_(D!vars) PROVE D!Inv' OBVIOUS
<1>1. CASE UNCHANGED D!vars
  BY <1>1 DEF D!vars, D!Inv, D!TypeOK, D!Genuine, D!Rightful, D!RightfulOwners, D!FindByDomain,
     D!Exists, D!Backed
<1>2. CASE D!Next
  <2>1. UNCHANGED allowSSL BY <1>2 DEF D!Next
  <2>2. ASSUME NEW r \in Requests, D!Step(r) PROVE D!Inv'
    BY <2>1, <2>2, DomainsDeleteRowSafe, DomainsResolveDnsSafe, DomainsWriteVerifiedSafe,
       DomainsWriteFailedSafe,
       DomainsFindOrganizationSafe, DomainsCacheOrganizationSafe, DomainsBeginSafe
    DEF D!Step
  <2> QED
    BY <1>2, <2>1, <2>2, DomainsBeginSafe, DomainsPublishSafe, DomainsAddDomainSafe,
       DomainsExpireRouteSafe DEF D!Next
<1> QED BY <1>1, <1>2

LEMMA DomainsInvRoutesToOwner == D!Inv => D!RoutesToOwner
<1> SUFFICES ASSUME D!Inv, NEW r \in Requests, reqD[r].host \notin stale
             PROVE  D!Organization(r) \subseteq D!RightfulOwners(reqD[r].host) \cup {Default}
  BY DEF D!RoutesToOwner
<1> QED BY DEF D!Inv, D!Rightful, D!Organization

(***************************************************************************)
(* Start-up of several instances (module SystemInit).                      *)
(***************************************************************************)

\* The statements that make a table, in order.
LEMMA SystemInitTheStatements ==
  /\ I!Tables = {"custom_domains", "ssl_certificates"}
  /\ \A t \in I!Tables :
       /\ Len(I!Statements[t]) \in {3, 5}
       /\ I!Statements[t][1] = "table" /\ I!Statements[t][2] = "indexes"
       /\ I!Statements[t][3] = "fkey"
       /\ Len(I!Statements[t]) = 5 => I!Statements[t][4] = "enum" /\ I!Statements[t][5] = "status"
       /\ I!Whole(t) = {I!Statements[t][k] : k \in 1..Len(I!Statements[t])}
<1>1. I!Tables = {"custom_domains", "ssl_certificates"} BY DEF I!Tables, I!Statements
<1>2. I!Statements["custom_domains"] = <<"table", "indexes", "fkey", "enum", "status">>
      /\ I!Statements["ssl_certificates"] = <<"table", "indexes", "fkey">>
  BY DEF I!Statements
<1>3. DOMAIN I!Statements["custom_domains"] = 1..5 /\ DOMAIN I!Statements["ssl_certificates"] = 1..3
      /\ Len(I!Statements["custom_domains"]) = 5 /\ Len(I!Statements["ssl_certificates"]) = 3
  BY <1>2
<1>4. \A t \in I!Tables : I!Whole(t) = {I!Statements[t][k] : k \in 1..Len(I!Statements[t])}
  BY <1>1, <1>3 DEF I!Whole, I!ToSet
<1>5. ASSUME NEW t \in I!Tables
      PROVE  /\ Len(I!Statements[t]) \in {3, 5}
             /\ I!Statements[t][1] = "table" /\ I!Statements[t][2] = "indexes"
             /\ I!Statements[t][3] = "fkey"
             /\ Len(I!Statements[t]) = 5 => I!Statements[t][4] = "enum" /\ I!Statements[t][5] = "status"
  <2>1. CASE t = "custom_domains" BY <1>2, <1>3, <2>1
  <2>2. CASE t = "ssl_certificates" BY <1>2, <1>3, <2>2
  <2> QED BY <1>1, <2>1, <2>2
<1> QED BY <1>1, <1>4, <1>5

\* Which statement stands where.
LEMMA SystemInitPlaces ==
  ASSUME NEW t \in I!Tables, NEW k \in 1..Len(I!Statements[t])
  PROVE  /\ k \in 1..5 /\ I!Statements[t][k] \in {"table", "indexes", "fkey", "enum", "status"}
         /\ I!Statements[t][k] = "fkey" <=> k = 3
         /\ I!Statements[t][k] = "status" <=> k = 5
         /\ k = 5 => Len(I!Statements[t]) = 5
         /\ \A l \in 1..Len(I!Statements[t]) : I!Statements[t][k] = I!Statements[t][l] => k = l
<1>1. PICK n \in {3, 5} : n = Len(I!Statements[t]) BY SystemInitTheStatements
<1>2. \A m \in 1..n : m = 1 \/ m = 2 \/ m = 3 \/ (n = 5 /\ (m = 4 \/ m = 5))
  <2>1. n = 3 \/ n = 5 BY <1>1
  <2> QED BY <2>1
<1>3. k \in 1..n BY <1>1, Zenon
<1>4. /\ I!Statements[t][1] = "table" /\ I!Statements[t][2] = "indexes"
      /\ I!Statements[t][3] = "fkey"
      /\ n = 5 => I!Statements[t][4] = "enum" /\ I!Statements[t][5] = "status"
  BY <1>1, SystemInitTheStatements
<1>5. \A l \in 1..n : I!Statements[t][k] = I!Statements[t][l] => k = l BY <1>2, <1>3, <1>4
<1> QED BY <1>1, <1>2, <1>3, <1>4, <1>5

LEMMA SystemInitDownBoot ==
  I!Down \in I!Boot /\ I!Down.pc = "down" /\ I!Down.at = 1 /\ I!Down.name \in I!Names
PROOF BY DEF I!Down, I!Boot, I!Names

\* A step replaces the record of one instance by another.
LEMMA SystemInitOneBoot ==
  ASSUME I!TypeOK, NEW i \in Instances, NEW b \in I!Boot, I!Become(i, b)
  PROVE  /\ boot' \in [Instances -> I!Boot] /\ boot'[i] = b
         /\ \A j \in Instances \ {i} : boot'[j] = boot[j]
PROOF BY DEF I!TypeOK, I!Become, I!Boot

\* The instance goes on to look at a table, or is through with them.
LEMMA SystemInitLooks ==
  ASSUME NEW t \in I!Tables, NEW b, b = [I!Down EXCEPT !.pc = "check", !.name = t]
  PROVE  b \in I!Boot /\ b.pc = "check" /\ I!Reached(b)
<1>1. b \in I!Boot /\ b.pc = "check" /\ b.name = t /\ b.at = 1 BY SystemInitDownBoot DEF I!Boot
<1>2. 1 \in 1..Len(I!Statements[t]) /\ 1..(1 - 1) = {} BY SystemInitTheStatements
<1> QED BY <1>1, <1>2 DEF I!Reached

LEMMA SystemInitOnToNext ==
  ASSUME NEW i \in Instances, I!NextTable(i)
  PROVE  \E b \in I!Boot : I!Become(i, b) /\ b.pc \in {"check", "ownHost"} /\ I!Reached(b)
<1>1. PICK b : /\ I!Become(i, b)
               /\ \/ b = [I!Down EXCEPT !.pc = "check", !.name = "ssl_certificates"]
                  \/ b = [I!Down EXCEPT !.pc = "ownHost"]
  BY DEF I!NextTable
<1>2. CASE b = [I!Down EXCEPT !.pc = "check", !.name = "ssl_certificates"]
  <2>1. "ssl_certificates" \in I!Tables BY SystemInitTheStatements
  <2> QED BY <1>1, <1>2, <2>1, SystemInitLooks
<1>3. CASE b = [I!Down EXCEPT !.pc = "ownHost"]
  <2>1. b \in I!Boot /\ b.pc = "ownHost" BY <1>3, SystemInitDownBoot DEF I!Boot
  <2> QED BY <1>1, <2>1 DEF I!Reached
<1> QED BY <1>1, <1>2, <1>3

\* A step that leaves the tables as they are; who stops making one notes that it did.
LEMMA SystemInitSchemaKept ==
  ASSUME I!TypeOK, I!TypeOK', I!SchemaSound, I!Constrained,
         \A j \in Instances : I!Reached(boot[j]),
         UNCHANGED schema, torn \subseteq torn',
         NEW i \in Instances, NEW b \in I!Boot, I!Become(i, b), I!Reached(b),
         boot[i].pc # "make" \/ boot[i].name \in torn'
  PROVE  I!SchemaSound' /\ I!Constrained' /\ \A j \in Instances : I!Reached(boot[j])'
<1>1. \A j \in Instances \ {i} : boot'[j] = boot[j] BY SystemInitOneBoot
<1>2. \A t \in I!Tables \ torn' : I!Making(t) \subseteq I!Making(t)' BY <1>1 DEF I!Making
<1>3. I!SchemaSound' BY <1>2 DEF I!SchemaSound, I!InOrder, I!SchemaMade
<1>4. \A t \in I!Tables \ torn' : \A j \in I!Making(t) : boot'[j] = boot[j] BY <1>1 DEF I!Making
<1>5. I!Constrained' BY <1>2, <1>4 DEF I!Constrained
<1>6. ASSUME NEW j \in Instances PROVE I!Reached(boot[j])'
  <2>1. PICK z : z = boot'[j] /\ I!Reached(z) BY <1>1, SystemInitOneBoot
  <2> QED BY <2>1 DEF I!Reached
<1> QED BY <1>3, <1>5, <1>6

\* A step that leaves the roles and is not about to create one.
LEMMA SystemInitRolesKept ==
  ASSUME I!TypeOK, I!Complete, I!Once, \A j \in Instances : I!Upserted(boot[j]),
         UNCHANGED <<baseRoles, crossedI>>, permissions \subseteq permissions',
         NEW i \in Instances, NEW b \in I!Boot, I!Become(i, b), b.pc # "create", I!Upserted(b)'
  PROVE  I!Complete' /\ I!Once' /\ \A j \in Instances : I!Upserted(boot[j])'
<1>1. boot'[i] = b /\ \A j \in Instances \ {i} : boot'[j] = boot[j] BY SystemInitOneBoot
<1>2. \A n : I!Looking(n)' \subseteq I!Looking(n) /\ I!Find(n)' = I!Find(n)
  BY <1>1 DEF I!Looking, I!Find
<1>3. I!Once' BY <1>2 DEF I!Once
<1>4. ASSUME NEW j \in Instances PROVE I!Upserted(boot[j])'
  <2>1. PICK z : z = boot'[j] /\ I!Upserted(z)'
    <3>1. CASE j = i BY <1>1, <3>1
    <3>2. CASE j # i
      <4>1. PICK z : z = boot[j] /\ I!Upserted(z) OBVIOUS
      <4> QED BY <1>1, <3>2, <4>1 DEF I!Upserted
    <3> QED BY <3>1, <3>2
  <2> QED BY <2>1 DEF I!Upserted
<1> QED BY <1>3, <1>4 DEF I!Complete

\* A step of one instance that changes neither tables nor roles.
LEMMA SystemInitQuietBoot ==
  ASSUME I!Inv, UNCHANGED licensed, UNCHANGED <<schema, permissions, baseRoles, crossedI>>,
         torn \subseteq torn', torn' \subseteq I!Tables,
         ownHost' \in {"none", "unverified", "VERIFIED"},
         NEW i \in Instances, NEW b \in I!Boot, I!Become(i, b), b.pc # "create",
         I!Upserted(b), I!Reached(b), boot[i].pc # "make" \/ boot[i].name \in torn'
  PROVE  I!Inv'
<1>1. I!TypeOK BY DEF I!Inv
<1>2. I!TypeOK' BY <1>1, SystemInitOneBoot DEF I!TypeOK
<1>3. I!SchemaSound' /\ I!Constrained' /\ \A j \in Instances : I!Reached(boot[j])'
  BY <1>1, <1>2, SystemInitSchemaKept DEF I!Inv
<1>4. I!Upserted(b)' /\ permissions \subseteq permissions' BY DEF I!Upserted
<1>5. I!Complete' /\ I!Once' /\ \A j \in Instances : I!Upserted(boot[j])'
  BY <1>1, <1>4, SystemInitRolesKept DEF I!Inv
<1> QED BY <1>2, <1>3, <1>5 DEF I!Inv

----------------------------------------------------------------------------
\* Connecting, looking at the tables and the own host, and giving up.
LEMMA SystemInitConnectSafe ==
  ASSUME I!Inv, UNCHANGED licensed, NEW i \in Instances,
         I!OnModuleInit(i) \/ I!CheckTable(i) \/ I!FindOwnHost(i) \/ I!WriteOwnHost(i)
           \/ I!OnApplicationBootstrap(i)
  PROVE  I!Inv'
<1>1. /\ I!TypeOK /\ boot[i] \in I!Boot /\ boot[i].pc # "make"
      /\ UNCHANGED <<schema, torn, permissions, baseRoles, crossedI>>
      /\ ownHost' \in {"none", "unverified", "VERIFIED"}
  BY DEF I!Inv, I!TypeOK, I!OnModuleInit, I!CheckTable, I!FindOwnHost, I!WriteOwnHost,
     I!OnApplicationBootstrap, I!database, I!roles
<1>2. SUFFICES \E b \in I!Boot : I!Become(i, b) /\ b.pc # "create" /\ I!Upserted(b) /\ I!Reached(b)
  BY <1>1, <1>2, SystemInitQuietBoot DEF I!TypeOK
<1>3. \A b \in I!Boot : b.pc \notin {"check", "make", "upsert", "find", "create"} =>
        b.pc # "create" /\ I!Upserted(b) /\ I!Reached(b)
  BY DEF I!Upserted, I!Reached
<1>4. \A pc \in {"ownHost", "verify", "insert", "connected"} :
        LET b == [I!Down EXCEPT !.pc = pc] IN b \in I!Boot /\ b.pc = pc
  BY SystemInitDownBoot DEF I!Boot
<1>5. CASE I!OnModuleInit(i)
  <2>1. PICK b : b = [I!Down EXCEPT !.pc = "check", !.name = "custom_domains"] OBVIOUS
  <2>2. b \in I!Boot /\ b.pc = "check" /\ I!Reached(b)
    BY <2>1, SystemInitTheStatements, SystemInitLooks
  <2> QED BY <1>5, <2>1, <2>2 DEF I!OnModuleInit, I!Upserted
<1>6. CASE I!CheckTable(i)
  <2>1. CASE I!NextTable(i) BY <2>1, SystemInitOnToNext DEF I!Upserted
  <2>2. CASE ~I!NextTable(i)
    <3>1. PICK b : b = [boot[i] EXCEPT !.pc = "make"] OBVIOUS
    <3>2. b \in I!Boot /\ b.pc = "make" /\ b.name = boot[i].name /\ b.at = boot[i].at
      BY <1>1, <3>1 DEF I!Boot
    <3>3. I!Reached(boot[i]) /\ boot[i].pc = "check" BY <1>6 DEF I!Inv, I!CheckTable
    <3>4. I!Reached(b) BY <3>2, <3>3 DEF I!Reached
    <3> QED BY <1>6, <2>2, <3>1, <3>2, <3>4 DEF I!CheckTable, I!Upserted
  <2> QED BY <2>1, <2>2
<1>7. CASE I!FindOwnHost(i) \/ I!WriteOwnHost(i)
  <2>1. PICK pc \in {"ownHost", "verify", "insert", "connected"} : I!Become(i, [I!Down EXCEPT !.pc = pc])
    BY <1>7 DEF I!FindOwnHost, I!WriteOwnHost
  <2> QED BY <1>3, <1>4, <2>1
<1>8. CASE I!OnApplicationBootstrap(i)
  <2>1. CASE licensed
    <3>1. PICK b : b = [I!Down EXCEPT !.pc = "upsert", !.todo = Required] OBVIOUS
    <3>2. b \in I!Boot /\ b.pc = "upsert" /\ b.todo = Required /\ b.name \in I!Names
      BY <3>1, SystemInitDownBoot DEF I!Boot
    <3>3. I!Upserted(b) /\ I!Reached(b) BY <3>2 DEF I!Upserted, I!Reached
    <3> QED BY <1>8, <2>1, <3>1, <3>2, <3>3 DEF I!OnApplicationBootstrap, I!InitializeSystem
  <2>2. CASE ~licensed
    BY <1>3, <1>8, <2>2, SystemInitDownBoot DEF I!OnApplicationBootstrap, I!InitializeSystem
  <2> QED BY <2>1, <2>2
<1> QED BY <1>5, <1>6, <1>7, <1>8

\* A table is left half made only by who notes it, and past the last statement that can
\* succeed all is made.
LEMMA SystemInitMakeTableSafe ==
  ASSUME I!Inv, UNCHANGED licensed, NEW i \in Instances, I!MakeTable(i)
  PROVE  I!Inv'
<1>1. I!TypeOK /\ boot[i] \in I!Boot /\ boot[i].pc = "make" /\ I!Reached(boot[i])
      /\ UNCHANGED <<ownHost, torn, permissions, baseRoles, crossedI>>
  BY DEF I!Inv, I!TypeOK, I!MakeTable, I!roles
<1>2. PICK t \in I!Tables : t = boot[i].name BY <1>1 DEF I!Reached
<1>3. PICK at \in 1..Len(I!Statements[t]) : at = boot[i].at BY <1>1, <1>2 DEF I!Reached
<1>4. PICK s : s = I!Statements[t][at] OBVIOUS
<1>5. /\ \A k \in 1..(at - 1) : I!Statements[t][k] \in schema[t]
      /\ I!Whole(t) = {I!Statements[t][k] : k \in 1..Len(I!Statements[t])}
      /\ Len(I!Statements[t]) \in {3, 5} /\ s \in I!Whole(t) /\ i \in I!Making(t)
  BY <1>1, <1>2, <1>3, <1>4, SystemInitTheStatements DEF I!Reached, I!Making
<1>8. /\ at \in 1..5 /\ s \in {"table", "indexes", "fkey", "enum", "status"}
      /\ s = "fkey" <=> at = 3
      /\ s = "status" <=> at = 5
      /\ at = 5 => Len(I!Statements[t]) = 5
      /\ \A l \in 1..Len(I!Statements[t]) : I!Statements[t][l] = s => l = at
  BY <1>2, <1>3, <1>4, SystemInitPlaces
<1>6. CASE I!Refused(t, s)
  \* Somebody else added the constraint, and the rest is theirs; or only the status is left.
  <2>1. I!NextTable(i) /\ UNCHANGED schema BY <1>2, <1>3, <1>4, <1>6 DEF I!MakeTable
  <2>2. PICK b \in I!Boot : I!Become(i, b) /\ b.pc \in {"check", "ownHost"} /\ I!Reached(b)
    BY <2>1, SystemInitOnToNext
  <2>3. boot' \in [Instances -> I!Boot] /\ boot'[i] = b
        /\ \A j \in Instances \ {i} : boot'[j] = boot[j]
    BY <1>1, <2>2, SystemInitOneBoot
  <2>4. I!TypeOK' BY <1>1, <2>1, <2>3 DEF I!TypeOK
  <2>5. (boot[i].at = 3 /\ "fkey" \in schema[t]) \/ I!Made(t) \subseteq schema[t]
    <3>1. CASE s = "fkey" BY <1>3, <1>6, <1>8, <3>1 DEF I!Refused
    <3>2. CASE s = "status"
      <4>1. at = 5 /\ Len(I!Statements[t]) = 5 BY <1>8, <3>2
      <4>2. ASSUME NEW k \in 1..Len(I!Statements[t]), I!Statements[t][k] # "status"
            PROVE  I!Statements[t][k] \in schema[t]
        <5>1. k \in 1..(at - 1) BY <1>2, <4>1, <4>2, SystemInitPlaces
        <5> QED BY <1>5, <5>1
      <4> QED BY <1>5, <4>2 DEF I!Made
    <3> QED BY <1>6, <3>1, <3>2 DEF I!Refused
  <2>6. \A x \in I!Tables : I!Making(x)' = I!Making(x) \ {i} BY <2>2, <2>3 DEF I!Making
  <2>7. \A x \in I!Tables : ~(I!Made(x) \subseteq schema[x]) =>
           \A j \in I!Making(x) : boot[j].at > 3 => j # i
    BY <1>2, <2>5 DEF I!Making
  <2>8. I!Constrained'
    <3> SUFFICES ASSUME NEW x \in I!Tables \ torn, "fkey" \in schema[x],
                        ~(I!Made(x) \subseteq schema[x])
                 PROVE  \E j \in I!Making(x)' : boot'[j].at > 3
      BY <1>1, <2>1 DEF I!Constrained
    <3>1. PICK j \in I!Making(x) : boot[j].at > 3 BY DEF I!Inv, I!Constrained
    <3>2. j \in I!Making(x)' /\ boot'[j] = boot[j] BY <2>3, <2>6, <2>7, <3>1 DEF I!Making
    <3> QED BY <3>1, <3>2
  <2>9. I!SchemaSound'
    <3> SUFFICES ASSUME NEW x \in I!Tables \ torn, "table" \in schema[x],
                        ~(I!Made(x) \subseteq schema[x])
                 PROVE  I!Making(x)' # {}
      BY <1>1, <2>1 DEF I!Inv, I!SchemaSound, I!InOrder, I!SchemaMade
    <3>1. CASE x = t
      <4>1. "fkey" \in schema[t] BY <2>5, <3>1
      <4>2. \E j \in I!Making(t) : boot[j].at > 3
        BY <3>1, <4>1 DEF I!Inv, I!Constrained
      <4> QED BY <2>6, <2>7, <3>1, <4>2
    <3>2. CASE x # t
      <4>1. i \notin I!Making(x) BY <1>2, <3>2 DEF I!Making
      <4> QED BY <2>6, <4>1 DEF I!Inv, I!SchemaSound, I!SchemaMade
    <3> QED BY <3>1, <3>2
  <2>10. ASSUME NEW j \in Instances PROVE I!Reached(boot[j])'
    <3>1. PICK z : z = boot'[j] /\ I!Reached(z) BY <2>2, <2>3 DEF I!Inv
    <3> QED BY <2>1, <3>1 DEF I!Reached
  <2>11. I!Upserted(b)' /\ b.pc # "create" BY <2>2 DEF I!Upserted
  <2>12. I!Complete' /\ I!Once' /\ \A j \in Instances : I!Upserted(boot[j])'
    BY <1>1, <2>2, <2>11, SystemInitRolesKept DEF I!Inv
  <2> QED BY <2>4, <2>8, <2>9, <2>10, <2>12 DEF I!Inv
<1>7. CASE ~I!Refused(t, s)
  <2>1. schema' = [schema EXCEPT ![t] = @ \cup {s}] BY <1>2, <1>3, <1>4, <1>7 DEF I!MakeTable
  <2>2. schema' \in [I!Tables -> SUBSET {"table", "indexes", "fkey", "enum", "status"}]
        /\ schema'[t] = schema[t] \cup {s} /\ \A x \in I!Tables \ {t} : schema'[x] = schema[x]
    BY <1>1, <1>8, <2>1 DEF I!TypeOK
  <2>3. \A x \in I!Tables : schema'[x] \subseteq I!Whole(x) /\ schema[x] \subseteq schema'[x]
    BY <1>1, <1>5, <2>2 DEF I!TypeOK
  <2>4. \A b : I!Reached(b) => I!Reached(b)' BY <2>3 DEF I!Reached
  <2>7. I!InOrder'
    <3> SUFFICES ASSUME NEW x \in I!Tables, NEW k \in 1..Len(I!Statements[x]),
                        NEW l \in 1..Len(I!Statements[x]), k < l, I!Statements[x][l] \in schema'[x]
                 PROVE  I!Statements[x][k] \in schema'[x]
      BY DEF I!InOrder
    <3>1. CASE I!Statements[x][l] \in schema[x]
      BY <2>3, <3>1 DEF I!Inv, I!SchemaSound, I!InOrder
    <3>2. CASE I!Statements[x][l] \notin schema[x]
      <4>1. x = t /\ I!Statements[t][l] = s BY <2>2, <3>2
      <4>2. l = at BY <1>8, <4>1
      <4>3. k \in 1..5 /\ at \in 1..5 BY <1>8, <4>1, SystemInitPlaces
      <4>4. k \in 1..(at - 1) BY <4>2, <4>3
      <4> QED BY <1>5, <2>3, <4>1, <4>4
    <3> QED BY <3>1, <3>2
  <2>5. CASE at = Len(I!Statements[t])
    <3>1. I!NextTable(i) BY <1>2, <1>3, <1>4, <1>7, <2>5 DEF I!MakeTable
    <3>2. PICK b \in I!Boot : I!Become(i, b) /\ b.pc \in {"check", "ownHost"} /\ I!Reached(b)
      BY <3>1, SystemInitOnToNext
    <3>3. boot' \in [Instances -> I!Boot] /\ boot'[i] = b
          /\ \A j \in Instances \ {i} : boot'[j] = boot[j]
      BY <1>1, <3>2, SystemInitOneBoot
    <3>4. schema'[t] = I!Whole(t)
      <4>1. \A k \in 1..at : I!Statements[t][k] \in schema'[t]
        BY <1>4, <1>5, <2>2
      <4> QED BY <1>5, <2>3, <2>5, <4>1
    <3>5. I!TypeOK' BY <1>1, <2>2, <2>3, <3>3 DEF I!TypeOK
    <3>6. \A x \in I!Tables \ {t} : I!Making(x)' = I!Making(x)
          /\ \A j \in I!Making(x) : boot'[j] = boot[j]
      BY <1>2, <3>2, <3>3 DEF I!Making
    <3>7. I!Constrained' BY <1>1, <2>2, <3>4, <3>6 DEF I!Inv, I!Constrained, I!Made
    <3>8. I!SchemaSound'
      BY <1>1, <2>2, <2>7, <3>4, <3>6 DEF I!Inv, I!SchemaSound, I!SchemaMade, I!Made
    <3>9. ASSUME NEW j \in Instances PROVE I!Reached(boot[j])'
      <4>1. PICK z : z = boot'[j] /\ I!Reached(z) BY <3>2, <3>3 DEF I!Inv
      <4>2. I!Reached(z)' BY <2>4, <4>1
      <4> QED BY <4>1, <4>2 DEF I!Reached
    <3>10. I!Upserted(b)' /\ b.pc # "create" BY <3>2 DEF I!Upserted
    <3>11. I!Complete' /\ I!Once' /\ \A j \in Instances : I!Upserted(boot[j])'
      BY <1>1, <3>2, <3>10, SystemInitRolesKept DEF I!Inv
    <3> QED BY <3>5, <3>7, <3>8, <3>9, <3>11 DEF I!Inv
  <2>6. CASE at # Len(I!Statements[t])
    <3>1. I!Become(i, [boot[i] EXCEPT !.at = @ + 1])
      BY <1>2, <1>3, <1>4, <1>7, <2>6 DEF I!MakeTable
    <3>2. PICK b : b = [boot[i] EXCEPT !.at = @ + 1] OBVIOUS
    <3>3. at + 1 \in 1..5 /\ at + 1 \in 1..Len(I!Statements[t])
      <4>1. PICK n \in {3, 5} : n = Len(I!Statements[t]) BY <1>5
      <4>2. at \in 1..n /\ at # n BY <1>3, <2>6, <4>1, Zenon
      <4>3. at + 1 \in 1..5 /\ at + 1 \in 1..n
        <5>1. n = 3 \/ n = 5 BY <4>1
        <5> QED BY <4>2, <5>1
      <4> QED BY <4>1, <4>3, Zenon
    <3>4. b \in I!Boot /\ b.pc = "make" /\ b.name = t /\ b.at = at + 1
      BY <1>1, <1>2, <1>3, <3>2, <3>3 DEF I!Boot
    <3>5. boot' \in [Instances -> I!Boot] /\ boot'[i] = b
          /\ \A j \in Instances \ {i} : boot'[j] = boot[j]
      BY <1>1, <3>1, <3>2, <3>4, SystemInitOneBoot
    <3>6. I!TypeOK' BY <1>1, <2>2, <2>3, <3>5 DEF I!TypeOK
    <3>7. \A x \in I!Tables : I!Making(x)' = I!Making(x) BY <1>1, <1>2, <3>4, <3>5 DEF I!Making
    <3>8. I!SchemaSound'
      <4>1. I!Making(t)' # {} BY <1>5, <3>7
      <4> QED BY <1>1, <2>2, <2>7, <3>7, <4>1 DEF I!Inv, I!SchemaSound, I!SchemaMade
    <3>9. \A j \in Instances : boot[j].at > 3 => boot'[j].at > 3
      BY <1>3, <3>4, <3>5
    <3>10. I!Constrained'
      <4> SUFFICES ASSUME NEW x \in I!Tables \ torn, "fkey" \in schema'[x]
                   PROVE  I!Made(x) \subseteq schema'[x] \/ \E j \in I!Making(x)' : boot'[j].at > 3
        BY <1>1 DEF I!Constrained
      <4>1. CASE "fkey" \in schema[x]
        <5>1. I!Made(x) \subseteq schema[x] => I!Made(x) \subseteq schema'[x] BY <2>3
        <5> QED BY <3>7, <3>9, <4>1, <5>1 DEF I!Inv, I!Constrained, I!Making
      <4>2. CASE "fkey" \notin schema[x]
        <5>1. x = t /\ s = "fkey" BY <2>2, <4>2
        <5>2. at = 3 BY <1>8, <5>1
        <5> QED BY <1>5, <3>4, <3>5, <3>7, <5>1, <5>2
      <4> QED BY <4>1, <4>2
    <3>11. ASSUME NEW j \in Instances PROVE I!Reached(boot[j])'
      <4>1. CASE j = i
        <5>1. \A k \in 1..at : I!Statements[t][k] \in schema'[t] BY <1>4, <1>5, <2>2
        <5>2. 1..((at + 1) - 1) = 1..at OBVIOUS
        <5> QED BY <3>3, <3>4, <3>5, <4>1, <5>1, <5>2 DEF I!Reached
      <4>2. CASE j # i
        <5>1. PICK z : z = boot'[j] /\ I!Reached(z) BY <3>5, <4>2 DEF I!Inv
        <5>2. I!Reached(z)' BY <2>4, <5>1
        <5> QED BY <5>1, <5>2 DEF I!Reached
      <4> QED BY <4>1, <4>2
    <3>12. I!Upserted(b)' /\ b.pc # "create" BY <3>4 DEF I!Upserted
    <3>13. I!Complete' /\ I!Once' /\ \A j \in Instances : I!Upserted(boot[j])'
      BY <1>1, <3>1, <3>2, <3>4, <3>12, SystemInitRolesKept DEF I!Inv
    <3> QED BY <3>6, <3>8, <3>10, <3>11, <3>13 DEF I!Inv
  <2> QED BY <2>5, <2>6
<1> QED BY <1>6, <1>7

\* Whoever stops making a table notes it.
LEMMA SystemInitStopSafe ==
  ASSUME I!Inv, UNCHANGED licensed, NEW i \in Instances, I!MakingFails(i) \/ I!Stop(i)
  PROVE  I!Inv'
<1>1. /\ I!TypeOK /\ I!Reached(boot[i]) /\ UNCHANGED <<schema, ownHost, permissions, baseRoles, crossedI>>
      /\ torn' = IF boot[i].pc = "make" THEN torn \cup {boot[i].name} ELSE torn
  BY DEF I!Inv, I!MakingFails, I!Stop, I!roles
<1>2. torn \subseteq torn' /\ torn' \subseteq I!Tables
      /\ (boot[i].pc # "make" \/ boot[i].name \in torn')
  BY <1>1 DEF I!TypeOK, I!Reached
<1>3. \E b \in I!Boot : I!Become(i, b) /\ b.pc \in {"check", "ownHost", "down"} /\ I!Reached(b)
  <2>1. CASE I!NextTable(i) BY <2>1, SystemInitOnToNext
  <2>2. CASE I!Become(i, I!Down) BY <2>2, SystemInitDownBoot DEF I!Reached
  <2> QED BY <2>1, <2>2 DEF I!MakingFails, I!Stop
<1>4. PICK b \in I!Boot : I!Become(i, b) /\ b.pc \in {"check", "ownHost", "down"} /\ I!Reached(b)
  BY <1>3
<1>5. I!Upserted(b) BY <1>4 DEF I!Upserted
<1> QED BY <1>1, <1>2, <1>4, <1>5, SystemInitQuietBoot DEF I!TypeOK

LEMMA SystemInitEditOwnHostSafe == ASSUME I!Inv, UNCHANGED licensed, I!EditOwnHost PROVE I!Inv'
<1>1. UNCHANGED <<schema, torn, boot, permissions, baseRoles, crossedI>>
      /\ ownHost' \in {"unverified", "none"}
  BY DEF I!EditOwnHost, I!roles
<1>2. I!TypeOK' BY <1>1 DEF I!Inv, I!TypeOK
<1> QED
  BY <1>1, <1>2
  DEF I!Inv, I!Complete, I!Once, I!SchemaSound, I!InOrder, I!SchemaMade, I!Constrained,
           I!Making, I!Looking, I!Find, I!Upserted, I!Reached

----------------------------------------------------------------------------
\* The roles: permissions only grow, and are read when all are there.
LEMMA SystemInitPermissionsSafe ==
  ASSUME I!Inv, UNCHANGED licensed, NEW i \in Instances,
         I!InitializePermission(i) \/ I!ReadPermissions(i)
  PROVE  I!Inv'
<1>1. /\ I!TypeOK /\ boot[i] \in I!Boot /\ boot[i].pc = "upsert" /\ I!Upserted(boot[i])
      /\ UNCHANGED <<schema, ownHost, torn, baseRoles, crossedI>>
  BY DEF I!Inv, I!TypeOK, I!InitializePermission, I!ReadPermissions, I!Ready, I!database,
     I!roles
<1>2. /\ permissions \subseteq permissions' /\ permissions' \subseteq Required
      /\ \E b \in I!Boot : I!Become(i, b) /\ b.pc \in {"upsert", "find"} /\ I!Upserted(b)'
  <2>1. CASE I!InitializePermission(i)
    <3>1. PICK p \in boot[i].todo : /\ permissions' = permissions \cup {p}
                                    /\ I!Become(i, [boot[i] EXCEPT !.todo = @ \ {p}])
      BY <2>1 DEF I!InitializePermission, I!PermissionRow
    <3>2. PICK b : b = [boot[i] EXCEPT !.todo = @ \ {p}] OBVIOUS
    <3>3. b \in I!Boot /\ b.pc = "upsert" /\ b.todo = boot[i].todo \ {p} /\ p \in Required
          /\ b.name = boot[i].name
      BY <1>1, <3>1, <3>2 DEF I!Boot
    <3>4. I!Upserted(b)' BY <1>1, <3>1, <3>3 DEF I!Upserted
    <3> QED BY <1>1, <3>1, <3>2, <3>3, <3>4 DEF I!TypeOK
  <2>2. CASE I!ReadPermissions(i)
    <3>1. permissions = Required
      BY <1>1, <2>2 DEF I!ReadPermissions, I!Ready, I!Upserted, I!TypeOK
    <3>2. PICK b : b = [boot[i] EXCEPT !.pc = "find", !.read = permissions] OBVIOUS
    <3>3. b \in I!Boot /\ b.pc = "find" /\ b.read = Required /\ b.name = boot[i].name
      BY <1>1, <3>1, <3>2 DEF I!Boot
    <3>4. I!Upserted(b)' BY <1>1, <3>3 DEF I!Upserted
    <3> QED BY <1>1, <2>2, <3>1, <3>2, <3>3, <3>4 DEF I!ReadPermissions, I!roles
  <2> QED BY <2>1, <2>2
<1>3. PICK b \in I!Boot : I!Become(i, b) /\ b.pc \in {"upsert", "find"} /\ I!Upserted(b)'
  BY <1>2
<1>4. I!TypeOK' BY <1>1, <1>2, <1>3, SystemInitOneBoot DEF I!TypeOK
<1>5. I!Reached(b) BY <1>3 DEF I!Reached
<1>6. I!SchemaSound' /\ I!Constrained' /\ \A j \in Instances : I!Reached(boot[j])'
  BY <1>1, <1>3, <1>4, <1>5, SystemInitSchemaKept DEF I!Inv
<1>7. I!Complete' /\ I!Once' /\ \A j \in Instances : I!Upserted(boot[j])'
  BY <1>1, <1>2, <1>3, SystemInitRolesKept DEF I!Inv
<1> QED BY <1>4, <1>6, <1>7 DEF I!Inv

LEMMA SystemInitNextRoleRecord ==
  ASSUME I!TypeOK, NEW i \in Instances, I!Upserted(boot[i]), boot[i].pc \in {"find", "create"},
         I!NextRole(i)
  PROVE  \E b \in I!Boot : I!Become(i, b) /\ b.pc \in {"find", "down"} /\ I!Upserted(b)
<1>1. boot[i] \in I!Boot /\ boot[i].read = Required BY DEF I!TypeOK, I!Upserted
<1>2. CASE boot[i].name = "system_admin"
  <2>1. PICK b : b = [boot[i] EXCEPT !.pc = "find", !.name = "org_admin"] OBVIOUS
  <2>2. b \in I!Boot /\ b.pc = "find" /\ b.read = Required /\ b.name = "org_admin"
    BY <1>1, <2>1 DEF I!Boot, I!Names
  <2>3. I!Upserted(b) BY <2>2 DEF I!Upserted, I!Names
  <2> QED BY <1>2, <2>1, <2>2, <2>3 DEF I!NextRole
<1>3. CASE boot[i].name # "system_admin" BY <1>3, SystemInitDownBoot DEF I!NextRole, I!Upserted
<1> QED BY <1>2, <1>3

\* A role is looked for; who looks while another is about to create it crosses it.
LEMMA SystemInitFindRoleSafe ==
  ASSUME I!Inv, UNCHANGED licensed, NEW i \in Instances, I!FindRole(i)
  PROVE  I!Inv'
<1>1. /\ I!TypeOK /\ boot[i] \in I!Boot /\ boot[i].pc = "find" /\ I!Upserted(boot[i])
      /\ UNCHANGED <<schema, ownHost, torn, permissions, baseRoles>>
  BY DEF I!Inv, I!TypeOK, I!FindRole, I!database
<1>2. PICK n \in I!Names : n = boot[i].name BY <1>1 DEF I!Upserted
<1>3. CASE I!Find(n) # {}
  <2>1. I!NextRole(i) /\ UNCHANGED crossedI BY <1>2, <1>3 DEF I!FindRole
  <2>2. PICK b \in I!Boot : I!Become(i, b) /\ b.pc \in {"find", "down"} /\ I!Upserted(b)
    BY <1>1, <2>1, SystemInitNextRoleRecord
  <2>3. I!Reached(b) BY <2>2 DEF I!Reached
  <2> QED BY <1>1, <2>1, <2>2, <2>3, SystemInitQuietBoot DEF I!TypeOK
<1>4. CASE I!Find(n) = {}
  <2>1. /\ I!Become(i, [boot[i] EXCEPT !.pc = "create"])
        /\ crossedI' = IF I!Looking(n) # {} THEN crossedI \cup {n} ELSE crossedI
    BY <1>2, <1>4 DEF I!FindRole
  <2>2. PICK b : b = [boot[i] EXCEPT !.pc = "create"] OBVIOUS
  <2>3. b \in I!Boot /\ b.pc = "create" /\ b.name = n /\ b.read = boot[i].read
    BY <1>1, <1>2, <2>2 DEF I!Boot
  <2>4. boot' \in [Instances -> I!Boot] /\ boot'[i] = b
        /\ \A j \in Instances \ {i} : boot'[j] = boot[j]
    BY <1>1, <2>1, <2>2, <2>3, SystemInitOneBoot
  <2>5. I!TypeOK' BY <1>1, <2>1, <2>4 DEF I!TypeOK
  <2>6. I!Reached(b) BY <2>3 DEF I!Reached
  <2>7. I!SchemaSound' /\ I!Constrained' /\ \A j \in Instances : I!Reached(boot[j])'
    BY <1>1, <2>1, <2>2, <2>3, <2>5, <2>6, SystemInitSchemaKept DEF I!Inv
  <2>8. \A m \in I!Names : I!Find(m)' = I!Find(m)
          /\ I!Looking(m)' = IF m = n THEN I!Looking(m) \cup {i} ELSE I!Looking(m)
    BY <1>1, <1>2, <2>3, <2>4 DEF I!Find, I!Looking
  <2>9. I!Once'
    <3> SUFFICES ASSUME NEW m \in I!Names \ crossedI'
                 PROVE  /\ \A x, y \in I!Find(m)' : x = y
                        /\ \A j, k \in I!Looking(m)' : j = k
                        /\ I!Looking(m)' = {} \/ I!Find(m)' = {}
      BY DEF I!Once
    <3>1. m \in I!Names \ crossedI BY <2>1
    <3>2. CASE m = n
      <4>1. I!Looking(n) = {} BY <2>1, <3>2
      <4> QED BY <1>4, <2>8, <3>2, <4>1
    <3>3. CASE m # n BY <2>8, <3>1, <3>3 DEF I!Inv, I!Once
    <3> QED BY <3>2, <3>3
  <2>10. ASSUME NEW j \in Instances PROVE I!Upserted(boot[j])'
    <3>1. CASE j = i BY <1>1, <2>3, <2>4, <3>1 DEF I!Upserted
    <3>2. CASE j # i BY <1>1, <2>4, <3>2 DEF I!Inv, I!Upserted
    <3> QED BY <3>1, <3>2
  <2>11. I!Complete' BY <1>1 DEF I!Inv, I!Complete
  <2> QED BY <2>5, <2>7, <2>9, <2>10, <2>11 DEF I!Inv
<1> QED BY <1>3, <1>4

\* A role is created, with all its permissions, by the only one who looked for it.
LEMMA SystemInitCreateRoleSafe ==
  ASSUME I!Inv, UNCHANGED licensed, NEW i \in Instances, I!CreateRole(i)
  PROVE  I!Inv'
<1>1. /\ I!TypeOK /\ boot[i] \in I!Boot /\ boot[i].pc = "create" /\ I!Upserted(boot[i])
      /\ boot[i].read = Required /\ I!NextRole(i)
      /\ UNCHANGED <<schema, ownHost, torn, permissions, crossedI>>
  BY DEF I!Inv, I!TypeOK, I!CreateRole, I!database, I!Upserted
<1>2. PICK n \in I!Names : n = boot[i].name BY <1>1 DEF I!Upserted
<1>3. PICK a : a = I!RoleRow(n, i, Required) OBVIOUS
<1>4. baseRoles' = baseRoles \cup {a} BY <1>1, <1>2, <1>3 DEF I!CreateRole
<1>5. a \in [name: I!Names, maker: Instances, grants: SUBSET Required]
      /\ a.name = n /\ a.grants = I!Granted(n, Required)
  BY <1>3 DEF I!RoleRow, I!Granted
<1>6. PICK b \in I!Boot : I!Become(i, b) /\ b.pc \in {"find", "down"} /\ I!Upserted(b)
  BY <1>1, SystemInitNextRoleRecord
<1>7. boot' \in [Instances -> I!Boot] /\ boot'[i] = b
      /\ \A j \in Instances \ {i} : boot'[j] = boot[j]
  BY <1>1, <1>6, SystemInitOneBoot
<1>8. I!TypeOK' BY <1>1, <1>4, <1>5, <1>7 DEF I!TypeOK
<1>9. I!Reached(b) BY <1>6 DEF I!Reached
<1>10. I!SchemaSound' /\ I!Constrained' /\ \A j \in Instances : I!Reached(boot[j])'
  BY <1>1, <1>6, <1>8, <1>9, SystemInitSchemaKept DEF I!Inv
<1>11. I!Complete' BY <1>4, <1>5 DEF I!Inv, I!Complete
<1>12. ASSUME NEW j \in Instances PROVE I!Upserted(boot[j])'
  <2>1. PICK z : z = boot'[j] /\ I!Upserted(z) BY <1>6, <1>7 DEF I!Inv
  <2> QED BY <1>1, <2>1 DEF I!Upserted
<1>13. I!Once'
  <2> SUFFICES ASSUME NEW m \in I!Names \ crossedI
               PROVE  /\ \A x, y \in I!Find(m)' : x = y
                      /\ \A j, k \in I!Looking(m)' : j = k
                      /\ I!Looking(m)' = {} \/ I!Find(m)' = {}
    BY <1>1 DEF I!Once
  <2>1. I!Looking(m)' = I!Looking(m) \ {i} BY <1>6, <1>7 DEF I!Looking
  <2>2. CASE m = n
    <3>1. i \in I!Looking(n) BY <1>1, <1>2 DEF I!Looking
    <3>2. I!Looking(n) = {i} /\ I!Find(n) = {} BY <2>2, <3>1 DEF I!Inv, I!Once
    <3>3. I!Find(n)' = {a} BY <1>4, <1>5, <3>2 DEF I!Find
    <3> QED BY <2>1, <2>2, <3>2, <3>3
  <2>3. CASE m # n
    <3>1. I!Find(m)' = I!Find(m) BY <1>4, <1>5, <2>3 DEF I!Find
    <3> QED BY <2>1, <3>1 DEF I!Inv, I!Once
  <2> QED BY <2>2, <2>3
<1> QED BY <1>8, <1>10, <1>11, <1>12, <1>13 DEF I!Inv

----------------------------------------------------------------------------
LEMMA SystemInitInitially == I!Init => I!Inv
<1> SUFFICES ASSUME I!Init PROVE I!Inv OBVIOUS
<1>1. PICK d \in Deployments : schema = [t \in I!Tables |-> IF d.migrated THEN I!Whole(t) ELSE {}]
                               /\ licensed = d.licensed
  BY DEF I!Init
<1>2. d.licensed \in BOOLEAN BY PlatformAssumption DEF I!SystemInitAssumption
<1>3. \A t \in I!Tables : I!Whole(t) \subseteq {"table", "indexes", "fkey", "enum", "status"}
  <2> SUFFICES ASSUME NEW t \in I!Tables, NEW k \in 1..Len(I!Statements[t])
               PROVE  I!Statements[t][k] \in {"table", "indexes", "fkey", "enum", "status"}
    BY SystemInitTheStatements
  <2> QED BY SystemInitPlaces
<1>4. I!TypeOK BY <1>1, <1>2, <1>3, SystemInitDownBoot DEF I!Init, I!TypeOK
<1>5. I!Complete /\ I!Once
  BY SystemInitDownBoot DEF I!Init, I!Complete, I!Once, I!Looking, I!Find
<1>6. I!SchemaSound /\ I!Constrained
  BY <1>1, SystemInitTheStatements
  DEF I!SchemaSound, I!InOrder, I!SchemaMade, I!Constrained, I!Made
<1>7. I!Upserted(I!Down) /\ I!Reached(I!Down) BY SystemInitDownBoot DEF I!Upserted, I!Reached
<1> QED BY <1>4, <1>5, <1>6, <1>7 DEF I!Inv, I!Init

LEMMA SystemInitEveryStep == I!Inv /\ [I!Next]_(I!vars) => I!Inv'
<1> SUFFICES ASSUME I!Inv, [I!Next]_(I!vars) PROVE I!Inv' OBVIOUS
<1>1. CASE UNCHANGED I!vars
  BY <1>1
  DEF I!vars, I!Inv, I!TypeOK, I!Complete, I!Once, I!SchemaSound, I!InOrder, I!SchemaMade,
     I!Constrained,
     I!Making, I!Looking, I!Find, I!Upserted, I!Reached
<1> QED
  BY <1>1, SystemInitConnectSafe, SystemInitMakeTableSafe, SystemInitStopSafe,
     SystemInitEditOwnHostSafe, SystemInitPermissionsSafe,
     SystemInitFindRoleSafe, SystemInitCreateRoleSafe
  DEF I!Next, I!Boots

LEMMA SystemInitInvBaseRolesSound == I!Inv => I!BaseRolesSound
PROOF BY DEF I!Inv, I!BaseRolesSound, I!Complete, I!Once, I!Find, I!TypeOK

(***************************************************************************)
(* Subscriptions and billing (module Billing).                             *)
(***************************************************************************)

BillingOperations == {"idle", "create", "change", "cancel", "method"}
BillingPcs == {"find", "plan", "write", "bill", "prorate", "provider"}

\* A step replaces the record of one request by another.
LEMMA BillingOneRequest ==
  ASSUME B!TypeOK, NEW r \in Requests, NEW q \in B!Records, B!Become(r, q)
  PROVE  /\ reqB' \in [Requests -> B!Records] /\ reqB'[r] = q
         /\ \A o \in Requests \ {r} : reqB'[o] = reqB[o]
PROOF BY DEF B!TypeOK, B!Become, B!Records

LEMMA BillingPrices == B!AnyTerms \in Terms /\ \A t \in Terms : t.price \in Nat
<1>1. Terms # {} BY PlatformAssumption DEF B!BillingAssumption
<1>2. B!AnyTerms \in Terms BY <1>1, Zenon DEF B!AnyTerms
<1> QED BY <1>2, PlatformAssumption DEF B!BillingAssumption

\* The idle record, and a record that only moves on, are records.
LEMMA BillingMovedRecord ==
  /\ B!Idle \in B!Records
  /\ \A q \in B!Records : \A pc \in BillingPcs : [q EXCEPT !.pc = pc] \in B!Records
PROOF BY BillingPrices DEF B!Idle, B!Records, BillingPcs

\* Amounts, as numbers.
LEMMA BillingAmounts ==
  ASSUME B!TypeOK
  PROVE  /\ billed \in Nat /\ forgone \in Nat
         /\ \A q \in B!Records : q.old \in Nat /\ q.new.price \in Nat
         /\ \A p \in Plans : terms[p].price \in Nat
PROOF BY BillingPrices DEF B!TypeOK, B!Records

LEMMA BillingSums ==
  /\ B!TypeOK => billed + forgone \in Nat
  /\ B!TypeOK' => billed' + forgone' \in Nat
PROOF BY DEF B!TypeOK

\* The sum of what was billed and let go grows by k; a first bill is written, or let go,
\* or is still to come; no plan's price rises by more than k.
BillingGrows(k) ==
  /\ billed' + forgone' >= billed + forgone + k
  /\ \A o \in Requests : B!At(o, "create", "bill") =>
       \/ B!At(o, "create", "bill")' /\ reqB'[o].new = reqB[o].new
       \/ billed' + forgone' >= billed + forgone + k + reqB[o].new.price
  /\ \A p \in plans' :
       \/ p \in plans /\ terms'[p].price <= terms[p].price + k
       \/ B!Fresh(p) /\ p \notin plans

\* What was settled stays so, and the sum's growth settles as much more.
LEMMA BillingStaysSettled ==
  ASSUME B!TypeOK, B!TypeOK', NEW k \in Nat, BillingGrows(k),
         NEW n \in Nat, NEW m \in Nat, B!Settled(n, m),
         NEW n2 \in Nat, NEW m2 \in Nat, n2 + m <= n + m2 + k
  PROVE  B!Settled(n2, m2)'
<1>1. /\ billed \in Nat /\ forgone \in Nat /\ billed' \in Nat /\ forgone' \in Nat
      /\ \A o \in Requests : reqB[o].new.price \in Nat /\ reqB'[o].new.price \in Nat
  BY BillingAmounts, BillingPrices DEF B!TypeOK, B!Records
<1>2. CASE billed + forgone + m >= n
  <2>1. PICK a \in Nat, b \in Nat : a = billed + forgone /\ b = billed' + forgone'
    BY BillingSums
  <2>2. b >= a + k /\ a + m >= n BY <1>2, <2>1 DEF BillingGrows
  <2>3. b + m2 >= n2 BY <2>1, <2>2
  <2>4. billed' + forgone' + m2 >= n2 BY <2>1, <2>3
  <2> QED BY <2>4 DEF B!Settled
<1>3. ASSUME NEW o \in Requests, B!At(o, "create", "bill"), billed + forgone + m + reqB[o].new.price >= n
      PROVE  B!Settled(n2, m2)'
  <2>1. PICK price \in Nat : price = reqB[o].new.price BY <1>1
  <2>2. CASE B!At(o, "create", "bill")' /\ reqB'[o].new = reqB[o].new
    <3>1. PICK a \in Nat, b \in Nat : a = billed + forgone /\ b = billed' + forgone'
      BY BillingSums
    <3>2. b >= a + k /\ a + m + price >= n BY <1>3, <2>1, <3>1 DEF BillingGrows
    <3>3. b + m2 + price >= n2 BY <3>1, <3>2, <2>1
    <3>4. billed' + forgone' + m2 + price >= n2 BY <3>1, <3>3
    <3> QED BY <2>1, <2>2, <3>4 DEF B!Settled
  <2>3. CASE billed' + forgone' >= billed + forgone + k + price
    BY <1>1, <1>3, <2>1, <2>3 DEF B!Settled
  <2> QED BY <1>3, <2>1, <2>2, <2>3 DEF BillingGrows
<1> QED BY <1>2, <1>3 DEF B!Settled

\* So a request that does not move stays as settled as it was, whatever prices do.
LEMMA BillingChargedKept ==
  ASSUME B!TypeOK, B!TypeOK', NEW k \in Nat, BillingGrows(k),
         NEW o \in Requests, NEW q \in B!Records, q = reqB[o], B!Charged(q)
  PROVE  B!Charged(q)'
<1>1. q.old \in Nat /\ q.new.price \in Nat BY BillingAmounts
<1>2. q.op = "change" /\ q.pc = "plan" => B!Settled(q.old, 0)'
  <2> SUFFICES ASSUME B!Settled(q.old, 0) PROVE B!Settled(q.old, 0)' BY DEF B!Charged
  <2> QED BY <1>1, BillingStaysSettled
<1>3. ASSUME q.plan \in plans', q.pc \notin {"find", "plan"}
      PROVE  /\ q.op = "create" /\ q.pc = "write" =>
                  terms'[q.plan].price <= billed' + forgone' + q.new.price
             /\ B!Uncharged(q) => B!Settled(terms[q.plan].price + q.old, q.new.price)'
             /\ q.op = "change" /\ q.pc \in {"provider", "write"} /\ q.method =>
                  B!Settled(terms[q.plan].price, 0)'
  <2>1. q.plan \in plans BY <1>3 DEF BillingGrows, B!Fresh
  <2>2. PICK old \in Nat, new \in Nat :
          old = terms[q.plan].price /\ new = terms'[q.plan].price /\ new <= old + k
    <3>1. q.plan \in Plans /\ terms' \in [Plans -> Terms] BY <2>1 DEF B!TypeOK
    <3> QED BY <1>3, <2>1, <3>1, BillingAmounts, BillingPrices DEF BillingGrows
  <2>3. q.op = "create" /\ q.pc = "write" => new <= billed' + forgone' + q.new.price
    <3>1. billed \in Nat /\ forgone \in Nat /\ billed' \in Nat /\ forgone' \in Nat
      BY DEF B!TypeOK
    <3>2. q.op = "create" /\ q.pc = "write" => old <= billed + forgone + q.new.price
      BY <2>1, <2>2 DEF B!Charged
    <3>3. billed' + forgone' >= billed + forgone + k BY DEF BillingGrows
    <3>4. PICK a \in Nat, b \in Nat, c \in Nat :
            a = billed + forgone /\ b = billed' + forgone' /\ c = q.new.price
      BY <1>1, BillingSums
    <3>5. old <= a + c => new <= b + c BY <2>2, <3>3, <3>4
    <3> QED BY <3>2, <3>4, <3>5
  <2>4. B!Uncharged(q) => B!Settled(new + q.old, q.new.price)'
    <3>1. B!Uncharged(q) => B!Settled(old + q.old, q.new.price) BY <2>1, <2>2 DEF B!Charged
    <3>2. (new + q.old) + q.new.price <= (old + q.old) + q.new.price + k
          /\ new + q.old \in Nat /\ old + q.old \in Nat
      BY <1>1, <2>2
    <3> QED BY <1>1, <3>1, <3>2, BillingStaysSettled
  <2>5. q.op = "change" /\ q.pc \in {"provider", "write"} /\ q.method => B!Settled(new, 0)'
    <3>1. q.op = "change" /\ q.pc \in {"provider", "write"} /\ q.method => B!Settled(old, 0)
      BY <2>1, <2>2 DEF B!Charged
    <3> QED BY <2>2, <3>1, BillingStaysSettled
  <2> QED BY <2>2, <2>3, <2>4, <2>5 DEF B!Settled
<1> QED BY <1>2, <1>3 DEF B!Charged, B!Uncharged

\* And so does the plan on record.
LEMMA BillingPaidKept ==
  ASSUME B!TypeOK, B!TypeOK', NEW k \in Nat, BillingGrows(k), B!Paid,
         B!Exists' => B!Exists /\ row'.plan = row.plan /\ row.plan \in plans'
  PROVE  B!Paid'
<1> SUFFICES ASSUME B!Exists' PROVE row'.plan \in plans' /\ B!Settled(terms[row.plan].price, 0)'
  BY DEF B!Paid
<1>1. PICK p \in plans' : p = row.plan /\ p = row'.plan OBVIOUS
<1>2. p \in plans /\ B!Settled(terms[p].price, 0) BY <1>1 DEF B!Paid
<1>3. PICK old \in Nat, new \in Nat :
        old = terms[p].price /\ new = terms'[p].price /\ new <= old + k
  <2>1. p \in Plans /\ terms' \in [Plans -> Terms] BY <1>2 DEF B!TypeOK
  <2> QED BY <1>2, <2>1, BillingAmounts, BillingPrices DEF BillingGrows
<1>4. B!Settled(new, 0)' BY <1>2, <1>3, BillingStaysSettled
<1> QED BY <1>1, <1>3, <1>4 DEF B!Settled

\* A step that keeps the invariant's parts: one of a request, and one of nobody.
LEMMA BillingWritingStep ==
  ASSUME B!Inv, NEW r \in Requests, NEW q \in B!Records, B!Become(r, q),
         UNCHANGED B!plan_rows, over' \in BOOLEAN, billed' \in Nat, forgone' \in Nat,
         row' \in B!Rows \cup {B!NoRow}, B!Exists => B!Exists',
         NEW k \in Nat, BillingGrows(k), B!Paid', B!Charged(q)', B!Found(q)'
  PROVE  B!Inv'
<1>1. B!TypeOK BY DEF B!Inv
<1>2. B!TypeOK' BY <1>1, BillingOneRequest DEF B!TypeOK, B!plan_rows
<1>3. ASSUME NEW o \in Requests PROVE (B!Charged(reqB[o]) /\ B!Found(reqB[o]))'
  <2>1. PICK z \in B!Records : z = reqB'[o] /\ B!Charged(z)' /\ B!Found(z)'
    <3>1. CASE o = r BY <1>1, <3>1, BillingOneRequest
    <3>2. CASE o # r
      <4>1. PICK z \in B!Records : z = reqB[o] /\ B!Charged(z) /\ B!Found(z)
        BY <1>1 DEF B!Inv, B!TypeOK
      <4>2. z = reqB'[o] BY <1>1, <3>2, <4>1, BillingOneRequest
      <4>3. B!Charged(z)' BY <1>1, <1>2, <4>1, BillingChargedKept
      <4>4. B!Found(z)' BY <4>1 DEF B!Found
      <4> QED BY <4>2, <4>3, <4>4
    <3> QED BY <3>1, <3>2
  <2> QED BY <2>1 DEF B!Charged, B!Uncharged, B!Found, B!Exists, B!Settled
<1> QED BY <1>2, <1>3 DEF B!Inv

LEMMA BillingNobodysStep ==
  ASSUME B!Inv, B!TypeOK', UNCHANGED reqB, NEW k \in Nat, BillingGrows(k), B!Paid',
         B!Exists => B!Exists'
  PROVE  B!Inv'
<1>1. ASSUME NEW o \in Requests PROVE (B!Charged(reqB[o]) /\ B!Found(reqB[o]))'
  <2>1. PICK z \in B!Records : z = reqB[o] /\ B!Charged(z) /\ B!Found(z) BY DEF B!Inv, B!TypeOK
  <2>2. z = reqB'[o] /\ B!Charged(z)' /\ B!Found(z)'
    BY <2>1, BillingChargedKept DEF B!Inv, B!Found
  <2> QED BY <2>2 DEF B!Charged, B!Uncharged, B!Found, B!Exists, B!Settled
<1> QED BY <1>1 DEF B!Inv

\* A step of one request that leaves amounts: no first bill is pending for it.
LEMMA BillingQuietGrows ==
  ASSUME B!Inv, UNCHANGED B!plan_rows, UNCHANGED <<billed, forgone>>,
         NEW r \in Requests, NEW q \in B!Records, B!Become(r, q), ~B!At(r, "create", "bill")
  PROVE  BillingGrows(0)
<1>1. B!TypeOK BY DEF B!Inv
<1>2. billed' + forgone' >= billed + forgone + 0 BY <1>1 DEF B!TypeOK
<1>3. \A o \in Requests : B!At(o, "create", "bill") =>
        B!At(o, "create", "bill")' /\ reqB'[o].new = reqB[o].new
  BY <1>1, BillingOneRequest DEF B!At
<1>4. \A p \in plans' : p \in plans /\ terms'[p].price <= terms[p].price + 0
  <2>1. plans' = plans /\ terms' = terms BY DEF B!plan_rows
  <2> QED BY <1>1, <2>1, BillingAmounts DEF B!TypeOK
<1> QED BY <1>2, <1>3, <1>4 DEF BillingGrows

LEMMA BillingQuietStep ==
  ASSUME B!Inv, B!Quiet, NEW r \in Requests, NEW q \in B!Records, B!Become(r, q),
         ~B!At(r, "create", "bill"), B!Charged(q), B!Found(q)
  PROVE  B!Inv'
<1>1. B!TypeOK /\ B!Paid BY DEF B!Inv
<1>2. B!TypeOK' BY <1>1, BillingOneRequest DEF B!TypeOK, B!Quiet, B!plan_rows
<1>3. BillingGrows(0) BY BillingQuietGrows DEF B!Quiet
<1>4. B!Paid' BY <1>1, <1>2, <1>3, BillingPaidKept DEF B!Quiet, B!Exists, B!Paid, B!plan_rows
<1>5. B!Found(q)' BY DEF B!Found, B!Exists, B!Quiet
<1>6. B!Charged(q)'
  <2>1. plans' = plans /\ terms' = terms BY DEF B!Quiet, B!plan_rows
  <2>2. \A n, m \in Nat : B!Settled(n, m) => B!Settled(n, m)'
    BY <1>1, <1>2, <1>3, BillingStaysSettled
  <2>3. q.old \in Nat /\ q.new.price \in Nat BY <1>1, BillingAmounts
  <2>4. ASSUME q.plan \in plans PROVE terms[q.plan].price \in Nat /\ terms[q.plan].price + q.old \in Nat
    BY <1>1, <2>3, <2>4, BillingAmounts DEF B!TypeOK
  <2>5. B!Settled(q.old, 0) => B!Settled(q.old, 0)' BY <2>2, <2>3
  <2>6. ASSUME q.plan \in plans
        PROVE  /\ B!Settled(terms[q.plan].price, 0) => B!Settled(terms[q.plan].price, 0)'
               /\ B!Settled(terms[q.plan].price + q.old, q.new.price)
                    => B!Settled(terms[q.plan].price + q.old, q.new.price)'
    <3>1. PICK price \in Nat : price = terms[q.plan].price BY <2>4, <2>6
    <3>2. /\ B!Settled(price, 0) => B!Settled(price, 0)'
          /\ B!Settled(price + q.old, q.new.price) => B!Settled(price + q.old, q.new.price)'
      BY <2>2, <2>3, <2>4, <2>6, <3>1
    <3> QED BY <2>1, <3>1, <3>2 DEF B!Settled
  <2> QED BY <2>1, <2>5, <2>6 DEF B!Charged, B!Uncharged, B!Quiet
<1> QED
  BY <1>1, <1>2, <1>3, <1>4, <1>5, <1>6, BillingWritingStep DEF B!Quiet, B!TypeOK, B!Exists

----------------------------------------------------------------------------
\* A request begins, moves on without anything to remember, or ends.
LEMMA BillingArriveSafe == ASSUME B!Inv, NEW r \in Requests, B!Arrive(r) PROVE B!Inv'
<1>1. PICK op \in BillingOperations, p \in Plans \cup {NoPlan}, method, trial \in BOOLEAN :
        /\ op \in {"create", "change"} => p \in Plans
        /\ B!Begin(r, op, p, method, trial) /\ B!Quiet
  BY DEF B!Arrive, B!CreateSubscription, B!ChangePlan, B!CancelSubscription,
     B!UpdatePaymentMethod, BillingOperations
<1> DEFINE q == [B!Idle EXCEPT !.op = op, !.pc = "find", !.plan = p, !.method = method,
                               !.trial = trial]
<1>2. q \in B!Records /\ q.pc = "find" /\ q.plan = p /\ q.op = op
  BY BillingMovedRecord DEF B!Idle, B!Records, BillingOperations
<1>3. B!Charged(q) /\ B!Found(q) BY <1>1, <1>2 DEF B!Charged, B!Uncharged, B!Found
<1>4. B!Become(r, q) /\ ~B!At(r, "create", "bill") BY <1>1 DEF B!Begin, B!At, B!Idle
<1> HIDE DEF q
<1> QED BY <1>1, <1>2, <1>3, <1>4, BillingQuietStep

LEMMA BillingIdleKeeps == B!Charged(B!Idle) /\ B!Found(B!Idle) /\ (B!Charged(B!Idle) /\ B!Found(B!Idle))'
PROOF BY DEF B!Charged, B!Uncharged, B!Found, B!Idle

LEMMA BillingEndSafe ==
  ASSUME B!Inv, NEW r \in Requests, B!Quiet, ~B!At(r, "create", "bill"), B!Finish(r)
  PROVE  B!Inv'
PROOF BY BillingIdleKeeps, BillingMovedRecord, BillingQuietStep DEF B!Finish

LEMMA BillingMoveSafe ==
  ASSUME B!Inv, NEW r \in Requests, B!Quiet, ~B!At(r, "create", "bill"), NEW pc \in BillingPcs,
         B!Goto(r, pc),
         \A q \in B!Records : q = [reqB[r] EXCEPT !.pc = pc] => B!Charged(q) /\ B!Found(q)
  PROVE  B!Inv'
<1>1. reqB[r] \in B!Records BY DEF B!Inv, B!TypeOK
<1>2. PICK q \in B!Records : q = [reqB[r] EXCEPT !.pc = pc] BY <1>1, BillingMovedRecord
<1> QED BY <1>2, BillingQuietStep DEF B!Goto

LEMMA BillingMoved ==
  ASSUME NEW z \in B!Records, NEW pc \in BillingPcs, NEW q, q = [z EXCEPT !.pc = pc]
  PROVE  /\ q.op = z.op /\ q.pc = pc /\ q.plan = z.plan /\ q.old = z.old
         /\ q.new = z.new /\ q.method = z.method /\ q.trial = z.trial
PROOF BY DEF B!Records

LEMMA BillingLookupSafe ==
  ASSUME B!Inv, NEW r \in Requests,
         B!FindExisting(r) \/ B!FindForCancel(r) \/ B!FindForMethod(r) \/ B!UpdateProvider(r)
  PROVE  B!Inv'
<1>0. B!Quiet /\ reqB[r] \in B!Records /\ B!Charged(reqB[r]) /\ B!Found(reqB[r]) /\ ~B!At(r, "create", "bill")
  BY DEF B!FindExisting, B!FindForCancel, B!FindForMethod, B!UpdateProvider, B!Inv, B!TypeOK,
     B!At
<1>1. CASE B!Finish(r) BY <1>0, <1>1, BillingEndSafe
<1>2. CASE B!FindExisting(r) /\ B!Goto(r, "plan")
  <2>1. reqB[r].op = "create" BY <1>2 DEF B!FindExisting, B!At
  <2>2. \A q \in B!Records : q = [reqB[r] EXCEPT !.pc = "plan"] => B!Charged(q) /\ B!Found(q)
    BY <1>0, <2>1, BillingMoved DEF B!Charged, B!Uncharged, B!Found, BillingPcs
  <2> QED BY <1>0, <1>2, <2>2, BillingMoveSafe DEF BillingPcs
<1>3. CASE (B!FindForCancel(r) \/ B!FindForMethod(r)) /\ ~B!Finish(r)
  <2>1. PICK pc \in {"provider", "write"} : B!Goto(r, pc)
    BY <1>3 DEF B!FindForCancel, B!FindForMethod
  <2>2. reqB[r].op \in {"cancel", "method"} /\ B!Exists
    BY <1>3 DEF B!FindForCancel, B!FindForMethod, B!At
  <2>3. \A q \in B!Records : q = [reqB[r] EXCEPT !.pc = pc] => B!Charged(q) /\ B!Found(q)
    BY <1>0, <2>2, BillingMoved DEF B!Charged, B!Uncharged, B!Found, BillingPcs
  <2> QED BY <1>0, <2>1, <2>3, BillingMoveSafe DEF BillingPcs
<1>4. CASE B!UpdateProvider(r)
  <2>1. reqB[r].op = "change" /\ reqB[r].pc = "provider" /\ B!Goto(r, "write")
    BY <1>4 DEF B!UpdateProvider, B!At
  <2>2. \A q \in B!Records : q = [reqB[r] EXCEPT !.pc = "write"] => B!Charged(q) /\ B!Found(q)
    BY <1>0, <2>1, BillingMoved DEF B!Charged, B!Uncharged, B!Found, BillingPcs
  <2> QED BY <1>0, <2>1, <2>2, BillingMoveSafe DEF BillingPcs
<1> QED BY <1>1, <1>2, <1>3, <1>4 DEF B!FindExisting, B!FindForCancel, B!FindForMethod

\* A change is settled for the price it goes from; with the terms it read still to be
\* asked for, it is settled for both.
LEMMA BillingFindPlanSafe == ASSUME B!Inv, NEW r \in Requests, B!FindPlan(r) PROVE B!Inv'
<1>1. /\ B!Quiet /\ B!TypeOK /\ reqB[r] \in B!Records /\ B!Charged(reqB[r]) /\ B!Found(reqB[r])
      /\ reqB[r].pc = "plan"
  BY DEF B!FindPlan, B!Inv, B!TypeOK
<1>2. ~B!At(r, "create", "bill") BY <1>1 DEF B!At
<1>3. CASE B!Finish(r) BY <1>1, <1>2, <1>3, BillingEndSafe
<1>4. CASE ~B!Finish(r)
  <2>1. PICK p \in plans : p = reqB[r].plan BY <1>1, <1>4 DEF B!FindPlan, B!TypeOK
  <2>2. PICK t \in Terms : t = terms[p] BY <1>1, <2>1 DEF B!TypeOK
  <2>3. PICK pc \in {"prorate", "write"} :
          /\ pc = IF reqB[r].op = "change" /\ reqB[r].method THEN "prorate" ELSE "write"
          /\ B!Become(r, [reqB[r] EXCEPT !.new = t, !.pc = pc])
    BY <1>4, <2>1, <2>2 DEF B!FindPlan
  <2>4. PICK q : q = [reqB[r] EXCEPT !.new = t, !.pc = pc] OBVIOUS
  <2>5. /\ q \in B!Records /\ q.op = reqB[r].op /\ q.pc = pc /\ q.plan = p /\ q.new = t
        /\ q.old = reqB[r].old /\ q.method = reqB[r].method
    BY <1>1, <2>1, <2>3, <2>4 DEF B!Records
  <2>6. B!Found(q)
    <3>1. reqB[r].op \in {"create", "change"} /\ reqB[r].plan \in Plans BY <1>1 DEF B!Found
    <3>2. reqB[r].op = "change" => B!Exists BY <1>1 DEF B!Found
    <3> QED BY <2>1, <2>3, <2>5, <3>1, <3>2 DEF B!Found
  <2>7. billed \in Nat /\ forgone \in Nat /\ q.old \in Nat /\ t.price \in Nat
        /\ \A o \in Requests : reqB[o].new.price \in Nat
    BY <1>1, <2>2, <2>5, BillingAmounts, BillingPrices DEF B!TypeOK
  <2>8. t.price <= billed + forgone + t.price BY <2>7
  <2>9. q.op = "change" => B!Settled(t.price + q.old, t.price)
    <3> SUFFICES ASSUME q.op = "change" PROVE B!Settled(t.price + q.old, t.price) OBVIOUS
    <3>1. B!Settled(q.old, 0) BY <1>1, <2>5 DEF B!Charged
    <3>2. CASE billed + forgone + 0 >= q.old
      <4>1. billed + forgone + t.price >= t.price + q.old BY <2>7, <3>2
      <4> QED BY <4>1 DEF B!Settled
    <3>3. ASSUME NEW o \in Requests, B!At(o, "create", "bill"),
                 billed + forgone + 0 + reqB[o].new.price >= q.old
          PROVE  B!Settled(t.price + q.old, t.price)
      <4>1. billed + forgone + t.price + reqB[o].new.price >= t.price + q.old BY <2>7, <3>3
      <4> QED BY <3>3, <4>1 DEF B!Settled
    <3> QED BY <3>1, <3>2, <3>3 DEF B!Settled
  <2>10. B!Charged(q) BY <1>1, <2>2, <2>3, <2>5, <2>8, <2>9 DEF B!Charged, B!Uncharged
  <2> QED BY <1>1, <1>2, <2>3, <2>4, <2>5, <2>6, <2>10, BillingQuietStep
<1> QED BY <1>3, <1>4

\* The row of a new subscription is settled once its bill is written; what has a trial
\* or no payment method is let go.
LEMMA BillingInsertSafe == ASSUME B!Inv, NEW r \in Requests, B!Insert(r) PROVE B!Inv'
<1>1. B!TypeOK /\ reqB[r] \in B!Records /\ B!At(r, "create", "write") /\ ~B!At(r, "create", "bill")
      /\ B!Charged(reqB[r])
  BY DEF B!Insert, B!Inv, B!TypeOK, B!At
<1>2. CASE B!Exists \/ ~B!Writable(reqB[r]) BY <1>1, <1>2, BillingEndSafe DEF B!Insert
<1>3. CASE ~B!Exists /\ B!Writable(reqB[r])
  <2>1. PICK p \in plans, price \in Nat :
          p = reqB[r].plan /\ price = reqB[r].new.price /\ reqB[r].new.interval \in B!Intervals
    BY <1>1, <1>3, BillingAmounts DEF B!Writable
  <2>2. p \in Plans /\ terms[p].price \in Nat /\ billed \in Nat /\ forgone \in Nat
        /\ terms[p].price <= billed + forgone + price
    BY <1>1, <2>1, BillingAmounts DEF B!TypeOK, B!Charged, B!At
  <2>3. PICK n \in B!Rows : row' = n /\ n.plan = p
    <3>1. PICK s \in {"TRIALING", "ACTIVE"} : s = IF reqB[r].trial THEN "TRIALING" ELSE "ACTIVE"
      OBVIOUS
    <3>2. PICK n : n = B!SubscriptionRow(p, reqB[r].method, s, reqB[r].new.interval) OBVIOUS
    <3>3. n \in B!Rows /\ n.plan = p
      BY <1>1, <2>1, <2>2, <3>1, <3>2 DEF B!SubscriptionRow, B!Statuses, B!Rows, B!Records
    <3> QED BY <1>3, <2>1, <3>1, <3>2, <3>3 DEF B!Insert
  <2>4. /\ UNCHANGED B!plan_rows /\ billed' = billed /\ over' \in BOOLEAN /\ plans' = plans /\ terms' = terms
        /\ \/ B!Goto(r, "bill") /\ UNCHANGED forgone
           \/ B!Finish(r) /\ forgone' = forgone + price
    BY <1>3, <2>1 DEF B!Insert, B!plan_rows, B!Forgo
  <2>5. B!Exists'
    BY <2>2, <2>3, PlatformAssumption
    DEF B!Exists, B!NoRow, B!SubscriptionRow, B!BillingAssumption
  <2>6. PICK q \in B!Records : /\ B!Become(r, q)
                               /\ \/ q = [reqB[r] EXCEPT !.pc = "bill"] /\ UNCHANGED forgone
                                  \/ q = B!Idle /\ forgone' = forgone + price
    BY <1>1, <2>4, BillingMovedRecord DEF B!Goto, B!Finish, BillingPcs
  <2>7. forgone' \in Nat /\ billed' \in Nat /\ billed' + forgone' >= billed + forgone + 0
    BY <2>1, <2>2, <2>4
  <2>8. BillingGrows(0)
    <3>1. \A o \in Requests : B!At(o, "create", "bill") =>
            B!At(o, "create", "bill")' /\ reqB'[o].new = reqB[o].new
      BY <1>1, <2>6, BillingOneRequest DEF B!At
    <3>2. \A x \in plans' : x \in plans /\ terms'[x].price <= terms[x].price + 0
      BY <1>1, <2>4, BillingAmounts DEF B!TypeOK
    <3> QED BY <2>7, <3>1, <3>2 DEF BillingGrows
  <2>9. B!Settled(terms[p].price, 0)'
    <3>1. CASE q = B!Idle /\ forgone' = forgone + price
      <4>1. billed' + forgone' + 0 >= terms'[p].price BY <2>1, <2>2, <2>4, <3>1
      <4> QED BY <4>1 DEF B!Settled
    <3>2. CASE q = [reqB[r] EXCEPT !.pc = "bill"] /\ UNCHANGED forgone
      <4>1. reqB'[r] = q /\ q.op = "create" /\ q.pc = "bill" /\ q.new = reqB[r].new
        BY <1>1, <2>6, <3>2, BillingOneRequest, BillingMoved DEF B!At, BillingPcs
      <4>2. billed' + forgone' + 0 + reqB'[r].new.price >= terms'[p].price
        BY <2>1, <2>2, <2>4, <3>2, <4>1
      <4> QED BY <4>1, <4>2 DEF B!Settled, B!At
    <3> QED BY <2>6, <3>1, <3>2
  <2>10. B!Paid' BY <2>3, <2>4, <2>9 DEF B!Paid, B!Settled
  <2>11. B!Charged(q)' /\ B!Found(q)'
    <3>1. CASE q = B!Idle BY <3>1, BillingIdleKeeps DEF B!Charged, B!Uncharged, B!Found, B!Idle
    <3>2. CASE q = [reqB[r] EXCEPT !.pc = "bill"]
      <4>1. q.op = "create" /\ q.pc = "bill" /\ q.plan = p
        BY <1>1, <2>1, <3>2, BillingMoved DEF B!At, BillingPcs
      <4> QED BY <2>2, <4>1 DEF B!Charged, B!Uncharged, B!Found
    <3> QED BY <2>6, <3>1, <3>2
  <2> QED BY <2>3, <2>4, <2>5, <2>6, <2>7, <2>8, <2>10, <2>11, BillingWritingStep
<1> QED BY <1>2, <1>3

\* The manual provider takes the whole amount.
LEMMA BillingBilled == ASSUME NEW n, B!CreateBillingRecord(n) PROVE billed' = billed + n
PROOF BY DEF B!CreateBillingRecord, B!ProcessPayment, B!Outcomes

\* The first bill is written, or is let go where it fails.
LEMMA BillingBillSafe ==
  ASSUME B!Inv, NEW r \in Requests, B!BillCreated(r) \/ B!Fail(r)
  PROVE  B!Inv'
<1>1. B!TypeOK /\ reqB[r] \in B!Records /\ B!Become(r, B!Idle) /\ B!Idle \in B!Records
      /\ UNCHANGED B!plan_rows /\ UNCHANGED <<row, over>>
  BY BillingMovedRecord DEF B!Inv, B!TypeOK, B!BillCreated, B!Fail, B!Finish
<1>2. PICK price \in Nat : price = reqB[r].new.price BY <1>1, BillingAmounts
<1>3. billed \in Nat /\ forgone \in Nat BY <1>1 DEF B!TypeOK
<1>4. /\ billed' \in Nat /\ forgone' \in Nat /\ billed' + forgone' >= billed + forgone + 0
      /\ B!At(r, "create", "bill") => billed' + forgone' >= billed + forgone + 0 + price
  <2>1. CASE B!BillCreated(r)
    <3>1. billed' = billed + price /\ forgone' = forgone
      BY <1>2, <2>1, BillingBilled DEF B!BillCreated
    <3> QED BY <1>2, <1>3, <3>1
  <2>2. CASE B!Fail(r) BY <1>2, <1>3, <2>2 DEF B!Fail, B!Forgo
  <2> QED BY <2>1, <2>2
<1>5. plans' = plans /\ terms' = terms BY <1>1 DEF B!plan_rows
<1>6. BillingGrows(0)
  <2>1. \A x \in plans' : x \in plans /\ terms'[x].price <= terms[x].price + 0
    BY <1>1, <1>5, BillingAmounts DEF B!TypeOK
  <2>2. \A o \in Requests \ {r} : B!At(o, "create", "bill") =>
          B!At(o, "create", "bill")' /\ reqB'[o].new = reqB[o].new
    BY <1>1, BillingOneRequest DEF B!At
  <2> QED BY <1>2, <1>4, <2>1, <2>2 DEF BillingGrows
<1>7. B!TypeOK' BY <1>1, <1>4, BillingOneRequest DEF B!TypeOK, B!plan_rows
<1>8. B!Paid' BY <1>1, <1>5, <1>6, <1>7, BillingPaidKept DEF B!Inv, B!Exists, B!Paid
<1> QED BY <1>1, <1>4, <1>6, <1>8, BillingIdleKeeps, BillingWritingStep DEF B!TypeOK, B!Exists

----------------------------------------------------------------------------
\* The price a change goes from is the one on record, which was settled.
LEMMA BillingFindForChangeSafe ==
  ASSUME B!Inv, NEW r \in Requests, B!FindForChange(r)
  PROVE  B!Inv'
<1>1. B!TypeOK /\ reqB[r] \in B!Records /\ B!At(r, "change", "find") /\ B!Quiet /\ ~B!At(r, "create", "bill")
      /\ B!Found(reqB[r])
  BY DEF B!FindForChange, B!Inv, B!TypeOK, B!At
<1>2. CASE ~B!Exists BY <1>1, <1>2, BillingEndSafe DEF B!FindForChange
<1>3. CASE B!Exists
  <2>1. row \in B!Rows /\ row.plan \in Plans /\ B!Settled(terms[row.plan].price, 0)
    BY <1>1, <1>3 DEF B!Inv, B!TypeOK, B!Paid, B!Exists
  <2>2. PICK old \in Nat, method \in BOOLEAN : old = terms[row.plan].price /\ method = row.method
    BY <1>1, <2>1, BillingAmounts DEF B!Rows
  <2>3. PICK q : q = [reqB[r] EXCEPT !.pc = "plan", !.old = old, !.method = method] OBVIOUS
  <2>4. B!Become(r, q) BY <1>3, <2>2, <2>3 DEF B!FindForChange
  <2>5. q \in B!Records /\ q.old = old /\ q.op = "change" /\ q.pc = "plan" /\ q.plan = reqB[r].plan
    BY <1>1, <2>2, <2>3 DEF B!Records, B!At
  <2>6. B!Charged(q) /\ B!Found(q)
    BY <1>1, <1>3, <2>1, <2>2, <2>5 DEF B!Charged, B!Uncharged, B!Found, B!At
  <2> QED BY <1>1, <2>4, <2>5, <2>6, BillingQuietStep
<1> QED BY <1>2, <1>3

\* Charging the difference, or letting it go, settles the new plan.
LEMMA BillingHandlePlanChangeSafe ==
  ASSUME B!Inv, NEW r \in Requests, B!HandlePlanChange(r)
  PROVE  B!Inv'
<1>1. B!TypeOK /\ reqB[r] \in B!Records /\ B!At(r, "change", "prorate") /\ B!Goto(r, "provider")
      /\ UNCHANGED B!plan_rows /\ UNCHANGED <<row, over>> /\ B!Charged(reqB[r]) /\ B!Found(reqB[r])
  BY DEF B!HandlePlanChange, B!Inv, B!TypeOK
<1>2. PICK old \in Nat, new \in Nat : old = reqB[r].old /\ new = reqB[r].new.price
  BY <1>1, BillingAmounts
<1>3. PICK left \in BOOLEAN :
        /\ B!CreateBillingRecord(B!Prorated(old, new, left))
        /\ forgone' = forgone + IF left /\ ~over THEN 0 ELSE B!Positive(new, old)
  BY <1>2 DEF B!HandlePlanChange, B!Forgo
<1>4. PICK k \in Nat : k = B!Positive(new, old) /\ new <= old + k
  <2>1. CASE new > old BY <2>1 DEF B!Positive
  <2>2. CASE ~(new > old) BY <2>2 DEF B!Positive
  <2> QED BY <2>1, <2>2
<1>5. billed \in Nat /\ forgone \in Nat BY <1>1 DEF B!TypeOK
<1>6. billed' \in Nat /\ forgone' \in Nat /\ billed' + forgone' >= billed + forgone + k
  <2>1. PICK n \in Nat : n = B!Prorated(old, new, left) /\ (left /\ ~over => n = k)
    <3>1. B!Positive(old, new) \in Nat BY DEF B!Positive
    <3> QED BY <1>4, <3>1 DEF B!Prorated
  <2>2. billed' = billed + n BY <1>3, <2>1, BillingBilled
  <2> QED BY <1>3, <1>4, <1>5, <2>1, <2>2
<1>7. PICK q \in B!Records : q = [reqB[r] EXCEPT !.pc = "provider"] /\ B!Become(r, q)
  BY <1>1, BillingMovedRecord DEF B!Goto, BillingPcs
<1>8. /\ q.op = "change" /\ q.pc = "provider" /\ q.plan = reqB[r].plan /\ q.old = old
      /\ q.new.price = new /\ q.method = reqB[r].method
  BY <1>1, <1>2, <1>7, BillingMoved DEF B!At, BillingPcs
<1>9. plans' = plans /\ terms' = terms BY <1>1 DEF B!plan_rows
<1>10. BillingGrows(k)
  <2>1. \A x \in plans' : x \in plans /\ terms'[x].price <= terms[x].price + k
    BY <1>1, <1>9, BillingAmounts DEF B!TypeOK
  <2>2. \A o \in Requests : B!At(o, "create", "bill") =>
          B!At(o, "create", "bill")' /\ reqB'[o].new = reqB[o].new
    BY <1>1, <1>7, BillingOneRequest DEF B!At
  <2> QED BY <1>6, <2>1, <2>2 DEF BillingGrows
<1>11. B!TypeOK' BY <1>1, <1>6, <1>7, BillingOneRequest DEF B!TypeOK, B!plan_rows
<1>12. B!Paid' BY <1>1, <1>9, <1>10, <1>11, BillingPaidKept DEF B!Inv, B!Exists, B!Paid
<1>13. B!Charged(q)'
  <2> SUFFICES ASSUME q.plan \in plans PROVE B!Settled(terms[q.plan].price, 0)'
    BY <1>8, <1>9 DEF B!Charged, B!Uncharged
  <2>1. PICK price \in Nat : price = terms[q.plan].price BY <1>1, BillingAmounts DEF B!TypeOK
  <2>2. B!Settled(price + old, new) BY <1>1, <1>2, <1>8, <2>1 DEF B!Charged, B!Uncharged, B!At
  <2>3. price + new <= (price + old) + 0 + k /\ price + old \in Nat BY <1>4, <2>1
  <2>4. B!Settled(price, 0)' BY <1>1, <1>10, <1>11, <2>1, <2>2, <2>3, BillingStaysSettled
  <2> QED BY <1>9, <2>1, <2>4 DEF B!Settled
<1>14. B!Found(q)' BY <1>1, <1>8 DEF B!Found, B!At, B!Exists
<1> QED
  BY <1>1, <1>6, <1>7, <1>10, <1>12, <1>13, <1>14, BillingWritingStep DEF B!TypeOK, B!Exists

\* The plan that is written was charged for, or is let go.
LEMMA BillingWritePlanSafe == ASSUME B!Inv, NEW r \in Requests, B!WritePlan(r) PROVE B!Inv'
<1>1. /\ B!TypeOK /\ reqB[r] \in B!Records /\ B!At(r, "change", "write") /\ ~B!At(r, "create", "bill")
      /\ B!Become(r, B!Idle) /\ B!Idle \in B!Records /\ UNCHANGED B!plan_rows /\ billed' = billed
      /\ B!Charged(reqB[r]) /\ B!Exists
  BY BillingMovedRecord DEF B!WritePlan, B!Inv, B!TypeOK, B!At, B!Finish, B!Found
<1>2. CASE ~B!Writable(reqB[r])
  BY <1>1, <1>2, BillingEndSafe DEF B!WritePlan, B!Quiet
<1>3. CASE B!Writable(reqB[r])
  <2>1. PICK p \in plans, price \in Nat : p = reqB[r].plan /\ price = terms[p].price /\ p \in Plans
    BY <1>1, <1>3, BillingAmounts DEF B!Writable, B!TypeOK
  <2>2. PICK old \in Nat, new \in Nat : old = reqB[r].old /\ new = reqB[r].new.price
    BY <1>1, BillingAmounts
  <2>3. PICK k \in Nat : /\ k = IF reqB[r].method THEN 0 ELSE B!Positive(new, old)
                         /\ ~reqB[r].method => new <= old + k
    <3>1. CASE reqB[r].method BY <3>1
    <3>2. CASE ~reqB[r].method /\ new > old
      <4>1. new - old \in Nat /\ new <= old + (new - old) BY <2>2, <3>2
      <4> QED BY <3>2, <4>1 DEF B!Positive
    <3>3. CASE ~reqB[r].method /\ ~(new > old)
      <4>1. new <= old + 0 BY <2>2, <3>3
      <4> QED BY <3>3, <4>1 DEF B!Positive
    <3> QED BY <3>1, <3>2, <3>3
  <2>4. /\ row' = [row EXCEPT !.plan = p, !.ends = reqB[r].new.interval]
        /\ over' \in B!CalculatePeriodEnd(reqB[r].new.interval) /\ forgone' = forgone + k
    BY <1>3, <2>1, <2>2, <2>3 DEF B!WritePlan, B!Forgo
  <2>5. row \in B!Rows /\ row' \in B!Rows /\ row'.plan = p /\ over' \in BOOLEAN
    <3>1. row \in B!Rows BY <1>1 DEF B!TypeOK, B!Exists
    <3> QED BY <1>3, <2>1, <2>4, <3>1 DEF B!Rows, B!Writable, B!CalculatePeriodEnd
  <2>6. B!Exists'
    BY <2>1, <2>5, PlatformAssumption
    DEF B!Exists, B!NoRow, B!SubscriptionRow, B!BillingAssumption
  <2>7. billed \in Nat /\ forgone \in Nat BY <1>1 DEF B!TypeOK
  <2>8. billed' \in Nat /\ forgone' \in Nat /\ billed' + forgone' >= billed + forgone + k
    BY <1>1, <2>4, <2>7
  <2>9. plans' = plans /\ terms' = terms BY <1>1 DEF B!plan_rows
  <2>10. BillingGrows(k)
    <3>1. \A x \in plans' : x \in plans /\ terms'[x].price <= terms[x].price + k
      BY <1>1, <2>9, BillingAmounts DEF B!TypeOK
    <3>2. \A o \in Requests : B!At(o, "create", "bill") =>
            B!At(o, "create", "bill")' /\ reqB'[o].new = reqB[o].new
      BY <1>1, BillingOneRequest DEF B!At
    <3> QED BY <2>8, <3>1, <3>2 DEF BillingGrows
  <2>11. B!TypeOK' BY <1>1, <2>5, <2>8, BillingOneRequest DEF B!TypeOK, B!plan_rows
  <2>12. B!Settled(price, 0)'
    <3>1. CASE reqB[r].method
      <4>1. B!Settled(price, 0) BY <1>1, <2>1, <3>1 DEF B!Charged, B!At
      <4> QED BY <1>1, <2>10, <2>11, <4>1, BillingStaysSettled
    <3>2. CASE ~reqB[r].method
      <4>1. B!Settled(price + old, new)
        BY <1>1, <2>1, <2>2, <3>2 DEF B!Charged, B!Uncharged, B!At
      <4>2. price + new <= (price + old) + 0 + k /\ price + old \in Nat BY <2>3, <3>2
      <4> QED BY <1>1, <2>10, <2>11, <4>1, <4>2, BillingStaysSettled
    <3> QED BY <3>1, <3>2
  <2>13. B!Paid' BY <2>1, <2>5, <2>9, <2>12 DEF B!Paid, B!Settled
  <2> QED BY <1>1, <2>5, <2>6, <2>8, <2>10, <2>13, BillingIdleKeeps, BillingWritingStep
<1> QED BY <1>2, <1>3

\* A cancellation and a new payment method leave the plan and the amounts.
LEMMA BillingWriteRowSafe ==
  ASSUME B!Inv, NEW r \in Requests,
         B!CancelWithProvider(r) \/ B!WriteCancelled(r) \/ B!WriteMethod(r)
  PROVE  B!Inv'
<1>1. PICK z \in B!Records : z = reqB[r] /\ B!Charged(z) /\ B!Found(z) BY DEF B!Inv, B!TypeOK
<1>2. z.op \in {"cancel", "method"} /\ z.pc \in {"provider", "write"}
  BY <1>1 DEF B!CancelWithProvider, B!WriteCancelled, B!WriteMethod, B!At
<1>3. B!TypeOK /\ B!Paid /\ B!Exists /\ row \in B!Rows
  BY <1>1, <1>2 DEF B!Found, B!Inv, B!TypeOK, B!Exists
<1>4. PICK q \in B!Records : /\ B!Become(r, q)
                             /\ q = B!Idle \/ (q.op = "cancel" /\ q.pc = "write")
  <2>1. CASE B!CancelWithProvider(r)
    <3>1. PICK q \in B!Records : q = [z EXCEPT !.pc = "write"]
      BY BillingMovedRecord DEF BillingPcs
    <3>2. q.op = z.op /\ q.pc = "write" BY <3>1, BillingMoved DEF BillingPcs
    <3> QED BY <1>1, <2>1, <3>1, <3>2 DEF B!CancelWithProvider, B!Goto, B!At
  <2>2. CASE ~B!CancelWithProvider(r)
    <3>1. B!Finish(r) BY <2>2 DEF B!WriteCancelled, B!WriteMethod
    <3> QED BY <3>1, BillingMovedRecord, Zenon DEF B!Finish
  <2> QED BY <2>1, <2>2
<1>5. /\ UNCHANGED B!plan_rows /\ UNCHANGED <<over, billed, forgone>>
      /\ row' \in B!Rows /\ row'.plan = row.plan
  BY <1>3 DEF B!CancelWithProvider, B!WriteCancelled, B!WriteMethod, B!Statuses, B!Rows
<1>6. B!Exists'
  BY <1>5, PlatformAssumption
  DEF B!Exists, B!NoRow, B!SubscriptionRow, B!Rows, B!BillingAssumption
<1>7. B!Charged(q)' /\ B!Found(q)'
  BY <1>4, <1>6, BillingIdleKeeps DEF B!Charged, B!Uncharged, B!Found
<1>8. ~B!At(r, "create", "bill") BY <1>1, <1>2 DEF B!At
<1>9. BillingGrows(0) BY <1>4, <1>5, <1>8, BillingQuietGrows
<1>10. B!TypeOK' BY <1>3, <1>4, <1>5, BillingOneRequest DEF B!TypeOK, B!plan_rows
<1>11. B!Paid' BY <1>3, <1>5, <1>9, <1>10, BillingPaidKept DEF B!Paid, B!plan_rows
<1> QED BY <1>3, <1>4, <1>5, <1>6, <1>7, <1>9, <1>11, BillingWritingStep DEF B!TypeOK

----------------------------------------------------------------------------
\* Administrators and time leave the plan on record; a rise of its price is let go.
LEMMA BillingTimeSafe ==
  ASSUME B!Inv, (\E s \in Chosen : B!AdminUpdateStatus(s)) \/ B!PeriodEnds PROVE B!Inv'
<1>1. B!TypeOK /\ B!Paid /\ B!Exists /\ row \in B!Rows
  BY DEF B!Inv, B!TypeOK, B!Exists, B!AdminUpdateStatus, B!UpdateStatus, B!PeriodEnds
<1>2. UNCHANGED B!plan_rows /\ UNCHANGED <<billed, reqB, forgone>> /\ over' \in BOOLEAN
  BY <1>1 DEF B!AdminUpdateStatus, B!UpdateStatus, B!PeriodEnds, B!TypeOK
<1>3. row' \in B!Rows /\ row'.plan = row.plan
  BY <1>1 DEF B!AdminUpdateStatus, B!UpdateStatus, B!PeriodEnds, B!Rows, B!Statuses
<1>4. B!Exists'
  BY <1>3, PlatformAssumption
  DEF B!Exists, B!NoRow, B!SubscriptionRow, B!Rows, B!BillingAssumption
<1>5. B!TypeOK' BY <1>1, <1>2, <1>3 DEF B!TypeOK, B!plan_rows
<1>6. BillingGrows(0)
  <2>1. plans' = plans /\ terms' = terms BY <1>2 DEF B!plan_rows
  <2>2. \A x \in plans' : x \in plans /\ terms'[x].price <= terms[x].price + 0
    BY <1>1, <2>1, BillingAmounts DEF B!TypeOK
  <2>3. billed' + forgone' >= billed + forgone + 0 BY <1>1, <1>2 DEF B!TypeOK
  <2> QED BY <1>2, <2>2, <2>3 DEF BillingGrows, B!At
<1>7. B!Paid' BY <1>1, <1>2, <1>3, <1>5, <1>6, BillingPaidKept DEF B!Paid, B!plan_rows
<1> QED BY <1>2, <1>4, <1>5, <1>6, <1>7, BillingNobodysStep

LEMMA BillingPlanSafe == ASSUME B!Inv, NEW p \in Plans, B!Manage(p) PROVE B!Inv'
<1>1. B!TypeOK /\ B!Paid /\ UNCHANGED <<row, over, billed, reqB>>
  BY DEF B!Inv, B!Manage, B!HttpCreatePlan, B!CreatePlan, B!HttpUpdatePlan, B!UpdatePlan,
     B!HttpDeletePlan, B!RemovePlan
<1>2. billed \in Nat /\ forgone \in Nat /\ \A x \in Plans : terms[x].price \in Nat
  BY <1>1, BillingAmounts DEF B!TypeOK
<1>3. PICK k \in Nat : /\ forgone' = forgone + k
                       /\ plans' \subseteq Plans /\ offered' \subseteq plans'
                       /\ terms' \in [Plans -> Terms]
                       /\ \A x \in plans \ {p} : x \in plans' /\ terms'[x] = terms[x]
                       /\ p \in plans' => \/ p \notin plans /\ B!Fresh(p)
                                          \/ p \in plans /\ terms'[p].price <= terms[p].price + k
                       /\ p \notin plans' => row.plan # p
                       /\ plans' \subseteq plans \cup {p}
  <2>1. ASSUME NEW t \in Terms, NEW active \in BOOLEAN, B!CreatePlan(p, t, active)
        PROVE  /\ forgone' = forgone + 0 /\ plans' = plans \cup {p} /\ offered' \subseteq plans'
               /\ terms' = [terms EXCEPT ![p] = t] /\ p \notin plans /\ B!Fresh(p)
    BY <1>1, <1>2, <2>1 DEF B!CreatePlan, B!TypeOK, B!Offer
  <2>2. ASSUME NEW t \in Terms, NEW active \in BOOLEAN, B!UpdatePlan(p, t, active)
        PROVE  /\ forgone' = forgone + B!Positive(t.price, terms[p].price) /\ plans' = plans
               /\ offered' \subseteq plans' /\ terms' = [terms EXCEPT ![p] = t] /\ p \in plans
               /\ B!Positive(t.price, terms[p].price) \in Nat
               /\ t.price <= terms[p].price + B!Positive(t.price, terms[p].price)
    <3>1. t.price \in Nat BY BillingPrices
    <3> QED BY <1>1, <1>2, <2>2, <3>1 DEF B!UpdatePlan, B!TypeOK, B!Offer, B!Forgo, B!Positive
  <2>3. ASSUME B!RemovePlan(p)
        PROVE  /\ forgone' = forgone + 0 /\ plans' = plans \ {p} /\ offered' \subseteq plans'
               /\ terms' = [terms EXCEPT ![p] = B!AnyTerms] /\ row.plan # p
    BY <1>1, <1>2, <2>3 DEF B!RemovePlan, B!TypeOK, B!Offer
  <2>4. plans \subseteq Plans /\ terms \in [Plans -> Terms] BY <1>1 DEF B!TypeOK
  <2>5. CASE \E t \in Terms, active \in BOOLEAN : B!CreatePlan(p, t, active) BY <2>1, <2>4, <2>5
  <2>6. CASE \E t \in Terms, active \in BOOLEAN : B!UpdatePlan(p, t, active)
    <3>1. PICK t \in Terms, active \in BOOLEAN : B!UpdatePlan(p, t, active) BY <2>6
    <3>2. PICK k : k = B!Positive(t.price, terms[p].price) OBVIOUS
    <3> QED BY <2>2, <2>4, <3>1, <3>2
  <2>7. CASE B!RemovePlan(p) BY <2>3, <2>4, <2>7, BillingPrices
  <2> QED BY <2>5, <2>6, <2>7 DEF B!Manage, B!HttpCreatePlan, B!HttpUpdatePlan, B!HttpDeletePlan
<1>4. B!TypeOK' BY <1>1, <1>2, <1>3 DEF B!TypeOK
<1>5. BillingGrows(k)
  <2>1. \A x \in plans \ {p} : terms'[x].price <= terms[x].price + k
    BY <1>1, <1>2, <1>3 DEF B!TypeOK
  <2>2. billed' + forgone' >= billed + forgone + k BY <1>1, <1>2, <1>3
  <2> QED BY <1>1, <1>3, <2>1, <2>2 DEF BillingGrows, B!At
<1>6. B!Exists' <=> B!Exists BY <1>1 DEF B!Exists
<1>7. B!Paid' BY <1>1, <1>3, <1>4, <1>5, <1>6, BillingPaidKept DEF B!Paid
<1> QED BY <1>1, <1>4, <1>5, <1>6, <1>7, BillingNobodysStep

LEMMA BillingInitially == B!Init => B!Inv
<1> SUFFICES ASSUME B!Init PROVE B!Inv OBVIOUS
<1>1. B!Idle \in B!Records /\ B!AnyTerms \in Terms BY BillingMovedRecord, BillingPrices
<1>2. B!TypeOK BY <1>1 DEF B!Init, B!TypeOK
<1>3. B!Paid BY DEF B!Init, B!Paid, B!Exists
<1> QED BY <1>2, <1>3, BillingIdleKeeps DEF B!Inv, B!Init

LEMMA BillingEveryStep == B!Inv /\ [B!Next]_(B!vars) => B!Inv'
<1> SUFFICES ASSUME B!Inv, [B!Next]_(B!vars) PROVE B!Inv' OBVIOUS
<1>1. CASE UNCHANGED B!vars
  BY <1>1
  DEF B!vars, B!plan_rows, B!Inv, B!TypeOK, B!Paid, B!Charged, B!Uncharged, B!Found, B!Settled,
     B!Exists, B!At
<1>2. ASSUME NEW r \in Requests, B!Arrive(r) \/ B!Step(r) PROVE B!Inv'
  BY <1>2, BillingArriveSafe, BillingLookupSafe, BillingFindPlanSafe, BillingInsertSafe,
     BillingBillSafe, BillingFindForChangeSafe,
     BillingHandlePlanChangeSafe, BillingWritePlanSafe, BillingWriteRowSafe
  DEF B!Step
<1> QED BY <1>1, <1>2, BillingTimeSafe, BillingPlanSafe DEF B!Next

LEMMA BillingInvPaidInFull == B!Inv => B!PaidInFull
<1> SUFFICES ASSUME B!Inv, B!Exists, ~(\E r \in Requests : B!At(r, "create", "bill"))
             PROVE  billed + forgone >= terms[row.plan].price
  BY DEF B!PaidInFull
<1>1. billed + forgone + 0 >= terms[row.plan].price BY DEF B!Inv, B!Paid, B!Settled
<1> QED BY <1>1 DEF B!Inv, B!TypeOK

(***************************************************************************)
(* API access tokens (module AccessTokens).                                *)
(***************************************************************************)

LEMMA AccessTokensIdleCall == T!Idle \in T!Calls /\ T!Idle.found = {}
PROOF BY DEF T!Idle, T!Calls

\* A step replaces the record of one request by another.
LEMMA AccessTokensOneCall ==
  ASSUME T!TypeOK, NEW r \in Requests, NEW c \in T!Calls, T!Become(r, c)
  PROVE  /\ call' \in [Requests -> T!Calls] /\ call'[r] = c
         /\ \A o \in Requests \ {r} : call'[o] = call[o]
PROOF BY DEF T!TypeOK, T!Become, T!Calls

\* A step of one request that draws nothing and adds no row.
LEMMA AccessTokensCallStep ==
  ASSUME T!Inv, NEW r \in Requests, NEW c \in T!Calls, T!Become(r, c), UNCHANGED <<handed, seen>>,
         stored' \subseteq stored, accepted' \subseteq 1..seen, accepted' \cap handed = {},
         T!Withheld(c.found), \A t \in c.found : t.token = c.value
  PROVE  T!Inv'
<1>1. T!TypeOK BY DEF T!Inv
<1>2. T!TypeOK' BY <1>1, AccessTokensOneCall DEF T!TypeOK
<1>3. \A S : T!Withheld(S) => T!Withheld(S)' BY DEF T!Withheld
<1>4. T!Withheld(stored)' BY DEF T!Inv, T!Withheld
<1>5. ASSUME NEW o \in Requests
      PROVE  (T!Withheld(call[o].found) /\ \A t \in call[o].found : t.token = call[o].value)'
  <2>1. PICK z : z = call'[o] /\ T!Withheld(z.found) /\ \A t \in z.found : t.token = z.value
    BY <1>1, AccessTokensOneCall DEF T!Inv
  <2> QED BY <1>3, <2>1 DEF T!Withheld
<1>6. T!HandedOutNeverAccepted' BY DEF T!HandedOutNeverAccepted
<1> QED BY <1>2, <1>4, <1>5, <1>6 DEF T!Inv

\* What is handed out is new, and so is what is stored, which is another value.
LEMMA AccessTokensCreateSafe ==
  ASSUME T!Inv, NEW u \in Users, NEW n \in TokenNames, NEW ttl \in BOOLEAN,
         NEW s \in {"all", "read"},
         T!HttpCreate(u, n, ttl, s)
  PROVE  T!Inv'
<1>1. T!TypeOK /\ seen \in Nat /\ seen + 3 <= MaxDrawn /\ MaxDrawn \in Nat
  BY PlatformAssumption DEF T!Inv, T!TypeOK, T!HttpCreate, T!CreateToken, T!AccessTokensAssumption
<1>2. PICK t : t = T!Row(seen + 3, seen + 2, u, n, FALSE, s) OBVIOUS
<1>3. t \in T!Rows /\ t.token = seen + 2 BY <1>1, <1>2 DEF T!Row, T!Rows, T!Strings
<1>4. /\ stored' = stored \cup {t} /\ handed' = handed \cup {seen + 1} /\ seen' = seen + 3
      /\ UNCHANGED <<call, accepted>>
  BY <1>2 DEF T!HttpCreate, T!CreateToken, T!Kept, T!HasExpiry
<1>5. T!TypeOK' BY <1>1, <1>3, <1>4 DEF T!TypeOK
<1>6. \A S : T!Withheld(S) => T!Withheld(S)' BY <1>1, <1>4 DEF T!Withheld
<1>7. T!Withheld({t})'
  <2>1. seen + 2 \in 1..seen' /\ seen + 2 # seen + 1 BY <1>1, <1>4
  <2>2. seen + 2 \notin handed BY <1>1 DEF T!TypeOK
  <2> QED BY <1>3, <1>4, <2>1, <2>2 DEF T!Withheld
<1>8. T!Withheld(stored)' BY <1>4, <1>6, <1>7 DEF T!Inv, T!Withheld
<1>9. T!HandedOutNeverAccepted'
  <2>1. seen + 1 \notin accepted BY <1>1 DEF T!TypeOK
  <2> QED BY <1>4, <2>1 DEF T!Inv, T!HandedOutNeverAccepted
<1>10. ASSUME NEW r \in Requests
       PROVE  (T!Withheld(call[r].found) /\ \A z \in call[r].found : z.token = call[r].value)'
  <2>1. PICK S : S = call[r].found /\ T!Withheld(S) BY DEF T!Inv
  <2>2. T!Withheld(S)' BY <1>6, <2>1
  <2> QED BY <1>4, <2>1, <2>2 DEF T!Inv, T!Withheld
<1> QED BY <1>5, <1>8, <1>9, <1>10 DEF T!Inv

\* Requests begin, find rows, and end.
LEMMA AccessTokensRequestSafe ==
  ASSUME T!Inv, NEW r \in Requests,
         \/ \E u \in Users, id \in T!Strings : T!HttpRemove(r, u, id)
         \/ \E v \in T!Strings, s \in {"none", "read", "write"} : T!CanActivate(r, v, s)
         \/ T!FindByToken(r) \/ T!DeleteMany(r) \/ T!TouchToken(r)
  PROVE  T!Inv'
<1>1. T!TypeOK /\ call[r] \in T!Calls /\ T!HandedOutNeverAccepted BY DEF T!Inv, T!TypeOK
<1>2. \A S : S \subseteq stored => T!Withheld(S) BY DEF T!Inv, T!Withheld
<1>3. ASSUME NEW c \in T!Calls, T!Become(r, c), T!Quiet,
             c.found \subseteq stored, \A t \in c.found : t.token = c.value
      PROVE  T!Inv'
  BY <1>1, <1>2, <1>3, AccessTokensCallStep DEF T!Quiet, T!TypeOK, T!HandedOutNeverAccepted
<1>4. ASSUME NEW u \in Users, NEW id \in T!Strings, T!HttpRemove(r, u, id) PROVE T!Inv'
  <2>1. PICK c : c = [T!Idle EXCEPT !.pc = "delete", !.user = u, !.value = id] OBVIOUS
  <2>2. c \in T!Calls /\ c.found = {} BY <2>1, AccessTokensIdleCall DEF T!Calls
  <2> QED BY <1>3, <1>4, <2>1, <2>2 DEF T!HttpRemove, T!DeleteToken
<1>5. ASSUME NEW v \in T!Strings, NEW s \in {"none", "read", "write"}, T!CanActivate(r, v, s)
      PROVE  T!Inv'
  <2>1. PICK c : c = [T!Idle EXCEPT !.pc = "find", !.value = v, !.scope = s] OBVIOUS
  <2>2. c \in T!Calls /\ c.found = {} BY <2>1, AccessTokensIdleCall DEF T!Calls
  <2> QED BY <1>3, <1>5, <2>1, <2>2 DEF T!CanActivate
<1>6. CASE T!FindByToken(r)
  <2>1. CASE T!Finish(r) BY <1>3, <1>6, <2>1, AccessTokensIdleCall DEF T!FindByToken, T!Finish
  <2>2. CASE ~T!Finish(r)
    <3>1. PICK S : S = {t \in stored : t.token = call[r].value} OBVIOUS
    <3>2. PICK c : c = [call[r] EXCEPT !.pc = "touch", !.found = S] OBVIOUS
    <3>3. S \in SUBSET T!Rows BY <1>1, <3>1 DEF T!TypeOK
    <3>4. c \in T!Calls /\ c.found = S /\ c.value = call[r].value BY <1>1, <3>2, <3>3 DEF T!Calls
    <3> QED BY <1>3, <1>6, <2>2, <3>1, <3>2, <3>4 DEF T!FindByToken
  <2> QED BY <2>1, <2>2
<1>7. CASE T!DeleteMany(r)
  BY <1>1, <1>7, AccessTokensIdleCall, AccessTokensCallStep
  DEF T!DeleteMany, T!Finish, T!Withheld, T!TypeOK, T!HandedOutNeverAccepted
<1>8. CASE T!TouchToken(r)
  <2>1. ASSUME NEW t \in call[r].found PROVE call[r].value \in 1..seen
               /\ call[r].value \notin handed
    BY <2>1 DEF T!Inv, T!Withheld
  <2>2. accepted' \subseteq 1..seen /\ accepted' \cap handed = {}
    BY <1>1, <1>8, <2>1 DEF T!TouchToken, T!TypeOK, T!HandedOutNeverAccepted
  <2> QED
    BY <1>1, <1>8, <2>2, AccessTokensIdleCall, AccessTokensCallStep DEF T!TouchToken, T!Finish,
       T!Withheld
<1> QED BY <1>4, <1>5, <1>6, <1>7, <1>8

LEMMA AccessTokensDeleteUserSafe == ASSUME T!Inv, NEW u \in Users, T!DeleteUser(u) PROVE T!Inv'
<1>1. stored' \subseteq stored /\ UNCHANGED <<handed, seen, call, accepted>> BY DEF T!DeleteUser
<1>2. T!TypeOK' BY <1>1 DEF T!Inv, T!TypeOK
<1> QED BY <1>1, <1>2 DEF T!Inv, T!HandedOutNeverAccepted, T!Withheld

LEMMA AccessTokensInitially == T!Init => T!Inv
<1> SUFFICES ASSUME T!Init PROVE T!Inv OBVIOUS
<1>1. T!TypeOK
  BY PlatformAssumption, AccessTokensIdleCall DEF T!Init, T!TypeOK, T!AccessTokensAssumption
<1> QED BY <1>1, AccessTokensIdleCall DEF T!Init, T!Inv, T!HandedOutNeverAccepted, T!Withheld

LEMMA AccessTokensEveryStep == T!Inv /\ [T!Next]_(T!vars) => T!Inv'
<1> SUFFICES ASSUME T!Inv, [T!Next]_(T!vars) PROVE T!Inv' OBVIOUS
<1>1. CASE UNCHANGED T!vars
  BY <1>1 DEF T!vars, T!Inv, T!TypeOK, T!HandedOutNeverAccepted, T!Withheld
<1> QED
  BY <1>1, AccessTokensCreateSafe, AccessTokensRequestSafe, AccessTokensDeleteUserSafe DEF T!Next

(***************************************************************************)
(* Organizations and their roles (module Organizations).                   *)
(***************************************************************************)

-----------------------------------------------------------------------------
(* What a step does to the request that takes it. *)

\* The record of one request is replaced.
LEMMA OrganizationsOneRequest ==
  ASSUME O!TypeOK, NEW r \in Requests, NEW x \in O!Records, O!Become(r, x)
  PROVE  /\ reqO' \in [Requests -> O!Records] /\ reqO'[r] = x
         /\ \A o \in Requests \ {r} : reqO'[o] = reqO[o]
PROOF BY DEF O!TypeOK, O!Become, O!Records, O!Operations, O!Points

\* Idle and moved records are records that hold nothing new.
LEMMA OrganizationsMovedRecord ==
  ASSUME O!Inv, NEW r \in Requests, NEW pc \in O!Points
  PROVE  LET x == [reqO[r] EXCEPT !.pc = pc] IN x \in O!Records /\ O!Holds(x)
<1>1. reqO[r] \in O!Records /\ O!Holds(reqO[r])
  BY DEF O!Inv, O!TypeOK, O!Records, O!Operations, O!Points
<1> QED BY <1>1 DEF O!Records, O!Holds, O!Possible

LEMMA OrganizationsIdleRecord == O!Idle \in O!Records /\ O!Holds(O!Idle)
PROOF BY DEF O!Idle, O!Records, O!Operations, O!Points, O!Names, O!Holds

\* What the other requests hold survives a step that takes no role to another
\* organization.
LEMMA OrganizationsHoldsKept ==
  ASSUME O!Inv, NEW r \in Requests, NEW x \in O!Records, O!Holds(x), O!Become(r, x),
         used \subseteq used',
         \A q \in OrgRoles : q \in used => role'[q].org \in {role[q].org, NoOrg}
  PROVE  \A o \in Requests : O!Holds(reqO[o])'
<1>1. /\ reqO' \in [Requests -> O!Records] /\ reqO'[r] = x
      /\ \A o \in Requests \ {r} : reqO'[o] = reqO[o]
  BY OrganizationsOneRequest DEF O!Inv
<1>2. used \subseteq OrgRoles BY DEF O!Inv, O!TypeOK
<1>3. ASSUME NEW o \in Requests PROVE O!Holds(reqO[o])'
  <2>1. PICK z \in O!Records : z = reqO'[o] BY <1>1
  <2>2. O!Holds(z) BY <1>1, <2>1 DEF O!Inv
  <2>3. O!Holds(z)' BY <1>2, <2>2 DEF O!Holds, O!Possible
  <2> QED BY <2>1, <2>3 DEF O!Holds, O!Possible
<1> QED BY <1>3

\* A step that leaves the tables alone.
LEMMA OrganizationsQuietStep ==
  ASSUME O!Inv, NEW r \in Requests, NEW x \in O!Records, O!Holds(x), O!Become(r, x), O!Quiet
  PROVE  O!Inv'
<1>1. \A o \in Requests : O!Holds(reqO[o])' BY OrganizationsHoldsKept DEF O!Quiet
<1>2. O!TypeOK'
  BY OrganizationsOneRequest DEF O!Inv, O!TypeOK, O!Quiet, O!Records, O!Operations, O!Points
<1>3. (O!OwnRoles /\ O!Seated /\ O!Spent)'
  BY DEF O!Inv, O!OwnRoles, O!Seated, O!Spent, O!Live, O!Quiet
<1> QED BY <1>1, <1>2, <1>3 DEF O!Inv

LEMMA OrganizationsQuietMoves ==
  ASSUME O!Inv, NEW r \in Requests, O!Quiet, O!Finish(r) \/ \E pc \in O!Points : O!Goto(r, pc)
  PROVE  O!Inv'
  BY OrganizationsIdleRecord, OrganizationsMovedRecord, OrganizationsQuietStep DEF O!Finish,
     O!Goto

-----------------------------------------------------------------------------
(* Requests come in, and what they look up. *)

LEMMA OrganizationsBeginStep ==
  ASSUME O!Inv, NEW r \in Requests, NEW x \in O!Records, NEW pc \in O!Points, O!Holds(x),
         O!Begin(r, x, pc)
  PROVE  O!Inv'
<1>1. [x EXCEPT !.pc = pc] \in O!Records /\ O!Holds([x EXCEPT !.pc = pc])
  BY DEF O!Records, O!Holds, O!Possible
<1> QED BY <1>1, OrganizationsQuietStep DEF O!Begin

LEMMA OrganizationsArriveSafe == ASSUME O!Inv, NEW r \in Requests, O!Arrive(r) PROVE O!Inv'
<1>1. ASSUME O!AdminCreate(r) PROVE O!Inv'
  <2> DEFINE x == [O!Idle EXCEPT !.op = "adminCreate"]
  <2>1. x \in O!Records /\ O!Holds(x)
    BY OrganizationsIdleRecord DEF O!Idle, O!Records, O!Operations, O!Holds
  <2>2. O!Begin(r, x, "findSlug") BY <1>1 DEF O!AdminCreate
  <2> HIDE DEF x
  <2> QED BY <2>1, <2>2, OrganizationsBeginStep DEF O!Points
<1>2. ASSUME NEW u \in Persons, O!HttpCreate(r, u) PROVE O!Inv'
  <2> DEFINE x == [O!Idle EXCEPT !.op = "create", !.user = u]
  <2>1. x \in O!Records /\ O!Holds(x)
    BY OrganizationsIdleRecord DEF O!Idle, O!Records, O!Operations, O!Holds
  <2>2. O!Begin(r, x, "findRole") BY <1>2 DEF O!HttpCreate
  <2> HIDE DEF x
  <2> QED BY <2>1, <2>2, OrganizationsBeginStep DEF O!Points
<1>3. ASSUME NEW o \in Orgs, O!AdminUpdate(r, o) \/ O!AdminDelete(r, o) PROVE O!Inv'
  <2>1. PICK op \in {"update", "remove"} :
          O!Begin(r, [O!Idle EXCEPT !.op = op, !.org = o], "findOrg")
    BY <1>3 DEF O!AdminUpdate, O!AdminDelete
  <2> DEFINE x == [O!Idle EXCEPT !.op = op, !.org = o]
  <2>2. x \in O!Records /\ O!Holds(x)
    BY OrganizationsIdleRecord DEF O!Idle, O!Records, O!Operations, O!Holds
  <2> HIDE DEF x
  <2> QED BY <2>1, <2>2, OrganizationsBeginStep DEF O!Points, x
<1>4. ASSUME NEW o \in Orgs, NEW u \in Persons, O!HttpUpdate(r, u, o) \/ O!HttpRemove(r, u, o)
      PROVE  O!Inv'
  <2>1. PICK op \in {"update", "remove"} :
          O!Begin(r, [O!Idle EXCEPT !.op = op, !.user = u, !.org = o], "verify")
    BY <1>4 DEF O!HttpUpdate, O!HttpRemove
  <2> DEFINE x == [O!Idle EXCEPT !.op = op, !.user = u, !.org = o]
  <2>2. x \in O!Records /\ O!Holds(x)
    BY OrganizationsIdleRecord DEF O!Idle, O!Records, O!Operations, O!Holds
  <2> HIDE DEF x
  <2> QED BY <2>1, <2>2, OrganizationsBeginStep DEF O!Points, x
<1>5. ASSUME NEW o \in Orgs, NEW n \in O!Names, O!HttpCreateRole(r, o, n) PROVE O!Inv'
  <2> DEFINE x == [O!Idle EXCEPT !.op = "createRole", !.org = o, !.name = n]
  <2>1. x \in O!Records /\ O!Holds(x)
    BY OrganizationsIdleRecord DEF O!Idle, O!Records, O!Operations, O!Holds
  <2>2. O!Begin(r, x, "findOrg") BY <1>5 DEF O!HttpCreateRole
  <2> HIDE DEF x
  <2> QED BY <2>1, <2>2, OrganizationsBeginStep DEF O!Points
<1>6. ASSUME NEW o \in Orgs, NEW n \in O!Names, NEW u \in Persons, O!AssignRoles(r, o, u, n)
      PROVE  O!Inv'
  <2> DEFINE x == [O!Idle EXCEPT !.op = "assign", !.org = o, !.user = u, !.name = n]
  <2>1. x \in O!Records /\ O!Holds(x)
    BY OrganizationsIdleRecord DEF O!Idle, O!Records, O!Operations, O!Holds
  <2>2. O!Begin(r, x, "findRoles") BY <1>6 DEF O!AssignRoles
  <2> HIDE DEF x
  <2> QED BY <2>1, <2>2, OrganizationsBeginStep DEF O!Points
<1>7. ASSUME NEW o \in Orgs, NEW q \in OrgRoles,
             O!HttpUpdateRolePermissions(r, o, q) \/ O!HttpDeleteRole(r, o, q)
      PROVE  O!Inv'
  <2>1. PICK op \in {"grant", "deleteRole"} :
          O!Begin(r, [O!Idle EXCEPT !.op = op, !.org = o, !.role = q], "getRole")
    BY <1>7 DEF O!HttpUpdateRolePermissions, O!HttpDeleteRole
  <2> DEFINE x == [O!Idle EXCEPT !.op = op, !.org = o, !.role = q]
  <2>2. x \in O!Records /\ O!Holds(x)
    BY OrganizationsIdleRecord DEF O!Idle, O!Records, O!Operations, O!Holds
  <2> HIDE DEF x
  <2> QED BY <2>1, <2>2, OrganizationsBeginStep DEF O!Points, x
<1> QED BY <1>1, <1>2, <1>3, <1>4, <1>5, <1>6, <1>7 DEF O!Arrive

\* An assignment finds roles of its organization, each of them given out, and the base role.
LEMMA OrganizationsFindRolesSafe ==
  ASSUME O!Inv, NEW r \in Requests, O!FindRoles(r) PROVE O!Inv'
<1> DEFINE found == O!OfName(reqO[r].org, reqO[r].name)
           x == [reqO[r] EXCEPT !.pc = "clear", !.found = found]
<1>1. reqO[r] \in O!Records /\ O!Holds(reqO[r]) /\ reqO[r].op = "assign" /\ O!Quiet
  BY DEF O!Inv, O!TypeOK, O!Records, O!Operations, O!Points, O!FindRoles, O!At
<1>2. found \subseteq OrgRoles \cup {Base} /\ \A q \in found : O!Possible(q, reqO[r].org)
  BY PlatformAssumption, <1>1 DEF O!OfName, O!RolesOf, O!Possible, O!Inv, O!Spent, O!Holds,
     O!OrganizationsAssumption
<1>3. CASE found = {} BY <1>1, <1>3, OrganizationsQuietMoves DEF O!FindRoles
<1>4. CASE found # {}
  <2>1. O!Become(r, x) BY <1>4 DEF O!FindRoles
  <2> HIDE DEF found
  <2>2. x \in O!Records /\ O!Holds(x) BY <1>1, <1>2 DEF O!Records, O!Points, O!Holds, O!Possible
  <2> HIDE DEF x
  <2> QED BY <1>1, <2>1, <2>2, OrganizationsQuietStep
<1> QED BY <1>3, <1>4

\* The other steps that only read.
LEMMA OrganizationsLookupSafe ==
  ASSUME O!Inv, NEW r \in Requests,
         \/ O!FindOrgAdmin(r) \/ O!FindBySlug(r) \/ O!VerifyUserIsAdmin(r) \/ O!FindOrganization(r)
         \/ O!UpdateOrganization(r) \/ O!FindName(r) \/ O!GetRole(r) \/ O!UpdateRolePermissions(r)
         \/ O!Fail(r)
  PROVE  O!Inv'
  BY OrganizationsQuietMoves DEF O!FindOrgAdmin, O!FindBySlug, O!VerifyUserIsAdmin,
     O!FindOrganization,
  O!UpdateOrganization, O!FindName, O!GetRole, O!UpdateRolePermissions, O!Fail, O!Points

-----------------------------------------------------------------------------
(* The writes. *)

\* What is common to the writes: the request becomes x, and the ids of roles given out
\* stay given out.
LEMMA OrganizationsWriteStep ==
  ASSUME O!Inv, NEW r \in Requests, NEW x \in O!Records, O!Holds(x), O!Become(r, x),
         used \subseteq used',
         \A q \in OrgRoles : q \in used => role'[q].org \in {role[q].org, NoOrg},
         /\ org' \in [Orgs -> {"free", "live", "gone"}] /\ used' \subseteq OrgRoles
         /\ logged' \subseteq O!Everyone
            /\ role' \in [OrgRoles -> [org: Orgs \cup {NoOrg}, name: O!Names]]
         /\ memberO' \in [O!Everyone -> {"no", "in", "out"}]
         /\ assigned' \subseteq Orgs \X Persons \X (OrgRoles \cup {Base}),
         (O!OwnRoles /\ O!Seated /\ O!Spent)'
  PROVE  O!Inv'
<1>1. \A o \in Requests : O!Holds(reqO[o])' BY OrganizationsHoldsKept
<1>2. O!TypeOK' BY OrganizationsOneRequest DEF O!Inv, O!TypeOK, O!Records, O!Operations, O!Points
<1> QED BY <1>1, <1>2 DEF O!Inv

\* A new organization has no members and no roles yet.
LEMMA OrganizationsCreateWithAdminSafe ==
  ASSUME O!Inv, NEW r \in Requests, NEW o \in Orgs, O!CreateWithAdmin(r, o)
  PROVE  O!Inv'
<1> DEFINE u == reqO[r].user
           m == <<o, u>>
<1>0. O!TypeOK /\ O!OwnRoles /\ O!Seated /\ O!Spent /\ u \in Persons
  BY DEF O!Inv, O!Holds, O!CreateWithAdmin, O!At
<1>1. /\ O!Become(r, O!Idle) /\ UNCHANGED <<role, used, logged>> /\ org[o] = "free"
      /\ org' = [org EXCEPT ![o] = "live"] /\ memberO' = [memberO EXCEPT ![m] = "in"]
      /\ assigned' = assigned \cup {<<o, u, Base>>}
  BY DEF O!CreateWithAdmin, O!Finish, O!MemberRole
<1>2. m \in O!Everyone BY <1>0 DEF O!Everyone
<1>3. /\ org' \in [Orgs -> {"free", "live", "gone"}]
      /\ memberO' \in [O!Everyone -> {"no", "in", "out"}]
      /\ assigned' \subseteq Orgs \X Persons \X (OrgRoles \cup {Base})
  <2>1. org' \in [Orgs -> {"free", "live", "gone"}] BY <1>0, <1>1 DEF O!TypeOK
  <2>2. memberO' \in [O!Everyone -> {"no", "in", "out"}]
    <3> HIDE DEF m
    <3> QED BY <1>0, <1>1 DEF O!TypeOK
  <2>3. <<o, u, Base>> \in Orgs \X Persons \X (OrgRoles \cup {Base}) BY <1>0
  <2>4. assigned' \subseteq Orgs \X Persons \X (OrgRoles \cup {Base})
    BY <1>0, <1>1, <2>3 DEF O!TypeOK
  <2> QED BY <2>1, <2>2, <2>4
<1>4. \A p \in Orgs : O!Live(p) => O!Live(p)' BY <1>0, <1>1 DEF O!Live, O!TypeOK
<1>5. O!Live(o)' BY PlatformAssumption, <1>0, <1>1 DEF O!Live, O!TypeOK, O!OrganizationsAssumption
<1>6. memberO'[m] = "in" /\ \A y \in O!Everyone \ {m} : memberO'[y] = memberO[y]
  BY <1>0, <1>1, <1>2 DEF O!TypeOK
<1>7. O!OwnRoles'
  <2> SUFFICES ASSUME NEW a \in assigned'
               PROVE  /\ memberO'[<<a[1], a[2]>>] = "in" /\ O!Live(a[1])'
                      /\ a[3] = Base \/ role'[a[3]].org = a[1]
    BY DEF O!OwnRoles
  <2>1. CASE a = <<o, u, Base>> BY <1>5, <1>6, <2>1
  <2>2. CASE a \in assigned
    <3>1. /\ memberO[<<a[1], a[2]>>] = "in" /\ O!Live(a[1])
          /\ a[3] = Base \/ role[a[3]].org = a[1]
          /\ a[1] \in Orgs /\ a[2] \in Persons
      BY <1>0, <2>2 DEF O!OwnRoles, O!TypeOK
    <3>2. <<a[1], a[2]>> \in O!Everyone BY <3>1 DEF O!Everyone
    <3> HIDE DEF m
    <3> QED BY <1>1, <1>4, <1>6, <3>1, <3>2
  <2> QED BY <1>1, <2>1, <2>2
<1>8. O!Seated'
  <2> SUFFICES ASSUME NEW p \in Orgs, NEW v \in Persons, memberO'[<<p, v>>] = "in" PROVE O!Live(p)'
    BY DEF O!Seated
  <2>1. <<p, v>> \in O!Everyone BY DEF O!Everyone
  <2>2. CASE <<p, v>> = m BY <1>5, <2>2
  <2>3. CASE <<p, v>> # m BY <1>0, <1>4, <1>6, <2>1, <2>3 DEF O!Seated
  <2> QED BY <2>2, <2>3
<1>9. O!Spent' BY <1>0, <1>1 DEF O!Spent
<1> QED
  BY <1>0, <1>1, <1>3, <1>7, <1>8, <1>9, OrganizationsIdleRecord, OrganizationsWriteStep
     DEF O!TypeOK

LEMMA OrganizationsCreateOrganizationSafe ==
  ASSUME O!Inv, NEW r \in Requests, NEW o \in Orgs, O!CreateOrganization(r, o)
  PROVE  O!Inv'
<1>0. O!TypeOK /\ O!OwnRoles /\ O!Seated /\ O!Spent BY DEF O!Inv
<1>1. /\ O!Become(r, O!Idle) /\ UNCHANGED <<role, used, memberO, assigned, logged>>
      /\ org' = [org EXCEPT ![o] = "live"]
  BY DEF O!CreateOrganization, O!Finish
<1>2. \A p \in Orgs : O!Live(p) => O!Live(p)' BY <1>0, <1>1 DEF O!Live, O!TypeOK
<1>3. org' \in [Orgs -> {"free", "live", "gone"}] BY <1>0, <1>1 DEF O!TypeOK
<1>4. O!OwnRoles'
  <2>1. \A a \in assigned : a[1] \in Orgs BY <1>0 DEF O!TypeOK
  <2> QED BY <1>0, <1>1, <1>2, <2>1 DEF O!OwnRoles
<1>5. (O!Seated /\ O!Spent)' BY <1>0, <1>1, <1>2 DEF O!Seated, O!Spent
<1> QED
  BY <1>0, <1>1, <1>3, <1>4, <1>5, OrganizationsIdleRecord, OrganizationsWriteStep DEF O!TypeOK

\* Deleting an organization takes its roles, its members and their roles along.
LEMMA OrganizationsDeleteOrganizationSafe ==
  ASSUME O!Inv, NEW r \in Requests, O!DeleteOrganization(r)
  PROVE  O!Inv'
<1> DEFINE o == reqO[r].org
<1>0. O!TypeOK /\ O!OwnRoles /\ O!Seated /\ O!Spent /\ O!Become(r, O!Idle) /\ UNCHANGED <<used,
        logged>>
  BY DEF O!Inv, O!DeleteOrganization, O!Finish
<1>1. CASE UNCHANGED <<org, role, memberO, assigned>>
  BY <1>0, <1>1, OrganizationsQuietMoves DEF O!Quiet, O!Finish
<1>2. CASE ~UNCHANGED <<org, role, memberO, assigned>>
  <2>1. /\ org' = [org EXCEPT ![o] = "gone"]
        /\ role' = [q \in OrgRoles |-> IF role[q].org = o THEN O!RoleRow(NoOrg,
           "editor") ELSE role[q]]
        /\ memberO' = [y \in O!Everyone |-> IF y[1] = o THEN "out" ELSE memberO[y]]
        /\ assigned' = {a \in assigned : a[1] # o}
    BY <1>2 DEF O!DeleteOrganization
  <2>2. role' \in [OrgRoles -> [org: Orgs \cup {NoOrg}, name: O!Names]]
        /\ \A q \in OrgRoles : role'[q].org = IF role[q].org = o THEN NoOrg ELSE role[q].org
    <3>1. O!RoleRow(NoOrg, "editor") \in [org: Orgs \cup {NoOrg}, name: O!Names]
          /\ O!RoleRow(NoOrg, "editor").org = NoOrg
      BY DEF O!RoleRow, O!Names
    <3>2. role \in [OrgRoles -> [org: Orgs \cup {NoOrg}, name: O!Names]] BY <1>0 DEF O!TypeOK
    <3> HIDE DEF o
    <3> QED BY <2>1, <3>1, <3>2
  <2>3. /\ org' \in [Orgs -> {"free", "live", "gone"}]
        /\ memberO' \in [O!Everyone -> {"no", "in", "out"}]
        /\ assigned' \subseteq Orgs \X Persons \X (OrgRoles \cup {Base})
    BY <1>0, <2>1 DEF O!TypeOK
  <2>4. \A p \in Orgs : p # o /\ O!Live(p) => O!Live(p)' BY <1>0, <2>1 DEF O!Live, O!TypeOK
  <2>5. O!OwnRoles'
    <3> SUFFICES ASSUME NEW a \in assigned, a[1] # o
                 PROVE  /\ memberO'[<<a[1], a[2]>>] = "in" /\ O!Live(a[1])'
                        /\ a[3] = Base \/ role'[a[3]].org = a[1]
      BY <2>1 DEF O!OwnRoles
    <3>1. /\ memberO[<<a[1], a[2]>>] = "in" /\ O!Live(a[1])
          /\ a[3] = Base \/ role[a[3]].org = a[1]
          /\ a[1] \in Orgs /\ a[2] \in Persons /\ a[3] \in OrgRoles \cup {Base}
      BY <1>0 DEF O!OwnRoles, O!TypeOK
    <3>2. <<a[1], a[2]>> \in O!Everyone BY <3>1 DEF O!Everyone
    <3> HIDE DEF o
    <3> QED BY <2>1, <2>2, <2>4, <3>1, <3>2
  <2>6. O!Seated'
    <3> SUFFICES ASSUME NEW p \in Orgs, NEW v \in Persons, memberO'[<<p, v>>] = "in"
                 PROVE  O!Live(p)'
      BY DEF O!Seated
    <3>1. <<p, v>> \in O!Everyone BY DEF O!Everyone
    <3> HIDE DEF o
    <3>2. p # o /\ memberO[<<p, v>>] = "in" BY <2>1, <3>1
    <3> QED BY <1>0, <2>4, <3>2 DEF O!Seated
  <2>7. O!Spent' BY <1>0, <2>2 DEF O!Spent
  <2> QED
    BY <1>0, <2>2, <2>3, <2>5, <2>6, <2>7, OrganizationsIdleRecord, OrganizationsWriteStep
       DEF O!TypeOK
<1> QED BY <1>1, <1>2

\* A new role takes an id that was never given out, so nobody holds it.
LEMMA OrganizationsInsertRoleSafe ==
  ASSUME O!Inv, NEW r \in Requests, NEW q \in OrgRoles, O!InsertRole(r, q)
  PROVE  O!Inv'
<1> DEFINE o == reqO[r].org
           n == reqO[r].name
<1>0. /\ O!TypeOK /\ O!OwnRoles /\ O!Seated /\ O!Spent /\ O!Become(r, O!Idle) /\ q \notin used
      /\ UNCHANGED <<org, memberO, assigned, logged>>
  BY DEF O!Inv, O!InsertRole, O!Finish
<1>1. CASE UNCHANGED <<role, used>>
  BY <1>0, <1>1, OrganizationsQuietMoves DEF O!Quiet, O!Finish
<1>2. CASE ~UNCHANGED <<role, used>>
  <2>1. role' = [role EXCEPT ![q] = O!RoleRow(o, n)] /\ used' = used \cup {q}
    BY <1>2 DEF O!InsertRole
  <2>2. role' \in [OrgRoles -> [org: Orgs \cup {NoOrg}, name: O!Names]]
        /\ \A p \in OrgRoles \ {q} : role'[p] = role[p]
    <3>1. O!RoleRow(o, n) \in [org: Orgs \cup {NoOrg}, name: O!Names]
      BY <1>0 DEF O!TypeOK, O!RoleRow, O!Records
    <3> QED BY <1>0, <2>1, <3>1 DEF O!TypeOK
  <2>3. O!OwnRoles'
    <3> SUFFICES ASSUME NEW a \in assigned
                 PROVE  /\ memberO[<<a[1], a[2]>>] = "in" /\ O!Live(a[1])
                        /\ a[3] = Base \/ role'[a[3]].org = a[1]
      BY <1>0 DEF O!OwnRoles, O!Live
    <3>1. /\ memberO[<<a[1], a[2]>>] = "in" /\ O!Live(a[1])
          /\ a[3] = Base \/ role[a[3]].org = a[1]
          /\ a[1] \in Orgs /\ a[3] \in OrgRoles \cup {Base}
      BY <1>0 DEF O!OwnRoles, O!TypeOK
    <3>2. a[3] # Base => a[3] # q
      BY PlatformAssumption, <1>0, <3>1 DEF O!Spent, O!OrganizationsAssumption
    <3> QED BY <2>2, <3>1, <3>2
  <2>4. O!Seated' BY <1>0 DEF O!Seated, O!Live
  <2>5. O!Spent' BY <1>0, <2>1, <2>2 DEF O!Spent
  <2>6. used' \subseteq OrgRoles BY <1>0, <2>1 DEF O!TypeOK
  <2>7. \A p \in OrgRoles : p \in used => role'[p].org \in {role[p].org, NoOrg}
    BY <1>0, <2>2
  <2> QED
    BY <1>0, <2>1, <2>2, <2>3, <2>4, <2>5, <2>6, <2>7, OrganizationsIdleRecord,
       OrganizationsWriteStep DEF O!TypeOK
<1> QED BY <1>1, <1>2

\* A deleted role is nobody's and held by nobody.
LEMMA OrganizationsDeleteRoleSafe == ASSUME O!Inv, NEW r \in Requests, O!DeleteRole(r) PROVE O!Inv'
<1> DEFINE k == reqO[r].role
<1>0. /\ O!TypeOK /\ O!OwnRoles /\ O!Seated /\ O!Spent /\ O!Become(r, O!Idle)
      /\ UNCHANGED <<org, used, memberO, logged>>
      /\ role' = [role EXCEPT ![k] = O!RoleRow(NoOrg, "editor")]
      /\ assigned' = {a \in assigned : a[3] # k}
  BY DEF O!Inv, O!DeleteRole, O!Finish
<1>1. O!RoleRow(NoOrg, "editor") \in [org: Orgs \cup {NoOrg}, name: O!Names]
      /\ O!RoleRow(NoOrg, "editor").org = NoOrg
  BY DEF O!RoleRow, O!Names
<1>2. /\ role' \in [OrgRoles -> [org: Orgs \cup {NoOrg}, name: O!Names]]
      /\ \A q \in OrgRoles : role'[q].org \in {role[q].org, NoOrg}
      /\ \A q \in OrgRoles \ {k} : role'[q] = role[q]
  <2>1. role \in [OrgRoles -> [org: Orgs \cup {NoOrg}, name: O!Names]] BY <1>0 DEF O!TypeOK
  <2> HIDE DEF k
  <2> QED BY <1>0, <1>1, <2>1
<1>3. assigned' \subseteq Orgs \X Persons \X (OrgRoles \cup {Base}) BY <1>0 DEF O!TypeOK
<1>4. O!OwnRoles'
  <2> SUFFICES ASSUME NEW a \in assigned, a[3] # k
               PROVE  /\ memberO[<<a[1], a[2]>>] = "in" /\ O!Live(a[1])
                      /\ a[3] = Base \/ role'[a[3]].org = a[1]
    BY <1>0 DEF O!OwnRoles, O!Live
  <2>1. a[3] \in OrgRoles \cup {Base} BY <1>0 DEF O!TypeOK
  <2> HIDE DEF k
  <2> QED BY <1>0, <1>2, <2>1 DEF O!OwnRoles
<1>5. O!Seated' BY <1>0 DEF O!Seated, O!Live
<1>6. O!Spent' BY <1>0, <1>2 DEF O!Spent
<1> QED
  BY <1>0, <1>2, <1>3, <1>4, <1>5, <1>6, OrganizationsIdleRecord, OrganizationsWriteStep
     DEF O!TypeOK

\* Taking roles away, and an entry in the log, disturb nothing.
LEMMA OrganizationsClearRolesSafe == ASSUME O!Inv, NEW r \in Requests, O!ClearRoles(r) PROVE O!Inv'
<1> DEFINE x == [reqO[r] EXCEPT !.pc = "assign"]
<1>0. /\ O!TypeOK /\ O!OwnRoles /\ O!Seated /\ O!Spent /\ O!Become(r, x)
      /\ UNCHANGED <<org, role, used, memberO, logged>> /\ assigned' \subseteq assigned
  BY DEF O!Inv, O!ClearRoles, O!Goto
<1>1. x \in O!Records /\ O!Holds(x) BY OrganizationsMovedRecord DEF O!Points
<1>2. (O!OwnRoles /\ O!Seated /\ O!Spent)' BY <1>0 DEF O!OwnRoles, O!Seated, O!Spent, O!Live
<1> HIDE DEF x
<1> QED BY <1>0, <1>1, <1>2, OrganizationsWriteStep DEF O!TypeOK

LEMMA OrganizationsLogActivitySafe ==
  ASSUME O!Inv, NEW r \in Requests, O!LogActivity(r)
  PROVE  O!Inv'
<1> DEFINE m == <<reqO[r].org, reqO[r].user>>
<1>0. /\ O!TypeOK /\ O!OwnRoles /\ O!Seated /\ O!Spent /\ O!Become(r, O!Idle)
      /\ UNCHANGED <<org, role, used, memberO, assigned>> /\ reqO[r].op = "assign"
      /\ reqO[r].org \in Orgs /\ reqO[r].user \in Persons
      /\ logged' = IF memberO[m] = "in" THEN logged \cup {m} ELSE logged
  BY DEF O!Inv, O!LogActivity, O!Finish, O!At, O!Holds
<1>1. logged' \subseteq O!Everyone BY <1>0 DEF O!TypeOK, O!Everyone
<1>2. (O!OwnRoles /\ O!Seated /\ O!Spent)' BY <1>0 DEF O!OwnRoles, O!Seated, O!Spent, O!Live
<1> QED BY <1>0, <1>1, <1>2, OrganizationsIdleRecord, OrganizationsWriteStep DEF O!TypeOK

\* The insertion goes through only while the member and every role found are there; a
\* role that is still there is still the organization's, for its id was given out once.
LEMMA OrganizationsCreateMemberRolesSafe ==
  ASSUME O!Inv, NEW r \in Requests, O!CreateMemberRoles(r)
  PROVE  O!Inv'
<1> DEFINE o == reqO[r].org
           u == reqO[r].user
           m == <<o, u>>
           x == [reqO[r] EXCEPT !.pc = "log"]
           new == {<<o, u, q>> : q \in reqO[r].found}
<1>0. /\ O!TypeOK /\ O!OwnRoles /\ O!Seated /\ O!Spent /\ O!Become(r, x)
      /\ UNCHANGED <<org, role, used, memberO, logged>>
      /\ o \in Orgs /\ u \in Persons /\ \A q \in reqO[r].found : O!Possible(q, o)
      /\ reqO[r].found \subseteq OrgRoles \cup {Base}
  BY DEF O!Inv, O!CreateMemberRoles, O!Goto, O!At, O!Holds, O!TypeOK, O!Records
<1>1. x \in O!Records /\ O!Holds(x) BY OrganizationsMovedRecord DEF O!Points
<1>2. CASE UNCHANGED assigned
  <2>1. (O!OwnRoles /\ O!Seated /\ O!Spent)' BY <1>0, <1>2 DEF O!OwnRoles, O!Seated, O!Spent, O!Live
  <2> HIDE DEF x
  <2> QED BY <1>0, <1>1, <1>2, <2>1, OrganizationsWriteStep DEF O!TypeOK
<1>3. CASE ~UNCHANGED assigned
  <2>1. /\ memberO[m] = "in" /\ \A q \in reqO[r].found : q = Base \/ role[q].org # NoOrg
        /\ assigned' = assigned \cup new
    BY <1>3 DEF O!CreateMemberRoles, O!MemberRole
  <2>2. assigned' \subseteq Orgs \X Persons \X (OrgRoles \cup {Base})
    <3>1. new \subseteq Orgs \X Persons \X (OrgRoles \cup {Base}) BY <1>0
    <3> HIDE DEF new
    <3> QED BY <1>0, <2>1, <3>1 DEF O!TypeOK
  <2>3. O!Live(o) BY <1>0, <2>1 DEF O!Seated
  <2>4. O!OwnRoles'
    <3> SUFFICES ASSUME NEW a \in assigned'
                 PROVE  /\ memberO[<<a[1], a[2]>>] = "in" /\ O!Live(a[1])
                        /\ a[3] = Base \/ role[a[3]].org = a[1]
      BY <1>0 DEF O!OwnRoles, O!Live
    <3>1. CASE a \in assigned BY <1>0, <3>1 DEF O!OwnRoles
    <3>2. CASE a \in new
      <4>1. PICK q \in reqO[r].found : a = <<o, u, q>> BY <3>2
      <4>2. q = Base \/ role[q].org = o BY <1>0, <2>1, <4>1 DEF O!Possible
      <4>3. a[1] = o /\ a[2] = u /\ a[3] = q BY <4>1
      <4> HIDE DEF o, u, new
      <4> QED BY <2>1, <2>3, <4>2, <4>3
    <3> QED BY <2>1, <3>1, <3>2
  <2>5. (O!Seated /\ O!Spent)' BY <1>0 DEF O!Seated, O!Spent, O!Live
  <2> HIDE DEF x
  <2> QED BY <1>0, <1>1, <2>2, <2>4, <2>5, OrganizationsWriteStep DEF O!TypeOK
<1> QED BY <1>2, <1>3

\* Members come only to an organization that is there, and go with their roles.
LEMMA OrganizationsJoinsSafe ==
  ASSUME O!Inv, NEW o \in Orgs, NEW u \in Persons, O!Joins(o, u)
  PROVE  O!Inv'
<1> DEFINE m == <<o, u>>
<1>0. /\ O!TypeOK /\ O!OwnRoles /\ O!Seated /\ O!Spent /\ \A r \in Requests : O!Holds(reqO[r])
      /\ UNCHANGED <<org, role, used, assigned, logged, reqO>> /\ O!Live(o)
      /\ memberO' = [memberO EXCEPT ![m] = "in"] /\ m \in O!Everyone
  BY DEF O!Inv, O!Joins, O!Everyone
<1> HIDE DEF m
<1>1. /\ memberO' \in [O!Everyone -> {"no", "in", "out"}]
      /\ memberO'[m] = "in" /\ \A y \in O!Everyone \ {m} : memberO'[y] = memberO[y]
  BY <1>0 DEF O!TypeOK
<1>2. O!TypeOK' BY <1>0, <1>1 DEF O!TypeOK
<1>3. O!OwnRoles'
  <2> SUFFICES ASSUME NEW a \in assigned
               PROVE  /\ memberO'[<<a[1], a[2]>>] = "in" /\ O!Live(a[1])
                      /\ a[3] = Base \/ role[a[3]].org = a[1]
    BY <1>0 DEF O!OwnRoles, O!Live
  <2>1. a[1] \in Orgs /\ a[2] \in Persons BY <1>0 DEF O!TypeOK
  <2>2. <<a[1], a[2]>> \in O!Everyone BY <2>1 DEF O!Everyone
  <2> QED BY <1>0, <1>1, <2>2 DEF O!OwnRoles
<1>4. O!Seated'
  <2> SUFFICES ASSUME NEW p \in Orgs, NEW v \in Persons, memberO'[<<p, v>>] = "in" PROVE O!Live(p)
    BY <1>0 DEF O!Seated, O!Live
  <2>1. <<p, v>> \in O!Everyone BY DEF O!Everyone
  <2>2. CASE <<p, v>> = m BY <1>0, <2>2 DEF m
  <2>3. CASE <<p, v>> # m BY <1>0, <1>1, <2>1, <2>3 DEF O!Seated
  <2> QED BY <2>2, <2>3
<1>5. O!Spent' /\ \A r \in Requests : O!Holds(reqO[r])' BY <1>0 DEF O!Spent, O!Holds, O!Possible
<1> QED BY <1>2, <1>3, <1>4, <1>5 DEF O!Inv

LEMMA OrganizationsLeavesSafe ==
  ASSUME O!Inv, NEW o \in Orgs, NEW u \in Persons, O!Leaves(o, u)
  PROVE  O!Inv'
<1> DEFINE m == <<o, u>>
<1>0. /\ O!TypeOK /\ O!OwnRoles /\ O!Seated /\ O!Spent /\ \A r \in Requests : O!Holds(reqO[r])
      /\ UNCHANGED <<org, role, used, logged, reqO>>
      /\ memberO' = [memberO EXCEPT ![m] = "out"] /\ m \in O!Everyone
      /\ assigned' = {a \in assigned : ~(a[1] = o /\ a[2] = u)}
  BY DEF O!Inv, O!Leaves, O!Everyone
<1>1. /\ memberO' \in [O!Everyone -> {"no", "in", "out"}]
      /\ memberO'[m] = "out" /\ \A y \in O!Everyone \ {m} : memberO'[y] = memberO[y]
  <2> HIDE DEF m
  <2> QED BY <1>0 DEF O!TypeOK
<1>2. O!TypeOK' BY <1>0, <1>1 DEF O!TypeOK
<1>3. O!OwnRoles'
  <2> SUFFICES ASSUME NEW a \in assigned, ~(a[1] = o /\ a[2] = u)
               PROVE  /\ memberO'[<<a[1], a[2]>>] = "in" /\ O!Live(a[1])
                      /\ a[3] = Base \/ role[a[3]].org = a[1]
    BY <1>0 DEF O!OwnRoles, O!Live
  <2>1. a[1] \in Orgs /\ a[2] \in Persons BY <1>0 DEF O!TypeOK
  <2>2. <<a[1], a[2]>> \in O!Everyone \ {m} BY <2>1 DEF O!Everyone
  <2> QED BY <1>0, <1>1, <2>2 DEF O!OwnRoles
<1>4. O!Seated'
  <2> SUFFICES ASSUME NEW p \in Orgs, NEW v \in Persons, memberO'[<<p, v>>] = "in" PROVE O!Live(p)
    BY <1>0 DEF O!Seated, O!Live
  <2>1. <<p, v>> \in O!Everyone BY DEF O!Everyone
  <2> HIDE DEF m
  <2>2. <<p, v>> # m BY <1>1
  <2> QED BY <1>0, <1>1, <2>1, <2>2 DEF O!Seated
<1>5. O!Spent' /\ \A r \in Requests : O!Holds(reqO[r])' BY <1>0 DEF O!Spent, O!Holds, O!Possible
<1> QED BY <1>2, <1>3, <1>4, <1>5 DEF O!Inv

-----------------------------------------------------------------------------
\* The invariant holds at first and is kept by every step.
LEMMA OrganizationsInitially == ASSUME O!Init PROVE O!Inv
<1>1. O!TypeOK
  BY OrganizationsIdleRecord DEF O!Init, O!TypeOK, O!OrganizationRow, O!RoleRow, O!Names,
     O!Records,
  O!Operations, O!Points
<1>2. O!OwnRoles /\ O!Seated /\ O!Spent
  BY DEF O!Init, O!OwnRoles, O!Seated, O!Spent, O!RoleRow, O!Everyone
<1>3. \A r \in Requests : O!Holds(reqO[r]) BY OrganizationsIdleRecord DEF O!Init
<1> QED BY <1>1, <1>2, <1>3 DEF O!Inv

LEMMA OrganizationsEveryStep == O!Inv /\ [O!Next]_(O!vars) => O!Inv'
<1> SUFFICES ASSUME O!Inv, [O!Next]_(O!vars) PROVE O!Inv' OBVIOUS
<1>1. ASSUME NEW r \in Requests, O!Step(r) PROVE O!Inv'
  BY <1>1, OrganizationsLookupSafe, OrganizationsCreateWithAdminSafe,
     OrganizationsCreateOrganizationSafe, OrganizationsDeleteOrganizationSafe,
     OrganizationsInsertRoleSafe, OrganizationsDeleteRoleSafe, OrganizationsFindRolesSafe,
     OrganizationsClearRolesSafe, OrganizationsCreateMemberRolesSafe,
     OrganizationsLogActivitySafe DEF O!Step
<1>2. ASSUME NEW r \in Requests, O!Arrive(r) PROVE O!Inv' BY <1>2, OrganizationsArriveSafe
<1>3. CASE UNCHANGED O!vars
  BY <1>3 DEF O!Inv, O!vars, O!TypeOK, O!OwnRoles, O!Seated, O!Spent, O!Live, O!Holds, O!Possible
<1> QED BY <1>1, <1>2, <1>3, OrganizationsJoinsSafe, OrganizationsLeavesSafe DEF O!Next

(***************************************************************************)
(* The health endpoints (module Health).                                   *)
(***************************************************************************)

\* What is counted here is what the library's theorems count.
LEMMA HealthCounting == \A S : H!Cardinality(S) = Cardinality(S)
PROOF BY DEF H!Cardinality, Cardinality

LEMMA HealthParams ==
  /\ Interval \in Nat \ {0} /\ Timeout \in Nat
  /\ H!Idle \in H!Records /\ H!Idle.pc = "idle" /\ H!Idle.late = 0
  /\ 0 \in H!Ages /\ 0 \in 0..2 * Interval /\ 0 < Interval /\ 0 \in 0..Timeout
PROOF BY PlatformAssumption DEF H!HealthAssumption, H!Idle, H!Records, H!Ages

\* A step replaces the record of one probe by another.
LEMMA HealthOneProbe ==
  ASSUME H!TypeOK, NEW r \in Requests, NEW q \in H!Records, H!Become(r, q)
  PROVE  /\ probe' \in [Requests -> H!Records] /\ probe'[r] = q
         /\ \A o \in Requests \ {r} : probe'[o] = probe[o]
PROOF BY DEF H!TypeOK, H!Become, H!Records

\* A cache holds at most one result.
LEMMA HealthOneResult ==
  ASSUME NEW S \in H!Cached, NEW c \in S
  PROVE  /\ S = {c} /\ c.ok \in BOOLEAN /\ c.age \in H!Ages /\ c.late \in H!Ages
         /\ H!Within(S) # {} <=> c.age < Interval
PROOF BY DEF H!Cached, H!Within

\* A probe that begins: with the indicator's result or with a check of its own.
LEMMA HealthBeginsYoung ==
  ASSUME H!TypeOK, NEW r \in Requests, NEW which \in {"quick", "full"}, H!IsHealthy(r, which)
  PROVE  \E q \in H!Records : H!Become(r, q) /\ q.late < Interval /\ q.pc # "idle" /\ q.kind = which
<1>1. CASE H!Within(prisma) = {}
  <2>1. PICK q : q = [H!Idle EXCEPT !.pc = "tcp", !.kind = which] OBVIOUS
  <2>2. q.late = 0 /\ q.pc # "idle" /\ q.kind = which /\ q \in H!Records
    BY <2>1, HealthParams DEF H!Records
  <2> QED BY <1>1, <2>1, <2>2, HealthParams DEF H!IsHealthy
<1>2. CASE H!Within(prisma) # {}
  <2>1. PICK c \in H!Within(prisma) :
          H!Become(r, [H!Idle EXCEPT !.pc = "done", !.kind = which, !.ok = TRUE, !.late = c.age])
    BY <1>2 DEF H!IsHealthy
  <2>2. c.age \in H!Ages /\ c.age < Interval BY <2>1, HealthOneResult DEF H!Within, H!TypeOK
  <2>3. PICK q : q = [H!Idle EXCEPT !.pc = "done", !.kind = which, !.ok = TRUE, !.late = c.age]
    OBVIOUS
  <2>4. q \in H!Records /\ q.late < Interval /\ q.pc # "idle" /\ q.kind = which
    BY <2>2, <2>3, HealthParams DEF H!Records
  <2> QED BY <2>1, <2>3, <2>4
<1> QED BY <1>1, <1>2

\* What an answer from a cache says.
LEMMA HealthServed ==
  ASSUME H!Inv, NEW S \in {quick, full}, NEW c \in S, NEW busy \in BOOLEAN, H!Serve(c, busy),
         busy \/ c.age < Interval
  PROVE  told' \in [ok: BOOLEAN, busy: BOOLEAN, late: 0..2 * Interval] /\ H!Recent'
<1>1. c.ok \in BOOLEAN /\ c.age \in H!Ages /\ c.late \in H!Ages /\ c.late < Interval
  BY HealthOneResult DEF H!Inv, H!TypeOK, H!Young
<1>2. c.age + c.late \in 0..2 * Interval BY <1>1, HealthParams DEF H!Ages
<1>3. told' = [ok |-> c.ok, busy |-> busy, late |-> c.age + c.late] BY DEF H!Serve, H!Tell
<1>4. ~busy => c.age + c.late <= 2 * (Interval - 1) BY <1>1, HealthParams DEF H!Ages
<1> QED BY <1>1, <1>2, <1>3, <1>4 DEF H!Recent

\* An answer from a check that just ended, or none.
LEMMA HealthConcluded ==
  ASSUME NEW ok \in BOOLEAN, NEW busy \in BOOLEAN, NEW n \in H!Ages, n < Interval,
         H!Tell(ok, busy, n)
  PROVE  told' \in [ok: BOOLEAN, busy: BOOLEAN, late: 0..2 * Interval] /\ H!Recent'
<1>1. n \in 0..2 * Interval /\ n <= 2 * (Interval - 1) BY HealthParams DEF H!Ages
<1> QED BY <1>1 DEF H!Tell, H!Recent

-----------------------------------------------------------------------------
LEMMA HealthQuickCheckSafe == ASSUME H!Inv, NEW r \in Requests, H!QuickCheck(r) PROVE H!Inv'
<1>1. H!TypeOK /\ H!Young /\ H!Recent /\ H!OneQuick /\ UNCHANGED <<prisma, quick, full>>
  BY DEF H!Inv, H!QuickCheck
<1>2. CASE UNCHANGED <<isQuickChecking, probe>>
  <2>1. told' \in [ok: BOOLEAN, busy: BOOLEAN, late: 0..2 * Interval] /\ H!Recent'
    <3>1. CASE isQuickChecking /\ quick = {} /\ H!Tell(FALSE, TRUE, 0)
      BY <3>1, HealthParams DEF H!Tell, H!Recent
    <3>2. ASSUME NEW c \in quick, NEW busy \in BOOLEAN, H!Serve(c, busy),
                 busy \/ H!Within(quick) # {}
          PROVE  told' \in [ok: BOOLEAN, busy: BOOLEAN, late: 0..2 * Interval] /\ H!Recent'
      BY <1>1, <3>2, HealthOneResult, HealthServed DEF H!TypeOK
    <3>3. \/ ~isQuickChecking /\ H!Within(quick) # {} /\ \E c \in quick : H!Serve(c, FALSE)
          \/ /\ isQuickChecking
             /\ IF quick = {} THEN H!Tell(FALSE, TRUE, 0) ELSE \E c \in quick : H!Serve(c, TRUE)
      BY <1>1, <1>2 DEF H!QuickCheck, H!Busy, H!TypeOK
    <3> QED BY <3>1, <3>2, <3>3
  <2> QED BY <1>1, <1>2, <2>1 DEF H!Inv, H!TypeOK, H!Young, H!OneQuick, H!Running
<1>3. CASE ~isQuickChecking /\ isQuickChecking' = TRUE /\ H!IsHealthy(r, "quick") /\ UNCHANGED told
  <2>1. PICK q \in H!Records : H!Become(r, q) /\ q.late < Interval /\ q.pc # "idle"
          /\ q.kind = "quick"
    BY <1>1, <1>3, HealthBeginsYoung
  <2>2. probe' \in [Requests -> H!Records] /\ probe'[r] = q
        /\ \A o \in Requests \ {r} : probe'[o] = probe[o]
    BY <1>1, <2>1, HealthOneProbe
  <2>3. H!Running = {} BY <1>1, <1>3 DEF H!OneQuick
  <2>4. H!Running' = {r} BY <2>1, <2>2, <2>3 DEF H!Running
  <2>5. H!TypeOK' BY <1>1, <1>3, <2>2 DEF H!TypeOK
  <2>6. H!Young' BY <1>1, <2>1, <2>2 DEF H!Young
  <2> QED BY <1>1, <1>3, <2>4, <2>5, <2>6 DEF H!Inv, H!OneQuick, H!Recent
<1> QED BY <1>2, <1>3 DEF H!QuickCheck, H!Busy

LEMMA HealthCheckAllSafe == ASSUME H!Inv, NEW r \in Requests, H!CheckAll(r) PROVE H!Inv'
<1>1. /\ H!TypeOK /\ H!Young /\ H!Recent /\ H!OneQuick /\ probe[r] = H!Idle
      /\ UNCHANGED <<prisma, quick, full, isQuickChecking>>
  BY DEF H!Inv, H!CheckAll
<1>2. CASE H!Within(full) # {} /\ UNCHANGED probe
  <2>1. PICK c \in full : H!Serve(c, FALSE)
    BY <1>1, <1>2, HealthParams DEF H!CheckAll, H!Idle, H!IsHealthy
  <2>2. told' \in [ok: BOOLEAN, busy: BOOLEAN, late: 0..2 * Interval] /\ H!Recent'
    BY <1>1, <1>2, <2>1, HealthOneResult, HealthServed DEF H!TypeOK
  <2> QED BY <1>1, <1>2, <2>2 DEF H!Inv, H!TypeOK, H!Young, H!OneQuick, H!Running
<1>3. CASE H!Within(full) = {} /\ H!IsHealthy(r, "full") /\ UNCHANGED told
  <2>1. PICK q \in H!Records : H!Become(r, q) /\ q.late < Interval /\ q.pc # "idle"
          /\ q.kind = "full"
    BY <1>1, <1>3, HealthBeginsYoung
  <2>2. probe' \in [Requests -> H!Records] /\ probe'[r] = q
        /\ \A o \in Requests \ {r} : probe'[o] = probe[o]
    BY <1>1, <2>1, HealthOneProbe
  <2>3. H!Running' = H!Running BY <1>1, <2>1, <2>2, HealthParams DEF H!Running
  <2>4. H!TypeOK' BY <1>1, <1>3, <2>2 DEF H!TypeOK
  <2>5. H!Young' BY <1>1, <2>1, <2>2 DEF H!Young
  <2> QED BY <1>1, <1>3, <2>3, <2>4, <2>5 DEF H!Inv, H!OneQuick, H!Recent
<1> QED BY <1>2, <1>3 DEF H!CheckAll

\* A check goes on, succeeds or fails; only the indicator's cache is written.
LEMMA HealthCheckSafe ==
  ASSUME H!Inv, NEW r \in Requests, H!CheckTcpConnection(r) \/ H!Query(r) PROVE H!Inv'
<1>1. /\ H!TypeOK /\ H!Young /\ H!Recent /\ H!OneQuick /\ probe[r] \in H!Records
         /\ probe[r].pc # "idle"
      /\ UNCHANGED <<quick, full, isQuickChecking, told>>
  BY DEF H!Inv, H!CheckTcpConnection, H!Query, H!TypeOK
<1>2. PICK pc \in {"query", "done"}, ok \in BOOLEAN :
        H!Become(r, [probe[r] EXCEPT !.pc = pc, !.wait = 0, !.ok = ok])
  <2>1. CASE H!Goto(r, "query")
    <3>1. [probe[r] EXCEPT !.pc = "query", !.wait = 0]
            = [probe[r] EXCEPT !.pc = "query", !.wait = 0, !.ok = probe[r].ok]
      BY <1>1 DEF H!Records
    <3>2. probe[r].ok \in BOOLEAN BY <1>1 DEF H!Records
    <3> QED BY <2>1, <3>1, <3>2 DEF H!Goto
  <2>2. CASE ~H!Goto(r, "query") BY <2>2 DEF H!CheckTcpConnection, H!Query, H!Unhealthy
  <2> QED BY <2>1, <2>2
<1>3. PICK q : q = [probe[r] EXCEPT !.pc = pc, !.wait = 0, !.ok = ok] OBVIOUS
<1>4. q \in H!Records /\ q.pc # "idle" /\ q.kind = probe[r].kind /\ q.late = probe[r].late
  <2>1. PICK z \in H!Records : z = probe[r] BY <1>1
  <2>2. q = [z EXCEPT !.pc = pc, !.wait = 0, !.ok = ok] BY <1>3, <2>1
  <2>3. 0 \in 0..Timeout BY HealthParams
  <2>4. q \in H!Records /\ q.pc = pc /\ q.kind = z.kind /\ q.late = z.late
    BY <2>2, <2>3 DEF H!Records
  <2> QED BY <2>1, <2>4
<1>5. probe' \in [Requests -> H!Records] /\ probe'[r] = q
      /\ \A o \in Requests \ {r} : probe'[o] = probe[o]
  BY <1>1, <1>2, <1>3, <1>4, HealthOneProbe
<1>6. prisma' \in H!Cached
  <2>1. H!Remembered(r) \in H!Cached
    BY <1>1, HealthParams DEF H!Remembered, H!Cached, H!Records, H!Ages
  <2>2. {} \in H!Cached BY DEF H!Cached
  <2> QED BY <1>1, <2>1, <2>2 DEF H!CheckTcpConnection, H!Query, H!Unhealthy, H!TypeOK
<1>7. H!TypeOK' BY <1>1, <1>5, <1>6 DEF H!TypeOK
<1>8. H!Young' BY <1>1, <1>4, <1>5 DEF H!Young
<1>9. H!Running' = H!Running BY <1>1, <1>4, <1>5 DEF H!Running
<1> QED BY <1>1, <1>7, <1>8, <1>9 DEF H!Inv, H!OneQuick, H!Recent

\* A check that ends leaves its result, and a quick one gives the flag back.
LEMMA HealthConcludeSafe ==
  ASSUME H!Inv, NEW r \in Requests, H!ConcludeQuick(r) \/ H!CheckDiskSpace(r) PROVE H!Inv'
<1>1. /\ H!TypeOK /\ H!Young /\ H!Recent /\ H!OneQuick /\ probe[r] \in H!Records
         /\ probe[r].pc = "done"
      /\ UNCHANGED prisma /\ H!Become(r, H!Idle) /\ H!Tell(probe[r].ok, FALSE, probe[r].late)
  BY DEF H!Inv, H!ConcludeQuick, H!CheckDiskSpace, H!TypeOK
<1>2. PICK ok \in BOOLEAN, since \in H!Ages, due \in H!Ages :
        ok = probe[r].ok /\ since = probe[r].since /\ due = probe[r].late /\ due < Interval
  BY <1>1 DEF H!Records, H!Young
<1>3. told' \in [ok: BOOLEAN, busy: BOOLEAN, late: 0..2 * Interval] /\ H!Recent'
  BY <1>1, <1>2, HealthConcluded
<1>4. probe' \in [Requests -> H!Records] /\ probe'[r] = H!Idle
      /\ \A o \in Requests \ {r} : probe'[o] = probe[o]
  BY <1>1, HealthOneProbe, HealthParams
<1>5. PICK c : c = [ok |-> ok, age |-> since, late |-> due] OBVIOUS
<1>6. {c} \in H!Cached /\ {} \in H!Cached /\ c.late < Interval BY <1>2, <1>5 DEF H!Cached
<1>7. CASE H!ConcludeQuick(r)
  <2>1. quick' = {c} /\ isQuickChecking' = FALSE /\ UNCHANGED full /\ r \in H!Running
    BY <1>2, <1>5, <1>7 DEF H!ConcludeQuick, H!Running
  <2>2. H!Running' = {} BY <1>1, <1>4, <2>1, HealthParams DEF H!OneQuick, H!Running
  <2>3. H!TypeOK' BY <1>1, <1>3, <1>4, <1>6, <2>1 DEF H!TypeOK
  <2>4. H!Young' BY <1>1, <1>4, <1>6, <2>1, HealthParams DEF H!Young
  <2> QED BY <1>3, <2>1, <2>2, <2>3, <2>4 DEF H!Inv, H!OneQuick
<1>8. CASE H!CheckDiskSpace(r)
  <2>1. full' \in {{c}, {}} /\ UNCHANGED <<quick, isQuickChecking>> /\ r \notin H!Running
    BY <1>2, <1>5, <1>8 DEF H!CheckDiskSpace, H!Running
  <2>2. H!Running' = H!Running BY <1>1, <1>4, <2>1, HealthParams DEF H!Running
  <2>3. H!TypeOK' BY <1>1, <1>3, <1>4, <1>6, <2>1 DEF H!TypeOK
  <2>4. H!Young' BY <1>1, <1>4, <1>6, <2>1, HealthParams DEF H!Young
  <2> QED BY <1>1, <1>3, <2>1, <2>2, <2>3, <2>4 DEF H!Inv, H!OneQuick
<1> QED BY <1>7, <1>8

\* Time makes results older, and no check waits beyond its timeout.
LEMMA HealthTickSafe == ASSUME H!Inv, H!Tick PROVE H!Inv'
<1>1. H!TypeOK /\ H!Young /\ H!Recent /\ H!OneQuick /\ UNCHANGED <<isQuickChecking, told>>
      /\ prisma' = H!Old(prisma) /\ quick' = H!Old(quick) /\ full' = H!Old(full)
  BY DEF H!Inv, H!Tick
<1>2. \A a \in H!Ages : H!Aged(a) \in H!Ages BY HealthParams DEF H!Ages, H!Aged
<1>3. ASSUME NEW S \in H!Cached
      PROVE  H!Old(S) \in H!Cached /\ \A z \in H!Old(S) : \E c \in S : z.late = c.late
  <2>1. CASE S = {} BY <2>1 DEF H!Old, H!Cached
  <2>2. CASE S # {}
    <3>1. PICK c \in S : S = {c} /\ c \in [ok: BOOLEAN, age: H!Ages, late: H!Ages]
      BY <2>2 DEF H!Cached
    <3>2. PICK z : z = [c EXCEPT !.age = H!Aged(@)] OBVIOUS
    <3>3. z \in [ok: BOOLEAN, age: H!Ages, late: H!Ages] /\ z.late = c.late BY <1>2, <3>1, <3>2
    <3>4. H!Old(S) = {z} BY <3>1, <3>2 DEF H!Old
    <3> QED BY <3>1, <3>3, <3>4 DEF H!Cached
  <2> QED BY <2>1, <2>2
<1>4. ASSUME NEW r \in Requests
      PROVE  /\ probe'[r] \in H!Records /\ (probe'[r].kind = probe[r].kind \/ probe'[r].pc = "idle")
             /\ probe'[r].pc = probe[r].pc /\ probe'[r].late < Interval
  <2>1. probe[r] \in H!Records /\ probe[r].late < Interval BY <1>1 DEF H!TypeOK, H!Young
  <2>2. CASE probe[r].pc = "idle"
    <3>1. probe'[r] = H!Idle BY <2>2 DEF H!Tick
    <3> QED BY <2>2, <3>1, HealthParams
  <2>3. CASE probe[r].pc # "idle"
    <3>1. PICK n : n = IF probe[r].pc = "done" THEN 0 ELSE probe[r].wait + 1 OBVIOUS
    <3>2. probe[r].wait \in 0..Timeout
          /\ (probe[r].pc # "done" => probe[r].wait # Timeout)
      BY <2>1, <2>3 DEF H!Tick, H!Due, H!Records
    <3>3. n \in 0..Timeout BY <3>1, <3>2, HealthParams
    <3>4. PICK q : q = [probe[r] EXCEPT !.since = H!Aged(@), !.wait = n] OBVIOUS
    <3>5. probe'[r] = q BY <2>3, <3>1, <3>4 DEF H!Tick
    <3>6. H!Aged(probe[r].since) \in H!Ages BY <1>2, <2>1 DEF H!Records
    <3>7. q \in H!Records /\ q.kind = probe[r].kind /\ q.pc = probe[r].pc /\ q.late = probe[r].late
      BY <2>1, <3>3, <3>4, <3>6 DEF H!Records
    <3> QED BY <2>1, <3>5, <3>7
  <2> QED BY <2>2, <2>3
<1>5. probe' \in [Requests -> H!Records]
  <2>1. probe' = [r \in Requests |-> probe'[r]] BY DEF H!Tick
  <2> QED BY <1>4, <2>1
<1>6. H!TypeOK' BY <1>1, <1>3, <1>5 DEF H!TypeOK
<1>7. H!Young' BY <1>1, <1>3, <1>4 DEF H!Young, H!TypeOK
<1>8. H!Running' = H!Running BY <1>4 DEF H!Running
<1> QED BY <1>1, <1>6, <1>7, <1>8 DEF H!Inv, H!OneQuick, H!Recent

-----------------------------------------------------------------------------
LEMMA HealthInitially == H!Init => H!Inv
<1> SUFFICES ASSUME H!Init PROVE H!Inv OBVIOUS
<1>1. H!TypeOK
  <2>1. {} \in H!Cached BY DEF H!Cached
  <2>2. told \in [ok: BOOLEAN, busy: BOOLEAN, late: 0..2 * Interval] BY HealthParams DEF H!Init
  <2> QED BY <2>1, <2>2, HealthParams DEF H!Init, H!TypeOK
<1>2. H!Young /\ H!Recent /\ H!OneQuick
  BY HealthParams DEF H!Init, H!Young, H!Recent, H!OneQuick, H!Running
<1> QED BY <1>1, <1>2 DEF H!Inv

LEMMA HealthEveryStep == H!Inv /\ [H!Next]_(H!vars) => H!Inv'
<1> SUFFICES ASSUME H!Inv, [H!Next]_(H!vars) PROVE H!Inv' OBVIOUS
<1>1. CASE UNCHANGED H!vars
  BY <1>1 DEF H!vars, H!Inv, H!TypeOK, H!Young, H!Recent, H!OneQuick, H!Running
<1> QED
  BY <1>1, HealthQuickCheckSafe, HealthCheckAllSafe, HealthCheckSafe, HealthConcludeSafe,
     HealthTickSafe DEF H!Next, H!Step

LEMMA HealthInvOkIsRecent == H!Inv => H!OkIsRecent
<1> SUFFICES ASSUME H!Inv PROVE H!OkIsRecent OBVIOUS
<1>1. CASE H!Running = {}
  BY <1>1, FS_EmptySet, HealthCounting DEF H!Inv, H!OkIsRecent, H!Recent, H!OneQuick, H!TypeOK
<1>2. CASE H!Running # {}
  <2>1. PICK r \in H!Running : H!Running = {r} BY <1>2 DEF H!Inv, H!OneQuick
  <2>2. Cardinality(H!Running) = 1 BY <2>1, FS_Singleton
  <2> QED BY <1>2, <2>2, HealthCounting DEF H!Inv, H!OkIsRecent, H!Recent, H!OneQuick, H!TypeOK
<1> QED BY <1>1, <1>2

(***************************************************************************)
(* The Redis connection (module RedisClient).                              *)
(***************************************************************************)

LEMMA RedisInitially == R!Init => R!Inv
<1> SUFFICES ASSUME R!Init PROVE R!Inv OBVIOUS
<1>1. 0 \in 0..MaxRetries BY PlatformAssumption DEF R!RedisClientAssumption
<1>2. R!TypeOK BY <1>1 DEF R!Init, R!TypeOK
<1>3. R!ClosedForCause BY DEF R!Init, R!ClosedForCause
<1> QED BY <1>2, <1>3 DEF R!Inv

\* ioredis loses the connection or drops it, waits, and tries again.
LEMMA RedisRetriesSafe ==
  ASSUME R!Inv, R!Lost \/ R!ReconnectOnError \/ R!Retry \/ R!Server PROVE R!Inv'
<1>1. MaxRetries \in Nat BY PlatformAssumption DEF R!RedisClientAssumption
<1>2. CASE R!Lost \/ R!ReconnectOnError
  <2>1. /\ status \in {"connecting", "connected", "ready"} /\ timer' = TRUE /\ up' = up
        /\ status' = IF R!GivesUp THEN "end" ELSE "waiting"
        /\ late' = (late \/ R!GivesUp)
    BY <1>2 DEF R!Lost, R!ReconnectOnError, R!Close, R!RetryStrategy, R!ScheduleReconnect
  <2>2. retried' \in 0..MaxRetries
    BY <1>1, <1>2
       DEF R!Lost, R!ReconnectOnError, R!Close, R!RetryStrategy, R!GivesUp, R!Inv, R!TypeOK
  <2>3. quitting' \in BOOLEAN /\ (~quitting => ~quitting')
    <3>1. PICK b \in BOOLEAN : quitting' = (quitting /\ b)
      BY <1>2 DEF R!Lost, R!ReconnectOnError, R!Close
    <3> QED BY <3>1 DEF R!Inv, R!TypeOK
  <2>4. R!GivesUp \in BOOLEAN BY DEF R!GivesUp
  <2>5. R!TypeOK' BY <2>1, <2>2, <2>3, <2>4 DEF R!Inv, R!TypeOK
  <2>6. R!ClosedForCause' BY <2>1, <2>3 DEF R!Inv, R!ClosedForCause
  <2> QED BY <2>5, <2>6 DEF R!Inv
<1>3. CASE R!Retry
  BY <1>3 DEF R!Retry, R!Inv, R!TypeOK, R!ClosedForCause
<1>4. CASE R!Server
  <2>1. up' \in BOOLEAN BY <1>4 DEF R!Server
  <2> QED BY <1>4, <2>1 DEF R!Server, R!Inv, R!TypeOK, R!ClosedForCause
<1> QED BY <1>2, <1>3, <1>4

\* The client is connected, with its timer cleared, and then ready.
LEMMA RedisReturnsSafe ==
  ASSUME R!Inv, R!Connect \/ R!Ready PROVE R!Inv'
<1>1. 0 \in 0..MaxRetries BY PlatformAssumption DEF R!RedisClientAssumption
<1>2. CASE R!Connect
  BY <1>2 DEF R!Connect, R!Cleared, R!Inv, R!TypeOK, R!ClosedForCause
<1>3. CASE R!Ready
  BY <1>1, <1>3 DEF R!Ready, R!Inv, R!TypeOK, R!ClosedForCause
<1> QED BY <1>2, <1>3

\* The timer, the health check and the end of the module, each of which is a cause.
LEMMA RedisQuitsSafe ==
  ASSUME R!Inv, R!HealthCheck \/ R!ForcedReconnect \/ R!OnModuleDestroy PROVE R!Inv'
<1>1. CASE R!HealthCheck
  BY <1>1 DEF R!HealthCheck, R!ScheduleReconnect, R!Inv, R!TypeOK, R!ClosedForCause
<1>2. ASSUME R!Quit PROVE /\ status' \in {"connecting", "connected", "ready", "waiting", "stuck", "end"}
                          /\ timer' \in BOOLEAN /\ quitting' \in BOOLEAN
  BY <1>2 DEF R!Quit, R!ScheduleReconnect, R!Inv, R!TypeOK
<1>3. CASE R!ForcedReconnect
  <2>1. late'
    BY <1>3 DEF R!ForcedReconnect, R!Inv, R!TypeOK, R!ClosedForCause
  <2>2. UNCHANGED <<up, retried>> /\ late' \in BOOLEAN BY <1>3, <2>1 DEF R!ForcedReconnect
  <2> QED BY <1>2, <1>3, <2>1, <2>2 DEF R!ForcedReconnect, R!Inv, R!TypeOK, R!ClosedForCause
<1>4. CASE R!OnModuleDestroy
  BY <1>2, <1>4 DEF R!OnModuleDestroy, R!Inv, R!TypeOK, R!ClosedForCause
<1> QED BY <1>1, <1>3, <1>4

LEMMA RedisEveryStep == R!Inv /\ [R!Next]_(R!vars) => R!Inv'
<1> SUFFICES ASSUME R!Inv, [R!Next]_(R!vars) PROVE R!Inv' OBVIOUS
<1>1. CASE UNCHANGED R!vars
  BY <1>1 DEF R!vars, R!Inv, R!TypeOK, R!ClosedForCause
<1> QED BY <1>1, RedisRetriesSafe, RedisReturnsSafe, RedisQuitsSafe DEF R!Next

=============================================================================
