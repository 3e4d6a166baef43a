---------------------------- MODULE StorageProofs ----------------------------
(***************************************************************************)
(* Proofs about module Storage, for any number of paths, requests and      *)
(* uploads and each of the four providers: a content that was replaced or  *)
(* deleted never comes back (NeverReverts), variables keep their types     *)
(* (TypeOK), and after a deletion no cached answer says the file is there  *)
(* (DeletedIsGone).                                                        *)
(*                                                                         *)
(* What makes the first inductive is what a request holds while it waits:  *)
(* an upload that is yet to be written has a content of its own that no    *)
(* file has had (Unwritten, Apart), and GitHub's metadata update holds a   *)
(* sha that is either still the file's or gone for good (Looked), and a    *)
(* content that belongs to that sha unless the sha is gone (Reread).  For  *)
(* the last it is what the caches and the requests on their way to them    *)
(* believe (Answers).                                                      *)
(***************************************************************************)
EXTENDS Storage, TLAPS

Records == [op: Operations, pc: Points, path: Paths, ver: Nat, sha: Nat, meta: Nat,
            found: SUBSET Paths]

\* A request whose four leading fields are replaced is a request.
LEMMA Fields ==
  ASSUME NEW q \in Records, NEW op \in Operations, NEW pc \in Points, NEW p \in Paths,
         NEW v \in Nat
  PROVE  [q EXCEPT !.op = op, !.path = p, !.pc = pc, !.ver = v] \in Records
<1>1. [q EXCEPT !.op = op] \in Records BY DEF Records
<1>2. \A x \in Records : [x EXCEPT !.path = p] \in Records BY DEF Records
<1>3. \A x \in Records : [x EXCEPT !.pc = pc] \in Records BY DEF Records
<1>4. \A x \in Records : [x EXCEPT !.ver = v] \in Records BY DEF Records
<1>5. [q EXCEPT !.op = op, !.path = p, !.pc = pc, !.ver = v]
        = [[[[q EXCEPT !.op = op] EXCEPT !.path = p] EXCEPT !.pc = pc] EXCEPT !.ver = v]
  OBVIOUS
<1> QED BY <1>1, <1>2, <1>3, <1>4, <1>5

Shapes == /\ req \in [Requests -> Records] /\ last \in Nat
          /\ disk \in [Paths -> Nat] /\ gone \in [Paths -> SUBSET Nat]
Known == \A p \in Paths : /\ disk[p] <= last /\ disk[p] \notin gone[p]
                          /\ 0 \notin gone[p] /\ \A v \in gone[p] : v <= last

Pending(q) == q.op = "upload" /\ q.pc \in {"sha", "put"}
Own(v) == /\ v # 0
          /\ \A p \in Paths : v # disk[p] /\ v \notin gone[p]
Unwritten(q) == Pending(q) => q.ver <= last /\ Own(q.ver)
Looked(q) == q.op = "update" /\ q.pc = "get"
               => q.sha # 0 /\ (q.sha = disk[q.path] \/ q.sha \in gone[q.path])
Reread(q) == q.op = "update" /\ q.pc = "put"
               => q.meta = q.sha \/ q.sha \in gone[q.path]
Holds(q) == Unwritten(q) /\ Looked(q) /\ Reread(q)
Apart == \A r, o \in Requests :
           Pending(req[r]) /\ Pending(req[o]) /\ req[r].ver = req[o].ver => r = o
Inv == Shapes /\ Known /\ Apart /\ \A r \in Requests : Holds(req[r])

\* Requests that wait for nothing the invariant speaks of.
Calm(q) == ~Pending(q) /\ ~(q.op = "update" /\ q.pc \in {"get", "put"})

----------------------------------------------------------------------------
(* What a write to the store does to what the others hold. *)

\* The contents the code writes: none, the one that is there, or one of an upload's own.
Writable(p, c) == c \in {0, disk[p]} \/ Own(c)

\* A write keeps what is known of the store.
LEMMA PutKnown ==
  ASSUME Inv, NEW p \in Paths, NEW c \in Nat, Writable(p, c), Put(p, c),
         last' \in Nat, last <= last', c <= last'
  PROVE  /\ disk' \in [Paths -> Nat] /\ gone' \in [Paths -> SUBSET Nat] /\ Known'
         /\ \A x \in Paths : gone[x] \subseteq gone'[x]
         /\ \A x \in Paths : disk'[x] = disk[x] \/ disk[x] = 0 \/ disk[x] \in gone'[x]
         /\ \A x \in Paths : disk'[x] \in {disk[x], c}
                             /\ \A v \in gone'[x] : v \in gone[x] \/ v = disk[x]
<1> DEFINE old == disk[p]
<1>0. Shapes /\ Known BY DEF Inv
<1>1. disk' = [disk EXCEPT ![p] = c]
      /\ gone' = [gone EXCEPT ![p] = IF old \in {0, c} THEN @ ELSE @ \cup {old}]
  BY DEF Put
<1>2. disk' \in [Paths -> Nat] /\ disk'[p] = c /\ \A x \in Paths \ {p} : disk'[x] = disk[x]
  BY <1>0, <1>1 DEF Shapes
<1>3. /\ gone' \in [Paths -> SUBSET Nat]
      /\ gone'[p] = IF old \in {0, c} THEN gone[p] ELSE gone[p] \cup {old}
      /\ \A x \in Paths \ {p} : gone'[x] = gone[x]
  <2>1. old \in Nat BY <1>0 DEF Shapes
  <2> HIDE DEF old
  <2> QED BY <1>0, <1>1, <2>1 DEF Shapes
<1>4. c <= last' /\ c \notin gone[p]
  BY <1>0 DEF Shapes, Known, Writable, Own
<1>5. Known'
  <2> SUFFICES ASSUME NEW x \in Paths
               PROVE  /\ disk'[x] <= last' /\ disk'[x] \notin gone'[x]
                      /\ 0 \notin gone'[x] /\ \A v \in gone'[x] : v <= last'
    BY DEF Known
  <2>0. last \in Nat /\ disk[x] \in Nat /\ gone[x] \subseteq Nat BY <1>0 DEF Shapes
  <2>1. CASE x = p
    <3>1. old <= last /\ 0 \notin gone[p] /\ \A v \in gone[p] : v <= last
      BY <1>0 DEF Known
    <3>2. old \in Nat BY <2>0, <2>1
    <3> HIDE DEF old
    <3> QED BY <1>2, <1>3, <1>4, <2>0, <2>1, <3>1, <3>2
  <2>2. CASE x # p BY <1>0, <1>2, <1>3, <2>0, <2>2 DEF Known
  <2> QED BY <2>1, <2>2
<1> QED BY <1>2, <1>3, <1>5

\* What a request other than the writer's holds survives a write of c.
LEMMA PutHolds ==
  ASSUME Inv, NEW p \in Paths, NEW c \in Nat, Writable(p, c), Put(p, c),
         last' \in Nat, last <= last', c <= last', NEW q \in Records, Holds(q), Pending(q) => q.ver # c
  PROVE  Holds(q)'
<1>0. /\ \A x \in Paths : gone[x] \subseteq gone'[x]
      /\ \A x \in Paths : disk'[x] = disk[x] \/ disk[x] = 0 \/ disk[x] \in gone'[x]
      /\ \A x \in Paths : disk'[x] \in {disk[x], c}
                          /\ \A v \in gone'[x] : v \in gone[x] \/ v = disk[x]
  BY PutKnown
<1>1. q.path \in Paths /\ q.ver \in Nat /\ last \in Nat BY DEF Records, Points, Operations, Inv, Shapes
<1>2. Unwritten(q)' BY <1>0, <1>1 DEF Holds, Unwritten, Own, Pending
<1>3. Looked(q)' BY <1>0, <1>1 DEF Holds, Looked
<1>4. Reread(q)' BY <1>0, <1>1 DEF Holds, Reread
<1> QED BY <1>2, <1>3, <1>4 DEF Holds

----------------------------------------------------------------------------
(* Steps of one request, by what they leave of it. *)

LEMMA OneRequest ==
  ASSUME Inv, NEW r \in Requests, NEW q \in Records, req' = [req EXCEPT ![r] = q]
  PROVE  /\ req' \in [Requests -> Records] /\ req'[r] = q
         /\ \A o \in Requests \ {r} : req'[o] = req[o]
PROOF BY DEF Inv, Shapes

\* A request that leaves the store alone and ends up calm, or whose record comes to
\* hold what it should.
LEMMA ReadStep ==
  ASSUME Inv, NEW r \in Requests, NEW q \in Records, req' = [req EXCEPT ![r] = q],
         UNCHANGED <<disk, gone>>, last' = last,
         \/ Calm(q)
         \/ Holds(q) /\ (Pending(q) => Pending(req[r]) /\ q.ver = req[r].ver)
  PROVE  Inv'
<1>1. /\ req' \in [Requests -> Records] /\ req'[r] = q
      /\ \A o \in Requests \ {r} : req'[o] = req[o]
  BY OneRequest
<1>2. Shapes' BY <1>1 DEF Inv, Shapes
<1>3. Known' BY DEF Inv, Known
<1>4. Holds(q)
  BY DEF Calm, Holds, Unwritten, Looked, Reread
<1>5. \A z \in Records : Holds(z) => Holds(z)'
  BY DEF Holds, Unwritten, Own, Looked, Reread
<1>6. ASSUME NEW o \in Requests PROVE Holds(req[o])'
  <2>1. PICK z \in Records : z = req'[o] BY <1>1
  <2>2. Holds(z) BY <1>1, <1>4, <2>1 DEF Inv
  <2> QED BY <1>5, <2>1, <2>2 DEF Holds, Unwritten, Own, Looked, Reread
<1>7. Apart'
  <2> SUFFICES ASSUME NEW a \in Requests, NEW b \in Requests, Pending(req'[a]),
                      Pending(req'[b]), req'[a].ver = req'[b].ver
               PROVE  a = b
    BY DEF Apart, Pending
  <2>1. /\ Pending(req[a]) /\ req'[a].ver = req[a].ver
        /\ Pending(req[b]) /\ req'[b].ver = req[b].ver
    BY <1>1 DEF Calm
  <2> QED BY <2>1 DEF Inv, Apart
<1> QED BY <1>2, <1>3, <1>6, <1>7 DEF Inv

\* A request that writes c to its path and ends up calm.
LEMMA WriteStep ==
  ASSUME Inv, NEW r \in Requests, NEW q \in Records, req' = [req EXCEPT ![r] = q],
         Calm(q), NEW p \in Paths, NEW c \in Nat, Put(p, c), last' = last,
         \/ c \in {0, disk[p]}
         \/ Pending(req[r]) /\ c = req[r].ver
  PROVE  Inv'
<1>1. /\ req' \in [Requests -> Records] /\ req'[r] = q
      /\ \A o \in Requests \ {r} : req'[o] = req[o]
  BY OneRequest
<1>2. Writable(p, c) /\ last \in Nat /\ c <= last
  BY DEF Inv, Shapes, Known, Holds, Unwritten, Writable
<1>3. Shapes' /\ Known' BY <1>1, <1>2, PutKnown DEF Inv, Shapes
<1>4. Holds(q)' BY DEF Calm, Holds, Unwritten, Looked, Reread, Pending
<1>5. ASSUME NEW o \in Requests PROVE Holds(req[o])'
  <2>1. PICK z \in Records : z = req'[o] BY <1>1
  <2>2. CASE o = r
    BY <1>1, <1>4, <2>1, <2>2 DEF Holds, Unwritten, Own, Looked, Reread
  <2>3. CASE o # r
    <3>1. z = req[o] /\ Holds(z) BY <1>1, <2>1, <2>3 DEF Inv
    <3>2. Pending(z) => z.ver # c
      <4> SUFFICES ASSUME Pending(z), z.ver = c PROVE FALSE OBVIOUS
      <4>1. Own(c) BY <3>1 DEF Holds, Unwritten
      <4>2. c \notin {0, disk[p]} BY <4>1 DEF Own
      <4>3. Pending(req[r]) /\ req[o].ver = req[r].ver BY <3>1, <4>2
      <4> QED BY <2>3, <3>1, <4>3 DEF Inv, Apart
    <3>3. Holds(z)' BY <1>2, <3>1, <3>2, PutHolds
    <3> QED BY <2>1, <3>3 DEF Holds, Unwritten, Own, Looked, Reread
  <2> QED BY <2>2, <2>3
<1>6. Apart'
  <2> SUFFICES ASSUME NEW a \in Requests, NEW b \in Requests, Pending(req'[a]),
                      Pending(req'[b]), req'[a].ver = req'[b].ver
               PROVE  a = b
    BY DEF Apart, Pending
  <2>1. a # r /\ b # r BY <1>1 DEF Calm
  <2> QED BY <1>1, <2>1 DEF Inv, Apart
<1> QED BY <1>3, <1>5, <1>6 DEF Inv

----------------------------------------------------------------------------
(* How the actions change the record of a request. *)

\* The request goes on at pc, with its operation, its path and its own content.
Shift(r, pc) == \E q \in Records : /\ req' = [req EXCEPT ![r] = q] /\ q.op = req[r].op
                                   /\ q.pc = pc /\ q.ver = req[r].ver

LEMMA Shifts ==
  ASSUME Inv, NEW r \in Requests, NEW pc \in Points
  PROVE  /\ Goto(r, pc) => Shift(r, pc)
         /\ \A s \in SUBSET Paths :
              req' = [req EXCEPT ![r].found = s, ![r].pc = pc] => Shift(r, pc)
         /\ \A m \in Nat : req' = [req EXCEPT ![r].meta = m, ![r].pc = pc] => Shift(r, pc)
         /\ \A m \in Nat : req' = [req EXCEPT ![r].pc = pc, ![r].meta = m] => Shift(r, pc)
<1>0. req[r] \in Records /\ req \in [Requests -> Records] BY DEF Inv, Shapes
<1>1. ASSUME NEW q \in Records, req' = [req EXCEPT ![r] = q],
             q.op = req[r].op, q.pc = pc, q.ver = req[r].ver
      PROVE  Shift(r, pc)
  BY <1>1 DEF Shift
<1>2. ASSUME Goto(r, pc) PROVE Shift(r, pc)
  <2> DEFINE q == [req[r] EXCEPT !.pc = pc]
  <2>1. req' = [req EXCEPT ![r] = q] BY <1>2 DEF Goto
  <2>2. q \in Records /\ q.op = req[r].op /\ q.pc = pc /\ q.ver = req[r].ver
    BY <1>0 DEF Records, Points, Operations
  <2> HIDE DEF q
  <2> QED BY <1>1, <2>1, <2>2
<1>3. ASSUME NEW s \in SUBSET Paths, req' = [req EXCEPT ![r].found = s, ![r].pc = pc]
      PROVE  Shift(r, pc)
  <2> DEFINE q == [req[r] EXCEPT !.found = s, !.pc = pc]
  <2>1. req' = [req EXCEPT ![r] = q] BY <1>0, <1>3
  <2>2. q \in Records /\ q.op = req[r].op /\ q.pc = pc /\ q.ver = req[r].ver
    BY <1>0 DEF Records, Points, Operations
  <2> HIDE DEF q
  <2> QED BY <1>1, <2>1, <2>2
<1>4. ASSUME NEW m \in Nat,
             \/ req' = [req EXCEPT ![r].meta = m, ![r].pc = pc]
             \/ req' = [req EXCEPT ![r].pc = pc, ![r].meta = m]
      PROVE  Shift(r, pc)
  <2> DEFINE q == [req[r] EXCEPT !.meta = m, !.pc = pc]
  <2>1. req' = [req EXCEPT ![r] = q] BY <1>0, <1>4
  <2>2. q \in Records /\ q.op = req[r].op /\ q.pc = pc /\ q.ver = req[r].ver
    BY <1>0 DEF Records, Points, Operations
  <2> HIDE DEF q
  <2> QED BY <1>1, <2>1, <2>2
<1> QED BY <1>2, <1>3, <1>4

\* The request ends, or goes on to where it waits for nothing.
Calms(r) == \/ Finish(r)
            \/ \E pc \in Points : /\ Shift(r, pc)
                                  /\ req[r].op = "upload" => pc \notin {"sha", "put"}
                                  /\ req[r].op = "update" => pc \notin {"get", "put"}
LEMMA CalmRecord ==
  ASSUME Inv, NEW r \in Requests, Calms(r)
  PROVE  \E q \in Records : req' = [req EXCEPT ![r] = q] /\ Calm(q)
<1>1. CASE Finish(r)
  <2>1. Paths # {} BY DEF Inv, Shapes, Records
  <2>2. AnyPath \in Paths BY <2>1, Zenon DEF AnyPath
  <2>3. Idle \in Records BY <2>2 DEF Idle, Records, Points, Operations
  <2>4. Calm(Idle) BY DEF Idle, Calm, Pending
  <2> QED BY <1>1, <2>3, <2>4 DEF Finish
<1>2. CASE ~Finish(r)
  BY <1>2 DEF Calms, Points, Shift, Calm, Pending
<1> QED BY <1>1, <1>2

\* A step that leaves the store alone.
LEMMA Reads ==
  ASSUME Inv, NEW r \in Requests, Calms(r), UNCHANGED store, last' = last
  PROVE  Inv'
PROOF BY CalmRecord, ReadStep DEF store

\* A step that writes to the path of its request.
LEMMA Writes ==
  ASSUME Inv, NEW r \in Requests, Calms(r), last' = last, NEW c \in Nat,
         Put(req[r].path, c),
         \/ c \in {0, disk[req[r].path]}
         \/ Pending(req[r]) /\ c = req[r].ver
  PROVE  Inv'
<1>1. req[r].path \in Paths BY DEF Inv, Shapes, Records
<1>2. PICK q \in Records : req' = [req EXCEPT ![r] = q] /\ Calm(q) BY CalmRecord
<1> QED BY <1>1, <1>2, WriteStep

----------------------------------------------------------------------------
(* The handlers. *)

\* A upload has its own content until it is written.
LEMMA UploadingSafe == ASSUME Inv, NEW r \in Requests, Uploading(r) PROVE Inv'
<1>0. req[r] \in Records /\ last' = last
  BY DEF Inv, Shapes, Uploading, LocalPut, LocalDoc, S3Put, S3Answer, SpacesPut, GithubSha,
         GithubPut, Quiet
<1>1. ASSUME LocalPut(r) \/ S3Put(r) \/ SpacesPut(r) PROVE Inv'
  <2>1. /\ Put(req[r].path, req[r].ver) /\ Pending(req[r])
        /\ Finish(r) \/ \E pc \in {"doc", "head"} : Goto(r, pc)
    BY <1>1 DEF LocalPut, S3Put, SpacesPut, At, Pending
  <2>2. Calms(r) BY <2>1, Shifts DEF Calms, Points, Pending
  <2>3. req[r].ver \in Nat BY <1>0 DEF Records, Points, Operations
  <2> QED BY <1>0, <2>1, <2>2, <2>3, Writes
<1>2. ASSUME LocalDoc(r) \/ S3Answer(r) PROVE Inv'
  BY <1>0, <1>2, Reads DEF LocalDoc, S3Answer, Calms
<1>3. ASSUME GithubSha(r) PROVE Inv'
  <2>1. PICK s \in {0, disk[req[r].path]} : req' = [req EXCEPT ![r].sha = s, ![r].pc = "put"]
    BY <1>3 DEF GithubSha
  <2> DEFINE q == [req[r] EXCEPT !.sha = s, !.pc = "put"]
  <2>2. req' = [req EXCEPT ![r] = q] BY <2>1 DEF Inv, Shapes
  <2>3. s \in Nat BY <1>0, <2>1 DEF Inv, Shapes, Records
  <2>4. q \in Records /\ q.op = "upload" /\ q.ver = req[r].ver
    BY <1>0, <1>3, <2>3 DEF Records, Points, Operations, GithubSha, At
  <2>5. Pending(req[r]) BY <1>3 DEF Pending, GithubSha, At
  <2> HIDE DEF q
  <2>6. Holds(q) BY <2>4, <2>5 DEF Inv, Holds, Unwritten, Looked, Reread
  <2>7. UNCHANGED <<disk, gone>> BY <1>3 DEF GithubSha, store
  <2> QED BY <1>0, <2>2, <2>4, <2>5, <2>6, <2>7, ReadStep
<1>4. ASSUME GithubPut(r) PROVE Inv'
  <2>1. Finish(r) /\ Pending(req[r]) /\ req[r].ver \in Nat
    BY <1>0, <1>4 DEF GithubPut, At, Pending, Records
  <2>2. Put(req[r].path, req[r].ver) \/ UNCHANGED store BY <1>4 DEF GithubPut
  <2> QED BY <1>0, <2>1, <2>2, Reads, Writes DEF Calms, Points
<1> QED BY <1>1, <1>2, <1>3, <1>4 DEF Uploading

\* A deletion writes nothing but the absence of the file.
LEMMA DeletingSafe == ASSUME Inv, NEW r \in Requests, Deleting(r) PROVE Inv'
<1>0. req[r] \in Records /\ last' = last
  BY DEF Inv, Shapes, Deleting, LocalUnlink, LocalUndoc, S3Remove, SpacesRemove, GithubFind,
         GithubRemove, Invalidate, Quiet
<1>1. ASSUME LocalUnlink(r) \/ S3Remove(r) \/ SpacesRemove(r) \/ GithubRemove(r) PROVE Inv'
  <2>1. \/ Finish(r) /\ UNCHANGED store
        \/ Put(req[r].path, 0) /\ \E pc \in {"undoc", "invalidate"} : Goto(r, pc)
    BY <1>1 DEF LocalUnlink, S3Remove, SpacesRemove, GithubRemove, Answer404
  <2>2. Calms(r) BY <2>1, Shifts DEF Calms, Points
  <2> QED BY <1>0, <2>1, <2>2, Reads, Writes
<1>2. ASSUME LocalUndoc(r) \/ Invalidate(r) PROVE Inv'
  <2>1. UNCHANGED store /\ (Finish(r) \/ Goto(r, "invalidate"))
    BY <1>2 DEF LocalUndoc, Invalidate, store
  <2>2. Calms(r) BY <2>1, Shifts DEF Calms, Points
  <2> QED BY <1>0, <2>1, <2>2, Reads
<1>3. ASSUME GithubFind(r) PROVE Inv'
  <2>1. UNCHANGED store /\ req[r].op = "delete" BY <1>3 DEF GithubFind, At
  <2>2. CASE Finish(r) BY <1>0, <2>1, <2>2, Reads DEF Calms, Points
  <2>3. CASE req' = [req EXCEPT ![r].sha = disk[req[r].path], ![r].pc = "remove"]
    <3> DEFINE q == [req[r] EXCEPT !.sha = disk[req[r].path], !.pc = "remove"]
    <3>1. req' = [req EXCEPT ![r] = q] BY <2>3 DEF Inv, Shapes
    <3>2. disk[req[r].path] \in Nat BY <1>0 DEF Inv, Shapes, Records
    <3>3. q \in Records /\ q.op = "delete" BY <1>0, <2>1, <3>2 DEF Records, Points, Operations
    <3> HIDE DEF q
    <3>4. Calm(q) BY <3>3 DEF Calm, Pending
    <3> QED BY <1>0, <2>1, <3>1, <3>3, <3>4, ReadStep DEF store
  <2> QED BY <1>3, <2>2, <2>3 DEF GithubFind
<1> QED BY <1>1, <1>2, <1>3 DEF Deleting

\* Reading, and caching what was read, leaves the store alone.
LEMMA AskingSafe ==
  ASSUME Inv, NEW r \in Requests, Asking(r) \/ Serving(r) \/ Caching(r) \/ Fail(r)
  PROVE  Inv'
<1>0. req[r] \in Records /\ Paths # {} BY DEF Inv, Shapes, Records
<1>1. ASSUME NEW k, Found(r, k) \/ Listed(r, k) \/ Described(r, k) PROVE Inv'
  <2>0. UNCHANGED store /\ last' = last
    BY <1>1 DEF Found, Listed, Described, Quiet
  <2>1. CASE Described(r, k)
    <3>1. disk[req[r].path] \in Nat BY <1>0 DEF Inv, Shapes, Records
    <3>2. Finish(r) \/ req' = [req EXCEPT ![r].meta = disk[req[r].path], ![r].pc = "cache"]
      BY <2>1 DEF Described
    <3>3. Calms(r) BY <3>1, <3>2, Shifts DEF Calms, Points
    <3> QED BY <2>0, <3>3, Reads
  <2>2. CASE Found(r, k) \/ Listed(r, k)
    <3>1. \E s \in SUBSET Paths : req' = [req EXCEPT ![r].found = s, ![r].pc = "cache"]
      BY <2>2 DEF Found, Listed, Stored
    <3>2. Calms(r) BY <3>1, Shifts DEF Calms, Points
    <3> QED BY <2>0, <3>2, Reads
  <2> QED BY <1>1, <2>1, <2>2
<1>2. ASSUME Asking(r) PROVE Inv'
  BY <1>1, <1>2 DEF Asking, LocalAccess, S3Exists, SpacesExists, GithubExists, LocalList, S3List,
     SpacesList, GithubList, LocalMetadata, S3Metadata, SpacesMetadata, GithubMetadata,
     FileExistsAtGithub, ListFilesAtGithub, GetFileContent
<1>3. ASSUME Serving(r) \/ Fail(r) PROVE Inv'
  <2>1. Finish(r) /\ UNCHANGED store /\ last' = last
    BY <1>3 DEF Serving, LocalDownload, S3Download, SpacesDownload, GithubStream, DownloadFile,
       Fail, Quiet
  <2> QED BY <2>1, Reads DEF Calms, Points
<1>4. ASSUME CacheExistence(r) \/ CacheListing(r) PROVE Inv'
  BY <1>4, Reads DEF CacheExistence, CacheListing, Calms, store
<1>5. ASSUME CacheMetadata(r) PROVE Inv'
  <2>1. UNCHANGED store /\ last' = last BY <1>5 DEF CacheMetadata, store
  <2>2. \/ Finish(r)
        \/ req[r].op = "download" /\ req' = [req EXCEPT ![r].pc = "get", ![r].meta = 0]
    BY <1>5 DEF CacheMetadata
  <2>3. Calms(r) BY <2>2, Shifts DEF Calms, Points
  <2> QED BY <2>1, <2>3, Reads
<1> QED BY <1>2, <1>3, <1>4, <1>5 DEF Caching

\* A metadata update writes the content that is there: S3 and Spaces copy the object
\* onto itself, and GitHub's second content counts only under the first one's sha.
LEMMA UpdatingSafe == ASSUME Inv, NEW r \in Requests, Updating(r) PROVE Inv'
<1> DEFINE p == req[r].path
<1>0. /\ req[r] \in Records /\ last' = last /\ p \in Paths /\ disk[p] \in Nat
      /\ disk[p] \notin gone[p]
  BY DEF Inv, Known, Shapes, Records, Updating, LocalRead, LocalWrite, S3Copy, SpacesRead,
         SpacesCopy, Head, GithubLookup, GithubGet, GithubRefresh, ReadMetadata, Copy, Quiet
<1>1. ASSUME NEW pc \in {"write", "copy", "cache"}, ReadMetadata(r, pc) PROVE Inv'
  <2>1. UNCHANGED store
        /\ (Finish(r) \/ req' = [req EXCEPT ![r].meta = disk[p], ![r].pc = pc])
    BY <1>1 DEF ReadMetadata
  <2>2. Finish(r) \/ Shift(r, pc)
    <3>1. pc \in Points BY DEF Points
    <3> HIDE DEF p
    <3> QED BY <1>0, <2>1, <3>1, Shifts
  <2>3. Calms(r) BY <2>2 DEF Calms, Points
  <2> QED BY <1>0, <2>1, <2>3, Reads
<1>2. ASSUME LocalRead(r) \/ SpacesRead(r) \/ Head(r) PROVE Inv'
  BY <1>1, <1>2 DEF LocalRead, SpacesRead, Head
<1>3. ASSUME LocalWrite(r) PROVE Inv'
  <2>1. Calms(r) BY <1>3, Shifts DEF LocalWrite, Calms, Points
  <2> QED BY <1>0, <1>3, <2>1, Reads DEF LocalWrite
<1>4. ASSUME S3Copy(r) \/ SpacesCopy(r) PROVE Inv'
  <2>1. \/ Finish(r) /\ UNCHANGED store
        \/ /\ Put(p, disk[p])
           /\ req' = [req EXCEPT ![r].pc = "head", ![r].meta = 0]
    BY <1>4 DEF S3Copy, SpacesCopy, Copy, Answer404
  <2>2. Calms(r) BY <2>1, Shifts DEF Calms, Points
  <2> QED BY <1>0, <2>1, <2>2, Reads, Writes
<1>5. ASSUME GithubLookup(r) PROVE Inv'
  <2>1. UNCHANGED store /\ req[r].op = "update" BY <1>5 DEF GithubLookup, At
  <2>2. CASE Finish(r) BY <1>0, <2>1, <2>2, Reads DEF Calms
  <2>3. CASE disk[p] # 0 /\ req' = [req EXCEPT ![r].sha = disk[p], ![r].pc = "get"]
    <3> DEFINE q == [req[r] EXCEPT !.sha = disk[p], !.pc = "get"]
    <3>1. req' = [req EXCEPT ![r] = q] BY <2>3 DEF Inv, Shapes
    <3>2. q \in Records /\ q.op = "update" /\ q.pc = "get" /\ q.sha = disk[p] /\ q.path = p
      BY <1>0, <2>1 DEF Records, Points
    <3> HIDE DEF q
    <3>3. Holds(q) /\ ~Pending(q)
      BY <2>3, <3>2 DEF Holds, Unwritten, Looked, Reread, Pending
    <3> QED BY <1>0, <2>1, <3>1, <3>2, <3>3, ReadStep DEF store
  <2> QED BY <1>5, <2>2, <2>3 DEF GithubLookup
<1>6. ASSUME GithubGet(r) PROVE Inv'
  <2>1. UNCHANGED store /\ req[r].op = "update" /\ req[r].pc = "get"
    BY <1>6 DEF GithubGet, ReadMetadata, At
  <2>2. CASE Finish(r) BY <1>0, <2>1, <2>2, Reads DEF Calms
  <2>3. CASE req' = [req EXCEPT ![r].meta = disk[p], ![r].pc = "put"]
    <3> DEFINE q == [req[r] EXCEPT !.meta = disk[p], !.pc = "put"]
    <3>1. req' = [req EXCEPT ![r] = q] BY <2>3 DEF Inv, Shapes
    <3>2. q \in Records /\ q.op = "update" /\ q.pc = "put" /\ q.meta = disk[p] /\ q.path = p
          /\ q.sha = req[r].sha
      BY <1>0, <2>1 DEF Records, Points
    <3> HIDE DEF q
    <3>3. q.sha = disk[p] \/ q.sha \in gone[p] BY <2>1, <3>2 DEF Inv, Holds, Looked
    <3>4. Holds(q) /\ ~Pending(q)
      BY <3>2, <3>3 DEF Holds, Unwritten, Looked, Reread, Pending
    <3> QED BY <1>0, <2>1, <3>1, <3>2, <3>4, ReadStep DEF store
  <2> QED BY <1>6, <2>2, <2>3 DEF GithubGet, ReadMetadata
<1>7. ASSUME GithubRefresh(r) PROVE Inv'
  <2>1. CASE ShaMatches(r)
    <3>1. Put(p, req[r].meta) /\ Goto(r, "cache") /\ req[r].op = "update" /\ req[r].pc = "put"
      BY <1>7, <2>1 DEF GithubRefresh, At
    <3>2. req[r].sha = disk[p] BY <2>1 DEF ShaMatches
    <3>3. req[r].meta = disk[p] BY <1>0, <3>1, <3>2 DEF Inv, Holds, Reread
    <3>4. Calms(r) BY <3>1, Shifts DEF Calms, Points
    <3> QED BY <1>0, <3>1, <3>3, <3>4, Writes
  <2>2. CASE ~ShaMatches(r)
    BY <1>0, <1>7, <2>2, Reads DEF GithubRefresh, Answer404, Calms
  <2> QED BY <2>1, <2>2
<1> QED BY <1>2, <1>3, <1>4, <1>5, <1>6, <1>7 DEF Updating

\* Requests come in: an upload takes the next content, which no file has had.
LEMMA ArriveSafe == ASSUME Inv, NEW r \in Requests, Arrive(r) PROVE Inv'
<1>0. Shapes /\ Known BY DEF Inv
<1> DEFINE Q(op, p, pc, v) == [Idle EXCEPT !.op = op, !.path = p, !.pc = pc, !.ver = v]
<1>1. ASSUME NEW op \in Operations, NEW p \in Paths, NEW pc \in Points, NEW v \in Nat
      PROVE  /\ Q(op, p, pc, v) \in Records
             /\ Q(op, p, pc, v).op = op /\ Q(op, p, pc, v).pc = pc /\ Q(op, p, pc, v).ver = v
  <2>1. Idle \in Records BY DEF Idle, Records, Points, Operations, AnyPath
  <2>2. Q(op, p, pc, v) \in Records BY <2>1, Fields
  <2> QED BY <2>2, SMT DEF Idle
<1> HIDE DEF Q
<1>2. ASSUME NEW op \in {"delete", "exists", "list", "metadata", "download", "update"},
             NEW p \in Paths, NEW pc \in {"sha", "remove", "ask", "get", "copy", "read"},
             op = "update" => pc # "get",
             Begin(r, op, p, pc, 0), UNCHANGED store, last' = last
      PROVE  Inv'
  <2> DEFINE q == Q(op, p, pc, 0)
  <2>1. q \in Records /\ q.op = op /\ q.pc = pc BY <1>1 DEF Operations, Points
  <2>2. req' = [req EXCEPT ![r] = q] BY <1>2 DEF Begin, Q
  <2> HIDE DEF q
  <2>3. Calm(q) BY <1>2, <2>1 DEF Calm, Pending
  <2> QED BY <1>2, <2>1, <2>2, <2>3, ReadStep DEF store
<1>3. ASSUME NEW p \in Paths, HttpUpload(r, p) PROVE Inv'
  <2>1. PICK pc \in {"sha", "put"} : Begin(r, "upload", p, pc, last + 1)
    BY <1>3 DEF HttpUpload, UploadFile
  <2> DEFINE q == Q("upload", p, pc, last + 1)
  <2>2. /\ UNCHANGED <<disk, gone>> /\ last' = last + 1 /\ last \in Nat
    BY <1>0, <1>3 DEF HttpUpload, UploadFile, Shapes
  <2>3. q \in Records /\ q.op = "upload" /\ q.pc = pc /\ q.ver = last + 1
    BY <1>1, <2>2 DEF Operations, Points
  <2>4. req' = [req EXCEPT ![r] = q] BY <2>1 DEF Begin, Q
  <2> HIDE DEF q
  <2>5. /\ req' \in [Requests -> Records] /\ req'[r] = q
        /\ \A o \in Requests \ {r} : req'[o] = req[o]
    BY <2>3, <2>4, OneRequest
  <2>6. Shapes' /\ Known'
    BY <1>0, <2>2, <2>5 DEF Shapes, Known
  <2>7. ASSUME NEW o \in Requests PROVE Holds(req[o])'
    <3>1. PICK z \in Records : z = req'[o] BY <2>5
    <3>2. CASE o = r
      <4>1. Own(last + 1)
        BY <1>0, <2>2 DEF Own, Shapes, Known
      <4>2. Holds(z)'
        BY <2>2, <2>3, <2>5, <3>1, <3>2, <4>1 DEF Holds, Unwritten, Looked, Reread, Own
      <4> QED BY <3>1, <4>2 DEF Holds, Unwritten, Own, Looked, Reread
    <3>3. CASE o # r
      <4>1. Holds(z) /\ z.ver \in Nat BY <2>5, <3>1, <3>3 DEF Inv, Records
      <4>2. Holds(z)' BY <2>2, <4>1 DEF Holds, Unwritten, Looked, Reread, Own
      <4> QED BY <3>1, <4>2 DEF Holds, Unwritten, Own, Looked, Reread
    <3> QED BY <3>2, <3>3
  <2>8. Apart'
    <3>1. \A o \in Requests : Pending(req[o]) => req[o].ver <= last /\ req[o].ver \in Nat
      BY DEF Inv, Holds, Unwritten, Shapes, Records
    <3> SUFFICES ASSUME NEW a \in Requests, NEW b \in Requests, Pending(req'[a]),
                        Pending(req'[b]), req'[a].ver = req'[b].ver
                 PROVE  a = b
      BY DEF Apart, Pending
    <3>2. CASE a # r /\ b # r BY <2>5, <3>2 DEF Inv, Apart
    <3>3. CASE a = r /\ b # r BY <2>2, <2>3, <2>5, <3>1, <3>3
    <3>4. CASE a # r /\ b = r BY <2>2, <2>3, <2>5, <3>1, <3>4
    <3> QED BY <3>2, <3>3, <3>4
  <2> QED BY <2>6, <2>7, <2>8 DEF Inv
<1>4. ASSUME NEW p \in Paths, HttpDelete(r, p) PROVE Inv'
  BY <1>2, <1>4 DEF HttpDelete, DeleteFile, store
<1>5. ASSUME NEW p \in Paths, HttpExists(r, p) \/ HttpMetadata(r, p) \/ HttpDownload(r, p)
      PROVE  Inv'
  BY <1>2, <1>5 DEF HttpExists, FileExists, HttpMetadata, HttpDownload, GetFileMetadata,
     Started, Quiet
<1>6. ASSUME NEW p \in Paths, HttpUpdate(r, p) PROVE Inv'
  BY <1>2, <1>6 DEF HttpUpdate, UpdateFileMetadata, Started, Quiet
<1>7. ASSUME HttpList(r) PROVE Inv'
  <2>1. Paths # {} BY <1>0 DEF Shapes, Records
  <2>2. AnyPath \in Paths BY <2>1, Zenon DEF AnyPath
  <2> QED BY <1>2, <1>7, <2>2 DEF HttpList, ListFiles, Started, Quiet
<1> QED BY <1>3, <1>4, <1>5, <1>6, <1>7 DEF Arrive

\* Signed uploads write a content that is new; the rest leaves files and requests alone.
LEMMA WorldSafe ==
  ASSUME Inv,
         \/ \E p \in Paths : \/ PresignUpload(p) \/ SignedPut(p) \/ SignatureExpires(p)
                             \/ ExpireMetadata(p) \/ ExpireExistence(p)
         \/ ExpireListing
  PROVE  Inv'
<1>1. ASSUME NEW p \in Paths, SignedPut(p) PROVE Inv'
  <2>0. Shapes /\ Known BY DEF Inv
  <2>1. Put(p, last + 1) /\ last' = last + 1 /\ last \in Nat /\ req' = req
    BY <1>1, <2>0 DEF SignedPut, Shapes
  <2>2. Own(last + 1) BY <2>0, <2>1 DEF Own, Shapes, Known
  <2>3. Shapes' /\ Known' BY <2>0, <2>1, <2>2, PutKnown DEF Writable, Shapes
  <2>4. ASSUME NEW o \in Requests PROVE Holds(req[o])'
    <3>1. PICK z \in Records : z = req'[o] /\ z = req[o] BY <2>0, <2>1 DEF Shapes
    <3>2. Holds(z) /\ (Pending(z) => z.ver # last + 1)
      BY <2>1, <3>1 DEF Inv, Holds, Unwritten, Records
    <3>3. Holds(z)' BY <2>1, <2>2, <3>2, PutHolds DEF Writable
    <3> QED BY <3>1, <3>3 DEF Holds, Unwritten, Own, Looked, Reread
  <2>5. Apart' BY <2>1 DEF Inv, Apart, Pending
  <2> QED BY <2>3, <2>4, <2>5 DEF Inv
<1>2. ASSUME UNCHANGED <<disk, gone, req, last>> PROVE Inv'
  BY <1>2 DEF Inv, Shapes, Known, Apart, Pending, Holds, Unwritten, Own, Looked, Reread
<1> QED
  BY <1>1, <1>2 DEF PresignUpload, SignatureExpires, ExpireMetadata, ExpireExistence,
     ExpireListing

----------------------------------------------------------------------------
\* The invariant holds at first and is kept by every step.
LEMMA Initially == ASSUME StorageAssumption, Init PROVE Inv
<1>1. AnyPath \in Paths
  <2>1. Paths # {} BY DEF StorageAssumption
  <2> QED BY <2>1, Zenon DEF AnyPath
<1>2. Idle \in Records BY <1>1 DEF Idle, Records, Operations, Points
<1>3. Shapes BY <1>2 DEF Init, Shapes
<1>4. Known BY DEF Init, Known
<1>5. ~Pending(Idle) /\ Calm(Idle) BY DEF Pending, Calm, Idle
<1>6. Apart /\ \A r \in Requests : Holds(req[r])
  BY <1>5 DEF Init, Apart, Holds, Unwritten, Looked, Reread, Calm
<1> QED BY <1>3, <1>4, <1>6 DEF Inv

LEMMA EveryStep == Inv /\ [Next]_vars => Inv'
<1> SUFFICES ASSUME Inv, [Next]_vars PROVE Inv' OBVIOUS
<1>1. ASSUME NEW r \in Requests, Step(r) PROVE Inv'
  BY <1>1, UploadingSafe, DeletingSafe, AskingSafe, UpdatingSafe DEF Step
<1>2. ASSUME NEW r \in Requests, Arrive(r) PROVE Inv' BY <1>2, ArriveSafe
<1>3. CASE UNCHANGED vars
  BY <1>3 DEF Inv, vars, Shapes, Known, Apart, Pending, Holds, Unwritten, Own, Looked, Reread
<1> QED BY <1>1, <1>2, <1>3, WorldSafe DEF Next

\* A content that was replaced or deleted never comes back, with any of the providers
\* and whatever requests overlap: an upload writes its own content once, and GitHub's
\* metadata update puts a file again only under the sha it looked up before it read
\* the content (github-storage.provider.ts 225-264).
THEOREM StoreNeverReverts == ASSUME StorageAssumption PROVE Spec => []NeverReverts
<1>1. Init => Inv BY Initially
<1>2. Inv => NeverReverts BY DEF Inv, Known, NeverReverts
<1> QED BY <1>1, <1>2, EveryStep, PTL DEF Spec

----------------------------------------------------------------------------
(* The caches.  What is not yet cached can spoil what a deletion cleared: a *)
(* request that holds the answer that the file is there (Believes).  While  *)
(* nobody does, and no deletion is on its way to the caches (Cleans), they  *)
(* say of a file that is gone, and whose deletion nothing raced, that it is *)
(* gone (Clean).  What a request is about to cache it has read (Sound).     *)
Sound(q) ==
  /\ q.op = "exists" => q.found \subseteq {q.path}
  /\ q.op \in {"metadata", "download"} /\ q.pc = "cache" => q.meta # 0
  /\ q.op = "update" /\ q.pc \in {"write", "put", "cache"} => q.meta # 0
Cleans(q, p) == q.path = p /\ q.op = "delete" /\ q.pc \in {"undoc", "invalidate"}
Believes(q, p) == /\ q.path = p /\ q.op \in {"exists", "metadata", "download", "update"}
                  /\ p \in q.found \/ q.meta # 0
Clean == \A p \in Paths \ raced :
  disk[p] = 0 /\ (\A r \in Requests : ~Cleans(req[r], p)) =>
    /\ cmeta[p] = {} /\ TRUE \notin cexist[p]
    /\ \A r \in Requests : ~Believes(req[r], p)
Answers == MaxVersions \in Nat /\ TypeOK /\ Clean /\ \A r \in Requests : Sound(req[r])

Requested == [op: Operations, pc: Points, path: Paths, ver: Versions, sha: Versions,
              meta: Versions, found: SUBSET Paths]

\* A step of a request that leaves the caches alone: it may take the file only if it goes
\* on to the caches, does not forget that it has to, and believes in no file that is gone.
Moved(r, q) ==
  /\ q \in Requested /\ req' = [req EXCEPT ![r] = q] /\ Sound(q)
  /\ disk' \in [Paths -> Versions] /\ gone' \in [Paths -> SUBSET Versions]
  /\ \A p \in Paths : /\ disk'[p] = 0 => disk[p] = 0 \/ Cleans(q, p)
                      /\ Cleans(req[r], p) => Cleans(q, p)
                      /\ disk'[p] = 0 /\ Believes(q, p) => Believes(req[r], p)

LEMMA MovedSafe ==
  ASSUME Answers, NEW r \in Requests, NEW q, Moved(r, q),
         UNCHANGED <<kind, cmeta, cexist, raced>>, clist' \in SUBSET SUBSET Paths,
         signed' \in SUBSET Paths, last' \in Versions
  PROVE  Answers'
<1>1. /\ req' \in [Requests -> Requested] /\ req'[r] = q
      /\ \A o \in Requests \ {r} : req'[o] = req[o]
  BY DEF Answers, TypeOK, Moved, Requested
<1>2. TypeOK' BY <1>1 DEF Answers, TypeOK, Moved, Requested
<1>3. ASSUME NEW o \in Requests PROVE Sound(req[o])'
  <2>1. Sound(req'[o]) BY <1>1 DEF Answers, Moved
  <2> QED BY <2>1 DEF Sound
<1>4. Clean'
  <2> SUFFICES ASSUME NEW p \in Paths \ raced, disk'[p] = 0,
                      \A o \in Requests : ~Cleans(req'[o], p)
               PROVE  /\ cmeta[p] = {} /\ TRUE \notin cexist[p]
                      /\ \A o \in Requests : ~Believes(req'[o], p)
    BY DEF Clean, Cleans, Believes
  <2>1. ~Cleans(q, p) BY <1>1
  <2>2. disk[p] = 0 /\ \A o \in Requests : ~Cleans(req[o], p) BY <1>1, <2>1 DEF Moved
  <2> QED BY <1>1, <2>2 DEF Answers, Clean, Moved
<1> QED BY <1>2, <1>3, <1>4 DEF Answers

\* The idle record, and what a write does to the types.
LEMMA IdleRequested ==
  ASSUME Answers, NEW r \in Requests
  PROVE  /\ Idle \in Requested /\ Idle.op = "idle" /\ Idle.pc = "idle" /\ Idle.meta = 0
         /\ Idle.found = {} /\ Idle.ver = 0 /\ Idle.sha = 0 /\ 0 \in Versions
         /\ req[r] \in Requested /\ req[r].path \in Paths /\ disk[req[r].path] \in Versions
<1>1. req[r] \in Requested /\ req[r].path \in Paths BY DEF Answers, TypeOK, Requested
<1>2. AnyPath \in Paths BY <1>1, Zenon DEF AnyPath
<1>3. 0 \in Versions BY DEF Answers, Versions
<1> QED BY <1>1, <1>2, <1>3 DEF Idle, Requested, Operations, Points, Answers, TypeOK

LEMMA PutTyped ==
  ASSUME Answers, NEW p \in Paths, NEW c \in Versions, Put(p, c)
  PROVE  /\ disk' \in [Paths -> Versions] /\ gone' \in [Paths -> SUBSET Versions]
         /\ disk'[p] = c /\ \A x \in Paths \ {p} : disk'[x] = disk[x]
<1>1. PICK old \in Versions : old = disk[p] BY DEF Answers, TypeOK
<1>2. /\ disk' = [disk EXCEPT ![p] = c]
      /\ gone' = [gone EXCEPT ![p] = IF old \in {0, c} THEN @ ELSE @ \cup {old}]
  BY <1>1 DEF Put
<1> QED BY <1>1, <1>2 DEF Answers, TypeOK

\* A request that does not clean ends, or goes on with what it holds, having written nothing.
LEMMA EndMoved ==
  ASSUME Answers, NEW r \in Requests, Finish(r), UNCHANGED store,
         req[r].op # "delete" \/ req[r].pc \notin {"undoc", "invalidate"}
  PROVE  Moved(r, Idle)
<1>1. Sound(Idle) BY IdleRequested DEF Sound
<1>2. \A p : ~Believes(Idle, p) /\ ~Cleans(req[r], p) BY IdleRequested DEF Believes, Cleans
<1> QED BY <1>1, <1>2, IdleRequested DEF Moved, Finish, store, Answers, TypeOK

LEMMA EndWritten ==
  ASSUME Answers, NEW r \in Requests, Finish(r), NEW c \in Versions \ {0}, Put(req[r].path, c),
         req[r].op # "delete"
  PROVE  Moved(r, Idle)
<1>1. Sound(Idle) BY IdleRequested DEF Sound
<1>2. \A p : ~Believes(Idle, p) /\ ~Cleans(req[r], p) BY IdleRequested DEF Believes, Cleans
<1>3. \A p \in Paths : disk'[p] = 0 => disk[p] = 0 BY IdleRequested, PutTyped
<1> QED BY <1>1, <1>2, <1>3, IdleRequested, PutTyped DEF Moved, Finish

\* A request goes on at pc with the given metadata and found files.
Steers(r, pc, m, f) ==
  \E q \in Requested : /\ req' = [req EXCEPT ![r] = q] /\ q.op = req[r].op /\ q.pc = pc
                       /\ q.path = req[r].path /\ q.meta = m /\ q.found = f

LEMMA Steered ==
  ASSUME Answers, NEW r \in Requests, NEW pc \in Points
  PROVE  /\ Goto(r, pc) => Steers(r, pc, req[r].meta, req[r].found)
         /\ \A s \in Versions : req' = [req EXCEPT ![r].sha = s, ![r].pc = pc] =>
              Steers(r, pc, req[r].meta, req[r].found)
         /\ \A m \in Versions : \/ req' = [req EXCEPT ![r].meta = m, ![r].pc = pc]
                               \/ req' = [req EXCEPT ![r].pc = pc, ![r].meta = m] =>
              Steers(r, pc, m, req[r].found)
         /\ \A f \in SUBSET Paths : req' = [req EXCEPT ![r].found = f, ![r].pc = pc] =>
              Steers(r, pc, req[r].meta, f)
<1>0. req[r] \in Requested /\ req \in [Requests -> Requested] BY DEF Answers, TypeOK, Requested
<1>1. ASSUME Goto(r, pc) PROVE Steers(r, pc, req[r].meta, req[r].found)
  <2>1. PICK q : q = [req[r] EXCEPT !.pc = pc] OBVIOUS
  <2>2. req' = [req EXCEPT ![r] = q] BY <1>1, <2>1 DEF Goto
  <2>3. /\ q \in Requested /\ q.op = req[r].op /\ q.pc = pc /\ q.path = req[r].path
        /\ q.meta = req[r].meta /\ q.found = req[r].found
    BY <1>0, <2>1 DEF Requested
  <2> QED BY <2>2, <2>3 DEF Steers
<1>2. ASSUME NEW s \in Versions, req' = [req EXCEPT ![r].sha = s, ![r].pc = pc]
      PROVE  Steers(r, pc, req[r].meta, req[r].found)
  <2>1. PICK q : q = [req[r] EXCEPT !.sha = s, !.pc = pc] OBVIOUS
  <2>2. req' = [req EXCEPT ![r] = q] BY <1>0, <1>2, <2>1
  <2>3. /\ q \in Requested /\ q.op = req[r].op /\ q.pc = pc /\ q.path = req[r].path
        /\ q.meta = req[r].meta /\ q.found = req[r].found
    BY <1>0, <2>1 DEF Requested
  <2> QED BY <2>2, <2>3 DEF Steers
<1>3. ASSUME NEW m \in Versions,
             \/ req' = [req EXCEPT ![r].meta = m, ![r].pc = pc]
             \/ req' = [req EXCEPT ![r].pc = pc, ![r].meta = m]
      PROVE  Steers(r, pc, m, req[r].found)
  <2>1. PICK q : q = [req[r] EXCEPT !.meta = m, !.pc = pc] OBVIOUS
  <2>2. req' = [req EXCEPT ![r] = q] BY <1>0, <1>3, <2>1
  <2>3. /\ q \in Requested /\ q.op = req[r].op /\ q.pc = pc /\ q.path = req[r].path
        /\ q.meta = m /\ q.found = req[r].found
    BY <1>0, <2>1 DEF Requested
  <2> QED BY <2>2, <2>3 DEF Steers
<1>4. ASSUME NEW f \in SUBSET Paths, req' = [req EXCEPT ![r].found = f, ![r].pc = pc]
      PROVE  Steers(r, pc, req[r].meta, f)
  <2>1. PICK q : q = [req[r] EXCEPT !.found = f, !.pc = pc] OBVIOUS
  <2>2. req' = [req EXCEPT ![r] = q] BY <1>0, <1>4, <2>1
  <2>3. /\ q \in Requested /\ q.op = req[r].op /\ q.pc = pc /\ q.path = req[r].path
        /\ q.meta = req[r].meta /\ q.found = f
    BY <1>0, <2>1 DEF Requested
  <2> QED BY <2>2, <2>3 DEF Steers
<1> QED BY <1>1, <1>2, <1>3, <1>4

\* Steps of one request that leave the caches alone, by what they do to the store: nothing,
\* while the request finds only what is there; or the request's file gets a content.
LEMMA SteersMoved ==
  ASSUME Answers, NEW r \in Requests, NEW pc \in Points, NEW m, NEW f,
         Steers(r, pc, m, f), UNCHANGED store,
         req[r].op = "delete" => pc = "invalidate" \/ req[r].pc \notin {"undoc", "invalidate"},
         req[r].op = "exists" => f \subseteq {req[r].path},
         req[r].op \in {"metadata", "download"} /\ pc = "cache" => m # 0,
         req[r].op = "update" /\ pc \in {"write", "put", "cache"} => m # 0,
         m \in {0, req[r].meta, disk[req[r].path]},
         req[r].path \in f /\ req[r].op # "list" => req[r].path \in req[r].found \cup Stored
  PROVE  \E q : Moved(r, q)
<1>1. PICK q \in Requested : /\ req' = [req EXCEPT ![r] = q] /\ q.op = req[r].op /\ q.pc = pc
                             /\ q.path = req[r].path /\ q.meta = m /\ q.found = f
  BY DEF Steers
<1>2. Sound(q) BY <1>1 DEF Sound
<1>3. ASSUME NEW p \in Paths
      PROVE  /\ Cleans(req[r], p) => Cleans(q, p)
             /\ disk[p] = 0 /\ Believes(q, p) => Believes(req[r], p)
  BY <1>1 DEF Cleans, Believes, Stored
<1> QED BY <1>1, <1>2, <1>3 DEF Moved, store, Answers, TypeOK

LEMMA WritesMoved ==
  ASSUME Answers, NEW r \in Requests, NEW pc \in Points, NEW m, Steers(r, pc, m, req[r].found),
         NEW c \in Versions, Put(req[r].path, c),
         \/ req[r].op = "delete" /\ pc \in {"undoc", "invalidate"}
         \/ req[r].op = "upload" /\ (c # 0 \/ disk[req[r].path] = 0)
         \/ /\ req[r].op = "update" /\ (c # 0 \/ disk[req[r].path] = 0)
            /\ pc \in {"write", "put", "cache"} => m # 0
            /\ m \in {0, req[r].meta}
  PROVE  \E q : Moved(r, q)
<1>1. PICK q \in Requested : /\ req' = [req EXCEPT ![r] = q] /\ q.op = req[r].op /\ q.pc = pc
                             /\ q.path = req[r].path /\ q.meta = m
                             /\ q.found = req[r].found
  BY DEF Steers
<1>2. Sound(q) BY <1>1 DEF Sound
<1>3. /\ disk' \in [Paths -> Versions] /\ gone' \in [Paths -> SUBSET Versions]
      /\ disk'[req[r].path] = c
      /\ \A x \in Paths \ {req[r].path} : disk'[x] = disk[x]
  BY IdleRequested, PutTyped
<1>4. ASSUME NEW p \in Paths
      PROVE  /\ disk'[p] = 0 => disk[p] = 0 \/ Cleans(q, p)
             /\ Cleans(req[r], p) => Cleans(q, p)
             /\ disk'[p] = 0 /\ Believes(q, p) => Believes(req[r], p)
  BY <1>1, <1>3 DEF Cleans, Believes
<1> QED BY <1>1, <1>2, <1>3, <1>4 DEF Moved

----------------------------------------------------------------------------
\* The steps that leave the caches alone.
LEMMA UploadingMoved ==
  ASSUME Inv, Answers, NEW r \in Requests, Uploading(r) PROVE \E q : Moved(r, q)
<1>1. /\ req[r].op = "upload" /\ req[r].path \in Paths /\ req[r].ver \in Versions
      /\ disk[req[r].path] \in Versions
  BY IdleRequested DEF Requested, Uploading, LocalPut, LocalDoc, S3Put, S3Answer, SpacesPut, GithubSha,
     GithubPut, At
<1>2. ASSUME Put(req[r].path, req[r].ver), req[r].pc = "put" PROVE req[r].ver # 0
  <2>1. Holds(req[r]) /\ Pending(req[r]) BY <1>1, <1>2 DEF Inv, Pending
  <2> QED BY <2>1 DEF Holds, Unwritten, Own
<1>3. CASE LocalPut(r) \/ S3Put(r)
  <2>1. Put(req[r].path, req[r].ver) /\ req[r].pc = "put"
        /\ \E pc \in {"doc", "head"} : Goto(r, pc)
    BY <1>3 DEF LocalPut, S3Put, At
  <2>2. \E pc \in {"doc", "head"} : Steers(r, pc, req[r].meta, req[r].found)
    BY <2>1, Steered DEF Points
  <2> QED BY <1>1, <1>2, <2>1, <2>2, WritesMoved DEF Points
<1>4. CASE LocalDoc(r) \/ S3Answer(r) BY <1>1, <1>4, EndMoved DEF LocalDoc, S3Answer
<1>5. CASE SpacesPut(r) BY <1>1, <1>2, <1>5, EndWritten DEF SpacesPut, At
<1>6. CASE GithubSha(r)
  <2>1. PICK s \in {0, disk[req[r].path]} : req' = [req EXCEPT ![r].sha = s, ![r].pc = "put"]
    BY <1>6 DEF GithubSha
  <2>2. Steers(r, "put", req[r].meta, req[r].found) BY <1>1, <2>1, IdleRequested, Steered DEF Points
  <2> QED BY <1>1, <1>6, <2>2, SteersMoved DEF GithubSha, Points
<1>7. CASE GithubPut(r)
  BY <1>1, <1>2, <1>7, EndMoved, EndWritten DEF GithubPut, At
<1> QED BY <1>3, <1>4, <1>5, <1>6, <1>7 DEF Uploading

LEMMA DeletingMoved ==
  ASSUME Answers, NEW r \in Requests, Deleting(r), ~Invalidate(r) PROVE \E q : Moved(r, q)
<1>1. /\ req[r].op = "delete" /\ req[r].path \in Paths /\ 0 \in Versions
      /\ disk[req[r].path] \in Versions
  BY IdleRequested DEF Deleting, LocalUnlink, LocalUndoc, S3Remove, SpacesRemove, GithubFind,
     GithubRemove, At
<1>2. ASSUME Put(req[r].path, 0), NEW pc \in {"undoc", "invalidate"}, Goto(r, pc)
      PROVE  \E q : Moved(r, q)
  <2>1. pc \in Points BY DEF Points
  <2>2. Steers(r, pc, req[r].meta, req[r].found) BY <1>2, <2>1, Steered
  <2> QED BY <1>1, <1>2, <2>1, <2>2, WritesMoved
<1>3. CASE LocalUnlink(r) \/ S3Remove(r) \/ SpacesRemove(r) \/ GithubRemove(r)
  <2>1. \/ Put(req[r].path, 0) /\ (Goto(r, "undoc") \/ Goto(r, "invalidate"))
        \/ Finish(r) /\ UNCHANGED store /\ req[r].pc = "remove"
    BY <1>3 DEF LocalUnlink, S3Remove, SpacesRemove, GithubRemove, Answer404, At
  <2> QED BY <1>2, <2>1, EndMoved
<1>4. CASE LocalUndoc(r)
  <2>1. Steers(r, "invalidate", req[r].meta, req[r].found)
    BY <1>4, Steered DEF LocalUndoc, Points
  <2> QED BY <1>1, <1>4, <2>1, SteersMoved DEF LocalUndoc, Points
<1>5. CASE GithubFind(r)
  <2>1. CASE Finish(r) BY <1>5, <2>1, EndMoved DEF GithubFind, At
  <2>2. CASE req' = [req EXCEPT ![r].sha = disk[req[r].path], ![r].pc = "remove"]
    <3>1. Steers(r, "remove", req[r].meta, req[r].found)
      BY <1>1, <2>2, Steered DEF Points
    <3> QED BY <1>1, <1>5, <3>1, SteersMoved DEF GithubFind, At, Points
  <2> QED BY <1>5, <2>1, <2>2 DEF GithubFind
<1> QED BY <1>3, <1>4, <1>5 DEF Deleting

LEMMA AskingMoved ==
  ASSUME Answers, NEW r \in Requests, Asking(r) \/ Serving(r) \/ Fail(r)
  PROVE  \E q : Moved(r, q)
<1>0. disk[req[r].path] \in Versions /\ req[r].path \in Paths BY IdleRequested
<1>1. ASSUME NEW k, Found(r, k) PROVE \E q : Moved(r, q)
  <2>1. PICK f \in SUBSET Paths :
          f = Stored \cap {req[r].path} /\ req' = [req EXCEPT ![r].found = f, ![r].pc = "cache"]
    BY <1>1 DEF Found, Stored
  <2>2. Steers(r, "cache", req[r].meta, f) BY <2>1, Steered DEF Points
  <2> QED BY <1>1, <2>1, <2>2, SteersMoved DEF Found, At, Points
<1>2. ASSUME NEW k, Listed(r, k) PROVE \E q : Moved(r, q)
  <2>1. PICK f \in SUBSET Paths :
          f = Stored /\ req' = [req EXCEPT ![r].found = f, ![r].pc = "cache"]
    BY <1>2 DEF Listed, Stored
  <2>2. Steers(r, "cache", req[r].meta, f) BY <2>1, Steered DEF Points
  <2> QED BY <1>2, <2>1, <2>2, SteersMoved DEF Listed, At, Points
<1>3. ASSUME NEW k, Described(r, k) PROVE \E q : Moved(r, q)
  <2>1. req[r].op \in {"metadata", "download"} /\ UNCHANGED store BY <1>3 DEF Described, At
  <2>2. CASE Finish(r) BY <2>1, <2>2, EndMoved
  <2>3. CASE ~Finish(r)
    <3>1. disk[req[r].path] # 0
          /\ req' = [req EXCEPT ![r].meta = disk[req[r].path], ![r].pc = "cache"]
      BY <1>3, <2>3 DEF Described
    <3>2. Steers(r, "cache", disk[req[r].path], req[r].found) BY <1>0, <3>1, Steered DEF Points
    <3> QED BY <2>1, <3>1, <3>2, SteersMoved DEF Points
  <2> QED BY <2>2, <2>3
<1>4. CASE Asking(r)
  BY <1>1, <1>2, <1>3, <1>4 DEF Asking, LocalAccess, S3Exists, SpacesExists, GithubExists,
     LocalList, S3List, SpacesList, GithubList, LocalMetadata, S3Metadata, SpacesMetadata,
     GithubMetadata, FileExistsAtGithub, ListFilesAtGithub, GetFileContent
<1>5. CASE Serving(r) \/ Fail(r)
  <2>1. /\ Finish(r) /\ UNCHANGED store
        /\ req[r].op # "delete" \/ req[r].pc \notin {"undoc", "invalidate"}
    BY <1>5 DEF Serving, LocalDownload, S3Download, SpacesDownload, GithubStream, DownloadFile,
       Fail, At
  <2> QED BY <2>1, EndMoved
<1> QED BY <1>4, <1>5

LEMMA UpdatingMoved ==
  ASSUME Inv, Answers, NEW r \in Requests, Updating(r) PROVE \E q : Moved(r, q)
<1>1. /\ req[r].op = "update" /\ req[r].path \in Paths /\ disk[req[r].path] \in Versions
      /\ req[r].meta \in Versions /\ 0 \in Versions
  BY IdleRequested DEF Requested, Updating, LocalRead, LocalWrite, S3Copy, SpacesRead,
     SpacesCopy, Head, GithubLookup, GithubGet, GithubRefresh, At
<1>2. ASSUME NEW pc \in {"write", "copy", "cache", "put"}, ReadMetadata(r, pc)
      PROVE  \E q : Moved(r, q)
  <2>1. CASE Finish(r) BY <1>1, <1>2, <2>1, EndMoved DEF ReadMetadata
  <2>2. CASE ~Finish(r)
    <3>1. disk[req[r].path] # 0 /\ UNCHANGED store
          /\ req' = [req EXCEPT ![r].meta = disk[req[r].path], ![r].pc = pc]
      BY <1>2, <2>2 DEF ReadMetadata
    <3>2. pc \in Points BY DEF Points
    <3>3. Steers(r, pc, disk[req[r].path], req[r].found) BY <1>1, <3>1, <3>2, Steered
    <3> QED BY <1>1, <3>1, <3>2, <3>3, SteersMoved
  <2> QED BY <2>1, <2>2
<1>3. CASE LocalRead(r) \/ SpacesRead(r) \/ Head(r) \/ GithubGet(r)
  BY <1>2, <1>3 DEF LocalRead, SpacesRead, Head, GithubGet
<1>4. CASE LocalWrite(r)
  <2>1. Steers(r, "cache", req[r].meta, req[r].found) BY <1>4, Steered DEF LocalWrite, Points
  <2>2. req[r].meta # 0 BY <1>1, <1>4 DEF LocalWrite, At, Answers, Sound
  <2> QED BY <1>1, <1>4, <2>1, <2>2, SteersMoved DEF LocalWrite, Points
<1>5. CASE S3Copy(r) \/ SpacesCopy(r)
  <2>1. \/ Finish(r) /\ UNCHANGED store
        \/ /\ Put(req[r].path, disk[req[r].path])
           /\ req' = [req EXCEPT ![r].pc = "head", ![r].meta = 0]
    BY <1>5 DEF S3Copy, SpacesCopy, Copy, Answer404
  <2>2. CASE Finish(r) /\ UNCHANGED store BY <1>1, <2>2, EndMoved
  <2>3. CASE ~(Finish(r) /\ UNCHANGED store)
    <3>1. Steers(r, "head", 0, req[r].found) BY <1>1, <2>1, <2>3, Steered DEF Points
    <3>2. disk[req[r].path] # 0 \/ disk[req[r].path] = 0 OBVIOUS
    <3> QED BY <1>1, <2>1, <2>3, <3>1, WritesMoved DEF Points
  <2> QED BY <2>2, <2>3
<1>6. CASE GithubLookup(r)
  <2>1. CASE Finish(r) BY <1>1, <1>6, <2>1, EndMoved DEF GithubLookup
  <2>2. CASE req' = [req EXCEPT ![r].sha = disk[req[r].path], ![r].pc = "get"]
    <3>1. Steers(r, "get", req[r].meta, req[r].found) BY <1>1, <2>2, Steered DEF Points
    <3> QED BY <1>1, <1>6, <3>1, SteersMoved DEF GithubLookup, Points
  <2> QED BY <1>6, <2>1, <2>2 DEF GithubLookup
<1>7. CASE GithubRefresh(r)
  <2>1. CASE ShaMatches(r)
    <3>1. Put(req[r].path, req[r].meta) /\ Goto(r, "cache") BY <1>7, <2>1 DEF GithubRefresh
    <3>2. req[r].meta # 0 BY <1>1, <1>7 DEF GithubRefresh, At, Answers, Sound
    <3>3. Steers(r, "cache", req[r].meta, req[r].found) BY <3>1, Steered DEF Points
    <3> QED BY <1>1, <3>1, <3>2, <3>3, WritesMoved DEF Points
  <2>2. CASE ~ShaMatches(r) BY <1>1, <1>7, <2>2, EndMoved DEF GithubRefresh, Answer404
  <2> QED BY <2>1, <2>2
<1> QED BY <1>3, <1>4, <1>5, <1>6, <1>7 DEF Updating

\* A request that arrives holds no answer yet.
LEMMA BeginMoved ==
  ASSUME Answers, NEW r \in Requests, NEW op \in Operations, NEW p \in Paths,
         NEW pc \in {"sha", "put", "remove", "ask", "get", "copy", "read"},
         op = "update" => pc # "put", NEW v \in Versions, Begin(r, op, p, pc, v), UNCHANGED store
  PROVE  \E q : Moved(r, q)
<1>1. PICK q : q = [Idle EXCEPT !.op = op, !.path = p, !.pc = pc, !.ver = v] OBVIOUS
<1>2. q = [op |-> op, pc |-> pc, path |-> p, ver |-> v, sha |-> 0, meta |-> 0, found |-> {}]
  BY <1>1 DEF Idle
<1>3. q \in Requested /\ q.op = op /\ q.pc = pc /\ q.meta = 0 /\ q.found = {}
  BY <1>2, IdleRequested DEF Requested, Points
<1>4. req' = [req EXCEPT ![r] = q] /\ req[r] = Idle BY <1>1 DEF Begin
<1>5. Sound(q) BY <1>3 DEF Sound
<1>6. \A x : ~Believes(q, x) /\ ~Cleans(req[r], x)
  BY <1>3, <1>4, IdleRequested DEF Believes, Cleans
<1> QED BY <1>3, <1>4, <1>5, <1>6 DEF Moved, store, Answers, TypeOK

LEMMA ArriveMoved ==
  ASSUME Answers, NEW r \in Requests, Arrive(r)
  PROVE  (\E q : Moved(r, q)) /\ last' \in Versions
         /\ UNCHANGED <<kind, cmeta, cexist, clist, raced, signed>>
<1>0. 0 \in Versions /\ last \in Versions BY IdleRequested DEF Answers, TypeOK
<1>1. ASSUME NEW p \in Paths, HttpUpload(r, p)
      PROVE  (\E q : Moved(r, q)) /\ last' \in Versions
             /\ UNCHANGED <<kind, cmeta, cexist, clist, raced>>
  <2>1. PICK pc \in {"sha", "put"} : Begin(r, "upload", p, pc, last + 1)
    BY <1>1 DEF HttpUpload, UploadFile
  <2>2. /\ last < MaxVersions /\ last' = last + 1 /\ UNCHANGED store
        /\ UNCHANGED <<kind, cmeta, cexist, clist, raced>>
    BY <1>1 DEF HttpUpload, UploadFile, store
  <2>3. last + 1 \in Versions BY <1>0, <2>2 DEF Answers, Versions
  <2> QED BY <2>1, <2>2, <2>3, BeginMoved DEF Operations
<1>2. ASSUME NEW op \in Operations, NEW p \in Paths,
             NEW pc \in {"sha", "remove", "ask", "get", "copy", "read"},
             Begin(r, op, p, pc, 0), UNCHANGED store
      PROVE  \E q : Moved(r, q)
  BY <1>0, <1>2, BeginMoved
<1>3. ASSUME NEW p \in Paths, HttpDelete(r, p)
      PROVE  (\E q : Moved(r, q)) /\ UNCHANGED <<kind, cmeta, cexist, clist, raced, last>>
  BY <1>2, <1>3 DEF HttpDelete, DeleteFile, store, Operations
<1>4. ASSUME NEW op \in Operations, NEW p \in Paths,
             NEW pc \in {"sha", "remove", "ask", "get", "copy", "read"}, Started(r, op, p, pc)
      PROVE  (\E q : Moved(r, q)) /\ UNCHANGED <<kind, cmeta, cexist, clist, raced, last>>
  BY <1>2, <1>4 DEF Started, Quiet
<1>5. ASSUME NEW p \in Paths, HttpExists(r, p) \/ HttpMetadata(r, p) \/ HttpDownload(r, p)
      PROVE  (\E q : Moved(r, q)) /\ UNCHANGED <<kind, cmeta, cexist, clist, raced, last>>
  BY <1>4, <1>5 DEF HttpExists, FileExists, HttpMetadata, HttpDownload, GetFileMetadata,
     Operations
<1>6. ASSUME NEW p \in Paths, HttpUpdate(r, p)
      PROVE  (\E q : Moved(r, q)) /\ UNCHANGED <<kind, cmeta, cexist, clist, raced, last>>
  BY <1>4, <1>6 DEF HttpUpdate, UpdateFileMetadata, Operations
<1>7. ASSUME HttpList(r)
      PROVE  (\E q : Moved(r, q)) /\ UNCHANGED <<kind, cmeta, cexist, clist, raced, last>>
  <2>1. AnyPath \in Paths
    <3>1. req[r].path \in Paths BY IdleRequested
    <3> QED BY <3>1, Zenon DEF AnyPath
  <2> QED BY <1>4, <1>7, <2>1 DEF HttpList, ListFiles, Operations
<1> QED BY <1>0, <1>1, <1>3, <1>5, <1>6, <1>7 DEF Arrive

----------------------------------------------------------------------------
(* The steps that write the caches, or the store without a request. *)

\* A request that ends its work at the caches: what it holds for good is what it held.
LEMMA Ended ==
  ASSUME Answers, NEW r \in Requests, NEW q \in Requested, req' = [req EXCEPT ![r] = q],
         q.op \notin {"exists", "delete"}, q.meta = 0, q.found = {} \/ q.found = req[r].found,
         q.pc \notin {"cache", "write", "put"},
         UNCHANGED <<kind, disk, gone, clist, last, signed>>,
         cmeta' \in [Paths -> SUBSET Versions], cexist' \in [Paths -> SUBSET BOOLEAN],
         raced' \in SUBSET Paths
  PROVE  /\ TypeOK' /\ \A o \in Requests : Sound(req[o])'
         /\ req'[r] = q /\ \A o \in Requests \ {r} : req'[o] = req[o]
<1>1. /\ req' \in [Requests -> Requested] /\ req'[r] = q
      /\ \A o \in Requests \ {r} : req'[o] = req[o]
  BY DEF Answers, TypeOK, Requested
<1>2. TypeOK' BY <1>1 DEF Answers, TypeOK, Requested
<1>3. Sound(q) BY DEF Sound
<1>4. ASSUME NEW o \in Requests PROVE Sound(req[o])'
  <2>1. Sound(req'[o]) BY <1>1, <1>3 DEF Answers
  <2> QED BY <2>1 DEF Sound
<1> QED BY <1>1, <1>2, <1>4

\* Caching an answer spoils no path: whoever would cache that a file is there believes it.
LEMMA CachingSafe ==
  ASSUME Answers, NEW r \in Requests, CacheExistence(r) \/ CacheMetadata(r),
         UNCHANGED signed
  PROVE  Answers'
<1>1. /\ req[r].path \in Paths /\ req[r] \in Requested /\ Sound(req[r])
      /\ UNCHANGED <<kind, disk, gone, clist, last, raced>>
      /\ req[r].op \in {"exists", "metadata", "download", "update"} /\ req[r].pc = "cache"
  BY IdleRequested DEF CacheExistence, CacheMetadata, At, Answers
<1>2. PICK q \in Requested :
        /\ req' = [req EXCEPT ![r] = q] /\ q.meta = 0 /\ q.op \notin {"exists", "delete"}
        /\ q.pc \notin {"cache", "write", "put"}
        /\ q.found = {} \/ q.found = req[r].found
        /\ \A p : Believes(q, p) => Believes(req[r], p)
  <2>1. CASE Finish(r)
    BY <2>1, IdleRequested DEF Finish, Believes
  <2>2. CASE req' = [req EXCEPT ![r].pc = "get", ![r].meta = 0] /\ req[r].op = "download"
    <3>1. PICK q : q = [req[r] EXCEPT !.pc = "get", !.meta = 0] OBVIOUS
    <3>2. req' = [req EXCEPT ![r] = q] BY <2>2, <3>1 DEF Answers, TypeOK
    <3>3. /\ q \in Requested /\ q.op = "download" /\ q.pc = "get" /\ q.meta = 0
          /\ q.found = req[r].found /\ q.path = req[r].path
      BY <1>1, <2>2, <3>1, IdleRequested DEF Requested, Points
    <3> QED BY <2>2, <3>2, <3>3 DEF Believes
  <2> QED BY <2>1, <2>2 DEF CacheExistence, CacheMetadata
<1>3. /\ cmeta' \in [Paths -> SUBSET Versions] /\ cexist' \in [Paths -> SUBSET BOOLEAN]
      /\ \A p \in Paths : ~Believes(req[r], p) =>
           (cmeta[p] = {} => cmeta'[p] = {}) /\ (TRUE \notin cexist[p] => TRUE \notin cexist'[p])
  <2>1. CASE CacheExistence(r)
    <3>1. PICK kept \in {TRUE, ~RedisFaults} :
            cexist' = [cexist EXCEPT ![req[r].path] = IF kept THEN {req[r].found # {}} ELSE @]
      BY <2>1 DEF CacheExistence
    <3>2. /\ cmeta' = cmeta /\ req[r].op = "exists"
          /\ req[r].found \subseteq {req[r].path}
      BY <1>1, <2>1 DEF CacheExistence, At, Sound
    <3>3. PICK there \in BOOLEAN : there = (req[r].found # {}) OBVIOUS
    <3>4. there => Believes(req[r], req[r].path) BY <3>2, <3>3 DEF Believes
    <3>5. /\ cexist' \in [Paths -> SUBSET BOOLEAN]
          /\ \A p \in Paths : TRUE \in cexist'[p] =>
               TRUE \in cexist[p] \/ (p = req[r].path /\ there)
      BY <1>1, <3>1, <3>3 DEF Answers, TypeOK
    <3> QED BY <3>2, <3>4, <3>5 DEF Answers, TypeOK
  <2>2. CASE CacheMetadata(r)
    <3>1. PICK kept \in BOOLEAN :
            cmeta' = [cmeta EXCEPT ![req[r].path] = IF kept THEN {req[r].meta} ELSE @]
      BY <2>2 DEF CacheMetadata
    <3>2. cexist' = cexist /\ req[r].op \in {"metadata", "download", "update"}
      BY <2>2 DEF CacheMetadata, At
    <3>3. Believes(req[r], req[r].path) BY <1>1, <3>2 DEF Sound, Believes
    <3>4. /\ cmeta' \in [Paths -> SUBSET Versions]
          /\ \A p \in Paths \ {req[r].path} : cmeta'[p] = cmeta[p]
      BY <1>1, <3>1 DEF Answers, TypeOK, Requested
    <3> QED BY <3>2, <3>3, <3>4 DEF Answers, TypeOK
  <2> QED BY <2>1, <2>2
<1>4. /\ TypeOK' /\ \A o \in Requests : Sound(req[o])'
      /\ req'[r] = q /\ \A o \in Requests \ {r} : req'[o] = req[o]
  BY <1>1, <1>2, <1>3, Ended DEF Answers, TypeOK
<1>5. Clean'
  <2> SUFFICES ASSUME NEW p \in Paths \ raced, disk[p] = 0,
                      \A o \in Requests : ~Cleans(req'[o], p)
               PROVE  /\ cmeta'[p] = {} /\ TRUE \notin cexist'[p]
                      /\ \A o \in Requests : ~Believes(req'[o], p)
    BY <1>1 DEF Clean, Cleans, Believes
  <2>1. \A o \in Requests : ~Cleans(req[o], p) BY <1>1, <1>4 DEF Cleans
  <2>2. /\ cmeta[p] = {} /\ TRUE \notin cexist[p]
        /\ \A o \in Requests : ~Believes(req[o], p)
    BY <2>1 DEF Answers, Clean
  <2> QED BY <1>2, <1>3, <1>4, <2>2
<1> QED BY <1>4, <1>5 DEF Answers

\* A deletion that has cleared the caches leaves them clear: whoever holds the old answer
\* has raced it.
LEMMA InvalidateSafe ==
  ASSUME Answers, NEW r \in Requests, Invalidate(r), UNCHANGED signed PROVE Answers'
<1>1. PICK p \in Paths : p = req[r].path BY IdleRequested
<1>2. PICK done \in SUBSET Keys, failed \in BOOLEAN :
        /\ failed \/ done = Keys
        /\ cmeta' = [cmeta EXCEPT ![p] = IF "metadata" \in done THEN {} ELSE @]
        /\ cexist' = [cexist EXCEPT ![p] = IF "existence" \in done THEN {} ELSE @]
        /\ raced' = IF failed \/ Believers(r, p) # {} THEN raced \cup {p} ELSE raced \ {p}
  BY <1>1 DEF Invalidate
<1>3. /\ req' = [req EXCEPT ![r] = Idle] /\ UNCHANGED <<kind, disk, gone, clist, last, signed>>
      /\ req[r].op = "delete"
  BY DEF Invalidate, Finish, At
<1>4. /\ cmeta' \in [Paths -> SUBSET Versions] /\ cexist' \in [Paths -> SUBSET BOOLEAN]
      /\ raced' \in SUBSET Paths /\ \A x \in Paths \ {p} : x \in raced' <=> x \in raced
      /\ \A x \in Paths \ {p} : cmeta'[x] = cmeta[x] /\ cexist'[x] = cexist[x]
      /\ done = Keys => cmeta'[p] = {} /\ cexist'[p] = {}
  BY <1>2 DEF Answers, TypeOK, Keys
<1>5. /\ TypeOK' /\ \A o \in Requests : Sound(req[o])'
      /\ req'[r] = Idle /\ \A o \in Requests \ {r} : req'[o] = req[o]
  BY <1>3, <1>4, Ended, IdleRequested
<1>6. \A x : ~Believes(Idle, x) BY IdleRequested DEF Believes
<1>7. Clean'
  <2> SUFFICES ASSUME NEW x \in Paths \ raced', disk[x] = 0,
                      \A o \in Requests : ~Cleans(req'[o], x)
               PROVE  /\ cmeta'[x] = {} /\ TRUE \notin cexist'[x]
                      /\ \A o \in Requests : ~Believes(req'[o], x)
    BY <1>3 DEF Clean, Cleans, Believes
  <2>1. CASE x = p
    <3>1. ~failed /\ Believers(r, p) = {} BY <1>2, <2>1
    <3>2. \A o \in Requests \ {r} : ~Believes(req[o], p) BY <3>1 DEF Believers, Believes
    <3> QED BY <1>2, <1>4, <1>5, <1>6, <2>1, <3>1, <3>2
  <2>2. CASE x # p
    <3>1. \A o \in Requests : ~Cleans(req[o], x) BY <1>1, <1>5, <2>2 DEF Cleans
    <3>2. x \in Paths \ raced BY <1>4, <2>2
    <3> QED BY <1>4, <1>5, <1>6, <2>2, <3>1, <3>2 DEF Answers, Clean
  <2> QED BY <2>1, <2>2
<1> QED BY <1>5, <1>7 DEF Answers

\* Signed uploads and expiring entries touch no request.
LEMMA WorldAnswers ==
  ASSUME Answers,
         \/ \E p \in Paths : \/ PresignUpload(p) \/ SignedPut(p) \/ SignatureExpires(p)
                             \/ ExpireMetadata(p) \/ ExpireExistence(p)
         \/ ExpireListing
  PROVE  Answers'
<1>1. ASSUME UNCHANGED <<kind, req>>, TypeOK',
             \A p \in Paths : /\ disk'[p] = 0 => disk[p] = 0
                              /\ cmeta'[p] \subseteq cmeta[p] /\ cexist'[p] \subseteq cexist[p],
             raced' = raced
      PROVE  Answers'
  <2>1. Clean'
    <3> SUFFICES ASSUME NEW p \in Paths \ raced, disk'[p] = 0,
                        \A o \in Requests : ~Cleans(req[o], p)
                 PROVE  /\ cmeta'[p] = {} /\ TRUE \notin cexist'[p]
                        /\ \A o \in Requests : ~Believes(req[o], p)
      BY <1>1 DEF Clean, Cleans, Believes
    <3>1. disk[p] = 0 /\ cmeta'[p] \subseteq cmeta[p] /\ cexist'[p] \subseteq cexist[p]
      BY <1>1
    <3>2. /\ cmeta[p] = {} /\ TRUE \notin cexist[p]
          /\ \A o \in Requests : ~Believes(req[o], p)
      BY <3>1 DEF Answers, Clean
    <3> QED BY <3>1, <3>2
  <2>2. \A o \in Requests : Sound(req[o])' BY <1>1 DEF Answers, Sound
  <2> QED BY <1>1, <2>1, <2>2 DEF Answers
<1>2. ASSUME NEW p \in Paths, SignedPut(p) PROVE Answers'
  <2>1. /\ last < MaxVersions /\ Put(p, last + 1) /\ last' = last + 1
        /\ UNCHANGED <<kind, cmeta, cexist, clist, req, signed, raced>>
    BY <1>2 DEF SignedPut
  <2>2. last + 1 \in Versions /\ last + 1 # 0 BY <2>1 DEF Answers, TypeOK, Versions
  <2>3. /\ disk' \in [Paths -> Versions] /\ gone' \in [Paths -> SUBSET Versions]
        /\ disk'[p] = last + 1 /\ \A x \in Paths \ {p} : disk'[x] = disk[x]
    BY <2>1, <2>2, PutTyped
  <2>4. TypeOK' BY <2>1, <2>2, <2>3 DEF Answers, TypeOK
  <2> QED BY <1>1, <2>1, <2>2, <2>3, <2>4
<1>3. ASSUME NEW p \in Paths, PresignUpload(p) \/ SignatureExpires(p) PROVE Answers'
  <2>1. /\ signed' \in SUBSET Paths
        /\ UNCHANGED <<kind, disk, gone, cmeta, cexist, clist, req, last, raced>>
    BY <1>3 DEF PresignUpload, Presign, S3Presign, SpacesPresign, SignatureExpires, Answers,
       TypeOK
  <2>2. TypeOK' BY <2>1 DEF Answers, TypeOK
  <2> QED BY <1>1, <2>1, <2>2
<1>4. ASSUME NEW p \in Paths, ExpireMetadata(p) \/ ExpireExistence(p) PROVE Answers'
  <2>1. /\ UNCHANGED <<kind, disk, gone, clist, req, last, signed, raced>>
        /\ cmeta' \in [Paths -> SUBSET Versions] /\ cexist' \in [Paths -> SUBSET BOOLEAN]
        /\ \A x \in Paths : cmeta'[x] \subseteq cmeta[x] /\ cexist'[x] \subseteq cexist[x]
    BY <1>4 DEF ExpireMetadata, ExpireExistence, Answers, TypeOK
  <2>2. TypeOK' BY <2>1 DEF Answers, TypeOK
  <2> QED BY <1>1, <2>1, <2>2
<1>5. ASSUME ExpireListing PROVE Answers'
  <2>1. TypeOK' BY <1>5 DEF ExpireListing, Answers, TypeOK
  <2> QED BY <1>1, <1>5, <2>1 DEF ExpireListing
<1> QED BY <1>2, <1>3, <1>4, <1>5

----------------------------------------------------------------------------
LEMMA AnswersInitially == ASSUME StorageAssumption, Init PROVE Answers
<1>1. 0 \in Versions /\ MaxVersions \in Nat BY DEF StorageAssumption, Versions
<1>2. AnyPath \in Paths
  <2>1. Paths # {} BY DEF StorageAssumption
  <2> QED BY <2>1, Zenon DEF AnyPath
<1>3. /\ Idle \in Requested /\ Idle.op = "idle" /\ Idle.meta = 0 /\ Idle.found = {}
  BY <1>1, <1>2 DEF Idle, Requested, Operations, Points
<1>4. TypeOK BY <1>1, <1>3 DEF Init, CreateProvider, TypeOK, Requested
<1>5. Clean /\ \A r \in Requests : Sound(req[r])
  BY <1>3 DEF Init, Clean, Sound, Believes, Cleans
<1> QED BY <1>1, <1>4, <1>5 DEF Answers

LEMMA AnswersStep == Inv /\ Answers /\ [Next]_vars => Answers'
<1> SUFFICES ASSUME Inv, Answers, [Next]_vars PROVE Answers' OBVIOUS
<1>0. signed \in SUBSET Paths /\ clist \in SUBSET SUBSET Paths /\ last \in Versions
  BY DEF Answers, TypeOK
<1>1. ASSUME NEW r \in Requests, Step(r) PROVE Answers'
  <2>1. CASE Invalidate(r) BY <1>1, <2>1, InvalidateSafe DEF Step
  <2>2. CASE CacheExistence(r) \/ CacheMetadata(r) BY <1>1, <2>2, CachingSafe DEF Step
  <2>3. CASE CacheListing(r)
    <3>1. /\ Finish(r) /\ UNCHANGED <<store, kind, cmeta, cexist, last, raced, signed>>
          /\ req[r].op = "list" /\ req[r].found \in SUBSET Paths
      BY <1>1, <2>3, IdleRequested DEF CacheListing, At, store, Step, Requested
    <3>2. clist' \in SUBSET SUBSET Paths BY <1>0, <2>3, <3>1 DEF CacheListing
    <3>3. Moved(r, Idle) BY <3>1, EndMoved
    <3> QED BY <1>0, <3>1, <3>2, <3>3, MovedSafe
  <2>4. CASE Uploading(r) \/ (Deleting(r) /\ ~Invalidate(r)) \/ Asking(r) \/ Serving(r)
             \/ Updating(r) \/ Fail(r)
    <3>1. \E q : Moved(r, q)
      BY <2>4, UploadingMoved, DeletingMoved, AskingMoved, UpdatingMoved
    <3>2. Quiet
      BY <2>4 DEF Uploading, LocalPut, LocalDoc, S3Put, S3Answer, SpacesPut, GithubSha,
         GithubPut, Deleting, LocalUnlink, LocalUndoc, S3Remove, SpacesRemove, GithubFind,
         GithubRemove, Asking, Found, Listed, Described, LocalAccess, S3Exists, SpacesExists,
         GithubExists, LocalList, S3List, SpacesList, GithubList, LocalMetadata, S3Metadata,
         SpacesMetadata, GithubMetadata, FileExistsAtGithub, ListFilesAtGithub, GetFileContent,
         Serving, LocalDownload, S3Download, SpacesDownload, GithubStream, DownloadFile,
         Updating, LocalRead, LocalWrite, S3Copy, SpacesRead, SpacesCopy, Head, GithubLookup,
         GithubGet, GithubRefresh, ReadMetadata, Copy, Fail
    <3> QED BY <1>0, <1>1, <3>1, <3>2, MovedSafe DEF Quiet, Step
  <2> QED BY <1>1, <2>1, <2>2, <2>3, <2>4 DEF Step, Caching
<1>2. ASSUME NEW r \in Requests, Arrive(r) PROVE Answers'
  BY <1>0, <1>2, ArriveMoved, MovedSafe
<1>3. CASE UNCHANGED vars
  BY <1>3 DEF vars, Answers, TypeOK, Clean, Cleans, Believes, Sound
<1> QED BY <1>1, <1>2, <1>3, WorldAnswers DEF Next

\* Every variable keeps its type.
THEOREM StorageTypes == ASSUME StorageAssumption PROVE Spec => []TypeOK
<1>1. Init => Inv /\ Answers BY Initially, AnswersInitially
<1>2. Inv /\ Answers => TypeOK BY DEF Answers
<1> QED BY <1>1, <1>2, EveryStep, AnswersStep, PTL DEF Spec

\* Once a deletion has answered, no cached answer says the file is still there, unless a
\* request that had read it before was still to write its answer, or the invalidation
\* failed (storage.service.ts 302-340, storage-cache.service.ts).
THEOREM StoreDeletes == ASSUME StorageAssumption PROVE Spec => []DeletedIsGone
<1>1. Init => Inv /\ Answers BY Initially, AnswersInitially
<1>2. Answers => DeletedIsGone BY DEF Answers, Clean, Cleans, DeletedIsGone
<1> QED BY <1>1, <1>2, EveryStep, AnswersStep, PTL DEF Spec
=============================================================================
