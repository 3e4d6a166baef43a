------------------------------- MODULE Storage -------------------------------
(***************************************************************************)
(* Files of one organisation (src/src/modules/storage): the file store     *)
(* behind one of four providers, the answers about it cached in Redis, and *)
(* the requests that read and write both, each external call a step.       *)
(*                                                                         *)
(* A path is a full path, organisation prefix included.  A content is the  *)
(* number of the upload that wrote it, 0 for none, and a metadata answer   *)
(* is the content it describes; what else metadata holds is left out.      *)
(* A cache entry is a set of at most one value, {} while there is none.    *)
(* The providers answer with what they last stored; a file half written is *)
(* not distinguished from a failed upload or a finished one.               *)
(***************************************************************************)
EXTENDS Naturals, FiniteSets

CONSTANTS Paths, Requests,
          Kinds,         \* providers StorageProviderFactory can be asked for
          MaxVersions,   \* bound on uploads
          Sizes, MaxFileSize, Quota,  \* upload sizes, MaxFileSizePipe's limit
                         \* and storage.defaultQuota (0: none)
          MaxListing,    \* STORAGE_CACHE_MAX_LISTING_ITEMS
          RedisFaults    \* whether calls of Redis may fail

StorageAssumption ==
  /\ Kinds \subseteq {"local", "s3", "spaces", "github"} /\ Kinds # {}
  /\ MaxVersions \in Nat /\ Quota \in Nat /\ MaxListing \in Nat
  /\ MaxFileSize \in Nat /\ RedisFaults \in BOOLEAN
  /\ Sizes \subseteq Nat /\ Paths # {}

VARIABLES kind,          \* the configured provider
          disk,          \* per path: the content stored
          cmeta, cexist, clist,   \* Redis: metadata, existence, listing
          req, last,     \* the requests, the last version handed out
          signed,        \* paths that a signed URL lets its holder write to
          gone,          \* history: contents replaced or deleted, per path
          raced          \* history: paths deleted beneath a request that had
                         \* already read them, or whose invalidation failed
store == <<disk, gone>>
vars == <<kind, disk, cmeta, cexist, clist, req, last, signed, gone, raced>>

Versions == 0..MaxVersions
AnyPath == CHOOSE p \in Paths : TRUE
Idle == [op |-> "idle", pc |-> "idle", path |-> AnyPath, ver |-> 0, sha |-> 0,
         meta |-> 0, found |-> {}]

CreateProvider == kind \in Kinds
Init ==
  /\ CreateProvider
  /\ disk = [p \in Paths |-> 0]
  /\ gone = [p \in Paths |-> {}] /\ raced = {} /\ last = 0 /\ signed = {}
  /\ cmeta = [p \in Paths |-> {}] /\ cexist = [p \in Paths |-> {}] /\ clist = {}
  /\ req = [r \in Requests |-> Idle]

At(r, op, pc) == req[r].op = op /\ req[r].pc = pc
Goto(r, pc) == req' = [req EXCEPT ![r].pc = pc]
Finish(r) == req' = [req EXCEPT ![r] = Idle]
Answer404(r) == Finish(r) /\ UNCHANGED store
Begin(r, op, p, pc, v) ==
  /\ req[r] = Idle
  /\ req' = [req EXCEPT ![r] = [Idle EXCEPT !.op = op, !.path = p, !.pc = pc, !.ver = v]]
Quiet == UNCHANGED <<kind, cmeta, cexist, clist, last, raced>>

\* The content of p becomes c (0: removed).
Put(p, c) ==
  /\ disk' = [disk EXCEPT ![p] = c]
  /\ gone' = [gone EXCEPT ![p] = IF disk[p] \in {0, c} THEN @ ELSE @ \cup {disk[p]}]

----------------------------------------------------------------------------
(* Upload.  The quota check adds the file to a usage that is always 0. *)
Used == 0
Fits(s) == Quota = 0 \/ Used + s <= Quota

UploadFile(r, p, s) ==
  /\ Fits(s)
  /\ Begin(r, "upload", p, IF kind = "github" THEN "sha" ELSE "put", last + 1)
  /\ last' = last + 1
  /\ UNCHANGED <<kind, disk, gone, cmeta, cexist, clist, raced>>
HttpUpload(r, p) ==
  last < MaxVersions /\ \E s \in Sizes : s <= MaxFileSize /\ UploadFile(r, p, s)

LocalPut(r) ==
  /\ kind = "local" /\ At(r, "upload", "put")
  /\ Put(req[r].path, req[r].ver)
  /\ Goto(r, "doc") /\ Quiet
LocalDoc(r) ==   \* writes the metadata file
  /\ kind = "local" /\ At(r, "upload", "doc")
  /\ Finish(r) /\ UNCHANGED store /\ Quiet
S3Put(r) ==
  /\ kind = "s3" /\ At(r, "upload", "put")
  /\ Put(req[r].path, req[r].ver)
  /\ Goto(r, "head") /\ Quiet
S3Answer(r) ==
  /\ kind = "s3" /\ At(r, "upload", "head")
  /\ Finish(r) /\ UNCHANGED store /\ Quiet
SpacesPut(r) ==
  /\ kind = "spaces" /\ At(r, "upload", "put")
  /\ Put(req[r].path, req[r].ver)
  /\ Finish(r) /\ Quiet

\* GitHub writes only over the blob whose sha the request names; a lookup that
\* fails counts as "no file yet".
GithubSha(r) ==
  /\ kind = "github" /\ At(r, "upload", "sha")
  /\ \E s \in {0, disk[req[r].path]} : req' = [req EXCEPT ![r].sha = s, ![r].pc = "put"]
  /\ UNCHANGED store /\ Quiet
\* The Contents API compares the sha the request names; and were none named.
ShaOmitted(r) == TRUE
ShaMatches(r) == disk[req[r].path] = req[r].sha
GithubPut(r) ==
  /\ kind = "github" /\ At(r, "upload", "put")
  /\ IF ShaMatches(r) THEN Put(req[r].path, req[r].ver) ELSE UNCHANGED store
  /\ Finish(r) /\ Quiet

\* A signed URL names a path as the client gave it and is good for any number of
\* uploads straight to the bucket, past the quota and the caches, until it expires.
S3Presign(p) == kind = "s3" /\ signed' = signed \cup {p}
SpacesPresign(p) == kind = "spaces" /\ signed' = signed \cup {p}
Presign(p) == S3Presign(p) \/ SpacesPresign(p)
PresignUpload(p) ==
  /\ Presign(p) /\ UNCHANGED <<kind, disk, gone, cmeta, cexist, clist, req, last, raced>>
SignedPut(p) ==
  /\ p \in signed /\ last < MaxVersions
  /\ Put(p, last + 1) /\ last' = last + 1
  /\ UNCHANGED <<kind, cmeta, cexist, clist, req, signed, raced>>
SignatureExpires(p) ==
  /\ p \in signed /\ signed' = signed \ {p}
  /\ UNCHANGED <<kind, disk, gone, cmeta, cexist, clist, req, last, raced>>

----------------------------------------------------------------------------
(* Delete: remove the file, then the cached answers about its path. *)
DeleteFile(r, p) ==
  /\ Begin(r, "delete", p, IF kind = "github" THEN "sha" ELSE "remove", 0)
  /\ UNCHANGED <<kind, disk, gone, cmeta, cexist, clist, last, raced>>
HttpDelete(r, p) == DeleteFile(r, p)

LocalUnlink(r) ==
  /\ kind = "local" /\ At(r, "delete", "remove")
  /\ IF disk[req[r].path] = 0 THEN Answer404(r)
     ELSE Put(req[r].path, 0) /\ Goto(r, "undoc")
  /\ Quiet
LocalUndoc(r) ==   \* unlinks the metadata file, whose absence is no error
  /\ kind = "local" /\ At(r, "delete", "undoc")
  /\ Goto(r, "invalidate") /\ UNCHANGED store /\ Quiet
S3Remove(r) ==
  /\ kind = "s3" /\ At(r, "delete", "remove")
  /\ Put(req[r].path, 0) /\ Goto(r, "invalidate") /\ Quiet
SpacesRemove(r) ==
  /\ kind = "spaces" /\ At(r, "delete", "remove")
  /\ Put(req[r].path, 0) /\ Goto(r, "invalidate") /\ Quiet
GithubFind(r) ==
  /\ kind = "github" /\ At(r, "delete", "sha")
  /\ IF disk[req[r].path] = 0 THEN Finish(r)
     ELSE req' = [req EXCEPT ![r].sha = disk[req[r].path], ![r].pc = "remove"]
  /\ UNCHANGED store /\ Quiet
GithubRemove(r) ==
  /\ kind = "github" /\ At(r, "delete", "remove")
  /\ IF ShaMatches(r) THEN Put(req[r].path, 0) /\ Goto(r, "invalidate") ELSE Answer404(r)
  /\ Quiet

\* Requests other than r that will cache that p is there.
Believers(r, p) ==
  {o \in Requests \ {r} : req[o].path = p /\ req[o].op \in {"exists", "metadata", "download", "update"}
                          /\ (p \in req[o].found \/ req[o].meta # 0)}
\* The keys "invalidate" deletes that anything reads (the listing key of a file's
\* own path is no listing's); and were one of them forgotten.
KeysShort == {"metadata"}
Keys == {"metadata", "existence"}
\* The deletions run side by side and each may fail; the failure is logged.
Invalidate(r) ==
  /\ At(r, "delete", "invalidate")
  /\ LET p == req[r].path IN
     \E done \in SUBSET Keys, failed \in BOOLEAN :
       /\ IF failed THEN RedisFaults ELSE done = Keys
       /\ cmeta' = [cmeta EXCEPT ![p] = IF "metadata" \in done THEN {} ELSE @]
       /\ cexist' = [cexist EXCEPT ![p] = IF "existence" \in done THEN {} ELSE @]
       /\ raced' = IF failed \/ Believers(r, p) # {} THEN raced \cup {p} ELSE raced \ {p}
  /\ Finish(r) /\ UNCHANGED <<kind, disk, gone, clist, last>>

----------------------------------------------------------------------------
(* Reads that go to the provider: the entry is not there, or Redis does not  *)
(* answer.  A hit answers from the entry and changes nothing.               *)
Started(r, op, p, pc) == Begin(r, op, p, pc, 0) /\ UNCHANGED store /\ Quiet
Missed(entry) == RedisFaults \/ entry = {}

GetExistence(p) == Missed(cexist[p])
FileExists(r, p) == GetExistence(p) /\ Started(r, "exists", p, "ask")
HttpExists(r, p) == FileExists(r, p)
Stored == {p \in Paths : disk[p] # 0}
Found(r, k) ==
  /\ kind = k /\ At(r, "exists", "ask")
  /\ req' = [req EXCEPT ![r].found = Stored \cap {req[r].path}, ![r].pc = "cache"]
  /\ UNCHANGED store /\ Quiet
LocalAccess(r) == Found(r, "local")
S3Exists(r) == Found(r, "s3")
SpacesExists(r) == Found(r, "spaces")
FileExistsAtGithub(r) == Found(r, "github")   \* the GithubApiClient
GithubExists(r) == FileExistsAtGithub(r)
\* A failed write of an entry is logged and the request answers all the same.
CacheExistence(r) ==
  /\ At(r, "exists", "cache")
  /\ \E kept \in {TRUE, ~RedisFaults} :
       cexist' = [cexist EXCEPT ![req[r].path] = IF kept THEN {req[r].found # {}} ELSE @]
  /\ Finish(r) /\ UNCHANGED <<kind, disk, gone, cmeta, clist, last, raced>>

GetListing == Missed(clist)
ListFiles(r) == GetListing /\ Started(r, "list", AnyPath, "ask")
HttpList(r) == ListFiles(r)
Listed(r, k) ==
  /\ kind = k /\ At(r, "list", "ask")
  /\ req' = [req EXCEPT ![r].found = Stored, ![r].pc = "cache"]
  /\ UNCHANGED store /\ Quiet
LocalList(r) == Listed(r, "local")
S3List(r) == Listed(r, "s3")
SpacesList(r) == Listed(r, "spaces")
ListFilesAtGithub(r) == Listed(r, "github")
GithubList(r) == ListFilesAtGithub(r)
CacheListing(r) ==
  /\ At(r, "list", "cache")
  /\ \E kept \in {TRUE, ~RedisFaults} :
       clist' = IF kept /\ Cardinality(req[r].found) <= MaxListing
                THEN {req[r].found} ELSE clist
  /\ Finish(r) /\ UNCHANGED <<kind, disk, gone, cmeta, cexist, last, raced>>

GetMetadata(p) == Missed(cmeta[p])
GetFileMetadata(r, op, p) ==
  \/ GetMetadata(p) /\ Started(r, op, p, "ask")
  \/ cmeta[p] # {} /\ op = "download" /\ Started(r, op, p, "get")
HttpMetadata(r, p) == GetFileMetadata(r, "metadata", p)
\* The metadata first, from the cache or the provider, then the file.
HttpDownload(r, p) == GetFileMetadata(r, "download", p)
Described(r, k) ==
  /\ kind = k /\ \E op \in {"metadata", "download"} : At(r, op, "ask")
  /\ IF disk[req[r].path] = 0 THEN Finish(r)
     ELSE req' = [req EXCEPT ![r].meta = disk[req[r].path], ![r].pc = "cache"]
  /\ UNCHANGED store /\ Quiet
LocalMetadata(r) == Described(r, "local")
S3Metadata(r) == Described(r, "s3")
SpacesMetadata(r) == Described(r, "spaces")
GetFileContent(r) == Described(r, "github")
GithubMetadata(r) == GetFileContent(r)
\* Large files and some types of content are not cached: what is there stays.
CacheMetadata(r) ==
  /\ \E op \in {"metadata", "download", "update"} : At(r, op, "cache")
  /\ \E kept \in BOOLEAN :
       cmeta' = [cmeta EXCEPT ![req[r].path] = IF kept THEN {req[r].meta} ELSE @]
  /\ IF req[r].op = "download"
     THEN req' = [req EXCEPT ![r].pc = "get", ![r].meta = 0] ELSE Finish(r)
  /\ UNCHANGED <<kind, disk, gone, cexist, clist, last, raced>>
DownloadFile(r, k) ==
  kind = k /\ At(r, "download", "get") /\ Finish(r) /\ UNCHANGED store /\ Quiet
LocalDownload(r) == DownloadFile(r, "local")
S3Download(r) == DownloadFile(r, "s3")
SpacesDownload(r) == DownloadFile(r, "spaces")
GithubStream(r) == DownloadFile(r, "github")

----------------------------------------------------------------------------
(* Metadata update; the answer replaces the cached metadata. *)
UpdateFileMetadata(r, p) ==
  Started(r, "update", p,
          CASE kind = "s3" -> "copy" [] kind = "github" -> "sha" [] OTHER -> "read")

HttpUpdate(r, p) == UpdateFileMetadata(r, p)
ReadMetadata(r, next) ==
  /\ IF disk[req[r].path] = 0 THEN Finish(r)
     ELSE req' = [req EXCEPT ![r].meta = disk[req[r].path], ![r].pc = next]
  /\ UNCHANGED store /\ Quiet
LocalRead(r) == kind = "local" /\ At(r, "update", "read") /\ ReadMetadata(r, "write")
LocalWrite(r) ==   \* the metadata file again; the content stays
  /\ kind = "local" /\ At(r, "update", "write")
  /\ Goto(r, "cache") /\ UNCHANGED store /\ Quiet
\* CopyObject of the object onto itself is one atomic write of its metadata.
Copy(r) ==
  /\ IF disk[req[r].path] = 0 THEN Answer404(r)
     ELSE Put(req[r].path, disk[req[r].path])
          /\ req' = [req EXCEPT ![r].pc = "head", ![r].meta = 0]
  /\ Quiet
S3Copy(r) == kind = "s3" /\ At(r, "update", "copy") /\ Copy(r)
SpacesRead(r) == kind = "spaces" /\ At(r, "update", "read") /\ ReadMetadata(r, "copy")
SpacesCopy(r) == kind = "spaces" /\ At(r, "update", "copy") /\ Copy(r)
Head(r) == At(r, "update", "head") /\ ReadMetadata(r, "cache")
GithubLookup(r) ==
  /\ kind = "github" /\ At(r, "update", "sha")
  /\ IF disk[req[r].path] = 0 THEN Finish(r)
     ELSE req' = [req EXCEPT ![r].sha = disk[req[r].path], ![r].pc = "get"]
  /\ UNCHANGED store /\ Quiet
GithubGet(r) == kind = "github" /\ At(r, "update", "get") /\ ReadMetadata(r, "put")
GithubRefresh(r) ==   \* the same content again, under the sha found first
  /\ kind = "github" /\ At(r, "update", "put")
  /\ IF ShaMatches(r)
     THEN Put(req[r].path, req[r].meta) /\ Goto(r, "cache")
     ELSE Answer404(r)
  /\ Quiet

----------------------------------------------------------------------------
\* A call of the provider or of Redis fails: the request ends where it is.
Fail(r) ==
  /\ req[r] # Idle /\ req[r].pc \notin {"undoc", "invalidate", "cache"}
  /\ Finish(r) /\ UNCHANGED store /\ Quiet
\* Every entry is written with a time to live; and were it written without.
LapsesNever(entry) == FALSE
Lapses(entry) == entry # {}
ExpireMetadata(p) ==
  /\ Lapses(cmeta[p]) /\ cmeta' = [cmeta EXCEPT ![p] = {}]
  /\ UNCHANGED <<kind, disk, gone, cexist, clist, req, last, signed, raced>>
ExpireExistence(p) ==
  /\ Lapses(cexist[p]) /\ cexist' = [cexist EXCEPT ![p] = {}]
  /\ UNCHANGED <<kind, disk, gone, cmeta, clist, req, last, signed, raced>>
ExpireListing ==
  /\ Lapses(clist) /\ clist' = {}
  /\ UNCHANGED <<kind, disk, gone, cmeta, cexist, req, last, signed, raced>>

Uploading(r) == LocalPut(r) \/ LocalDoc(r) \/ S3Put(r) \/ S3Answer(r) \/ SpacesPut(r)
                \/ GithubSha(r) \/ GithubPut(r)
Deleting(r) == LocalUnlink(r) \/ LocalUndoc(r) \/ S3Remove(r) \/ SpacesRemove(r)
               \/ GithubFind(r) \/ GithubRemove(r) \/ Invalidate(r)
Asking(r) == LocalAccess(r) \/ S3Exists(r) \/ SpacesExists(r) \/ GithubExists(r)
             \/ LocalList(r) \/ S3List(r) \/ SpacesList(r) \/ GithubList(r)
             \/ LocalMetadata(r) \/ S3Metadata(r) \/ SpacesMetadata(r) \/ GithubMetadata(r)
Serving(r) == LocalDownload(r) \/ S3Download(r) \/ SpacesDownload(r) \/ GithubStream(r)
Caching(r) == CacheExistence(r) \/ CacheListing(r) \/ CacheMetadata(r)
Updating(r) == LocalRead(r) \/ LocalWrite(r) \/ S3Copy(r) \/ SpacesRead(r) \/ SpacesCopy(r)
               \/ Head(r) \/ GithubLookup(r) \/ GithubGet(r) \/ GithubRefresh(r)
Step(r) == /\ Uploading(r) \/ Deleting(r) \/ Asking(r) \/ Caching(r) \/ Serving(r)
              \/ Updating(r) \/ Fail(r)
           /\ UNCHANGED signed
Arrive(r) == /\ \/ HttpList(r)
                \/ \E p \in Paths : HttpUpload(r, p) \/ HttpDelete(r, p) \/ HttpExists(r, p)
                                   \/ HttpMetadata(r, p) \/ HttpDownload(r, p) \/ HttpUpdate(r, p)
             /\ UNCHANGED signed
Next == \/ \E r \in Requests : Arrive(r) \/ Step(r)
        \/ \E p \in Paths : \/ PresignUpload(p) \/ SignedPut(p) \/ SignatureExpires(p)
                            \/ ExpireMetadata(p) \/ ExpireExistence(p)
        \/ ExpireListing
\* Calls return or fail, and Redis expires what has a TTL: every entry has one.
Fairness == /\ \A r \in Requests : WF_vars(Step(r))
            /\ \A p \in Paths : WF_vars(ExpireMetadata(p)) /\ WF_vars(ExpireExistence(p))
            /\ WF_vars(ExpireListing)
Spec == Init /\ [][Next]_vars

----------------------------------------------------------------------------
Operations == {"idle", "upload", "delete", "exists", "list", "metadata", "download", "update"}
Points == {"idle", "sha", "put", "doc", "head", "remove", "undoc", "invalidate", "ask", "cache",
           "get", "copy", "read", "write"}
TypeOK ==
  /\ kind \in Kinds /\ last \in Versions /\ signed \in SUBSET Paths /\ raced \in SUBSET Paths
  /\ disk \in [Paths -> Versions]
  /\ gone \in [Paths -> SUBSET Versions]
  /\ cmeta \in [Paths -> SUBSET Versions] /\ cexist \in [Paths -> SUBSET BOOLEAN]
  /\ clist \in SUBSET SUBSET Paths
  /\ req \in [Requests -> [op: Operations, pc: Points, path: Paths, ver: Versions,
                           sha: Versions, meta: Versions, found: SUBSET Paths]]

\* A content that was replaced or deleted never comes back, whichever requests
\* overlap: only GitHub's metadata update writes content it has read (it
\* downloads the file and puts it again), and it does so under the sha it read
\* first (github-storage.provider.ts 225-264).
NeverReverts == \A p \in Paths : disk[p] \notin gone[p]

\* Once a deletion has answered, no cached answer says the file is still there,
\* unless a request that had read it before was still to write its answer, or
\* the invalidation failed (storage.service.ts 302-340, storage-cache.service.ts).
DeletedIsGone ==
  \A p \in Paths \ raced :
    (disk[p] = 0 /\ ~\E r \in Requests : req[r].path = p /\ req[r].op = "delete"
                                          /\ req[r].pc \in {"undoc", "invalidate"})
      => cmeta[p] = {} /\ TRUE \notin cexist[p]

\* When the writing stops, what is cached about existence and in the listing
\* comes to agree with the store and stays so, however stale it was: no read
\* renews the lifetime of an entry (storage-cache.service.ts 55-62, 135-243).
Converges ==
  /\ \A p \in Paths : <>[](cexist[p] \subseteq {disk[p] # 0})
  /\ <>[](clist \subseteq {Stored})
=============================================================================
