--------------------------- MODULE PlatformProofs ---------------------------
(***************************************************************************)
(* The properties of Platform, for any number of requests, users, rows,    *)
(* paths and instances.  Its invariant says of the part that runs that its *)
(* own invariant holds: the ones of PlatformParts, and those that          *)
(* StorageProofs and MembershipProofs have for their components.           *)
(***************************************************************************)
EXTENDS PlatformParts

FP == INSTANCE StorageProofs WITH Kinds <- FileKinds, RedisFaults <- TRUE, req <- reqF
KP == INSTANCE StorageProofs WITH Kinds <- BucketKinds, RedisFaults <- FALSE, req <- reqF
MP == INSTANCE MembershipProofs WITH
        Operations <- MemberOps, MaxInvites <- MemberInvites,
        Batches <- {}, Roles <- {"member"}, Alone <- {}, Settable <- {},
        MaxAccounts <- Cardinality(People), EmailFaults <- FALSE, req <- reqM
JP == INSTANCE MembershipProofs WITH
        Operations <- JoinOps, MaxInvites <- JoinInvites,
        Batches <- {}, Roles <- {"member"}, Alone <- {}, Settable <- {"INACTIVE"},
        MaxAccounts <- Cardinality(People), EmailFaults <- FALSE, req <- reqM

-----------------------------------------------------------------------------
(* What an instance of Storage defines and what the instance of its proofs *)
(* defines is the same.                                                    *)

LEMMA FilesSame ==
  /\ (F!StorageAssumption <=> FP!StorageAssumption)
  /\ (F!Init <=> FP!Init) /\ (F!Next <=> FP!Next)
  /\ (UNCHANGED F!vars <=> UNCHANGED FP!vars)
  /\ (F!TypeOK <=> FP!TypeOK) /\ (F!NeverReverts <=> FP!NeverReverts)
  /\ (F!DeletedIsGone <=> FP!DeletedIsGone)
<1>1. F!StorageAssumption <=> FP!StorageAssumption
  BY DEF F!StorageAssumption, FP!StorageAssumption
<1>2. F!Init <=> FP!Init
  BY DEF F!AnyPath, FP!AnyPath, F!Idle, FP!Idle, F!CreateProvider, FP!CreateProvider, F!Init,
     FP!Init
<1>3. F!Next <=> FP!Next
  <2>1. ASSUME NEW r \in Requests
       PROVE  F!Uploading(r) <=> FP!Uploading(r)
    BY DEF F!store, FP!store, F!AnyPath, FP!AnyPath, F!Idle, FP!Idle, F!At, FP!At, F!Goto, FP!Goto,
       F!Finish, FP!Finish, F!Quiet, FP!Quiet, F!Put, FP!Put, F!LocalPut, FP!LocalPut,
       F!LocalDoc, FP!LocalDoc, F!S3Put, FP!S3Put, F!S3Answer, FP!S3Answer, F!SpacesPut,
       FP!SpacesPut, F!GithubSha, FP!GithubSha, F!ShaMatches, FP!ShaMatches, F!GithubPut,
       FP!GithubPut, F!Uploading, FP!Uploading
  <2>2. ASSUME NEW r \in Requests
       PROVE  F!Deleting(r) <=> FP!Deleting(r)
    BY DEF F!store, FP!store, F!AnyPath, FP!AnyPath, F!Idle, FP!Idle, F!At, FP!At, F!Goto, FP!Goto,
       F!Finish, FP!Finish, F!Answer404, FP!Answer404, F!Quiet, FP!Quiet, F!Put, FP!Put,
       F!ShaMatches, FP!ShaMatches, F!LocalUnlink, FP!LocalUnlink, F!LocalUndoc, FP!LocalUndoc,
       F!S3Remove, FP!S3Remove, F!SpacesRemove, FP!SpacesRemove, F!GithubFind, FP!GithubFind,
       F!GithubRemove, FP!GithubRemove, F!Believers, FP!Believers, F!Keys, FP!Keys,
       F!Invalidate, FP!Invalidate, F!Deleting, FP!Deleting
  <2>3. ASSUME NEW r \in Requests
       PROVE  F!Asking(r) <=> FP!Asking(r)
    BY DEF F!store, FP!store, F!AnyPath, FP!AnyPath, F!Idle, FP!Idle, F!At, FP!At, F!Finish,
       FP!Finish, F!Quiet, FP!Quiet, F!Stored, FP!Stored, F!Found, FP!Found, F!LocalAccess,
       FP!LocalAccess, F!S3Exists, FP!S3Exists, F!SpacesExists, FP!SpacesExists,
       F!FileExistsAtGithub, FP!FileExistsAtGithub, F!GithubExists, FP!GithubExists, F!Listed,
       FP!Listed, F!LocalList, FP!LocalList, F!S3List, FP!S3List, F!SpacesList, FP!SpacesList,
       F!ListFilesAtGithub, FP!ListFilesAtGithub, F!GithubList, FP!GithubList, F!Described,
       FP!Described, F!LocalMetadata, FP!LocalMetadata, F!S3Metadata, FP!S3Metadata,
       F!SpacesMetadata, FP!SpacesMetadata, F!GetFileContent, FP!GetFileContent,
       F!GithubMetadata, FP!GithubMetadata, F!Asking, FP!Asking
  <2>4. ASSUME NEW r \in Requests
       PROVE  /\ (F!Serving(r) <=> FP!Serving(r)) /\ (F!Caching(r) <=> FP!Caching(r))
    BY DEF F!store, FP!store, F!AnyPath, FP!AnyPath, F!Idle, FP!Idle, F!At, FP!At, F!Finish,
       FP!Finish, F!Quiet, FP!Quiet, F!CacheExistence, FP!CacheExistence, F!CacheListing,
       FP!CacheListing, F!CacheMetadata, FP!CacheMetadata, F!DownloadFile, FP!DownloadFile,
       F!LocalDownload, FP!LocalDownload, F!S3Download, FP!S3Download, F!SpacesDownload,
       FP!SpacesDownload, F!GithubStream, FP!GithubStream, F!Serving, FP!Serving, F!Caching,
       FP!Caching, F!Cardinality, FP!Cardinality
  <2>5. ASSUME NEW r \in Requests
       PROVE  /\ (F!Updating(r) <=> FP!Updating(r)) /\ (F!Fail(r) <=> FP!Fail(r))
    BY DEF F!store, FP!store, F!AnyPath, FP!AnyPath, F!Idle, FP!Idle, F!At, FP!At, F!Goto, FP!Goto,
       F!Finish, FP!Finish, F!Answer404, FP!Answer404, F!Quiet, FP!Quiet, F!Put, FP!Put,
       F!ShaMatches, FP!ShaMatches, F!ReadMetadata, FP!ReadMetadata, F!LocalRead, FP!LocalRead,
       F!LocalWrite, FP!LocalWrite, F!Copy, FP!Copy, F!S3Copy, FP!S3Copy, F!SpacesRead,
       FP!SpacesRead, F!SpacesCopy, FP!SpacesCopy, F!Head, FP!Head, F!GithubLookup,
       FP!GithubLookup, F!GithubGet, FP!GithubGet, F!GithubRefresh, FP!GithubRefresh, F!Fail,
       FP!Fail, F!Updating, FP!Updating
  <2>6. ASSUME NEW r \in Requests
       PROVE  F!HttpList(r) <=> FP!HttpList(r)
    BY DEF F!store, FP!store, F!AnyPath, FP!AnyPath, F!Idle, FP!Idle, F!Begin, FP!Begin, F!Quiet,
       FP!Quiet, F!Started, FP!Started, F!Missed, FP!Missed, F!GetListing, FP!GetListing,
       F!ListFiles, FP!ListFiles, F!HttpList, FP!HttpList
  <2>7. ASSUME NEW r \in Requests, NEW p \in Paths
       PROVE  /\ (F!HttpUpload(r, p) <=> FP!HttpUpload(r, p))
              /\ (F!HttpDelete(r, p) <=> FP!HttpDelete(r, p))
              /\ (F!HttpExists(r, p) <=> FP!HttpExists(r, p))
    BY DEF F!store, FP!store, F!AnyPath, FP!AnyPath, F!Idle, FP!Idle, F!Begin, FP!Begin, F!Quiet,
       FP!Quiet, F!Used, FP!Used, F!Fits, FP!Fits, F!UploadFile, FP!UploadFile, F!HttpUpload,
       FP!HttpUpload, F!DeleteFile, FP!DeleteFile, F!HttpDelete, FP!HttpDelete, F!Started,
       FP!Started, F!Missed, FP!Missed, F!GetExistence, FP!GetExistence, F!FileExists,
       FP!FileExists, F!HttpExists, FP!HttpExists
  <2>8. ASSUME NEW r \in Requests, NEW p \in Paths
       PROVE  /\ (F!HttpMetadata(r, p) <=> FP!HttpMetadata(r, p))
              /\ (F!HttpDownload(r, p) <=> FP!HttpDownload(r, p))
              /\ (F!HttpUpdate(r, p) <=> FP!HttpUpdate(r, p))
    BY DEF F!store, FP!store, F!AnyPath, FP!AnyPath, F!Idle, FP!Idle, F!Begin, FP!Begin, F!Quiet,
       FP!Quiet, F!Started, FP!Started, F!Missed, FP!Missed, F!GetMetadata, FP!GetMetadata,
       F!GetFileMetadata, FP!GetFileMetadata, F!HttpMetadata, FP!HttpMetadata, F!HttpDownload,
       FP!HttpDownload, F!UpdateFileMetadata, FP!UpdateFileMetadata, F!HttpUpdate, FP!HttpUpdate
  <2>9. ASSUME NEW p \in Paths
       PROVE  /\ (F!PresignUpload(p) <=> FP!PresignUpload(p))
              /\ (F!SignedPut(p) <=> FP!SignedPut(p))
              /\ (F!SignatureExpires(p) <=> FP!SignatureExpires(p))
              /\ (F!ExpireMetadata(p) <=> FP!ExpireMetadata(p))
              /\ (F!ExpireExistence(p) <=> FP!ExpireExistence(p))
    BY DEF F!Put, FP!Put, F!S3Presign, FP!S3Presign, F!SpacesPresign, FP!SpacesPresign, F!Presign,
       FP!Presign, F!PresignUpload, FP!PresignUpload, F!SignedPut, FP!SignedPut,
       F!SignatureExpires, FP!SignatureExpires, F!Lapses, FP!Lapses, F!ExpireMetadata,
       FP!ExpireMetadata, F!ExpireExistence, FP!ExpireExistence
  <2>10. F!ExpireListing <=> FP!ExpireListing
    BY DEF F!Lapses, FP!Lapses, F!ExpireListing, FP!ExpireListing
  <2> QED
    BY <2>1, <2>2, <2>3, <2>4, <2>5, <2>6, <2>7, <2>8, <2>9, <2>10 DEF F!Step, FP!Step, F!Arrive, FP!Arrive,
       F!Next, FP!Next
<1>4. UNCHANGED F!vars <=> UNCHANGED FP!vars
  BY DEF F!vars, FP!vars
<1>5. F!TypeOK <=> FP!TypeOK
  BY DEF F!Versions, FP!Versions, F!Operations, FP!Operations, F!Points, FP!Points, F!TypeOK,
     FP!TypeOK
<1>6. F!NeverReverts <=> FP!NeverReverts
  BY DEF F!NeverReverts, FP!NeverReverts
<1>7. F!DeletedIsGone <=> FP!DeletedIsGone
  BY DEF F!DeletedIsGone, FP!DeletedIsGone
<1> QED BY <1>1, <1>2, <1>3, <1>4, <1>5, <1>6, <1>7

LEMMA BucketsSame ==
  /\ (K!StorageAssumption <=> KP!StorageAssumption)
  /\ (K!Init <=> KP!Init) /\ (K!Next <=> KP!Next)
  /\ (UNCHANGED K!vars <=> UNCHANGED KP!vars)
  /\ (K!TypeOK <=> KP!TypeOK) /\ (K!NeverReverts <=> KP!NeverReverts)
  /\ (K!DeletedIsGone <=> KP!DeletedIsGone)
<1>1. K!StorageAssumption <=> KP!StorageAssumption
  BY DEF K!StorageAssumption, KP!StorageAssumption
<1>2. K!Init <=> KP!Init
  BY DEF K!AnyPath, KP!AnyPath, K!Idle, KP!Idle, K!CreateProvider, KP!CreateProvider, K!Init,
     KP!Init
<1>3. K!Next <=> KP!Next
  <2>1. ASSUME NEW r \in Requests
       PROVE  K!Uploading(r) <=> KP!Uploading(r)
    BY DEF K!store, KP!store, K!AnyPath, KP!AnyPath, K!Idle, KP!Idle, K!At, KP!At, K!Goto, KP!Goto,
       K!Finish, KP!Finish, K!Quiet, KP!Quiet, K!Put, KP!Put, K!LocalPut, KP!LocalPut,
       K!LocalDoc, KP!LocalDoc, K!S3Put, KP!S3Put, K!S3Answer, KP!S3Answer, K!SpacesPut,
       KP!SpacesPut, K!GithubSha, KP!GithubSha, K!ShaMatches, KP!ShaMatches, K!GithubPut,
       KP!GithubPut, K!Uploading, KP!Uploading
  <2>2. ASSUME NEW r \in Requests
       PROVE  K!Deleting(r) <=> KP!Deleting(r)
    BY DEF K!store, KP!store, K!AnyPath, KP!AnyPath, K!Idle, KP!Idle, K!At, KP!At, K!Goto, KP!Goto,
       K!Finish, KP!Finish, K!Answer404, KP!Answer404, K!Quiet, KP!Quiet, K!Put, KP!Put,
       K!ShaMatches, KP!ShaMatches, K!LocalUnlink, KP!LocalUnlink, K!LocalUndoc, KP!LocalUndoc,
       K!S3Remove, KP!S3Remove, K!SpacesRemove, KP!SpacesRemove, K!GithubFind, KP!GithubFind,
       K!GithubRemove, KP!GithubRemove, K!Believers, KP!Believers, K!Keys, KP!Keys,
       K!Invalidate, KP!Invalidate, K!Deleting, KP!Deleting
  <2>3. ASSUME NEW r \in Requests
       PROVE  K!Asking(r) <=> KP!Asking(r)
    BY DEF K!store, KP!store, K!AnyPath, KP!AnyPath, K!Idle, KP!Idle, K!At, KP!At, K!Finish,
       KP!Finish, K!Quiet, KP!Quiet, K!Stored, KP!Stored, K!Found, KP!Found, K!LocalAccess,
       KP!LocalAccess, K!S3Exists, KP!S3Exists, K!SpacesExists, KP!SpacesExists,
       K!FileExistsAtGithub, KP!FileExistsAtGithub, K!GithubExists, KP!GithubExists, K!Listed,
       KP!Listed, K!LocalList, KP!LocalList, K!S3List, KP!S3List, K!SpacesList, KP!SpacesList,
       K!ListFilesAtGithub, KP!ListFilesAtGithub, K!GithubList, KP!GithubList, K!Described,
       KP!Described, K!LocalMetadata, KP!LocalMetadata, K!S3Metadata, KP!S3Metadata,
       K!SpacesMetadata, KP!SpacesMetadata, K!GetFileContent, KP!GetFileContent,
       K!GithubMetadata, KP!GithubMetadata, K!Asking, KP!Asking
  <2>4. ASSUME NEW r \in Requests
       PROVE  /\ (K!Serving(r) <=> KP!Serving(r)) /\ (K!Caching(r) <=> KP!Caching(r))
    BY DEF K!store, KP!store, K!AnyPath, KP!AnyPath, K!Idle, KP!Idle, K!At, KP!At, K!Finish,
       KP!Finish, K!Quiet, KP!Quiet, K!CacheExistence, KP!CacheExistence, K!CacheListing,
       KP!CacheListing, K!CacheMetadata, KP!CacheMetadata, K!DownloadFile, KP!DownloadFile,
       K!LocalDownload, KP!LocalDownload, K!S3Download, KP!S3Download, K!SpacesDownload,
       KP!SpacesDownload, K!GithubStream, KP!GithubStream, K!Serving, KP!Serving, K!Caching,
       KP!Caching, K!Cardinality, KP!Cardinality
  <2>5. ASSUME NEW r \in Requests
       PROVE  /\ (K!Updating(r) <=> KP!Updating(r)) /\ (K!Fail(r) <=> KP!Fail(r))
    BY DEF K!store, KP!store, K!AnyPath, KP!AnyPath, K!Idle, KP!Idle, K!At, KP!At, K!Goto, KP!Goto,
       K!Finish, KP!Finish, K!Answer404, KP!Answer404, K!Quiet, KP!Quiet, K!Put, KP!Put,
       K!ShaMatches, KP!ShaMatches, K!ReadMetadata, KP!ReadMetadata, K!LocalRead, KP!LocalRead,
       K!LocalWrite, KP!LocalWrite, K!Copy, KP!Copy, K!S3Copy, KP!S3Copy, K!SpacesRead,
       KP!SpacesRead, K!SpacesCopy, KP!SpacesCopy, K!Head, KP!Head, K!GithubLookup,
       KP!GithubLookup, K!GithubGet, KP!GithubGet, K!GithubRefresh, KP!GithubRefresh, K!Fail,
       KP!Fail, K!Updating, KP!Updating
  <2>6. ASSUME NEW r \in Requests
       PROVE  K!HttpList(r) <=> KP!HttpList(r)
    BY DEF K!store, KP!store, K!AnyPath, KP!AnyPath, K!Idle, KP!Idle, K!Begin, KP!Begin, K!Quiet,
       KP!Quiet, K!Started, KP!Started, K!Missed, KP!Missed, K!GetListing, KP!GetListing,
       K!ListFiles, KP!ListFiles, K!HttpList, KP!HttpList
  <2>7. ASSUME NEW r \in Requests, NEW p \in Paths
       PROVE  /\ (K!HttpUpload(r, p) <=> KP!HttpUpload(r, p))
              /\ (K!HttpDelete(r, p) <=> KP!HttpDelete(r, p))
              /\ (K!HttpExists(r, p) <=> KP!HttpExists(r, p))
    BY DEF K!store, KP!store, K!AnyPath, KP!AnyPath, K!Idle, KP!Idle, K!Begin, KP!Begin, K!Quiet,
       KP!Quiet, K!Used, KP!Used, K!Fits, KP!Fits, K!UploadFile, KP!UploadFile, K!HttpUpload,
       KP!HttpUpload, K!DeleteFile, KP!DeleteFile, K!HttpDelete, KP!HttpDelete, K!Started,
       KP!Started, K!Missed, KP!Missed, K!GetExistence, KP!GetExistence, K!FileExists,
       KP!FileExists, K!HttpExists, KP!HttpExists
  <2>8. ASSUME NEW r \in Requests, NEW p \in Paths
       PROVE  /\ (K!HttpMetadata(r, p) <=> KP!HttpMetadata(r, p))
              /\ (K!HttpDownload(r, p) <=> KP!HttpDownload(r, p))
              /\ (K!HttpUpdate(r, p) <=> KP!HttpUpdate(r, p))
    BY DEF K!store, KP!store, K!AnyPath, KP!AnyPath, K!Idle, KP!Idle, K!Begin, KP!Begin, K!Quiet,
       KP!Quiet, K!Started, KP!Started, K!Missed, KP!Missed, K!GetMetadata, KP!GetMetadata,
       K!GetFileMetadata, KP!GetFileMetadata, K!HttpMetadata, KP!HttpMetadata, K!HttpDownload,
       KP!HttpDownload, K!UpdateFileMetadata, KP!UpdateFileMetadata, K!HttpUpdate, KP!HttpUpdate
  <2>9. ASSUME NEW p \in Paths
       PROVE  /\ (K!PresignUpload(p) <=> KP!PresignUpload(p))
              /\ (K!SignedPut(p) <=> KP!SignedPut(p))
              /\ (K!SignatureExpires(p) <=> KP!SignatureExpires(p))
              /\ (K!ExpireMetadata(p) <=> KP!ExpireMetadata(p))
              /\ (K!ExpireExistence(p) <=> KP!ExpireExistence(p))
    BY DEF K!Put, KP!Put, K!S3Presign, KP!S3Presign, K!SpacesPresign, KP!SpacesPresign, K!Presign,
       KP!Presign, K!PresignUpload, KP!PresignUpload, K!SignedPut, KP!SignedPut,
       K!SignatureExpires, KP!SignatureExpires, K!Lapses, KP!Lapses, K!ExpireMetadata,
       KP!ExpireMetadata, K!ExpireExistence, KP!ExpireExistence
  <2>10. K!ExpireListing <=> KP!ExpireListing
    BY DEF K!Lapses, KP!Lapses, K!ExpireListing, KP!ExpireListing
  <2> QED
    BY <2>1, <2>2, <2>3, <2>4, <2>5, <2>6, <2>7, <2>8, <2>9, <2>10 DEF K!Step, KP!Step, K!Arrive, KP!Arrive,
       K!Next, KP!Next
<1>4. UNCHANGED K!vars <=> UNCHANGED KP!vars
  BY DEF K!vars, KP!vars
<1>5. K!TypeOK <=> KP!TypeOK
  BY DEF K!Versions, KP!Versions, K!Operations, KP!Operations, K!Points, KP!Points, K!TypeOK,
     KP!TypeOK
<1>6. K!NeverReverts <=> KP!NeverReverts
  BY DEF K!NeverReverts, KP!NeverReverts
<1>7. K!DeletedIsGone <=> KP!DeletedIsGone
  BY DEF K!DeletedIsGone, KP!DeletedIsGone
<1> QED BY <1>1, <1>2, <1>3, <1>4, <1>5, <1>6, <1>7

LEMMA MembersSame ==
  /\ (M!Init <=> MP!Init) /\ (M!Next <=> MP!Next)
  /\ (UNCHANGED M!vars <=> UNCHANGED MP!vars)
  /\ (M!TypeOK <=> MP!TypeOK) /\ (M!RightPerson <=> MP!RightPerson)
  /\ M!MemberIds = MP!MemberIds
  /\ \A i \in M!MemberIds : M!Activates(i) <=> MP!Activates(i)
<1>1. M!Init <=> MP!Init
  BY DEF M!MaxJoins, MP!MaxJoins, M!MemberIds, MP!MemberIds, M!RegIds, MP!RegIds, M!NoMember,
     MP!NoMember, M!NoReg, MP!NoReg, M!Idle, MP!Idle, M!Init, MP!Init, M!Cardinality,
     MP!Cardinality
<1>2. M!Next <=> MP!Next
  <2>1. M!InvitesBegun = MP!InvitesBegun
    BY DEF M!Undrawn, MP!Undrawn, M!InvitesBegun, MP!InvitesBegun, M!SumFunction, MP!SumFunction,
       M!SumFunctionOnSet, MP!SumFunctionOnSet, M!FoldFunctionOnSet, MP!FoldFunctionOnSet,
       M!MapThenFoldSet, MP!MapThenFoldSet
  <2>2. ASSUME NEW r \in Requests
       PROVE  M!Starts(r) <=> MP!Starts(r)
    BY <2>1 DEF M!MaxJoins, MP!MaxJoins, M!MemberIds, MP!MemberIds, M!Tokens, MP!Tokens, M!tables,
       MP!tables, M!ids, MP!ids, M!Idle, MP!Idle, M!Admins, MP!Admins, M!InFlight, MP!InFlight,
       M!Become, MP!Become, M!Start, MP!Start, M!Undrawn, MP!Undrawn, M!StartInvite,
       MP!StartInvite, M!StartBulk, MP!StartBulk, M!StartUpdate, MP!StartUpdate, M!StartRemove,
       MP!StartRemove, M!StartAnswer, MP!StartAnswer, M!StartRegister, MP!StartRegister,
       M!StartRegisterInto, MP!StartRegisterInto, M!StartComplete, MP!StartComplete, M!Starts,
       MP!Starts, M!Cardinality, MP!Cardinality
  <2>3. ASSUME NEW r \in Requests
       PROVE  /\ (M!CheckLimit(r) <=> MP!CheckLimit(r))
              /\ (M!CheckExists(r) <=> MP!CheckExists(r))
              /\ (M!LookupUser(r) <=> MP!LookupUser(r))
              /\ (M!CreateInvited(r) <=> MP!CreateInvited(r))
    BY DEF M!MaxJoins, MP!MaxJoins, M!MemberIds, MP!MemberIds, M!tables, MP!tables, M!ids, MP!ids,
       M!Idle, MP!Idle, M!Present, MP!Present, M!Become, MP!Become, M!Goto, MP!Goto, M!Finish,
       MP!Finish, M!UnderLimit, MP!UnderLimit, M!CheckLimit, MP!CheckLimit, M!Invitee,
       MP!Invitee, M!LastInvitee, MP!LastInvitee, M!NextInvitee, MP!NextInvitee, M!CheckExists,
       MP!CheckExists, M!LookupUser, MP!LookupUser, M!UniqueMember, MP!UniqueMember,
       M!CreateMember, MP!CreateMember, M!CreateInvited, MP!CreateInvited, M!Cardinality,
       MP!Cardinality
  <2>4. ASSUME NEW r \in Requests
       PROVE  /\ (M!CreateReg(r) <=> MP!CreateReg(r)) /\ (M!MailReg(r) <=> MP!MailReg(r))
              /\ (M!CreatePending(r) <=> MP!CreatePending(r))
              /\ (M!DropRoles(r) <=> MP!DropRoles(r)) /\ (M!AddRoles(r) <=> MP!AddRoles(r))
    BY DEF M!MaxJoins, MP!MaxJoins, M!MemberIds, MP!MemberIds, M!tables, MP!tables, M!ids, MP!ids,
       M!Idle, MP!Idle, M!Present, MP!Present, M!Become, MP!Become, M!Goto, MP!Goto, M!Finish,
       MP!Finish, M!Invitee, MP!Invitee, M!UniqueMember, MP!UniqueMember, M!CreateMember,
       MP!CreateMember, M!CreateReg, MP!CreateReg, M!MailReg, MP!MailReg, M!CreatePending,
       MP!CreatePending, M!DropRoles, MP!DropRoles, M!AddRoles, MP!AddRoles, M!Cardinality,
       MP!Cardinality
  <2>5. ASSUME NEW r \in Requests
       PROVE  /\ (M!Mail(r) <=> MP!Mail(r)) /\ (M!MailFails(r) <=> MP!MailFails(r))
              /\ (M!QueryFails(r) <=> MP!QueryFails(r))
              /\ (M!TrackActivity(r) <=> MP!TrackActivity(r)) /\ (M!Find(r) <=> MP!Find(r))
              /\ (M!SetStatus(r) <=> MP!SetStatus(r))
    BY DEF M!MaxJoins, MP!MaxJoins, M!MemberIds, MP!MemberIds, M!tables, MP!tables, M!ids, MP!ids,
       M!Idle, MP!Idle, M!Present, MP!Present, M!Become, MP!Become, M!Goto, MP!Goto, M!Finish,
       MP!Finish, M!LastInvitee, MP!LastInvitee, M!NextInvitee, MP!NextInvitee, M!Mail, MP!Mail,
       M!MailFails, MP!MailFails, M!QueryFails, MP!QueryFails, M!TrackActivity,
       MP!TrackActivity, M!Find, MP!Find, M!SetStatus, MP!SetStatus, M!Cardinality,
       MP!Cardinality
  <2>6. ASSUME NEW r \in Requests
       PROVE  /\ (M!CountAdmins(r) <=> MP!CountAdmins(r))
              /\ (M!CheckAdmin(r) <=> MP!CheckAdmin(r))
              /\ (M!DeleteMember(r) <=> MP!DeleteMember(r))
              /\ (M!FindInvited(r) <=> MP!FindInvited(r)) /\ (M!Activate(r) <=> MP!Activate(r))
    BY DEF M!MaxJoins, MP!MaxJoins, M!MemberIds, MP!MemberIds, M!tables, MP!tables, M!ids, MP!ids,
       M!NoMember, MP!NoMember, M!Idle, MP!Idle, M!Present, MP!Present, M!Admins, MP!Admins,
       M!Become, MP!Become, M!Goto, MP!Goto, M!Finish, MP!Finish, M!CountAdmins, MP!CountAdmins,
       M!IsLastAdmin, MP!IsLastAdmin, M!CheckAdmin, MP!CheckAdmin, M!DeleteMember,
       MP!DeleteMember, M!InvitationOf, MP!InvitationOf, M!FindInvited, MP!FindInvited,
       M!Activate, MP!Activate, M!Cardinality, MP!Cardinality
  <2>7. ASSUME NEW r \in Requests
       PROVE  /\ (M!CreateUser(r) <=> MP!CreateUser(r))
              /\ (M!CreateJoined(r) <=> MP!CreateJoined(r))
              /\ (M!FindToken(r) <=> MP!FindToken(r)) /\ (M!Join(r) <=> MP!Join(r))
    BY DEF M!MaxJoins, MP!MaxJoins, M!MemberIds, MP!MemberIds, M!tables, MP!tables, M!ids, MP!ids,
       M!Idle, MP!Idle, M!Present, MP!Present, M!Become, MP!Become, M!Goto, MP!Goto, M!Finish,
       MP!Finish, M!UniqueMember, MP!UniqueMember, M!CreateUser, MP!CreateUser, M!CreateJoined,
       MP!CreateJoined, M!HoldsToken, MP!HoldsToken, M!FindToken, MP!FindToken, M!LinkUser,
       MP!LinkUser, M!Join, MP!Join, M!Cardinality, MP!Cardinality
  <2>8. ASSUME NEW r \in Requests
       PROVE  /\ (M!FindReg(r) <=> MP!FindReg(r)) /\ (M!ExpireReg(r) <=> MP!ExpireReg(r))
              /\ (M!Link(r) <=> MP!Link(r)) /\ (M!DeleteReg(r) <=> MP!DeleteReg(r))
    BY DEF M!MaxJoins, MP!MaxJoins, M!MemberIds, MP!MemberIds, M!RegIds, MP!RegIds, M!tables,
       MP!tables, M!ids, MP!ids, M!NoReg, MP!NoReg, M!Idle, MP!Idle, M!Present, MP!Present,
       M!Become, MP!Become, M!Goto, MP!Goto, M!Finish, MP!Finish, M!UniqueMember,
       MP!UniqueMember, M!LinkUser, MP!LinkUser, M!FindReg, MP!FindReg, M!ExpireReg,
       MP!ExpireReg, M!Link, MP!Link, M!DeleteReg, MP!DeleteReg, M!Cardinality, MP!Cardinality
  <2> QED BY <2>2, <2>3, <2>4, <2>5, <2>6, <2>7, <2>8 DEF M!Works, MP!Works, M!Next, MP!Next
<1>3. UNCHANGED M!vars <=> UNCHANGED MP!vars
  BY DEF M!tables, MP!tables, M!ids, MP!ids, M!vars, MP!vars
<1>4. M!TypeOK <=> MP!TypeOK
  BY DEF M!RoleLists, MP!RoleLists, M!OperationNames, MP!OperationNames, M!MaxJoins,
     MP!MaxJoins, M!MemberIds, MP!MemberIds, M!RegIds, MP!RegIds, M!Statuses, MP!Statuses,
     M!MemberRecord, MP!MemberRecord, M!RegRecord, MP!RegRecord, M!Pcs, MP!Pcs, M!ReqRecord,
     MP!ReqRecord, M!TypeOK, MP!TypeOK, M!Cardinality, MP!Cardinality
<1>5. M!RightPerson <=> MP!RightPerson
  BY DEF M!MaxJoins, MP!MaxJoins, M!MemberIds, MP!MemberIds, M!Present, MP!Present, M!Owner,
     MP!Owner, M!RightPerson, MP!RightPerson, M!Cardinality, MP!Cardinality
<1>6. M!MemberIds = MP!MemberIds
  BY DEF M!MaxJoins, MP!MaxJoins, M!MemberIds, MP!MemberIds, M!Cardinality, MP!Cardinality
<1>7. \A i \in M!MemberIds : M!Activates(i) <=> MP!Activates(i)
  BY DEF M!MaxJoins, MP!MaxJoins, M!MemberIds, MP!MemberIds, M!Present, MP!Present,
     M!Activates, MP!Activates, M!Cardinality, MP!Cardinality
<1> QED BY <1>1, <1>2, <1>3, <1>4, <1>5, <1>6, <1>7

LEMMA JoinsSame ==
  /\ (J!Init <=> JP!Init) /\ (J!Next <=> JP!Next)
  /\ (UNCHANGED J!vars <=> UNCHANGED JP!vars)
  /\ (J!TypeOK <=> JP!TypeOK) /\ (J!RightPerson <=> JP!RightPerson)
  /\ J!MemberIds = JP!MemberIds
  /\ \A i \in J!MemberIds : J!Activates(i) <=> JP!Activates(i)
<1>1. J!Init <=> JP!Init
  BY DEF J!MaxJoins, JP!MaxJoins, J!MemberIds, JP!MemberIds, J!RegIds, JP!RegIds, J!NoMember,
     JP!NoMember, J!NoReg, JP!NoReg, J!Idle, JP!Idle, J!Init, JP!Init, J!Cardinality,
     JP!Cardinality
<1>2. J!Next <=> JP!Next
  <2>1. J!InvitesBegun = JP!InvitesBegun
    BY DEF J!Undrawn, JP!Undrawn, J!InvitesBegun, JP!InvitesBegun, J!SumFunction, JP!SumFunction,
       J!SumFunctionOnSet, JP!SumFunctionOnSet, J!FoldFunctionOnSet, JP!FoldFunctionOnSet,
       J!MapThenFoldSet, JP!MapThenFoldSet
  <2>2. ASSUME NEW r \in Requests
       PROVE  J!Starts(r) <=> JP!Starts(r)
    BY <2>1 DEF J!MaxJoins, JP!MaxJoins, J!MemberIds, JP!MemberIds, J!Tokens, JP!Tokens, J!tables,
       JP!tables, J!ids, JP!ids, J!Idle, JP!Idle, J!Admins, JP!Admins, J!InFlight, JP!InFlight,
       J!Become, JP!Become, J!Start, JP!Start, J!Undrawn, JP!Undrawn, J!StartInvite,
       JP!StartInvite, J!StartBulk, JP!StartBulk, J!StartUpdate, JP!StartUpdate, J!StartRemove,
       JP!StartRemove, J!StartAnswer, JP!StartAnswer, J!StartRegister, JP!StartRegister,
       J!StartRegisterInto, JP!StartRegisterInto, J!StartComplete, JP!StartComplete, J!Starts,
       JP!Starts, J!Cardinality, JP!Cardinality
  <2>3. ASSUME NEW r \in Requests
       PROVE  /\ (J!CheckLimit(r) <=> JP!CheckLimit(r))
              /\ (J!CheckExists(r) <=> JP!CheckExists(r))
              /\ (J!LookupUser(r) <=> JP!LookupUser(r))
              /\ (J!CreateInvited(r) <=> JP!CreateInvited(r))
    BY DEF J!MaxJoins, JP!MaxJoins, J!MemberIds, JP!MemberIds, J!tables, JP!tables, J!ids, JP!ids,
       J!Idle, JP!Idle, J!Present, JP!Present, J!Become, JP!Become, J!Goto, JP!Goto, J!Finish,
       JP!Finish, J!UnderLimit, JP!UnderLimit, J!CheckLimit, JP!CheckLimit, J!Invitee,
       JP!Invitee, J!LastInvitee, JP!LastInvitee, J!NextInvitee, JP!NextInvitee, J!CheckExists,
       JP!CheckExists, J!LookupUser, JP!LookupUser, J!UniqueMember, JP!UniqueMember,
       J!CreateMember, JP!CreateMember, J!CreateInvited, JP!CreateInvited, J!Cardinality,
       JP!Cardinality
  <2>4. ASSUME NEW r \in Requests
       PROVE  /\ (J!CreateReg(r) <=> JP!CreateReg(r)) /\ (J!MailReg(r) <=> JP!MailReg(r))
              /\ (J!CreatePending(r) <=> JP!CreatePending(r))
              /\ (J!DropRoles(r) <=> JP!DropRoles(r)) /\ (J!AddRoles(r) <=> JP!AddRoles(r))
    BY DEF J!MaxJoins, JP!MaxJoins, J!MemberIds, JP!MemberIds, J!tables, JP!tables, J!ids, JP!ids,
       J!Idle, JP!Idle, J!Present, JP!Present, J!Become, JP!Become, J!Goto, JP!Goto, J!Finish,
       JP!Finish, J!Invitee, JP!Invitee, J!UniqueMember, JP!UniqueMember, J!CreateMember,
       JP!CreateMember, J!CreateReg, JP!CreateReg, J!MailReg, JP!MailReg, J!CreatePending,
       JP!CreatePending, J!DropRoles, JP!DropRoles, J!AddRoles, JP!AddRoles, J!Cardinality,
       JP!Cardinality
  <2>5. ASSUME NEW r \in Requests
       PROVE  /\ (J!Mail(r) <=> JP!Mail(r)) /\ (J!MailFails(r) <=> JP!MailFails(r))
              /\ (J!QueryFails(r) <=> JP!QueryFails(r))
              /\ (J!TrackActivity(r) <=> JP!TrackActivity(r)) /\ (J!Find(r) <=> JP!Find(r))
              /\ (J!SetStatus(r) <=> JP!SetStatus(r))
    BY DEF J!MaxJoins, JP!MaxJoins, J!MemberIds, JP!MemberIds, J!tables, JP!tables, J!ids, JP!ids,
       J!Idle, JP!Idle, J!Present, JP!Present, J!Become, JP!Become, J!Goto, JP!Goto, J!Finish,
       JP!Finish, J!LastInvitee, JP!LastInvitee, J!NextInvitee, JP!NextInvitee, J!Mail, JP!Mail,
       J!MailFails, JP!MailFails, J!QueryFails, JP!QueryFails, J!TrackActivity,
       JP!TrackActivity, J!Find, JP!Find, J!SetStatus, JP!SetStatus, J!Cardinality,
       JP!Cardinality
  <2>6. ASSUME NEW r \in Requests
       PROVE  /\ (J!CountAdmins(r) <=> JP!CountAdmins(r))
              /\ (J!CheckAdmin(r) <=> JP!CheckAdmin(r))
              /\ (J!DeleteMember(r) <=> JP!DeleteMember(r))
              /\ (J!FindInvited(r) <=> JP!FindInvited(r)) /\ (J!Activate(r) <=> JP!Activate(r))
    BY DEF J!MaxJoins, JP!MaxJoins, J!MemberIds, JP!MemberIds, J!tables, JP!tables, J!ids, JP!ids,
       J!NoMember, JP!NoMember, J!Idle, JP!Idle, J!Present, JP!Present, J!Admins, JP!Admins,
       J!Become, JP!Become, J!Goto, JP!Goto, J!Finish, JP!Finish, J!CountAdmins, JP!CountAdmins,
       J!IsLastAdmin, JP!IsLastAdmin, J!CheckAdmin, JP!CheckAdmin, J!DeleteMember,
       JP!DeleteMember, J!InvitationOf, JP!InvitationOf, J!FindInvited, JP!FindInvited,
       J!Activate, JP!Activate, J!Cardinality, JP!Cardinality
  <2>7. ASSUME NEW r \in Requests
       PROVE  /\ (J!CreateUser(r) <=> JP!CreateUser(r))
              /\ (J!CreateJoined(r) <=> JP!CreateJoined(r))
              /\ (J!FindToken(r) <=> JP!FindToken(r)) /\ (J!Join(r) <=> JP!Join(r))
    BY DEF J!MaxJoins, JP!MaxJoins, J!MemberIds, JP!MemberIds, J!tables, JP!tables, J!ids, JP!ids,
       J!Idle, JP!Idle, J!Present, JP!Present, J!Become, JP!Become, J!Goto, JP!Goto, J!Finish,
       JP!Finish, J!UniqueMember, JP!UniqueMember, J!CreateUser, JP!CreateUser, J!CreateJoined,
       JP!CreateJoined, J!HoldsToken, JP!HoldsToken, J!FindToken, JP!FindToken, J!LinkUser,
       JP!LinkUser, J!Join, JP!Join, J!Cardinality, JP!Cardinality
  <2>8. ASSUME NEW r \in Requests
       PROVE  /\ (J!FindReg(r) <=> JP!FindReg(r)) /\ (J!ExpireReg(r) <=> JP!ExpireReg(r))
              /\ (J!Link(r) <=> JP!Link(r)) /\ (J!DeleteReg(r) <=> JP!DeleteReg(r))
    BY DEF J!MaxJoins, JP!MaxJoins, J!MemberIds, JP!MemberIds, J!RegIds, JP!RegIds, J!tables,
       JP!tables, J!ids, JP!ids, J!NoReg, JP!NoReg, J!Idle, JP!Idle, J!Present, JP!Present,
       J!Become, JP!Become, J!Goto, JP!Goto, J!Finish, JP!Finish, J!UniqueMember,
       JP!UniqueMember, J!LinkUser, JP!LinkUser, J!FindReg, JP!FindReg, J!ExpireReg,
       JP!ExpireReg, J!Link, JP!Link, J!DeleteReg, JP!DeleteReg, J!Cardinality, JP!Cardinality
  <2> QED BY <2>2, <2>3, <2>4, <2>5, <2>6, <2>7, <2>8 DEF J!Works, JP!Works, J!Next, JP!Next
<1>3. UNCHANGED J!vars <=> UNCHANGED JP!vars
  BY DEF J!tables, JP!tables, J!ids, JP!ids, J!vars, JP!vars
<1>4. J!TypeOK <=> JP!TypeOK
  BY DEF J!RoleLists, JP!RoleLists, J!OperationNames, JP!OperationNames, J!MaxJoins,
     JP!MaxJoins, J!MemberIds, JP!MemberIds, J!RegIds, JP!RegIds, J!Statuses, JP!Statuses,
     J!MemberRecord, JP!MemberRecord, J!RegRecord, JP!RegRecord, J!Pcs, JP!Pcs, J!ReqRecord,
     JP!ReqRecord, J!TypeOK, JP!TypeOK, J!Cardinality, JP!Cardinality
<1>5. J!RightPerson <=> JP!RightPerson
  BY DEF J!MaxJoins, JP!MaxJoins, J!MemberIds, JP!MemberIds, J!Present, JP!Present, J!Owner,
     JP!Owner, J!RightPerson, JP!RightPerson, J!Cardinality, JP!Cardinality
<1>6. J!MemberIds = JP!MemberIds
  BY DEF J!MaxJoins, JP!MaxJoins, J!MemberIds, JP!MemberIds, J!Cardinality, JP!Cardinality
<1>7. \A i \in J!MemberIds : J!Activates(i) <=> JP!Activates(i)
  BY DEF J!MaxJoins, JP!MaxJoins, J!MemberIds, JP!MemberIds, J!Present, JP!Present,
     J!Activates, JP!Activates, J!Cardinality, JP!Cardinality
<1> QED BY <1>1, <1>2, <1>3, <1>4, <1>5, <1>6, <1>7

-----------------------------------------------------------------------------
(* The files, behind the local disk and GitHub, and in the buckets.        *)

FilesInv == FP!Inv /\ FP!Answers

LEMMA FilesInitially == ASSUME F!Init PROVE FilesInv
<1>1. FP!StorageAssumption /\ FP!Init
  BY PlatformAssumption, FilesSame
<1> QED BY <1>1, FP!Initially, FP!AnswersInitially DEF FilesInv

LEMMA FilesEveryStep == ASSUME FilesInv, [F!Next]_(F!vars) PROVE FilesInv'
<1>1. [FP!Next]_(FP!vars)
  BY FilesSame
<1> QED BY <1>1, FP!EveryStep, FP!AnswersStep DEF FilesInv

LEMMA FilesSafe == ASSUME FilesInv PROVE F!TypeOK /\ F!NeverReverts /\ F!DeletedIsGone
<1>1. FP!TypeOK
  BY DEF FilesInv, FP!Answers
<1>2. FP!NeverReverts
  BY DEF FilesInv, FP!Inv, FP!Known, FP!NeverReverts
<1>3. FP!DeletedIsGone
  BY DEF FilesInv, FP!Answers, FP!Clean, FP!Cleans, FP!DeletedIsGone
<1> QED BY <1>1, <1>2, <1>3, FilesSame

BucketsInv == KP!Inv /\ KP!Answers

LEMMA BucketsInitially == ASSUME K!Init PROVE BucketsInv
<1>1. KP!StorageAssumption /\ KP!Init
  BY PlatformAssumption, BucketsSame
<1> QED BY <1>1, KP!Initially, KP!AnswersInitially DEF BucketsInv

LEMMA BucketsEveryStep == ASSUME BucketsInv, [K!Next]_(K!vars) PROVE BucketsInv'
<1>1. [KP!Next]_(KP!vars)
  BY BucketsSame
<1> QED BY <1>1, KP!EveryStep, KP!AnswersStep DEF BucketsInv

LEMMA BucketsSafe == ASSUME BucketsInv PROVE K!TypeOK /\ K!NeverReverts /\ K!DeletedIsGone
<1>1. KP!TypeOK
  BY DEF BucketsInv, KP!Answers
<1>2. KP!NeverReverts
  BY DEF BucketsInv, KP!Inv, KP!Known, KP!NeverReverts
<1>3. KP!DeletedIsGone
  BY DEF BucketsInv, KP!Answers, KP!Clean, KP!Cleans, KP!DeletedIsGone
<1> QED BY <1>1, <1>2, <1>3, BucketsSame

-----------------------------------------------------------------------------
(* The members of an organization, without and with those who register     *)
(* straight into it.                                                       *)

\* What Membership and its proofs ask of the constants.
LEMMA MembersAssumption ==
  /\ Creator \in People /\ NoPerson \notin People
  /\ MP!IsFiniteSet(People)
  /\ MP!IsFiniteSet(Requests) /\ Requests # {}
  /\ MemberLimit \in Nat \ {0} /\ MemberInvites \in Nat
  /\ MemberOps \subseteq MP!OperationNames
  /\ {} \subseteq Seq(People) /\ (\A b \in {} : Len(b) <= MP!MaxBatch)
  /\ {"member"} \subseteq MP!RoleLists
  /\ {} \subseteq MemberOps /\ {} \subseteq MP!Statuses
  /\ FALSE \in BOOLEAN
<1>1. MP!IsFiniteSet(People) /\ MP!IsFiniteSet(Requests)
  BY PlatformAssumption DEF MP!IsFiniteSet, IsFiniteSet
<1> QED
  BY <1>1, PlatformAssumption DEF M!OperationNames, MP!OperationNames, MP!RoleLists, MP!Statuses

MembersInv ==
  MP!TypeOK /\ MP!RequestShape /\ ("complete" \notin MemberOps => MP!PersonInv)

LEMMA MembersInitially == ASSUME M!Init PROVE MembersInv
<1>1. MP!Init
  BY MembersSame
<1>2. MP!TypeOK /\ MP!RequestShape
  BY <1>1, MembersAssumption, MP!InitTypes
<1>3. MP!PersonInv
  BY <1>1, MembersAssumption, MP!InitPerson
<1> QED BY <1>2, <1>3 DEF MembersInv

LEMMA MembersEveryStep == ASSUME MembersInv, [M!Next]_(M!vars) PROVE MembersInv'
<1>1. [MP!Next]_(MP!vars)
  BY MembersSame
<1>2. MP!TypeOK' /\ MP!RequestShape'
  BY <1>1, MembersAssumption, MP!NextTypes DEF MembersInv
<1>3. "complete" \notin MemberOps => MP!PersonInv'
  BY <1>1, MembersAssumption, MP!NextPerson DEF MembersInv
<1> QED BY <1>2, <1>3 DEF MembersInv

LEMMA MembersSafe ==
  ASSUME MembersInv
  PROVE  M!TypeOK /\ ("complete" \notin MemberOps => M!RightPerson)
<1>1. MP!PersonInv => MP!RightPerson
  BY DEF MP!PersonInv
<1> QED BY <1>1, MembersSame DEF MembersInv

LEMMA MembersInvitees ==
  ASSUME MembersInv, [M!Next]_(M!vars), "complete" \notin MemberOps,
         NEW i \in M!MemberIds
  PROVE  ~M!Activates(i)
<1>1. [MP!Next]_(MP!vars) /\ i \in MP!MemberIds
  BY MembersSame
<1>2. {} \cap {"ACTIVE", "INVITED"} = {}
  OBVIOUS
<1>3. ~MP!Activates(i)
  BY <1>1, <1>2, MembersAssumption, MP!InviteesStep DEF MembersInv
<1> QED BY <1>3, MembersSame

\* What Membership and its proofs ask of the constants.
LEMMA JoinsAssumption ==
  /\ Creator \in People /\ NoPerson \notin People
  /\ JP!IsFiniteSet(People)
  /\ JP!IsFiniteSet(Requests) /\ Requests # {}
  /\ MemberLimit \in Nat \ {0} /\ JoinInvites \in Nat
  /\ JoinOps \subseteq JP!OperationNames
  /\ {} \subseteq Seq(People) /\ (\A b \in {} : Len(b) <= JP!MaxBatch)
  /\ {"member"} \subseteq JP!RoleLists
  /\ {} \subseteq JoinOps /\ {"INACTIVE"} \subseteq JP!Statuses
  /\ FALSE \in BOOLEAN
<1>1. JP!IsFiniteSet(People) /\ JP!IsFiniteSet(Requests)
  BY PlatformAssumption DEF JP!IsFiniteSet, IsFiniteSet
<1> QED
  BY <1>1, PlatformAssumption DEF M!OperationNames, JP!OperationNames, JP!RoleLists, JP!Statuses

JoinsInv ==
  JP!TypeOK /\ JP!RequestShape /\ ("complete" \notin JoinOps => JP!PersonInv)

LEMMA JoinsInitially == ASSUME J!Init PROVE JoinsInv
<1>1. JP!Init
  BY JoinsSame
<1>2. JP!TypeOK /\ JP!RequestShape
  BY <1>1, JoinsAssumption, JP!InitTypes
<1>3. JP!PersonInv
  BY <1>1, JoinsAssumption, JP!InitPerson
<1> QED BY <1>2, <1>3 DEF JoinsInv

LEMMA JoinsEveryStep == ASSUME JoinsInv, [J!Next]_(J!vars) PROVE JoinsInv'
<1>1. [JP!Next]_(JP!vars)
  BY JoinsSame
<1>2. JP!TypeOK' /\ JP!RequestShape'
  BY <1>1, JoinsAssumption, JP!NextTypes DEF JoinsInv
<1>3. "complete" \notin JoinOps => JP!PersonInv'
  BY <1>1, JoinsAssumption, JP!NextPerson DEF JoinsInv
<1> QED BY <1>2, <1>3 DEF JoinsInv

LEMMA JoinsSafe ==
  ASSUME JoinsInv
  PROVE  J!TypeOK /\ ("complete" \notin JoinOps => J!RightPerson)
<1>1. JP!PersonInv => JP!RightPerson
  BY DEF JP!PersonInv
<1> QED BY <1>1, JoinsSame DEF JoinsInv

LEMMA JoinsInvitees ==
  ASSUME JoinsInv, [J!Next]_(J!vars), "complete" \notin JoinOps,
         NEW i \in J!MemberIds
  PROVE  ~J!Activates(i)
<1>1. [JP!Next]_(JP!vars) /\ i \in JP!MemberIds
  BY JoinsSame
<1>2. {"INACTIVE"} \cap {"ACTIVE", "INVITED"} = {}
  OBVIOUS
<1>3. ~JP!Activates(i)
  BY <1>1, <1>2, JoinsAssumption, JP!InviteesStep DEF JoinsInv
<1> QED BY <1>3, JoinsSame

-----------------------------------------------------------------------------
(* The invariant of the part that runs, and that every step keeps it.      *)

Inv ==
  /\ part \in Parts
  /\ part = "accounts" => A!Inv
  /\ part = "guard" => G!Inv
  /\ part = "setup" => U!Inv
  /\ part = "members" => MembersInv
  /\ part = "joins" => JoinsInv
  /\ part = "domains" => D!Inv
  /\ part = "boot" => I!Inv
  /\ part = "billing" => B!Inv
  /\ part = "files" => FilesInv
  /\ part = "buckets" => BucketsInv
  /\ part = "keys" => T!Inv
  /\ part = "organizations" => O!Inv
  /\ part = "health" => H!Inv
  /\ part = "redis" => R!Inv

LEMMA InitInv == Init => Inv
<1> SUFFICES ASSUME Init PROVE Inv
  OBVIOUS
<1>1. part = "accounts" => A!Inv
  <2>1. part = "accounts" => A!Init
    BY DEF Init
  <2> QED BY <2>1, AccountsInitially
<1>2. part = "guard" => G!Inv
  <2>1. part = "guard" => G!Init
    BY DEF Init
  <2> QED BY <2>1, LoginGuardInitially
<1>3. part = "setup" => U!Inv
  <2>1. part = "setup" => U!Init
    BY DEF Init
  <2> QED BY <2>1, SetupInitially
<1>4. part = "members" => MembersInv
  <2>1. part = "members" => M!Init
    BY DEF Init
  <2> QED BY <2>1, MembersInitially
<1>5. part = "joins" => JoinsInv
  <2>1. part = "joins" => J!Init
    BY DEF Init
  <2> QED BY <2>1, JoinsInitially
<1>6. part = "domains" => D!Inv
  <2>1. part = "domains" => D!Init
    BY DEF Init
  <2> QED BY <2>1, DomainsInitially
<1>7. part = "boot" => I!Inv
  <2>1. part = "boot" => I!Init
    BY DEF Init
  <2> QED BY <2>1, SystemInitInitially
<1>8. part = "billing" => B!Inv
  <2>1. part = "billing" => B!Init
    BY DEF Init
  <2> QED BY <2>1, BillingInitially
<1>9. part = "files" => FilesInv
  <2>1. part = "files" => F!Init
    BY DEF Init
  <2> QED BY <2>1, FilesInitially
<1>10. part = "buckets" => BucketsInv
  <2>1. part = "buckets" => K!Init
    BY DEF Init
  <2> QED BY <2>1, BucketsInitially
<1>11. part = "keys" => T!Inv
  <2>1. part = "keys" => T!Init
    BY DEF Init
  <2> QED BY <2>1, AccessTokensInitially
<1>12. part = "organizations" => O!Inv
  <2>1. part = "organizations" => O!Init
    BY DEF Init
  <2> QED BY <2>1, OrganizationsInitially
<1>13. part = "health" => H!Inv
  <2>1. part = "health" => H!Init
    BY DEF Init
  <2> QED BY <2>1, HealthInitially
<1>14. part = "redis" => R!Inv
  <2>1. part = "redis" => R!Init
    BY DEF Init
  <2> QED BY <2>1, RedisInitially
<1>15. part \in Parts
  BY DEF Init
<1> QED
  BY <1>1, <1>2, <1>3, <1>4, <1>5, <1>6, <1>7, <1>8, <1>9, <1>10, <1>11, <1>12, <1>13, <1>14,
     <1>15 DEF Inv

\* A step of the platform is one of the part that runs, or leaves its variables alone.
LEMMA PartSteps ==
  ASSUME [Next]_vars
  PROVE  /\ part' = part
         /\ part = "accounts" => [A!Next]_(A!vars)
         /\ part = "guard" => [G!Next]_(G!vars)
         /\ part = "setup" => [U!Next]_(U!vars)
         /\ part = "members" => [M!Next]_(M!vars)
         /\ part = "joins" => [J!Next]_(J!vars)
         /\ part = "domains" => [D!Next]_(D!vars)
         /\ part = "boot" => [I!Next]_(I!vars)
         /\ part = "billing" => [B!Next]_(B!vars)
         /\ part = "files" => [F!Next]_(F!vars)
         /\ part = "buckets" => [K!Next]_(K!vars)
         /\ part = "keys" => [T!Next]_(T!vars)
         /\ part = "organizations" => [O!Next]_(O!vars)
         /\ part = "health" => [H!Next]_(H!vars)
         /\ part = "redis" => [R!Next]_(R!vars)
<1>1. part' = part
  BY DEF Next, Others, vars
<1>2. part = "accounts" => [A!Next]_(A!vars)
  BY DEF Next, vars, accounts, A!vars
<1>3. part = "guard" => [G!Next]_(G!vars)
  BY DEF Next, vars, guard, G!vars
<1>4. part = "setup" => [U!Next]_(U!vars)
  BY DEF Next, vars, setup, U!vars
<1>5. part = "members" => [M!Next]_(M!vars)
  BY DEF Next, vars, membership, M!vars, M!tables, M!ids
<1>6. part = "joins" => [J!Next]_(J!vars)
  BY DEF Next, vars, membership, J!vars, J!tables, J!ids
<1>7. part = "domains" => [D!Next]_(D!vars)
  BY DEF Next, vars, domains, D!vars
<1>8. part = "boot" => [I!Next]_(I!vars)
  BY DEF Next, vars, startup, I!vars
<1>9. part = "billing" => [B!Next]_(B!vars)
  BY DEF Next, vars, billing, B!vars
<1>10. part = "files" => [F!Next]_(F!vars)
  BY DEF Next, vars, storage, F!vars
<1>11. part = "buckets" => [K!Next]_(K!vars)
  BY DEF Next, vars, storage, K!vars
<1>12. part = "keys" => [T!Next]_(T!vars)
  BY DEF Next, vars, keys, T!vars
<1>13. part = "organizations" => [O!Next]_(O!vars)
  BY DEF Next, vars, organizations, O!vars
<1>14. part = "health" => [H!Next]_(H!vars)
  BY DEF Next, vars, health, H!vars
<1>15. part = "redis" => [R!Next]_(R!vars)
  BY DEF Next, vars, redis, R!vars
<1> QED
  BY <1>1, <1>2, <1>3, <1>4, <1>5, <1>6, <1>7, <1>8, <1>9, <1>10, <1>11, <1>12, <1>13, <1>14,
     <1>15

LEMMA NextInv == Inv /\ [Next]_vars => Inv'
<1> SUFFICES ASSUME Inv, [Next]_vars PROVE Inv'
  OBVIOUS
<1>0. part' = part
  BY PartSteps
<1>1. part' = "accounts" => A!Inv'
  <2>1. part = "accounts" => A!Inv /\ [A!Next]_(A!vars)
    BY PartSteps DEF Inv
  <2> QED BY <1>0, <2>1, AccountsEveryStep
<1>2. part' = "guard" => G!Inv'
  <2>1. part = "guard" => G!Inv /\ [G!Next]_(G!vars)
    BY PartSteps DEF Inv
  <2> QED BY <1>0, <2>1, LoginGuardEveryStep
<1>3. part' = "setup" => U!Inv'
  <2>1. part = "setup" => U!Inv /\ [U!Next]_(U!vars)
    BY PartSteps DEF Inv
  <2> QED BY <1>0, <2>1, SetupEveryStep
<1>4. part' = "members" => MembersInv'
  <2>1. part = "members" => MembersInv /\ [M!Next]_(M!vars)
    BY PartSteps DEF Inv
  <2> QED BY <1>0, <2>1, MembersEveryStep
<1>5. part' = "joins" => JoinsInv'
  <2>1. part = "joins" => JoinsInv /\ [J!Next]_(J!vars)
    BY PartSteps DEF Inv
  <2> QED BY <1>0, <2>1, JoinsEveryStep
<1>6. part' = "domains" => D!Inv'
  <2>1. part = "domains" => D!Inv /\ [D!Next]_(D!vars)
    BY PartSteps DEF Inv
  <2> QED BY <1>0, <2>1, DomainsEveryStep
<1>7. part' = "boot" => I!Inv'
  <2>1. part = "boot" => I!Inv /\ [I!Next]_(I!vars)
    BY PartSteps DEF Inv
  <2> QED BY <1>0, <2>1, SystemInitEveryStep
<1>8. part' = "billing" => B!Inv'
  <2>1. part = "billing" => B!Inv /\ [B!Next]_(B!vars)
    BY PartSteps DEF Inv
  <2> QED BY <1>0, <2>1, BillingEveryStep
<1>9. part' = "files" => FilesInv'
  <2>1. part = "files" => FilesInv /\ [F!Next]_(F!vars)
    BY PartSteps DEF Inv
  <2> QED BY <1>0, <2>1, FilesEveryStep
<1>10. part' = "buckets" => BucketsInv'
  <2>1. part = "buckets" => BucketsInv /\ [K!Next]_(K!vars)
    BY PartSteps DEF Inv
  <2> QED BY <1>0, <2>1, BucketsEveryStep
<1>11. part' = "keys" => T!Inv'
  <2>1. part = "keys" => T!Inv /\ [T!Next]_(T!vars)
    BY PartSteps DEF Inv
  <2> QED BY <1>0, <2>1, AccessTokensEveryStep
<1>12. part' = "organizations" => O!Inv'
  <2>1. part = "organizations" => O!Inv /\ [O!Next]_(O!vars)
    BY PartSteps DEF Inv
  <2> QED BY <1>0, <2>1, OrganizationsEveryStep
<1>13. part' = "health" => H!Inv'
  <2>1. part = "health" => H!Inv /\ [H!Next]_(H!vars)
    BY PartSteps DEF Inv
  <2> QED BY <1>0, <2>1, HealthEveryStep
<1>14. part' = "redis" => R!Inv'
  <2>1. part = "redis" => R!Inv /\ [R!Next]_(R!vars)
    BY PartSteps DEF Inv
  <2> QED BY <1>0, <2>1, RedisEveryStep
<1>15. part' \in Parts
  BY <1>0 DEF Inv
<1> QED
  BY <1>1, <1>2, <1>3, <1>4, <1>5, <1>6, <1>7, <1>8, <1>9, <1>10, <1>11, <1>12, <1>13, <1>14,
     <1>15 DEF Inv

-----------------------------------------------------------------------------
(* The properties.                                                         *)

LEMMA InvTypes == Inv => TypeOK
<1> SUFFICES ASSUME Inv PROVE TypeOK
  OBVIOUS
<1>1. part = "accounts" => A!TypeOK
  BY DEF Inv, A!Inv
<1>2. part = "guard" => G!TypeOK
  BY DEF Inv, G!Inv
<1>3. part = "setup" => U!TypeOK
  BY DEF Inv, U!Inv
<1>4. part = "members" => M!TypeOK
  BY MembersSafe DEF Inv
<1>5. part = "joins" => J!TypeOK
  BY JoinsSafe DEF Inv
<1>6. part = "domains" => D!TypeOK
  BY DEF Inv, D!Inv
<1>7. part = "boot" => I!TypeOK
  BY DEF Inv, I!Inv
<1>8. part = "billing" => B!TypeOK
  BY DEF Inv, B!Inv
<1>9. part = "files" => F!TypeOK
  BY FilesSafe DEF Inv
<1>10. part = "buckets" => K!TypeOK
  BY BucketsSafe DEF Inv
<1>11. part = "keys" => T!TypeOK
  BY DEF Inv, T!Inv
<1>12. part = "organizations" => O!TypeOK
  BY DEF Inv, O!Inv
<1>13. part = "health" => H!TypeOK
  BY DEF Inv, H!Inv
<1>14. part = "redis" => R!TypeOK
  BY DEF Inv, R!Inv
<1> QED
  BY <1>1, <1>2, <1>3, <1>4, <1>5, <1>6, <1>7, <1>8, <1>9, <1>10, <1>11, <1>12, <1>13, <1>14
  DEF Inv, TypeOK

\* Every component keeps its types.
THEOREM PlatformTypes == Spec => []TypeOK
  BY InvTypes, InitInv, NextInv, PTL DEF Spec

\* What the READMEs of both modules promise never happens, however requests overlap: a
\* provider's callback the controller let pass finds no state in the service, and a token
\* that was handed out is never accepted.
THEOREM RefusesForGood ==
  Spec => [](/\ part = "accounts" => A!ControllerNeverSignsIn
             /\ part = "keys" => T!HandedOutNeverAccepted)
<1>1. Inv => /\ part = "accounts" => A!ControllerNeverSignsIn
             /\ part = "keys" => T!HandedOutNeverAccepted
  BY AccountsInvSignIn DEF Inv, T!Inv
<1> QED BY <1>1, InitInv, NextInv, PTL DEF Spec

\* A state parameter is accepted once, unless two callbacks read it before either deleted
\* it, and an external account leads to one user, unless two sign-ins with it crossed
\* between search and write.
THEOREM SignsInOnce == Spec => []SignInSound
<1>1. Inv => SignInSound
  BY AccountsInvSignIn DEF Inv, SignInSound
<1> QED BY <1>1, InitInv, NextInv, PTL DEF Spec

\* An account's failures, with the comparisons on their way, stay below the maximum and the
\* number of requests, and an address gets at most one fingerprint comparison more than
\* the limit between two quiet periods.
THEOREM GuessesAreFew == Spec => []GuessingBounded
<1>1. Inv => GuessingBounded
  BY DEF Inv, G!Inv, GuessingBounded
<1> QED BY <1>1, InitInv, NextInv, PTL DEF Spec

\* Between two deletions of SYSTEM_ADMIN setup completes once, however completions overlap,
\* and a token makes one administrator, unless the role was deleted while a request with
\* that token was past its check.
THEOREM SetupHappensOnce == Spec => []OneAdministrator
<1>1. Inv => OneAdministrator
  BY DEF Inv, U!Inv, OneAdministrator
<1> QED BY <1>1, InitInv, NextInv, PTL DEF Spec

\* Whoever overlaps, a row stays linked to the person it invites, as long as nobody
\* completes a registration by its number.
THEOREM RowsKeepTheirPerson ==
  ASSUME "complete" \notin MemberOps \cup JoinOps
  PROVE  Spec => []RightPerson
<1>1. Inv => RightPerson
  BY MembersSafe, JoinsSafe DEF Inv, RightPerson
<1> QED BY <1>1, InitInv, NextInv, PTL DEF Spec

\* A row becomes active only by a request of the person it invites, as long as nobody
\* completes a registration by its number.
THEOREM InviteesActivateRows ==
  ASSUME "complete" \notin MemberOps \cup JoinOps
  PROVE  Spec => OnlyInviteeActivates
<1>1. "complete" \notin MemberOps /\ "complete" \notin JoinOps
  OBVIOUS
<1>2. ASSUME Inv, [Next]_vars
      PROVE  /\ part = "members" => \A i \in M!MemberIds : ~M!Activates(i)
             /\ part = "joins" => \A i \in J!MemberIds : ~J!Activates(i)
  <2>1. part = "members" => \A i \in M!MemberIds : ~M!Activates(i)
    BY <1>1, <1>2, PartSteps, MembersInvitees DEF Inv
  <2>2. part = "joins" => \A i \in J!MemberIds : ~J!Activates(i)
    BY <1>1, <1>2, PartSteps, JoinsInvitees DEF Inv
  <2> QED BY <2>1, <2>2
<1>3. Inv /\ [Next]_vars
      => [/\ part = "members" => \A i \in M!MemberIds : ~M!Activates(i)
          /\ part = "joins" => \A i \in J!MemberIds : ~J!Activates(i)]_vars
  BY <1>2
<1> QED BY <1>3, InitInv, NextInv, PTL DEF Spec, OnlyInviteeActivates

\* A request on a custom host goes to an organization that proved the host, or to the
\* default, however rows and DNS records change beneath it, unless the verification went
\* away while it was in the cache or on its way there.
THEOREM HostsLeadHome == Spec => []RoutesToOwner
<1>1. Inv => RoutesToOwner
  BY DomainsInvRoutesToOwner DEF Inv, RoutesToOwner
<1> QED BY <1>1, InitInv, NextInv, PTL DEF Spec

\* However many instances start and stop together, base roles are complete and there once,
\* unless two instances looked one up before either created it; and the tables they make
\* lack nothing but what PostgreSQL refuses, unless their making was cut short.
THEOREM StartsSoundly == Spec => []StartupSound
<1>1. Inv => StartupSound
  BY SystemInitInvBaseRolesSound DEF Inv, I!Inv, StartupSound
<1> QED BY <1>1, InitInv, NextInv, PTL DEF Spec

\* However plan changes overlap, fail or are repeated, and however admins change the plans
\* meanwhile, what was billed and what the code lets go cover the plan on record.
THEOREM PlansArePaid == Spec => []PaidInFull
<1>1. Inv => PaidInFull
  BY BillingInvPaidInFull DEF Inv, PaidInFull
<1> QED BY <1>1, InitInv, NextInv, PTL DEF Spec

\* A content that was replaced or deleted never comes back, behind any provider.
THEOREM ContentsStayGone == Spec => []NeverReverts
<1>1. Inv => NeverReverts
  BY FilesSafe, BucketsSafe DEF Inv, NeverReverts
<1> QED BY <1>1, InitInv, NextInv, PTL DEF Spec

\* After a deletion no cached answer says the file is there, unless a request that had read
\* it was still to cache its answer, or the invalidation failed.
THEOREM DeletionsAreSeen == Spec => []DeletedIsGone
<1>1. Inv => DeletedIsGone
  BY FilesSafe, BucketsSafe DEF Inv, DeletedIsGone
<1> QED BY <1>1, InitInv, NextInv, PTL DEF Spec

\* Members hold roles of their own organization or of the system, however requests overlap.
THEOREM RolesStayOwn == Spec => []OwnRoles
<1>1. Inv => OwnRoles
  BY DEF Inv, O!Inv, OwnRoles
<1> QED BY <1>1, InitInv, NextInv, PTL DEF Spec

\* An "ok" of the health endpoints is no older than two intervals, but for what is answered
\* while a quick check is going on, and quick checks do not overlap.
THEOREM OksAreFresh == Spec => []OkIsRecent
<1>1. Inv => OkIsRecent
  BY HealthInvOkIsRecent DEF Inv, OkIsRecent
<1> QED BY <1>1, InitInv, NextInv, PTL DEF Spec

\* The Redis client ends, or has a quit waiting, only for a cause: a timer that an outage set
\* is not running any more once the client has connected again.
THEOREM ClosesForCause == Spec => []ClosedForCause
<1>1. Inv => ClosedForCause
  BY DEF Inv, R!Inv, ClosedForCause
<1> QED BY <1>1, InitInv, NextInv, PTL DEF Spec
=============================================================================
