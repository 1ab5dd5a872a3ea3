---------------------------- MODULE FileStorage ----------------------------
(***************************************************************************)
(* The files of one tenant: rows in Postgres, bytes in the blob store, and *)
(* the quotas an upload is checked against (packages/api/src/dependencies, *)
(* packages/core/src/files).                                               *)
(*                                                                         *)
(* An upload reads the limits, then the tenant's usage, then the owner's,  *)
(* stores the blob and inserts the row, each in a statement of its own; it *)
(* deletes the blob again when the insert fails.  A deletion reads the     *)
(* row, deletes it and then the blob.  A server may die between any two of *)
(* these, a call to the blob store may fail, and the answer to an insert   *)
(* that did commit may be lost.                                            *)
(***************************************************************************)
EXTENDS Naturals, FiniteSets, FiniteSetsExt

CONSTANTS
  Files,        \* what uploads may store
  SizeOf,       \* its bytes
  OwnerOf,      \* the user who uploads it
  Uploads,      \* requests that upload
  Removals,     \* requests that delete
  Unlimited,    \* the limit of a tenant without a quota
  TenantLimits, \* values of storageByteLimit
  UserLimits    \* values of defaultUserStorageByteLimit

\* Some file is the largest one, and uploads are finitely many at a time.
ASSUME FilesAssumption ==
  /\ SizeOf \in [Files -> Nat \ {0}]
  /\ \E f \in Files : \A g \in Files : SizeOf[g] <= SizeOf[f]
  /\ IsFiniteSet(Uploads) /\ Uploads # {}
  /\ Unlimited \notin Nat
  /\ TenantLimits \subseteq Nat \cup {Unlimited}
  /\ UserLimits \subseteq Nat \cup {Unlimited}

VARIABLES
  rows,      \* the file_resource rows
  blobs,     \* the files in the blob store
  limits,    \* the quotas of the tenant
  upload,    \* the uploads in flight
  removal,   \* the deletions in flight
  fresh,     \* files nobody has uploaded yet: every upload has a new id
  everLimits, \* history: quotas that have been in force
  abandoned, \* history: blobs that a failure or a death has left behind
  doubted    \* history: files whose insert committed and was reported failed

filesVars ==
  <<rows, blobs, limits, upload, removal, fresh, everLimits, abandoned, doubted>>

-----------------------------------------------------------------------------
Quotas == [tenant : TenantLimits, user : UserLimits]
UploadsInFlight ==
  [pc : {"idle", "tenant", "user", "store", "insert", "cleanup"},
   file : SUBSET Files, quotas : SUBSET Quotas]
RemovalsInFlight == [pc : {"idle", "row", "blob"}, file : SUBSET Files]

NoUpload == [pc |-> "idle", file |-> {}, quotas |-> {}]
NoRemoval == [pc |-> "idle", file |-> {}]

\* getFileStorageUsage of a set of rows.
Usage(S) == MapThenSumSet(LAMBDA f : SizeOf[f], S)

OwnedBy(S, o) == {f \in S : OwnerOf[f] = o}

\* Slip: the incoming bytes are left out.
AlreadyExceeds(current, incoming, limit) ==
  limit # Unlimited /\ current > limit

\* wouldExceedFileStorageQuota.
WouldExceed(current, incoming, limit) ==
  limit # Unlimited /\ current + incoming > limit

FilesInit ==
  /\ rows = {} /\ blobs = {} /\ abandoned = {} /\ doubted = {}
  /\ limits \in Quotas
  /\ everLimits = {limits}
  /\ upload = [r \in Uploads |-> NoUpload]
  /\ removal = [d \in Removals |-> NoRemoval]
  /\ fresh = Files

Reach(r, pc) == upload' = [upload EXCEPT ![r] = [@ EXCEPT !.pc = pc]]

\* updateTenantFileStorageQuotas.
ChangeQuotas(q) ==
  /\ q # limits
  /\ limits' = q
  /\ everLimits' = everLimits \cup {q}
  /\ UNCHANGED <<rows, blobs, upload, removal, fresh, abandoned, doubted>>

\* The upload reads the limits with the tenant.
BeginUpload(r, f) ==
  /\ upload[r].pc = "idle"
  /\ f \in fresh
  /\ fresh' = fresh \ {f}
  /\ upload' = [upload EXCEPT ![r] = [pc |-> "tenant", file |-> {f}, quotas |-> {limits}]]
  /\ UNCHANGED <<rows, blobs, limits, removal, everLimits, abandoned, doubted>>

\* The usage is read only when there is a limit, and refused requests end.
CheckTenantQuota(r) == \E f \in upload[r].file, q \in upload[r].quotas :
  /\ upload[r].pc = "tenant"
  /\ ~WouldExceed(Usage(rows), SizeOf[f], q.tenant)
  /\ Reach(r, "user")
  /\ UNCHANGED <<rows, blobs, limits, removal, fresh, everLimits, abandoned, doubted>>

CheckUserQuota(r) == \E f \in upload[r].file, q \in upload[r].quotas :
  /\ upload[r].pc = "user"
  /\ ~WouldExceed(Usage(OwnedBy(rows, OwnerOf[f])), SizeOf[f], q.user)
  /\ Reach(r, "store")
  /\ UNCHANGED <<rows, blobs, limits, removal, fresh, everLimits, abandoned, doubted>>

StoreBlob(r) ==
  /\ upload[r].pc = "store"
  /\ blobs' = blobs \cup upload[r].file
  /\ Reach(r, "insert")
  /\ UNCHANGED <<rows, limits, removal, fresh, everLimits, abandoned, doubted>>

\* An upload to the store that fails may leave part of the file behind.
StoreFails(r) ==
  /\ upload[r].pc = "store"
  /\ blobs' = blobs \cup upload[r].file
  /\ abandoned' = abandoned \cup upload[r].file
  /\ upload' = [upload EXCEPT ![r] = NoUpload]
  /\ UNCHANGED <<rows, limits, removal, fresh, everLimits, doubted>>

InsertRow(r) ==
  /\ upload[r].pc = "insert"
  /\ rows' = rows \cup upload[r].file
  /\ upload' = [upload EXCEPT ![r] = NoUpload]
  /\ UNCHANGED <<blobs, limits, removal, fresh, everLimits, abandoned, doubted>>

InsertFails(r) ==
  /\ upload[r].pc = "insert"
  /\ Reach(r, "cleanup")
  /\ UNCHANGED <<rows, blobs, limits, removal, fresh, everLimits, abandoned, doubted>>

\* The row is there and the handler is told that it is not.
InsertInDoubt(r) ==
  /\ upload[r].pc = "insert"
  /\ rows' = rows \cup upload[r].file
  /\ doubted' = doubted \cup upload[r].file
  /\ Reach(r, "cleanup")
  /\ UNCHANGED <<blobs, limits, removal, fresh, everLimits, abandoned>>

\* The catch block deletes the blob and throws.
CleanUp(r) ==
  /\ upload[r].pc = "cleanup"
  /\ blobs' = blobs \ upload[r].file
  /\ upload' = [upload EXCEPT ![r] = NoUpload]
  /\ UNCHANGED <<rows, limits, removal, fresh, everLimits, abandoned, doubted>>

\* A refusal, a failed cleanup or a death: the upload ends where it is, and
\* the blob of one that has stored it stays.
AbandonUpload(r) ==
  /\ upload[r].pc # "idle"
  /\ upload' = [upload EXCEPT ![r] = NoUpload]
  /\ abandoned' = IF upload[r].pc \in {"insert", "cleanup"}
                  THEN abandoned \cup upload[r].file ELSE abandoned
  /\ UNCHANGED <<rows, blobs, limits, removal, fresh, everLimits, doubted>>

FindFile(d, f) ==
  /\ removal[d].pc = "idle"
  /\ f \in rows
  /\ removal' = [removal EXCEPT ![d] = [pc |-> "row", file |-> {f}]]
  /\ UNCHANGED <<rows, blobs, limits, upload, fresh, everLimits, abandoned, doubted>>

\* Slip: the blob is deleted first and the row after it.
DeleteBlobFirst(d) ==
  /\ removal[d].pc = "row"
  /\ blobs' = blobs \ removal[d].file
  /\ removal' = [removal EXCEPT ![d] = [@ EXCEPT !.pc = "blob"]]
  /\ UNCHANGED <<rows, limits, upload, fresh, everLimits, abandoned, doubted>>

\* deleteFileResourceForOwner; a request that finds no row any more ends.
DeleteRow(d) ==
  /\ removal[d].pc = "row"
  /\ rows' = rows \ removal[d].file
  /\ removal' = [removal EXCEPT ![d] =
       IF removal[d].file \subseteq rows THEN [@ EXCEPT !.pc = "blob"] ELSE NoRemoval]
  /\ UNCHANGED <<blobs, limits, upload, fresh, everLimits, abandoned, doubted>>

DeleteBlob(d) ==
  /\ removal[d].pc = "blob"
  /\ blobs' = blobs \ removal[d].file
  /\ removal' = [removal EXCEPT ![d] = NoRemoval]
  /\ UNCHANGED <<rows, limits, upload, fresh, everLimits, abandoned, doubted>>

AbandonRemoval(d) ==
  /\ removal[d].pc # "idle"
  /\ removal' = [removal EXCEPT ![d] = NoRemoval]
  /\ abandoned' = IF removal[d].pc = "blob"
                  THEN abandoned \cup removal[d].file ELSE abandoned
  /\ UNCHANGED <<rows, blobs, limits, upload, fresh, everLimits, doubted>>

FilesNext ==
  \/ \E q \in Quotas : ChangeQuotas(q)
  \/ \E r \in Uploads, f \in Files : BeginUpload(r, f)
  \/ \E r \in Uploads :
       \/ CheckTenantQuota(r) \/ CheckUserQuota(r)
       \/ StoreBlob(r) \/ StoreFails(r)
       \/ InsertRow(r) \/ InsertFails(r) \/ InsertInDoubt(r)
       \/ CleanUp(r) \/ AbandonUpload(r)
  \/ \E d \in Removals, f \in Files : FindFile(d, f)
  \/ \E d \in Removals : DeleteRow(d) \/ DeleteBlob(d) \/ AbandonRemoval(d)

FilesSpec == FilesInit /\ [][FilesNext]_filesVars

-----------------------------------------------------------------------------
(* Properties.                                                             *)

\* Every table and every request has its type.
FilesTypeOK ==
  /\ rows \subseteq Files /\ blobs \subseteq Files /\ fresh \subseteq Files
  /\ limits \in Quotas
  /\ upload \in [Uploads -> UploadsInFlight]
  /\ removal \in [Removals -> RemovalsInFlight]
  /\ everLimits \subseteq Quotas
  /\ abandoned \subseteq Files /\ doubted \subseteq Files

\* A row can be downloaded: its bytes are in the store, whatever uploads,
\* deletions, failures and deaths overlap.  The one exception is an insert
\* that committed and was reported failed: the handler then deletes the bytes
\* of a row that stays.
RowsHaveBlobs == rows \subseteq blobs \cup doubted

\* Who still has to give a blob its row, or to delete it.
Pending ==
  (UNION {upload[r].file : r \in {q \in Uploads : upload[q].pc \in {"insert", "cleanup"}}})
    \cup (UNION {removal[d].file : d \in {e \in Removals : removal[e].pc = "blob"}})

\* A blob without a row is on its way to one, or about to be deleted, or was
\* left by a failure or a death: no order of the handlers' steps leaks one.
OrphansExplained == blobs \subseteq rows \cup Pending \cup abandoned

\* The table and the store agree but for what is under way and what is known
\* to go wrong.
StoreAgrees == RowsHaveBlobs /\ OrphansExplained

\* The largest file, the most that one upload in flight can add.
LargestFile == Max({SizeOf[f] : f \in Files})

WithinUpTo(usage, limit) ==
  limit = Unlimited \/ usage <= limit + (Cardinality(Uploads) - 1) * LargestFile

\* Quotas are checked before the upload, so uploads at the same time exceed
\* them together, but by no more than what all of them but one bring.
QuotaOvershootBounded ==
  /\ \E q \in everLimits : WithinUpTo(Usage(rows), q.tenant)
  /\ \A f \in rows :
       \E q \in everLimits : WithinUpTo(Usage(OwnedBy(rows, OwnerOf[f])), q.user)
=============================================================================
