---------------------------- MODULE UploadStore ----------------------------
(***************************************************************************)
(* UploadStore: the index of the files the server holds for the PCs, the   *)
(* quota account under the reservation mutex, the per-pairing semaphores,  *)
(* and the upload directory.  The index is a concurrent map and the        *)
(* account is behind a mutex of its own, so "remove the entry, then give   *)
(* the quota back, then delete the file" is three steps here as there.     *)
(***************************************************************************)
EXTENDS Naturals, FiniteSets, FiniteSetsExt

CONSTANTS
  Files,         \* file ids: one per upload request, never reused
  Pairings,      \* pairing ids
  NoFile,        \* no file
  Nil,           \* Uuid::nil(), the owner of files found on disk at start
  MaxUploadSize, \* max_upload_size_bytes
  MaxPerPairing, \* max_pending_upload_files_per_pairing
  MaxFiles,      \* max_pending_upload_files_global
  MaxBytes,      \* max_pending_upload_bytes_global
  MaxStreams     \* max_concurrent_http_stream_uploads_per_pairing

ASSUME FilesAssumption == IsFiniteSet(Files)
ASSUME NoFileAssumption == NoFile \notin Files
ASSUME NilAssumption == Nil \notin Pairings
ASSUME LimitsAssumption ==
  {MaxUploadSize, MaxPerPairing, MaxFiles, MaxBytes, MaxStreams} \subseteq Nat

VARIABLES
  status,       \* FileMeta.status, "absent" without an entry in files; the
                \* other two are Nil and 0 then
  owner,        \* FileMeta.pairing_id
  size          \* FileMeta.size_bytes

VARIABLES       \* ReservationState
  reserved,     \* PairingState.file_ids
  pendingCount, \* PairingState.pending_count
  closed,       \* the pairings whose PairingState.closed is set
  pendingFiles, \* global_pending_files
  pendingBytes, \* global_pending_bytes
  owed          \* the release calls due after an entry has been removed

VARIABLES
  semaphores,   \* the semaphore in the map for a pairing; a semaphore is
                \* named by the upload it was made for
  semaphore,    \* the semaphore the handler of an upload has looked up
  permits,      \* the holders of the permits of a semaphore
  channels,     \* the files with a StreamingState or a StreamPipe
  disk,         \* what the upload directory has of a file
  written,      \* the size of the file that has its final name, else 0
  expired,      \* its mtime is older than upload_file_retention_secs
  deleting      \* the files whose deletion from disk has been spawned

indexVars == <<status, owner, size>>
accountVars == <<reserved, pendingCount, closed, pendingFiles, pendingBytes>>
permitVars == <<semaphores, semaphore, permits>>
diskVars == <<disk, written, expired, deleting>>
storeVars == <<indexVars, accountVars, owed, permitVars, channels, diskVars>>

-----------------------------------------------------------------------------
Owners == Pairings \cup {Nil}
Status == {"absent", "Uploading", "StoredUnnotified", "Notifying", "Notified"}
Debt == [file : Files, owner : Owners, amount : Nat, delete : BOOLEAN]

StoreTypeOK ==
  /\ status \in [Files -> Status]
  /\ owner \in [Files -> Owners]
  /\ size \in [Files -> 0..MaxUploadSize]
  /\ reserved \in [Owners -> SUBSET Files]
  /\ pendingCount \in [Owners -> Nat]
  /\ closed \in SUBSET Pairings
  /\ pendingFiles \in Nat
  /\ owed \in SUBSET Debt
  /\ semaphores \in [Owners -> Files \cup {NoFile}]
  /\ semaphore \in [Files -> Files \cup {NoFile}]
  /\ permits \in [Files -> SUBSET Files]
  /\ channels \in SUBSET Files
  /\ disk \in [Files -> {"none", "tmp", "final"}]
  /\ written \in [Files -> 0..MaxUploadSize]
  /\ expired \in SUBSET Files
  /\ deleting \in SUBSET Files

StoreInit ==
  /\ status = [f \in Files |-> "absent"]
  /\ owner = [f \in Files |-> Nil]
  /\ size = [f \in Files |-> 0]
  /\ reserved = [p \in Owners |-> {}]
  /\ pendingCount = [p \in Owners |-> 0]
  /\ closed = {}
  /\ pendingFiles = 0
  /\ pendingBytes = 0
  /\ owed = {}
  /\ semaphores = [p \in Owners |-> NoFile]
  /\ semaphore = [f \in Files |-> NoFile]
  /\ permits = [s \in Files |-> {}]
  /\ channels = {}
  /\ disk = [f \in Files |-> "none"]
  /\ written = [f \in Files |-> 0]
  /\ expired = {}
  /\ deleting = {}

-----------------------------------------------------------------------------
Monus(a, b) == IF a >= b THEN a - b ELSE 0

(* Bug: the file to come is not counted.                                   *)
AdmitsWhileRoom(p) ==
  /\ p \notin closed
  /\ pendingCount[p] < MaxPerPairing
  /\ pendingFiles < MaxFiles
  /\ pendingBytes <= MaxBytes

(* The quota check of begin_upload.                                        *)
Admits(p) ==
  /\ p \notin closed
  /\ pendingCount[p] < MaxPerPairing
  /\ pendingFiles < MaxFiles
  /\ pendingBytes + MaxUploadSize <= MaxBytes

Reserve(f, p, amount) ==
  /\ reserved' = [reserved EXCEPT ![p] = @ \cup {f}]
  /\ pendingCount' = [pendingCount EXCEPT ![p] = @ + 1]
  /\ pendingFiles' = pendingFiles + 1
  /\ pendingBytes' = pendingBytes + amount
  /\ UNCHANGED closed

(* Bug: the global file count is left as it is.                            *)
ReleasePairingOnly(f, p, amount) ==
  IF f \in reserved[p]
    THEN /\ reserved' = [reserved EXCEPT ![p] = @ \ {f}]
         /\ pendingCount' = [pendingCount EXCEPT ![p] = Monus(@, 1)]
         /\ pendingBytes' = Monus(pendingBytes, amount)
         /\ UNCHANGED <<closed, pendingFiles>>
    ELSE UNCHANGED accountVars

(* A file that is not in the account of p is not released again.           *)
Release(f, p, amount) ==
  IF f \in reserved[p]
    THEN /\ reserved' = [reserved EXCEPT ![p] = @ \ {f}]
         /\ pendingCount' = [pendingCount EXCEPT ![p] = Monus(@, 1)]
         /\ pendingFiles' = Monus(pendingFiles, 1)
         /\ pendingBytes' = Monus(pendingBytes, amount)
         /\ UNCHANGED closed
    ELSE UNCHANGED accountVars

(* begin_upload once the quota check has passed: check, entry and          *)
(* reservation are one critical section.                                   *)
BeginUpload(f, p) ==
  /\ Admits(p)
  /\ status' = [status EXCEPT ![f] = "Uploading"]
  /\ owner' = [owner EXCEPT ![f] = p]
  /\ size' = [size EXCEPT ![f] = MaxUploadSize]
  /\ Reserve(f, p, MaxUploadSize)

(* files.remove(f)                                                         *)
Unindex(f) ==
  /\ status' = [status EXCEPT ![f] = "absent"]
  /\ owner' = [owner EXCEPT ![f] = Nil]
  /\ size' = [size EXCEPT ![f] = 0]

(* Bug: the caller is left to release the quota.                           *)
RemoveEntryUnpaid(f, delete) ==
  IF status[f] # "absent"
    THEN Unindex(f) /\ UNCHANGED owed
    ELSE UNCHANGED <<indexVars, owed>>

(* Bug: the file stays on disk.                                            *)
RemoveEntryOnly(f, delete) ==
  IF status[f] # "absent"
    THEN /\ Unindex(f)
         /\ owed' = owed \cup {[file |-> f, owner |-> owner[f],
                                amount |-> size[f], delete |-> FALSE]}
    ELSE UNCHANGED <<indexVars, owed>>

(* Bug: released and deleted, but still in the index.                      *)
RemoveFileOnly(f, delete) ==
  IF status[f] # "absent"
    THEN /\ owed' = owed \cup {[file |-> f, owner |-> owner[f],
                                amount |-> size[f], delete |-> delete]}
         /\ UNCHANGED indexVars
    ELSE UNCHANGED <<indexVars, owed>>

(* files.remove(f) with the release, and for some the deletion, to follow. *)
RemoveEntry(f, delete) ==
  IF status[f] # "absent"
    THEN /\ Unindex(f)
         /\ owed' = owed \cup {[file |-> f, owner |-> owner[f],
                                amount |-> size[f], delete |-> delete]}
    ELSE UNCHANGED <<indexVars, owed>>

(* rollback_upload: a missing entry is released at its largest size.       *)
RollbackUpload(f, p) ==
  /\ channels' = channels \ {f}
  /\ Unindex(f)
  /\ owed' = owed \cup
       {[file |-> f, owner |-> p, delete |-> FALSE,
         amount |-> IF status[f] = "absent" THEN MaxUploadSize ELSE size[f]]}

(* What follows a removal: the release, then the deletion if one is due.   *)
PayDebt(debt) ==
  /\ owed' = owed \ {debt}
  /\ Release(debt.file, debt.owner, debt.amount)
  /\ deleting' = IF debt.delete THEN deleting \cup {debt.file} ELSE deleting

(* Bug: the pessimistic reservation is not corrected.                      *)
ReservationKept(f) == pendingBytes

(* correct_bytes: the reservation becomes the size of the stored file.     *)
CorrectedBytes(f) ==
  IF written[f] > size[f]
    THEN pendingBytes + (written[f] - size[f])
    ELSE Monus(pendingBytes, size[f] - written[f])

(* An upload is complete: the entry takes its final size and status.       *)
Store(f, newStatus) ==
  IF status[f] # "absent"
    THEN /\ status' = [status EXCEPT ![f] = newStatus]
         /\ size' = [size EXCEPT ![f] = written[f]]
         /\ pendingBytes' = CorrectedBytes(f)
         /\ UNCHANGED <<owner, reserved, pendingCount, closed, pendingFiles>>
    ELSE UNCHANGED <<indexVars, accountVars>>

(* Bug: the chunk that takes the body over the limit is still written.     *)
BodySizesOneOver == 0..(MaxUploadSize + 1)

(* What may arrive before the body counts as too large.                    *)
BodySizes == 0..MaxUploadSize

(* Bug: a pairing closed meanwhile does not stop the notification.         *)
MayNotifyClosed(f) == status[f] = "StoredUnnotified"

(* begin_notifying checks both under the reservation lock.                 *)
MayNotify(f) == owner[f] \notin closed /\ status[f] = "StoredUnnotified"

EraseFile(f) ==
  /\ disk' = [disk EXCEPT ![f] = "none"]
  /\ written' = [written EXCEPT ![f] = 0]

(* Bug: a closed pairing gets a new semaphore like any other.               *)
SemaphoreForAll(f, p) == IF semaphores[p] = NoFile THEN f ELSE semaphores[p]

(* The semaphore upload f finds or makes for p: none once p is closed.     *)
SemaphoreFor(f, p) ==
  IF p \in closed THEN NoFile
  ELSE IF semaphores[p] = NoFile THEN f
  ELSE semaphores[p]

-----------------------------------------------------------------------------
(* The entries rebuild_baseline makes of the upload directory.             *)
Found == {f \in Files : disk[f] = "final" /\ f \notin expired}

Baseline ==
  /\ status' = [f \in Files |-> IF f \in Found THEN "StoredUnnotified" ELSE "absent"]
  /\ owner' = [f \in Files |-> Nil]
  /\ size' = [f \in Files |-> IF f \in Found THEN written[f] ELSE 0]
  /\ reserved' = [p \in Owners |-> IF p = Nil THEN Found ELSE {}]
  /\ pendingCount' = [p \in Owners |-> IF p = Nil THEN Cardinality(Found) ELSE 0]
  /\ closed' = {}
  /\ pendingFiles' = Cardinality(Found)
  /\ pendingBytes' = SumFunctionOnSet(written, Found)
  /\ owed' = {}
  /\ semaphores' = [p \in Owners |-> NoFile]
  /\ semaphore' = [f \in Files |-> NoFile]
  /\ permits' = [s \in Files |-> {}]
  /\ channels' = {}
  /\ deleting' = {}
  /\ UNCHANGED <<disk, written, expired>>
=============================================================================
