-------------------------- MODULE UploadLifecycle --------------------------
(***************************************************************************)
(* The life of the uploaded files: the upload handlers of the phones, the  *)
(* downloads and acknowledgements of the PCs, the clean-up of a removed    *)
(* pairing, the sweep of the upload directory, and the restart of the      *)
(* server.  Whether a PC has an event stream when a handler looks for one, *)
(* and whether a send on it succeeds, is the choice of the environment;    *)
(* so is an I/O error, a timeout or an oversized body while the file is    *)
(* received.  What a transfer to the PC does with the single frames is not *)
(* modelled here, only whether the PC ends up with the whole file.         *)
(***************************************************************************)
EXTENDS UploadStore

CONSTANTS
  MaxExpired,   \* bound: files whose retention time runs out
  MaxDrops,     \* bound: handlers dropped with the phone's connection
  MaxRestarts   \* bound: restarts of the server

ASSUME BoundsAssumption == {MaxExpired, MaxDrops, MaxRestarts} \subseteq Nat

VARIABLES
  pc,           \* where the handler of an upload is
  pairing,      \* the pairing the upload is for
  mode,         \* UploadDispatchMode
  broken,       \* uploads whose stream_aborted / streaming_aborted is set
  announced,    \* files the PC has been sent a FileReceived event for
  complete,     \* files the PC has got whole
  cleaning,     \* the pairing cleanup_pairing runs for, Nil if none
  todo,         \* its file_ids_snapshot, as far as it is still to be checked
  doomed,       \* a file whose should_remove is true, NoFile if none
  sweeping,     \* the file cleanup_expired is at, NoFile if none
  sweepPath,    \* the path of it that the directory scan returned
  swept,        \* that path has been deleted
  drops, restarts

handlerVars == <<pc, pairing, mode, broken>>
clientVars == <<announced, complete>>
cleanerVars == <<cleaning, todo, doomed>>
sweeperVars == <<sweeping, sweepPath, swept>>
boundVars == <<drops, restarts>>
vars == <<storeVars, handlerVars, clientVars, cleanerVars, sweeperVars, boundVars>>

-----------------------------------------------------------------------------
Mode == {"HttpStreaming", "Streaming", "Relay"}

(* "stored" and "failed": the phone has its answer; "dropped" and "lost":  *)
(* it never gets one, because its connection or the server has gone.       *)
Ended == {"stored", "failed", "dropped", "lost"}
Stage == {"idle", "permit", "acquire", "announce", "create", "receive", "rollback",
          "commit", "finish", "discard", "meta", "notify", "push", "mark",
          "unsent"} \cup Ended

UploadTypeOK ==
  /\ StoreTypeOK
  /\ pc \in [Files -> Stage]
  /\ pairing \in [Files -> Owners]
  /\ mode \in [Files -> Mode]
  /\ broken \in SUBSET Files
  /\ announced \in SUBSET Files
  /\ complete \in SUBSET Files
  /\ cleaning \in Owners
  /\ todo \in SUBSET Files
  /\ doomed \in Files \cup {NoFile}
  /\ sweeping \in Files \cup {NoFile}
  /\ sweepPath \in {"none", "tmp", "final"}
  /\ swept \in BOOLEAN
  /\ drops \in Nat
  /\ restarts \in Nat

Init ==
  /\ StoreInit
  /\ pc = [f \in Files |-> "idle"]
  /\ pairing = [f \in Files |-> Nil]
  /\ mode = [f \in Files |-> "Relay"]
  /\ broken = {}
  /\ announced = {}
  /\ complete = {}
  /\ cleaning = Nil
  /\ todo = {}
  /\ doomed = NoFile
  /\ sweeping = NoFile
  /\ sweepPath = "none"
  /\ swept = FALSE
  /\ drops = 0
  /\ restarts = 0

-----------------------------------------------------------------------------
(* The upload handler.                                                     *)

Goto(f, stage) == pc' = [pc EXCEPT ![f] = stage]

(* The handler ends: an OwnedSemaphorePermit it holds is returned to its    *)
(* semaphore, in the map or not.                                           *)
ReturnPermit(f) ==
  /\ permits' = [s \in Files |-> permits[s] \ {f}]
  /\ semaphore' = [semaphore EXCEPT ![f] = NoFile]
  /\ UNCHANGED semaphores

(* handle_upload: quota, then the mode by the PC's stream, if it has one.  *)
(* A refused request leaves nothing behind and is not a step.              *)
StartUpload(f, p) ==
  /\ pc[f] = "idle"
  /\ BeginUpload(f, p)
  /\ pairing' = [pairing EXCEPT ![f] = p]
  /\ \E m \in Mode :
       /\ mode' = [mode EXCEPT ![f] = m]
       /\ Goto(f, CASE m = "HttpStreaming" -> "permit"
                    [] m = "Streaming" -> "announce"
                    [] m = "Relay" -> "create")
       /\ channels' = IF m = "Streaming" THEN channels \cup {f} ELSE channels
  /\ UNCHANGED <<owed, permitVars, diskVars, broken, clientVars, cleanerVars,
                 sweeperVars, boundVars>>

(* try_acquire_stream_permit, under the reservation lock: the pairing's     *)
(* semaphore.  The 429 answer leaves the entry and its reservation as they *)
(* are.                                                                    *)
FindSemaphore(f) ==
  /\ pc[f] = "permit"
  /\ LET s == SemaphoreFor(f, pairing[f]) IN
       IF s # NoFile
         THEN /\ semaphores' = [semaphores EXCEPT ![pairing[f]] = s]
              /\ semaphore' = [semaphore EXCEPT ![f] = s]
              /\ Goto(f, "acquire")
         ELSE /\ Goto(f, "failed")
              /\ UNCHANGED <<semaphores, semaphore>>
  /\ UNCHANGED <<indexVars, accountVars, owed, permits, channels, diskVars, pairing,
                 mode, broken, clientVars, cleanerVars, sweeperVars, boundVars>>

(* Its last line, without the lock: the pairing may be closed and the      *)
(* semaphore out of the map by now.                                        *)
AcquirePermit(f) ==
  /\ pc[f] = "acquire"
  /\ IF Cardinality(permits[semaphore[f]]) < MaxStreams
       THEN /\ permits' = [permits EXCEPT ![semaphore[f]] = @ \cup {f}]
            /\ channels' = channels \cup {f}
            /\ Goto(f, "announce")
            /\ UNCHANGED semaphore
       ELSE /\ Goto(f, "failed")
            /\ semaphore' = [semaphore EXCEPT ![f] = NoFile]
            /\ UNCHANGED <<permits, channels>>
  /\ UNCHANGED <<indexVars, accountVars, owed, semaphores, diskVars, pairing, mode,
                 broken, clientVars, cleanerVars, sweeperVars, boundVars>>

Announce(f) ==
  /\ pc[f] = "announce"
  /\ \/ /\ announced' = announced \cup {f}
        /\ Goto(f, "create")
        /\ UNCHANGED channels
     \/ /\ channels' = channels \ {f}
        /\ Goto(f, "rollback")
        /\ UNCHANGED announced
  /\ UNCHANGED <<indexVars, accountVars, owed, permitVars, diskVars, pairing, mode,
                 broken, complete, cleanerVars, sweeperVars, boundVars>>

CreateFile(f) ==
  /\ pc[f] = "create"
  /\ disk' = [disk EXCEPT ![f] = "tmp"]
  /\ Goto(f, "receive")
  /\ UNCHANGED <<indexVars, accountVars, owed, permitVars, channels, written,
                 expired, deleting, pairing, mode, broken, clientVars,
                 cleanerVars, sweeperVars, boundVars>>

(* A chunk cannot be passed on to the PC: the upload goes on without it.   *)
BreakStream(f) ==
  /\ pc[f] = "receive"
  /\ mode[f] # "Relay"
  /\ f \notin broken
  /\ broken' = broken \cup {f}
  /\ channels' = IF mode[f] = "HttpStreaming" THEN channels \ {f} ELSE channels
  /\ UNCHANGED <<indexVars, accountVars, owed, permitVars, diskVars, pc, pairing,
                 mode, clientVars, cleanerVars, sweeperVars, boundVars>>

(* Create, read, write, flush or rename fails, the body is too large or    *)
(* its next chunk takes too long.                                          *)
FailReceive(f) ==
  /\ pc[f] \in {"create", "receive"}
  /\ disk' = [disk EXCEPT ![f] = "none"]
  /\ channels' = IF mode[f] = "HttpStreaming" THEN channels \ {f} ELSE channels
  /\ Goto(f, "rollback")
  /\ UNCHANGED <<indexVars, accountVars, owed, permitVars, written, expired,
                 deleting, pairing, mode, broken, clientVars, cleanerVars,
                 sweeperVars, boundVars>>

(* The whole body is on disk and has been renamed to its final name.       *)
RenameFile(f) ==
  /\ pc[f] = "receive"
  /\ disk[f] = "tmp"
  /\ disk' = [disk EXCEPT ![f] = "final"]
  /\ \E n \in BodySizes : written' = [written EXCEPT ![f] = n]
  /\ Goto(f, "commit")
  /\ UNCHANGED <<indexVars, accountVars, owed, permitVars, channels, expired,
                 deleting, pairing, mode, broken, clientVars, cleanerVars,
                 sweeperVars, boundVars>>

Rollback(f) ==
  /\ pc[f] = "rollback"
  /\ RollbackUpload(f, pairing[f])
  /\ Goto(f, "failed")
  /\ ReturnPermit(f)
  /\ UNCHANGED <<accountVars, diskVars, pairing, mode, broken, clientVars,
                 cleanerVars, sweeperVars, boundVars>>

(* finalize_stream_success                                                 *)
FinalizeStream(f) ==
  /\ pc[f] = "commit"
  /\ mode[f] = "HttpStreaming"
  /\ Store(f, IF owner[f] \in closed THEN "StoredUnnotified" ELSE "Notified")
  /\ channels' = channels \ {f}
  /\ Goto(f, "finish")
  /\ UNCHANGED <<owed, permitVars, diskVars, pairing, mode, broken, clientVars,
                 cleanerVars, sweeperVars, boundVars>>

MarkStreamingDone(f) ==
  /\ pc[f] = "commit"
  /\ mode[f] = "Streaming"
  /\ Store(f, "Notified")
  /\ Goto(f, "finish")
  /\ UNCHANGED <<owed, permitVars, channels, diskVars, pairing, mode, broken,
                 clientVars, cleanerVars, sweeperVars, boundVars>>

(* The last frame: if none was lost and it arrives, the PC has the file.   *)
FinishStream(f) ==
  /\ pc[f] = "finish"
  /\ \/ UNCHANGED complete
     \/ /\ f \notin broken
        /\ mode[f] = "HttpStreaming" \/ f \in channels
        /\ complete' = complete \cup {f}
  /\ Goto(f, "stored")
  /\ ReturnPermit(f)
  /\ UNCHANGED <<indexVars, accountVars, owed, channels, diskVars, pairing, mode,
                 broken, announced, cleanerVars, sweeperVars, boundVars>>

(* save_file_from_field, last part: a file for a closed pairing is taken   *)
(* out again and released under the same lock.                             *)
SaveFile(f) ==
  /\ pc[f] = "commit"
  /\ mode[f] = "Relay"
  /\ IF pairing[f] \in closed
       THEN /\ Unindex(f)
            /\ Release(f, pairing[f],
                       IF status[f] = "absent" THEN MaxUploadSize ELSE size[f])
            /\ Goto(f, "discard")
       ELSE /\ Store(f, "StoredUnnotified")
            /\ Goto(f, "meta")
  /\ UNCHANGED <<owed, permitVars, channels, diskVars, pairing, mode, broken,
                 clientVars, cleanerVars, sweeperVars, boundVars>>

Discard(f) ==
  /\ pc[f] = "discard"
  /\ EraseFile(f)
  /\ Goto(f, "failed")
  /\ UNCHANGED <<indexVars, accountVars, owed, permitVars, channels, expired,
                 deleting, pairing, mode, broken, clientVars,
                 cleanerVars, sweeperVars, boundVars>>

ReadMeta(f) ==
  /\ pc[f] = "meta"
  /\ Goto(f, IF status[f] = "absent" THEN "failed" ELSE "notify")
  /\ UNCHANGED <<storeVars, pairing, mode, broken, clientVars, cleanerVars,
                 sweeperVars, boundVars>>

BeginNotifying(f) ==
  /\ pc[f] = "notify"
  /\ IF MayNotify(f)
       THEN /\ status' = [status EXCEPT ![f] = "Notifying"]
            /\ Goto(f, "push")
       ELSE /\ Goto(f, "stored")
            /\ UNCHANGED status
  /\ UNCHANGED <<owner, size, accountVars, owed, permitVars, channels, diskVars,
                 pairing, mode, broken, clientVars, cleanerVars, sweeperVars,
                 boundVars>>

(* Without an event stream, as when the send on it fails, the file goes.   *)
Push(f) ==
  /\ pc[f] = "push"
  /\ \/ /\ announced' = announced \cup {f}
        /\ Goto(f, "mark")
     \/ /\ Goto(f, "unsent")
        /\ UNCHANGED announced
  /\ UNCHANGED <<storeVars, pairing, mode, broken, complete, cleanerVars,
                 sweeperVars, boundVars>>

MarkNotified(f) ==
  /\ pc[f] = "mark"
  /\ status' = [status EXCEPT ![f] = IF @ = "Notifying" THEN "Notified" ELSE @]
  /\ Goto(f, "stored")
  /\ UNCHANGED <<owner, size, accountVars, owed, permitVars, channels, diskVars,
                 pairing, mode, broken, clientVars, cleanerVars, sweeperVars,
                 boundVars>>

MarkNotifyFailed(f) ==
  /\ pc[f] = "unsent"
  /\ RemoveEntry(f, TRUE)
  /\ Goto(f, "stored")
  /\ UNCHANGED <<accountVars, permitVars, channels, diskVars, pairing, mode, broken,
                 clientVars, cleanerVars, sweeperVars, boundVars>>

(* The phone's connection goes while the handler awaits something: its     *)
(* future is dropped, and runs no rollback.  After a failed FileReceived   *)
(* event there is nothing to await before the rollback.                    *)
DropHandler(f) ==
  /\ drops < MaxDrops
  /\ \/ pc[f] \in {"announce", "create", "receive", "commit", "finish", "push", "discard"}
     \/ pc[f] = "rollback" /\ (mode[f] = "Relay" \/ f \in announced)
  /\ drops' = drops + 1
  /\ Goto(f, "dropped")
  /\ ReturnPermit(f)
  /\ UNCHANGED <<indexVars, accountVars, owed, channels, diskVars, pairing, mode,
                 broken, clientVars, cleanerVars, sweeperVars, restarts>>

-----------------------------------------------------------------------------
(* The PC.  Only an event of this server run carries a token the entry     *)
(* still has: rebuild_baseline gives its entries another one.              *)
TokenFits(f) == f \in announced /\ status[f] # "absent" /\ owner[f] # Nil

(* handle_file_download; the path is empty as long as the file is received.*)
Download(f) ==
  /\ TokenFits(f)
  /\ status[f] # "Uploading"
  /\ disk[f] = "final"
  /\ complete' = complete \cup {f}
  /\ UNCHANGED <<storeVars, handlerVars, announced, cleanerVars, sweeperVars,
                 boundVars>>

(* The StreamFile call of the PC ends, and its StreamingStateGuard with it.*)
EndStreamFile(f) ==
  /\ TokenFits(f)
  /\ mode[f] = "Streaming"
  /\ f \in channels
  /\ channels' = channels \ {f}
  /\ UNCHANGED <<indexVars, accountVars, owed, permitVars, diskVars, handlerVars,
                 clientVars, cleanerVars, sweeperVars, boundVars>>

(* handle_file_ack with success = true; remove_file.  The StreamPipe of a  *)
(* file the PC has whole is gone already.                                  *)
Acknowledge(f) ==
  /\ TokenFits(f)
  /\ f \in complete
  /\ channels' = channels \ {f}
  /\ RemoveEntry(f, TRUE)
  /\ UNCHANGED <<accountVars, permitVars, diskVars, handlerVars, clientVars,
                 cleanerVars, sweeperVars, boundVars>>

-----------------------------------------------------------------------------
(* A thread that has removed an entry goes on with the release.            *)
PayOwed ==
  /\ \E debt \in owed : PayDebt(debt)
  /\ UNCHANGED <<indexVars, permitVars, channels, disk, written, expired,
                 handlerVars, clientVars, cleanerVars, sweeperVars, boundVars>>

DeleteFile(f) ==
  /\ f \in deleting
  /\ deleting' = deleting \ {f}
  /\ EraseFile(f)
  /\ UNCHANGED <<indexVars, accountVars, owed, permitVars, channels, expired,
                 handlerVars, clientVars, cleanerVars, sweeperVars,
                 boundVars>>

(* cleanup_pairing: the flag and the snapshot, each file, the semaphore.   *)
ClosePairing(p) ==
  /\ cleaning = Nil
  /\ cleaning' = p
  /\ closed' = closed \cup {p}
  /\ todo' = reserved[p]
  /\ UNCHANGED <<indexVars, reserved, pendingCount, pendingFiles, pendingBytes,
                 owed, permitVars, channels, diskVars, handlerVars, clientVars,
                 doomed, sweeperVars, boundVars>>

CheckFile(f) ==
  /\ doomed = NoFile
  /\ f \in todo
  /\ todo' = todo \ {f}
  /\ doomed' = IF status[f] = "StoredUnnotified" THEN f ELSE NoFile
  /\ UNCHANGED <<storeVars, handlerVars, clientVars, cleaning, sweeperVars,
                 boundVars>>

(* The release names the pairing being cleaned up, which is the owner of   *)
(* every file in its list.                                                 *)
RemoveDoomed ==
  /\ doomed # NoFile
  /\ doomed' = NoFile
  /\ RemoveEntry(doomed, TRUE)
  /\ UNCHANGED <<accountVars, permitVars, channels, diskVars, handlerVars,
                 clientVars, cleaning, todo, sweeperVars, boundVars>>

DropSemaphore ==
  /\ cleaning # Nil
  /\ todo = {} /\ doomed = NoFile
  /\ cleaning' = Nil
  /\ semaphores' = [semaphores EXCEPT ![cleaning] = NoFile]
  /\ UNCHANGED <<indexVars, accountVars, owed, semaphore, permits, channels, diskVars,
                 handlerVars, clientVars, todo, doomed, sweeperVars, boundVars>>

-----------------------------------------------------------------------------
(* The retention time of a file runs out.                                  *)
Expire(f) ==
  /\ disk[f] # "none"
  /\ f \notin expired
  /\ Cardinality(expired) < MaxExpired
  /\ expired' = expired \cup {f}
  /\ UNCHANGED <<indexVars, accountVars, owed, permitVars, channels, disk, written,
                 deleting, handlerVars, clientVars, cleanerVars, sweeperVars,
                 boundVars>>

(* Bug: only a file the PC has been told of is swept.                      *)
SweepableNotified(f) == f \in expired /\ status[f] = "Notified"

Sweepable(f) == f \in expired /\ status[f] # "Uploading"

(* cleanup_expired: a path of the directory, its file, its entry.          *)
SweepPath(f) ==
  /\ sweeping = NoFile
  /\ disk[f] # "none"
  /\ Sweepable(f)
  /\ sweeping' = f
  /\ sweepPath' = disk[f]
  /\ UNCHANGED <<storeVars, handlerVars, clientVars, cleanerVars, swept, boundVars>>

SweepFile ==
  /\ sweeping # NoFile
  /\ ~swept
  /\ IF disk[sweeping] = sweepPath
       THEN /\ EraseFile(sweeping)
            /\ swept' = TRUE
            /\ UNCHANGED <<sweeping, sweepPath>>
       ELSE /\ sweeping' = NoFile
            /\ sweepPath' = "none"
            /\ UNCHANGED <<disk, written, swept>>
  /\ UNCHANGED <<indexVars, accountVars, owed, permitVars, channels, expired,
                 deleting, handlerVars, clientVars, cleanerVars, boundVars>>

SweepEntry ==
  /\ sweeping # NoFile
  /\ swept
  /\ sweeping' = NoFile
  /\ sweepPath' = "none"
  /\ swept' = FALSE
  /\ RemoveEntry(sweeping, FALSE)
  /\ channels' = channels \ {sweeping}
  /\ UNCHANGED <<accountVars, permitVars, diskVars, handlerVars, clientVars,
                 cleanerVars, boundVars>>

-----------------------------------------------------------------------------
(* The server stops, whatever it is doing, and starts again.               *)
Restart ==
  /\ restarts < MaxRestarts
  /\ restarts' = restarts + 1
  /\ Baseline
  /\ pc' = [f \in Files |-> IF pc[f] \in Ended \cup {"idle"} THEN pc[f] ELSE "lost"]
  /\ cleaning' = Nil
  /\ todo' = {}
  /\ doomed' = NoFile
  /\ sweeping' = NoFile
  /\ sweepPath' = "none"
  /\ swept' = FALSE
  /\ UNCHANGED <<pairing, mode, broken, clientVars, drops>>

-----------------------------------------------------------------------------
Handler(f) ==
  \/ FindSemaphore(f) \/ AcquirePermit(f) \/ Announce(f) \/ CreateFile(f) \/ BreakStream(f)
  \/ FailReceive(f) \/ RenameFile(f) \/ Rollback(f) \/ FinalizeStream(f)
  \/ MarkStreamingDone(f) \/ FinishStream(f) \/ SaveFile(f) \/ Discard(f)
  \/ ReadMeta(f) \/ BeginNotifying(f) \/ Push(f) \/ MarkNotified(f)
  \/ MarkNotifyFailed(f)

Client(f) == Download(f) \/ EndStreamFile(f) \/ Acknowledge(f)

Cleaner == (\E f \in Files : CheckFile(f)) \/ RemoveDoomed \/ DropSemaphore

Sweeper == (\E f \in Files : SweepPath(f)) \/ SweepFile \/ SweepEntry

Next ==
  \/ \E f \in Files : \E p \in Pairings : StartUpload(f, p)
  \/ \E f \in Files : Handler(f) \/ DropHandler(f) \/ Client(f) \/ DeleteFile(f) \/ Expire(f)
  \/ \E p \in Pairings : ClosePairing(p)
  \/ PayOwed
  \/ Cleaner
  \/ Sweeper
  \/ Restart

Spec == Init /\ [][Next]_vars

(* The tasks of the server go on and time passes; phones, PCs and closures *)
(* owe nothing, and so the upload handlers, which may wait for them as     *)
(* long as they like, owe nothing either.                                  *)
FairSpec ==
  /\ Spec
  /\ \A f \in Files : WF_vars(DeleteFile(f)) /\ WF_vars(Expire(f))
  /\ WF_vars(PayOwed)
  /\ WF_vars(Cleaner)
  /\ WF_vars(Sweeper)
-----------------------------------------------------------------------------
Pending == UNION {reserved[p] : p \in Owners}
Indexed == {f \in Files : status[f] # "absent"}
Due == {debt.file : debt \in owed}

(* A handler is still at work on the upload.                               *)
Running(f) == pc[f] \notin Ended \cup {"idle"}

(* The uploads of a pairing that stream to the PC by HTTP.                 *)
Streaming(p) ==
  {f \in Files :
     /\ Running(f) /\ pc[f] \notin {"permit", "acquire"}
     /\ pairing[f] = p /\ mode[f] = "HttpStreaming"}

(* What the account has reserved for each pending file: the size of its    *)
(* entry or, once that is gone, the amount of the release on its way.      *)
Held ==
  [f \in Pending |->
     IF f \in Indexed THEN size[f] ELSE (CHOOSE debt \in owed : debt.file = f).amount]

(* The three counts agree on how many files are pending, and every pending *)
(* file is in the account of one pairing: neither a racing removal nor a   *)
(* second release of the same file makes upload_store.rs count one twice   *)
(* or lose one.                                                            *)
CountsAgree ==
  /\ \A p \in Owners : pendingCount[p] = Cardinality(reserved[p])
  /\ pendingFiles = Cardinality(Pending)
  /\ \A p, q \in Owners : p # q => reserved[p] \cap reserved[q] = {}

(* A file that has lost its entry is in the account only as long as some   *)
(* thread still has its release to do, and a file with an entry is in the  *)
(* account of its owner: whichever of rollback, ACK, failed push, clean-up *)
(* and sweep takes an entry out, the quota comes back with it.             *)
QuotaFollowsEntries ==
  /\ \A p \in Owners : \A f \in reserved[p] : f \in Indexed \/ f \in Due
  /\ \A f \in Indexed : f \in reserved[owner[f]]

(* global_pending_bytes is what the pending files hold, through the change *)
(* from reserved to real size and through every interleaved release: the   *)
(* saturating subtractions of the code never hide a difference.            *)
BytesAgree == pendingBytes = SumFunction(Held)

Started == {f \in Files : pc[f] # "idle"}

Account == INSTANCE QuotaAccount
  WITH account <- reserved, held <- Held, bytes <- pendingBytes, admitted <- Started

(* upload_store.rs keeps the quota exactly, although rollback, ACK, failed *)
(* push, clean-up and sweep remove entries in steps of their own: every    *)
(* step is one of QuotaAccount or leaves the account alone.                *)
KeepsAccount == Account!Spec

(* Nobody writes more to the upload directory than the limits allow: the   *)
(* files there, those on their way out excepted, fit into                  *)
(* max_pending_upload_bytes_global, however many uploads run at once.      *)
DiskWithinLimit ==
  restarts = 0 =>
    SumFunctionOnSet(written, {f \in Indexed : disk[f] = "final"}) <= MaxBytes

(* No more uploads of a pairing stream at once than the configuration      *)
(* says, although cleanup_pairing removes the semaphore from the map while *)
(* permits of it are out and an upload may have it in hand without one.    *)
StreamsWithinLimit ==
  \A p \in Pairings : Cardinality(Streaming(p)) <= MaxStreams

(* What the index offers for download is on disk, unless it is too old and *)
(* the sweep is about to take it: no path deletes a file and leaves an     *)
(* entry behind that the sweep, which goes by the directory, never finds.  *)
StoredIsOnDisk ==
  \A f \in Indexed :
    status[f] # "Uploading" =>
      disk[f] = "final" \/ (sweeping = f /\ swept)

(* A finished file on disk has an entry, or some thread is about to delete *)
(* it, or its age lets the sweep find it: a removal that forgets the disk  *)
(* fills it with files that no counter knows of.                           *)
NoOrphanOnDisk ==
  \A f \in Files :
    disk[f] = "final" =>
      \/ f \in Indexed \cup deleting \cup expired
      \/ \E debt \in owed : debt.file = f /\ debt.delete
      \/ pc[f] = "discard" \/ pc[f] = "dropped"

(* "Pairing cleanup ... skips Notifying, keeps Notified": a file whose     *)
(* notification is under way or has been given leaves the index only       *)
(* because the PC has it, because telling failed, because it is too old,   *)
(* or with the server - never because a clean-up looked at it just before. *)
(* A file announced for streaming that is stored unnotified when its       *)
(* pairing closes is not among them: that clean-up may remove it.          *)
ToldFilesAreKept ==
  [][\A f \in Files :
       status[f] \in {"Notifying", "Notified"} /\ status'[f] = "absent" =>
         f \in complete \/ pc[f] = "unsent" \/ f \in expired \/ restarts' # restarts]_vars

(* The quota and the disk space of every upload that got past Uploading    *)
(* are given back in the end, whether the PC acknowledges it or not and    *)
(* even when the pairing or the server goes in between.                    *)
StoredFilesLeave ==
  \A f \in Files :
    (f \in Indexed /\ status[f] # "Uploading") ~> (f \notin Pending /\ disk[f] = "none")

(* A failed upload "is removed directly from Uploading, the file and byte  *)
(* counts rolled back with it": an upload the phone has been refused       *)
(* leaves no entry.                                                        *)
FailedUploadsLeave == \A f \in Files : pc[f] = "failed" => status[f] # "Uploading"

(* "PC offline (RELAY): first stored on the server, downloaded once the PC *)
(* is online": a relayed upload the phone was told is stored is there      *)
(* until the PC has got it or it is too old.                               *)
RelayedFilesWait ==
  \A f \in Files :
    pc[f] = "stored" /\ mode[f] = "Relay" =>
      f \in Indexed \/ f \in complete \/ f \in expired \/ pairing[f] \in closed
        \/ restarts > 0
=============================================================================
