------------------------------ MODULE PcFiles -------------------------------
(***************************************************************************)
(* The PC's file workers: threads that share one queue of jobs, download   *)
(* in one of three ways, paste an image when told to, choose a free name   *)
(* in the folder, and acknowledge.  All files here have the same name.     *)
(***************************************************************************)
EXTENDS PcClipboard, FiniteSets

CONSTANTS
  Workers,      \* the file workers
  HttpStreamed, \* the files that come in mode HTTP_STREAMING
  Streamed,     \* the files that come in mode STREAMING, the others in RELAY
  FileRoom,     \* size of their queue
  MaxAttempts,  \* download_max_retries + 1
  MaxSuffix     \* the last number tried behind a name that is taken

ASSUME FileRoomAssumption == FileRoom \in Nat \ {0}
ASSUME AttemptsAssumption == MaxAttempts \in Nat \ {0}
ASSUME SuffixAssumption == MaxSuffix \in Nat

VARIABLES
  fileQueue,  \* the jobs waiting for a worker
  files,      \* what became of each file
  ack,        \* what the server has been told of it
  job,        \* what each worker is doing
  saver,      \* who holds file_save_lock
  paster,     \* who holds paste_lock
  folder,     \* the names in the folder: the plain one (0) and the numbered
  unsaved     \* history: images pasted that could not be saved

jobVars == <<fileQueue, files, ack, job>>
diskVars == <<saver, folder>>
fileVars == <<jobVars, diskVars, paster, unsaved>>

NoFile == "no file"
NoWorker == "nobody"
Free == "free"
Theirs == "the user's"

ASSUME NamesAssumption == Free \notin Files /\ NoWorker \notin Workers

Mode == {"Relay", "HttpStreaming", "Streaming"}
PasteStep == {"press", "click", "release", "key"}
FileStep == {"idle", "download", "image", "save", "rename", "answer"} \cup PasteStep
Slot == 0..MaxSuffix
Job == [file : Files \cup {NoFile}, step : FileStep, way : Mode, attempt : 1..MaxAttempts,
        pasted : BOOLEAN, slot : Slot, good : BOOLEAN]
NoJob == [file |-> NoFile, step |-> "idle", way |-> "Relay", attempt |-> 1,
          pasted |-> FALSE, slot |-> 0, good |-> FALSE]

FilesTypeOK ==
  /\ fileQueue \in Seq(Files)
  /\ Len(fileQueue) <= FileRoom
  /\ files \in [Files -> {"away", "queued", "dropped", "taken", "done"}]
  /\ ack \in [Files -> {"none", "yes", "no"}]
  /\ job \in [Workers -> Job]
  /\ saver \in Workers \cup {NoWorker}
  /\ paster \in Workers \cup {NoWorker}
  /\ folder \in [Slot -> Files \cup {Free, Theirs}]
  /\ unsaved \in SUBSET Files

(* The folder may hold other files of that name.                           *)
FilesInit ==
  /\ fileQueue = <<>>
  /\ files = [f \in Files |-> "away"]
  /\ ack = [f \in Files |-> "none"]
  /\ job = [w \in Workers |-> NoJob]
  /\ saver = NoWorker
  /\ paster = NoWorker
  /\ folder \in [Slot -> {Free, Theirs}]
  /\ unsaved = {}

-----------------------------------------------------------------------------
(* App::logic, FileReceived: a job that finds the queue full is dropped    *)
(* and a thread of its own tells the server.                               *)
ReceiveFile(f) ==
  /\ files[f] = "away"
  /\ IF Len(fileQueue) < FileRoom
       THEN /\ fileQueue' = Append(fileQueue, f)
            /\ files' = [files EXCEPT ![f] = "queued"]
       ELSE /\ files' = [files EXCEPT ![f] = "dropped"]
            /\ UNCHANGED fileQueue
  /\ UNCHANGED <<clipboardVars, ack, job, diskVars, paster, unsaved>>

(* send_ack: without the server's address nothing is sent, and nobody      *)
(* repeats an acknowledgement that was lost.                               *)
Tell(f, good) ==
  /\ UNCHANGED ack \/ ack' = [ack EXCEPT ![f] = IF good THEN "yes" ELSE "no"]
  /\ files' = [files EXCEPT ![f] = "done"]

TellDropped(f) ==
  /\ files[f] = "dropped"
  /\ Tell(f, FALSE)
  /\ UNCHANGED <<clipboardVars, fileQueue, job, diskVars, paster, unsaved>>

-----------------------------------------------------------------------------
Goto(w, step) == job' = [job EXCEPT ![w].step = step]
Answer(w, good) == job' = [job EXCEPT ![w].step = "answer", ![w].good = good]
At(w, step) == job[w].step = step

(* Bug: the receiver stays locked while its holder works.                  *)
ReceiverFreeAfterWork == \A w \in Workers : At(w, "idle")

(* The lock on the receiver is held while waiting, not while working.      *)
ReceiverFree == TRUE

(* A file to be streamed by gRPC comes by RELAY if there is no channel.    *)
Ways(f) ==
  IF f \in Streamed THEN {"Streaming", "Relay"}
  ELSE IF f \in HttpStreamed THEN {"HttpStreaming"}
  ELSE {"Relay"}

TakeFile(w) ==
  /\ At(w, "idle")
  /\ fileQueue # <<>>
  /\ ReceiverFree
  /\ fileQueue' = Tail(fileQueue)
  /\ files' = [files EXCEPT ![Head(fileQueue)] = "taken"]
  /\ \E way \in Ways(Head(fileQueue)) :
       job' = [job EXCEPT ![w] = [NoJob EXCEPT !.file = Head(fileQueue),
                                               !.step = "download", !.way = way]]
  /\ UNCHANGED <<clipboardVars, ack, diskVars, paster, unsaved>>

(* Without an HTTP client there is nothing to tell the server with.        *)
GiveUp(w) ==
  /\ job' = [job EXCEPT ![w] = NoJob]
  /\ files' = [files EXCEPT ![job[w].file] = "done"]

(* process_file_job up to a whole temporary file: an image that can be     *)
(* decoded is to be pasted, anything else to be saved.  Or the attempt     *)
(* failed: RELAY tries again unless the failure is for good.               *)
MayRetry(w) == job[w].way = "Relay" /\ job[w].attempt < MaxAttempts

Download(w) ==
  /\ At(w, "download")
  /\ \/ job[w].attempt = 1 /\ GiveUp(w)
     \/ AutoPaste /\ Goto(w, "image") /\ UNCHANGED files
     \/ Goto(w, "save") /\ UNCHANGED files
     \/ MayRetry(w) /\ job' = [job EXCEPT ![w].attempt = @ + 1] /\ UNCHANGED files
     \/ Answer(w, FALSE) /\ UNCHANGED files
  /\ UNCHANGED <<clipboardVars, fileQueue, ack, diskVars, paster, unsaved>>

-----------------------------------------------------------------------------
(* process_image_from_tmp (Windows): one image at a time.                  *)
(* Bug: the lock is not waited for.                                        *)
PasteLockIgnored == TRUE

PasteLockFree == paster = NoWorker

Unlocked(w) == paster' = IF paster = w THEN NoWorker ELSE paster

(* The lock is dropped before the image is saved.                          *)
ToSave(w) ==
  /\ job' = [job EXCEPT ![w].step = "save", ![w].pasted = TRUE]
  /\ Unlocked(w)

WriteImage(w) ==
  /\ At(w, "image")
  /\ PasteLockFree
  /\ \/ /\ clip' = job[w].file
        /\ UNCHANGED <<ctrl, typed>>
        /\ UserCopied(job[w].file)
        /\ UNCHANGED failures
        /\ Goto(w, "press")
        /\ paster' = w
     \/ WriteFails /\ Goto(w, "save") /\ UNCHANGED paster
  /\ UNCHANGED <<workerVars, fileQueue, files, ack, diskVars, unsaved>>

(* simulate_paste and simulate_key, as the text worker uses them.          *)
ImagePasted(w) == IF KeyAfter THEN Goto(w, "key") /\ UNCHANGED paster ELSE ToSave(w)

StrokeForImage(w) ==
  /\ \/ At(w, "press") /\ PressCtrl /\ CallSucceeds /\ Goto(w, "click") /\ UNCHANGED paster
     \/ At(w, "press") /\ CallFails /\ ImagePasted(w)
     \/ At(w, "click") /\ ClickV(job[w].file) /\ CallSucceeds
          /\ Goto(w, "release") /\ UNCHANGED paster
     \/ At(w, "click") /\ CallFails /\ Goto(w, "release") /\ UNCHANGED paster
     \/ At(w, "release") /\ ReleaseCtrl /\ CallSucceeds /\ ImagePasted(w)
     \/ At(w, "release") /\ CallFails /\ ImagePasted(w)
     \/ At(w, "key") /\ ClickKey(job[w].file) /\ CallSucceeds /\ ToSave(w)
     \/ At(w, "key") /\ CallFails /\ ToSave(w)
  /\ UNCHANGED <<workerVars, fileQueue, files, ack, diskVars, unsaved>>

-----------------------------------------------------------------------------
(* persist_tmp_locked.                                                     *)
(* Bug: name and rename are not under one lock.                            *)
SaveLockIgnored == TRUE

SaveLockFree == saver = NoWorker

(* unique_dest_path: the first free name, the plain one when none is.      *)
FreeSlots == {s \in Slot : folder[s] = Free}

ChosenSlot ==
  IF FreeSlots = {} THEN 0 ELSE CHOOSE s \in FreeSlots : \A r \in FreeSlots : s <= r

ChooseName(w) ==
  /\ At(w, "save")
  /\ SaveLockFree
  /\ saver' = w
  /\ job' = [job EXCEPT ![w].step = "rename", ![w].slot = ChosenSlot]
  /\ UNCHANGED <<clipboardVars, fileQueue, files, ack, folder, paster, unsaved>>

(* Bug: the result of the rename is not looked at.                         *)
SavingFailedUnseen(w) == Answer(w, TRUE)

(* An image that was pasted counts as received, saved or not.              *)
SavingFailed(w) == Answer(w, job[w].pasted)

(* move_tmp_to_dest: rename replaces what has the name; after a failure    *)
(* the temporary file is deleted.                                          *)
RenameFile(w) ==
  /\ At(w, "rename")
  /\ \/ /\ folder' = [folder EXCEPT ![job[w].slot] = job[w].file]
        /\ Answer(w, TRUE)
        /\ UNCHANGED unsaved
     \/ /\ SavingFailed(w)
        /\ unsaved' = IF job[w].pasted THEN unsaved \cup {job[w].file} ELSE unsaved
        /\ UNCHANGED folder
  /\ saver' = IF saver = w THEN NoWorker ELSE saver
  /\ UNCHANGED <<clipboardVars, fileQueue, files, ack, paster>>

AnswerFile(w) ==
  /\ At(w, "answer")
  /\ Tell(job[w].file, job[w].good)
  /\ job' = [job EXCEPT ![w] = NoJob]
  /\ UNCHANGED <<clipboardVars, fileQueue, diskVars, paster, unsaved>>

FileWorker(w) ==
  \/ TakeFile(w)
  \/ WriteImage(w)
  \/ StrokeForImage(w)
  \/ ChooseName(w)
  \/ RenameFile(w)
  \/ AnswerFile(w)

FileNext ==
  \/ \E f \in Files : ReceiveFile(f) \/ TellDropped(f)
  \/ \E w \in Workers : FileWorker(w) \/ Download(w)
=============================================================================
