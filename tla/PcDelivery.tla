----------------------------- MODULE PcDelivery -----------------------------
(***************************************************************************)
(* What the PC does with the texts and files of the phone: the text worker *)
(* (PcClipboard), the file workers (PcFiles) and the user share one        *)
(* clipboard, one keyboard and one folder.                                 *)
(***************************************************************************)
EXTENDS PcFiles

VARIABLE
  disturbed  \* history: two hands were at the clipboard or keyboard at once

vars == <<clipboardVars, fileVars, disturbed>>

DeliveryTypeOK ==
  /\ ClipboardTypeOK
  /\ FilesTypeOK
  /\ disturbed \in BOOLEAN

Init ==
  /\ ClipboardInit
  /\ FilesInit
  /\ disturbed = FALSE

-----------------------------------------------------------------------------
TextPasting == textStep \in {"press", "click", "release", "key", "set"}
ImagePasting == \E w \in Workers : job[w].step \in PasteStep
Overlap == TextPasting /\ ImagePasting

(* The user copies something, whatever the workers are doing.              *)
Copy(content) ==
  /\ content # userClip
  /\ clip' = content
  /\ UserCopied(content)
  /\ disturbed' = (disturbed \/ TextPasting \/ ImagePasting)
  /\ UNCHANGED <<workerVars, ctrl, typed, failures, fileVars>>

Noticing == disturbed' = (disturbed \/ Overlap')

Next ==
  \/ \E t \in Texts : ReceiveText(t) /\ UNCHANGED fileVars /\ Noticing
  \/ TextWorker /\ UNCHANGED fileVars /\ Noticing
  \/ FileNext /\ Noticing
  \/ \E c \in Copies \cup Pictures : Copy(c)

Spec == Init /\ [][Next]_vars

(* The workers are threads that the system schedules.  Downloads end: the  *)
(* HTTP client has a timeout; a gRPC stream has none.  Nothing is assumed  *)
(* of the phone and the user.                                              *)
Fairness ==
  /\ WF_vars(TextWorker /\ UNCHANGED fileVars /\ Noticing)
  /\ \A f \in Files : WF_vars(TellDropped(f) /\ Noticing)
  /\ \A w \in Workers :
       /\ WF_vars(FileWorker(w) /\ Noticing)
       /\ WF_vars(job[w].way # "Streaming" /\ Download(w) /\ Noticing)

FairSpec == Spec /\ Fairness

-----------------------------------------------------------------------------
(* A paste gives the application in front what it was made for, typed with *)
(* Ctrl and nothing else, as long as all calls succeed and nobody else is  *)
(* at the clipboard or the keyboard in between: images of two file workers *)
(* are kept apart by paste_lock (ui.rs:87), texts by their queue.          *)
PastesAreOwn ==
  failures = 0 /\ ~disturbed => \A s \in typed : s.what \in {s.by, Key}

(* After a text has been pasted the clipboard holds what the user had in   *)
(* it before, also if the user, or an image, put it there while the text   *)
(* was being pasted (clipboard.rs:57); lost is only what comes between a   *)
(* look of the worker and its next change, and what is not text.           *)
ClipboardComesBack ==
  AutoPaste /\ Restoring /\ textStep = "idle" /\ failures = 0 /\ ~overtaken /\ ReadsAsText(userClip)
    => clip = userClip

(* A file the server is told to be received, and deletes, is in the folder *)
(* or has at least been pasted; saving, numbering and acknowledging run in *)
(* several threads (file_handler.rs:877).                                  *)
Kept(f) == \E s \in Slot : folder[s] = f

AckedFilesAreKept ==
  \A f \in Files : ack[f] = "yes" => Kept(f) \/ f \in unsaved \/ FreeSlots = {}

(* No file in the folder, the user's or an earlier one, is replaced while  *)
(* a free name is left (file_handler.rs:943): two workers never choose the *)
(* same name.                                                              *)
FolderIsKept ==
  [][\A s \in Slot : folder[s] # Free /\ folder'[s] # folder[s] => FreeSlots = {}]_vars

(* Every text that is queued and every file, one that found the queue full *)
(* too, is dealt with in the end (ui.rs:341, 404): as long as one worker   *)
(* is free of streams that never end, the queues move and no lock stays    *)
(* taken.  A text that finds the queue full is dropped on the spot.        *)
JobsAreHandled ==
  /\ Cardinality(Streamed) < Cardinality(Workers) =>
       \A f \in Files : files[f] # "away" /\ f \notin Streamed ~> files[f] = "done"
  /\ \A t \in Texts : texts[t] = "queued" ~> texts[t] \in {"pasted", "failed"}

-----------------------------------------------------------------------------
(* client.example.toml:45, file_handler.rs:402: an image is always saved,  *)
(* whether it is pasted or not.  What the server deletes because it is     *)
(* received is in the folder.                                              *)
PastedImagesAreSaved ==
  \A f \in Files : ack[f] = "yes" => Kept(f) \/ FreeSlots = {}
=============================================================================
