---------------------------- MODULE PcClipboard -----------------------------
(***************************************************************************)
(* The clipboard of the PC and those who use it: the worker thread that    *)
(* copies and pastes the texts from the phone, and the user.  A delay in   *)
(* the code (before a key, before the restoring) is taken to be long       *)
(* enough for the application in front to react: it handles a key at once. *)
(***************************************************************************)
EXTENDS Naturals, Sequences

CONSTANTS
  Texts,      \* the texts from the phone, different from each other
  Files,      \* the files from the phone
  Copies,     \* the texts the user copies, each of them once
  Pictures,   \* what the user copies that is not text
  TextRoom,   \* size of the text worker's queue
  AutoPaste,  \* auto_paste
  Restoring,  \* delete_clipboard_after_paste
  KeyAfter,   \* simulate_key_after_paste holds a valid key
  MaxFailures \* bound: clipboard and keyboard calls that fail

ASSUME TextRoomAssumption == TextRoom \in Nat \ {0}
ASSUME FailuresAssumption == MaxFailures \in Nat
ASSUME ConfigAssumption ==
  AutoPaste \in BOOLEAN /\ Restoring \in BOOLEAN /\ KeyAfter \in BOOLEAN

VARIABLES
  textQueue,  \* the texts waiting for the worker
  texts,      \* what became of each text
  textStep,   \* where the worker is
  textJob,    \* the text it works on
  snapshot,   \* what it will put back
  clip,       \* what is in the clipboard
  ctrl,       \* the system takes Ctrl to be held down
  typed,      \* what the application in front has ever been given, by whom
  userClip,   \* history: what another hand put into the clipboard last
  overtaken,  \* history: the user copied between a look and a change
  failures    \* history: number of clipboard and keyboard calls that failed

workerVars == <<textQueue, texts, textStep, textJob, snapshot>>
deskVars == <<clip, ctrl, typed>>
historyVars == <<userClip, overtaken, failures>>
clipboardVars == <<workerVars, deskVars, historyVars>>

NoText == "no text"
Empty == "empty"
Letter == "v"
Key == "key"
CtrlKey == "ctrl+key"

Content == Texts \cup Files \cup Copies \cup Pictures \cup {Empty}

(* What the phone sends differs from what the user copies, so that whoever *)
(* reads the clipboard can tell whose text it is.                          *)
ASSUME ContentAssumption ==
  /\ Texts \cap (Files \cup Copies \cup Pictures \cup {Empty}) = {}
  /\ NoText \notin Content

ReadsAsText(content) == content \in Texts \cup Copies \cup {Empty}
TextStep == {"idle", "snapshot", "write", "press", "click", "release", "key", "check", "set"}
Stroke == [by : Texts \cup Files, what : Content \cup {Letter, Key, CtrlKey}]

ClipboardTypeOK ==
  /\ textQueue \in Seq(Texts)
  /\ Len(textQueue) <= TextRoom
  /\ texts \in [Texts -> {"away", "queued", "dropped", "taken", "pasted", "failed"}]
  /\ textStep \in TextStep
  /\ textJob \in Texts \cup {NoText}
  /\ snapshot \in Content \cup {NoText}
  /\ clip \in Content
  /\ ctrl \in BOOLEAN
  /\ typed \in SUBSET Stroke
  /\ userClip \in Content
  /\ overtaken \in BOOLEAN
  /\ failures \in 0..MaxFailures

ClipboardInit ==
  /\ textQueue = <<>>
  /\ texts = [t \in Texts |-> "away"]
  /\ textStep = "idle"
  /\ textJob = NoText
  /\ snapshot = NoText
  /\ clip = Empty
  /\ ctrl = FALSE
  /\ typed = {}
  /\ userClip = Empty
  /\ overtaken = FALSE
  /\ failures = 0

-----------------------------------------------------------------------------
(* Bug: the queue is not bounded.                                          *)
ReceiveTextAlways(t) ==
  /\ texts[t] = "away"
  /\ textQueue' = Append(textQueue, t)
  /\ texts' = [texts EXCEPT ![t] = "queued"]
  /\ UNCHANGED <<textStep, textJob, snapshot, deskVars, historyVars>>

(* App::logic, ClipboardText: the frame loop never waits for the worker.   *)
ReceiveText(t) ==
  /\ texts[t] = "away"
  /\ IF Len(textQueue) < TextRoom
       THEN /\ textQueue' = Append(textQueue, t)
            /\ texts' = [texts EXCEPT ![t] = "queued"]
       ELSE /\ texts' = [texts EXCEPT ![t] = "dropped"]
            /\ UNCHANGED textQueue
  /\ UNCHANGED <<textStep, textJob, snapshot, deskVars, historyVars>>

(* The keyboard, used by whoever pastes: simulate_paste and simulate_key.  *)
(* The worker's state is the caller's business.                            *)
PressCtrl == ctrl' = TRUE /\ UNCHANGED <<clip, typed>>

Typed(who, what) ==
  typed' = typed \cup {[by |-> who, what |-> what]} /\ UNCHANGED <<clip, ctrl>>

ClickV(who) == Typed(who, IF ctrl THEN clip ELSE Letter)

ReleaseCtrl == ctrl' = FALSE /\ UNCHANGED <<clip, typed>>

ClickKey(who) == Typed(who, IF ctrl THEN CtrlKey ELSE Key)

(* A call to the operating system fails ...                                *)
Failing == failures < MaxFailures /\ failures' = failures + 1

CallFails == Failing /\ UNCHANGED <<deskVars, userClip, overtaken>>
CallSucceeds == UNCHANGED historyVars

(* ... and changes nothing, but that a write empties the clipboard before  *)
(* it fills it.                                                            *)
WriteFails ==
  /\ clip' \in {clip, Empty}
  /\ Failing
  /\ UNCHANGED <<ctrl, typed, userClip, overtaken>>

(* Something is copied by another hand than the text worker's: it is       *)
(* overtaken when the worker has looked at the clipboard and is about to   *)
(* change it.                                                              *)
UserCopied(content) ==
  /\ userClip' = content
  /\ overtaken' = (overtaken \/ textStep \in {"write", "set"})

-----------------------------------------------------------------------------
GoTo(step) ==
  textStep' = step /\ UNCHANGED <<textQueue, texts, textJob, snapshot>>

(* Bug: the worker's thread ends when a text cannot be written.            *)
EndTextOrThread(result) ==
  /\ textStep' = IF result = "failed" THEN "ended" ELSE "idle"
  /\ texts' = [texts EXCEPT ![textJob] = result]
  /\ textJob' = NoText
  /\ snapshot' = NoText
  /\ UNCHANGED textQueue

(* The worker has done with its text.                                      *)
EndText(result) ==
  /\ textStep' = "idle"
  /\ texts' = [texts EXCEPT ![textJob] = result]
  /\ textJob' = NoText
  /\ snapshot' = NoText
  /\ UNCHANGED textQueue

TakeText ==
  /\ textStep = "idle"
  /\ textQueue # <<>>
  /\ textJob' = Head(textQueue)
  /\ textQueue' = Tail(textQueue)
  /\ texts' = [texts EXCEPT ![Head(textQueue)] = "taken"]
  /\ textStep' = IF AutoPaste /\ Restoring THEN "snapshot" ELSE "write"
  /\ UNCHANGED <<snapshot, deskVars, historyVars>>

(* take_snapshot: NonText and Unreadable both mean that nothing is put     *)
(* back.                                                                   *)
TakeSnapshot ==
  /\ textStep = "snapshot"
  /\ textStep' = "write"
  /\ \/ /\ snapshot' = IF ReadsAsText(clip) THEN clip ELSE NoText
        /\ UNCHANGED <<deskVars, historyVars>>
     \/ snapshot' = NoText /\ CallFails
  /\ UNCHANGED <<textQueue, texts, textJob>>

WriteText ==
  /\ textStep = "write"
  /\ \/ /\ clip' = textJob
        /\ UNCHANGED <<ctrl, typed>>
        /\ CallSucceeds
        /\ IF AutoPaste THEN GoTo("press") ELSE EndText("pasted")
     \/ WriteFails /\ EndText("failed")

AfterPaste == IF KeyAfter THEN "key" ELSE "check"

PressForText ==
  /\ textStep = "press"
  /\ \/ PressCtrl /\ CallSucceeds /\ GoTo("click")
     \/ CallFails /\ GoTo(AfterPaste)

ClickForText ==
  /\ textStep = "click"
  /\ (ClickV(textJob) /\ CallSucceeds) \/ CallFails
  /\ GoTo("release")

ReleaseForText ==
  /\ textStep = "release"
  /\ (ReleaseCtrl /\ CallSucceeds) \/ CallFails
  /\ GoTo(AfterPaste)

KeyForText ==
  /\ textStep = "key"
  /\ (ClickKey(textJob) /\ CallSucceeds) \/ CallFails
  /\ GoTo("check")

(* Bug: the clipboard is restored whatever is in it.                       *)
StillInjectedAlways == ReadsAsText(clip)

(* restore_clipboard puts the snapshot back only over the worker's text... *)
StillInjected == clip = textJob

CheckClipboard ==
  /\ textStep = "check"
  /\ IF snapshot # NoText /\ StillInjected
       THEN \/ CallSucceeds /\ UNCHANGED deskVars /\ GoTo("set")
            \/ CallFails /\ EndText("pasted")
       ELSE UNCHANGED <<deskVars, historyVars>> /\ EndText("pasted")

(* ... which it has read in a call of its own.                             *)
RestoreClipboard ==
  /\ textStep = "set"
  /\ \/ clip' = snapshot /\ UNCHANGED <<ctrl, typed>> /\ CallSucceeds
     \/ WriteFails
  /\ EndText("pasted")

TextWorker ==
  \/ TakeText
  \/ TakeSnapshot
  \/ WriteText
  \/ PressForText
  \/ ClickForText
  \/ ReleaseForText
  \/ KeyForText
  \/ CheckClipboard
  \/ RestoreClipboard
=============================================================================
