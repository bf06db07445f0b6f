-------------------------- MODULE PcDelivery_proofs --------------------------
(***************************************************************************)
(* What holds of the PC's workers for any texts, files and workers, any    *)
(* size of the queues, any number of retries and of names.                 *)
(***************************************************************************)
EXTENDS PcDelivery, WellFoundedInduction, TLAPS

-----------------------------------------------------------------------------
(* The folder and the acknowledgements.                                    *)

(* A name is chosen and used under file_save_lock.                         *)
RenamesAlone == \A w \in Workers : At(w, "rename") => saver = w

(* The name chosen is still free, or none is.                              *)
NameStillFree ==
  \A w \in Workers : At(w, "rename") => folder[job[w].slot] = Free \/ FreeSlots = {}

Safe(f) == Kept(f) \/ f \in unsaved \/ FreeSlots = {}

(* An answer that is not sent yet is as true as one that is.               *)
AnswersAreTrue ==
  \A w \in Workers, f \in Files :
    At(w, "answer") /\ job[w].good /\ job[w].file = f => Safe(f)

JobsTyped ==
  /\ fileQueue \in Seq(Files)
  /\ ack \in [Files -> {"none", "yes", "no"}]
  /\ job \in [Workers -> Job]
  /\ folder \in [Slot -> Files \cup {Free, Theirs}]
  /\ \A w \in Workers : job[w].step # "idle" => job[w].file \in Files

SavingInv ==
  /\ JobsTyped
  /\ RenamesAlone
  /\ NameStillFree
  /\ AnswersAreTrue
  /\ AckedFilesAreKept

LEMMA FirstOfQueue ==
  ASSUME NEW S, NEW s \in Seq(S), s # <<>>
  PROVE  Head(s) \in S /\ Tail(s) \in Seq(S)
  OBVIOUS

(* What changes nothing in the folder and no answer.                       *)
LEMMA FolderStays ==
  ASSUME SavingInv, JobsTyped', folder' = folder, unsaved' = unsaved, saver' = saver,
         \A f \in Files : ack'[f] = "yes" => Safe(f),
         \A w \in Workers : job'[w].step = "rename" =>
              job[w].step = "rename" /\ job'[w].slot = job[w].slot,
         \A w \in Workers : job'[w].step = "answer" /\ job'[w].good =>
              job[w].step = "answer" /\ job[w].good /\ job'[w].file = job[w].file
  PROVE  SavingInv'
  <1>1. /\ RenamesAlone /\ NameStillFree /\ AnswersAreTrue /\ AckedFilesAreKept
    BY DEF SavingInv
  <1>2. FreeSlots' = FreeSlots /\ \A f : Safe(f)' <=> Safe(f)
    BY DEF FreeSlots, Safe, Kept
  <1>3. RenamesAlone'
    BY <1>1 DEF RenamesAlone, At
  <1>4. NameStillFree'
    BY <1>1, <1>2 DEF NameStillFree, At
  <1>5. AnswersAreTrue'
    <2> SUFFICES ASSUME NEW w \in Workers, NEW f \in Files,
                        job'[w].step = "answer", job'[w].good, job'[w].file = f
                 PROVE  Safe(f)'
      BY DEF AnswersAreTrue, At
    <2>1. job[w].step = "answer" /\ job[w].good /\ job[w].file = f
      OBVIOUS
    <2>2. Safe(f)
      BY <2>1, <1>1 DEF AnswersAreTrue, At
    <2> QED BY <2>2, <1>2
  <1>6. AckedFilesAreKept'
    BY <1>2 DEF AckedFilesAreKept, Safe, Kept
  <1> QED BY <1>3, <1>4, <1>5, <1>6 DEF SavingInv

(* A worker's job goes on to another step.                                 *)
LEMMA JobsGoOn ==
  ASSUME JobsTyped, NEW w \in Workers, NEW new, new \in Job,
         new.step # "idle" => new.file \in Files,
         job' = [job EXCEPT ![w] = new],
         fileQueue' \in Seq(Files), ack' \in [Files -> {"none", "yes", "no"}],
         folder' \in [Slot -> Files \cup {Free, Theirs}]
  PROVE  /\ JobsTyped'
         /\ job'[w] = new
         /\ \A v \in Workers : v # w => job'[v] = job[v]
  BY DEF JobsTyped

LEMMA SmallSteps ==
  ASSUME SavingInv,
         \/ \E f \in Files : ReceiveFile(f) \/ TellDropped(f)
         \/ UNCHANGED fileVars
  PROVE  SavingInv'
  <1>1. JobsTyped /\ AckedFilesAreKept
    BY DEF SavingInv
  <1>2. /\ job' = job /\ folder' = folder /\ unsaved' = unsaved /\ saver' = saver
        /\ fileQueue' \in Seq(Files) /\ ack' \in [Files -> {"none", "yes", "no"}]
        /\ \A f \in Files : ack'[f] = "yes" => ack[f] = "yes"
    BY <1>1 DEF ReceiveFile, TellDropped, Tell, fileVars, jobVars, diskVars, JobsTyped
  <1>3. JobsTyped'
    BY <1>1, <1>2 DEF JobsTyped
  <1>4. \A f \in Files : ack'[f] = "yes" => Safe(f)
    BY <1>1, <1>2 DEF AckedFilesAreKept, Safe
  <1> QED BY <1>2, <1>3, <1>4, FolderStays

(* The steps of a worker that neither choose a name, nor rename, nor send  *)
(* an answer, nor prepare a good one.                                      *)
LEMMA OtherJobs ==
  ASSUME SavingInv, NEW w \in Workers, NEW new, new \in Job,
         new.step # "idle" => new.file \in Files,
         new.step # "rename", new.step = "answer" => ~new.good,
         job' = [job EXCEPT ![w] = new],
         fileQueue' \in Seq(Files),
         UNCHANGED <<ack, folder, unsaved, saver>>
  PROVE  SavingInv'
  <1>1. JobsTyped /\ AckedFilesAreKept
    BY DEF SavingInv
  <1>2. /\ JobsTyped'
        /\ job'[w] = new
        /\ \A v \in Workers : v # w => job'[v] = job[v]
    <2>1. ack' \in [Files -> {"none", "yes", "no"}] /\ folder' \in [Slot -> Files \cup {Free, Theirs}]
      BY <1>1 DEF JobsTyped
    <2> QED BY <1>1, <2>1, JobsGoOn
  <1>3. \A f \in Files : ack'[f] = "yes" => Safe(f)
    BY <1>1 DEF AckedFilesAreKept, Safe
  <1>4. /\ \A v \in Workers : job'[v].step = "rename" =>
              job[v].step = "rename" /\ job'[v].slot = job[v].slot
        /\ \A v \in Workers : job'[v].step = "answer" /\ job'[v].good =>
              job[v].step = "answer" /\ job[v].good /\ job'[v].file = job[v].file
    BY <1>2
  <1> QED BY <1>2, <1>3, <1>4, FolderStays

LEMMA NoJobTyped == NoJob \in Job /\ NoJob.step = "idle"
  BY AttemptsAssumption, SuffixAssumption DEF NoJob, Job, FileStep, Mode, Slot

(* What may become of a job in the same hands.                             *)
LEMMA JobTyped ==
  ASSUME NEW j \in Job, NEW s \in FileStep, NEW good \in BOOLEAN
  PROVE  /\ [j EXCEPT !.step = s] \in Job
         /\ [j EXCEPT !.step = s, !.pasted = TRUE] \in Job
         /\ [j EXCEPT !.step = s, !.good = good] \in Job
         /\ \A slot \in Slot : [j EXCEPT !.step = s, !.slot = slot] \in Job
         /\ j.attempt < MaxAttempts => [j EXCEPT !.attempt = @ + 1] \in Job
  <1>1. j = [file |-> j.file, step |-> j.step, way |-> j.way, attempt |-> j.attempt,
             pasted |-> j.pasted, slot |-> j.slot, good |-> j.good]
    BY DEF Job
  <1>2. /\ j.file \in Files \cup {NoFile} /\ j.step \in FileStep /\ j.way \in Mode
        /\ j.attempt \in 1..MaxAttempts /\ j.pasted \in BOOLEAN /\ j.slot \in Slot
        /\ j.good \in BOOLEAN
    BY DEF Job
  <1>3. [j EXCEPT !.step = s] \in Job
    BY <1>2 DEF Job
  <1>4. [j EXCEPT !.step = s, !.pasted = TRUE] \in Job
    BY <1>2 DEF Job
  <1>5. [j EXCEPT !.step = s, !.good = good] \in Job
    BY <1>2 DEF Job
  <1>6. ASSUME NEW slot \in Slot PROVE [j EXCEPT !.step = s, !.slot = slot] \in Job
    BY <1>2 DEF Job
  <1>7. ASSUME j.attempt < MaxAttempts PROVE [j EXCEPT !.attempt = @ + 1] \in Job
    <2>1. j.attempt + 1 \in 1..MaxAttempts
      BY <1>2, <1>7, AttemptsAssumption
    <2> QED BY <2>1, <1>2 DEF Job
  <1> QED BY <1>3, <1>4, <1>5, <1>6, <1>7

LEMMA TakeFileKeeps ==
  ASSUME SavingInv, NEW w \in Workers, TakeFile(w)
  PROVE  SavingInv'
  <1>1. fileQueue \in Seq(Files) /\ fileQueue # <<>>
    BY DEF SavingInv, JobsTyped, TakeFile
  <1>2. Head(fileQueue) \in Files /\ Tail(fileQueue) \in Seq(Files)
    BY <1>1, FirstOfQueue
  <1>3. PICK way \in Ways(Head(fileQueue)) :
          job' = [job EXCEPT ![w] = [NoJob EXCEPT !.file = Head(fileQueue),
                                                  !.step = "download", !.way = way]]
    BY DEF TakeFile
  <1> DEFINE new == [NoJob EXCEPT !.file = Head(fileQueue), !.step = "download", !.way = way]
  <1>4. way \in Mode
    BY DEF Ways, Mode
  <1>5. new \in Job /\ new.file \in Files /\ new.step = "download"
    <2>1. NoJob \in Job /\ "download" \in FileStep
      BY NoJobTyped DEF FileStep
    <2> QED BY <2>1, <1>2, <1>4 DEF Job
  <1>6. job' = [job EXCEPT ![w] = new]
    BY <1>3
  <1>7. fileQueue' = Tail(fileQueue) /\ UNCHANGED <<ack, folder, unsaved, saver>>
    BY DEF TakeFile, diskVars
  <1> HIDE DEF new
  <1> QED BY <1>2, <1>5, <1>6, <1>7, OtherJobs

LEMMA DownloadKeeps ==
  ASSUME SavingInv, NEW w \in Workers, Download(w)
  PROVE  SavingInv'
  <1>1. JobsTyped /\ job[w].step = "download" /\ job[w].file \in Files /\ job[w] \in Job
        /\ fileQueue \in Seq(Files) /\ job \in [Workers -> Job]
    BY DEF SavingInv, JobsTyped, Download, At
  <1>2. fileQueue' = fileQueue /\ UNCHANGED <<ack, folder, unsaved, saver>>
    BY DEF Download, diskVars
  <1>3. CASE job' = [job EXCEPT ![w] = NoJob]
    BY <1>1, <1>2, <1>3, NoJobTyped, OtherJobs
  <1>4. ASSUME NEW s \in {"image", "save"}, Goto(w, s)
        PROVE  SavingInv'
    <2> DEFINE new == [job[w] EXCEPT !.step = s]
    <2>1. new \in Job /\ new.step = s /\ new.file = job[w].file
      BY <1>1, JobTyped DEF FileStep, Job
    <2>2. job' = [job EXCEPT ![w] = new]
      BY <1>4 DEF Goto
    <2> HIDE DEF new
    <2> QED BY <1>1, <1>2, <2>1, <2>2, OtherJobs
  <1>5. CASE MayRetry(w) /\ job' = [job EXCEPT ![w].attempt = @ + 1]
    <2> DEFINE new == [job[w] EXCEPT !.attempt = @ + 1]
    <2>1. new \in Job /\ new.step = "download" /\ new.file = job[w].file
      BY <1>1, <1>5, JobTyped DEF FileStep, Job, MayRetry
    <2>2. job' = [job EXCEPT ![w] = new]
      BY <1>5
    <2> HIDE DEF new
    <2> QED BY <1>1, <1>2, <2>1, <2>2, OtherJobs
  <1>6. CASE Answer(w, FALSE)
    <2> DEFINE new == [job[w] EXCEPT !.step = "answer", !.good = FALSE]
    <2>1. new \in Job /\ new.step = "answer" /\ new.file = job[w].file /\ ~new.good
      BY <1>1, JobTyped DEF FileStep, Job
    <2>2. job' = [job EXCEPT ![w] = new]
      BY <1>1, <1>6 DEF Answer, Job
    <2> HIDE DEF new
    <2> QED BY <1>1, <1>2, <2>1, <2>2, OtherJobs
  <1> QED BY <1>3, <1>4, <1>5, <1>6 DEF Download, GiveUp

(* Pasting an image.                                                       *)
LEMMA PastingKeeps ==
  ASSUME SavingInv, NEW w \in Workers, WriteImage(w) \/ StrokeForImage(w)
  PROVE  SavingInv'
  <1>1. JobsTyped /\ job[w].step # "idle" /\ job[w].file \in Files /\ job[w] \in Job
        /\ fileQueue \in Seq(Files) /\ job \in [Workers -> Job]
    BY DEF SavingInv, JobsTyped, WriteImage, StrokeForImage, At
  <1>2. fileQueue' = fileQueue /\ UNCHANGED <<ack, folder, unsaved, saver>>
    BY DEF WriteImage, StrokeForImage, diskVars
  <1>3. ASSUME NEW s \in {"press", "click", "release", "key", "save"}, Goto(w, s)
        PROVE  SavingInv'
    <2> DEFINE new == [job[w] EXCEPT !.step = s]
    <2>a. s \in FileStep /\ job[w] \in Job
      BY <1>1 DEF FileStep, PasteStep
    <2>1. new \in Job /\ new.step = s /\ new.file = job[w].file
      BY <2>a, JobTyped DEF Job
    <2>2. job' = [job EXCEPT ![w] = new]
      BY <1>3 DEF Goto
    <2> HIDE DEF new
    <2> QED BY <1>1, <1>2, <2>1, <2>2, OtherJobs
  <1>4. CASE ToSave(w)
    <2> DEFINE new == [job[w] EXCEPT !.step = "save", !.pasted = TRUE]
    <2>1. new \in Job /\ new.step = "save" /\ new.file = job[w].file
      BY <1>1, JobTyped DEF FileStep, Job
    <2>2. job' = [job EXCEPT ![w] = new]
      BY <1>1, <1>4 DEF ToSave, Job
    <2> HIDE DEF new
    <2> QED BY <1>1, <1>2, <2>1, <2>2, OtherJobs
  <1>5. (\E s \in {"press", "click", "release", "key", "save"} : Goto(w, s)) \/ ToSave(w)
    BY DEF WriteImage, StrokeForImage, ImagePasted
  <1> QED BY <1>3, <1>4, <1>5

-----------------------------------------------------------------------------
(* unique_dest_path finds a free name if there is one.                     *)
LEMMA ChosenIsFree == ChosenSlot \in Slot /\ (FreeSlots # {} => ChosenSlot \in FreeSlots)
  <1>1. CASE FreeSlots = {}
    BY <1>1, SuffixAssumption DEF ChosenSlot, Slot
  <1>2. CASE FreeSlots # {}
    <2>1. FreeSlots \subseteq Slot /\ Slot \subseteq Nat
      BY SuffixAssumption DEF FreeSlots, Slot
    <2>2. PICK x \in FreeSlots : \A y \in FreeSlots : ~(<<y, x>> \in OpToRel(<, Nat))
      <3>1. IsWellFoundedOn(OpToRel(<, Nat), Nat)
        BY NatLessThanWellFounded
      <3>2. FreeSlots \subseteq Nat
        BY <2>1
      <3> QED BY <1>2, <3>1, <3>2, WFMin
    <2>3. \A y \in FreeSlots : x <= y
      <3> SUFFICES ASSUME NEW y \in FreeSlots, ~(x <= y) PROVE FALSE
        OBVIOUS
      <3>1. x \in Nat /\ y \in Nat /\ y < x
        BY <2>1
      <3>2. <<y, x>> \in OpToRel(<, Nat)
        BY <3>1 DEF OpToRel
      <3> QED BY <3>2, <2>2
    <2>4. ChosenSlot \in FreeSlots
      BY <1>2, <2>3 DEF ChosenSlot
    <2> QED BY <2>1, <2>4
  <1> QED BY <1>1, <1>2

LEMMA ChooseNameKeeps ==
  ASSUME SavingInv, NEW w \in Workers, ChooseName(w)
  PROVE  SavingInv'
  <1>1. /\ JobsTyped /\ RenamesAlone /\ NameStillFree /\ AnswersAreTrue /\ AckedFilesAreKept
        /\ job[w].step = "save" /\ job[w].file \in Files /\ job[w] \in Job
    BY DEF SavingInv, JobsTyped, ChooseName, At
  <1>2. /\ saver = NoWorker /\ saver' = w
        /\ UNCHANGED <<fileQueue, ack, folder, unsaved>>
    BY DEF ChooseName, SaveLockFree
  <1> DEFINE new == [job[w] EXCEPT !.step = "rename", !.slot = ChosenSlot]
  <1>3. /\ new \in Job /\ new.file = job[w].file /\ new.step = "rename"
        /\ new.slot = ChosenSlot
    BY <1>1, JobTyped, ChosenIsFree DEF Job, FileStep
  <1>4. job' = [job EXCEPT ![w] = new]
    BY <1>1 DEF ChooseName, JobsTyped, Job
  <1> HIDE DEF new
  <1>5. /\ JobsTyped'
        /\ job'[w] = new
        /\ \A v \in Workers : v # w => job'[v] = job[v]
    <2>1. /\ fileQueue' \in Seq(Files)
          /\ ack' \in [Files -> {"none", "yes", "no"}]
          /\ folder' \in [Slot -> Files \cup {Free, Theirs}]
      BY <1>1, <1>2 DEF JobsTyped
    <2> QED BY <2>1, <1>1, <1>3, <1>4, JobsGoOn
  <1>6. \A v \in Workers : job[v].step # "rename"
    BY <1>1, <1>2, NamesAssumption DEF RenamesAlone, At
  <1>7. FreeSlots' = FreeSlots /\ \A f : Safe(f)' <=> Safe(f)
    BY <1>2 DEF FreeSlots, Safe, Kept
  <1>8. RenamesAlone'
    BY <1>2, <1>5, <1>6 DEF RenamesAlone, At
  <1>9. NameStillFree'
    <2>1. folder[ChosenSlot] = Free \/ FreeSlots = {}
      BY ChosenIsFree DEF FreeSlots
    <2> QED BY <2>1, <1>2, <1>3, <1>5, <1>6, <1>7 DEF NameStillFree, At
  <1>10. AnswersAreTrue'
    <2>1. \A v \in Workers : job'[v].step = "answer" => job'[v] = job[v]
      BY <1>3, <1>5
    <2> QED BY <2>1, <1>1, <1>7 DEF AnswersAreTrue, At
  <1>11. AckedFilesAreKept'
    BY <1>1, <1>2, <1>7 DEF AckedFilesAreKept, Safe
  <1> QED BY <1>5, <1>8, <1>9, <1>10, <1>11 DEF SavingInv

(* A rename in turn takes nothing away that was safe, and the file renamed *)
(* is safe.                                                                *)
LEMMA RenameFolder ==
  ASSUME SavingInv, NEW w \in Workers, At(w, "rename"),
         NEW f, f = job[w].file,
         folder' = [folder EXCEPT ![job[w].slot] = f], unsaved' = unsaved
  PROVE  /\ folder' \in [Slot -> Files \cup {Free, Theirs}]
         /\ FreeSlots' \subseteq FreeSlots
         /\ Safe(f)'
         /\ \A g \in Files : Safe(g) => Safe(g)'
         /\ \A s \in Slot : folder[s] # Free /\ folder'[s] # folder[s] => FreeSlots = {}
  <1> DEFINE slot == job[w].slot
  <1>1. /\ JobsTyped /\ f \in Files /\ slot \in Slot /\ f # Free
        /\ folder[slot] = Free \/ FreeSlots = {}
    BY NamesAssumption DEF SavingInv, JobsTyped, At, NameStillFree, Job
  <1> HIDE DEF slot
  <1>2. /\ folder' \in [Slot -> Files \cup {Free, Theirs}]
        /\ folder'[slot] = f
        /\ \A s \in Slot : s # slot => folder'[s] = folder[s]
    BY <1>1 DEF JobsTyped, slot
  <1>3. FreeSlots' \subseteq FreeSlots
    BY <1>1, <1>2 DEF FreeSlots
  <1>4. Safe(f)'
    BY <1>1, <1>2 DEF Safe, Kept
  <1>5. \A s \in Slot : folder[s] # Free /\ folder'[s] # folder[s] => FreeSlots = {}
    BY <1>1, <1>2
  <1>6. ASSUME NEW g \in Files, Safe(g) PROVE Safe(g)'
    <2>1. CASE Kept(g) /\ FreeSlots # {}
      <3>1. PICK s \in Slot : folder[s] = g
        BY <2>1 DEF Kept
      <3>2. folder'[s] = g
        BY <2>1, <3>1, <1>5, NamesAssumption
      <3> QED BY <3>2 DEF Safe, Kept
    <2>2. CASE g \in unsaved
      BY <2>2 DEF Safe
    <2>3. CASE FreeSlots = {}
      BY <2>3, <1>3 DEF Safe
    <2> QED BY <2>1, <2>2, <2>3, <1>6 DEF Safe
  <1> QED BY <1>2, <1>3, <1>4, <1>5, <1>6

(* Whether the rename succeeds or not, the answer that is prepared is true.*)
LEMMA RenameAnswers ==
  ASSUME SavingInv, NEW w \in Workers, RenameFile(w), NEW f, f = job[w].file
  PROVE  /\ \E good \in BOOLEAN : Answer(w, good) /\ (good => Safe(f)')
         /\ folder' \in [Slot -> Files \cup {Free, Theirs}]
         /\ \A g \in Files : Safe(g) => Safe(g)'
         /\ \A s \in Slot : folder[s] # Free /\ folder'[s] # folder[s] => FreeSlots = {}
  <1>1. At(w, "rename") /\ JobsTyped /\ job[w] \in Job /\ job[w].pasted \in BOOLEAN
    BY DEF RenameFile, SavingInv, JobsTyped, Job
  <1>2. CASE folder' = [folder EXCEPT ![job[w].slot] = f] /\ Answer(w, TRUE) /\ unsaved' = unsaved
    BY <1>1, <1>2, RenameFolder
  <1>3. CASE /\ SavingFailed(w)
             /\ unsaved' = IF job[w].pasted THEN unsaved \cup {job[w].file} ELSE unsaved
             /\ folder' = folder
    <2>1. Answer(w, job[w].pasted)
      BY <1>3 DEF SavingFailed
    <2>2. job[w].pasted => Safe(f)'
      BY <1>3 DEF Safe
    <2>3. FreeSlots' = FreeSlots /\ unsaved \subseteq unsaved'
      BY <1>3 DEF FreeSlots
    <2>4. \A g \in Files : Safe(g) => Safe(g)'
      BY <2>3, <1>3 DEF Safe, Kept
    <2>5. folder' \in [Slot -> Files \cup {Free, Theirs}]
      BY <1>1, <1>3 DEF JobsTyped
    <2> QED BY <2>1, <2>2, <2>4, <2>5, <1>1, <1>3
  <1> QED BY <1>2, <1>3 DEF RenameFile

LEMMA RenameFileKeeps ==
  ASSUME SavingInv, NEW w \in Workers, RenameFile(w)
  PROVE  SavingInv'
  <1>1. /\ JobsTyped /\ RenamesAlone /\ AnswersAreTrue /\ AckedFilesAreKept
        /\ job[w].step = "rename" /\ job[w] \in Job /\ job[w].file \in Files
    BY DEF SavingInv, JobsTyped, RenameFile, At
  <1>2. PICK f \in Files : f = job[w].file
    BY <1>1
  <1>3. PICK good \in BOOLEAN : Answer(w, good) /\ (good => Safe(f)')
    BY <1>2, RenameAnswers
  <1>4. /\ folder' \in [Slot -> Files \cup {Free, Theirs}]
        /\ \A g \in Files : Safe(g) => Safe(g)'
    BY <1>2, RenameAnswers
  <1>5. UNCHANGED <<fileQueue, ack>>
    BY DEF RenameFile
  <1> DEFINE new == [job[w] EXCEPT !.step = "answer", !.good = good]
  <1>6. new \in Job /\ new.file = f /\ new.step = "answer" /\ new.good = good
    BY <1>1, <1>2, JobTyped DEF Job, FileStep
  <1>7. job' = [job EXCEPT ![w] = new]
    BY <1>1, <1>3 DEF Answer, JobsTyped, Job
  <1> HIDE DEF new
  <1>8. /\ JobsTyped'
        /\ job'[w] = new
        /\ \A v \in Workers : v # w => job'[v] = job[v]
    <2>1. fileQueue' \in Seq(Files) /\ ack' \in [Files -> {"none", "yes", "no"}]
      BY <1>1, <1>5 DEF JobsTyped
    <2> QED BY <2>1, <1>1, <1>2, <1>4, <1>6, <1>7, JobsGoOn
  <1>9. \A v \in Workers : job'[v].step # "rename"
    <2>1. saver = w
      BY <1>1 DEF RenamesAlone, At
    <2>2. \A v \in Workers : v # w => job[v].step # "rename"
      BY <2>1, <1>1 DEF RenamesAlone, At
    <2> QED BY <2>2, <1>6, <1>8
  <1>10. RenamesAlone' /\ NameStillFree'
    BY <1>9 DEF RenamesAlone, NameStillFree, At
  <1>11. AnswersAreTrue'
    <2> SUFFICES ASSUME NEW v \in Workers, NEW g \in Files,
                        job'[v].step = "answer", job'[v].good, job'[v].file = g
                 PROVE  Safe(g)'
      BY DEF AnswersAreTrue, At
    <2>1. CASE v = w
      <3>1. g = f /\ good
        BY <2>1, <1>6, <1>8
      <3> QED BY <3>1, <1>3
    <2>2. CASE v # w
      <3>1. Safe(g)
        BY <2>2, <1>1, <1>8 DEF AnswersAreTrue, At
      <3> QED BY <3>1, <1>4
    <2> QED BY <2>1, <2>2
  <1>12. AckedFilesAreKept'
    <2> SUFFICES ASSUME NEW g \in Files, ack[g] = "yes" PROVE Safe(g)'
      BY <1>5 DEF AckedFilesAreKept, Safe
    <2>1. Safe(g)
      BY <1>1 DEF AckedFilesAreKept, Safe
    <2> QED BY <2>1, <1>4
  <1> QED BY <1>1, <1>8, <1>10, <1>11, <1>12 DEF SavingInv

LEMMA AnswerFileKeeps ==
  ASSUME SavingInv, NEW w \in Workers, AnswerFile(w)
  PROVE  SavingInv'
  <1>1. /\ JobsTyped /\ AnswersAreTrue /\ AckedFilesAreKept
        /\ job[w].step = "answer" /\ job[w] \in Job /\ job[w].file \in Files
        /\ ack \in [Files -> {"none", "yes", "no"}]
    BY DEF SavingInv, JobsTyped, AnswerFile, At
  <1>2. /\ job' = [job EXCEPT ![w] = NoJob]
        /\ UNCHANGED <<fileQueue, folder, saver, unsaved>>
        /\ ack' = ack \/ ack' = [ack EXCEPT ![job[w].file] = IF job[w].good THEN "yes" ELSE "no"]
    BY DEF AnswerFile, Tell, diskVars
  <1>3. /\ ack' \in [Files -> {"none", "yes", "no"}]
        /\ \A f \in Files : ack'[f] = "yes" => Safe(f)
    <2>1. job[w].good => Safe(job[w].file)
      BY <1>1 DEF AnswersAreTrue, At
    <2>2. \A f \in Files : ack[f] = "yes" => Safe(f)
      BY <1>1 DEF AckedFilesAreKept, Safe
    <2>3. ack' \in [Files -> {"none", "yes", "no"}]
      BY <1>1, <1>2
    <2>4. ASSUME NEW f \in Files, ack'[f] = "yes" PROVE Safe(f)
      <3>1. ack[f] = "yes" \/ (f = job[w].file /\ job[w].good)
        BY <1>1, <1>2, <2>4
      <3> QED BY <3>1, <2>1, <2>2
    <2> QED BY <2>3, <2>4
  <1>4. /\ JobsTyped'
        /\ job'[w] = NoJob
        /\ \A v \in Workers : v # w => job'[v] = job[v]
    <2>1. fileQueue' \in Seq(Files) /\ folder' \in [Slot -> Files \cup {Free, Theirs}]
      BY <1>1, <1>2 DEF JobsTyped
    <2>2. NoJob \in Job /\ (NoJob.step # "idle" => NoJob.file \in Files)
      BY NoJobTyped
    <2> HIDE DEF NoJob
    <2> QED BY <2>1, <2>2, <1>1, <1>2, <1>3, JobsGoOn
  <1>5. /\ \A v \in Workers : job'[v].step = "rename" =>
              job[v].step = "rename" /\ job'[v].slot = job[v].slot
        /\ \A v \in Workers : job'[v].step = "answer" /\ job'[v].good =>
              job[v].step = "answer" /\ job[v].good /\ job'[v].file = job[v].file
    BY <1>4, NoJobTyped
  <1> QED BY <1>2, <1>3, <1>4, <1>5, FolderStays

LEMMA FileStepsKeep ==
  ASSUME SavingInv, FileNext
  PROVE  SavingInv'
  <1>1. CASE \E f \in Files : ReceiveFile(f) \/ TellDropped(f)
    BY <1>1, SmallSteps
  <1>2. ASSUME NEW w \in Workers, FileWorker(w) \/ Download(w)
        PROVE  SavingInv'
    BY <1>2, TakeFileKeeps, DownloadKeeps, PastingKeeps, ChooseNameKeeps, RenameFileKeeps,
       AnswerFileKeeps DEF FileWorker
  <1> QED BY <1>1, <1>2 DEF FileNext

LEMMA SavingKept == SavingInv /\ [Next]_vars => SavingInv'
  <1> SUFFICES ASSUME SavingInv, [Next]_vars PROVE SavingInv'
    OBVIOUS
  <1>1. CASE FileNext
    BY <1>1, FileStepsKeep
  <1>2. CASE UNCHANGED fileVars
    BY <1>2, SmallSteps
  <1> QED BY <1>1, <1>2 DEF Next, Copy, vars

LEMMA SavingInitially == Init => SavingInv
  <1> SUFFICES ASSUME Init PROVE SavingInv
    OBVIOUS
  <1>1. /\ fileQueue = <<>> /\ ack = [f \in Files |-> "none"] /\ job = [w \in Workers |-> NoJob]
        /\ folder \in [Slot -> {Free, Theirs}]
    BY DEF Init, FilesInit
  <1>2. \A w \in Workers : job[w] \in Job /\ job[w].step = "idle"
    BY <1>1, NoJobTyped
  <1>3. job \in [Workers -> Job]
    BY <1>1, NoJobTyped
  <1>4. JobsTyped
    BY <1>1, <1>2, <1>3 DEF JobsTyped
  <1> QED
    BY <1>1, <1>2, <1>4 DEF SavingInv, RenamesAlone, NameStillFree, AnswersAreTrue,
                            AckedFilesAreKept, At

-----------------------------------------------------------------------------
(* Pasting.                                                                *)
ImageStep(w) == job[w].step \in PasteStep

(* One image at a time, and only when pasting is on.                       *)
ImagesInTurn ==
  \A w \in Workers :
    /\ ImageStep(w) => paster = w
    /\ ImageStep(w) \/ At(w, "image") => AutoPaste

(* Undisturbed, the one that is pasting has its own in the clipboard, and  *)
(* Ctrl is held for it.                                                    *)
CtrlByText == textStep \in {"click", "release"}
CtrlByImage == \E w \in Workers : job[w].step \in {"click", "release"}

TextIsReady ==
  /\ textStep \in {"press", "click"} => clip = textJob
  /\ textStep = "click" => ctrl

ImageIsReady ==
  \A w \in Workers :
    /\ job[w].step \in {"press", "click"} => clip = job[w].file
    /\ job[w].step = "click" => ctrl

CtrlIsHeld == ctrl => CtrlByText \/ CtrlByImage

OwnStrokes == \A s \in typed : s.what \in {s.by, Key}

PasteInv ==
  /\ failures \in Nat
  /\ ImagesInTurn
  /\ failures = 0 /\ ~disturbed =>
       ~Overlap /\ TextIsReady /\ ImageIsReady /\ CtrlIsHeld /\ OwnStrokes

(* Steps of the file workers away from clipboard and keyboard.             *)
PastingStays ==
  \A w \in Workers :
    /\ ImageStep(w)' => ImageStep(w)
    /\ ImageStep(w) => job'[w].step = job[w].step /\ job'[w].file = job[w].file /\ paster' = paster
    /\ At(w, "image")' => AutoPaste

LEMMA AwayFromDesk ==
  ASSUME PasteInv, clipboardVars' = clipboardVars, Noticing, PastingStays
  PROVE  PasteInv'
  <1>1. /\ clip' = clip /\ ctrl' = ctrl /\ typed' = typed /\ failures' = failures
        /\ textStep' = textStep /\ textJob' = textJob
    BY DEF clipboardVars, workerVars, deskVars, historyVars
  <1>2. ASSUME NEW w \in Workers
        PROVE  /\ job[w].step \in PasteStep => job'[w].step = job[w].step /\ job'[w].file = job[w].file
               /\ job'[w].step \in PasteStep => job'[w].step = job[w].step /\ job'[w].file = job[w].file
    BY DEF PastingStays, ImageStep
  <1>3. ImagesInTurn'
    BY DEF PasteInv, ImagesInTurn, ImageStep, PastingStays, At
  <1>4. ASSUME failures' = 0, ~disturbed'
        PROVE  (~Overlap /\ TextIsReady /\ ImageIsReady /\ CtrlIsHeld /\ OwnStrokes)'
    <2>1. failures = 0 /\ ~disturbed /\ ~Overlap'
      BY <1>1, <1>4 DEF Noticing
    <2>2. TextIsReady /\ ImageIsReady /\ CtrlIsHeld /\ OwnStrokes
      BY <2>1 DEF PasteInv
    <2>3. ImageIsReady'
      <3> SUFFICES ASSUME NEW w \in Workers
                   PROVE  /\ job'[w].step \in {"press", "click"} => clip' = job'[w].file
                          /\ job'[w].step = "click" => ctrl'
        BY DEF ImageIsReady
      <3>1. /\ job[w].step \in {"press", "click"} => clip = job[w].file
            /\ job[w].step = "click" => ctrl
        BY <2>2 DEF ImageIsReady
      <3>2. job'[w].step \in {"press", "click"} => job'[w].step \in PasteStep
        BY DEF PasteStep
      <3> QED BY <3>1, <3>2, <1>1, <1>2
    <2>4. CtrlIsHeld'
      <3> SUFFICES ASSUME ctrl, ~CtrlByText PROVE CtrlByImage'
        BY <1>1 DEF CtrlIsHeld, CtrlByText
      <3>1. PICK w \in Workers : job[w].step \in {"click", "release"}
        BY <2>2 DEF CtrlIsHeld, CtrlByImage
      <3>2. job'[w].step = job[w].step
        BY <3>1, <1>2 DEF PasteStep
      <3> QED BY <3>1, <3>2 DEF CtrlByImage
    <2>5. TextIsReady' /\ OwnStrokes'
      BY <2>2, <1>1 DEF TextIsReady, OwnStrokes
    <2> QED BY <2>1, <2>3, <2>4, <2>5
  <1> QED BY <1>1, <1>3, <1>4 DEF PasteInv

(* The text worker leaves the file workers alone.                          *)
LEMMA TextPastes ==
  ASSUME PasteInv, TextWorker \/ (\E t \in Texts : ReceiveText(t)), UNCHANGED fileVars, Noticing
  PROVE  PasteInv'
  <1>1. job' = job /\ paster' = paster
    BY DEF fileVars, jobVars
  <1>2. ImagesInTurn' /\ (ImagePasting' <=> ImagePasting) /\ (CtrlByImage' <=> CtrlByImage)
    BY <1>1 DEF PasteInv, ImagesInTurn, ImageStep, At, ImagePasting, CtrlByImage
  <1>3. failures' \in Nat /\ (failures' = 0 => failures' = failures)
    BY DEF PasteInv, TextWorker, TakeText, TakeSnapshot, WriteText, PressForText, ClickForText,
           ReleaseForText, KeyForText, CheckClipboard, RestoreClipboard, ReceiveText,
           historyVars, CallFails, CallSucceeds, WriteFails, Failing
  <1>4. ASSUME failures' = 0, ~disturbed'
        PROVE  (~Overlap /\ TextIsReady /\ ImageIsReady /\ CtrlIsHeld /\ OwnStrokes)'
    <2>1. failures = 0 /\ failures' = failures /\ ~disturbed /\ ~Overlap'
      BY <1>3, <1>4 DEF Noticing
    <2>2. ~Overlap /\ TextIsReady /\ ImageIsReady /\ CtrlIsHeld /\ OwnStrokes
      BY <2>1 DEF PasteInv
    <2>3. ~Failing
      BY <2>1 DEF Failing
    <2>4. CtrlByImage => ImagePasting
      BY DEF CtrlByImage, ImagePasting, PasteStep
    <2>5. \A w \in Workers : job[w].step \in {"press", "click"} => ImagePasting
      BY DEF ImagePasting, PasteStep
    <2>6. CASE \/ TakeText \/ TakeSnapshot \/ CheckClipboard \/ \E t \in Texts : ReceiveText(t)
      <3>1. /\ clip' = clip /\ ctrl' = ctrl /\ typed' = typed
            /\ \/ /\ textStep \notin {"press", "click", "release"}
                  /\ textStep' \notin {"press", "click", "release"}
               \/ /\ textStep' = textStep
                  /\ textJob' = textJob
        <4>1. CASE TakeText
          BY <4>1 DEF TakeText, deskVars
        <4>2. CASE TakeSnapshot
          BY <4>2, <2>3 DEF TakeSnapshot, deskVars, CallFails
        <4>3. CASE CheckClipboard
          BY <4>3, <2>3 DEF CheckClipboard, deskVars, GoTo, EndText, CallFails
        <4>4. CASE \E t \in Texts : ReceiveText(t)
          BY <4>4 DEF ReceiveText, deskVars
        <4> QED BY <4>1, <4>2, <4>3, <4>4, <2>6
      <3> QED BY <3>1, <2>1, <2>2, <1>1, <1>2
          DEF TextIsReady, ImageIsReady, CtrlIsHeld, CtrlByText, OwnStrokes
    <2>7. CASE WriteText
      <3>1. /\ textStep = "write" /\ clip' = textJob /\ ctrl' = ctrl /\ typed' = typed
            /\ \/ AutoPaste /\ textStep' = "press" /\ textJob' = textJob
               \/ ~AutoPaste /\ textStep' = "idle"
        BY <2>7, <2>3 DEF WriteText, WriteFails, GoTo, EndText
      <3>2. ~ImagePasting
        BY <3>1, <2>1, <1>2 DEF Overlap, TextPasting, PasteInv, ImagesInTurn, ImageStep, ImagePasting
      <3> QED BY <3>1, <3>2, <2>1, <2>2, <2>4, <2>5, <1>1, <1>2
          DEF TextIsReady, ImageIsReady, CtrlIsHeld, CtrlByText, OwnStrokes
    <2>8. CASE PressForText
      <3>1. /\ textStep = "press" /\ clip' = clip /\ ctrl' /\ typed' = typed
            /\ textStep' = "click" /\ textJob' = textJob
        BY <2>8, <2>3 DEF PressForText, CallFails, PressCtrl, GoTo
      <3>2. ~ImagePasting
        BY <3>1, <2>2 DEF Overlap, TextPasting
      <3> QED BY <3>1, <3>2, <2>1, <2>2, <2>4, <2>5, <1>1, <1>2
          DEF TextIsReady, ImageIsReady, CtrlIsHeld, CtrlByText, OwnStrokes
    <2>9. CASE ClickForText
      <3>1. /\ textStep = "click" /\ clip' = clip /\ ctrl' = ctrl
            /\ typed' = typed \cup {[by |-> textJob, what |-> IF ctrl THEN clip ELSE Letter]}
            /\ textStep' = "release" /\ textJob' = textJob
        BY <2>9, <2>3 DEF ClickForText, CallFails, ClickV, Typed, GoTo
      <3>2. ~ImagePasting
        BY <3>1, <2>2 DEF Overlap, TextPasting
      <3>3. ctrl /\ clip = textJob
        BY <3>1, <2>2 DEF TextIsReady
      <3> QED BY <3>1, <3>2, <3>3, <2>1, <2>2, <2>4, <2>5, <1>1, <1>2
          DEF TextIsReady, ImageIsReady, CtrlIsHeld, CtrlByText, OwnStrokes
    <2>10. CASE ReleaseForText
      <3>1. /\ textStep = "release" /\ clip' = clip /\ ~ctrl' /\ typed' = typed
            /\ textStep' \in {"key", "check"} /\ textJob' = textJob
        BY <2>10, <2>3 DEF ReleaseForText, CallFails, ReleaseCtrl, GoTo, AfterPaste
      <3>2. ~ImagePasting
        BY <3>1, <2>2 DEF Overlap, TextPasting
      <3> QED BY <3>1, <3>2, <2>1, <2>2, <2>4, <2>5, <1>1, <1>2
          DEF TextIsReady, ImageIsReady, CtrlIsHeld, CtrlByText, OwnStrokes
    <2>11. CASE KeyForText
      <3>1. /\ textStep = "key" /\ clip' = clip /\ ctrl' = ctrl
            /\ typed' = typed \cup {[by |-> textJob, what |-> IF ctrl THEN CtrlKey ELSE Key]}
            /\ textStep' = "check"
        BY <2>11, <2>3 DEF KeyForText, CallFails, ClickKey, Typed, GoTo
      <3>2. ~ImagePasting
        BY <3>1, <2>2 DEF Overlap, TextPasting
      <3>3. ~ctrl
        BY <3>1, <3>2, <2>2, <2>4 DEF CtrlIsHeld, CtrlByText
      <3> QED BY <3>1, <3>2, <3>3, <2>1, <2>2, <2>4, <2>5, <1>1, <1>2
          DEF TextIsReady, ImageIsReady, CtrlIsHeld, CtrlByText, OwnStrokes
    <2>12. CASE RestoreClipboard
      <3>1. textStep = "set" /\ ctrl' = ctrl /\ typed' = typed /\ textStep' = "idle"
        BY <2>12, <2>3 DEF RestoreClipboard, WriteFails, EndText
      <3>2. ~ImagePasting
        BY <3>1, <2>2 DEF Overlap, TextPasting
      <3> QED BY <3>1, <3>2, <2>1, <2>2, <2>4, <2>5, <1>1, <1>2
          DEF TextIsReady, ImageIsReady, CtrlIsHeld, CtrlByText, OwnStrokes
    <2> QED BY <2>6, <2>7, <2>8, <2>9, <2>10, <2>11, <2>12 DEF TextWorker
  <1> QED BY <1>2, <1>3, <1>4 DEF PasteInv

(* The steps of the file workers that are not about images.                *)
LEMMA OtherFileSteps ==
  ASSUME PasteInv, SavingInv, Noticing,
         \/ \E f \in Files : ReceiveFile(f) \/ TellDropped(f)
         \/ \E w \in Workers : TakeFile(w) \/ Download(w) \/ ChooseName(w) \/ RenameFile(w)
                                 \/ AnswerFile(w)
  PROVE  PasteInv'
  <1>1. job \in [Workers -> Job]
    BY DEF SavingInv, JobsTyped
  <1>2. CASE \E f \in Files : ReceiveFile(f) \/ TellDropped(f)
    <2>1. job' = job /\ paster' = paster /\ clipboardVars' = clipboardVars
      BY <1>2 DEF ReceiveFile, TellDropped
    <2>2. PastingStays
      BY <2>1 DEF PastingStays, ImageStep, At, PasteInv, ImagesInTurn
    <2> QED BY <2>1, <2>2, AwayFromDesk
  <1>3. ASSUME NEW w \in Workers,
               \/ TakeFile(w) \/ Download(w) \/ ChooseName(w) \/ RenameFile(w) \/ AnswerFile(w)
        PROVE  PasteInv'
    <2>1. paster' = paster /\ clipboardVars' = clipboardVars
      BY <1>3 DEF TakeFile, Download, ChooseName, RenameFile, AnswerFile
    <2>2. /\ job[w].step \in {"idle", "download", "save", "rename", "answer"}
          /\ job'[w].step \notin PasteStep /\ (job'[w].step = "image" => AutoPaste)
          /\ \A v \in Workers : v # w => job'[v] = job[v]
      <3>1. CASE TakeFile(w)
        <4>1. PICK way \in Mode :
                job' = [job EXCEPT ![w] = [NoJob EXCEPT !.file = Head(fileQueue),
                                                        !.step = "download", !.way = way]]
          BY <3>1 DEF TakeFile, Ways, Mode
        <4> QED BY <4>1, <3>1, <1>1, NoJobTyped DEF TakeFile, At, PasteStep, NoJob
      <3>2. CASE Download(w)
        BY <3>2, <1>1 DEF Download, At, GiveUp, NoJob, Goto, Answer, MayRetry, PasteStep, Job
      <3>3. CASE ChooseName(w)
        BY <3>3, <1>1 DEF ChooseName, At, PasteStep, Job
      <3>4. CASE RenameFile(w)
        BY <3>4, <1>1 DEF RenameFile, At, Answer, SavingFailed, PasteStep, Job
      <3>5. CASE AnswerFile(w)
        BY <3>5, <1>1 DEF AnswerFile, At, NoJob, PasteStep
      <3> QED BY <3>1, <3>2, <3>3, <3>4, <3>5, <1>3
    <2>3. PastingStays
      <3> SUFFICES ASSUME NEW v \in Workers
                   PROVE  /\ ImageStep(v)' => ImageStep(v)
                          /\ ImageStep(v) => job'[v].step = job[v].step /\ job'[v].file = job[v].file /\ paster' = paster
                          /\ At(v, "image")' => AutoPaste
        BY DEF PastingStays
      <3>1. CASE v = w
        BY <3>1, <2>2 DEF ImageStep, PasteStep, At
      <3>2. CASE v # w
        BY <3>2, <2>1, <2>2 DEF ImageStep, At, PasteInv, ImagesInTurn
      <3> QED BY <3>1, <3>2
    <2> QED BY <2>1, <2>3, AwayFromDesk
  <1> QED BY <1>2, <1>3

(* A worker at its image: the others are not, and the text is not pasted.  *)
LEMMA ImagePastes ==
  ASSUME PasteInv, SavingInv, NEW w \in Workers, WriteImage(w) \/ StrokeForImage(w), Noticing
  PROVE  PasteInv'
  <1>1. /\ job \in [Workers -> Job] /\ job[w] \in Job
        /\ ImagesInTurn /\ AutoPaste
        /\ paster \in {NoWorker, w} \/ ~WriteImage(w)
    BY DEF SavingInv, JobsTyped, PasteInv, ImagesInTurn, ImageStep, PasteStep, WriteImage,
           StrokeForImage, At, PasteLockFree
  <1>2. ASSUME NEW v \in Workers, v # w PROVE job[v].step \notin PasteStep
    BY <1>1, <1>2, NamesAssumption
    DEF ImagesInTurn, ImageStep, PasteStep, WriteImage, StrokeForImage, At, PasteLockFree
  <1>3. textStep' = textStep /\ textJob' = textJob
    BY DEF WriteImage, StrokeForImage, workerVars
  <1>4. /\ job'[w].file = job[w].file
        /\ job'[w].step \in PasteStep => paster' = w
        /\ job'[w].step # "image"
        /\ \A v \in Workers : v # w => job'[v] = job[v]
    BY <1>1 DEF WriteImage, StrokeForImage, ImagesInTurn, ImageStep, PasteStep, At, Goto, ImagePasted,
                ToSave, Unlocked, Job
  <1>5. ImagesInTurn'
    BY <1>1, <1>2, <1>4 DEF ImagesInTurn, ImageStep, At
  <1>6. failures' \in Nat /\ (failures' = 0 => failures' = failures)
    BY DEF PasteInv, WriteImage, StrokeForImage, CallFails, CallSucceeds, WriteFails, Failing,
           historyVars
  <1>7. ASSUME failures' = 0, ~disturbed'
        PROVE  (~Overlap /\ TextIsReady /\ ImageIsReady /\ CtrlIsHeld /\ OwnStrokes)'
    <2>1. failures = 0 /\ ~disturbed /\ ~Overlap' /\ ~Failing
      <3>1. failures = 0
        BY <1>6, <1>7
      <3>2. ~Failing
        BY <3>1, <1>7 DEF Failing
      <3>3. ~disturbed /\ ~Overlap'
        BY <1>7 DEF Noticing
      <3> QED BY <3>1, <3>2, <3>3
    <2>2. ~Overlap /\ TextIsReady /\ ImageIsReady /\ CtrlIsHeld /\ OwnStrokes
      BY <2>1 DEF PasteInv
    <2>3. ~TextPasting
      <3>1. CASE ImageStep(w)
        BY <3>1, <2>2 DEF ImageStep, ImagePasting, Overlap
      <3>2. CASE ImageStep(w)'
        BY <3>2, <2>1, <1>3 DEF ImageStep, ImagePasting, Overlap, TextPasting
      <3>3. ImageStep(w) \/ ImageStep(w)'
        BY <2>1, <1>1 DEF WriteImage, StrokeForImage, WriteFails, Goto, At, ImageStep, PasteStep, Job
      <3> QED BY <3>1, <3>2, <3>3
    <2>4. TextIsReady' /\ ~CtrlByText
      BY <2>3, <1>3 DEF TextPasting, TextIsReady, CtrlByText
    <2>5. \A v \in Workers : v # w => job'[v].step \notin PasteStep
      BY <1>2, <1>4
    <2>6. ctrl => job[w].step \in {"click", "release"}
      BY <2>2, <2>4, <1>2 DEF CtrlIsHeld, CtrlByImage, PasteStep
    <2>7. /\ job[w].step \in {"press", "click"} => clip = job[w].file
          /\ job[w].step = "click" => ctrl
      BY <2>2 DEF ImageIsReady
    <2>8. /\ job'[w].step \in {"press", "click"} => clip' = job[w].file
          /\ job'[w].step = "click" => ctrl'
          /\ ctrl' => job'[w].step \in {"click", "release"}
          /\ OwnStrokes'
      <3>1. CASE WriteImage(w)
        BY <3>1, <2>1, <2>2, <2>6, <1>1 DEF WriteImage, WriteFails, Goto, At, OwnStrokes, Job
      <3>2. CASE At(w, "press") /\ PressCtrl /\ Goto(w, "click")
        BY <3>2, <2>2, <2>7, <1>1 DEF PressCtrl, Goto, At, OwnStrokes, Job
      <3>3. CASE At(w, "click") /\ ClickV(job[w].file) /\ Goto(w, "release")
        BY <3>3, <2>2, <2>7, <1>1 DEF ClickV, Typed, Goto, At, OwnStrokes, Job
      <3>4. CASE At(w, "release") /\ ReleaseCtrl /\ ImagePasted(w)
        BY <3>4, <2>2, <1>1 DEF ReleaseCtrl, ImagePasted, ToSave, Goto, At, OwnStrokes, Job
      <3>5. CASE At(w, "key") /\ ClickKey(job[w].file) /\ ToSave(w)
        BY <3>5, <2>2, <2>6, <1>1 DEF ClickKey, Typed, ToSave, At, OwnStrokes, Job
      <3> QED BY <3>1, <3>2, <3>3, <3>4, <3>5, <2>1 DEF StrokeForImage, CallFails
    <2>9. ImageIsReady' /\ CtrlIsHeld'
      BY <2>5, <2>8, <1>4 DEF ImageIsReady, CtrlIsHeld, CtrlByImage, PasteStep
    <2> QED BY <2>1, <2>4, <2>8, <2>9
  <1> QED BY <1>5, <1>6, <1>7 DEF PasteInv

LEMMA PasteKept == PasteInv /\ SavingInv /\ [Next]_vars => PasteInv'
  <1> SUFFICES ASSUME PasteInv, SavingInv, [Next]_vars PROVE PasteInv'
    OBVIOUS
  <1>1. CASE FileNext /\ Noticing
    BY <1>1, OtherFileSteps, ImagePastes DEF FileNext, FileWorker
  <1>2. CASE (TextWorker \/ \E t \in Texts : ReceiveText(t)) /\ UNCHANGED fileVars /\ Noticing
    BY <1>2, TextPastes
  <1>3. CASE (\E content \in Copies \cup Pictures : Copy(content)) \/ UNCHANGED vars
    <2>1. /\ job' = job /\ paster' = paster /\ ctrl' = ctrl /\ typed' = typed
          /\ failures' = failures /\ textStep' = textStep /\ textJob' = textJob
      BY <1>3 DEF Copy, vars, clipboardVars, workerVars, deskVars, historyVars, fileVars, jobVars
    <2>2. \/ clip' = clip /\ (~disturbed' => ~disturbed)
          \/ ~disturbed' => ~disturbed /\ ~TextPasting /\ ~ImagePasting
      BY <1>3 DEF Copy, vars, clipboardVars, deskVars
    <2>3. ~ImagePasting => \A w \in Workers : job[w].step \notin {"press", "click"}
      BY DEF ImagePasting, PasteStep
    <2>4. ImagesInTurn'
      BY <2>1 DEF PasteInv, ImagesInTurn, ImageStep, At
    <2>5. ASSUME failures' = 0, ~disturbed'
          PROVE  (~Overlap /\ TextIsReady /\ ImageIsReady /\ CtrlIsHeld /\ OwnStrokes)'
      <3>1. ~Overlap /\ TextIsReady /\ ImageIsReady /\ CtrlIsHeld /\ OwnStrokes
        BY <2>1, <2>2, <2>5 DEF PasteInv
      <3>2. ~Overlap' /\ CtrlIsHeld' /\ OwnStrokes'
        BY <3>1, <2>1 DEF Overlap, TextPasting, ImagePasting, CtrlIsHeld, CtrlByText, CtrlByImage,
                          OwnStrokes
      <3>3. TextIsReady' /\ ImageIsReady'
        BY <3>1, <2>1, <2>2, <2>3, <2>5 DEF TextIsReady, ImageIsReady, TextPasting
      <3> QED BY <3>1, <3>2, <3>3
    <2> QED BY <2>1, <2>4, <2>5 DEF PasteInv
  <1> QED BY <1>1, <1>2, <1>3 DEF Next

LEMMA PasteInitially == Init => PasteInv
  <1> SUFFICES ASSUME Init PROVE PasteInv
    OBVIOUS
  <1>1. \A w \in Workers : job[w].step = "idle"
    BY NoJobTyped DEF Init, FilesInit
  <1> QED
    BY <1>1 DEF Init, ClipboardInit, PasteInv, ImagesInTurn, ImageStep, PasteStep, At, Overlap,
                TextPasting, TextIsReady, ImageIsReady, CtrlIsHeld, OwnStrokes

-----------------------------------------------------------------------------
(* The clipboard comes back.                                               *)
UserContent == Files \cup Copies \cup Pictures \cup {Empty}

BetweenLooks == {"press", "click", "release", "key", "check"}

(* While no look is overtaken the worker knows what to put back, or need   *)
(* not.                                                                    *)
BeforeWrite == textStep \in {"idle", "snapshot", "write"} => clip = userClip
AtWrite == textStep = "write" => snapshot = userClip
AfterWrite ==
  textStep \in BetweenLooks => clip = userClip \/ (clip = textJob /\ snapshot = userClip)
AtSet == textStep = "set" => snapshot = userClip

RestoreInv ==
  /\ failures \in Nat
  /\ textQueue \in Seq(Texts)
  /\ textStep # "idle" => textJob \in Texts
  /\ userClip \in UserContent
  /\ AutoPaste /\ Restoring /\ failures = 0 /\ ~overtaken /\ ReadsAsText(userClip) =>
       BeforeWrite /\ AtWrite /\ AfterWrite /\ AtSet

LEMMA RestoreText ==
  ASSUME RestoreInv, TextWorker \/ (\E t \in Texts : ReceiveText(t))
  PROVE  RestoreInv'
  <1>1. userClip' = userClip /\ overtaken' = overtaken
    BY DEF TextWorker, TakeText, TakeSnapshot, WriteText, PressForText, ClickForText,
           ReleaseForText, KeyForText, CheckClipboard, RestoreClipboard, ReceiveText,
           historyVars, CallFails, CallSucceeds, WriteFails
  <1>2. failures' \in Nat /\ (failures' = 0 => failures' = failures)
    BY DEF RestoreInv, TextWorker, TakeText, TakeSnapshot, WriteText, PressForText, ClickForText,
           ReleaseForText, KeyForText, CheckClipboard, RestoreClipboard, ReceiveText,
           historyVars, CallFails, CallSucceeds, WriteFails, Failing
  <1>3. textQueue' \in Seq(Texts) /\ (textStep' # "idle" => textJob' \in Texts)
    <2>1. CASE TakeText
      <3>1. Head(textQueue) \in Texts /\ Tail(textQueue) \in Seq(Texts)
        BY <2>1, FirstOfQueue DEF RestoreInv, TakeText
      <3> QED BY <3>1, <2>1 DEF TakeText
    <2>2. CASE ~TakeText
      BY <2>2 DEF RestoreInv, TextWorker, TakeSnapshot, WriteText, PressForText, ClickForText,
           ReleaseForText, KeyForText, CheckClipboard, RestoreClipboard, ReceiveText, GoTo, EndText
    <2> QED BY <2>1, <2>2
  <1>4. ASSUME AutoPaste, Restoring, failures' = 0, ~overtaken, ReadsAsText(userClip)
        PROVE  (BeforeWrite /\ AtWrite /\ AfterWrite /\ AtSet)'
    <2>1. failures = 0 /\ ~Failing
      <3>1. failures = 0
        BY <1>2, <1>4
      <3> QED BY <3>1, <1>4 DEF Failing
    <2>2. BeforeWrite /\ AtWrite /\ AfterWrite /\ AtSet
      BY <1>4, <2>1 DEF RestoreInv
    <2>3. CASE \E t \in Texts : ReceiveText(t)
      BY <2>2, <2>3, <1>1 DEF ReceiveText, deskVars, BeforeWrite, AtWrite, AfterWrite, AtSet
    <2>4. CASE TakeText
      BY <2>2, <2>4, <1>1, <1>4 DEF TakeText, deskVars, BeforeWrite, AtWrite, AfterWrite, AtSet,
                                    BetweenLooks
    <2>5. CASE TakeSnapshot
      <3>1. textStep = "snapshot" /\ textStep' = "write" /\ clip' = clip
            /\ snapshot' = (IF ReadsAsText(clip) THEN clip ELSE NoText)
        BY <2>1, <2>5 DEF TakeSnapshot, CallFails, deskVars
      <3> QED BY <3>1, <2>2, <1>1, <1>4 DEF BeforeWrite, AtWrite, AfterWrite, AtSet, BetweenLooks
    <2>6. CASE WriteText
      <3>1. textStep = "write" /\ textStep' = "press" /\ clip' = textJob /\ textJob' = textJob
            /\ snapshot' = snapshot
        BY <2>1, <2>6, <1>4 DEF WriteText, WriteFails, GoTo
      <3> QED BY <3>1, <2>2, <1>1 DEF BeforeWrite, AtWrite, AfterWrite, AtSet, BetweenLooks
    <2>7. CASE PressForText \/ ClickForText \/ ReleaseForText \/ KeyForText
      <3>1. textStep \in BetweenLooks /\ textStep' \in BetweenLooks /\ clip' = clip
            /\ textJob' = textJob /\ snapshot' = snapshot
        BY <2>1, <2>7 DEF PressForText, ClickForText, ReleaseForText, KeyForText, CallFails, PressCtrl,
                          ClickV, Typed, ReleaseCtrl, ClickKey, GoTo, AfterPaste, BetweenLooks
      <3> QED BY <3>1, <2>2, <1>1 DEF BeforeWrite, AtWrite, AfterWrite, AtSet, BetweenLooks
    <2>8. CASE CheckClipboard
      <3>1. textStep = "check" /\ clip' = clip
            /\ \/ snapshot # NoText /\ clip = textJob /\ textStep' = "set" /\ snapshot' = snapshot
               \/ (snapshot = NoText \/ clip # textJob) /\ textStep' = "idle"
        BY <2>1, <2>8 DEF CheckClipboard, StillInjected, CallFails, deskVars, GoTo, EndText
      <3>2. textJob \in Texts /\ textJob # userClip /\ userClip # NoText
        BY <3>1, ContentAssumption DEF RestoreInv, UserContent, Content
      <3> QED BY <3>1, <3>2, <2>2, <1>1 DEF BeforeWrite, AtWrite, AfterWrite, AtSet, BetweenLooks
    <2>9. CASE RestoreClipboard
      <3>1. textStep = "set" /\ textStep' = "idle" /\ clip' = snapshot
        BY <2>1, <2>9 DEF RestoreClipboard, WriteFails, EndText
      <3> QED BY <3>1, <2>2, <1>1 DEF BeforeWrite, AtWrite, AfterWrite, AtSet, BetweenLooks
    <2> QED BY <2>3, <2>4, <2>5, <2>6, <2>7, <2>8, <2>9 DEF TextWorker
  <1> QED BY <1>1, <1>2, <1>3, <1>4 DEF RestoreInv

(* Another hand than the text worker's at the clipboard, or none.          *)
LEMMA RestoreOthers ==
  ASSUME RestoreInv, UNCHANGED workerVars, failures' \in {failures, failures + 1},
         \/ UNCHANGED <<clip, userClip, overtaken>>
         \/ UNCHANGED <<userClip, overtaken>> /\ failures' = failures + 1
         \/ \E content \in UserContent : clip' = content /\ UserCopied(content)
  PROVE  RestoreInv'
  <1>1. /\ textQueue' = textQueue /\ textStep' = textStep /\ textJob' = textJob
        /\ snapshot' = snapshot
    BY DEF workerVars
  <1>2. failures' \in Nat /\ (failures' = 0 => failures' = failures /\ failures' # failures + 1)
    BY DEF RestoreInv
  <1>3. userClip' \in UserContent
    BY DEF RestoreInv, UserCopied
  <1>4. ASSUME AutoPaste, Restoring, failures' = 0, ~overtaken', ReadsAsText(userClip')
        PROVE  (BeforeWrite /\ AtWrite /\ AfterWrite /\ AtSet)'
    <2>1. CASE UNCHANGED <<clip, userClip, overtaken>>
      <3>1. BeforeWrite /\ AtWrite /\ AfterWrite /\ AtSet
        BY <2>1, <1>2, <1>4 DEF RestoreInv
      <3> QED BY <3>1, <2>1, <1>1 DEF BeforeWrite, AtWrite, AfterWrite, AtSet
    <2>2. ASSUME NEW content \in UserContent, clip' = content, UserCopied(content)
          PROVE  (BeforeWrite /\ AtWrite /\ AfterWrite /\ AtSet)'
      <3>1. textStep \notin {"write", "set"} /\ clip' = userClip'
        BY <2>2, <1>4 DEF UserCopied
      <3> QED BY <3>1, <1>1 DEF BeforeWrite, AtWrite, AfterWrite, AtSet
    <2> QED BY <2>1, <2>2, <1>2, <1>4
  <1> QED BY <1>1, <1>2, <1>3, <1>4 DEF RestoreInv

LEMMA RestoreKept == RestoreInv /\ SavingInv /\ [Next]_vars => RestoreInv'
  <1> SUFFICES ASSUME RestoreInv, SavingInv, [Next]_vars PROVE RestoreInv'
    OBVIOUS
  <1>1. CASE TextWorker \/ \E t \in Texts : ReceiveText(t)
    BY <1>1, RestoreText
  <1>2. CASE \E content \in Copies \cup Pictures : Copy(content)
    <2>1. PICK content \in Copies \cup Pictures : Copy(content)
      BY <1>2
    <2>2. content \in UserContent
      BY DEF UserContent
    <2> QED BY <2>1, <2>2, RestoreOthers DEF Copy
  <1>3. ASSUME NEW w \in Workers, WriteImage(w)
        PROVE  RestoreInv'
    <2>1. PICK f \in Files : f = job[w].file
      BY <1>3 DEF SavingInv, JobsTyped, WriteImage, At
    <2>2. f \in UserContent
      BY DEF UserContent
    <2> QED BY <1>3, <2>1, <2>2, RestoreOthers DEF WriteImage, WriteFails, Failing
  <1>4. ASSUME NEW w \in Workers, StrokeForImage(w)
        PROVE  RestoreInv'
    BY <1>4, RestoreOthers DEF StrokeForImage, PressCtrl, ClickV, Typed, ReleaseCtrl, ClickKey, CallFails,
                               CallSucceeds, Failing, deskVars, historyVars
  <1>5. CASE UNCHANGED clipboardVars
    BY <1>5, RestoreOthers DEF clipboardVars, deskVars, historyVars
  <1>6. CASE FileNext
    BY <1>3, <1>4, <1>5, <1>6
    DEF FileNext, FileWorker, ReceiveFile, TellDropped, TakeFile, Download, ChooseName, RenameFile,
        AnswerFile
  <1> QED BY <1>1, <1>2, <1>5, <1>6 DEF Next, vars

LEMMA RestoreInitially == Init => RestoreInv
  BY DEF Init, ClipboardInit, RestoreInv, UserContent, BeforeWrite, AtWrite, AfterWrite, AtSet,
         BetweenLooks

(* The worker restores only what it has.                                   *)
SetHasSnapshot == textStep = "set" => snapshot # NoText

LEMMA QueueGrows ==
  ASSUME NEW S, NEW s \in Seq(S), NEW e \in S
  PROVE  Append(s, e) \in Seq(S) /\ Len(Append(s, e)) = Len(s) + 1
  OBVIOUS

LEMMA QueueShrinks ==
  ASSUME NEW S, NEW s \in Seq(S), s # <<>>, NEW n \in Nat, Len(s) <= n
  PROVE  Head(s) \in S /\ Tail(s) \in Seq(S) /\ Len(Tail(s)) <= n
  OBVIOUS

(* What is typed is a stroke.                                              *)
LEMMA StrokesTyped ==
  ASSUME ClipboardTypeOK, NEW who \in Texts \cup Files, ClickV(who) \/ ClickKey(who)
  PROVE  typed' \in SUBSET Stroke
  <1>1. PICK what \in Content \cup {Letter, Key, CtrlKey} :
          typed' = typed \cup {[by |-> who, what |-> what]}
    BY DEF ClickV, ClickKey, Typed, ClipboardTypeOK
  <1> QED BY <1>1 DEF ClipboardTypeOK, Stroke

LEMMA FailuresCounted ==
  ASSUME failures \in 0..MaxFailures, UNCHANGED failures \/ Failing
  PROVE  failures' \in 0..MaxFailures
  BY FailuresAssumption DEF Failing

LEMMA TextTypes ==
  ASSUME ClipboardTypeOK, SetHasSnapshot, RestoreInv, TextWorker \/ \E t \in Texts : ReceiveText(t)
  PROVE  ClipboardTypeOK' /\ SetHasSnapshot'
  <1>1. CASE \E t \in Texts : ReceiveText(t)
    <2>1. PICK t \in Texts : ReceiveText(t)
      BY <1>1
    <2>2. textQueue' \in Seq(Texts) /\ Len(textQueue') <= TextRoom
      BY <2>1, QueueGrows, TextRoomAssumption DEF ReceiveText, ClipboardTypeOK
    <2>3. texts' \in [Texts -> {"away", "queued", "dropped", "taken", "pasted", "failed"}]
      BY <2>1 DEF ReceiveText, ClipboardTypeOK
    <2> QED BY <2>1, <2>2, <2>3
        DEF ReceiveText, ClipboardTypeOK, deskVars, historyVars, SetHasSnapshot
  <1>2. CASE TakeText
    <2>1. Head(textQueue) \in Texts /\ textQueue' \in Seq(Texts) /\ Len(textQueue') <= TextRoom
      BY <1>2, QueueShrinks, TextRoomAssumption DEF TakeText, ClipboardTypeOK
    <2> QED BY <2>1, <1>2 DEF TakeText, ClipboardTypeOK, deskVars, historyVars, SetHasSnapshot, TextStep
  <1>3. CASE TakeSnapshot \/ WriteText
    BY <1>3, FailuresAssumption
    DEF TakeSnapshot, WriteText, WriteFails, CallFails, CallSucceeds, Failing, GoTo, EndText, RestoreInv,
        ClipboardTypeOK, deskVars, historyVars, SetHasSnapshot, TextStep, Content
  <1>4. CASE PressForText \/ ReleaseForText
    <2>1. failures' \in 0..MaxFailures
      BY <1>4, FailuresCounted
      DEF PressForText, ReleaseForText, CallFails, CallSucceeds, historyVars, ClipboardTypeOK
    <2>2. textStep' \in TextStep \ {"set"}
      BY <1>4 DEF PressForText, ReleaseForText, GoTo, AfterPaste, TextStep
    <2>3. UNCHANGED <<textQueue, texts, textJob, snapshot, clip, typed, userClip, overtaken>>
      BY <1>4 DEF PressForText, ReleaseForText, PressCtrl, ReleaseCtrl, CallFails, CallSucceeds, GoTo,
                  deskVars, historyVars
    <2>4. ctrl' \in BOOLEAN
      BY <1>4 DEF PressForText, ReleaseForText, PressCtrl, ReleaseCtrl, CallFails, deskVars,
                  ClipboardTypeOK
    <2> QED BY <2>1, <2>2, <2>3, <2>4 DEF ClipboardTypeOK, SetHasSnapshot
  <1>5. CASE ClickForText \/ KeyForText
    <2>1. textJob \in Texts \cup Files
      BY <1>5 DEF RestoreInv, ClickForText, KeyForText
    <2>2. typed' \in SUBSET Stroke
      BY <1>5, <2>1, StrokesTyped
      DEF ClickForText, KeyForText, CallFails, deskVars, ClipboardTypeOK
    <2> QED BY <1>5, <2>2, FailuresAssumption
        DEF ClickForText, KeyForText, ClickV, ClickKey, Typed, CallFails, CallSucceeds, Failing, GoTo,
            ClipboardTypeOK, deskVars, historyVars, SetHasSnapshot, TextStep
  <1>6. CASE CheckClipboard \/ RestoreClipboard
    <2>1. failures' \in 0..MaxFailures
      BY <1>6, FailuresCounted
      DEF CheckClipboard, RestoreClipboard, CallFails, CallSucceeds, WriteFails, historyVars,
          ClipboardTypeOK
    <2>2. /\ textStep' \in TextStep /\ textJob' \in Texts \cup {NoText}
          /\ snapshot' \in Content \cup {NoText}
          /\ texts' \in [Texts -> {"away", "queued", "dropped", "taken", "pasted", "failed"}]
          /\ SetHasSnapshot' /\ textQueue' = textQueue
      BY <1>6 DEF CheckClipboard, RestoreClipboard, GoTo, EndText, SetHasSnapshot, TextStep,
                  ClipboardTypeOK
    <2>3. clip' \in Content
      BY <1>6 DEF CheckClipboard, RestoreClipboard, WriteFails, CallFails, deskVars, SetHasSnapshot,
                  Content, ClipboardTypeOK
    <2>4. UNCHANGED <<ctrl, typed, userClip, overtaken>>
      BY <1>6 DEF CheckClipboard, RestoreClipboard, WriteFails, CallFails, CallSucceeds, deskVars,
                  historyVars
    <2> QED BY <2>1, <2>2, <2>3, <2>4 DEF ClipboardTypeOK
  <1> QED BY <1>1, <1>2, <1>3, <1>4, <1>5, <1>6 DEF TextWorker

LEMMA DeskTypes ==
  ASSUME ClipboardTypeOK, SetHasSnapshot, SavingInv,
         FileNext \/ UNCHANGED vars \/ (\E content \in Copies \cup Pictures : Copy(content))
  PROVE  ClipboardTypeOK' /\ SetHasSnapshot'
  <1>1. CASE UNCHANGED clipboardVars
    BY <1>1 DEF clipboardVars, workerVars, deskVars, historyVars, ClipboardTypeOK, SetHasSnapshot
  <1>2. CASE \E content \in Copies \cup Pictures : Copy(content)
    BY <1>2 DEF Copy, UserCopied, workerVars, ClipboardTypeOK, SetHasSnapshot, Content
  <1>3. ASSUME NEW w \in Workers, WriteImage(w)
        PROVE  ClipboardTypeOK' /\ SetHasSnapshot'
    <2>1. job[w].file \in Files
      BY <1>3 DEF SavingInv, JobsTyped, WriteImage, At
    <2>2. failures' \in 0..MaxFailures
      BY <1>3, FailuresCounted DEF WriteImage, WriteFails, ClipboardTypeOK
    <2>3. /\ clip' \in Content /\ userClip' \in Content /\ overtaken' \in BOOLEAN
          /\ ctrl' = ctrl /\ typed' = typed
      BY <1>3, <2>1 DEF WriteImage, WriteFails, UserCopied, ClipboardTypeOK, Content
    <2> QED BY <1>3, <2>2, <2>3 DEF WriteImage, workerVars, ClipboardTypeOK, SetHasSnapshot
  <1>4. ASSUME NEW w \in Workers, StrokeForImage(w)
        PROVE  ClipboardTypeOK' /\ SetHasSnapshot'
    <2>1. job[w].file \in Texts \cup Files
      BY <1>4 DEF SavingInv, JobsTyped, StrokeForImage, At
    <2>2. typed' \in SUBSET Stroke
      BY <1>4, <2>1, StrokesTyped
      DEF StrokeForImage, PressCtrl, ReleaseCtrl, CallFails, deskVars, ClipboardTypeOK
    <2>3. failures' \in 0..MaxFailures
      BY <1>4, FailuresCounted DEF StrokeForImage, CallFails, CallSucceeds, historyVars, ClipboardTypeOK
    <2>4. ctrl' \in BOOLEAN /\ UNCHANGED <<clip, userClip, overtaken>>
      BY <1>4 DEF StrokeForImage, PressCtrl, ReleaseCtrl, ClickV, ClickKey, Typed, CallFails,
                  CallSucceeds, deskVars, historyVars, ClipboardTypeOK
    <2> QED BY <1>4, <2>2, <2>3, <2>4 DEF StrokeForImage, workerVars, ClipboardTypeOK, SetHasSnapshot
  <1> QED BY <1>1, <1>2, <1>3, <1>4
      DEF FileNext, FileWorker, ReceiveFile, TellDropped, TakeFile, Download, ChooseName, RenameFile,
          AnswerFile, vars

LEMMA FileTypes ==
  ASSUME FilesTypeOK, SavingInv, SavingInv', FileNext \/ UNCHANGED fileVars
  PROVE  FilesTypeOK'
  <1> USE DEF SavingInv, JobsTyped
  <1>1. /\ fileQueue' \in Seq(Files)
        /\ ack' \in [Files -> {"none", "yes", "no"}]
        /\ job' \in [Workers -> Job]
        /\ folder' \in [Slot -> Files \cup {Free, Theirs}]
    OBVIOUS
  <1>2. CASE UNCHANGED fileVars
    BY <1>2 DEF fileVars, jobVars, diskVars, FilesTypeOK
  <1>3. ASSUME NEW f \in Files, ReceiveFile(f) \/ TellDropped(f)
        PROVE  FilesTypeOK'
    <2>1. Len(fileQueue') <= FileRoom
      <3>1. Len(fileQueue) \in Nat /\ Len(fileQueue) <= FileRoom /\ FileRoom \in Nat
        BY FileRoomAssumption DEF FilesTypeOK
      <3>2. Len(Append(fileQueue, f)) = Len(fileQueue) + 1
        BY QueueGrows
      <3>3. \/ fileQueue' = fileQueue
            \/ fileQueue' = Append(fileQueue, f) /\ Len(fileQueue) < FileRoom
        BY <1>3 DEF ReceiveFile, TellDropped
      <3>4. CASE fileQueue' = fileQueue
        BY <3>1, <3>4
      <3>5. CASE fileQueue' = Append(fileQueue, f) /\ Len(fileQueue) < FileRoom
        <4>1. Len(fileQueue') = Len(fileQueue) + 1
          BY <3>2, <3>5
        <4> QED BY <4>1, <3>1, <3>5
      <3> QED BY <3>3, <3>4, <3>5
    <2>2. files' \in [Files -> {"away", "queued", "dropped", "taken", "done"}]
      BY <1>3 DEF ReceiveFile, TellDropped, Tell, FilesTypeOK
    <2> QED BY <1>1, <1>3, <2>1, <2>2 DEF ReceiveFile, TellDropped, diskVars, FilesTypeOK
  <1>4. ASSUME NEW w \in Workers, FileWorker(w) \/ Download(w)
        PROVE  FilesTypeOK'
    <2>1. CASE TakeFile(w)
      <3>1. Head(fileQueue) \in Files /\ Len(fileQueue') <= FileRoom
        BY <2>1, QueueShrinks, FileRoomAssumption DEF TakeFile, FilesTypeOK
      <3> QED BY <1>1, <2>1, <3>1 DEF TakeFile, diskVars, FilesTypeOK
    <2>2. CASE Download(w)
      BY <1>1, <2>2 DEF Download, GiveUp, diskVars, FilesTypeOK
    <2>3. CASE WriteImage(w) \/ StrokeForImage(w)
      <3>1. paster' \in Workers \cup {NoWorker}
        BY <2>3 DEF WriteImage, StrokeForImage, ImagePasted, ToSave, Unlocked, FilesTypeOK
      <3> QED BY <1>1, <2>3, <3>1 DEF WriteImage, StrokeForImage, diskVars, FilesTypeOK
    <2>4. CASE ChooseName(w) \/ AnswerFile(w)
      BY <1>1, <2>4 DEF ChooseName, AnswerFile, Tell, diskVars, FilesTypeOK
    <2>5. CASE RenameFile(w)
      <3>1. job[w].file \in Files
        BY <2>5 DEF RenameFile, At
      <3> QED BY <1>1, <2>5, <3>1 DEF RenameFile, FilesTypeOK
    <2> QED BY <1>4, <2>1, <2>2, <2>3, <2>4, <2>5 DEF FileWorker
  <1> QED BY <1>2, <1>3, <1>4 DEF FileNext

-----------------------------------------------------------------------------
DeliveryInv ==
  /\ DeliveryTypeOK
  /\ SetHasSnapshot
  /\ SavingInv
  /\ PasteInv
  /\ RestoreInv

LEMMA TypesInitially == Init => DeliveryTypeOK /\ SetHasSnapshot
  <1> SUFFICES ASSUME Init PROVE DeliveryTypeOK /\ SetHasSnapshot
    OBVIOUS
  <1>1. ClipboardTypeOK /\ SetHasSnapshot
    <2>1. textQueue \in Seq(Texts) /\ Len(textQueue) <= TextRoom
      BY TextRoomAssumption DEF Init, ClipboardInit
    <2>2. texts \in [Texts -> {"away", "queued", "dropped", "taken", "pasted", "failed"}]
      BY DEF Init, ClipboardInit
    <2>3. failures \in 0..MaxFailures
      BY FailuresAssumption DEF Init, ClipboardInit
    <2> QED BY <2>1, <2>2, <2>3
        DEF Init, ClipboardInit, ClipboardTypeOK, SetHasSnapshot, Content, TextStep
  <1>2. FilesTypeOK
    <2>1. job \in [Workers -> Job]
      BY NoJobTyped DEF Init, FilesInit
    <2>2. folder \in [Slot -> Files \cup {Free, Theirs}]
      BY DEF Init, FilesInit
    <2> QED BY <2>1, <2>2, FileRoomAssumption DEF Init, FilesInit, FilesTypeOK
  <1> QED BY <1>1, <1>2 DEF Init, DeliveryTypeOK

LEMMA TypesKept ==
  ASSUME DeliveryInv, [Next]_vars, SavingInv'
  PROVE  DeliveryTypeOK' /\ SetHasSnapshot'
  <1>1. ClipboardTypeOK' /\ SetHasSnapshot'
    BY TextTypes, DeskTypes DEF DeliveryInv, DeliveryTypeOK, Next
  <1>2. FilesTypeOK'
    BY FileTypes DEF DeliveryInv, DeliveryTypeOK, Next, Copy, vars
  <1>3. disturbed' \in BOOLEAN
    BY DEF DeliveryInv, DeliveryTypeOK, Next, Noticing, Copy, vars
  <1> QED BY <1>1, <1>2, <1>3 DEF DeliveryTypeOK

LEMMA DeliveryInvariant == Spec => []DeliveryInv
  <1>1. Init => DeliveryInv
    BY TypesInitially, SavingInitially, PasteInitially, RestoreInitially DEF DeliveryInv
  <1>2. DeliveryInv /\ [Next]_vars => DeliveryInv'
    <2> SUFFICES ASSUME DeliveryInv, [Next]_vars PROVE DeliveryInv'
      OBVIOUS
    <2>1. SavingInv' /\ PasteInv' /\ RestoreInv'
      BY SavingKept, PasteKept, RestoreKept DEF DeliveryInv
    <2>2. DeliveryTypeOK' /\ SetHasSnapshot'
      BY <2>1, TypesKept
    <2> QED BY <2>1, <2>2 DEF DeliveryInv
  <1> QED
    BY <1>1, <1>2, PTL DEF Spec

(* The variables of the PC's workers keep their types; neither queue       *)
(* outgrows its room (ui.rs:126, 139).                         *)
THEOREM DeliveryTypeCorrect == Spec => []DeliveryTypeOK
  <1>1. DeliveryInv => DeliveryTypeOK
    BY DEF DeliveryInv
  <1> QED
    BY <1>1, DeliveryInvariant, PTL

(* The server is never told that a file was received which is neither in   *)
(* the folder nor pasted, whatever the workers do at once                  *)
(* (file_handler.rs:877).                                                  *)
THEOREM AckedFilesStay == Spec => []AckedFilesAreKept
  <1>1. DeliveryInv => AckedFilesAreKept
    BY DEF DeliveryInv, SavingInv
  <1> QED
    BY <1>1, DeliveryInvariant, PTL

(* No file in the folder is replaced while a name is free                  *)
(* (file_handler.rs:943).                                                  *)
THEOREM NothingReplaced == Spec => FolderIsKept
  <1>1. DeliveryInv /\ [Next]_vars =>
          [\A s \in Slot : folder[s] # Free /\ folder'[s] # folder[s] => FreeSlots = {}]_vars
    <2> SUFFICES ASSUME DeliveryInv, Next
                 PROVE  \A s \in Slot : folder[s] # Free /\ folder'[s] # folder[s] => FreeSlots = {}
      OBVIOUS
    <2>1. CASE folder' = folder
      BY <2>1
    <2>2. ASSUME NEW w \in Workers, RenameFile(w)
          PROVE  \A s \in Slot : folder[s] # Free /\ folder'[s] # folder[s] => FreeSlots = {}
      BY <2>2, RenameAnswers DEF DeliveryInv
    <2> QED BY <2>1, <2>2
        DEF Next, Copy, FileNext, FileWorker, ReceiveFile, TellDropped, TakeFile, Download, WriteImage,
            StrokeForImage, ChooseName, AnswerFile, fileVars, diskVars
  <1> QED
    BY <1>1, DeliveryInvariant, PTL DEF Spec, FolderIsKept

(* Undisturbed, every paste types what it was made for (ui.rs:87,          *)
(* clipboard.rs:191).                                                      *)
THEOREM PastesAreTheirOwn == Spec => []PastesAreOwn
  <1>1. DeliveryInv => PastesAreOwn
    BY DEF DeliveryInv, PasteInv, OwnStrokes, PastesAreOwn
  <1> QED
    BY <1>1, DeliveryInvariant, PTL

(* What the user had in the clipboard, or put there while a text was being *)
(* pasted, is there afterwards (clipboard.rs:57).                          *)
THEOREM ClipboardRestored == Spec => []ClipboardComesBack
  <1>1. DeliveryInv => ClipboardComesBack
    BY DEF DeliveryInv, RestoreInv, BeforeWrite, ClipboardComesBack
  <1> QED
    BY <1>1, DeliveryInvariant, PTL

=============================================================================
