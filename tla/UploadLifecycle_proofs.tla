----------------------- MODULE UploadLifecycle_proofs -----------------------
(***************************************************************************)
(* Theorems about the upload store, for every number of uploads and        *)
(* pairings and all limits.                                                *)
(***************************************************************************)
EXTENDS UploadLifecycle, FunctionSums, FiniteSetTheorems, TLAPS

USE DEF Owners, Status, Debt, Mode, Stage, Ended, indexVars, accountVars, permitVars, diskVars,
        storeVars, handlerVars, clientVars, cleanerVars, sweeperVars, boundVars

LEMMA MonusType ==
  ASSUME NEW a \in Nat, NEW b \in Nat
  PROVE  Monus(a, b) \in Nat
BY DEF Monus

LEMMA SizeLimit ==
  /\ MaxUploadSize \in Nat /\ MaxPerPairing \in Nat /\ MaxFiles \in Nat
  /\ MaxBytes \in Nat /\ MaxStreams \in Nat
BY LimitsAssumption

(* What the operations of the store make of its variables.                 *)
LEMMA BeginUploadType ==
  ASSUME StoreTypeOK, NEW f \in Files, NEW p \in Pairings, BeginUpload(f, p)
  PROVE  /\ status' \in [Files -> Status]
         /\ owner' \in [Files -> Owners]
         /\ size' \in [Files -> 0..MaxUploadSize]
         /\ reserved' \in [Owners -> SUBSET Files]
         /\ pendingCount' \in [Owners -> Nat]
         /\ pendingFiles' \in Nat
         /\ closed' = closed
BY SizeLimit DEF StoreTypeOK, BeginUpload, Reserve

LEMMA ReleaseType ==
  ASSUME StoreTypeOK, NEW f \in Files, NEW p \in Owners, NEW amount, Release(f, p, amount)
  PROVE  /\ reserved' \in [Owners -> SUBSET Files]
         /\ pendingCount' \in [Owners -> Nat]
         /\ pendingFiles' \in Nat
         /\ closed' = closed
<1>1. CASE f \in reserved[p]
  <2>1. Monus(pendingCount[p], 1) \in Nat /\ Monus(pendingFiles, 1) \in Nat
    BY MonusType DEF StoreTypeOK
  <2>2. /\ reserved' = [reserved EXCEPT ![p] = @ \ {f}]
        /\ pendingCount' = [pendingCount EXCEPT ![p] = Monus(pendingCount[p], 1)]
        /\ pendingFiles' = Monus(pendingFiles, 1)
        /\ closed' = closed
    BY <1>1 DEF Release
  <2> QED
    BY <2>1, <2>2 DEF StoreTypeOK
<1>2. CASE f \notin reserved[p]
  BY <1>2 DEF Release, StoreTypeOK
<1> QED
  BY <1>1, <1>2

LEMMA UnindexType ==
  ASSUME StoreTypeOK, NEW f \in Files, Unindex(f)
  PROVE  /\ status' \in [Files -> Status]
         /\ owner' \in [Files -> Owners]
         /\ size' \in [Files -> 0..MaxUploadSize]
BY SizeLimit DEF StoreTypeOK, Unindex

LEMMA RemoveEntryType ==
  ASSUME StoreTypeOK, NEW f \in Files, NEW delete \in BOOLEAN, RemoveEntry(f, delete)
  PROVE  /\ status' \in [Files -> Status]
         /\ owner' \in [Files -> Owners]
         /\ size' \in [Files -> 0..MaxUploadSize]
         /\ owed' \in SUBSET Debt
<1>1. CASE status[f] # "absent"
  <2>1. [file |-> f, owner |-> owner[f], amount |-> size[f], delete |-> delete] \in Debt
    BY SizeLimit DEF StoreTypeOK
  <2> QED
    BY <1>1, <2>1, UnindexType DEF RemoveEntry, StoreTypeOK
<1>2. CASE status[f] = "absent"
  BY <1>2 DEF RemoveEntry, StoreTypeOK
<1> QED
  BY <1>1, <1>2

LEMMA RollbackType ==
  ASSUME StoreTypeOK, NEW f \in Files, NEW p \in Owners, RollbackUpload(f, p)
  PROVE  /\ status' \in [Files -> Status]
         /\ owner' \in [Files -> Owners]
         /\ size' \in [Files -> 0..MaxUploadSize]
         /\ owed' \in SUBSET Debt
         /\ channels' \in SUBSET Files
<1> DEFINE amount == IF status[f] = "absent" THEN MaxUploadSize ELSE size[f]
<1>1. amount \in Nat
  BY SizeLimit DEF StoreTypeOK
<1>2. [file |-> f, owner |-> p, delete |-> FALSE, amount |-> amount] \in Debt
  BY <1>1
<1> QED
  BY <1>2, UnindexType DEF RollbackUpload, StoreTypeOK

LEMMA StoreType ==
  ASSUME StoreTypeOK, NEW f \in Files, NEW s \in Status, Store(f, s)
  PROVE  /\ status' \in [Files -> Status]
         /\ owner' \in [Files -> Owners]
         /\ size' \in [Files -> 0..MaxUploadSize]
         /\ reserved' \in [Owners -> SUBSET Files]
         /\ pendingCount' \in [Owners -> Nat]
         /\ pendingFiles' \in Nat
         /\ closed' = closed
BY DEF StoreTypeOK, Store

LEMMA FoundFinite ==
  IsFiniteSet(Found) /\ Cardinality(Found) \in Nat
BY FilesAssumption, FS_Subset, FS_CardinalityType DEF Found

LEMMA BaselineType ==
  ASSUME StoreTypeOK, Baseline
  PROVE  StoreTypeOK'
<1>1. Cardinality(Found) \in Nat /\ Found \subseteq Files
  BY FoundFinite DEF Found
<1>2. /\ status' \in [Files -> Status]
      /\ owner' \in [Files -> Owners]
      /\ size' \in [Files -> 0..MaxUploadSize]
  BY <1>1, SizeLimit DEF Baseline, StoreTypeOK
<1>3. /\ reserved' \in [Owners -> SUBSET Files]
      /\ pendingCount' \in [Owners -> Nat]
      /\ pendingFiles' \in Nat
  BY <1>1 DEF Baseline
<1>4. /\ closed' \in SUBSET Pairings /\ owed' \in SUBSET Debt
      /\ semaphores' \in [Owners -> Files \cup {NoFile}]
      /\ semaphore' \in [Files -> Files \cup {NoFile}] /\ permits' \in [Files -> SUBSET Files]
      /\ channels' \in SUBSET Files /\ deleting' \in SUBSET Files
  BY DEF Baseline
<1>5. UNCHANGED <<disk, written, expired>>
  BY DEF Baseline
<1> QED
  BY <1>2, <1>3, <1>4, <1>5 DEF StoreTypeOK

LEMMA ReturnPermitType ==
  ASSUME StoreTypeOK, NEW f \in Files, ReturnPermit(f)
  PROVE  /\ semaphores' \in [Owners -> Files \cup {NoFile}]
         /\ semaphore' \in [Files -> Files \cup {NoFile}]
         /\ permits' \in [Files -> SUBSET Files]
BY DEF StoreTypeOK, ReturnPermit

-----------------------------------------------------------------------------
LEMMA TypeInit == Init => UploadTypeOK
<1>1. StoreInit => StoreTypeOK
  BY SizeLimit DEF StoreInit, StoreTypeOK
<1>2. Init => pc \in [Files -> Stage] /\ pairing \in [Files -> Owners] /\ mode \in [Files -> Mode]
  BY DEF Init
<1>3. Init => swept \in BOOLEAN
  BY DEF Init
<1>4. Init => sweepPath \in {"none", "tmp", "final"} /\ drops \in Nat /\ restarts \in Nat
  BY DEF Init
<1> QED
  BY <1>1, <1>2, <1>3, <1>4 DEF Init, UploadTypeOK

LEMMA TypeStart ==
  ASSUME UploadTypeOK, NEW f \in Files, NEW p \in Pairings, StartUpload(f, p)
  PROVE  UploadTypeOK'
<1>1. StoreTypeOK
  BY DEF UploadTypeOK
<1>2. BeginUpload(f, p)
  BY DEF StartUpload
<1>3. /\ mode' \in [Files -> Mode] /\ pc' \in [Files -> Stage]
      /\ channels' \in SUBSET Files /\ pairing' \in [Files -> Owners]
  BY DEF StartUpload, Goto, UploadTypeOK, StoreTypeOK
<1> QED
  BY <1>1, <1>2, <1>3, BeginUploadType DEF StartUpload, UploadTypeOK, StoreTypeOK

LEMMA TypeHandlerStream ==
  ASSUME UploadTypeOK, NEW f \in Files,
         \/ FindSemaphore(f) \/ AcquirePermit(f) \/ Announce(f) \/ CreateFile(f) \/ BreakStream(f)
         \/ FailReceive(f) \/ RenameFile(f) \/ Rollback(f) \/ FinalizeStream(f)
         \/ MarkStreamingDone(f) \/ FinishStream(f)
  PROVE  UploadTypeOK'
<1> USE DEF UploadTypeOK, Goto
<1>0. CASE FindSemaphore(f)
  BY <1>0 DEF FindSemaphore, SemaphoreFor, StoreTypeOK
<1>1. CASE AcquirePermit(f)
  BY <1>1 DEF AcquirePermit, StoreTypeOK
<1>2. CASE Announce(f)
  BY <1>2 DEF Announce, StoreTypeOK
<1>3. CASE CreateFile(f)
  BY <1>3 DEF CreateFile, StoreTypeOK
<1>4. CASE BreakStream(f)
  BY <1>4 DEF BreakStream, StoreTypeOK
<1>5. CASE FailReceive(f)
  BY <1>5 DEF FailReceive, StoreTypeOK
<1>6. CASE RenameFile(f)
  BY <1>6 DEF RenameFile, BodySizes, StoreTypeOK
<1>7. CASE Rollback(f)
  <2>1. pairing[f] \in Owners
    OBVIOUS
  <2> QED
    BY <1>7, <2>1, RollbackType, ReturnPermitType DEF Rollback, StoreTypeOK
<1>8. CASE FinalizeStream(f)
  <2>1. (IF owner[f] \in closed THEN "StoredUnnotified" ELSE "Notified") \in Status
    OBVIOUS
  <2> QED
    BY <1>8, <2>1, StoreType DEF FinalizeStream, StoreTypeOK
<1>9. CASE MarkStreamingDone(f)
  BY <1>9, StoreType DEF MarkStreamingDone, StoreTypeOK
<1>10. CASE FinishStream(f)
  BY <1>10, ReturnPermitType DEF FinishStream, StoreTypeOK
<1> QED
  BY <1>0, <1>1, <1>2, <1>3, <1>4, <1>5, <1>6, <1>7, <1>8, <1>9, <1>10

LEMMA TypeHandlerRelay ==
  ASSUME UploadTypeOK, NEW f \in Files,
         \/ SaveFile(f) \/ Discard(f) \/ ReadMeta(f) \/ BeginNotifying(f)
         \/ Push(f) \/ MarkNotified(f) \/ MarkNotifyFailed(f) \/ DropHandler(f)
  PROVE  UploadTypeOK'
<1> USE DEF UploadTypeOK, Goto
<1>1. CASE SaveFile(f)
  <2>1. CASE pairing[f] \in closed
    <3>1. pairing[f] \in Owners
      OBVIOUS
    <3> QED
      BY <1>1, <2>1, <3>1, UnindexType, ReleaseType DEF SaveFile, StoreTypeOK
  <2>2. CASE pairing[f] \notin closed
    BY <1>1, <2>2, StoreType DEF SaveFile, StoreTypeOK
  <2> QED
    BY <2>1, <2>2
<1>2. CASE Discard(f)
  BY <1>2, SizeLimit DEF Discard, EraseFile, StoreTypeOK
<1>3. CASE ReadMeta(f)
  BY <1>3 DEF ReadMeta, StoreTypeOK
<1>4. CASE BeginNotifying(f)
  BY <1>4 DEF BeginNotifying, StoreTypeOK
<1>5. CASE Push(f)
  BY <1>5 DEF Push, StoreTypeOK
<1>6. CASE MarkNotified(f)
  BY <1>6 DEF MarkNotified, StoreTypeOK
<1>7. CASE MarkNotifyFailed(f)
  BY <1>7, RemoveEntryType DEF MarkNotifyFailed, StoreTypeOK
<1>8. CASE DropHandler(f)
  BY <1>8, ReturnPermitType DEF DropHandler, StoreTypeOK
<1> QED
  BY <1>1, <1>2, <1>3, <1>4, <1>5, <1>6, <1>7, <1>8

LEMMA TypeOther ==
  ASSUME UploadTypeOK,
         \/ \E f \in Files : Client(f) \/ DeleteFile(f) \/ Expire(f)
         \/ \E p \in Pairings : ClosePairing(p)
         \/ PayOwed \/ Cleaner \/ Sweeper \/ Restart
  PROVE  UploadTypeOK'
<1> USE DEF UploadTypeOK
<1>1. CASE \E f \in Files : Download(f)
  BY <1>1 DEF Download, StoreTypeOK
<1>2. CASE \E f \in Files : EndStreamFile(f)
  BY <1>2 DEF EndStreamFile, StoreTypeOK
<1>3. CASE \E f \in Files : Acknowledge(f)
  BY <1>3, RemoveEntryType DEF Acknowledge, StoreTypeOK
<1>4. CASE \E f \in Files : DeleteFile(f)
  BY <1>4, SizeLimit DEF DeleteFile, EraseFile, StoreTypeOK
<1>5. CASE \E f \in Files : Expire(f)
  BY <1>5 DEF Expire, StoreTypeOK
<1>6. CASE \E p \in Pairings : ClosePairing(p)
  BY <1>6 DEF ClosePairing, StoreTypeOK
<1>7. CASE PayOwed
  <2>1. PICK debt \in owed : PayDebt(debt)
    BY <1>7 DEF PayOwed
  <2>2. debt.file \in Files /\ debt.owner \in Owners
    BY DEF StoreTypeOK
  <2>3. owed' \in SUBSET Debt /\ deleting' \in SUBSET Files
    BY <2>1, <2>2 DEF PayDebt, StoreTypeOK
  <2>4. Release(debt.file, debt.owner, debt.amount)
    BY <2>1 DEF PayDebt
  <2> QED
    BY <1>7, <2>2, <2>3, <2>4, ReleaseType DEF PayOwed, StoreTypeOK
<1>8. CASE \E f \in Files : CheckFile(f)
  BY <1>8 DEF CheckFile, StoreTypeOK
<1>9. CASE RemoveDoomed
  <2>1. doomed \in Files
    BY <1>9 DEF RemoveDoomed
  <2> QED
    BY <1>9, <2>1, RemoveEntryType DEF RemoveDoomed, StoreTypeOK
<1>10. CASE DropSemaphore
  BY <1>10 DEF DropSemaphore, StoreTypeOK
<1>11. CASE \E f \in Files : SweepPath(f)
  BY <1>11 DEF SweepPath, StoreTypeOK
<1>12. CASE SweepFile
  <2>1. CASE disk[sweeping] = sweepPath
    <3>1. /\ disk' = [disk EXCEPT ![sweeping] = "none"]
          /\ written' = [written EXCEPT ![sweeping] = 0]
          /\ swept' = TRUE /\ UNCHANGED <<sweeping, sweepPath>>
      BY <1>12, <2>1 DEF SweepFile, EraseFile
    <3> QED
      BY <1>12, <3>1, SizeLimit DEF SweepFile, StoreTypeOK
  <2>2. CASE disk[sweeping] # sweepPath
    BY <1>12, <2>2 DEF SweepFile, StoreTypeOK
  <2> QED
    BY <2>1, <2>2
<1>13. CASE SweepEntry
  <2>1. sweeping \in Files
    BY <1>13 DEF SweepEntry
  <2> QED
    BY <1>13, <2>1, RemoveEntryType DEF SweepEntry, StoreTypeOK
<1>14. CASE Restart
  <2>1. StoreTypeOK'
    BY <1>14, BaselineType DEF Restart
  <2>2. pc' \in [Files -> Stage] /\ restarts' \in Nat
    BY <1>14, BoundsAssumption DEF Restart
  <2> QED
    BY <1>14, <2>1, <2>2 DEF Restart
<1> QED
  BY <1>1, <1>2, <1>3, <1>4, <1>5, <1>6, <1>7, <1>8, <1>9, <1>10, <1>11, <1>12, <1>13, <1>14
     DEF Client, Cleaner, Sweeper

LEMMA TypeUnchanged ==
  ASSUME UploadTypeOK, UNCHANGED vars
  PROVE  UploadTypeOK'
BY DEF vars, UploadTypeOK, StoreTypeOK

LEMMA TypeStep == UploadTypeOK /\ [Next]_vars => UploadTypeOK'
BY TypeStart, TypeHandlerStream, TypeHandlerRelay, TypeOther, TypeUnchanged DEF Next, Handler

(* Every variable keeps its type; sizes stay within the upload limit.      *)
THEOREM UploadTypeCorrect == Spec => []UploadTypeOK
BY TypeInit, TypeStep, PTL DEF Spec

-----------------------------------------------------------------------------
(* The account.  CountsAgree and QuotaFollowsEntries are not inductive:    *)
(* a release changes the counts by what its debt says, so a debt must name *)
(* the right account and be of a file without an entry; and what a handler *)
(* rolls back must be in the account of the pairing it works for.          *)

(* A debt is of a file without an entry, in the account it names or none.  *)
Debts ==
  \A debt \in owed :
    /\ status[debt.file] = "absent"
    /\ pc[debt.file] # "idle"
    /\ \A p \in Owners : debt.file \in reserved[p] => p = debt.owner

(* A handler's file is in the account of the handler's pairing or in none. *)
Ownership ==
  \A f \in Files : Running(f) => \A p \in Owners : f \in reserved[p] => p = pairing[f]

(* An upload that has not begun has left no trace.                         *)
Unused ==
  \A f \in Files :
    pc[f] = "idle" =>
      /\ status[f] = "absent"
      /\ \A p \in Owners : f \notin reserved[p]
      /\ disk[f] = "none"

AccountInv == CountsAgree /\ QuotaFollowsEntries /\ Debts /\ Ownership /\ Unused

(* What no handler does: begin an upload again, or resume one.             *)
HandlersGoOn ==
  \A f \in Files : /\ pc'[f] = "idle" <=> pc[f] = "idle"
                   /\ Running(f)' => Running(f)

LEMMA PendingIs ==
  ASSUME NEW f
  PROVE  f \in Pending <=> \E p \in Owners : f \in reserved[p]
BY DEF Pending

LEMMA PendingFinite ==
  ASSUME StoreTypeOK
  PROVE  /\ IsFiniteSet(Pending)
         /\ \A p \in Owners : IsFiniteSet(reserved[p])
<1>1. Pending \subseteq Files
  BY DEF Pending, StoreTypeOK
<1>2. \A p \in Owners : reserved[p] \subseteq Files
  BY DEF StoreTypeOK
<1> QED
  BY <1>1, <1>2, FilesAssumption, FS_Subset

LEMMA OneLess ==
  ASSUME NEW S, IsFiniteSet(S), NEW x \in S
  PROVE  /\ Cardinality(S) \in Nat /\ Cardinality(S) >= 1
         /\ Cardinality(S \ {x}) = Cardinality(S) - 1
<1>1. Cardinality(S) \in Nat
  BY FS_CardinalityType
<1>2. Cardinality(S) # 0
  BY FS_EmptySet
<1>3. Cardinality(S \ {x}) = Cardinality(S) - 1
  BY FS_RemoveElement
<1> QED
  BY <1>1, <1>2, <1>3

(* A release takes one file out of one account and out of the global one.  *)
LEMMA CountsAfterRelease ==
  ASSUME StoreTypeOK, CountsAgree, NEW f \in Files, NEW p \in Owners, NEW amount,
         Release(f, p, amount)
  PROVE  CountsAgree'
<1>1. CASE f \notin reserved[p]
  BY <1>1 DEF Release, CountsAgree, Pending
<1>2. CASE f \in reserved[p]
  <2>1. /\ reserved' = [reserved EXCEPT ![p] = @ \ {f}]
        /\ pendingCount' = [pendingCount EXCEPT ![p] = Monus(pendingCount[p], 1)]
        /\ pendingFiles' = Monus(pendingFiles, 1)
    BY <1>2 DEF Release
  <2>2. f \in Pending
    BY <1>2, PendingIs
  <2>3. /\ Cardinality(reserved[p]) \in Nat /\ Cardinality(reserved[p]) >= 1
        /\ Cardinality(reserved[p] \ {f}) = Cardinality(reserved[p]) - 1
    BY <1>2, PendingFinite, OneLess
  <2>4. /\ Cardinality(Pending) \in Nat /\ Cardinality(Pending) >= 1
        /\ Cardinality(Pending \ {f}) = Cardinality(Pending) - 1
    BY <2>2, PendingFinite, OneLess
  <2>5. \A q \in Owners : reserved'[q] = IF q = p THEN reserved[p] \ {f} ELSE reserved[q]
    BY <2>1 DEF StoreTypeOK
  <2>6. Pending' = Pending \ {f}
    BY <1>2, <2>5 DEF Pending, CountsAgree
  <2>7. \A q \in Owners : pendingCount'[q] = Cardinality(reserved'[q])
    <3> SUFFICES ASSUME NEW q \in Owners PROVE pendingCount'[q] = Cardinality(reserved'[q])
      OBVIOUS
    <3>1. CASE q = p
      BY <2>1, <2>3, <2>5, <3>1 DEF CountsAgree, Monus, StoreTypeOK
    <3>2. CASE q # p
      BY <2>1, <2>5, <3>2 DEF CountsAgree, StoreTypeOK
    <3> QED
      BY <3>1, <3>2
  <2>8. pendingFiles' = Cardinality(Pending')
    BY <2>1, <2>4, <2>6 DEF CountsAgree, Monus
  <2>9. \A q, r \in Owners : q # r => reserved'[q] \cap reserved'[r] = {}
    BY <2>5 DEF CountsAgree
  <2> QED
    BY <2>7, <2>8, <2>9 DEF CountsAgree
<1> QED
  BY <1>1, <1>2

(* A reservation adds a file that is in no account.                        *)
LEMMA CountsAfterReserve ==
  ASSUME StoreTypeOK, CountsAgree, NEW f \in Files, NEW p \in Owners, NEW amount,
         \A q \in Owners : f \notin reserved[q], Reserve(f, p, amount)
  PROVE  CountsAgree'
<1>1. /\ reserved' = [reserved EXCEPT ![p] = @ \cup {f}]
      /\ pendingCount' = [pendingCount EXCEPT ![p] = pendingCount[p] + 1]
      /\ pendingFiles' = pendingFiles + 1
  BY DEF Reserve
<1>2. f \notin Pending
  BY PendingIs
<1>3. Cardinality(reserved[p] \cup {f}) = Cardinality(reserved[p]) + 1
  BY PendingFinite, FS_AddElement
<1>4. Cardinality(Pending \cup {f}) = Cardinality(Pending) + 1
  BY <1>2, PendingFinite, FS_AddElement
<1>5. \A q \in Owners : reserved'[q] = IF q = p THEN reserved[p] \cup {f} ELSE reserved[q]
  BY <1>1 DEF StoreTypeOK
<1>6. Pending' = Pending \cup {f}
  BY <1>5 DEF Pending
<1>7. \A q \in Owners : pendingCount'[q] = Cardinality(reserved'[q])
  BY <1>1, <1>3, <1>5 DEF CountsAgree, StoreTypeOK
<1>8. pendingFiles' = Cardinality(Pending')
  BY <1>1, <1>4, <1>6 DEF CountsAgree
<1>9. \A q, r \in Owners : q # r => reserved'[q] \cap reserved'[r] = {}
  BY <1>5 DEF CountsAgree
<1> QED
  BY <1>7, <1>8, <1>9 DEF CountsAgree

(* Steps that leave the accounts, the debts and the set of entries alone.  *)
LEMMA AccountKept ==
  ASSUME AccountInv, HandlersGoOn,
         UNCHANGED <<reserved, pendingCount, pendingFiles, owed, owner, pairing>>,
         \A f \in Files : pc[f] = "idle" /\ disk[f] = "none" => disk'[f] = "none",
         \A f \in Files : status'[f] = "absent" <=> status[f] = "absent",
         owed \subseteq Debt
  PROVE  AccountInv'
<1>1. CountsAgree'
  BY DEF AccountInv, CountsAgree, Pending
<1>2. QuotaFollowsEntries'
  BY DEF AccountInv, QuotaFollowsEntries, Indexed, Due
<1>3. Debts'
  BY DEF AccountInv, Debts, HandlersGoOn
<1>4. Ownership' /\ Unused'
  BY DEF AccountInv, Ownership, Unused, HandlersGoOn
<1> QED
  BY <1>1, <1>2, <1>3, <1>4 DEF AccountInv

(* An entry is removed and its release comes due.                          *)
LEMMA AccountRemoved ==
  ASSUME StoreTypeOK, AccountInv, HandlersGoOn,
         UNCHANGED <<reserved, pendingCount, pendingFiles, pairing, disk>>,
         NEW f \in Files, pc[f] # "idle", Unindex(f),
         NEW debt \in Debt, owed' = owed \cup {debt}, debt.file = f,
         \A p \in Owners : f \in reserved[p] => p = debt.owner
  PROVE  AccountInv'
<1>1. /\ \A g \in Files : status'[g] = IF g = f THEN "absent" ELSE status[g]
      /\ \A g \in Files : owner'[g] = IF g = f THEN Nil ELSE owner[g]
  BY DEF Unindex, StoreTypeOK
<1>2. CountsAgree'
  BY DEF AccountInv, CountsAgree, Pending
<1>3. Indexed' = Indexed \ {f} /\ Due' = Due \cup {f}
  BY <1>1 DEF Indexed, Due
<1>4. QuotaFollowsEntries'
  <2>1. \A p \in Owners : \A g \in reserved'[p] : g \in Indexed' \/ g \in Due'
    BY <1>3 DEF AccountInv, QuotaFollowsEntries
  <2>2. \A g \in Indexed' : g \in Files /\ g # f /\ g \in Indexed
    BY <1>3 DEF Indexed
  <2>3. \A g \in Indexed' : g \in reserved'[owner'[g]]
    BY <1>1, <2>2 DEF AccountInv, QuotaFollowsEntries
  <2> QED
    BY <2>1, <2>3 DEF QuotaFollowsEntries
<1>5. Debts'
  BY <1>1 DEF AccountInv, Debts, HandlersGoOn, StoreTypeOK
<1>6. Ownership' /\ Unused'
  BY <1>1 DEF AccountInv, Ownership, Unused, HandlersGoOn
<1> QED
  BY <1>2, <1>4, <1>5, <1>6 DEF AccountInv

LEMMA AccountRemoveEntry ==
  ASSUME StoreTypeOK, AccountInv, HandlersGoOn,
         UNCHANGED <<reserved, pendingCount, pendingFiles, pairing, disk>>,
         NEW f \in Files, NEW delete \in BOOLEAN, RemoveEntry(f, delete)
  PROVE  AccountInv'
<1>1. CASE status[f] = "absent"
  BY <1>1, AccountKept DEF RemoveEntry, StoreTypeOK
<1>2. CASE status[f] # "absent"
  <2> DEFINE debt == [file |-> f, owner |-> owner[f], amount |-> size[f], delete |-> delete]
  <2>1. debt \in Debt /\ debt.file = f /\ debt.owner = owner[f]
    BY SizeLimit DEF StoreTypeOK
  <2>2. Unindex(f) /\ owed' = owed \cup {debt}
    BY <1>2 DEF RemoveEntry
  <2>3. pc[f] # "idle"
    BY <1>2 DEF AccountInv, Unused
  <2>4. \A p \in Owners : f \in reserved[p] => p = owner[f]
    BY <1>2 DEF AccountInv, QuotaFollowsEntries, CountsAgree, Indexed, StoreTypeOK
  <2> HIDE DEF debt
  <2> QED
    BY <2>1, <2>2, <2>3, <2>4, AccountRemoved
<1> QED
  BY <1>1, <1>2

LEMMA ReleaseShrinks ==
  ASSUME StoreTypeOK, NEW f \in Files, NEW p \in Owners, NEW amount, Release(f, p, amount)
  PROVE  \A q \in Owners : reserved'[q] = IF q = p THEN reserved[q] \ {f} ELSE reserved[q]
<1>1. CASE f \in reserved[p]
  <2>1. reserved' = [reserved EXCEPT ![p] = reserved[p] \ {f}]
    BY <1>1 DEF Release
  <2> QED
    BY <2>1 DEF StoreTypeOK
<1>2. CASE f \notin reserved[p]
  <2>1. reserved' = reserved
    BY <1>2 DEF Release
  <2>2. reserved[p] = reserved[p] \ {f}
    BY <1>2
  <2> QED
    BY <2>1, <2>2
<1> QED
  BY <1>1, <1>2

(* A debt is paid.                                                         *)
LEMMA AccountPaid ==
  ASSUME StoreTypeOK, AccountInv, NEW debt \in owed, PayDebt(debt),
         UNCHANGED <<indexVars, pc, pairing, disk>>
  PROVE  AccountInv'
<1>1. debt.file \in Files /\ debt.owner \in Owners
  BY DEF StoreTypeOK
<1>2. Release(debt.file, debt.owner, debt.amount) /\ owed' = owed \ {debt}
  BY DEF PayDebt
<1>3. \A q \in Owners : reserved'[q] = IF q = debt.owner THEN reserved[q] \ {debt.file}
                                                         ELSE reserved[q]
  BY <1>1, <1>2, ReleaseShrinks
<1>4. CountsAgree'
  BY <1>1, <1>2, CountsAfterRelease DEF AccountInv
<1>5. \A q \in Owners : debt.file \notin reserved'[q]
  BY <1>3 DEF AccountInv, Debts
<1>6. QuotaFollowsEntries'
  <2>1. \A q \in Owners : \A g \in reserved'[q] : g \in Indexed' \/ g \in Due'
    <3> SUFFICES ASSUME NEW q \in Owners, NEW g \in reserved'[q], g \notin Indexed
                 PROVE  g \in Due'
      BY DEF Indexed
    <3>1. g \in reserved[q] /\ g # debt.file
      BY <1>3, <1>5
    <3>2. PICK other \in owed : other.file = g
      BY <3>1 DEF AccountInv, QuotaFollowsEntries, Due
    <3> QED
      BY <1>2, <3>1, <3>2 DEF Due
  <2>2. \A g \in Indexed' : g \in reserved'[owner'[g]]
    <3> SUFFICES ASSUME NEW g \in Indexed PROVE g \in reserved'[owner[g]]
      BY DEF Indexed
    <3>1. g # debt.file /\ owner[g] \in Owners
      BY DEF AccountInv, Debts, Indexed, StoreTypeOK
    <3> QED
      BY <1>3, <3>1 DEF AccountInv, QuotaFollowsEntries
  <2> QED
    BY <2>1, <2>2 DEF QuotaFollowsEntries
<1>7. Debts' /\ Ownership'
  BY <1>2, <1>3 DEF AccountInv, Debts, Ownership, Running
<1>8. Unused'
  BY <1>3 DEF AccountInv, Unused
<1> QED
  BY <1>4, <1>6, <1>7, <1>8 DEF AccountInv

(* A relayed file of a closed pairing: entry and reservation go at once.   *)
LEMMA AccountSaveClosed ==
  ASSUME StoreTypeOK, AccountInv, HandlersGoOn, UNCHANGED <<owed, pairing, disk>>,
         NEW f \in Files, Running(f), pairing[f] \in Owners, NEW amount,
         Unindex(f), Release(f, pairing[f], amount)
  PROVE  AccountInv'
<1>1. /\ \A g \in Files : status'[g] = IF g = f THEN "absent" ELSE status[g]
      /\ \A g \in Files : owner'[g] = IF g = f THEN Nil ELSE owner[g]
  BY DEF Unindex, StoreTypeOK
<1>2. \A q \in Owners : reserved'[q] = IF q = pairing[f] THEN reserved[q] \ {f}
                                                         ELSE reserved[q]
  BY ReleaseShrinks
<1>3. \A q \in Owners : f \notin reserved'[q]
  BY <1>2 DEF AccountInv, Ownership
<1>4. CountsAgree'
  BY CountsAfterRelease DEF AccountInv
<1>5. Indexed' = Indexed \ {f} /\ Due' = Due
  BY <1>1 DEF Indexed, Due
<1>6. QuotaFollowsEntries'
  <2>1. \A q \in Owners : \A g \in reserved'[q] : g \in Indexed' \/ g \in Due'
    BY <1>2, <1>3, <1>5 DEF AccountInv, QuotaFollowsEntries
  <2>2. \A g \in Indexed' : g \in Files /\ g # f /\ g \in Indexed /\ owner[g] \in Owners
    BY <1>5 DEF Indexed, StoreTypeOK
  <2>3. \A g \in Indexed' : g \in reserved'[owner'[g]]
    BY <1>1, <1>2, <2>2 DEF AccountInv, QuotaFollowsEntries
  <2> QED
    BY <2>1, <2>3 DEF QuotaFollowsEntries
<1>7. Debts'
  <2> SUFFICES ASSUME NEW debt \in owed
               PROVE  /\ status'[debt.file] = "absent"
                      /\ pc'[debt.file] # "idle"
                      /\ \A q \in Owners : debt.file \in reserved'[q] => q = debt.owner
    BY DEF Debts
  <2>1. debt.file \in Files
    BY DEF StoreTypeOK
  <2>2. /\ status[debt.file] = "absent" /\ pc[debt.file] # "idle"
        /\ \A q \in Owners : debt.file \in reserved[q] => q = debt.owner
    BY DEF AccountInv, Debts
  <2> QED
    BY <1>1, <1>2, <2>1, <2>2 DEF HandlersGoOn
<1>8. Ownership' /\ Unused'
  BY <1>1, <1>2 DEF AccountInv, Ownership, Unused, HandlersGoOn
<1> QED
  BY <1>4, <1>6, <1>7, <1>8 DEF AccountInv

LEMMA AccountStart ==
  ASSUME UploadTypeOK, AccountInv, NEW f \in Files, NEW p \in Pairings, StartUpload(f, p)
  PROVE  AccountInv'
<1>1. /\ pc[f] = "idle"
      /\ status' = [status EXCEPT ![f] = "Uploading"]
      /\ owner' = [owner EXCEPT ![f] = p]
      /\ Reserve(f, p, MaxUploadSize)
      /\ pairing' = [pairing EXCEPT ![f] = p]
      /\ owed' = owed
  BY DEF StartUpload, BeginUpload
<1>2. \E stage \in {"permit", "announce", "create"} : pc' = [pc EXCEPT ![f] = stage]
  BY DEF StartUpload, Goto
<1>3. /\ \A g \in Files : status'[g] = IF g = f THEN "Uploading" ELSE status[g]
      /\ \A g \in Files : owner'[g] = IF g = f THEN p ELSE owner[g]
      /\ \A g \in Files : pairing'[g] = IF g = f THEN p ELSE pairing[g]
      /\ \A g \in Files : g # f => pc'[g] = pc[g]
      /\ pc'[f] # "idle"
  BY <1>1, <1>2 DEF UploadTypeOK, StoreTypeOK
<1>4. \A q \in Owners : f \notin reserved[q]
  BY <1>1 DEF AccountInv, Unused
<1>5. \A q \in Owners : reserved'[q] = IF q = p THEN reserved[q] \cup {f} ELSE reserved[q]
  BY <1>1 DEF Reserve, UploadTypeOK, StoreTypeOK
<1>5a. \A q \in Owners : \A g \in Files : g # f => (g \in reserved'[q] <=> g \in reserved[q])
  BY <1>5
<1>6. CountsAgree'
  BY <1>1, <1>4, CountsAfterReserve DEF AccountInv, UploadTypeOK
<1>7. Indexed' = Indexed \cup {f} /\ Due' = Due
  BY <1>1, <1>3 DEF Indexed, Due
<1>8. QuotaFollowsEntries'
  <2>1. \A q \in Owners : \A g \in reserved'[q] : g \in Indexed' \/ g \in Due'
    BY <1>5, <1>7 DEF AccountInv, QuotaFollowsEntries
  <2>2. \A g \in Indexed : g \in Files /\ owner[g] \in Owners /\ g # f
    BY <1>1 DEF Indexed, UploadTypeOK, StoreTypeOK, AccountInv, Unused
  <2>3. ASSUME NEW g \in Indexed PROVE g \in reserved'[owner'[g]]
    <3>1. owner'[g] = owner[g] /\ owner[g] \in Owners
      BY <1>3, <2>2
    <3>2. g \in reserved[owner[g]]
      BY DEF AccountInv, QuotaFollowsEntries
    <3>3. g \in reserved'[owner[g]]
      BY <1>5a, <2>2, <3>1, <3>2
    <3> QED
      BY <3>1, <3>3
  <2>4. f \in reserved'[owner'[f]]
    BY <1>3, <1>5
  <2> QED
    BY <1>7, <2>1, <2>3, <2>4 DEF QuotaFollowsEntries
<1>9. Debts'
  <2> SUFFICES ASSUME NEW debt \in owed
               PROVE  /\ status'[debt.file] = "absent"
                      /\ pc'[debt.file] # "idle"
                      /\ \A q \in Owners : debt.file \in reserved'[q] => q = debt.owner
    BY <1>1 DEF Debts
  <2>1. debt.file \in Files /\ debt.file # f
    BY <1>1 DEF AccountInv, Debts, UploadTypeOK, StoreTypeOK
  <2>2. /\ status[debt.file] = "absent" /\ pc[debt.file] # "idle"
        /\ \A q \in Owners : debt.file \in reserved[q] => q = debt.owner
    BY DEF AccountInv, Debts
  <2> QED
    BY <1>3, <1>5a, <2>1, <2>2
<1>10. Ownership'
  <2> SUFFICES ASSUME NEW g \in Files, Running(g)', NEW q \in Owners, g \in reserved'[q]
               PROVE  q = pairing'[g]
    BY DEF Ownership
  <2>1. CASE g = f
    BY <1>3, <1>4, <1>5, <2>1
  <2>2. CASE g # f
    <3>1. Running(g) /\ pairing'[g] = pairing[g]
      BY <1>3, <2>2 DEF Running
    <3>2. g \in reserved[q]
      BY <1>5, <2>2
    <3> QED
      BY <3>1, <3>2 DEF AccountInv, Ownership
  <2> QED
    BY <2>1, <2>2
<1>11. Unused'
  <2> SUFFICES ASSUME NEW g \in Files, pc'[g] = "idle"
               PROVE  /\ status'[g] = "absent" /\ disk'[g] = "none"
                      /\ \A q \in Owners : g \notin reserved'[q]
    BY DEF Unused
  <2>1. g # f /\ pc[g] = "idle"
    BY <1>3
  <2>2. /\ status[g] = "absent" /\ disk'[g] = "none"
        /\ \A q \in Owners : g \notin reserved[q]
    BY <2>1 DEF AccountInv, Unused, StartUpload
  <2> QED
    BY <1>3, <1>5, <2>1, <2>2
<1> QED
  BY <1>6, <1>8, <1>9, <1>10, <1>11 DEF AccountInv

(* A restart takes the account from the directory.                         *)
LEMMA AccountBaseline ==
  ASSUME UploadTypeOK, Unused, Restart
  PROVE  AccountInv'
<1>1. Baseline /\ pc' = [f \in Files |-> IF pc[f] \in Ended \cup {"idle"} THEN pc[f] ELSE "lost"]
  BY DEF Restart
<1>2. /\ \A f \in Files : status'[f] = IF f \in Found THEN "StoredUnnotified" ELSE "absent"
      /\ \A f \in Files : owner'[f] = Nil
      /\ \A p \in Owners : reserved'[p] = IF p = Nil THEN Found ELSE {}
      /\ owed' = {}
  BY <1>1 DEF Baseline
<1>3. Pending' = Found
  BY <1>2 DEF Pending
<1>4. CountsAgree'
  <2>1. \A p \in Owners : pendingCount'[p] = Cardinality(reserved'[p])
    BY <1>1, <1>2, FS_EmptySet DEF Baseline
  <2>2. pendingFiles' = Cardinality(Pending')
    BY <1>1, <1>3 DEF Baseline
  <2> QED
    BY <1>2, <2>1, <2>2 DEF CountsAgree
<1>5. Indexed' = Found
  BY <1>2 DEF Indexed, Found
<1>6. QuotaFollowsEntries' /\ Debts'
  BY <1>2, <1>5 DEF QuotaFollowsEntries, Debts, Found
<1>7. Ownership'
  BY <1>1 DEF Ownership, Running, UploadTypeOK
<1>8. Unused'
  <2> SUFFICES ASSUME NEW f \in Files, pc'[f] = "idle"
               PROVE  /\ status'[f] = "absent" /\ disk'[f] = "none"
                      /\ \A q \in Owners : f \notin reserved'[q]
    BY DEF Unused
  <2>1. pc[f] = "idle"
    BY <1>1
  <2>2. disk'[f] = "none" /\ f \notin Found
    BY <1>1, <2>1 DEF Unused, Baseline, Found
  <2> QED
    BY <1>2, <2>2
<1> QED
  BY <1>4, <1>6, <1>7, <1>8 DEF AccountInv

-----------------------------------------------------------------------------
LEMMA HandlerGoesOn ==
  ASSUME UploadTypeOK, NEW f \in Files, Handler(f) \/ DropHandler(f)
  PROVE  /\ Running(f)
         /\ pc' = pc \/ \E stage \in Stage \ {"idle"} : pc' = [pc EXCEPT ![f] = stage]
         /\ HandlersGoOn
<1>1. Running(f)
  BY DEF Handler, Running, FindSemaphore, AcquirePermit, Announce, CreateFile, BreakStream, FailReceive,
         RenameFile, Rollback, FinalizeStream, MarkStreamingDone, FinishStream, SaveFile,
         Discard, ReadMeta, BeginNotifying, Push, MarkNotified, MarkNotifyFailed, DropHandler
<1>2. pc' = pc \/ \E stage \in Stage \ {"idle"} : pc' = [pc EXCEPT ![f] = stage]
  <2>1. CASE \/ FindSemaphore(f) \/ AcquirePermit(f) \/ Announce(f) \/ CreateFile(f) \/ BreakStream(f)
            \/ FailReceive(f) \/ RenameFile(f) \/ Rollback(f) \/ FinalizeStream(f)
    BY <2>1 DEF Goto, FindSemaphore, AcquirePermit, Announce, CreateFile, BreakStream, FailReceive,
                RenameFile, Rollback, FinalizeStream
  <2>2. CASE \/ MarkStreamingDone(f) \/ FinishStream(f) \/ SaveFile(f) \/ Discard(f)
            \/ ReadMeta(f) \/ BeginNotifying(f) \/ Push(f) \/ MarkNotified(f)
            \/ MarkNotifyFailed(f) \/ DropHandler(f)
    BY <2>2 DEF Goto, MarkStreamingDone, FinishStream, SaveFile, Discard, ReadMeta,
                BeginNotifying, Push, MarkNotified, MarkNotifyFailed, DropHandler
  <2> QED
    BY <2>1, <2>2 DEF Handler
<1>3. HandlersGoOn
  <2>1. CASE pc' = pc
    BY <2>1 DEF HandlersGoOn, Running
  <2>2. ASSUME NEW stage \in Stage \ {"idle"}, pc' = [pc EXCEPT ![f] = stage]
        PROVE  HandlersGoOn
    <3> SUFFICES ASSUME NEW g \in Files
                 PROVE  (pc'[g] = "idle" <=> pc[g] = "idle") /\ (Running(g)' => Running(g))
      BY DEF HandlersGoOn
    <3>1. pc'[g] = IF g = f THEN stage ELSE pc[g]
      BY <2>2 DEF UploadTypeOK
    <3>2. CASE g = f
      BY <1>1, <3>1, <3>2 DEF Running
    <3>3. CASE g # f
      BY <3>1, <3>3 DEF Running
    <3> QED
      BY <3>2, <3>3
  <2> QED
    BY <1>2, <2>1, <2>2
<1> QED
  BY <1>1, <1>2, <1>3

LEMMA NobodyGoesOn == ASSUME pc' = pc PROVE HandlersGoOn
BY DEF HandlersGoOn, Running

LEMMA StoreKeepsEntries ==
  ASSUME UploadTypeOK, NEW f \in Files, NEW s \in Status \ {"absent"}, Store(f, s)
  PROVE  /\ UNCHANGED <<owner, reserved, pendingCount, pendingFiles>>
         /\ \A g \in Files : status'[g] = IF g = f /\ status[f] # "absent" THEN s ELSE status[g]
<1>1. CASE status[f] # "absent"
  BY <1>1 DEF Store, UploadTypeOK, StoreTypeOK
<1>2. CASE status[f] = "absent"
  BY <1>2 DEF Store
<1> QED
  BY <1>1, <1>2

LEMMA AccountHandler ==
  ASSUME UploadTypeOK, AccountInv, NEW f \in Files, Handler(f) \/ DropHandler(f)
  PROVE  AccountInv'
<1>0. HandlersGoOn /\ Running(f) /\ StoreTypeOK /\ owed \subseteq Debt
  BY HandlerGoesOn DEF UploadTypeOK, StoreTypeOK
<1>1. CASE \/ FindSemaphore(f) \/ AcquirePermit(f) \/ Announce(f) \/ CreateFile(f) \/ BreakStream(f)
          \/ FailReceive(f) \/ RenameFile(f) \/ FinishStream(f) \/ Discard(f)
          \/ ReadMeta(f) \/ Push(f) \/ DropHandler(f)
  <2>1. UNCHANGED <<status, owner, reserved, pendingCount, pendingFiles, owed, pairing>>
    BY <1>1 DEF FindSemaphore, AcquirePermit, Announce, CreateFile, BreakStream, FailReceive, RenameFile,
                FinishStream, Discard, ReadMeta, Push, DropHandler
  <2>2. \A g \in Files : disk'[g] # disk[g] => g = f
    BY <1>1 DEF FindSemaphore, AcquirePermit, Announce, CreateFile, BreakStream, FailReceive, RenameFile,
                FinishStream, Discard, ReadMeta, Push, DropHandler, EraseFile,
                UploadTypeOK, StoreTypeOK
  <2> QED
    BY <1>0, <2>1, <2>2, AccountKept DEF Running
<1>2. CASE FinalizeStream(f) \/ MarkStreamingDone(f)
  <2>1. PICK s \in Status \ {"absent"} : Store(f, s)
    BY <1>2 DEF FinalizeStream, MarkStreamingDone
  <2>2. UNCHANGED <<owed, pairing, disk>>
    BY <1>2 DEF FinalizeStream, MarkStreamingDone
  <2> QED
    BY <1>0, <2>1, <2>2, StoreKeepsEntries, AccountKept
<1>3. CASE Rollback(f)
  <2>1. Unindex(f) /\ UNCHANGED <<reserved, pendingCount, pendingFiles, pairing, disk>>
    BY <1>3 DEF Rollback, RollbackUpload
  <2>2. PICK debt : /\ debt = [file |-> f, owner |-> pairing[f], delete |-> FALSE,
                               amount |-> IF status[f] = "absent" THEN MaxUploadSize ELSE size[f]]
                    /\ owed' = owed \cup {debt}
    BY <1>3 DEF Rollback, RollbackUpload
  <2>3. debt \in Debt /\ debt.file = f /\ debt.owner = pairing[f]
    BY <1>0, <2>2, SizeLimit DEF UploadTypeOK, StoreTypeOK
  <2>4. \A p \in Owners : f \in reserved[p] => p = debt.owner
    BY <1>0, <2>3 DEF AccountInv, Ownership
  <2> QED
    BY <1>0, <2>1, <2>2, <2>3, <2>4, AccountRemoved DEF Running
<1>4. CASE SaveFile(f)
  <2>1. UNCHANGED <<owed, pairing, disk>> /\ pairing[f] \in Owners
    BY <1>4 DEF SaveFile, UploadTypeOK
  <2>2. CASE pairing[f] \in closed
    <3>1. PICK amount : Unindex(f) /\ Release(f, pairing[f], amount)
      BY <1>4, <2>2 DEF SaveFile
    <3> QED
      BY <1>0, <2>1, <3>1, AccountSaveClosed
  <2>3. CASE pairing[f] \notin closed
    <3>1. Store(f, "StoredUnnotified")
      BY <1>4, <2>3 DEF SaveFile
    <3> QED
      BY <1>0, <2>1, <3>1, StoreKeepsEntries, AccountKept
  <2> QED
    BY <2>2, <2>3
<1>5. CASE BeginNotifying(f) \/ MarkNotified(f)
  <2>1. UNCHANGED <<owner, reserved, pendingCount, pendingFiles, owed, pairing, disk>>
    BY <1>5 DEF BeginNotifying, MarkNotified
  <2>2. \A g \in Files : status'[g] = "absent" <=> status[g] = "absent"
    BY <1>5 DEF BeginNotifying, MarkNotified, MayNotify, UploadTypeOK, StoreTypeOK
  <2> QED
    BY <1>0, <2>1, <2>2, AccountKept
<1>6. CASE MarkNotifyFailed(f)
  <2>1. UNCHANGED <<reserved, pendingCount, pendingFiles, pairing, disk>> /\ RemoveEntry(f, TRUE)
    BY <1>6 DEF MarkNotifyFailed
  <2> QED
    BY <1>0, <2>1, AccountRemoveEntry
<1> QED
  BY <1>1, <1>2, <1>3, <1>4, <1>5, <1>6 DEF Handler

LEMMA AccountOther ==
  ASSUME UploadTypeOK, AccountInv,
         \/ \E f \in Files : Client(f) \/ DeleteFile(f) \/ Expire(f)
         \/ \E p \in Pairings : ClosePairing(p)
         \/ Cleaner \/ Sweeper \/ UNCHANGED vars
  PROVE  AccountInv'
<1>0. HandlersGoOn /\ StoreTypeOK /\ owed \subseteq Debt /\ UNCHANGED pairing
  BY NobodyGoesOn DEF Client, Download, EndStreamFile, Acknowledge, DeleteFile, Expire,
     ClosePairing, Cleaner, CheckFile, RemoveDoomed, DropSemaphore, Sweeper, SweepPath,
     SweepFile, SweepEntry, vars, UploadTypeOK, StoreTypeOK
<1>1. ASSUME NEW f \in Files,
             \/ Download(f) \/ EndStreamFile(f) \/ DeleteFile(f) \/ Expire(f)
             \/ CheckFile(f) \/ SweepPath(f)
      PROVE  AccountInv'
  <2>1. UNCHANGED <<status, owner, reserved, pendingCount, pendingFiles, owed>>
    BY <1>1 DEF Download, EndStreamFile, DeleteFile, Expire, CheckFile, SweepPath
  <2>2. \A g \in Files : disk[g] = "none" => disk'[g] = "none"
    BY <1>1 DEF Download, EndStreamFile, DeleteFile, Expire, CheckFile, SweepPath, EraseFile,
                UploadTypeOK, StoreTypeOK
  <2> QED
    BY <1>0, <2>1, <2>2, AccountKept
<1>2. ASSUME NEW p \in Pairings, ClosePairing(p)
      PROVE  AccountInv'
  BY <1>0, <1>2, AccountKept DEF ClosePairing
<1>3. CASE DropSemaphore \/ SweepFile \/ UNCHANGED vars
  <2>1. UNCHANGED <<status, owner, reserved, pendingCount, pendingFiles, owed>>
    BY <1>3 DEF DropSemaphore, SweepFile, vars
  <2>2. \A g \in Files : disk[g] = "none" => disk'[g] = "none"
    BY <1>3 DEF DropSemaphore, SweepFile, EraseFile, vars, UploadTypeOK, StoreTypeOK
  <2> QED
    BY <1>0, <2>1, <2>2, AccountKept
<1>4. ASSUME NEW f \in Files, Acknowledge(f)
      PROVE  AccountInv'
  <2>1. UNCHANGED <<reserved, pendingCount, pendingFiles, disk>> /\ RemoveEntry(f, TRUE)
    BY <1>4 DEF Acknowledge
  <2> QED
    BY <1>0, <2>1, AccountRemoveEntry
<1>5. CASE RemoveDoomed \/ SweepEntry
  <2>1. \E f \in Files : \E delete \in BOOLEAN : RemoveEntry(f, delete)
    BY <1>5 DEF RemoveDoomed, SweepEntry, UploadTypeOK
  <2>2. UNCHANGED <<reserved, pendingCount, pendingFiles, disk>>
    BY <1>5 DEF RemoveDoomed, SweepEntry
  <2> QED
    BY <1>0, <2>1, <2>2, AccountRemoveEntry
<1> QED
  BY <1>1, <1>2, <1>3, <1>4, <1>5 DEF Client, Cleaner, Sweeper

LEMMA AccountInit == Init => AccountInv
<1> SUFFICES ASSUME Init PROVE AccountInv
  OBVIOUS
<1>1. /\ \A p \in Owners : reserved[p] = {} /\ pendingCount[p] = 0
      /\ pendingFiles = 0 /\ owed = {}
      /\ \A f \in Files : status[f] = "absent" /\ disk[f] = "none" /\ pc[f] = "idle"
  BY DEF Init, StoreInit
<1>2. Pending = {} /\ Indexed = {}
  BY <1>1 DEF Pending, Indexed
<1>3. CountsAgree
  BY <1>1, <1>2, FS_EmptySet DEF CountsAgree
<1> QED
  BY <1>1, <1>2, <1>3 DEF AccountInv, QuotaFollowsEntries, Debts, Ownership, Unused, Running

LEMMA AccountStep ==
  UploadTypeOK /\ AccountInv /\ [Next]_vars => AccountInv'
<1> SUFFICES ASSUME UploadTypeOK, AccountInv, [Next]_vars PROVE AccountInv'
  OBVIOUS
<1>1. CASE PayOwed
  <2>1. PICK debt \in owed : PayDebt(debt)
    BY <1>1 DEF PayOwed
  <2>2. UNCHANGED <<indexVars, pc, pairing, disk>>
    BY <1>1 DEF PayOwed
  <2> QED
    BY <2>1, <2>2, AccountPaid DEF UploadTypeOK
<1>2. CASE Restart
  BY <1>2, AccountBaseline DEF AccountInv, Unused
<1> QED
  BY <1>1, <1>2, AccountStart, AccountHandler, AccountOther DEF Next

(* The inductive invariant of the quota account: entries, account and      *)
(* releases under way together, which no property below holds without.     *)
THEOREM AccountInvariant == Spec => [](UploadTypeOK /\ AccountInv)
BY TypeInit, TypeStep, AccountInit, AccountStep, PTL DEF Spec

(* Whatever order removals and releases come in, the three file counts of  *)
(* the reservation state agree.                                            *)
THEOREM CountsAlwaysAgree == Spec => []CountsAgree
BY AccountInvariant, PTL DEF AccountInv

(* A pending file has an entry or a release on its way, and an entry is    *)
(* accounted to its owner.                                                 *)
THEOREM QuotaComesBack == Spec => []QuotaFollowsEntries
BY AccountInvariant, PTL DEF AccountInv

-----------------------------------------------------------------------------
(* The files.  Which entry goes when, and whether its file goes with it,   *)
(* depends on where its handler, the cleaner and the sweeper are.          *)

Receiving == {"permit", "acquire", "announce", "create", "receive", "rollback", "commit"}

(* An upload that has not begun is in nobody's hands.                      *)
Untouched ==
  \A f \in Files :
    pc[f] = "idle" => /\ f \notin complete \cup todo \cup deleting
                      /\ sweeping # f /\ doomed # f

(* Entry and file of an upload, by the stage of its handler.               *)
Stages ==
  \A f \in Files :
    /\ pc[f] \in Receiving => status[f] = "Uploading"
    /\ status[f] = "Uploading" => /\ pc[f] \in Receiving \cup {"failed", "dropped"}
                                  /\ f \notin complete /\ sweeping # f /\ doomed # f
    /\ pc[f] \in {"permit", "acquire", "announce", "create", "rollback"} => disk[f] = "none"
    /\ pc[f] = "receive" => disk[f] = "tmp"
    /\ pc[f] = "commit" => disk[f] = "final"
    /\ pc[f] = "discard" => status[f] = "absent"

(* Only files that have lost their entry are deleted.                      *)
Deletions == \A f \in deleting : status[f] = "absent"

(* The clean-up has only files of the pairing it has closed in its hands.  *)
Cleaning ==
  /\ cleaning = Nil => todo = {} /\ doomed = NoFile
  /\ cleaning # Nil => cleaning \in closed
  /\ \A f \in todo : status[f] # "absent" => owner[f] = cleaning
  /\ doomed # NoFile => \/ status[doomed] = "absent"
                        \/ status[doomed] = "StoredUnnotified" /\ owner[doomed] = cleaning

Sweeping == sweeping # NoFile => sweeping \in expired

FileInv ==
  /\ Untouched /\ Stages /\ Deletions /\ Cleaning /\ Sweeping
  /\ StoredIsOnDisk /\ NoOrphanOnDisk

LEMMA FileInit == Init => FileInv
<1> SUFFICES ASSUME Init PROVE FileInv
  OBVIOUS
<1>1. /\ owed = {} /\ complete = {} /\ todo = {} /\ deleting = {}
      /\ sweeping = NoFile /\ doomed = NoFile /\ cleaning = Nil
      /\ \A f \in Files : status[f] = "absent" /\ disk[f] = "none" /\ pc[f] = "idle"
  BY DEF Init, StoreInit
<1> QED
  BY <1>1, NoFileAssumption DEF FileInv, Untouched, Stages, Receiving, Deletions, Cleaning,
                                Sweeping, StoredIsOnDisk, NoOrphanOnDisk, Indexed

LEMMA FileReceive ==
  ASSUME UploadTypeOK, FileInv, NEW f \in Files,
         \/ FindSemaphore(f) \/ AcquirePermit(f) \/ Announce(f) \/ CreateFile(f) \/ BreakStream(f)
         \/ FailReceive(f) \/ RenameFile(f)
  PROVE  FileInv'
<1>0. NoFile \notin Files
  BY NoFileAssumption
<1>1. UNCHANGED <<status, owner, complete, todo, deleting, sweeping, swept, doomed, cleaning,
                  closed, expired, owed>>
  BY DEF FindSemaphore, AcquirePermit, Announce, CreateFile, BreakStream, FailReceive, RenameFile
<1>2. /\ \A g \in Files : g # f => pc'[g] = pc[g] /\ disk'[g] = disk[g]
      /\ pc[f] \in Receiving /\ pc'[f] \in Receiving \cup {"failed"}
  BY DEF FindSemaphore, AcquirePermit, Announce, CreateFile, BreakStream, FailReceive, RenameFile, Goto,
         UploadTypeOK, StoreTypeOK, Receiving
<1>3. status[f] = "Uploading"
  BY <1>2 DEF FileInv, Stages
<1>4. /\ pc'[f] \in {"permit", "acquire", "announce", "create", "rollback"} => disk'[f] = "none"
      /\ pc'[f] = "receive" => disk'[f] = "tmp"
      /\ pc'[f] = "commit" => disk'[f] = "final"
  BY DEF FindSemaphore, AcquirePermit, Announce, CreateFile, BreakStream, FailReceive, RenameFile, Goto,
         UploadTypeOK, StoreTypeOK, FileInv, Stages
<1>5. Untouched' /\ Deletions' /\ Cleaning' /\ Sweeping'
  BY <1>1, <1>2 DEF FileInv, Untouched, Deletions, Cleaning, Sweeping, Receiving
<1>6. Stages'
  BY <1>1, <1>2, <1>3, <1>4 DEF FileInv, Stages, Receiving
<1>7. StoredIsOnDisk'
  BY <1>1, <1>2, <1>3 DEF FileInv, StoredIsOnDisk, Indexed
<1>8. NoOrphanOnDisk'
  BY <1>1, <1>2, <1>3 DEF FileInv, NoOrphanOnDisk, Indexed
<1> QED
  BY <1>5, <1>6, <1>7, <1>8 DEF FileInv

(* A complete upload takes its final status.                               *)
LEMMA FileStored ==
  ASSUME UploadTypeOK, FileInv, NEW f \in Files, pc[f] = "commit",
         NEW s \in {"StoredUnnotified", "Notified"}, Store(f, s),
         NEW stage \in {"finish", "meta"}, pc' = [pc EXCEPT ![f] = stage],
         UNCHANGED <<owed, diskVars, clientVars, cleanerVars, sweeperVars>>
  PROVE  FileInv'
<1>1. status[f] = "Uploading" /\ disk[f] = "final"
  BY DEF FileInv, Stages, Receiving
<1>2. /\ \A g \in Files : status'[g] = IF g = f THEN s ELSE status[g]
      /\ owner' = owner /\ closed' = closed
      /\ \A g \in Files : pc'[g] = IF g = f THEN stage ELSE pc[g]
  BY <1>1 DEF Store, UploadTypeOK, StoreTypeOK
<1>3. sweeping # f /\ doomed # f /\ f \notin deleting
  BY <1>1 DEF FileInv, Stages, Deletions
<1>4. Untouched' /\ Deletions' /\ Sweeping'
  <2>1. Untouched' /\ Sweeping'
    BY <1>2, <1>3 DEF FileInv, Untouched, Sweeping
  <2>2. Deletions'
    BY <1>2, <1>3 DEF FileInv, Deletions, UploadTypeOK, StoreTypeOK
  <2> QED
    BY <2>1, <2>2
<1>5. Cleaning'
  BY <1>1, <1>2, <1>3, NoFileAssumption DEF FileInv, Cleaning, UploadTypeOK
<1>6. Stages'
  BY <1>2 DEF FileInv, Stages, Receiving
<1>7. StoredIsOnDisk'
  BY <1>1, <1>2 DEF FileInv, StoredIsOnDisk, Indexed
<1>8. NoOrphanOnDisk'
  BY <1>2 DEF FileInv, NoOrphanOnDisk, Indexed
<1> QED
  BY <1>4, <1>5, <1>6, <1>7, <1>8 DEF FileInv

(* An entry goes.  Its file goes with it if there is one that the sweep    *)
(* would not find.                                                         *)
LEMMA FileUnindexed ==
  ASSUME UploadTypeOK, FileInv, NEW f \in Files, Unindex(f), pc[f] # "idle",
         owed \subseteq owed', deleting' = deleting, disk' = disk, expired' = expired,
         complete' = complete, todo' \subseteq todo, closed' = closed,
         \/ UNCHANGED <<cleaning, doomed>>
         \/ cleaning' = cleaning /\ doomed' = NoFile,
         UNCHANGED <<sweeping, swept>> \/ (sweeping = f /\ sweeping' = NoFile),
         \A g \in Files : g # f => pc'[g] = pc[g],
         \/ pc'[f] = pc[f] /\ pc[f] \notin Receiving
         \/ pc'[f] \in Ended \/ pc'[f] = "discard",
         \/ disk[f] # "final" \/ f \in expired \/ pc'[f] = "discard"
         \/ \E debt \in owed' : debt.file = f /\ debt.delete
  PROVE  FileInv'
<1>1. /\ \A g \in Files : status'[g] = IF g = f THEN "absent" ELSE status[g]
      /\ \A g \in Files : owner'[g] = IF g = f THEN Nil ELSE owner[g]
  BY DEF Unindex, UploadTypeOK, StoreTypeOK
<1>2. NoFile \notin Files
  BY NoFileAssumption
<1>3. Untouched'
  BY <1>2 DEF FileInv, Untouched
<1>4. Deletions' /\ Sweeping'
  BY <1>1, <1>2 DEF FileInv, Deletions, Sweeping, UploadTypeOK, StoreTypeOK
<1>5. Cleaning'
  BY <1>1, <1>2 DEF FileInv, Cleaning, UploadTypeOK
<1>6. Stages'
  BY <1>1, <1>2 DEF FileInv, Stages, Receiving
<1>7. StoredIsOnDisk'
  BY <1>1 DEF FileInv, StoredIsOnDisk, Indexed
<1>8. NoOrphanOnDisk'
  <2> SUFFICES ASSUME NEW g \in Files, disk'[g] = "final"
               PROVE  \/ g \in Indexed' \cup deleting' \cup expired'
                      \/ \E debt \in owed' : debt.file = g /\ debt.delete
                      \/ pc'[g] = "discard" \/ pc'[g] = "dropped"
    BY DEF NoOrphanOnDisk
  <2>1. CASE g = f
    BY <2>1
  <2>2. CASE g # f
    <3>1. g \in Indexed => g \in Indexed'
      BY <1>1, <2>2 DEF Indexed
    <3>2. pc'[g] = pc[g]
      BY <2>2
    <3> QED
      BY <3>1, <3>2 DEF FileInv, NoOrphanOnDisk
  <2> QED
    BY <2>1, <2>2
<1> QED
  BY <1>3, <1>4, <1>5, <1>6, <1>7, <1>8 DEF FileInv

LEMMA FileRollback ==
  ASSUME UploadTypeOK, FileInv, NEW f \in Files, Rollback(f)
  PROVE  FileInv'
<1>1. /\ pc[f] = "rollback" /\ Unindex(f)
      /\ pc'[f] = "failed" /\ \A g \in Files : g # f => pc'[g] = pc[g]
      /\ owed \subseteq owed'
      /\ UNCHANGED <<diskVars, closed, clientVars, cleanerVars, sweeperVars>>
  BY DEF Rollback, RollbackUpload, Goto, UploadTypeOK
<1>2. disk[f] # "final"
  BY <1>1 DEF FileInv, Stages
<1> QED
  BY <1>1, <1>2, FileUnindexed

LEMMA FileSave ==
  ASSUME UploadTypeOK, FileInv, NEW f \in Files, SaveFile(f)
  PROVE  FileInv'
<1>1. CASE pairing[f] \in closed
  <2>1. /\ pc[f] = "commit" /\ Unindex(f)
        /\ pc'[f] = "discard" /\ \A g \in Files : g # f => pc'[g] = pc[g]
        /\ UNCHANGED <<owed, diskVars, clientVars, cleanerVars, sweeperVars>>
    BY <1>1 DEF SaveFile, Goto, UploadTypeOK
  <2>2. closed' = closed
    BY <1>1, ReleaseType DEF SaveFile, UploadTypeOK
  <2> QED
    BY <2>1, <2>2, FileUnindexed
<1>2. CASE pairing[f] \notin closed
  BY <1>2, FileStored DEF SaveFile, Goto
<1> QED
  BY <1>1, <1>2

(* Steps of a handler after the file has got its status.                   *)
LEMMA FileNotify ==
  ASSUME UploadTypeOK, FileInv, NEW f \in Files,
         \/ FinishStream(f) \/ Discard(f) \/ ReadMeta(f) \/ BeginNotifying(f)
         \/ Push(f) \/ MarkNotified(f)
  PROVE  FileInv'
<1>0. NoFile \notin Files
  BY NoFileAssumption
<1>1. /\ \A g \in Files : g # f => pc'[g] = pc[g]
      /\ pc[f] \notin Receiving \cup Ended \cup {"idle"}
      /\ pc'[f] \notin Receiving \cup {"idle", "discard"}
      /\ UNCHANGED <<todo, deleting, sweeping, swept, doomed, cleaning, closed, expired, owed,
                     owner>>
  BY DEF FinishStream, Discard, ReadMeta, BeginNotifying, Push, MarkNotified, Goto,
         UploadTypeOK, Receiving
<1>2. status[f] # "Uploading"
  BY <1>1 DEF FileInv, Stages
<1>3. /\ \A g \in Files : g # f => status'[g] = status[g] /\ disk'[g] = disk[g]
      /\ \A g \in Files : g # f => (g \in complete' <=> g \in complete)
  BY DEF FinishStream, Discard, ReadMeta, BeginNotifying, Push, MarkNotified, EraseFile,
         UploadTypeOK, StoreTypeOK
<1>4. \/ status'[f] = status[f]
      \/ status[f] = "StoredUnnotified" /\ status'[f] = "Notifying" /\ owner[f] \notin closed
      \/ status[f] = "Notifying" /\ status'[f] = "Notified"
  BY DEF FinishStream, Discard, ReadMeta, BeginNotifying, MayNotify, Push, MarkNotified,
         UploadTypeOK, StoreTypeOK
<1>5. \/ disk'[f] = disk[f]
      \/ disk'[f] = "none" /\ status[f] = "absent" /\ status'[f] = "absent"
  BY DEF FinishStream, Discard, ReadMeta, BeginNotifying, Push, MarkNotified, EraseFile,
         UploadTypeOK, StoreTypeOK, FileInv, Stages
<1>6. Untouched' /\ Deletions' /\ Sweeping'
  <2>1. Untouched' /\ Sweeping'
    BY <1>1, <1>3 DEF FileInv, Untouched, Sweeping
  <2>2. f \in deleting => status'[f] = "absent"
    BY <1>4 DEF FileInv, Deletions
  <2>3. Deletions'
    BY <1>1, <1>3, <2>2 DEF FileInv, Deletions, UploadTypeOK, StoreTypeOK
  <2> QED
    BY <2>1, <2>3
<1>7. ASSUME doomed = f, status[f] # "absent" PROVE owner[f] \in closed
  <2>1. doomed # NoFile
    BY <1>0, <1>7
  <2>2. cleaning \in closed /\ owner[doomed] = cleaning
    BY <1>7, <2>1 DEF FileInv, Cleaning
  <2> QED
    BY <1>7, <2>2
<1>8. Cleaning'
  BY <1>0, <1>1, <1>3, <1>4, <1>7 DEF FileInv, Cleaning, UploadTypeOK
<1>9. Stages'
  <2>1. status'[f] # "Uploading"
    BY <1>2, <1>4
  <2>2. pc'[f] \notin {"permit", "acquire", "announce", "create", "receive", "rollback", "commit", "discard"}
    BY <1>1 DEF Receiving
  <2> QED
    BY <1>1, <1>3, <2>1, <2>2 DEF FileInv, Stages, Receiving
<1>10. StoredIsOnDisk'
  BY <1>1, <1>2, <1>3, <1>4, <1>5 DEF FileInv, StoredIsOnDisk, Indexed
<1>11. NoOrphanOnDisk'
  <2> SUFFICES ASSUME NEW g \in Files, disk'[g] = "final"
               PROVE  \/ g \in Indexed' \cup deleting' \cup expired'
                      \/ \E debt \in owed' : debt.file = g /\ debt.delete
                      \/ pc'[g] = "discard" \/ pc'[g] = "dropped"
    BY DEF NoOrphanOnDisk
  <2>1. g \in Indexed => g \in Indexed'
    BY <1>3, <1>4 DEF Indexed
  <2>2. disk[g] = "final" /\ (pc[g] \in {"discard", "dropped"} => pc'[g] = pc[g])
    <3>1. CASE g = f
      <4>1. pc[f] = "discard" => disk'[f] = "none"
        BY DEF FinishStream, Discard, ReadMeta, BeginNotifying, Push, MarkNotified, EraseFile,
               UploadTypeOK, StoreTypeOK
      <4> QED
        BY <1>1, <1>5, <3>1, <4>1
    <3>2. CASE g # f
      BY <1>1, <1>3, <3>2
    <3> QED
      BY <3>1, <3>2
  <2> QED
    BY <1>1, <2>1, <2>2 DEF FileInv, NoOrphanOnDisk
<1> QED
  BY <1>6, <1>8, <1>9, <1>10, <1>11 DEF FileInv

LEMMA RemovalIsOwed ==
  ASSUME NEW f \in Files, NEW delete \in BOOLEAN, RemoveEntry(f, delete), status[f] # "absent"
  PROVE  owed \subseteq owed' /\ \E debt \in owed' : debt.file = f /\ debt.delete = delete
<1> DEFINE debt == [file |-> f, owner |-> owner[f], amount |-> size[f], delete |-> delete]
<1>1. owed' = owed \cup {debt}
  BY DEF RemoveEntry
<1>2. debt.file = f /\ debt.delete = delete
  OBVIOUS
<1> QED
  BY <1>1, <1>2

LEMMA FileHandler ==
  ASSUME UploadTypeOK, FileInv, NEW f \in Files, Handler(f) \/ DropHandler(f)
  PROVE  FileInv'
<1>1. CASE FinalizeStream(f)
  <2>1. PICK s \in {"StoredUnnotified", "Notified"} : Store(f, s)
    BY <1>1 DEF FinalizeStream
  <2> QED
    BY <1>1, <2>1, FileStored DEF FinalizeStream, Goto
<1>2. CASE MarkStreamingDone(f)
  BY <1>2, FileStored DEF MarkStreamingDone, Goto
<1>3. CASE MarkNotifyFailed(f)
  <2>1. /\ pc[f] = "unsent" /\ pc'[f] = "stored" /\ RemoveEntry(f, TRUE)
        /\ \A g \in Files : g # f => pc'[g] = pc[g]
        /\ UNCHANGED <<accountVars, diskVars, clientVars, cleanerVars, sweeperVars>>
    BY <1>3 DEF MarkNotifyFailed, Goto, UploadTypeOK
  <2>2. CASE status[f] = "absent"
    <3>1. UNCHANGED <<indexVars, owed>>
      BY <2>1, <2>2 DEF RemoveEntry
    <3>2. \A g \in Files : pc[g] = pc'[g] \/ (g = f /\ pc[g] = "unsent" /\ pc'[g] = "stored")
      BY <2>1
    <3>3. Untouched' /\ Deletions' /\ Cleaning' /\ Sweeping'
      <4>1. Untouched'
        BY <2>1, <3>1, <3>2 DEF FileInv, Untouched
      <4> QED
        BY <2>1, <3>1, <4>1 DEF FileInv, Deletions, Cleaning, Sweeping
    <3>4. Stages'
      BY <2>1, <3>1, <3>2 DEF FileInv, Stages, Receiving
    <3>5. StoredIsOnDisk' /\ NoOrphanOnDisk'
      BY <2>1, <3>1, <3>2 DEF FileInv, StoredIsOnDisk, NoOrphanOnDisk, Indexed
    <3> QED
      BY <3>3, <3>4, <3>5 DEF FileInv
  <2>3. CASE status[f] # "absent"
    <3>1. owed \subseteq owed' /\ \E debt \in owed' : debt.file = f /\ debt.delete
      BY <2>1, <2>3, RemovalIsOwed
    <3>2. Unindex(f)
      BY <2>1, <2>3 DEF RemoveEntry
    <3> QED
      BY <2>1, <3>1, <3>2, FileUnindexed
  <2> QED
    BY <2>2, <2>3
<1>4. CASE DropHandler(f)
  <2>1. /\ UNCHANGED <<indexVars, accountVars, owed, diskVars, clientVars, cleanerVars, sweeperVars>>
        /\ \A g \in Files : g # f => pc'[g] = pc[g]
        /\ pc'[f] = "dropped" /\ pc[f] \notin Ended \cup {"idle"}
    BY <1>4 DEF DropHandler, Goto, UploadTypeOK
  <2>2. Untouched' /\ Deletions' /\ Cleaning' /\ Sweeping'
    BY <2>1 DEF FileInv, Untouched, Deletions, Cleaning, Sweeping
  <2>3. Stages'
    BY <2>1 DEF FileInv, Stages, Receiving
  <2>4. StoredIsOnDisk' /\ NoOrphanOnDisk'
    BY <2>1 DEF FileInv, StoredIsOnDisk, NoOrphanOnDisk, Indexed
  <2> QED
    BY <2>2, <2>3, <2>4 DEF FileInv
<1> QED
  BY <1>1, <1>2, <1>3, <1>4, FileReceive, FileRollback, FileSave, FileNotify DEF Handler

(* A removal of an entry by somebody else than its handler.                *)
LEMMA FileRemoveEntry ==
  ASSUME UploadTypeOK, AccountInv, FileInv, NEW f \in Files, NEW delete \in BOOLEAN,
         RemoveEntry(f, delete), status[f] # "Uploading",
         UNCHANGED <<accountVars, diskVars, handlerVars, clientVars, todo, cleaning>>,
         doomed' \in {doomed, NoFile},
         UNCHANGED <<sweeping, swept>> \/ (sweeping = f /\ sweeping' = NoFile),
         delete \/ f \in expired
  PROVE  FileInv'
<1>1. CASE status[f] = "absent"
  <2>1. UNCHANGED <<indexVars, owed>>
    BY <1>1 DEF RemoveEntry
  <2>2. NoFile \notin Files
    BY NoFileAssumption
  <2>3. Untouched' /\ Deletions' /\ Cleaning' /\ Sweeping'
    BY <2>1, <2>2 DEF FileInv, Untouched, Deletions, Cleaning, Sweeping
  <2>4. Stages'
    BY <2>1, <2>2 DEF FileInv, Stages, Receiving
  <2>5. StoredIsOnDisk'
    <3> SUFFICES ASSUME NEW g \in Files, status[g] # "absent", status[g] # "Uploading"
                 PROVE  disk[g] = "final" \/ (sweeping' = g /\ swept')
      BY <2>1 DEF StoredIsOnDisk, Indexed
    <3>1. disk[g] = "final" \/ (sweeping = g /\ swept)
      BY DEF FileInv, StoredIsOnDisk, Indexed
    <3> QED
      BY <1>1, <3>1
  <2>6. NoOrphanOnDisk'
    BY <2>1 DEF FileInv, NoOrphanOnDisk, Indexed
  <2> QED
    BY <2>3, <2>4, <2>5, <2>6 DEF FileInv
<1>2. CASE status[f] # "absent"
  <2>1. owed \subseteq owed' /\ \E debt \in owed' : debt.file = f /\ debt.delete = delete
    BY <1>2, RemovalIsOwed
  <2>2. Unindex(f) /\ pc[f] # "idle"
    BY <1>2 DEF RemoveEntry, AccountInv, Unused
  <2>3. pc[f] \notin Receiving
    BY DEF FileInv, Stages
  <2>4. \/ UNCHANGED <<cleaning, doomed>>
        \/ cleaning' = cleaning /\ doomed' = NoFile
    OBVIOUS
  <2>5. \/ f \in expired
        \/ \E d \in owed' : d.file = f /\ d.delete
    BY <2>1
  <2> QED
    BY <2>1, <2>2, <2>3, <2>4, <2>5, FileUnindexed
<1> QED
  BY <1>1, <1>2

LEMMA FileStart ==
  ASSUME UploadTypeOK, AccountInv, FileInv, NEW f \in Files, NEW p \in Pairings,
         StartUpload(f, p)
  PROVE  FileInv'
<1>1. /\ pc[f] = "idle" /\ pc'[f] \in {"permit", "announce", "create"}
      /\ \A g \in Files : g # f => pc'[g] = pc[g] /\ status'[g] = status[g] /\ owner'[g] = owner[g]
      /\ status'[f] = "Uploading" /\ closed' = closed
      /\ UNCHANGED <<owed, diskVars, clientVars, cleanerVars, sweeperVars>>
  BY DEF StartUpload, BeginUpload, Reserve, Goto, UploadTypeOK, StoreTypeOK
<1>2. /\ disk[f] = "none" /\ f \notin complete \cup todo \cup deleting
      /\ sweeping # f /\ doomed # f
  BY <1>1 DEF AccountInv, Unused, FileInv, Untouched
<1>3. Untouched' /\ Sweeping'
  BY <1>1, <1>2 DEF FileInv, Untouched, Sweeping
<1>4. Deletions'
  BY <1>1, <1>2 DEF FileInv, Deletions, UploadTypeOK, StoreTypeOK
<1>5. Cleaning'
  BY <1>1, <1>2 DEF FileInv, Cleaning, UploadTypeOK
<1>6. Stages'
  <2>1. pc'[f] \notin {"receive", "commit", "discard"}
    BY <1>1
  <2> QED
    BY <1>1, <1>2, <2>1 DEF FileInv, Stages, Receiving
<1>7. StoredIsOnDisk' /\ NoOrphanOnDisk'
  BY <1>1, <1>2 DEF FileInv, StoredIsOnDisk, NoOrphanOnDisk, Indexed
<1> QED
  BY <1>3, <1>4, <1>5, <1>6, <1>7 DEF FileInv

(* Steps that take no entry away.                                          *)
LEMMA FileClient ==
  ASSUME UploadTypeOK, AccountInv, FileInv, NEW f \in Files, Client(f)
  PROVE  FileInv'
<1>1. CASE Download(f)
  <2>1. /\ UNCHANGED <<storeVars, handlerVars, cleanerVars, sweeperVars>>
        /\ complete' = complete \cup {f} /\ status[f] \notin {"absent", "Uploading"}
    BY <1>1 DEF Download, TokenFits
  <2>2. pc[f] # "idle"
    BY <2>1 DEF AccountInv, Unused
  <2>3. Untouched' /\ Stages'
    BY <2>1, <2>2 DEF FileInv, Untouched, Stages, Receiving
  <2>4. Deletions' /\ Cleaning' /\ Sweeping' /\ StoredIsOnDisk' /\ NoOrphanOnDisk'
    BY <2>1 DEF FileInv, Deletions, Cleaning, Sweeping, StoredIsOnDisk, NoOrphanOnDisk, Indexed
  <2> QED
    BY <2>3, <2>4 DEF FileInv
<1>2. CASE EndStreamFile(f)
  BY <1>2 DEF EndStreamFile, FileInv, Untouched, Stages, Receiving, Deletions, Cleaning, Sweeping,
              StoredIsOnDisk, NoOrphanOnDisk, Indexed
<1>3. CASE Acknowledge(f)
  <2>1. /\ RemoveEntry(f, TRUE) /\ f \in complete
        /\ UNCHANGED <<accountVars, diskVars, handlerVars, clientVars, cleanerVars, sweeperVars>>
    BY <1>3 DEF Acknowledge
  <2>2. status[f] # "Uploading"
    BY <2>1 DEF FileInv, Stages
  <2> QED
    BY <2>1, <2>2, FileRemoveEntry
<1> QED
  BY <1>1, <1>2, <1>3 DEF Client

LEMMA FileDisk ==
  ASSUME UploadTypeOK, AccountInv, FileInv, NEW f \in Files, DeleteFile(f) \/ Expire(f)
  PROVE  FileInv'
<1>1. CASE DeleteFile(f)
  <2>1. /\ f \in deleting /\ deleting' = deleting \ {f}
        /\ \A g \in Files : disk'[g] = IF g = f THEN "none" ELSE disk[g]
        /\ UNCHANGED <<indexVars, accountVars, owed, expired, handlerVars, clientVars,
                       cleanerVars, sweeperVars>>
    BY <1>1 DEF DeleteFile, EraseFile, UploadTypeOK, StoreTypeOK
  <2>2. status[f] = "absent"
    BY <2>1 DEF FileInv, Deletions
  <2>3. Untouched' /\ Deletions' /\ Cleaning' /\ Sweeping'
    BY <2>1 DEF FileInv, Untouched, Deletions, Cleaning, Sweeping
  <2>4. Stages'
    BY <2>1, <2>2 DEF FileInv, Stages, Receiving
  <2>5. StoredIsOnDisk'
    BY <2>1, <2>2 DEF FileInv, StoredIsOnDisk, Indexed
  <2>6. NoOrphanOnDisk'
    BY <2>1 DEF FileInv, NoOrphanOnDisk, Indexed
  <2> QED
    BY <2>3, <2>4, <2>5, <2>6 DEF FileInv
<1>2. CASE Expire(f)
  BY <1>2 DEF Expire, FileInv, Untouched, Stages, Receiving, Deletions, Cleaning, Sweeping,
              StoredIsOnDisk, NoOrphanOnDisk, Indexed
<1> QED
  BY <1>1, <1>2

LEMMA FilePaid ==
  ASSUME UploadTypeOK, AccountInv, FileInv, PayOwed
  PROVE  FileInv'
<1>1. PICK debt \in owed : PayDebt(debt)
  BY DEF PayOwed
<1>2. debt.file \in Files /\ debt.owner \in Owners /\ debt.delete \in BOOLEAN
  BY DEF UploadTypeOK, StoreTypeOK
<1>3. closed' = closed
  BY <1>1, <1>2, ReleaseType DEF PayDebt, UploadTypeOK
<1>4. /\ owed' = owed \ {debt}
      /\ deleting' = IF debt.delete THEN deleting \cup {debt.file} ELSE deleting
      /\ UNCHANGED <<indexVars, disk, expired, handlerVars, clientVars, cleanerVars, sweeperVars>>
  BY <1>1 DEF PayOwed, PayDebt
<1>5. status[debt.file] = "absent" /\ pc[debt.file] # "idle"
  BY DEF AccountInv, Debts
<1>6. Untouched' /\ Deletions'
  BY <1>4, <1>5 DEF FileInv, Untouched, Deletions
<1>7. Cleaning' /\ Sweeping' /\ Stages' /\ StoredIsOnDisk'
  BY <1>3, <1>4 DEF FileInv, Cleaning, Sweeping, Stages, StoredIsOnDisk, Indexed
<1>8. NoOrphanOnDisk'
  BY <1>2, <1>4 DEF FileInv, NoOrphanOnDisk, Indexed
<1> QED
  BY <1>6, <1>7, <1>8 DEF FileInv

LEMMA FileCleaner ==
  ASSUME UploadTypeOK, AccountInv, FileInv, Cleaner \/ \E p \in Pairings : ClosePairing(p)
  PROVE  FileInv'
<1>0. NoFile \notin Files
  BY NoFileAssumption
<1>1. ASSUME NEW p \in Pairings, ClosePairing(p) PROVE FileInv'
  <2>1. /\ cleaning = Nil /\ cleaning' = p /\ closed' = closed \cup {p} /\ todo' = reserved[p]
        /\ UNCHANGED <<indexVars, owed, diskVars, handlerVars, clientVars, doomed, sweeperVars>>
    BY <1>1 DEF ClosePairing
  <2>2. \A f \in reserved[p] : f \in Files /\ pc[f] # "idle" /\ (status[f] # "absent" => owner[f] = p)
    BY DEF AccountInv, Unused, CountsAgree, QuotaFollowsEntries, Indexed, UploadTypeOK, StoreTypeOK
  <2>3. Cleaning'
    BY <2>1, <2>2, NilAssumption DEF FileInv, Cleaning
  <2>4. Untouched'
    BY <2>1, <2>2 DEF FileInv, Untouched
  <2>5. Stages' /\ Deletions' /\ Sweeping' /\ StoredIsOnDisk' /\ NoOrphanOnDisk'
    BY <2>1 DEF FileInv, Stages, Deletions, Sweeping, StoredIsOnDisk, NoOrphanOnDisk, Indexed
  <2> QED
    BY <2>3, <2>4, <2>5 DEF FileInv
<1>2. ASSUME NEW f \in Files, CheckFile(f) PROVE FileInv'
  <2>1. /\ doomed = NoFile /\ f \in todo /\ todo' = todo \ {f}
        /\ doomed' = IF status[f] = "StoredUnnotified" THEN f ELSE NoFile
        /\ UNCHANGED <<storeVars, handlerVars, clientVars, cleaning, sweeperVars>>
    BY <1>2 DEF CheckFile
  <2>2. cleaning # Nil /\ (status[f] # "absent" => owner[f] = cleaning) /\ pc[f] # "idle"
    BY <2>1 DEF FileInv, Cleaning, Untouched
  <2>3. Cleaning'
    BY <2>1, <2>2 DEF FileInv, Cleaning
  <2>4. Untouched' /\ Stages'
    BY <1>0, <2>1, <2>2 DEF FileInv, Untouched, Stages, Receiving
  <2>5. Deletions' /\ Sweeping' /\ StoredIsOnDisk' /\ NoOrphanOnDisk'
    BY <2>1 DEF FileInv, Deletions, Sweeping, StoredIsOnDisk, NoOrphanOnDisk, Indexed
  <2> QED
    BY <2>3, <2>4, <2>5 DEF FileInv
<1>3. CASE RemoveDoomed
  <2>1. /\ doomed \in Files /\ RemoveEntry(doomed, TRUE) /\ doomed' = NoFile
        /\ UNCHANGED <<accountVars, diskVars, handlerVars, clientVars, cleaning, todo, sweeperVars>>
    BY <1>3 DEF RemoveDoomed, UploadTypeOK
  <2>2. status[doomed] # "Uploading"
    BY <2>1 DEF FileInv, Stages
  <2> QED
    BY <2>1, <2>2, FileRemoveEntry
<1>4. CASE DropSemaphore
  BY <1>4 DEF DropSemaphore, FileInv, Untouched, Stages, Receiving, Deletions, Cleaning, Sweeping,
              StoredIsOnDisk, NoOrphanOnDisk, Indexed
<1> QED
  BY <1>1, <1>2, <1>3, <1>4 DEF Cleaner

LEMMA FileSweeper ==
  ASSUME UploadTypeOK, AccountInv, FileInv, Sweeper
  PROVE  FileInv'
<1>0. NoFile \notin Files
  BY NoFileAssumption
<1>1. ASSUME NEW f \in Files, SweepPath(f) PROVE FileInv'
  <2>1. /\ sweeping = NoFile /\ sweeping' = f /\ f \in expired
        /\ disk[f] # "none" /\ status[f] # "Uploading"
        /\ UNCHANGED <<storeVars, handlerVars, clientVars, cleanerVars, swept>>
    BY <1>1 DEF SweepPath, Sweepable
  <2>2. pc[f] # "idle"
    BY <2>1 DEF AccountInv, Unused
  <2>3. Untouched' /\ Stages'
    BY <2>1, <2>2 DEF FileInv, Untouched, Stages, Receiving
  <2>4. Deletions' /\ Cleaning' /\ Sweeping' /\ NoOrphanOnDisk'
    BY <2>1 DEF FileInv, Deletions, Cleaning, Sweeping, NoOrphanOnDisk, Indexed
  <2>5. StoredIsOnDisk'
    BY <1>0, <2>1 DEF FileInv, StoredIsOnDisk, Indexed
  <2> QED
    BY <2>3, <2>4, <2>5 DEF FileInv
<1>2. CASE SweepFile
  <2>1. CASE disk[sweeping] = sweepPath
    <3>1. /\ sweeping \in Files /\ UNCHANGED sweeping /\ swept'
          /\ \A g \in Files : disk'[g] = IF g = sweeping THEN "none" ELSE disk[g]
          /\ UNCHANGED <<indexVars, accountVars, owed, expired, deleting, handlerVars, clientVars,
                         cleanerVars>>
      BY <1>2, <2>1 DEF SweepFile, EraseFile, UploadTypeOK, StoreTypeOK
    <3>2. status[sweeping] # "Uploading"
      BY <3>1 DEF FileInv, Stages
    <3>3. Untouched' /\ Deletions' /\ Cleaning' /\ Sweeping'
      BY <3>1 DEF FileInv, Untouched, Deletions, Cleaning, Sweeping
    <3>4. pc[sweeping] \notin Receiving
      BY <3>1, <3>2 DEF FileInv, Stages
    <3>5. Stages'
      BY <3>1, <3>4 DEF FileInv, Stages, Receiving
    <3>6. StoredIsOnDisk' /\ NoOrphanOnDisk'
      BY <3>1 DEF FileInv, StoredIsOnDisk, NoOrphanOnDisk, Indexed
    <3> QED
      BY <3>3, <3>5, <3>6 DEF FileInv
  <2>2. CASE disk[sweeping] # sweepPath
    <3>1. /\ sweeping' = NoFile /\ ~swept
          /\ UNCHANGED <<storeVars, handlerVars, clientVars, cleanerVars>>
      BY <1>2, <2>2 DEF SweepFile
    <3>2. Untouched' /\ Stages' /\ Sweeping'
      BY <1>0, <3>1 DEF FileInv, Untouched, Stages, Receiving, Sweeping
    <3>3. Deletions' /\ Cleaning' /\ StoredIsOnDisk' /\ NoOrphanOnDisk'
      BY <3>1 DEF FileInv, Deletions, Cleaning, StoredIsOnDisk, NoOrphanOnDisk, Indexed
    <3> QED
      BY <3>2, <3>3 DEF FileInv
  <2> QED
    BY <2>1, <2>2
<1>3. CASE SweepEntry
  <2>1. /\ sweeping \in Files /\ RemoveEntry(sweeping, FALSE) /\ sweeping' = NoFile
        /\ UNCHANGED <<accountVars, diskVars, handlerVars, clientVars, cleanerVars>>
    BY <1>3 DEF SweepEntry, UploadTypeOK
  <2>2. status[sweeping] # "Uploading" /\ sweeping \in expired
    BY <1>0, <2>1 DEF FileInv, Stages, Sweeping
  <2> QED
    BY <2>1, <2>2, FileRemoveEntry
<1> QED
  BY <1>1, <1>2, <1>3 DEF Sweeper

LEMMA FileRestart ==
  ASSUME UploadTypeOK, AccountInv, FileInv, Restart
  PROVE  FileInv'
<1>0. NoFile \notin Files
  BY NoFileAssumption
<1>1. /\ \A f \in Files : status'[f] = IF f \in Found THEN "StoredUnnotified" ELSE "absent"
      /\ \A f \in Files : pc'[f] = "lost" \/ (pc'[f] = pc[f] /\ pc[f] \in Ended \cup {"idle"})
      /\ UNCHANGED <<disk, expired, complete>>
      /\ deleting' = {} /\ cleaning' = Nil /\ todo' = {} /\ doomed' = NoFile /\ sweeping' = NoFile
  BY DEF Restart, Baseline
<1>2. Untouched'
  BY <1>0, <1>1 DEF FileInv, Untouched
<1>3. Stages'
  BY <1>1 DEF Stages, Receiving
<1>4. Deletions' /\ Cleaning' /\ Sweeping'
  BY <1>1 DEF Deletions, Cleaning, Sweeping
<1>5. StoredIsOnDisk' /\ NoOrphanOnDisk'
  BY <1>1 DEF StoredIsOnDisk, NoOrphanOnDisk, Indexed, Found
<1> QED
  BY <1>2, <1>3, <1>4, <1>5 DEF FileInv

LEMMA FileStep == UploadTypeOK /\ AccountInv /\ FileInv /\ [Next]_vars => FileInv'
<1> SUFFICES ASSUME UploadTypeOK, AccountInv, FileInv, [Next]_vars PROVE FileInv'
  OBVIOUS
<1>1. CASE UNCHANGED vars
  BY <1>1 DEF vars, FileInv, Untouched, Stages, Receiving, Deletions, Cleaning, Sweeping,
              StoredIsOnDisk, NoOrphanOnDisk, Indexed
<1> QED
  BY <1>1, FileStart, FileHandler, FileClient, FileDisk, FilePaid, FileCleaner, FileSweeper,
     FileRestart DEF Next

(* The inductive invariant of the files: what every handler, deletion,     *)
(* clean-up and sweep in progress implies for the disk and the index.      *)
THEOREM FileInvariant == Spec => [](UploadTypeOK /\ AccountInv /\ FileInv)
BY TypeInit, TypeStep, AccountInit, AccountStep, FileInit, FileStep, PTL DEF Spec

(* What the index offers is on disk, or the sweep is just taking it away.  *)
THEOREM OfferedFilesExist == Spec => []StoredIsOnDisk
BY FileInvariant, PTL DEF FileInv

(* A finished file without an entry is about to go, or old enough for the  *)
(* sweep to find it.                                                       *)
THEOREM NoFileIsForgotten == Spec => []NoOrphanOnDisk
BY FileInvariant, PTL DEF FileInv

LEMMA ToldStep ==
  ASSUME UploadTypeOK, FileInv, Next, NEW f \in Files,
         status[f] \in {"Notifying", "Notified"}, status'[f] = "absent"
  PROVE  f \in complete \/ pc[f] = "unsent" \/ f \in expired \/ restarts' # restarts
<1>0. NoFile \notin Files
  BY NoFileAssumption
<1>1. ASSUME NEW g \in Files, NEW p \in Pairings, StartUpload(g, p) PROVE FALSE
  BY <1>1 DEF StartUpload, BeginUpload, UploadTypeOK, StoreTypeOK
<1>2. ASSUME NEW g \in Files, RemoveEntry(g, TRUE) \/ RemoveEntry(g, FALSE) \/ Unindex(g)
      PROVE  g = f
  BY <1>2 DEF RemoveEntry, Unindex, UploadTypeOK, StoreTypeOK
<1>3. ASSUME NEW g \in Files, Handler(g) PROVE pc[f] = "unsent"
  <2>1. CASE MarkNotifyFailed(g)
    BY <1>2, <2>1 DEF MarkNotifyFailed
  <2>2. CASE Rollback(g)
    <3>1. pc[g] \in Receiving /\ g = f
      BY <1>2, <2>2 DEF Rollback, RollbackUpload, Receiving
    <3> QED
      BY <3>1 DEF FileInv, Stages
  <2>3. CASE SaveFile(g)
    <3>1. CASE pairing[g] \in closed
      <4>1. pc[g] \in Receiving /\ g = f
        BY <1>2, <2>3, <3>1 DEF SaveFile, Receiving
      <4> QED
        BY <4>1 DEF FileInv, Stages
    <3>2. CASE pairing[g] \notin closed
      BY <2>3, <3>2, StoreKeepsEntries DEF SaveFile
    <3> QED
      BY <3>1, <3>2
  <2>4. CASE FinalizeStream(g) \/ MarkStreamingDone(g)
    <3>1. PICK s \in Status \ {"absent"} : Store(g, s)
      BY <2>4 DEF FinalizeStream, MarkStreamingDone
    <3> QED
      BY <3>1, StoreKeepsEntries
  <2>5. CASE BeginNotifying(g) \/ MarkNotified(g)
    BY <2>5 DEF BeginNotifying, MarkNotified, UploadTypeOK, StoreTypeOK
  <2>6. CASE \/ FindSemaphore(g) \/ AcquirePermit(g) \/ Announce(g) \/ CreateFile(g) \/ BreakStream(g)
            \/ FailReceive(g) \/ RenameFile(g) \/ FinishStream(g) \/ Discard(g)
            \/ ReadMeta(g) \/ Push(g)
    BY <2>6 DEF FindSemaphore, AcquirePermit, Announce, CreateFile, BreakStream, FailReceive, RenameFile,
                FinishStream, Discard, ReadMeta, Push
  <2> QED
    BY <1>3, <2>1, <2>2, <2>3, <2>4, <2>5, <2>6 DEF Handler
<1>4. ASSUME NEW g \in Files, DropHandler(g) \/ DeleteFile(g) \/ Expire(g) PROVE FALSE
  BY <1>4 DEF DropHandler, DeleteFile, Expire
<1>5. ASSUME NEW g \in Files, Client(g) PROVE f \in complete
  BY <1>2, <1>5 DEF Client, Download, EndStreamFile, Acknowledge
<1>6. ASSUME PayOwed \/ \E p \in Pairings : ClosePairing(p) PROVE FALSE
  BY <1>6 DEF PayOwed, ClosePairing
<1>7. ASSUME Cleaner PROVE FALSE
  <2>1. CASE RemoveDoomed
    <3>1. doomed \in Files /\ doomed = f
      BY <1>2, <2>1 DEF RemoveDoomed, UploadTypeOK
    <3> QED
      BY <1>0, <3>1 DEF FileInv, Cleaning
  <2>2. CASE (\E g \in Files : CheckFile(g)) \/ DropSemaphore
    BY <2>2 DEF CheckFile, DropSemaphore
  <2> QED
    BY <1>7, <2>1, <2>2 DEF Cleaner
<1>8. ASSUME Sweeper PROVE f \in expired
  <2>1. CASE SweepEntry
    <3>1. sweeping \in Files /\ sweeping = f
      BY <1>2, <2>1 DEF SweepEntry, UploadTypeOK
    <3> QED
      BY <1>0, <3>1 DEF FileInv, Sweeping
  <2>2. CASE (\E g \in Files : SweepPath(g)) \/ SweepFile
    BY <2>2 DEF SweepPath, SweepFile
  <2> QED
    BY <1>8, <2>1, <2>2 DEF Sweeper
<1>9. ASSUME Restart PROVE restarts' # restarts
  BY <1>9 DEF Restart, UploadTypeOK
<1> QED
  BY <1>1, <1>3, <1>4, <1>5, <1>6, <1>7, <1>8, <1>9 DEF Next

(* A file that is being announced, or is marked as announced, leaves the   *)
(* index only for one of the four legitimate reasons; the clean-up of a    *)
(* pairing is none of them.                                                *)
THEOREM ToldFilesStay == Spec => ToldFilesAreKept
<1>1. UploadTypeOK /\ FileInv /\ [Next]_vars =>
        [\A f \in Files :
           status[f] \in {"Notifying", "Notified"} /\ status'[f] = "absent" =>
             f \in complete \/ pc[f] = "unsent" \/ f \in expired \/ restarts' # restarts]_vars
  BY ToldStep
<1> QED
  BY <1>1, FileInvariant, PTL DEF Spec, ToldFilesAreKept

-----------------------------------------------------------------------------
(* The semaphores.  Whatever upload of a pairing has one in hand has the   *)
(* same one as the others: as long as the pairing is open it is the one in *)
(* the map, and once it is closed nobody finds another.                    *)
InStream(f) == Running(f) /\ pc[f] \notin {"permit", "acquire"} /\ mode[f] = "HttpStreaming"

Limited == \A s \in Files : Cardinality(permits[s]) <= MaxStreams

Permitted ==
  \A f \in Files : InStream(f) => semaphore[f] # NoFile /\ f \in permits[semaphore[f]]

InHand ==
  \A f \in Files : /\ pc[f] = "acquire" => semaphore[f] # NoFile
                   /\ pc[f] = "idle" => semaphore[f] = NoFile

OneSemaphore ==
  \A f, g \in Files :
    semaphore[f] # NoFile /\ semaphore[g] # NoFile /\ pairing[f] = pairing[g] =>
      semaphore[f] = semaphore[g]

InTheMap ==
  \A f \in Files :
    semaphore[f] # NoFile /\ pairing[f] \notin closed => semaphores[pairing[f]] = semaphore[f]

StreamInv == Limited /\ Permitted /\ InHand /\ OneSemaphore /\ InTheMap

LEMMA FewerOrEqual ==
  ASSUME NEW S, NEW T \in SUBSET S, IsFiniteSet(S), Cardinality(S) <= MaxStreams
  PROVE  Cardinality(T) <= MaxStreams
<1>1. /\ Cardinality(T) <= Cardinality(S) /\ Cardinality(S) \in Nat /\ Cardinality(T) \in Nat
  BY FS_Subset, FS_CardinalityType
<1> QED
  BY <1>1, SizeLimit

LEMMA PermitsFinite ==
  ASSUME UploadTypeOK
  PROVE  \A s \in Files : IsFiniteSet(permits[s])
<1>1. \A s \in Files : permits[s] \subseteq Files
  BY DEF UploadTypeOK, StoreTypeOK
<1> QED
  BY <1>1, FilesAssumption, FS_Subset

(* Nobody begins to stream, and no semaphore changes hands.                *)
LEMMA StreamKept ==
  ASSUME UploadTypeOK, StreamInv, UNCHANGED permitVars, pairing' = pairing,
         closed \subseteq closed',
         \A f \in Files : InStream(f)' => InStream(f),
         \A f \in Files : pc'[f] \in {"acquire", "idle"} => pc'[f] = pc[f]
  PROVE  StreamInv'
<1>1. Limited' /\ Permitted' /\ InHand'
  BY DEF StreamInv, Limited, Permitted, InHand
<1>2. OneSemaphore' /\ InTheMap'
  BY DEF StreamInv, OneSemaphore, InTheMap
<1> QED
  BY <1>1, <1>2 DEF StreamInv

LEMMA StreamFind ==
  ASSUME UploadTypeOK, StreamInv, NEW f \in Files, FindSemaphore(f)
  PROVE  StreamInv'
<1>0. NoFile \notin Files
  BY NoFileAssumption
<1>1. /\ UNCHANGED <<permits, closed, pairing, mode>>
      /\ pc[f] = "permit" /\ pc'[f] \in {"acquire", "failed"}
      /\ \A g \in Files : g # f => pc'[g] = pc[g]
  BY DEF FindSemaphore, Goto, UploadTypeOK
<1>2. \A g \in Files : InStream(g)' => g # f /\ InStream(g)
  BY <1>1 DEF InStream, Running
<1> DEFINE p == pairing[f]
           s == SemaphoreFor(f, p)
<1>3. CASE s = NoFile
  <2>1. UNCHANGED permitVars /\ pc'[f] = "failed"
    BY <1>3 DEF FindSemaphore, Goto, UploadTypeOK
  <2> QED
    BY <1>1, <1>2, <2>1, StreamKept
<1>4. CASE s # NoFile
  <2>1. /\ pc'[f] = "acquire" /\ p \notin closed /\ p \in Owners
        /\ semaphores'[p] = s /\ semaphore'[f] = s
        /\ \A q \in Owners \ {p} : semaphores'[q] = semaphores[q]
        /\ \A g \in Files \ {f} : semaphore'[g] = semaphore[g]
    BY <1>4 DEF FindSemaphore, SemaphoreFor, Goto, UploadTypeOK, StoreTypeOK
  <2>2. \A g \in Files : semaphore[g] # NoFile /\ pairing[g] = p => s = semaphore[g]
    BY <2>1 DEF SemaphoreFor, StreamInv, InTheMap
  <2>3. Limited'
    BY <1>1 DEF StreamInv, Limited
  <2>4. Permitted'
    BY <1>1, <1>2, <2>1 DEF StreamInv, Permitted
  <2>5. InHand'
    BY <1>1, <1>4, <2>1 DEF StreamInv, InHand
  <2>6. OneSemaphore'
    BY <1>1, <2>1, <2>2 DEF StreamInv, OneSemaphore
  <2>7. InTheMap'
    <3> SUFFICES ASSUME NEW g \in Files, semaphore'[g] # NoFile, pairing[g] \notin closed
                 PROVE  semaphores'[pairing[g]] = semaphore'[g]
      BY <1>1 DEF InTheMap
    <3>1. CASE g = f
      BY <2>1, <3>1
    <3>2. CASE g # f /\ pairing[g] = p
      BY <2>1, <2>2, <3>2
    <3>3. CASE g # f /\ pairing[g] # p
      BY <2>1, <3>3 DEF StreamInv, InTheMap, UploadTypeOK
    <3> QED
      BY <3>1, <3>2, <3>3
  <2> QED
    BY <2>3, <2>4, <2>5, <2>6, <2>7 DEF StreamInv
<1> QED
  BY <1>3, <1>4

LEMMA StreamAcquire ==
  ASSUME UploadTypeOK, StreamInv, NEW f \in Files, AcquirePermit(f)
  PROVE  StreamInv'
<1> DEFINE s == semaphore[f]
<1>1. /\ UNCHANGED <<semaphores, closed, pairing, mode>>
      /\ pc[f] = "acquire" /\ pc'[f] \in {"announce", "failed"}
      /\ \A g \in Files : g # f => pc'[g] = pc[g]
  BY DEF AcquirePermit, Goto, UploadTypeOK
<1>2. s \in Files
  BY <1>1 DEF StreamInv, InHand, UploadTypeOK, StoreTypeOK
<1>3. \A g \in Files : g # f /\ InStream(g)' => InStream(g)
  BY <1>1 DEF InStream, Running
<1>4. CASE Cardinality(permits[s]) < MaxStreams
  <2>1. /\ semaphore' = semaphore /\ permits'[s] = permits[s] \cup {f}
        /\ \A r \in Files \ {s} : permits'[r] = permits[r]
    BY <1>2, <1>4 DEF AcquirePermit, UploadTypeOK, StoreTypeOK
  <2>2. Limited'
    <3>1. IsFiniteSet(permits[s]) /\ Cardinality(permits[s]) \in Nat
      BY <1>2, PermitsFinite, FS_CardinalityType
    <3>2. \/ Cardinality(permits[s] \cup {f}) = Cardinality(permits[s])
          \/ Cardinality(permits[s] \cup {f}) = Cardinality(permits[s]) + 1
      BY <3>1, FS_AddElement
    <3>3. Cardinality(permits'[s]) <= MaxStreams
      BY <1>4, <2>1, <3>1, <3>2, SizeLimit
    <3> QED
      BY <2>1, <3>3 DEF StreamInv, Limited
  <2>3. Permitted'
    <3> SUFFICES ASSUME NEW g \in Files, InStream(g)'
                 PROVE  semaphore[g] # NoFile /\ g \in permits'[semaphore[g]]
      BY <2>1 DEF Permitted
    <3>1. CASE g = f
      BY <1>2, <2>1, <3>1, NoFileAssumption
    <3>2. CASE g # f
      <4>1. semaphore[g] # NoFile /\ g \in permits[semaphore[g]] /\ semaphore[g] \in Files
        BY <1>3, <3>2 DEF StreamInv, Permitted, UploadTypeOK, StoreTypeOK
      <4> QED
        BY <2>1, <4>1
    <3> QED
      BY <3>1, <3>2
  <2>4. InHand' /\ OneSemaphore' /\ InTheMap'
    BY <1>1, <2>1 DEF StreamInv, InHand, OneSemaphore, InTheMap
  <2> QED
    BY <2>2, <2>3, <2>4 DEF StreamInv
<1>5. CASE ~(Cardinality(permits[s]) < MaxStreams)
  <2>1. /\ permits' = permits /\ semaphore'[f] = NoFile /\ pc'[f] = "failed"
        /\ \A g \in Files \ {f} : semaphore'[g] = semaphore[g]
    BY <1>5 DEF AcquirePermit, Goto, UploadTypeOK, StoreTypeOK
  <2>2. ~InStream(f)'
    BY <2>1 DEF InStream, Running
  <2>3. Limited' /\ Permitted'
    BY <1>3, <2>1, <2>2 DEF StreamInv, Limited, Permitted
  <2>4. InHand' /\ OneSemaphore' /\ InTheMap'
    BY <1>1, <2>1 DEF StreamInv, InHand, OneSemaphore, InTheMap
  <2> QED
    BY <2>3, <2>4 DEF StreamInv
<1> QED
  BY <1>4, <1>5

(* A handler ends and returns its permit.                                  *)
LEMMA StreamReturn ==
  ASSUME UploadTypeOK, StreamInv, NEW f \in Files, ReturnPermit(f),
         closed' = closed, pairing' = pairing, mode' = mode,
         NEW stage \in Ended, pc' = [pc EXCEPT ![f] = stage]
  PROVE  StreamInv'
<1>1. /\ \A s \in Files : permits'[s] = permits[s] \ {f}
      /\ semaphore'[f] = NoFile /\ semaphores' = semaphores
      /\ \A g \in Files \ {f} : semaphore'[g] = semaphore[g]
  BY DEF ReturnPermit, UploadTypeOK, StoreTypeOK
<1>2. /\ pc'[f] \in Ended /\ \A g \in Files \ {f} : pc'[g] = pc[g]
  BY DEF UploadTypeOK
<1>3. \A g \in Files : InStream(g)' => g # f /\ InStream(g)
  BY <1>2 DEF InStream, Running
<1>4. Limited'
  <2> SUFFICES ASSUME NEW s \in Files PROVE Cardinality(permits'[s]) <= MaxStreams
    BY DEF Limited
  <2>1. permits'[s] \in SUBSET permits[s] /\ Cardinality(permits[s]) <= MaxStreams
    BY <1>1 DEF StreamInv, Limited
  <2> QED
    BY <2>1, PermitsFinite, FewerOrEqual
<1>5. Permitted'
  <2> SUFFICES ASSUME NEW g \in Files, InStream(g)'
               PROVE  semaphore'[g] # NoFile /\ g \in permits'[semaphore'[g]]
    BY DEF Permitted
  <2>1. g # f /\ semaphore[g] \in Files /\ g \in permits[semaphore[g]]
    BY <1>3 DEF StreamInv, Permitted, UploadTypeOK, StoreTypeOK
  <2> QED
    BY <1>1, <2>1, NoFileAssumption
<1>6. InHand' /\ OneSemaphore' /\ InTheMap'
  BY <1>1, <1>2 DEF StreamInv, InHand, OneSemaphore, InTheMap
<1> QED
  BY <1>4, <1>5, <1>6 DEF StreamInv

LEMMA StreamHandler ==
  ASSUME UploadTypeOK, StreamInv, NEW f \in Files, Handler(f) \/ DropHandler(f)
  PROVE  StreamInv'
<1>1. CASE Rollback(f) \/ FinishStream(f) \/ DropHandler(f)
  BY <1>1, StreamReturn DEF Rollback, FinishStream, DropHandler, Goto
<1>2. ASSUME UNCHANGED permitVars, closed' = closed, pairing' = pairing, mode' = mode,
             pc[f] \notin {"permit", "acquire"},
             pc' = pc \/ pc'[f] \notin {"acquire", "idle"}
      PROVE  StreamInv'
  <2>1. Running(f) /\ \A g \in Files : g # f => pc'[g] = pc[g]
    BY HandlerGoesOn DEF UploadTypeOK
  <2>2. \A g \in Files : InStream(g)' => InStream(g)
    BY <1>2, <2>1 DEF InStream, Running
  <2> QED
    BY <1>2, <2>1, <2>2, StreamKept
<1>3. CASE \/ Announce(f) \/ CreateFile(f) \/ BreakStream(f) \/ FailReceive(f) \/ RenameFile(f)
          \/ Discard(f) \/ ReadMeta(f) \/ BeginNotifying(f) \/ Push(f) \/ MarkNotified(f)
          \/ MarkNotifyFailed(f)
  <2>1. /\ UNCHANGED permitVars /\ closed' = closed /\ pairing' = pairing /\ mode' = mode
        /\ pc[f] \notin {"permit", "acquire"}
    BY <1>3 DEF Announce, CreateFile, BreakStream, FailReceive, RenameFile, Discard, ReadMeta,
                BeginNotifying, Push, MarkNotified, MarkNotifyFailed
  <2>2. pc' = pc \/ pc'[f] \notin {"acquire", "idle"}
    BY <1>3 DEF Announce, CreateFile, BreakStream, FailReceive, RenameFile, Discard, ReadMeta,
                BeginNotifying, Push, MarkNotified, MarkNotifyFailed, Goto, UploadTypeOK
  <2> QED
    BY <1>2, <2>1, <2>2
<1>4. CASE FinalizeStream(f) \/ MarkStreamingDone(f)
  <2>1. PICK s \in Status : Store(f, s)
    BY <1>4 DEF FinalizeStream, MarkStreamingDone
  <2>2. closed' = closed
    BY <2>1 DEF Store
  <2>3. /\ UNCHANGED permitVars /\ pairing' = pairing /\ mode' = mode
        /\ pc[f] \notin {"permit", "acquire"} /\ pc'[f] = "finish"
    BY <1>4 DEF FinalizeStream, MarkStreamingDone, Goto, UploadTypeOK
  <2> QED
    BY <1>2, <2>2, <2>3
<1>5. CASE SaveFile(f)
  <2>1. closed' = closed
    BY <1>5 DEF SaveFile, Store, Release
  <2>2. /\ UNCHANGED permitVars /\ pairing' = pairing /\ mode' = mode
        /\ pc[f] \notin {"permit", "acquire"} /\ pc'[f] \in {"discard", "meta"}
    BY <1>5 DEF SaveFile, Goto, UploadTypeOK
  <2> QED
    BY <1>2, <2>1, <2>2
<1> QED
  BY <1>1, <1>3, <1>4, <1>5, StreamFind, StreamAcquire DEF Handler

LEMMA StreamStart ==
  ASSUME UploadTypeOK, StreamInv, NEW f \in Files, NEW p \in Pairings, StartUpload(f, p)
  PROVE  StreamInv'
<1>1. PICK m \in Mode :
        /\ mode' = [mode EXCEPT ![f] = m]
        /\ pc' = [pc EXCEPT ![f] = CASE m = "HttpStreaming" -> "permit"
                                     [] m = "Streaming" -> "announce"
                                     [] m = "Relay" -> "create"]
  BY DEF StartUpload, Goto
<1>2. /\ UNCHANGED permitVars /\ closed' = closed /\ pc[f] = "idle"
      /\ \A g \in Files : g # f => pairing'[g] = pairing[g]
  BY DEF StartUpload, BeginUpload, Reserve, UploadTypeOK
<1>3. \A g \in Files : g # f => pc'[g] = pc[g] /\ mode'[g] = mode[g]
  BY <1>1, Zenon DEF UploadTypeOK
<1>4. pc'[f] \in {"permit", "announce", "create"}
  BY <1>1 DEF UploadTypeOK
<1>5. mode'[f] = "HttpStreaming" => pc'[f] = "permit"
  <2>1. ASSUME m = "HttpStreaming" PROVE pc' = [pc EXCEPT ![f] = "permit"]
    BY <1>1, <2>1
  <2> QED
    BY <1>1, <2>1 DEF UploadTypeOK
<1>6. \A g \in Files : InStream(g)' => InStream(g)
  BY <1>3, <1>5 DEF InStream, Running
<1>7. semaphore[f] = NoFile
  BY <1>2 DEF StreamInv, InHand
<1>8. Limited' /\ Permitted'
  BY <1>2, <1>6 DEF StreamInv, Limited, Permitted
<1>9. InHand' /\ OneSemaphore' /\ InTheMap'
  BY <1>2, <1>3, <1>4, <1>7 DEF StreamInv, InHand, OneSemaphore, InTheMap
<1> QED
  BY <1>8, <1>9 DEF StreamInv

LEMMA StreamStep == UploadTypeOK /\ FileInv /\ StreamInv /\ [Next]_vars => StreamInv'
<1> SUFFICES ASSUME UploadTypeOK, FileInv, StreamInv, [Next]_vars PROVE StreamInv'
  OBVIOUS
<1>1. ASSUME UNCHANGED <<pc, pairing, mode, permitVars>>, closed \subseteq closed'
      PROVE  StreamInv'
  <2>1. \A f \in Files : InStream(f)' = InStream(f)
    BY <1>1 DEF InStream, Running
  <2> QED
    BY <1>1, <2>1, StreamKept
<1>2. ASSUME NEW f \in Files, Client(f) \/ DeleteFile(f) \/ Expire(f) PROVE StreamInv'
  BY <1>1, <1>2 DEF Client, Download, EndStreamFile, Acknowledge, DeleteFile, Expire
<1>3. ASSUME NEW p \in Pairings, ClosePairing(p) PROVE StreamInv'
  BY <1>1, <1>3 DEF ClosePairing
<1>4. CASE PayOwed
  <2>1. PICK debt \in owed : PayDebt(debt)
    BY <1>4 DEF PayOwed
  <2>2. closed' = closed
    BY <2>1 DEF PayDebt, Release
  <2> QED
    BY <1>1, <1>4, <2>2 DEF PayOwed
<1>5. CASE DropSemaphore
  <2>1. /\ cleaning \in closed /\ UNCHANGED <<closed, pc, pairing, mode, semaphore, permits>>
        /\ \A p \in Owners \ {cleaning} : semaphores'[p] = semaphores[p]
    BY <1>5 DEF DropSemaphore, FileInv, Cleaning, UploadTypeOK, StoreTypeOK
  <2>2. InTheMap'
    BY <2>1 DEF StreamInv, InTheMap, UploadTypeOK
  <2>3. Limited' /\ Permitted' /\ InHand' /\ OneSemaphore'
    BY <2>1 DEF StreamInv, Limited, Permitted, InHand, OneSemaphore, InStream, Running
  <2> QED
    BY <2>2, <2>3 DEF StreamInv
<1>6. ASSUME (\E f \in Files : CheckFile(f)) \/ RemoveDoomed PROVE StreamInv'
  BY <1>1, <1>6 DEF CheckFile, RemoveDoomed
<1>7. CASE Sweeper
  BY <1>1, <1>7 DEF Sweeper, SweepPath, SweepFile, SweepEntry
<1>8. CASE Restart
  <2>1. \A f \in Files : permits'[f] = {} /\ semaphore'[f] = NoFile
    BY <1>8 DEF Restart, Baseline
  <2>2. \A f \in Files : pc'[f] \in Ended \cup {"idle"}
    BY <1>8 DEF Restart
  <2>3. \A f \in Files : ~InStream(f)'
    BY <2>2 DEF InStream, Running
  <2>4. Limited'
    BY <2>1, FS_EmptySet, SizeLimit DEF Limited
  <2>5. Permitted' /\ InHand' /\ OneSemaphore' /\ InTheMap'
    BY <2>1, <2>2, <2>3 DEF Permitted, InHand, OneSemaphore, InTheMap
  <2> QED
    BY <2>4, <2>5 DEF StreamInv
<1>9. CASE UNCHANGED vars
  BY <1>1, <1>9 DEF vars
<1> QED
  BY <1>2, <1>3, <1>4, <1>5, <1>6, <1>7, <1>8, <1>9, StreamStart, StreamHandler DEF Next, Cleaner

LEMMA StreamInit == Init => StreamInv
<1> SUFFICES ASSUME Init PROVE StreamInv
  OBVIOUS
<1>1. \A f \in Files : permits[f] = {} /\ semaphore[f] = NoFile /\ pc[f] = "idle"
  BY DEF Init, StoreInit
<1>2. Limited
  BY <1>1, FS_EmptySet, SizeLimit DEF Limited
<1>3. Permitted /\ InHand /\ OneSemaphore /\ InTheMap
  BY <1>1 DEF Permitted, InHand, OneSemaphore, InTheMap, InStream, Running
<1> QED
  BY <1>2, <1>3 DEF StreamInv

LEMMA StreamLimit ==
  ASSUME UploadTypeOK, StreamInv
  PROVE  StreamsWithinLimit
<1> SUFFICES ASSUME NEW p \in Pairings PROVE Cardinality(Streaming(p)) <= MaxStreams
  BY DEF StreamsWithinLimit
<1>1. CASE Streaming(p) = {}
  BY <1>1, FS_EmptySet, SizeLimit
<1>2. CASE Streaming(p) # {}
  <2>1. PICK f \in Files : f \in Streaming(p)
    BY <1>2 DEF Streaming
  <2>2. semaphore[f] \in Files
    BY <2>1 DEF Streaming, InStream, StreamInv, Permitted, UploadTypeOK, StoreTypeOK
  <2>3. Streaming(p) \in SUBSET permits[semaphore[f]]
    BY <2>1 DEF Streaming, InStream, StreamInv, Permitted, OneSemaphore
  <2> QED
    BY <2>2, <2>3, PermitsFinite, FewerOrEqual DEF StreamInv, Limited
<1> QED
  BY <1>1, <1>2

(* No more uploads of a pairing stream at once than the configured limit,  *)
(* although the clean-up drops the semaphore while permits are out.        *)
THEOREM StreamsStayWithinLimit == Spec => []StreamsWithinLimit
BY StreamLimit, FileInvariant, StreamInit, StreamStep, PTL DEF Spec

-----------------------------------------------------------------------------
(* The bytes.  That the account agrees with what the pending files hold is *)
(* not inductive: a release must find the very amount it takes away, so an *)
(* upload has one release at most, an upload that is received holds the    *)
(* largest size, and a stored one the size of its file.                    *)

OneDebt == \A debt, other \in owed : debt.file = other.file => debt = other

FullSize == \A f \in Files : status[f] = "Uploading" => size[f] = MaxUploadSize

HasSize(f) == status[f] \notin {"absent", "Uploading"} /\ disk[f] = "final"

RealSize == \A f \in Files : HasSize(f) => size[f] = written[f]

BytesLimited == restarts = 0 => pendingBytes <= MaxBytes

BytesInv == BytesAgree /\ OneDebt /\ FullSize /\ RealSize /\ BytesLimited

(* What a pending file holds, by entry or by debt.                         *)
LEMMA HeldByEntry ==
  ASSUME NEW pending, NEW indexed, NEW sizes, NEW debts, NEW held,
         held = [f \in pending |-> IF f \in indexed THEN sizes[f]
                                   ELSE (CHOOSE debt \in debts : debt.file = f).amount]
  PROVE  /\ DOMAIN held = pending
         /\ \A f \in pending \cap indexed : held[f] = sizes[f]
         /\ \A debt \in debts : debt.file \in pending \ indexed /\
              (\A other \in debts : other.file = debt.file => other = debt) =>
                held[debt.file] = debt.amount
<1>1. ASSUME NEW debt \in debts, debt.file \in pending \ indexed,
             \A other \in debts : other.file = debt.file => other = debt
      PROVE  held[debt.file] = debt.amount
  <2> DEFINE chosen == CHOOSE other \in debts : other.file = debt.file
  <2>1. chosen \in debts /\ chosen.file = debt.file
    OBVIOUS
  <2>2. chosen = debt
    BY <1>1, <2>1
  <2>3. held[debt.file] = chosen.amount
    BY <1>1
  <2> QED
    BY <2>2, <2>3
<1> QED
  BY <1>1

LEMMA HeldIs ==
  ASSUME OneDebt
  PROVE  /\ DOMAIN Held = Pending
         /\ \A f \in Pending \cap Indexed : Held[f] = size[f]
         /\ \A debt \in owed : debt.file \in Pending \ Indexed => Held[debt.file] = debt.amount
<1>1. \A debt \in owed : \A other \in owed : other.file = debt.file => other = debt
  BY DEF OneDebt
<1> QED
  BY <1>1, HeldByEntry DEF Held

LEMMA HeldBecomes ==
  ASSUME OneDebt'
  PROVE  /\ DOMAIN Held' = Pending'
         /\ \A f \in Pending' \cap Indexed' : Held'[f] = size'[f]
         /\ \A debt \in owed' : debt.file \in Pending' \ Indexed' => Held'[debt.file] = debt.amount
<1>1. \A debt \in owed' : \A other \in owed' : other.file = debt.file => other = debt
  BY DEF OneDebt
<1>2. Held' = [f \in Pending' |-> IF f \in Indexed' THEN size'[f]
                                  ELSE (CHOOSE debt \in owed' : debt.file = f).amount]
  BY DEF Held
<1> QED
  BY <1>1, <1>2, HeldByEntry

(* A file with an entry is pending; a pending one without is owed.         *)
LEMMA PendingHas ==
  ASSUME StoreTypeOK, AccountInv
  PROVE  /\ Pending \subseteq Files /\ IsFiniteSet(Pending)
         /\ Indexed \subseteq Pending
         /\ \A f \in Pending \ Indexed : \E debt \in owed : debt.file = f
         /\ \A debt \in owed : debt.file \in Files \ Indexed /\ debt.amount \in Nat
<1>1. Pending \subseteq Files
  BY DEF Pending, StoreTypeOK
<1>2. Indexed \subseteq Pending
  BY PendingIs DEF AccountInv, QuotaFollowsEntries, Indexed, StoreTypeOK
<1>3. \A f \in Pending \ Indexed : \E debt \in owed : debt.file = f
  BY PendingIs DEF AccountInv, QuotaFollowsEntries, Due
<1>4. \A debt \in owed : debt.file \in Files \ Indexed /\ debt.amount \in Nat
  BY DEF AccountInv, Debts, Indexed, StoreTypeOK
<1> QED
  BY <1>1, <1>2, <1>3, <1>4, PendingFinite

LEMMA HeldInNat ==
  ASSUME StoreTypeOK, AccountInv, OneDebt
  PROVE  \A f \in Pending : Held[f] \in Nat
<1> SUFFICES ASSUME NEW f \in Pending PROVE Held[f] \in Nat
  OBVIOUS
<1>1. CASE f \in Indexed
  <2>1. size[f] \in Nat
    BY PendingHas, SizeLimit DEF StoreTypeOK
  <2> QED
    BY <1>1, <2>1, HeldIs
<1>2. CASE f \notin Indexed
  <2>1. PICK debt \in owed : debt.file = f
    BY <1>2, PendingHas
  <2> QED
    BY <1>2, <2>1, PendingHas, HeldIs
<1> QED
  BY <1>1, <1>2

(* What a file that nobody touches goes on holding.                        *)
LEMMA HeldKept ==
  ASSUME StoreTypeOK, AccountInv, OneDebt, OneDebt', NEW f \in Pending, f \in Pending',
         f \in Indexed <=> f \in Indexed', size'[f] = size[f],
         \A debt \in owed : debt.file = f => debt \in owed'
  PROVE  Held'[f] = Held[f]
<1>1. CASE f \in Indexed
  BY <1>1, HeldIs, HeldBecomes
<1>2. CASE f \notin Indexed
  <2>1. PICK debt \in owed : debt.file = f
    BY <1>2, PendingHas
  <2>2. Held[f] = debt.amount
    BY <1>2, <2>1, HeldIs
  <2>3. Held'[f] = debt.amount
    BY <1>2, <2>1, HeldBecomes
  <2> QED
    BY <2>2, <2>3
<1> QED
  BY <1>1, <1>2

-----------------------------------------------------------------------------
(* What a step may do to the account.                                      *)
AccountSame == Held' = Held /\ UNCHANGED <<reserved, pendingBytes>>

GivesBack(f) ==
  /\ f \in Pending
  /\ reserved' = [p \in Owners |-> reserved[p] \ {f}]
  /\ Held' = [g \in Pending \ {f} |-> Held[g]]
  /\ pendingBytes' = pendingBytes - Held[f]

Settles(f) ==
  /\ f \in Pending
  /\ reserved' = reserved
  /\ Held[f] = MaxUploadSize
  /\ Held' = [Held EXCEPT ![f] = written[f]]
  /\ pendingBytes' = pendingBytes - (MaxUploadSize - written[f])

AccountMoves == AccountSame \/ \E f \in Files : GivesBack(f) \/ Settles(f)

(* Steps that change no amount, no debt and no account.                    *)
LEMMA BytesKept ==
  ASSUME StoreTypeOK, AccountInv, BytesInv,
         UNCHANGED <<reserved, pendingBytes, owed, size, restarts>>,
         \A f \in Files : status'[f] = "absent" <=> status[f] = "absent",
         \A f \in Files : status'[f] = "Uploading" => status[f] = "Uploading",
         \A f \in Files : HasSize(f)' => HasSize(f) /\ written'[f] = written[f]
  PROVE  BytesInv' /\ AccountSame
<1>1. OneDebt' /\ FullSize' /\ RealSize' /\ BytesLimited'
  BY DEF BytesInv, OneDebt, FullSize, RealSize, BytesLimited
<1>2. Held' = Held
  <2>1. Pending' = Pending /\ Indexed' = Indexed
    BY DEF Pending, Indexed
  <2> QED
    BY <2>1 DEF Held
<1>3. BytesAgree'
  BY <1>2 DEF BytesInv, BytesAgree
<1> QED
  BY <1>1, <1>2, <1>3 DEF BytesInv, AccountSame

(* An entry goes: what it held becomes the amount of the release to come.  *)
LEMMA BytesRemoved ==
  ASSUME StoreTypeOK, AccountInv, BytesInv, NEW f \in Files, status[f] # "absent", Unindex(f),
         NEW debt \in Debt, debt.file = f, debt.amount = size[f], owed' = owed \cup {debt},
         UNCHANGED <<reserved, pendingBytes, restarts, disk, written>>
  PROVE  BytesInv' /\ AccountSame
<1>1. /\ \A g \in Files : status'[g] = IF g = f THEN "absent" ELSE status[g]
      /\ \A g \in Files : g # f => size'[g] = size[g]
  BY DEF Unindex, StoreTypeOK
<1>2. \A other \in owed : other.file # f
  BY DEF AccountInv, Debts
<1>3. OneDebt'
  BY <1>2 DEF BytesInv, OneDebt
<1>4. FullSize' /\ RealSize' /\ BytesLimited'
  BY <1>1 DEF BytesInv, FullSize, RealSize, HasSize, BytesLimited
<1>5. Pending' = Pending /\ Indexed' = Indexed \ {f} /\ f \in Indexed
  BY <1>1 DEF Pending, Indexed
<1>6. f \in Pending /\ Pending \subseteq Files
  BY <1>5, PendingHas
<1>7. \A g \in Pending : Held'[g] = Held[g]
  <2> SUFFICES ASSUME NEW g \in Pending PROVE Held'[g] = Held[g]
    OBVIOUS
  <2>1. CASE g = f
    <3>1. Held[f] = size[f]
      BY <1>5, <1>6, HeldIs DEF BytesInv
    <3>2. Held'[f] = debt.amount
      BY <1>3, <1>5, <1>6, HeldBecomes
    <3> QED
      BY <2>1, <3>1, <3>2
  <2>2. CASE g # f
    BY <1>1, <1>3, <1>5, <1>6, <2>2, HeldKept DEF BytesInv
  <2> QED
    BY <2>1, <2>2
<1>8. Held' = Held
  <2>1. /\ Held = [g \in Pending |-> Held[g]]
        /\ Held' = [g \in Pending' |-> Held'[g]]
    BY DEF Held
  <2> QED
    BY <1>5, <1>7, <2>1
<1>9. BytesAgree'
  BY <1>8 DEF BytesInv, BytesAgree
<1> QED
  BY <1>3, <1>4, <1>8, <1>9 DEF BytesInv, AccountSame

LEMMA BytesRemoveEntry ==
  ASSUME StoreTypeOK, AccountInv, BytesInv, NEW f \in Files, NEW delete \in BOOLEAN,
         RemoveEntry(f, delete),
         UNCHANGED <<reserved, pendingBytes, restarts, disk, written>>
  PROVE  BytesInv' /\ AccountSame
<1>1. CASE status[f] = "absent"
  <2>1. UNCHANGED <<indexVars, owed>>
    BY <1>1 DEF RemoveEntry
  <2> QED
    BY <2>1, BytesKept DEF HasSize
<1>2. CASE status[f] # "absent"
  <2> DEFINE debt == [file |-> f, owner |-> owner[f], amount |-> size[f], delete |-> delete]
  <2>1. debt \in Debt /\ debt.file = f /\ debt.amount = size[f]
    BY SizeLimit DEF StoreTypeOK
  <2>2. Unindex(f) /\ owed' = owed \cup {debt}
    BY <1>2 DEF RemoveEntry
  <2> HIDE DEF debt
  <2> QED
    BY <1>2, <2>1, <2>2, BytesRemoved
<1> QED
  BY <1>1, <1>2

LEMMA PendingGrows ==
  ASSUME NEW f, NEW p \in Owners,
         \A q \in Owners : reserved'[q] = IF q = p THEN reserved[q] \cup {f} ELSE reserved[q]
  PROVE  Pending' = Pending \cup {f}
BY DEF Pending

LEMMA PendingShrinks ==
  ASSUME CountsAgree, NEW p \in Owners, NEW f \in reserved[p],
         \A q \in Owners : reserved'[q] = IF q = p THEN reserved[q] \ {f} ELSE reserved[q]
  PROVE  Pending' = Pending \ {f}
<1>1. \A q \in Owners : q # p => f \notin reserved[q]
  BY DEF CountsAgree
<1>2. \A q \in Owners : reserved'[q] = reserved[q] \ {f}
  BY <1>1
<1> QED
  BY <1>2 DEF Pending

(* A release takes from the account exactly what the file held.            *)
LEMMA BytesReleased ==
  ASSUME StoreTypeOK, AccountInv, BytesInv, NEW f \in Files, NEW p \in Owners, NEW amount,
         Release(f, p, amount), f \in reserved[p], amount = Held[f],
         OneDebt', f \notin Indexed',
         \A g \in Files : g # f => (g \in Indexed' <=> g \in Indexed) /\ size'[g] = size[g],
         \A debt \in owed : debt.file # f => debt \in owed'
  PROVE  BytesAgree' /\ pendingBytes' <= pendingBytes /\ GivesBack(f)
<1>1. f \in Pending /\ Pending' = Pending \ {f} /\ Pending \subseteq Files
  <2>1. \A q \in Owners : reserved'[q] = IF q = p THEN reserved[q] \ {f} ELSE reserved[q]
    BY ReleaseShrinks
  <2>2. f \in Pending /\ Pending \subseteq Files
    BY PendingIs, PendingHas
  <2>3. Pending' = Pending \ {f}
    BY <2>1, PendingShrinks DEF AccountInv
  <2> QED
    BY <2>2, <2>3
<1>2. DOMAIN Held = Pending /\ DOMAIN Held' = Pending'
  BY HeldIs, HeldBecomes DEF BytesInv
<1>3. \A g \in Pending' : Held'[g] = Held[g]
  <2> SUFFICES ASSUME NEW g \in Pending' PROVE Held'[g] = Held[g]
    OBVIOUS
  <2>1. g \in Pending /\ g \in Files /\ g # f
    BY <1>1
  <2> QED
    BY <2>1, HeldKept DEF BytesInv
<1>4. IsFiniteSet(Pending) /\ \A g \in Pending : Held[g] \in Nat
  BY PendingHas, HeldInNat DEF BytesInv
<1>5. /\ SumFunction(Held) \in Nat /\ SumFunction(Held') \in Nat /\ Held[f] \in Nat
      /\ SumFunction(Held) = Held[f] + SumFunction(Held')
  <2>1. /\ IsFiniteSet(DOMAIN Held) /\ f \in DOMAIN Held /\ DOMAIN Held' = DOMAIN Held \ {f}
        /\ \A g \in DOMAIN Held : Held[g] \in Nat
        /\ \A g \in DOMAIN Held' : Held'[g] = Held[g]
    BY <1>1, <1>2, <1>3, <1>4
  <2> QED
    BY <2>1, SumWithout
<1>6. pendingBytes' = Monus(pendingBytes, Held[f]) /\ pendingBytes = SumFunction(Held)
  BY DEF Release, BytesInv, BytesAgree
<1>7. pendingBytes' = SumFunction(Held') /\ pendingBytes' <= pendingBytes
  BY <1>5, <1>6 DEF Monus
<1>8. reserved' = [q \in Owners |-> reserved[q] \ {f}]
  <2>1. \A q \in Owners : reserved'[q] = IF q = p THEN reserved[q] \ {f} ELSE reserved[q]
    BY ReleaseShrinks
  <2>2. reserved' = [q \in Owners |-> reserved'[q]]
    BY DEF Release, StoreTypeOK
  <2>3. \A q \in Owners : q # p => f \notin reserved[q]
    BY DEF AccountInv, CountsAgree
  <2> QED
    BY <2>1, <2>2, <2>3
<1>9. Held' = [g \in Pending \ {f} |-> Held[g]]
  <2>1. Held' = [g \in Pending' |-> Held'[g]]
    BY DEF Held
  <2> QED
    BY <1>1, <1>3, <2>1
<1>10. pendingBytes' = pendingBytes - Held[f]
  BY <1>5, <1>6 DEF Monus
<1> QED
  BY <1>1, <1>7, <1>8, <1>9, <1>10 DEF BytesAgree, GivesBack

LEMMA BytesNatural ==
  ASSUME StoreTypeOK, AccountInv, BytesInv
  PROVE  pendingBytes \in Nat
<1>1. IsFiniteSet(Pending) /\ (\A g \in Pending : Held[g] \in Nat) /\ DOMAIN Held = Pending
  BY PendingHas, HeldInNat, HeldIs DEF BytesInv
<1>2. SumFunctionOnSet(Held, Pending) \in Nat
  BY <1>1, SumInNat
<1> QED
  BY <1>1, <1>2 DEF BytesInv, BytesAgree, SumFunction

LEMMA BytesPaid ==
  ASSUME UploadTypeOK, AccountInv, BytesInv, NEW debt \in owed, PayDebt(debt),
         UNCHANGED <<indexVars, disk, written, restarts>>
  PROVE  BytesInv' /\ (AccountSame \/ GivesBack(debt.file))
<1> DEFINE f == debt.file
           p == debt.owner
<1>1. f \in Files /\ p \in Owners /\ debt.amount \in Nat /\ f \notin Indexed /\ StoreTypeOK
  BY PendingHas DEF UploadTypeOK, StoreTypeOK
<1>2. Release(f, p, debt.amount) /\ owed' = owed \ {debt}
  BY DEF PayDebt
<1>3. OneDebt' /\ FullSize' /\ RealSize'
  BY <1>2 DEF BytesInv, OneDebt, FullSize, RealSize, HasSize
<1>4. Indexed' = Indexed
  BY DEF Indexed
<1>5. \A other \in owed : other.file # f => other \in owed'
  BY <1>2
<1>6. CASE f \in reserved[p]
  <2>1. f \in Pending
    BY <1>1, <1>6, PendingIs
  <2>2. debt.amount = Held[f]
    BY <1>1, <2>1, HeldIs DEF BytesInv
  <2>3. BytesAgree' /\ pendingBytes' <= pendingBytes /\ GivesBack(f)
    BY <1>1, <1>2, <1>3, <1>4, <1>5, <1>6, <2>2, BytesReleased
  <2>4. pendingBytes' = Monus(pendingBytes, debt.amount) /\ pendingBytes \in Nat
    BY <1>1, <1>2, <1>6, BytesNatural DEF Release
  <2>5. BytesLimited'
    BY <1>1, <2>4, SizeLimit DEF BytesInv, BytesLimited, Monus
  <2> QED
    BY <1>3, <2>3, <2>5 DEF BytesInv
<1>7. CASE f \notin reserved[p]
  <2>1. reserved' = reserved /\ pendingBytes' = pendingBytes
    BY <1>2, <1>7 DEF Release
  <2>2. Pending' = Pending /\ f \notin Pending /\ Pending \subseteq Files
    BY <1>7, <2>1, PendingHas, PendingIs, <1>1 DEF Pending, AccountInv, Debts
  <2>3. \A g \in Pending : Held'[g] = Held[g]
    BY <1>1, <1>3, <1>4, <1>5, <2>2, HeldKept DEF BytesInv
  <2>4. Held' = Held
    <3>1. /\ Held = [g \in Pending |-> Held[g]]
          /\ Held' = [g \in Pending' |-> Held'[g]]
      BY DEF Held
    <3> QED
      BY <2>2, <2>3, <3>1
  <2> QED
    BY <1>3, <2>1, <2>4 DEF BytesInv, BytesAgree, BytesLimited, AccountSame
<1> QED
  BY <1>6, <1>7

(* A relayed file for a closed pairing is taken out again.                 *)
LEMMA BytesSaveClosed ==
  ASSUME UploadTypeOK, AccountInv, BytesInv, NEW f \in Files, status[f] = "Uploading", Running(f),
         Unindex(f), Release(f, pairing[f], size[f]),
         UNCHANGED <<owed, disk, written, restarts>>
  PROVE  BytesInv' /\ GivesBack(f)
<1>1. /\ \A g \in Files : status'[g] = IF g = f THEN "absent" ELSE status[g]
      /\ \A g \in Files : g # f => size'[g] = size[g]
      /\ StoreTypeOK
  BY DEF Unindex, UploadTypeOK, StoreTypeOK
<1>2. f \in Indexed /\ f \in Pending /\ pairing[f] \in Owners
  BY <1>1, PendingHas DEF Indexed, UploadTypeOK
<1>3. f \in reserved[pairing[f]]
  BY <1>2, PendingIs DEF AccountInv, Ownership
<1>4. OneDebt' /\ FullSize' /\ RealSize'
  BY <1>1 DEF BytesInv, OneDebt, FullSize, RealSize, HasSize
<1>5. size[f] = Held[f] /\ size[f] \in Nat
  BY <1>1, <1>2, HeldIs, SizeLimit DEF BytesInv, StoreTypeOK
<1>6. f \notin Indexed' /\ \A g \in Files : g # f => (g \in Indexed' <=> g \in Indexed)
  BY <1>1 DEF Indexed
<1>7. BytesAgree' /\ GivesBack(f)
  BY <1>1, <1>2, <1>3, <1>4, <1>5, <1>6, BytesReleased
<1>8. BytesLimited'
  <2>1. pendingBytes' = Monus(pendingBytes, size[f]) /\ pendingBytes \in Nat
    BY <1>1, <1>3, BytesNatural DEF Release
  <2> QED
    BY <1>5, <2>1, SizeLimit DEF BytesInv, BytesLimited, Monus
<1> QED
  BY <1>4, <1>7, <1>8 DEF BytesInv

(* The reservation becomes the size of the file.                           *)
LEMMA BytesStored ==
  ASSUME UploadTypeOK, AccountInv, BytesInv, NEW f \in Files, status[f] = "Uploading",
         NEW s \in {"StoredUnnotified", "Notified"}, Store(f, s),
         UNCHANGED <<owed, disk, written, restarts>>
  PROVE  BytesInv' /\ Settles(f)
<1>1. /\ \A g \in Files : status'[g] = IF g = f THEN s ELSE status[g]
      /\ \A g \in Files : size'[g] = IF g = f THEN written[f] ELSE size[g]
      /\ StoreTypeOK /\ pendingBytes' = CorrectedBytes(f) /\ reserved' = reserved
  BY DEF Store, UploadTypeOK, StoreTypeOK
<1>2. /\ size[f] = MaxUploadSize /\ written[f] \in Nat /\ written[f] <= MaxUploadSize
      /\ MaxUploadSize \in Nat
  BY <1>1, SizeLimit DEF BytesInv, FullSize, StoreTypeOK
<1>3. OneDebt' /\ FullSize' /\ RealSize'
  BY <1>1 DEF BytesInv, OneDebt, FullSize, RealSize, HasSize
<1>4. f \in Indexed /\ f \in Pending /\ Pending' = Pending /\ Indexed' = Indexed
  BY <1>1, PendingHas DEF Indexed, Pending
<1>5. Held[f] = MaxUploadSize /\ Held'[f] = written[f]
  BY <1>1, <1>2, <1>3, <1>4, HeldIs, HeldBecomes DEF BytesInv
<1>6. \A g \in Pending \ {f} : Held'[g] = Held[g]
  <2> SUFFICES ASSUME NEW g \in Pending \ {f} PROVE Held'[g] = Held[g]
    OBVIOUS
  <2>1. g \in Files /\ size'[g] = size[g]
    BY <1>1, PendingHas
  <2> QED
    BY <1>1, <1>3, <1>4, <2>1, HeldKept DEF BytesInv
<1>7. /\ DOMAIN Held = Pending /\ DOMAIN Held' = Pending /\ IsFiniteSet(Pending)
      /\ \A g \in Pending : Held[g] \in Nat
  BY <1>1, <1>3, <1>4, HeldIs, HeldBecomes, PendingHas, HeldInNat DEF BytesInv
<1>8. PICK rest \in Nat : /\ SumFunction(Held) = MaxUploadSize + rest
                         /\ SumFunction(Held') = written[f] + rest
  <2>1. \E rest \in Nat : /\ SumFunction(Held) = Held[f] + rest
                          /\ SumFunction(Held') = Held'[f] + rest
    BY <1>2, <1>4, <1>5, <1>6, <1>7, SumWithChange
  <2> QED
    BY <1>5, <2>1
<1>9. pendingBytes = MaxUploadSize + rest
  BY <1>8 DEF BytesInv, BytesAgree
<1>10. pendingBytes' = written[f] + rest /\ pendingBytes' <= pendingBytes
  BY <1>1, <1>2, <1>9 DEF CorrectedBytes, Monus
<1>11. BytesAgree' /\ BytesLimited'
  BY <1>2, <1>8, <1>9, <1>10, SizeLimit DEF BytesInv, BytesAgree, BytesLimited
<1>12. Held' = [Held EXCEPT ![f] = written[f]]
  <2>1. /\ Held = [g \in Pending |-> Held[g]]
        /\ Held' = [g \in Pending' |-> Held'[g]]
    BY DEF Held
  <2> QED
    BY <1>4, <1>5, <1>6, <2>1
<1>13. pendingBytes' = pendingBytes - (MaxUploadSize - written[f])
  BY <1>2, <1>9, <1>10
<1> QED
  BY <1>1, <1>3, <1>4, <1>5, <1>11, <1>12, <1>13 DEF BytesInv, Settles

(* An upload begins with the largest size, if the limit allows it.         *)
LEMMA BytesStart ==
  ASSUME UploadTypeOK, AccountInv, BytesInv, NEW f \in Files, NEW p \in Pairings,
         StartUpload(f, p)
  PROVE  /\ BytesInv'
         /\ Held' = [g \in Pending \cup {f} |-> IF g = f THEN MaxUploadSize ELSE Held[g]]
<1>1. /\ \A g \in Files : status'[g] = IF g = f THEN "Uploading" ELSE status[g]
      /\ \A g \in Files : size'[g] = IF g = f THEN MaxUploadSize ELSE size[g]
      /\ StoreTypeOK /\ pendingBytes' = pendingBytes + MaxUploadSize
      /\ \A q \in Owners : reserved'[q] = IF q = p THEN reserved[q] \cup {f} ELSE reserved[q]
      /\ UNCHANGED <<owed, disk, written, restarts>>
      /\ pc[f] = "idle" /\ pendingBytes + MaxUploadSize <= MaxBytes
  BY SizeLimit DEF StartUpload, BeginUpload, Reserve, Admits, UploadTypeOK, StoreTypeOK
<1>2. f \notin Indexed /\ f \notin Pending
  BY <1>1, PendingIs DEF AccountInv, Unused, Indexed
<1>3. Pending' = Pending \cup {f} /\ Indexed' = Indexed \cup {f}
  <2>1. Pending' = Pending \cup {f}
    BY <1>1, PendingGrows
  <2>2. Indexed' = Indexed \cup {f}
    BY <1>1 DEF Indexed
  <2> QED
    BY <2>1, <2>2
<1>4. OneDebt' /\ FullSize' /\ RealSize' /\ BytesLimited'
  BY <1>1 DEF BytesInv, OneDebt, FullSize, RealSize, HasSize, BytesLimited
<1>5. Held'[f] = MaxUploadSize
  BY <1>1, <1>3, <1>4, HeldBecomes
<1>6. \A g \in Pending : Held'[g] = Held[g]
  <2> SUFFICES ASSUME NEW g \in Pending PROVE Held'[g] = Held[g]
    OBVIOUS
  <2>1. g \in Files /\ size'[g] = size[g] /\ g # f
    BY <1>1, <1>2, PendingHas
  <2> QED
    BY <1>1, <1>3, <1>4, <2>1, HeldKept DEF BytesInv
<1>7. /\ DOMAIN Held = Pending /\ DOMAIN Held' = Pending' /\ IsFiniteSet(Pending')
      /\ \A g \in Pending : Held[g] \in Nat
  BY <1>1, <1>3, <1>4, HeldIs, HeldBecomes, PendingHas, HeldInNat, FS_AddElement DEF BytesInv
<1>8. /\ f \in DOMAIN Held' /\ DOMAIN Held = DOMAIN Held' \ {f}
      /\ \A g \in DOMAIN Held' : Held'[g] \in Nat
      /\ \A g \in DOMAIN Held : Held[g] = Held'[g]
  BY <1>2, <1>3, <1>5, <1>6, <1>7, SizeLimit
<1>9. SumFunction(Held') = Held'[f] + SumFunction(Held) /\ SumFunction(Held) \in Nat
  BY <1>7, <1>8, SumWithout
<1>10. BytesAgree'
  BY <1>1, <1>5, <1>9, SizeLimit DEF BytesInv, BytesAgree
<1>11. Held' = [g \in Pending \cup {f} |-> IF g = f THEN MaxUploadSize ELSE Held[g]]
  <2>1. Held' = [g \in Pending' |-> Held'[g]]
    BY DEF Held
  <2> QED
    BY <1>3, <1>5, <1>6, <2>1
<1> QED
  BY <1>4, <1>10, <1>11 DEF BytesInv

(* A restart takes the sizes from the directory.                           *)
LEMMA BytesBaseline ==
  ASSUME UploadTypeOK, Restart
  PROVE  BytesInv' /\ Held' = [f \in Found |-> written[f]]
<1>1. Baseline /\ restarts' = restarts + 1 /\ restarts \in Nat
  BY DEF Restart, UploadTypeOK
<1>2. /\ \A f \in Files : status'[f] = IF f \in Found THEN "StoredUnnotified" ELSE "absent"
      /\ \A f \in Files : size'[f] = IF f \in Found THEN written[f] ELSE 0
      /\ \A p \in Owners : reserved'[p] = IF p = Nil THEN Found ELSE {}
      /\ owed' = {} /\ UNCHANGED <<disk, written>>
      /\ pendingBytes' = SumFunctionOnSet(written, Found)
  BY <1>1 DEF Baseline
<1>3. Pending' = Found /\ Indexed' = Found /\ Found \subseteq Files
  BY <1>2 DEF Pending, Indexed, Found
<1>4. OneDebt' /\ FullSize' /\ RealSize' /\ BytesLimited'
  BY <1>1, <1>2 DEF OneDebt, FullSize, RealSize, HasSize, BytesLimited
<1>5. DOMAIN Held' = Found /\ \A f \in Found : Held'[f] = written[f]
  BY <1>2, <1>3, <1>4, HeldBecomes
<1>6. SumFunctionOnSet(Held', Found) = SumFunctionOnSet(written, Found)
  BY <1>5, FoundFinite, SumOfSame
<1>7. BytesAgree'
  BY <1>2, <1>5, <1>6 DEF BytesAgree, SumFunction
<1>8. Held' = [f \in Found |-> written[f]]
  <2>1. Held' = [f \in Pending' |-> Held'[f]]
    BY DEF Held
  <2> QED
    BY <1>3, <1>5, <2>1
<1> QED
  BY <1>4, <1>7, <1>8 DEF BytesInv

LEMMA BytesInit == Init => BytesInv
<1> SUFFICES ASSUME Init PROVE BytesInv
  OBVIOUS
<1>1. /\ \A p \in Owners : reserved[p] = {}
      /\ owed = {} /\ pendingBytes = 0
      /\ \A f \in Files : status[f] = "absent"
  BY DEF Init, StoreInit
<1>2. DOMAIN Held = {}
  BY <1>1 DEF Held, Pending
<1>3. SumFunction(Held) = 0
  BY <1>2, SumOfNothing DEF SumFunction
<1> QED
  BY <1>1, <1>3, SizeLimit DEF BytesInv, BytesAgree, OneDebt, FullSize, RealSize, HasSize, BytesLimited

LEMMA BytesHandler ==
  ASSUME UploadTypeOK, AccountInv, FileInv, BytesInv, NEW f \in Files, Handler(f) \/ DropHandler(f)
  PROVE  BytesInv' /\ AccountMoves
<1> USE DEF AccountMoves
<1>0. Running(f) /\ StoreTypeOK
  BY HandlerGoesOn DEF UploadTypeOK
<1>1. CASE \/ FindSemaphore(f) \/ AcquirePermit(f) \/ Announce(f) \/ CreateFile(f) \/ BreakStream(f)
          \/ FailReceive(f) \/ RenameFile(f)
  <2>1. UNCHANGED <<reserved, pendingBytes, owed, size, restarts, status>>
    BY <1>1 DEF FindSemaphore, AcquirePermit, Announce, CreateFile, BreakStream, FailReceive, RenameFile
  <2>2. pc[f] \in Receiving /\ \A g \in Files : g # f => disk'[g] = disk[g] /\ written'[g] = written[g]
    BY <1>1 DEF FindSemaphore, AcquirePermit, Announce, CreateFile, BreakStream, FailReceive, RenameFile,
                UploadTypeOK, StoreTypeOK, Receiving
  <2>3. status[f] = "Uploading"
    BY <2>2 DEF FileInv, Stages
  <2> QED
    BY <1>0, <2>1, <2>2, <2>3, BytesKept DEF HasSize
<1>2. CASE FinishStream(f) \/ ReadMeta(f) \/ Push(f) \/ DropHandler(f)
  <2>1. UNCHANGED <<reserved, pendingBytes, owed, size, restarts, status, disk, written>>
    BY <1>2 DEF FinishStream, ReadMeta, Push, DropHandler
  <2> QED
    BY <1>0, <2>1, BytesKept DEF HasSize
<1>3. CASE Discard(f)
  <2>1. /\ UNCHANGED <<reserved, pendingBytes, owed, size, restarts, status>> /\ disk'[f] = "none"
        /\ \A g \in Files : g # f => disk'[g] = disk[g] /\ written'[g] = written[g]
    BY <1>3 DEF Discard, EraseFile, UploadTypeOK, StoreTypeOK
  <2> QED
    BY <1>0, <2>1, BytesKept DEF HasSize
<1>4. CASE BeginNotifying(f) \/ MarkNotified(f)
  <2>1. UNCHANGED <<reserved, pendingBytes, owed, size, restarts, disk, written>>
    BY <1>4 DEF BeginNotifying, MarkNotified
  <2>2. \A g \in Files : /\ status'[g] = "absent" <=> status[g] = "absent"
                         /\ status'[g] = "Uploading" <=> status[g] = "Uploading"
    BY <1>4 DEF BeginNotifying, MarkNotified, MayNotify, UploadTypeOK, StoreTypeOK
  <2> QED
    BY <1>0, <2>1, <2>2, BytesKept DEF HasSize
<1>5. CASE MarkNotifyFailed(f)
  <2>1. UNCHANGED <<reserved, pendingBytes, restarts, disk, written>> /\ RemoveEntry(f, TRUE)
    BY <1>5 DEF MarkNotifyFailed
  <2> QED
    BY <1>0, <2>1, BytesRemoveEntry
<1>6. CASE Rollback(f)
  <2>1. /\ UNCHANGED <<reserved, pendingBytes, restarts, disk, written>>
        /\ Unindex(f) /\ pc[f] = "rollback"
    BY <1>6 DEF Rollback, RollbackUpload
  <2>2. status[f] = "Uploading"
    BY <2>1 DEF FileInv, Stages, Receiving
  <2> DEFINE debt == [file |-> f, owner |-> pairing[f], delete |-> FALSE, amount |-> size[f]]
  <2>3. owed' = owed \cup {debt}
    BY <1>6, <2>2 DEF Rollback, RollbackUpload
  <2>4. debt \in Debt /\ debt.file = f /\ debt.amount = size[f]
    BY <1>0, SizeLimit DEF UploadTypeOK, StoreTypeOK
  <2> HIDE DEF debt
  <2> QED
    BY <1>0, <2>1, <2>2, <2>3, <2>4, BytesRemoved
<1>7. CASE FinalizeStream(f) \/ MarkStreamingDone(f) \/ SaveFile(f)
  <2>1. pc[f] = "commit" /\ UNCHANGED <<owed, disk, written, restarts>>
    BY <1>7 DEF FinalizeStream, MarkStreamingDone, SaveFile
  <2>2. status[f] = "Uploading"
    BY <2>1 DEF FileInv, Stages, Receiving
  <2>3. CASE \E s \in {"StoredUnnotified", "Notified"} : Store(f, s)
    BY <2>1, <2>2, <2>3, BytesStored
  <2>4. CASE Unindex(f) /\ Release(f, pairing[f], size[f])
    BY <1>0, <2>1, <2>2, <2>4, BytesSaveClosed
  <2>5. \/ \E s \in {"StoredUnnotified", "Notified"} : Store(f, s)
        \/ Unindex(f) /\ Release(f, pairing[f], size[f])
    BY <1>7, <2>2 DEF FinalizeStream, MarkStreamingDone, SaveFile
  <2> QED
    BY <2>3, <2>4, <2>5
<1> QED
  BY <1>1, <1>2, <1>3, <1>4, <1>5, <1>6, <1>7 DEF Handler

LEMMA BytesOther ==
  ASSUME UploadTypeOK, AccountInv, BytesInv,
         \/ \E f \in Files : Client(f) \/ DeleteFile(f) \/ Expire(f)
         \/ \E p \in Pairings : ClosePairing(p)
         \/ Cleaner \/ Sweeper \/ UNCHANGED vars
  PROVE  BytesInv' /\ AccountSame
<1>0. StoreTypeOK
  BY DEF UploadTypeOK
<1>1. ASSUME UNCHANGED <<reserved, pendingBytes, owed, size, restarts, status>>,
             \A g \in Files : \/ disk'[g] = disk[g] /\ written'[g] = written[g]
                             \/ disk'[g] = "none"
      PROVE  BytesInv' /\ AccountSame
  BY <1>0, <1>1, BytesKept DEF HasSize
<1>2. ASSUME NEW f \in Files,
             \/ Download(f) \/ EndStreamFile(f) \/ DeleteFile(f) \/ Expire(f)
             \/ CheckFile(f) \/ SweepPath(f)
      PROVE  BytesInv' /\ AccountSame
  <2>1. UNCHANGED <<reserved, pendingBytes, owed, size, restarts, status>>
    BY <1>2 DEF Download, EndStreamFile, DeleteFile, Expire, CheckFile, SweepPath
  <2>2. \A g \in Files : \/ disk'[g] = disk[g] /\ written'[g] = written[g]
                         \/ disk'[g] = "none"
    BY <1>2 DEF Download, EndStreamFile, DeleteFile, Expire, CheckFile, SweepPath, EraseFile,
                UploadTypeOK, StoreTypeOK
  <2> QED
    BY <1>1, <2>1, <2>2
<1>3. CASE (\E p \in Pairings : ClosePairing(p)) \/ DropSemaphore \/ SweepFile \/ UNCHANGED vars
  <2>1. UNCHANGED <<reserved, pendingBytes, owed, size, restarts, status>>
    BY <1>3 DEF ClosePairing, DropSemaphore, SweepFile, vars
  <2>2. \A g \in Files : \/ disk'[g] = disk[g] /\ written'[g] = written[g]
                         \/ disk'[g] = "none"
    BY <1>3 DEF ClosePairing, DropSemaphore, SweepFile, EraseFile, vars, UploadTypeOK, StoreTypeOK
  <2> QED
    BY <1>1, <2>1, <2>2
<1>4. CASE (\E f \in Files : Acknowledge(f)) \/ RemoveDoomed \/ SweepEntry
  <2>1. \E f \in Files : \E delete \in BOOLEAN : RemoveEntry(f, delete)
    BY <1>4 DEF Acknowledge, RemoveDoomed, SweepEntry, UploadTypeOK
  <2>2. UNCHANGED <<reserved, pendingBytes, restarts, disk, written>>
    BY <1>4 DEF Acknowledge, RemoveDoomed, SweepEntry
  <2> QED
    BY <1>0, <2>1, <2>2, BytesRemoveEntry
<1> QED
  BY <1>2, <1>3, <1>4 DEF Client, Cleaner, Sweeper

LEMMA BytesStep == UploadTypeOK /\ AccountInv /\ FileInv /\ BytesInv /\ [Next]_vars => BytesInv'
<1> SUFFICES ASSUME UploadTypeOK, AccountInv, FileInv, BytesInv, [Next]_vars PROVE BytesInv'
  OBVIOUS
<1>1. CASE PayOwed
  <2>1. PICK debt \in owed : PayDebt(debt)
    BY <1>1 DEF PayOwed
  <2>2. UNCHANGED <<indexVars, disk, written, restarts>>
    BY <1>1 DEF PayOwed
  <2> QED
    BY <2>1, <2>2, BytesPaid
<1> QED
  BY <1>1, BytesStart, BytesHandler, BytesOther, BytesBaseline DEF Next

(* The inductive invariant of the bytes: what is charged for each file, at *)
(* every stage of its handler and of its releases.                         *)
THEOREM BytesInvariant == Spec => [](UploadTypeOK /\ AccountInv /\ BytesInv)
BY FileInvariant, BytesInit, BytesStep, PTL DEF Spec

(* Through the change from the reserved to the real size and every         *)
(* interleaved removal and release, global_pending_bytes is the sum of     *)
(* what the pending files hold: no saturating subtraction loses a byte.    *)
THEOREM BytesAlwaysAgree == Spec => []BytesAgree
BY BytesInvariant, PTL DEF BytesInv

LEMMA DiskLimited ==
  ASSUME UploadTypeOK, AccountInv, BytesInv
  PROVE  DiskWithinLimit
<1> DEFINE OnDisk == {f \in Indexed : disk[f] = "final"}
<1> SUFFICES ASSUME restarts = 0 PROVE SumFunctionOnSet(written, OnDisk) <= MaxBytes
  BY DEF DiskWithinLimit
<1>0. StoreTypeOK
  BY DEF UploadTypeOK
<1>1. IsFiniteSet(Pending) /\ OnDisk \in SUBSET Pending /\ Pending \subseteq Files
  BY <1>0, PendingHas
<1>2. \A f \in Pending : Held[f] \in Nat
  BY <1>0, HeldInNat DEF BytesInv
<1>3. \A f \in OnDisk : written[f] \in Nat /\ written[f] <= Held[f]
  <2> SUFFICES ASSUME NEW f \in OnDisk PROVE written[f] \in Nat /\ written[f] <= Held[f]
    OBVIOUS
  <2>1. f \in Files /\ f \in Pending \cap Indexed /\ status[f] # "absent" /\ disk[f] = "final"
    BY <1>1 DEF Indexed
  <2>2. Held[f] = size[f]
    BY <2>1, HeldIs DEF BytesInv
  <2>3. /\ written[f] \in Nat /\ written[f] <= MaxUploadSize
        /\ size[f] \in Nat /\ MaxUploadSize \in Nat
    BY <1>0, <2>1, SizeLimit DEF StoreTypeOK
  <2>4. size[f] = MaxUploadSize \/ size[f] = written[f]
    BY <2>1 DEF BytesInv, FullSize, RealSize, HasSize
  <2> QED
    BY <2>2, <2>3, <2>4
<1>4. SumFunctionOnSet(written, OnDisk) <= SumFunctionOnSet(Held, Pending)
  <2> HIDE DEF OnDisk
  <2> QED
    BY <1>1, <1>2, <1>3, SumOfMore
<1>5. SumFunctionOnSet(Held, Pending) = pendingBytes
  BY HeldIs DEF BytesInv, BytesAgree, SumFunction
<1>6. pendingBytes \in Nat /\ pendingBytes <= MaxBytes
  BY <1>0, BytesNatural DEF BytesInv, BytesLimited
<1>7. SumFunctionOnSet(written, OnDisk) \in Nat
  <2>1. IsFiniteSet(OnDisk) /\ \A f \in OnDisk : written[f] \in Nat
    BY <1>1, <1>3, FS_Subset
  <2> HIDE DEF OnDisk
  <2> QED
    BY <2>1, SumInNat
<1> HIDE DEF OnDisk
<1> QED
  BY <1>4, <1>5, <1>6, <1>7, SizeLimit

(* However many uploads run at once, what is stored in the directory fits  *)
(* into max_pending_upload_bytes_global.                                   *)
THEOREM DiskStaysWithinLimit == Spec => []DiskWithinLimit
BY BytesInvariant, DiskLimited, PTL

-----------------------------------------------------------------------------
(* The account as it is meant.  Which files have been admitted changes     *)
(* with the first step of an upload only.                                  *)
LEMMA StartedStays ==
  ASSUME UploadTypeOK, [Next]_vars, \A f \in Files : \A p \in Pairings : ~StartUpload(f, p)
  PROVE  Started' = Started
<1>1. \A f \in Files : pc'[f] = "idle" <=> pc[f] = "idle"
  <2>1. ASSUME NEW f \in Files, Handler(f) \/ DropHandler(f) PROVE HandlersGoOn
    BY <2>1, HandlerGoesOn
  <2>2. CASE Restart
    BY <2>2 DEF Restart, Ended, UploadTypeOK
  <2>3. ASSUME NEW f \in Files, Client(f) \/ DeleteFile(f) \/ Expire(f) PROVE pc' = pc
    BY <2>3 DEF Client, Download, EndStreamFile, Acknowledge, DeleteFile, Expire, handlerVars
  <2>4. CASE \/ \E p \in Pairings : ClosePairing(p)
            \/ Cleaner \/ Sweeper \/ PayOwed \/ UNCHANGED vars
    <3>1. pc' = pc
      BY <2>4
      DEF ClosePairing, Cleaner, CheckFile, RemoveDoomed, DropSemaphore, Sweeper, SweepPath,
          SweepFile, SweepEntry, PayOwed, vars, handlerVars
    <3> QED
      BY <3>1
  <2> QED
    BY <2>1, <2>2, <2>3, <2>4 DEF Next, HandlersGoOn
<1> QED
  BY <1>1 DEF Started

LEMMA QuotaInit == Init => Account!Init
<1> SUFFICES ASSUME Init PROVE Account!Init
  OBVIOUS
<1>1. reserved = [p \in Owners |-> {}] /\ pendingBytes = 0
  BY DEF Init, StoreInit
<1>2. Held = [f \in {} |-> 0]
  <2>1. Pending = {}
    BY <1>1 DEF Pending
  <2> QED
    BY <2>1 DEF Held
<1>3. Started = {}
  BY DEF Init, Started
<1> QED
  BY <1>1, <1>2, <1>3 DEF Account!Init

LEMMA QuotaStart ==
  ASSUME UploadTypeOK, AccountInv, BytesInv, NEW f \in Files, NEW p \in Pairings,
         StartUpload(f, p)
  PROVE  Account!Next
<1>1. f \notin Started /\ Started' = Started \cup {f}
  BY DEF StartUpload, Goto, Started, UploadTypeOK
<1>2. p \in Owners /\ p # Nil
  BY NilAssumption DEF Owners
<1>3. DOMAIN Held = Pending
  BY HeldIs DEF BytesInv
<1>4. /\ Cardinality(reserved[p]) < MaxPerPairing
      /\ Cardinality(DOMAIN Held) < MaxFiles
      /\ pendingBytes + MaxUploadSize <= MaxBytes
  BY <1>2, <1>3 DEF StartUpload, BeginUpload, Admits, AccountInv, CountsAgree
<1>5. /\ reserved' = [reserved EXCEPT ![p] = reserved[p] \cup {f}]
      /\ pendingBytes' = pendingBytes + MaxUploadSize
  BY DEF StartUpload, BeginUpload, Reserve
<1>6. Held' = [g \in DOMAIN Held \cup {f} |-> IF g = f THEN MaxUploadSize ELSE Held[g]]
  BY <1>3, BytesStart
<1>7. Account!Admit(f, p)
  BY <1>1, <1>2, <1>4, <1>5, <1>6 DEF Account!Admit, Account!Cardinality, Cardinality
<1> QED
  BY <1>2, <1>7 DEF Account!Next

LEMMA QuotaRestart ==
  ASSUME UploadTypeOK, AccountInv, BytesInv, Restart, Started' = Started
  PROVE  Account!Next
<1> DEFINE lengths == [f \in Found |-> written[f]]
<1>1. Found \in SUBSET Started
  BY DEF AccountInv, Unused, Found, Started
<1>2. lengths \in [Found -> 0..MaxUploadSize]
  BY DEF Found, UploadTypeOK, StoreTypeOK
<1>3. Held' = lengths
  BY BytesBaseline
<1>4. pendingBytes' = SumFunction(lengths)
  BY <1>3, BytesBaseline DEF BytesInv, BytesAgree
<1>5. reserved' = [p \in Owners |-> IF p = Nil THEN Found ELSE {}]
  BY DEF Restart, Baseline
<1> HIDE DEF lengths
<1>6. Account!CountAfresh(Found, lengths)
  <2>1. Account!SumFunction(lengths) = SumFunction(lengths)
    BY DEF Account!SumFunction, Account!SumFunctionOnSet, Account!FoldFunctionOnSet, Account!MapThenFoldSet,
           SumFunction, SumFunctionOnSet, FoldFunctionOnSet, MapThenFoldSet
  <2> QED
    BY <1>3, <1>4, <1>5, <2>1 DEF Account!CountAfresh
<1> QED
  BY <1>1, <1>2, <1>6 DEF Account!Next

LEMMA QuotaMoved ==
  ASSUME UploadTypeOK, BytesInv, AccountMoves, Started' = Started
  PROVE  Account!Next \/ UNCHANGED <<reserved, Held, pendingBytes, Started>>
<1>1. DOMAIN Held = Pending
  BY HeldIs DEF BytesInv
<1>2. CASE AccountSame
  BY <1>2 DEF AccountSame
<1>3. ASSUME NEW f \in Files, GivesBack(f) PROVE Account!Next
  <2>1. Account!GiveBack(f) /\ f \in DOMAIN Held
    BY <1>1, <1>3 DEF GivesBack, Account!GiveBack
  <2> QED
    BY <2>1 DEF Account!Next
<1>4. ASSUME NEW f \in Files, Settles(f) PROVE Account!Next
  <2>1. Account!Settle(f, written[f]) /\ f \in DOMAIN Held
    BY <1>1, <1>4 DEF Settles, Account!Settle
  <2>2. written[f] \in 0..MaxUploadSize
    BY DEF UploadTypeOK, StoreTypeOK
  <2> QED
    BY <2>1, <2>2 DEF Account!Next
<1> QED
  BY <1>2, <1>3, <1>4 DEF AccountMoves

LEMMA QuotaStep ==
  UploadTypeOK /\ AccountInv /\ FileInv /\ BytesInv /\ [Next]_vars
    => Account!Next \/ UNCHANGED <<reserved, Held, pendingBytes, Started>>
<1> SUFFICES ASSUME UploadTypeOK, AccountInv, FileInv, BytesInv, [Next]_vars
             PROVE  Account!Next \/ UNCHANGED <<reserved, Held, pendingBytes, Started>>
  OBVIOUS
<1>1. CASE \E f \in Files : \E p \in Pairings : StartUpload(f, p)
  BY <1>1, QuotaStart
<1>2. CASE \A f \in Files : \A p \in Pairings : ~StartUpload(f, p)
  <2>1. Started' = Started
    BY <1>2, StartedStays
  <2>2. CASE Restart
    BY <2>1, <2>2, QuotaRestart
  <2>3. CASE PayOwed
    <3>1. PICK debt \in owed : PayDebt(debt)
      BY <2>3 DEF PayOwed
    <3>2. UNCHANGED <<indexVars, disk, written, restarts>> /\ debt.file \in Files
      BY <2>3, <3>1 DEF PayOwed, UploadTypeOK, StoreTypeOK, Debt
    <3>3. AccountMoves
      BY <3>1, <3>2, BytesPaid DEF AccountMoves
    <3> QED
      BY <2>1, <3>3, QuotaMoved
  <2>4. ASSUME NEW f \in Files, Handler(f) \/ DropHandler(f)
        PROVE  Account!Next \/ UNCHANGED <<reserved, Held, pendingBytes, Started>>
    <3>1. AccountMoves
      BY <2>4, BytesHandler
    <3> QED
      BY <2>1, <3>1, QuotaMoved
  <2>5. CASE \/ \E f \in Files : Client(f) \/ DeleteFile(f) \/ Expire(f)
             \/ \E p \in Pairings : ClosePairing(p)
             \/ Cleaner \/ Sweeper \/ UNCHANGED vars
    <3>1. AccountMoves
      BY <2>5, BytesOther DEF AccountMoves
    <3> QED
      BY <2>1, <3>1, QuotaMoved
  <2> QED
    BY <1>2, <2>2, <2>3, <2>4, <2>5 DEF Next
<1> QED
  BY <1>1, <1>2

(* upload_store.rs implements the account as it is meant: saturating       *)
(* subtractions, two locks and five paths that remove an entry come to     *)
(* admitting each file once, settling its size and giving it back once.    *)
THEOREM AccountImplements == Spec => KeepsAccount
<1>1. Spec => [](UploadTypeOK /\ AccountInv /\ BytesInv) /\ []FileInv
  BY BytesInvariant, FileInvariant, PTL
<1>2. UploadTypeOK /\ AccountInv /\ BytesInv /\ FileInv /\ [Next]_vars
        => [Account!Next]_<<reserved, Held, pendingBytes, Started>>
  BY QuotaStep
<1> QED
  BY <1>1, <1>2, QuotaInit, PTL DEF Spec, KeepsAccount, Account!Spec
=============================================================================
