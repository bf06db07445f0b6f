-------------------------- MODULE PersistentRelay --------------------------
(***************************************************************************)
(* One pairing of the relay server together with its SQLite database: the  *)
(* handlers of PairingRelay put tasks in the bounded queue of the writer   *)
(* thread without waiting for it, the writer executes them in order, and a *)
(* crash at any point loses the memory and the queue and is followed by a  *)
(* start from what the database holds.                                     *)
(***************************************************************************)
EXTENDS PairingRelay, Sequences

CONSTANTS
  Capacity,    \* size of the writer's channel
  MaxRestarts  \* bound: restarts explored

ASSUME CapacityAssumption == Capacity \in Nat \ {0}
ASSUME MaxRestartsAssumption == MaxRestarts \in Nat

VARIABLES
  queue,     \* the tasks in the channel, oldest first
  row,       \* the row of the pairing in the table pairings
  table,     \* the rows of the pairing in the table browser_sessions; a
             \* row's pairing_epoch is cookieEpoch[b], which never changes
  drawn,     \* Subscribe calls that have saved the entry they will insert
  deleting,  \* the entry has been removed, delete_pairing is not called yet
  lost,      \* history: a task was dropped because the channel was full
  restarts   \* history: number of restarts

diskVars == <<row, table>>
persistVars == <<queue, diskVars, drawn, deleting, lost>>
allVars == <<vars, persistVars, restarts>>

(* A copy of the secret, seen from the entry: "current" is the entry's, a  *)
(* token stands for the secret its Subscribe call has drawn for an entry   *)
(* it has yet to insert, every other one is "stale".                       *)
Secret == {"current", "stale"} \cup Tokens

Row == [stored : BOOLEAN, epoch : Nat, secret : Secret, lapsed : BOOLEAN]
NoRow == [stored |-> FALSE, epoch |-> 0, secret |-> "stale", lapsed |-> FALSE]

Op == {"SavePairing", "DeletePairing", "SaveBrowserSession",
       "DeleteBrowserSessionsForPairing", "DeleteExpired"}
Task == [op : Op, epoch : Nat, secret : Secret, browser : Browsers \cup {NoBrowser}]

Plain(op) == [op |-> op, epoch |-> 0, secret |-> "stale", browser |-> NoBrowser]
SavePairing(e, s) == [Plain("SavePairing") EXCEPT !.epoch = e, !.secret = s]
SaveBrowserSession(b) == [Plain("SaveBrowserSession") EXCEPT !.browser = b]

PersistTypeOK ==
  /\ RelayTypeOK
  /\ queue \in Seq(Task)
  /\ Len(queue) <= Capacity
  /\ row \in Row
  /\ table \in [Browsers -> {"absent", "fresh", "expired"}]
  /\ drawn \in SUBSET Tokens
  /\ deleting \in BOOLEAN
  /\ lost \in BOOLEAN
  /\ restarts \in 0..MaxRestarts

PersistInit ==
  /\ Init
  /\ queue = <<>>
  /\ row = NoRow
  /\ table = [b \in Browsers |-> "absent"]
  /\ drawn = {}
  /\ deleting = FALSE
  /\ lost = FALSE
  /\ restarts = 0

-----------------------------------------------------------------------------
(* The tasks of one handler are put in the channel one by one with         *)
(* try_send.  If there is no room for all of them some are dropped; which  *)
(* ones depends on how the writer gets on meanwhile.                       *)
EnqueueAll(waiting, tasks) ==
  /\ Len(waiting) + Len(tasks) <= Capacity
  /\ queue' = waiting \o tasks
  /\ UNCHANGED lost

(* What k of the tasks make, in their order.                               *)
Subsequences(tasks, k) ==
  {[i \in 1..k |-> tasks[kept[i]]] :
     kept \in {f \in [1..k -> DOMAIN tasks] : \A i, j \in 1..k : i < j => f[i] < f[j]}}

EnqueueSome(waiting, tasks) ==
  /\ Len(waiting) + Len(tasks) > Capacity
  /\ \E k \in 0..Len(tasks) - 1 :
       \E sent \in Subsequences(tasks, k) : queue' = waiting \o sent
  /\ Len(queue') <= Capacity
  /\ lost' = TRUE

(* Bug: the channel is not bounded.                                        *)
EnqueueUnbounded(waiting, tasks) ==
  /\ queue' = waiting \o tasks
  /\ UNCHANGED lost

Enqueue(waiting, tasks) == EnqueueAll(waiting, tasks) \/ EnqueueSome(waiting, tasks)

(* The entry gets another secret, or goes: no copy is the entry's now.     *)
Aged(s) == IF s = "current" THEN "stale" ELSE s
AgedQueue == [i \in DOMAIN queue |-> [queue[i] EXCEPT !.secret = Aged(@)]]
AgedRow == [row EXCEPT !.secret = Aged(@)]

(* The secret that t's Subscribe call has drawn becomes the entry's.       *)
Adopted(s, t) == IF s = t THEN "current" ELSE Aged(s)

-----------------------------------------------------------------------------
(* upsert_pairing, an entry is there: it is saved under its lock.          *)
SaveRefreshed(t) ==
  /\ RefreshPairing(t)
  /\ Enqueue(queue, <<SavePairing(epoch, "current")>>)
  /\ UNCHANGED <<socketVars, cleaner, diskVars, drawn, deleting, restarts>>

(* upsert_pairing, no entry: the new one is saved before it is inserted.   *)
SaveDrawn(t) ==
  /\ stream[t] = "missing"
  /\ t \notin drawn
  /\ drawn' = drawn \cup {t}
  /\ Enqueue(queue, <<SavePairing(0, t)>>)
  /\ UNCHANGED <<vars, diskVars, deleting, restarts>>

InsertDrawn(t) ==
  /\ t \in drawn
  /\ InsertPairing(t)
  /\ drawn' = drawn \ {t}
  /\ queue' = [i \in DOMAIN queue |-> [queue[i] EXCEPT !.secret = Adopted(@, t)]]
  /\ row' = [row EXCEPT !.secret = Adopted(@, t)]
  /\ UNCHANGED <<socketVars, cleaner, table, deleting, lost, restarts>>

(* The destructor of the last stream saves the entry with its new deadline.*)
SaveOffline(t) ==
  /\ GoOffline(t)
  /\ IF exists
       THEN Enqueue(queue, <<SavePairing(epoch, "current")>>)
       ELSE UNCHANGED <<queue, lost>>
  /\ UNCHANGED <<socketVars, cleaner, diskVars, drawn, deleting, restarts>>

(* Bug: the session is saved before the older ones are deleted.            *)
BootstrapTasksSwapped(b) ==
  <<SaveBrowserSession(b), Plain("DeleteBrowserSessionsForPairing"), SavePairing(epoch, "current")>>

(* Bug: the rotated secret is not saved.                                   *)
BootstrapTasksWithoutSecret(b) ==
  <<Plain("DeleteBrowserSessionsForPairing"), SaveBrowserSession(b)>>

(* handle_bootstrap, under the entry's lock: three tasks, of which a crash *)
(* may leave any number undone.                                            *)
BootstrapTasks(b) ==
  <<Plain("DeleteBrowserSessionsForPairing"), SaveBrowserSession(b), SavePairing(epoch, "current")>>

SaveBootstrap(b) ==
  /\ Bootstrap(b)
  /\ row' = AgedRow
  /\ Enqueue(AgedQueue, BootstrapTasks(b))
  /\ UNCHANGED <<streamVars, cleaner, table, drawn, deleting, restarts>>

(* handle_revoke, under the entry's lock.                                  *)
SaveRevoke(t) ==
  /\ Revoke(t)
  /\ row' = AgedRow
  /\ Enqueue(AgedQueue, <<SavePairing(epoch + 1, "current"),
                          Plain("DeleteBrowserSessionsForPairing")>>)
  /\ UNCHANGED <<streamVars, cleaner, table, drawn, deleting, restarts>>

-----------------------------------------------------------------------------
(* cleanup_pairings: the entry goes, and only then is its row deleted.     *)
DropEntry ==
  /\ RemovePairing
  /\ deleting' = TRUE
  /\ queue' = AgedQueue
  /\ row' = AgedRow
  /\ UNCHANGED <<table, drawn, lost, restarts>>

DeleteRow ==
  /\ deleting
  /\ deleting' = FALSE
  /\ Enqueue(queue, <<Plain("DeletePairing")>>)
  /\ UNCHANGED <<vars, diskVars, drawn, restarts>>

Purge ==
  /\ ~deleting
  /\ PurgePairing
  /\ UNCHANGED <<persistVars, restarts>>

ExpiryWaiting == \E i \in DOMAIN queue : queue[i].op = "DeleteExpired"

(* Bug: the rows past their deadline are never swept.                      *)
SweepTasksNone == <<>>

SweepTasks == <<Plain("DeleteExpired")>>

(* The end of the cleanup's tick.  The next one is a minute later: it is   *)
(* let come only once the writer has got to the last one's task.           *)
Sweep ==
  /\ ~ExpiryWaiting
  /\ SweepStores
  /\ Enqueue(queue, SweepTasks)
  /\ UNCHANGED <<diskVars, drawn, deleting, restarts>>

-----------------------------------------------------------------------------
(* What a task does to the row.  DeleteExpired goes by the stored deadline *)
(* and asks nobody whether the pairing is online.                          *)
Deletes(task) ==
  \/ task.op = "DeletePairing"
  \/ task.op = "DeleteExpired" /\ row.lapsed

RowAfter(task) ==
  IF task.op = "SavePairing"
    THEN [stored |-> TRUE, epoch |-> task.epoch, secret |-> task.secret, lapsed |-> FALSE]
  ELSE IF Deletes(task) THEN NoRow
  ELSE row

(* What a task does to the rows of the browser sessions: they go with the  *)
(* pairing's row (ON DELETE CASCADE), and none is accepted without it      *)
(* (foreign key): the writer logs the error and takes the next task.       *)
SessionsAfter(task) ==
  [b \in Browsers |->
     IF \/ ~RowAfter(task).stored
        \/ task.op = "DeleteBrowserSessionsForPairing"
        \/ task.op = "DeleteExpired" /\ table[b] = "expired"
       THEN "absent"
     ELSE IF task.op = "SaveBrowserSession" /\ task.browser = b THEN "fresh"
     ELSE table[b]]

(* writer_loop: the oldest task is executed.                               *)
WriteTask ==
  /\ queue # <<>>
  /\ queue' = Tail(queue)
  /\ row' = RowAfter(Head(queue))
  /\ table' = SessionsAfter(Head(queue))
  /\ UNCHANGED <<vars, drawn, deleting, lost, restarts>>

-----------------------------------------------------------------------------
(* Time passes while nothing is in flight and the writer has nothing to do *)
(* (a day against milliseconds).  A stored deadline is cut to seconds and  *)
(* never later than the entry's, so it passes first.                       *)
Settled == NothingInFlight /\ queue = <<>>

LapseRow ==
  /\ Settled
  /\ row.stored
  /\ ~row.lapsed
  /\ row' = [row EXCEPT !.lapsed = TRUE]
  /\ UNCHANGED <<vars, queue, table, drawn, deleting, lost, restarts>>

LapseEntry ==
  /\ Settled
  /\ row.stored => row.lapsed
  /\ Lapse
  /\ UNCHANGED <<persistVars, restarts>>

ExpireSession(b) ==
  /\ Settled
  /\ ExpireCookie(b)
  /\ table' = [table EXCEPT ![b] = IF @ = "fresh" THEN "expired" ELSE @]
  /\ UNCHANGED <<streamVars, cleaner, queue, row, drawn, deleting, lost, restarts>>

(* Bug: the restored entry starts with epoch 0.                            *)
RestoredEpochZero == 0

RestoredEpoch == row.epoch

(* The server dies, and starts again at once or after the deadline of the  *)
(* row (late): the pairings and browser sessions that have not expired are *)
(* restored, offline, without a stream and without a phone.  The URL with  *)
(* a stale secret may have been sent to a PC or not.                       *)
Restart(late) ==
  LET loaded == row.stored /\ ~row.lapsed /\ ~late
  IN  /\ restarts < MaxRestarts
      /\ restarts' = restarts + 1
      /\ row' = [row EXCEPT !.lapsed = @ \/ (late /\ row.stored),
                            !.secret = IF loaded THEN "current" ELSE "stale"]
      /\ exists' = loaded
      /\ online' = FALSE
      /\ lapsed' = FALSE
      /\ epoch' = IF loaded THEN RestoredEpoch ELSE 0
      /\ activeToken' = NoToken
      /\ activeWs' = NoConn
      /\ displayed' \in IF loaded /\ row.secret = "stale" THEN BOOLEAN
                        ELSE {loaded /\ row.secret = "current" /\ displayed}
      /\ cookie' = [b \in Browsers |->
                      IF loaded /\ table[b] = "fresh" THEN "stored"
                      ELSE IF cookie[b] = "none" THEN "none" ELSE "deleted"]
      /\ sessions' = {}
      /\ createdAt' = [t \in Tokens |-> 0]
      /\ mobileTx' = [t \in Tokens |-> NoConn]
      /\ subscribeUrl' = [t \in Tokens |-> "none"]
      /\ bootstrapUrl' = [b \in Browsers |-> "none"]
      /\ revokeUrl' = [t \in Tokens |-> "none"]
      /\ shown' = [t \in Tokens |-> "none"]
      /\ firstEvent' = [t \in Tokens |-> "none"]
      /\ full' = {}
      /\ stream' = [t \in Tokens |-> IF stream[t] = "new" THEN "new" ELSE "gone"]
      /\ successor' = [t \in Tokens |-> NoToken]
      /\ conn' = [c \in Conns |-> IF conn[c] = "none" THEN "none" ELSE "done"]
      /\ local' = [c \in Conns |-> Nothing]
      /\ named' = [b \in Browsers |-> NoToken]
      /\ notifying' = {}
      /\ ordered' = {}
      /\ cleaner' = "idle"
      /\ queue' = <<>>
      /\ drawn' = {}
      /\ deleting' = FALSE
      /\ UNCHANGED <<overwritten, cookieEpoch, table, lost>>

-----------------------------------------------------------------------------
(* The steps that touch neither the writer's channel nor the database.     *)
OtherStreamStep(t) ==
  \/ MissPairing(t)
  \/ InsertSession(t)
  \/ SendSessionToken(t)
  \/ StallStream(t)
  \/ DropStream(t)
  \/ LocateSuccessor(t)
  \/ IndexSuccessor(t)
  \/ HandOver(t)

OtherSocketStep ==
  \/ \E c \in Conns : SocketHandler(c) \/ SocketEnvironment(c)
  \/ NoticeHandler

StreamStepWithDisk(t) ==
  \/ SaveRefreshed(t)
  \/ SaveDrawn(t)
  \/ InsertDrawn(t)
  \/ SaveOffline(t)
  \/ SaveRevoke(t)
  \/ OtherStreamStep(t) /\ UNCHANGED <<socketVars, cleaner, persistVars, restarts>>

PersistNext ==
  \/ \E t \in Tokens : StreamStepWithDisk(t)
  \/ \E b \in Browsers : SaveBootstrap(b) \/ ExpireSession(b)
  \/ OtherSocketStep /\ UNCHANGED <<streamVars, cleaner, persistVars, restarts>>
  \/ DropEntry
  \/ DeleteRow
  \/ Purge
  \/ Sweep
  \/ WriteTask
  \/ LapseRow
  \/ LapseEntry
  \/ \E late \in BOOLEAN : Restart(late)

PersistSpec == PersistInit /\ [][PersistNext]_allVars
(* The runtime polls its tasks and the writer thread is scheduled; the     *)
(* cleanup ticks for ever.  Deadlines pass although ticks keep giving the  *)
(* writer something to do (strong fairness).                               *)
PersistFairness ==
  /\ \A t \in Tokens :
       WF_allVars(StreamStepWithDisk(t) /\ ~(stream[t] \in {"new", "live"}))
  /\ WF_allVars(NoticeHandler /\ UNCHANGED <<streamVars, cleaner, persistVars, restarts>>)
  /\ WF_allVars(DropEntry) /\ WF_allVars(DeleteRow) /\ WF_allVars(Purge) /\ WF_allVars(Sweep)
  /\ WF_allVars(WriteTask)
  /\ SF_allVars(LapseRow) /\ SF_allVars(LapseEntry)

FairPersistSpec == PersistSpec /\ PersistFairness

-----------------------------------------------------------------------------
IsCurrent(copy) == copy.epoch = epoch /\ copy.secret = "current"

IsSave(i) == queue[i].op = "SavePairing"

(* The last save of the pairing in the channel.                            *)
IsLastSave(i) ==
  /\ i \in DOMAIN queue
  /\ IsSave(i)
  /\ \A j \in DOMAIN queue : IsSave(j) => j <= i

(* The database follows the entry: what the writer will write last, or has *)
(* written if nothing is waiting, is the entry's epoch and secret.  So a   *)
(* restart at rest revokes nothing and revives nothing, and the QR code on *)
(* the screen stays good.  The saves are made by five handlers, three of   *)
(* them under the entry's lock (grpc.rs:449, 353, web.rs:581, 845) and one *)
(* before the entry exists (grpc.rs:477).                                  *)
RowFollowsEntry ==
  ~lost /\ ~overwritten /\ exists /\ drawn = {} =>
    /\ \A i \in DOMAIN queue : IsLastSave(i) => IsCurrent(queue[i])
    /\ (\A i \in DOMAIN queue : ~IsSave(i)) /\ row.stored => IsCurrent(row)

(* However far the writer had come when the server died, at most one       *)
(* browser session is in the database: a bootstrap deletes before it saves *)
(* (web.rs:552, 553), and a phone that was superseded is not restored next *)
(* to its successor.                                                       *)
OneSessionOnDisk ==
  ~lost => \A b, d \in Browsers : table[b] # "absent" /\ table[d] # "absent" => b = d

(* A restart that finds the writer at rest changes the epoch for nobody:   *)
(* no revoked browser or ticket is accepted again, and a browser session   *)
(* that is accepted and stored is accepted afterwards (main.rs:38, web.rs: *)
(* 2222): reading, saving, writing and loading agree on every field.       *)
RestartKeepsEpoch ==
  [][restarts' # restarts /\ Settled /\ ~lost /\ ~overwritten /\ exists /\ exists' =>
       /\ epoch' = epoch
       /\ \A b \in Browsers :
            Authenticates(b) /\ table[b] = "fresh" => Authenticates(b)']_allVars

(* The row of a pairing that has left the memory leaves the database too,  *)
(* even if its DeletePairing was dropped by a full channel or lost in a    *)
(* crash (persist.rs:471).                                                 *)
Leftover == ~exists /\ row.stored /\ \A t \in Tokens : stream[t] \in {"new", "gone"}

LeftoverIsSwept == ~ <>[]Leftover

-----------------------------------------------------------------------------
(* server.example.toml:79: the pairings are restored by a restart.  With   *)
(* the writer at rest and no task dropped, a pairing whose PC is connected *)
(* has its row.                                                            *)
OnlinePairingIsStored ==
  Settled /\ ~lost /\ exists /\ online => row.stored

(* server.example.toml:79: so are the browser sessions.  A session that    *)
(* is accepted now is in the database once the pairing's row is.           *)
AcceptedSessionIsStored ==
  Settled /\ ~lost /\ row.stored =>
    \A b \in Browsers : Authenticates(b) => table[b] = "fresh"

=============================================================================
