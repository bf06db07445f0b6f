----------------------- MODULE PersistentRelay_proofs -----------------------
(***************************************************************************)
(* Theorems about the pairing relay and its database, for every number of  *)
(* PC streams, phones and browsers, every size of the writer's channel and *)
(* every number of restarts.                                               *)
(***************************************************************************)
EXTENDS PersistentRelay, PairingRelay_proofs

(* What the tasks in q make of the row r, once they have been written, has *)
(* epoch e and secret s, unless the row is gone by then.                   *)
Leaves(q, r, e, s) ==
  /\ \A i \in DOMAIN q :
       /\ q[i].op = "SavePairing"
       /\ \A j \in DOMAIN q : q[j].op = "SavePairing" => j <= i
       => q[i].epoch = e /\ q[i].secret = s
  /\ (\A i \in DOMAIN q : q[i].op # "SavePairing") /\ r.stored
       => r.epoch = e /\ r.secret = s

Missing == {t \in Tokens : stream[t] = "missing"}

DiskTypes ==
  /\ queue \in Seq(Task)
  /\ row \in Row
  /\ drawn \in SUBSET Missing
  /\ epoch \in Nat
  /\ stream \in [Tokens -> StreamPhase]

RowInv ==
  ~lost /\ ~overwritten =>
    /\ DiskTypes
    /\ exists /\ drawn = {} => Leaves(queue, row, epoch, "current")
    /\ \A t \in Tokens : ~exists /\ drawn = {t} => Leaves(queue, row, 0, t)
    /\ exists /\ Missing # {} => ~lapsed

-----------------------------------------------------------------------------
(* Tasks of which the last save holds e and s.                             *)
LEMMA AppendSave ==
  ASSUME NEW q \in Seq(Task), NEW tasks \in Seq(Task), NEW r \in Row,
         NEW e, NEW s, NEW k \in 1..Len(tasks),
         tasks[k].op = "SavePairing", tasks[k].epoch = e, tasks[k].secret = s,
         \A j \in k+1..Len(tasks) : tasks[j].op # "SavePairing"
  PROVE  Leaves(q \o tasks, r, e, s)
<1> DEFINE n == Len(q)
           all == q \o tasks
<1>1. n \in Nat /\ Len(tasks) \in Nat /\ DOMAIN all = 1..(n + Len(tasks))
  OBVIOUS
<1>2. all[n + k] = tasks[k] /\ n + k \in DOMAIN all
  OBVIOUS
<1>3. ASSUME NEW i \in DOMAIN all, all[i].op = "SavePairing",
             \A j \in DOMAIN all : all[j].op = "SavePairing" => j <= i
      PROVE  all[i].epoch = e /\ all[i].secret = s
  <2>1. n + k <= i
    BY <1>2, <1>3
  <2>2. CASE i = n + k
    BY <2>2, <1>2
  <2>3. CASE i > n + k
    <3>1. i - n \in k+1..Len(tasks) /\ all[i] = tasks[i - n]
      BY <2>3, <1>1
    <3> QED
      BY <3>1, <1>3
  <2> QED
    BY <2>1, <2>2, <2>3, <1>1
<1> HIDE DEF all
<1> QED
  BY <1>2, <1>3 DEF Leaves, all

(* Tasks without a save change nothing.                                    *)
LEMMA AppendOther ==
  ASSUME NEW q \in Seq(Task), NEW tasks \in Seq(Task), NEW r, NEW e, NEW s,
         \A j \in 1..Len(tasks) : tasks[j].op # "SavePairing",
         Leaves(q, r, e, s)
  PROVE  Leaves(q \o tasks, r, e, s)
<1> DEFINE n == Len(q)
           all == q \o tasks
<1>1. n \in Nat /\ Len(tasks) \in Nat /\ DOMAIN all = 1..(n + Len(tasks)) /\ DOMAIN q = 1..n
  OBVIOUS
<1>2. \A i \in 1..n : all[i] = q[i] /\ i \in DOMAIN all
  OBVIOUS
<1>3. ASSUME NEW i \in DOMAIN all, all[i].op = "SavePairing"
      PROVE  i \in DOMAIN q
  <2>1. CASE i > n
    <3>1. i - n \in 1..Len(tasks) /\ all[i] = tasks[i - n]
      BY <2>1, <1>1
    <3> QED
      BY <3>1, <1>3
  <2> QED
    BY <2>1, <1>1
<1> HIDE DEF all, n
<1> QED
  BY <1>1, <1>2, <1>3 DEF Leaves

(* Writing the oldest task.                                                *)
LEMMA WriteHead ==
  ASSUME NEW e, NEW s, queue \in Seq(Task), row \in Row, queue # <<>>,
         Leaves(queue, row, e, s)
  PROVE  Leaves(Tail(queue), RowAfter(Head(queue)), e, s)
<1> DEFINE rest == Tail(queue)
<1>1. Len(queue) \in Nat \ {0} /\ DOMAIN queue = 1..Len(queue)
  OBVIOUS
<1>2. DOMAIN rest = 1..(Len(queue) - 1) /\ \A i \in DOMAIN rest : rest[i] = queue[i + 1]
  OBVIOUS
<1>3. Head(queue) = queue[1] /\ 1 \in DOMAIN queue /\ queue[1] \in Task
  BY <1>1
<1> HIDE DEF rest
<1>4. ASSUME NEW i \in DOMAIN rest, rest[i].op = "SavePairing",
             \A j \in DOMAIN rest : rest[j].op = "SavePairing" => j <= i
      PROVE  rest[i].epoch = e /\ rest[i].secret = s
  <2>1. i + 1 \in DOMAIN queue
    BY <1>1, <1>2
  <2>2. ASSUME NEW j \in DOMAIN queue, queue[j].op = "SavePairing"
        PROVE  j <= i + 1
    <3>1. CASE j = 1
      BY <3>1, <1>2
    <3>2. CASE j # 1
      <4>1. j - 1 \in DOMAIN rest /\ rest[j - 1] = queue[j]
        BY <3>2, <1>1, <1>2
      <4> QED
        BY <4>1, <2>2, <1>4, <1>1, <1>2
    <3> QED
      BY <3>1, <3>2
  <2> QED
    BY <2>1, <2>2, <1>2, <1>4 DEF Leaves
<1>5. ASSUME \A i \in DOMAIN rest : rest[i].op # "SavePairing", RowAfter(queue[1]).stored
      PROVE  RowAfter(queue[1]).epoch = e /\ RowAfter(queue[1]).secret = s
  <2>1. \A j \in DOMAIN queue : queue[j].op = "SavePairing" => j = 1
    <3> SUFFICES ASSUME NEW j \in DOMAIN queue, j # 1 PROVE queue[j].op # "SavePairing"
      OBVIOUS
    <3>1. j - 1 \in DOMAIN rest /\ rest[j - 1] = queue[j]
      BY <1>1, <1>2
    <3> QED
      BY <3>1, <1>5
  <2>2. CASE queue[1].op = "SavePairing"
    <3>1. queue[1].epoch = e /\ queue[1].secret = s
      BY <2>1, <2>2, <1>1, <1>3 DEF Leaves
    <3> QED
      BY <3>1, <2>2 DEF RowAfter
  <2>3. CASE queue[1].op # "SavePairing"
    <3>1. RowAfter(queue[1]) = row
      BY <2>3, <1>5, <1>3 DEF RowAfter, Deletes, NoRow
    <3>2. row.stored => row.epoch = e /\ row.secret = s
      BY <2>1, <2>3 DEF Leaves
    <3> QED
      BY <3>1, <3>2, <1>5
  <2> QED
    BY <2>2, <2>3
<1> QED
  BY <1>3, <1>4, <1>5 DEF Leaves, rest

(* The secrets of all copies are renamed.                                  *)
LEMMA Renamed ==
  ASSUME NEW q, NEW r, NEW e, NEW s,
         NEW q2, NEW r2, NEW s2,
         DOMAIN q2 = DOMAIN q,
         \A i \in DOMAIN q : /\ q2[i].op = q[i].op
                             /\ q2[i].epoch = q[i].epoch
                             /\ q[i].secret = s => q2[i].secret = s2,
         r2.stored = r.stored, r2.epoch = r.epoch, r.secret = s => r2.secret = s2,
         Leaves(q, r, e, s)
  PROVE  Leaves(q2, r2, e, s2)
BY DEF Leaves

LEMMA TaskTypes ==
  /\ \A e \in Nat, s \in Secret : SavePairing(e, s) \in Task
  /\ \A b \in Browsers : SaveBrowserSession(b) \in Task
  /\ \A op \in Op : Plain(op) \in Task
BY DEF SavePairing, SaveBrowserSession, Plain, Task, Op, Secret

LEMMA TaskOps ==
  /\ \A e, s : /\ SavePairing(e, s).op = "SavePairing"
               /\ SavePairing(e, s).epoch = e
               /\ SavePairing(e, s).secret = s
  /\ \A b : SaveBrowserSession(b).op = "SaveBrowserSession"
  /\ \A op : Plain(op).op = op
BY DEF SavePairing, SaveBrowserSession, Plain

LEMMA AgedTypes ==
  ASSUME queue \in Seq(Task), row \in Row
  PROVE  AgedQueue \in Seq(Task) /\ AgedRow \in Row
<1>1. \A s \in Secret : Aged(s) \in Secret
  BY DEF Aged, Secret
<1>2. \A i \in DOMAIN queue : [queue[i] EXCEPT !.secret = Aged(@)] \in Task
  <2>1. ASSUME NEW k \in Task PROVE [k EXCEPT !.secret = Aged(@)] \in Task
    <3>1. Aged(k.secret) \in Secret
      BY <1>1 DEF Task
    <3> QED
      BY <3>1 DEF Task
  <2> QED
    BY <2>1
<1>3. AgedQueue \in Seq(Task)
  BY <1>2 DEF AgedQueue
<1>4. AgedRow \in Row
  BY <1>1 DEF AgedRow, Row
<1> QED
  BY <1>3, <1>4

LEMMA AdoptedTypes ==
  ASSUME queue \in Seq(Task), row \in Row, NEW t \in Tokens
  PROVE  /\ [i \in DOMAIN queue |-> [queue[i] EXCEPT !.secret = Adopted(@, t)]] \in Seq(Task)
         /\ [row EXCEPT !.secret = Adopted(@, t)] \in Row
<1>1. \A s \in Secret : Adopted(s, t) \in Secret
  BY DEF Adopted, Aged, Secret
<1>2. \A i \in DOMAIN queue : [queue[i] EXCEPT !.secret = Adopted(@, t)] \in Task
  <2>1. ASSUME NEW k \in Task PROVE [k EXCEPT !.secret = Adopted(@, t)] \in Task
    <3>1. Adopted(k.secret, t) \in Secret
      BY <1>1 DEF Task
    <3> QED
      BY <3>1 DEF Task
  <2> QED
    BY <2>1
<1>3. [i \in DOMAIN queue |-> [queue[i] EXCEPT !.secret = Adopted(@, t)]] \in Seq(Task)
  BY <1>2
<1>4. [row EXCEPT !.secret = Adopted(@, t)] \in Row
  BY <1>1 DEF Row
<1> QED
  BY <1>3, <1>4

LEMMA WrittenType ==
  ASSUME queue \in Seq(Task), row \in Row, queue # <<>>
  PROVE  Tail(queue) \in Seq(Task) /\ RowAfter(Head(queue)) \in Row
<1>1. Head(queue) \in Task /\ Tail(queue) \in Seq(Task)
  OBVIOUS
<1>2. Head(queue).epoch \in Nat /\ Head(queue).secret \in Secret
  BY <1>1 DEF Task
<1>3. NoRow \in Row
  BY DEF NoRow, Row, Secret
<1> QED
  BY <1>1, <1>2, <1>3 DEF RowAfter, Row

(* With nothing dropped, all tasks of a handler are in the channel.        *)
LEMMA Sent ==
  ASSUME NEW waiting, NEW tasks, Enqueue(waiting, tasks), ~lost'
  PROVE  queue' = waiting \o tasks /\ ~lost
<1>1. CASE EnqueueAll(waiting, tasks)
  BY <1>1 DEF EnqueueAll
<1>2. CASE EnqueueSome(waiting, tasks)
  <2>1. lost' = TRUE
    BY <1>2 DEF EnqueueSome
  <2> QED
    BY <2>1
<1> QED
  BY <1>1, <1>2 DEF Enqueue

(* One saved copy, alone.                                                  *)
LEMMA SentSave ==
  ASSUME NEW waiting \in Seq(Task), NEW r \in Row, NEW e \in Nat, NEW s \in Secret,
         Enqueue(waiting, <<SavePairing(e, s)>>), ~lost'
  PROVE  queue' \in Seq(Task) /\ Leaves(queue', r, e, s)
<1> DEFINE tasks == <<SavePairing(e, s)>>
<1>1. tasks \in Seq(Task) /\ Len(tasks) = 1 /\ tasks[1] = SavePairing(e, s)
  BY TaskTypes
<1>2. queue' = waiting \o tasks
  BY Sent
<1>3. /\ 1 \in 1..Len(tasks)
      /\ tasks[1].op = "SavePairing" /\ tasks[1].epoch = e /\ tasks[1].secret = s
      /\ \A j \in 1+1..Len(tasks) : tasks[j].op # "SavePairing"
  BY <1>1, TaskOps
<1> HIDE DEF tasks
<1>4. Leaves(waiting \o tasks, r, e, s)
  BY <1>1, <1>3, AppendSave
<1> QED
  BY <1>1, <1>2, <1>4

(* One task that is not a save.                                            *)
LEMMA SentOther ==
  ASSUME NEW op \in Op, op # "SavePairing", queue \in Seq(Task),
         Enqueue(queue, <<Plain(op)>>), ~lost'
  PROVE  /\ queue' \in Seq(Task)
         /\ \A r, e, s : Leaves(queue, r, e, s) => Leaves(queue', r, e, s)
<1> DEFINE tasks == <<Plain(op)>>
<1>1. tasks \in Seq(Task) /\ Len(tasks) = 1 /\ tasks[1] = Plain(op)
  BY TaskTypes
<1>2. queue' = queue \o tasks
  BY Sent
<1>3. \A j \in 1..Len(tasks) : tasks[j].op # "SavePairing"
  BY <1>1, TaskOps
<1>4. ASSUME NEW r, NEW e, NEW s, Leaves(queue, r, e, s)
      PROVE  Leaves(queue \o tasks, r, e, s)
  BY <1>1, <1>3, <1>4, AppendOther
<1> QED
  BY <1>1, <1>2, <1>4

-----------------------------------------------------------------------------
LEMMA RowInit == PersistInit => RowInv
<1> SUFFICES ASSUME PersistInit PROVE RowInv
  OBVIOUS
<1>1. DiskTypes
  BY DEF PersistInit, Init, StoreInit, StreamInit, NoEntry, DiskTypes, NoRow, Row, Secret,
         StreamPhase
<1> QED
  BY <1>1 DEF PersistInit, Init, StoreInit, NoEntry, RowInv

(* The channel and the database are left alone.                            *)
LEMMA RowKept ==
  ASSUME RowInv, UNCHANGED <<persistVars, exists, epoch, overwritten>>,
         lapsed' => lapsed, stream' \in [Tokens -> StreamPhase], Missing' = Missing
  PROVE  RowInv'
BY DEF RowInv, DiskTypes, Leaves, persistVars, diskVars

LEMMA RowRefreshed ==
  ASSUME RowInv, NEW t \in Tokens, SaveRefreshed(t)
  PROVE  RowInv'
<1> SUFFICES ASSUME ~lost', ~overwritten' PROVE RowInv'
  BY DEF RowInv
<1> USE DEF SaveRefreshed, RefreshPairing, StreamStep
<1>1. ~lost /\ ~overwritten
  BY Sent
<1>2. DiskTypes
  BY <1>1 DEF RowInv
<1>3. queue' \in Seq(Task) /\ Leaves(queue', row, epoch, "current")
  BY <1>2, SentSave DEF DiskTypes, Secret
<1>4. Missing' = Missing /\ stream' \in [Tokens -> StreamPhase]
  BY <1>2 DEF Missing, DiskTypes, StreamPhase
<1>5. row' = row
  BY DEF diskVars
<1>6. DiskTypes'
  BY <1>2, <1>3, <1>4, <1>5 DEF DiskTypes
<1> QED
  BY <1>3, <1>5, <1>6 DEF RowInv

LEMMA RowDrawn ==
  ASSUME RowInv, NEW t \in Tokens, SaveDrawn(t)
  PROVE  RowInv'
<1> SUFFICES ASSUME ~lost', ~overwritten' PROVE RowInv'
  BY DEF RowInv
<1> USE DEF SaveDrawn, vars, storeVars, entryVars, streamVars, diskVars
<1>1. ~lost /\ ~overwritten
  BY Sent
<1>2. DiskTypes
  BY <1>1 DEF RowInv
<1>3. queue' \in Seq(Task) /\ Leaves(queue', row, 0, t)
  BY <1>2, SentSave DEF DiskTypes, Secret
<1>4. DiskTypes' /\ Missing' = Missing
  BY <1>2, <1>3 DEF DiskTypes, Missing
<1>5. \A u \in Tokens : drawn' = {u} => u = t
  OBVIOUS
<1>6. drawn' # {} /\ row' = row /\ UNCHANGED <<exists, lapsed>>
  OBVIOUS
<1> QED
  BY <1>1, <1>3, <1>4, <1>5, <1>6 DEF RowInv

LEMMA RowInserted ==
  ASSUME RowInv, NEW t \in Tokens, InsertDrawn(t)
  PROVE  RowInv'
<1> SUFFICES ASSUME ~lost', ~overwritten' PROVE RowInv'
  BY DEF RowInv
<1> USE DEF InsertDrawn, InsertPairing, StreamStep
<1>1. ~lost /\ ~overwritten /\ ~exists
  OBVIOUS
<1>2. DiskTypes
  BY <1>1 DEF RowInv
<1>3. queue' \in Seq(Task) /\ row' \in Row
  BY <1>2, AdoptedTypes DEF DiskTypes
<1>4. Missing' = Missing \ {t} /\ stream' \in [Tokens -> StreamPhase]
  BY <1>2 DEF Missing, DiskTypes, StreamPhase
<1>5. DiskTypes'
  BY <1>2, <1>3, <1>4 DEF DiskTypes
<1>6. ASSUME drawn' = {} PROVE Leaves(queue', row', 0, "current")
  <2>1. drawn = {t}
    BY <1>6
  <2>2. Leaves(queue, row, 0, t)
    BY <1>1, <2>1 DEF RowInv
  <2>3. Adopted(t, t) = "current"
    BY DEF Adopted
  <2>4. \A i \in DOMAIN queue : queue[i] \in Task
    BY <1>2 DEF DiskTypes
  <2>5. /\ DOMAIN queue' = DOMAIN queue
        /\ \A i \in DOMAIN queue : /\ queue'[i].op = queue[i].op
                                   /\ queue'[i].epoch = queue[i].epoch
                                   /\ queue[i].secret = t => queue'[i].secret = "current"
    BY <2>3, <2>4 DEF Task
  <2>6. /\ row'.stored = row.stored /\ row'.epoch = row.epoch
        /\ row.secret = t => row'.secret = "current"
    BY <1>2, <2>3 DEF DiskTypes, Row
  <2> HIDE DEF InsertDrawn, InsertPairing, StreamStep
  <2>7. ASSUME NEW q2, NEW r2, q2 = queue', r2 = row'
        PROVE  Leaves(q2, r2, 0, "current")
    BY <2>2, <2>5, <2>6, <2>7, Renamed
  <2> QED
    BY <2>7
<1> QED
  BY <1>1, <1>5, <1>6 DEF RowInv

LEMMA RowOffline ==
  ASSUME RowInv, NEW t \in Tokens, SaveOffline(t)
  PROVE  RowInv'
<1> SUFFICES ASSUME ~lost', ~overwritten' PROVE RowInv'
  BY DEF RowInv
<1> USE DEF SaveOffline, GoOffline, StreamStep
<1>1. ~lost /\ ~overwritten
  BY Sent
<1>2. DiskTypes
  BY <1>1 DEF RowInv
<1>3. Missing' = Missing /\ stream' \in [Tokens -> StreamPhase] /\ row' = row
  BY <1>2 DEF Missing, DiskTypes, StreamPhase, diskVars
<1>4. CASE exists
  <2>1. queue' \in Seq(Task) /\ Leaves(queue', row, epoch, "current")
    BY <1>2, <1>4, SentSave DEF DiskTypes, Secret
  <2>2. DiskTypes'
    BY <1>2, <1>3, <2>1 DEF DiskTypes
  <2> QED
    BY <1>3, <1>4, <2>1, <2>2 DEF RowInv
<1>5. CASE ~exists
  <2>1. queue' = queue /\ UNCHANGED <<exists, epoch, drawn, overwritten>>
    BY <1>5
  <2>2. DiskTypes'
    BY <1>2, <1>3, <2>1 DEF DiskTypes
  <2> QED
    BY <1>1, <1>3, <1>5, <2>1, <2>2 DEF RowInv
<1> QED
  BY <1>4, <1>5

(* A handler that rotates the secret and saves it: task k is its one save. *)
LEMMA RowRotated ==
  ASSUME RowInv, exists, exists', lapsed' = FALSE, row' = AgedRow,
         NEW tasks \in Seq(Task), NEW k \in 1..Len(tasks),
         Enqueue(AgedQueue, tasks),
         tasks[k].op = "SavePairing", tasks[k].epoch = epoch', tasks[k].secret = "current",
         \A j \in k+1..Len(tasks) : tasks[j].op # "SavePairing",
         epoch' \in Nat, UNCHANGED <<stream, drawn, overwritten>>
  PROVE  RowInv'
<1> SUFFICES ASSUME ~lost', ~overwritten' PROVE RowInv'
  BY DEF RowInv
<1>1. ~lost /\ queue' = AgedQueue \o tasks
  BY Sent
<1>2. DiskTypes
  BY <1>1 DEF RowInv
<1>3. AgedQueue \in Seq(Task) /\ AgedRow \in Row
  BY <1>2, AgedTypes DEF DiskTypes
<1>4. Leaves(queue', row', epoch', "current")
  BY <1>1, <1>3, AppendSave
<1>5. DiskTypes'
  BY <1>1, <1>2, <1>3 DEF DiskTypes, Missing
<1> QED
  BY <1>4, <1>5 DEF RowInv

LEMMA RowBootstrap ==
  ASSUME RowInv, NEW b \in Browsers, SaveBootstrap(b), epoch \in Nat
  PROVE  RowInv'
<1> DEFINE tasks == BootstrapTasks(b)
<1>1. /\ tasks \in Seq(Task) /\ 3 \in 1..Len(tasks)
      /\ tasks[3] = SavePairing(epoch, "current")
      /\ \A j \in 3+1..Len(tasks) : tasks[j].op # "SavePairing"
  BY TaskTypes DEF BootstrapTasks, Op, Secret
<1>2. /\ exists /\ exists' /\ lapsed' = FALSE /\ row' = AgedRow /\ epoch' = epoch
      /\ UNCHANGED <<stream, drawn, overwritten>> /\ Enqueue(AgedQueue, tasks)
  BY DEF SaveBootstrap, Bootstrap, streamVars
<1> HIDE DEF tasks
<1>3. tasks[3].op = "SavePairing" /\ tasks[3].epoch = epoch' /\ tasks[3].secret = "current"
  BY <1>1, <1>2, TaskOps
<1> QED
  BY <1>1, <1>2, <1>3, RowRotated

LEMMA RowRevoke ==
  ASSUME RowInv, NEW t \in Tokens, SaveRevoke(t), epoch \in Nat
  PROVE  RowInv'
<1> DEFINE tasks == <<SavePairing(epoch + 1, "current"), Plain("DeleteBrowserSessionsForPairing")>>
<1>1. /\ tasks \in Seq(Task) /\ 1 \in 1..Len(tasks)
      /\ tasks[1] = SavePairing(epoch + 1, "current")
      /\ \A j \in 1+1..Len(tasks) : tasks[j].op # "SavePairing"
  BY TaskTypes, TaskOps DEF Op, Secret
<1>2. /\ exists /\ exists' /\ lapsed' = FALSE /\ row' = AgedRow /\ epoch' = epoch + 1
      /\ UNCHANGED <<stream, drawn, overwritten>> /\ Enqueue(AgedQueue, tasks)
  BY DEF SaveRevoke, Revoke, streamVars
<1> HIDE DEF tasks
<1>3. tasks[1].op = "SavePairing" /\ tasks[1].epoch = epoch' /\ tasks[1].secret = "current"
  BY <1>1, <1>2, TaskOps
<1>4. epoch' \in Nat
  BY <1>2
<1>5. ASSUME NEW k \in 1..Len(tasks), k = 1 PROVE RowInv'
  <2>1. \A j \in k+1..Len(tasks) : tasks[j].op # "SavePairing"
    BY <1>1, <1>5
  <2> QED
    BY <1>1, <1>2, <1>3, <1>4, <1>5, <2>1, RowRotated
<1> QED
  BY <1>1, <1>5

(* While a Subscribe call is between its look-up and its insert, the entry *)
(* another one has inserted cannot go.                                     *)
LEMMA RowDropped ==
  ASSUME RowInv, DropEntry
  PROVE  RowInv'
<1> SUFFICES ASSUME ~lost', ~overwritten' PROVE RowInv'
  BY DEF RowInv
<1> USE DEF DropEntry, RemovePairing, RemoveEntry, streamVars
<1>1. ~lost /\ ~overwritten /\ exists /\ lapsed /\ ~exists' /\ epoch' = 0
  BY DEF Removable
<1>2. DiskTypes /\ Missing = {}
  BY <1>1 DEF RowInv
<1>3. AgedQueue \in Seq(Task) /\ AgedRow \in Row
  BY <1>2, AgedTypes DEF DiskTypes
<1>4. DiskTypes' /\ drawn' = {}
  BY <1>1, <1>2, <1>3 DEF DiskTypes, Missing
<1> QED
  BY <1>1, <1>4 DEF RowInv

LEMMA RowSent ==
  ASSUME RowInv, NEW op \in Op, op # "SavePairing", Enqueue(queue, <<Plain(op)>>),
         UNCHANGED <<exists, epoch, lapsed, overwritten, stream, drawn, row>>
  PROVE  RowInv'
<1> SUFFICES ASSUME ~lost', ~overwritten' PROVE RowInv'
  BY DEF RowInv
<1>1. ~lost /\ ~overwritten
  BY Sent
<1>2. DiskTypes
  BY <1>1 DEF RowInv
<1>3. /\ queue' \in Seq(Task)
      /\ \A e, s : Leaves(queue, row, e, s) => Leaves(queue', row, e, s)
  BY <1>2, SentOther DEF DiskTypes
<1>4. DiskTypes' /\ Missing' = Missing
  BY <1>2, <1>3 DEF DiskTypes, Missing
<1> QED
  BY <1>1, <1>3, <1>4 DEF RowInv

LEMMA RowWritten ==
  ASSUME RowInv, WriteTask
  PROVE  RowInv'
<1> SUFFICES ASSUME ~lost', ~overwritten' PROVE RowInv'
  BY DEF RowInv
<1>1. /\ queue # <<>> /\ queue' = Tail(queue) /\ row' = RowAfter(Head(queue))
      /\ UNCHANGED <<exists, epoch, lapsed, overwritten, stream, drawn, lost>>
  BY DEF WriteTask, vars, storeVars, entryVars, streamVars
<1>2. ~lost /\ ~overwritten
  BY <1>1
<1>3. DiskTypes
  BY <1>2 DEF RowInv
<1>4. DiskTypes' /\ Missing' = Missing
  BY <1>1, <1>3, WrittenType DEF DiskTypes, Missing
<1>5. \A e, s : Leaves(queue, row, e, s) => Leaves(queue', row', e, s)
  BY <1>1, <1>3, WriteHead DEF DiskTypes
<1> QED
  BY <1>1, <1>2, <1>4, <1>5 DEF RowInv

LEMMA RowLapsed ==
  ASSUME RowInv, LapseRow
  PROVE  RowInv'
<1> SUFFICES ASSUME ~lost', ~overwritten' PROVE RowInv'
  BY DEF RowInv
<1>1. /\ UNCHANGED <<exists, epoch, lapsed, overwritten, stream, drawn, lost, queue>>
      /\ row' = [row EXCEPT !.lapsed = TRUE]
  BY DEF LapseRow, vars, storeVars, entryVars, streamVars
<1>2. ~lost /\ ~overwritten
  BY <1>1
<1>3. DiskTypes
  BY <1>2 DEF RowInv
<1>4. row' \in Row /\ row'.stored = row.stored /\ row'.epoch = row.epoch
      /\ row'.secret = row.secret
  BY <1>1, <1>3 DEF DiskTypes, Row
<1>5. DiskTypes' /\ Missing' = Missing
  BY <1>1, <1>3, <1>4 DEF DiskTypes, Missing
<1>6. \A e, s : Leaves(queue, row, e, s) => Leaves(queue', row', e, s)
  BY <1>1, <1>4 DEF Leaves
<1> QED
  BY <1>1, <1>2, <1>5, <1>6 DEF RowInv

LEMMA RowEntryLapsed ==
  ASSUME RowInv, LapseEntry
  PROVE  RowInv'
<1> USE DEF LapseEntry, Lapse, NothingInFlight
<1>1. UNCHANGED <<exists, epoch, overwritten, stream, drawn, lost, queue, row>>
  BY DEF persistVars, diskVars, streamVars
<1>2. Missing' = {}
  BY <1>1 DEF Missing
<1>3. DiskTypes => DiskTypes'
  BY <1>1 DEF DiskTypes, Missing
<1> QED
  BY <1>1, <1>2, <1>3 DEF RowInv, Leaves

LEMMA RowOther ==
  ASSUME RowInv, NEW t \in Tokens, OtherStreamStep(t), UNCHANGED persistVars
  PROVE  RowInv'
<1> SUFFICES ASSUME ~lost', ~overwritten' PROVE RowInv'
  BY DEF RowInv
<1> USE DEF OtherStreamStep, MissPairing, InsertSession, SendSessionToken, StallStream,
            DropStream, LocateSuccessor, IndexSuccessor, HandOver, StreamStep, streamVars
<1>1. UNCHANGED <<persistVars, exists, lapsed, epoch, overwritten>>
  BY DEF storeVars, entryVars
<1>2. ~lost /\ ~overwritten
  BY <1>1 DEF persistVars
<1>3. DiskTypes
  BY <1>2 DEF RowInv
<1>4. stream' \in [Tokens -> StreamPhase]
  BY <1>3 DEF DiskTypes, StreamPhase
<1>5. Missing \subseteq Missing'
  BY <1>3 DEF DiskTypes, Missing
<1>6. exists => Missing' = Missing
  BY <1>3 DEF DiskTypes, Missing
<1>7. DiskTypes'
  BY <1>1, <1>3, <1>4, <1>5 DEF DiskTypes, persistVars, diskVars
<1>8. \A e, s : Leaves(queue, row, e, s)' <=> Leaves(queue, row, e, s)
  BY <1>1 DEF Leaves, persistVars, diskVars
<1> HIDE DEF OtherStreamStep
<1> QED
  BY <1>1, <1>2, <1>6, <1>7, <1>8 DEF RowInv, persistVars

LEMMA RowRestart ==
  ASSUME RowInv, NEW late \in BOOLEAN, Restart(late)
  PROVE  RowInv'
<1> SUFFICES ASSUME ~lost', ~overwritten' PROVE RowInv'
  BY DEF RowInv
<1> USE DEF Restart
<1>1. ~lost /\ ~overwritten
  OBVIOUS
<1>2. DiskTypes
  BY <1>1 DEF RowInv
<1>3. Missing' = {} /\ stream' \in [Tokens -> StreamPhase]
  BY DEF Missing, StreamPhase
<1>4. row' \in Row /\ row'.epoch = row.epoch /\ (exists' => row'.secret = "current")
  BY <1>2 DEF DiskTypes, Row, Secret
<1>5. epoch' \in Nat /\ (exists' => epoch' = row.epoch)
  BY <1>2 DEF DiskTypes, Row, RestoredEpoch
<1>6. DiskTypes'
  BY <1>3, <1>4, <1>5 DEF DiskTypes
<1>7. exists' => Leaves(queue', row', epoch', "current")
  BY <1>4, <1>5 DEF Leaves
<1> QED
  BY <1>3, <1>6, <1>7 DEF RowInv

LEMMA RowStep ==
  ASSUME RowInv, [PersistNext]_allVars
  PROVE  RowInv'
<1>1. ASSUME NEW t \in Tokens, StreamStepWithDisk(t) PROVE RowInv'
  <2>1. CASE SaveRevoke(t)
    <3> SUFFICES ASSUME ~lost', ~overwritten' PROVE RowInv'
      BY DEF RowInv
    <3>1. ~lost /\ ~overwritten
      BY <2>1, Sent DEF SaveRevoke, Revoke
    <3> QED
      BY <2>1, <3>1, RowRevoke DEF RowInv, DiskTypes
  <2> QED
    BY <1>1, <2>1, RowRefreshed, RowDrawn, RowInserted, RowOffline, RowOther
    DEF StreamStepWithDisk
<1>2. ASSUME NEW b \in Browsers, SaveBootstrap(b) PROVE RowInv'
  <2> SUFFICES ASSUME ~lost', ~overwritten' PROVE RowInv'
    BY DEF RowInv
  <2>1. ~lost /\ ~overwritten
    BY <1>2, Sent DEF SaveBootstrap, Bootstrap
  <2> QED
    BY <1>2, <2>1, RowBootstrap DEF RowInv, DiskTypes
<1>3. ASSUME UNCHANGED <<entryVars, streamVars, persistVars>> PROVE RowInv'
  BY <1>3 DEF RowInv, DiskTypes, Leaves, Missing, entryVars, streamVars, persistVars, diskVars
<1>4. ASSUME NEW b \in Browsers, ExpireSession(b) PROVE RowInv'
  <2>1. UNCHANGED <<entryVars, streamVars, queue, row, drawn, lost>>
    BY <1>4 DEF ExpireSession, ExpireCookie, storeVars
  <2> QED
    BY <2>1 DEF RowInv, DiskTypes, Leaves, Missing, entryVars, streamVars
<1>5. ASSUME OtherSocketStep, UNCHANGED <<streamVars, persistVars>> PROVE RowInv'
  <2>1. UNCHANGED <<exists, lapsed, epoch, overwritten>>
    BY <1>5 DEF OtherSocketStep, SocketHandler, SocketEnvironment, NoticeHandler,
       IssueTicket, AcceptUpgrade, TakeSlot, MarkConnected, ObeyClose, RefuseMessage,
       ForwardText, ClearSession, ReturnSlot, AuthenticateTicket, ExpireTicket, UseTicket,
       AbandonUpgrade, LeaveSocket, StallPhone, WriteFrame, AcceptText, SendOver, Greet,
       FinishSend, GiveUpText, SayFarewell, Part, FindStream, NotifyBootstrap, NotifyRevoke,
       storeVars, entryVars
  <2> QED
    BY <1>5, <2>1 DEF RowInv, DiskTypes, Leaves, Missing, streamVars, persistVars, diskVars
<1>6. ASSUME DeleteRow PROVE RowInv'
  BY <1>6, RowSent DEF DeleteRow, Op, vars, storeVars, entryVars, streamVars, diskVars
<1>7. ASSUME Purge PROVE RowInv'
  BY <1>3, <1>7 DEF Purge, PurgePairing, storeVars
<1>8. ASSUME Sweep PROVE RowInv'
  <2>1. UNCHANGED <<exists, epoch, lapsed, overwritten, stream, drawn, row>>
    BY <1>8 DEF Sweep, SweepStores, storeVars, entryVars, streamVars, diskVars
  <2> QED
    BY <1>8, <2>1, RowSent DEF Sweep, SweepTasks, Op
<1>9. ASSUME UNCHANGED allVars PROVE RowInv'
  BY <1>3, <1>9 DEF allVars, vars, storeVars
<1> QED
  BY <1>1, <1>2, <1>4, <1>5, <1>6, <1>7, <1>8, <1>9, RowDropped, RowWritten, RowLapsed,
     RowEntryLapsed, RowRestart
  DEF PersistNext

LEMMA RowInvariant == PersistSpec => []RowInv
<1>1. RowInv /\ [PersistNext]_allVars => RowInv'
  BY RowStep
<1> QED
  BY <1>1, RowInit, PTL DEF PersistSpec

(* The database follows the entry, whatever the PC, the phones, the        *)
(* cleanup and the writer do and however often the server dies.            *)
THEOREM DatabaseFollows == PersistSpec => []RowFollowsEntry
<1>1. RowInv => RowFollowsEntry
  BY DEF RowInv, DiskTypes, Leaves, RowFollowsEntry, IsLastSave, IsSave, IsCurrent
<1> QED
  BY <1>1, RowInvariant, PTL

(* A restart that finds the writer at rest changes no epoch.               *)
THEOREM RestartChangesNoEpoch == PersistSpec => RestartKeepsEpoch
<1> DEFINE Kept ==
      restarts' # restarts /\ Settled /\ ~lost /\ ~overwritten /\ exists /\ exists' =>
        /\ epoch' = epoch
        /\ \A b \in Browsers :
             Authenticates(b) /\ table[b] = "fresh" => Authenticates(b)'
<1>1. ASSUME RowInv, NEW late \in BOOLEAN, Restart(late) PROVE Kept
  <2> SUFFICES ASSUME Settled, ~lost, ~overwritten, exists, exists'
               PROVE  /\ epoch' = epoch
                      /\ \A b \in Browsers :
                           Authenticates(b) /\ table[b] = "fresh" => Authenticates(b)'
    OBVIOUS
  <2>1. DiskTypes
    BY <1>1 DEF RowInv
  <2>2. drawn = {} /\ queue = <<>>
    BY <2>1 DEF Settled, NothingInFlight, DiskTypes, Missing
  <2>3. row.stored /\ epoch' = row.epoch /\ UNCHANGED cookieEpoch
    BY <1>1 DEF Restart, RestoredEpoch
  <2>6. Leaves(<<>>, row, epoch, "current")
    BY <1>1, <2>2 DEF RowInv, Missing
  <2>4. row.epoch = epoch
    BY <2>3, <2>6 DEF Leaves
  <2>5. \A b \in Browsers : table[b] = "fresh" => cookie'[b] = "stored"
    BY <1>1 DEF Restart
  <2> QED
    BY <2>3, <2>4, <2>5 DEF Authenticates
<1>2. ASSUME PersistNext, \A late \in BOOLEAN : ~Restart(late) PROVE UNCHANGED restarts
  BY <1>2 DEF PersistNext, StreamStepWithDisk, SaveRefreshed, SaveDrawn, InsertDrawn, SaveOffline,
     SaveRevoke, SaveBootstrap, ExpireSession, DropEntry, DeleteRow, Purge, Sweep, WriteTask,
     LapseRow, LapseEntry
<1>3. RowInv /\ [PersistNext]_allVars => [Kept]_allVars
  BY <1>1, <1>2 DEF PersistNext, allVars
<1> QED
  BY <1>3, RowInvariant, PTL DEF PersistSpec, RestartKeepsEpoch

-----------------------------------------------------------------------------
(* At most one browser session is stored: every save of a session comes    *)
(* right behind a deletion of all of them, or the table is empty.          *)
AloneIn(tb) == \A b, d \in Browsers : tb[b] # "absent" /\ tb[d] # "absent" => b = d
EmptyIn(tb) == \A b \in Browsers : tb[b] = "absent"

IsSession(task) == task.op = "SaveBrowserSession"
ClearsSessions(task) == task.op = "DeleteBrowserSessionsForPairing"

Prepared(q, tb) ==
  \A i \in DOMAIN q :
    IsSession(q[i]) => IF i = 1 THEN EmptyIn(tb) ELSE ClearsSessions(q[i - 1])

SessionTypes ==
  /\ queue \in Seq(Task)
  /\ row \in Row
  /\ epoch \in Nat
  /\ table \in [Browsers -> {"absent", "fresh", "expired"}]

SessionInv ==
  ~lost => SessionTypes /\ AloneIn(table) /\ Prepared(queue, table)

LEMMA AppendPrepared ==
  ASSUME NEW q \in Seq(Task), NEW tb, Prepared(q, tb), NEW tasks \in Seq(Task),
         \A i \in DOMAIN tasks :
           IsSession(tasks[i]) => i # 1 /\ ClearsSessions(tasks[i - 1])
  PROVE  Prepared(q \o tasks, tb)
<1> DEFINE n == Len(q)
           all == q \o tasks
<1>1. n \in Nat /\ Len(tasks) \in Nat /\ all \in Seq(Task)
      /\ DOMAIN all = 1..(n + Len(tasks))
  OBVIOUS
<1>2. ASSUME NEW i \in DOMAIN all, IsSession(all[i])
      PROVE  IF i = 1 THEN EmptyIn(tb) ELSE ClearsSessions(all[i - 1])
  <2>1. CASE i <= n
    <3>1. i \in DOMAIN q /\ all[i] = q[i] /\ (i # 1 => all[i - 1] = q[i - 1])
      BY <1>1, <2>1
    <3> QED
      BY <1>2, <3>1 DEF Prepared
  <2>2. CASE i > n
    <3>1. i - n \in DOMAIN tasks /\ all[i] = tasks[i - n]
      BY <1>1, <2>2
    <3>2. i - n # 1 /\ ClearsSessions(tasks[i - n - 1])
      BY <1>2, <3>1
    <3>3. i # 1 /\ all[i - 1] = tasks[i - n - 1]
      BY <1>1, <2>2, <3>1, <3>2
    <3> QED
      BY <3>2, <3>3
  <2> QED
    BY <1>1, <2>1, <2>2
<1> QED
  BY <1>1, <1>2 DEF Prepared

(* What the handlers send is prepared, and another secret changes no       *)
(* task's kind.                                                            *)
LEMMA PreparedSent ==
  ASSUME NEW q \in Seq(Task), NEW tb, Prepared(q, tb), NEW tasks \in Seq(Task),
         Enqueue(q, tasks), ~lost',
         \A i \in DOMAIN tasks :
           IsSession(tasks[i]) => i # 1 /\ ClearsSessions(tasks[i - 1])
  PROVE  queue' \in Seq(Task) /\ Prepared(queue', tb) /\ ~lost
<1>1. queue' = q \o tasks /\ ~lost
  BY Sent
<1>2. Prepared(q \o tasks, tb) /\ q \o tasks \in Seq(Task)
  BY AppendPrepared
<1> QED
  BY <1>1, <1>2

LEMMA PreparedOne ==
  ASSUME NEW q \in Seq(Task), NEW tb, Prepared(q, tb),
         NEW task \in Task, task.op # "SaveBrowserSession", Enqueue(q, <<task>>), ~lost'
  PROVE  queue' \in Seq(Task) /\ Prepared(queue', tb) /\ ~lost
<1> DEFINE tasks == <<task>>
<1>1. tasks \in Seq(Task) /\ DOMAIN tasks = {1} /\ tasks[1] = task
  OBVIOUS
<1>2. \A i \in DOMAIN tasks : ~IsSession(tasks[i])
  BY <1>1 DEF IsSession
<1>3. Enqueue(q, tasks)
  OBVIOUS
<1> HIDE DEF tasks
<1> QED
  BY <1>1, <1>2, <1>3, PreparedSent

LEMMA PreparedRenamed ==
  ASSUME NEW q \in Seq(Task), NEW tb, Prepared(q, tb), NEW q2 \in Seq(Task),
         DOMAIN q2 = DOMAIN q, \A i \in DOMAIN q : q2[i].op = q[i].op
  PROVE  Prepared(q2, tb)
<1>1. \A i \in DOMAIN q : i # 1 => i - 1 \in DOMAIN q
  OBVIOUS
<1> QED
  BY <1>1 DEF Prepared, IsSession, ClearsSessions

LEMMA AgedPrepared ==
  ASSUME NEW tb, SessionTypes, Prepared(queue, tb)
  PROVE  AgedQueue \in Seq(Task) /\ Prepared(AgedQueue, tb) /\ AgedRow \in Row
<1>1. AgedQueue \in Seq(Task) /\ AgedRow \in Row
  BY AgedTypes DEF SessionTypes
<1>2. DOMAIN AgedQueue = DOMAIN queue /\ \A i \in DOMAIN queue : AgedQueue[i].op = queue[i].op
  <2>1. \A i \in DOMAIN queue : queue[i] \in Task
    BY DEF SessionTypes
  <2> QED
    BY <2>1 DEF AgedQueue, Task
<1> QED
  BY <1>1, <1>2, PreparedRenamed DEF SessionTypes

(* The rows of the sessions after the head of the channel was written.     *)
LEMMA PreparedWritten ==
  ASSUME SessionTypes, AloneIn(table), Prepared(queue, table), WriteTask
  PROVE  /\ queue' \in Seq(Task)
         /\ row' \in Row
         /\ table' \in [Browsers -> {"absent", "fresh", "expired"}]
         /\ AloneIn(table')
         /\ Prepared(queue', table')
<1> DEFINE task == Head(queue)
<1>1. /\ queue \in Seq(Task) /\ queue # <<>> /\ queue' = Tail(queue)
      /\ row' = RowAfter(task) /\ table' = SessionsAfter(task)
  BY DEF WriteTask, SessionTypes
<1>2. /\ task = queue[1] /\ 1 \in DOMAIN queue /\ queue' \in Seq(Task)
      /\ DOMAIN queue' = 1..(Len(queue) - 1) /\ Len(queue) \in Nat
      /\ \A i \in DOMAIN queue' : i + 1 \in DOMAIN queue /\ queue'[i] = queue[i + 1]
  BY <1>1
<1>3. row' \in Row
  BY <1>1, WrittenType DEF SessionTypes
<1>4. table' \in [Browsers -> {"absent", "fresh", "expired"}]
  BY <1>1 DEF SessionsAfter, SessionTypes
<1> HIDE DEF task
<1>5. ~IsSession(task) => \A b \in Browsers : table'[b] # "absent" => table[b] # "absent"
  BY <1>1 DEF SessionsAfter, IsSession
<1>6. IsSession(task) => \A b \in Browsers : table'[b] # "absent" => task.browser = b
  <2>1. IsSession(task) => EmptyIn(table)
    BY <1>2 DEF Prepared
  <2> QED
    BY <1>1, <2>1 DEF SessionsAfter, IsSession, EmptyIn
<1>7. AloneIn(table')
  BY <1>5, <1>6 DEF AloneIn
<1>8. ClearsSessions(task) => EmptyIn(table')
  BY <1>1 DEF SessionsAfter, EmptyIn, ClearsSessions
<1>9. ASSUME NEW i \in DOMAIN queue', IsSession(queue'[i])
      PROVE  IF i = 1 THEN EmptyIn(table') ELSE ClearsSessions(queue'[i - 1])
  <2>1. ClearsSessions(queue[i])
    BY <1>2, <1>9 DEF Prepared
  <2> QED
    BY <1>2, <1>8, <2>1
<1> QED
  BY <1>2, <1>3, <1>4, <1>7, <1>9 DEF Prepared

LEMMA SessionInit == PersistInit => SessionInv
<1> SUFFICES ASSUME PersistInit PROVE SessionInv
  OBVIOUS
<1>1. SessionTypes
  BY DEF PersistInit, Init, StoreInit, NoEntry, SessionTypes, NoRow, Row, Secret
<1> QED
  BY <1>1 DEF PersistInit, SessionInv, AloneIn, Prepared

(* One task that saves no session; the rows of the sessions stay.          *)
LEMMA SessionSentOne ==
  ASSUME SessionInv, NEW q, NEW task \in Task, Enqueue(q, <<task>>),
         task.op # "SaveBrowserSession", epoch' \in Nat, row' = row, table' = table, q = queue
  PROVE  SessionInv'
<1> SUFFICES ASSUME ~lost' PROVE SessionInv'
  BY DEF SessionInv
<1>1. ~lost
  BY Sent
<1>2. SessionTypes /\ AloneIn(table) /\ Prepared(queue, table)
  BY <1>1 DEF SessionInv
<1>3. queue' \in Seq(Task) /\ Prepared(queue', table)
  BY <1>2, PreparedOne DEF SessionTypes
<1>4. SessionTypes'
  BY <1>2, <1>3 DEF SessionTypes
<1> QED
  BY <1>2, <1>3, <1>4 DEF SessionInv

LEMMA SessionStream ==
  ASSUME SessionInv, ~lost, NEW t \in Tokens, StreamStepWithDisk(t)
  PROVE  SessionInv'
<1>1. SessionTypes /\ AloneIn(table) /\ Prepared(queue, table)
  BY DEF SessionInv
<1>2. SavePairing(epoch, "current") \in Task /\ SavePairing(0, t) \in Task
      /\ SavePairing(epoch, "current").op # "SaveBrowserSession"
      /\ SavePairing(0, t).op # "SaveBrowserSession"
  BY <1>1, TaskTypes, TaskOps DEF SessionTypes, Secret
<1>3. CASE SaveRefreshed(t)
  <2>1. epoch' = epoch /\ row' = row /\ table' = table
    BY <1>3 DEF SaveRefreshed, RefreshPairing, diskVars
  <2> QED
    BY <1>1, <1>2, <1>3, <2>1, SessionSentOne DEF SaveRefreshed, SessionTypes
<1>4. CASE SaveDrawn(t)
  <2>1. epoch' = epoch /\ row' = row /\ table' = table
    BY <1>4 DEF SaveDrawn, vars, storeVars, entryVars, diskVars
  <2> QED
    BY <1>1, <1>2, <1>4, <2>1, SessionSentOne DEF SaveDrawn, SessionTypes
<1>5. CASE SaveOffline(t)
  <2>1. epoch' = epoch /\ row' = row /\ table' = table
    BY <1>5 DEF SaveOffline, GoOffline, diskVars
  <2>2. CASE exists
    BY <1>1, <1>2, <1>5, <2>1, <2>2, SessionSentOne DEF SaveOffline, SessionTypes
  <2>3. CASE ~exists
    BY <1>1, <1>5, <2>1, <2>3 DEF SaveOffline, SessionTypes, SessionInv
  <2> QED
    BY <2>2, <2>3
<1>6. CASE InsertDrawn(t)
  <2>1. /\ epoch' = 0 /\ table' = table
        /\ queue' = [i \in DOMAIN queue |-> [queue[i] EXCEPT !.secret = Adopted(@, t)]]
        /\ row' = [row EXCEPT !.secret = Adopted(@, t)]
    BY <1>6 DEF InsertDrawn, InsertPairing
  <2>2. queue' \in Seq(Task) /\ row' \in Row
    BY <1>1, <2>1, AdoptedTypes DEF SessionTypes
  <2>3. DOMAIN queue' = DOMAIN queue /\ \A i \in DOMAIN queue : queue'[i].op = queue[i].op
    <3>1. \A i \in DOMAIN queue : queue[i] \in Task
      BY <1>1 DEF SessionTypes
    <3> QED
      BY <2>1, <3>1 DEF Task
  <2>4. ASSUME NEW q2, q2 = queue' PROVE Prepared(q2, table)
    BY <1>1, <2>2, <2>3, <2>4, PreparedRenamed DEF SessionTypes
  <2>5. SessionTypes'
    BY <1>1, <2>1, <2>2 DEF SessionTypes
  <2> QED
    BY <1>1, <2>1, <2>4, <2>5 DEF SessionInv
<1>7. CASE SaveRevoke(t)
  <2> DEFINE tasks == <<SavePairing(epoch + 1, "current"), Plain("DeleteBrowserSessionsForPairing")>>
  <2>1. tasks \in Seq(Task) /\ \A i \in DOMAIN tasks : ~IsSession(tasks[i])
    BY <1>1, TaskTypes, TaskOps DEF SessionTypes, Op, Secret, IsSession
  <2>2. epoch' = epoch + 1 /\ row' = AgedRow /\ table' = table /\ Enqueue(AgedQueue, tasks)
    BY <1>7 DEF SaveRevoke, Revoke
  <2>3. AgedQueue \in Seq(Task) /\ Prepared(AgedQueue, table) /\ AgedRow \in Row
    BY <1>1, AgedPrepared
  <2> HIDE DEF tasks
  <2>4. ~lost' => queue' \in Seq(Task) /\ Prepared(queue', table)
    BY <2>1, <2>2, <2>3, PreparedSent
  <2> QED
    BY <1>1, <2>2, <2>3, <2>4 DEF SessionInv, SessionTypes
<1>8. CASE OtherStreamStep(t) /\ UNCHANGED persistVars
  <2>1. epoch' = epoch
    BY <1>8 DEF OtherStreamStep, MissPairing, InsertSession, SendSessionToken, StallStream,
       DropStream, LocateSuccessor, IndexSuccessor, HandOver, StreamStep, storeVars, entryVars
  <2> QED
    BY <1>1, <1>8, <2>1 DEF SessionInv, SessionTypes, persistVars, diskVars
<1> QED
  BY <1>3, <1>4, <1>5, <1>6, <1>7, <1>8 DEF StreamStepWithDisk

LEMMA SessionBootstrap ==
  ASSUME SessionInv, ~lost, NEW b \in Browsers, SaveBootstrap(b)
  PROVE  SessionInv'
<1> DEFINE tasks == BootstrapTasks(b)
<1>1. SessionTypes /\ AloneIn(table) /\ Prepared(queue, table)
  BY DEF SessionInv
<1>2. /\ tasks \in Seq(Task) /\ DOMAIN tasks = 1..3
      /\ tasks[1].op = "DeleteBrowserSessionsForPairing"
      /\ tasks[3].op = "SavePairing"
  BY <1>1, TaskTypes, TaskOps DEF SessionTypes, BootstrapTasks, Op, Secret
<1>3. epoch' = epoch /\ row' = AgedRow /\ table' = table /\ Enqueue(AgedQueue, tasks)
  BY DEF SaveBootstrap, Bootstrap
<1>4. AgedQueue \in Seq(Task) /\ Prepared(AgedQueue, table) /\ AgedRow \in Row
  BY <1>1, AgedPrepared
<1> HIDE DEF tasks
<1>5. \A i \in DOMAIN tasks :
        IsSession(tasks[i]) => i # 1 /\ ClearsSessions(tasks[i - 1])
  BY <1>2 DEF IsSession, ClearsSessions
<1>6. ~lost' => queue' \in Seq(Task) /\ Prepared(queue', table)
  BY <1>2, <1>3, <1>4, <1>5, PreparedSent
<1> QED
  BY <1>1, <1>3, <1>4, <1>6 DEF SessionInv, SessionTypes

(* The rows and the channel are left alone.                                *)
LEMMA SessionKept ==
  ASSUME SessionInv, UNCHANGED <<queue, row, table, epoch, lost>>
  PROVE  SessionInv'
BY DEF SessionInv, SessionTypes

LEMMA SessionStep ==
  ASSUME SessionInv, [PersistNext]_allVars
  PROVE  SessionInv'
<1> SUFFICES ASSUME ~lost' PROVE SessionInv'
  BY DEF SessionInv
<1> USE DEF diskVars
<1>1. ASSUME NEW t \in Tokens, StreamStepWithDisk(t) PROVE SessionInv'
  <2>1. ~lost
    BY <1>1, Sent DEF StreamStepWithDisk, SaveRefreshed, SaveDrawn, InsertDrawn, SaveOffline,
       SaveRevoke, persistVars
  <2> QED
    BY <1>1, <2>1, SessionStream
<1>2. ASSUME NEW b \in Browsers, SaveBootstrap(b) PROVE SessionInv'
  BY <1>2, Sent, SessionBootstrap DEF SaveBootstrap
<1>3. ASSUME NEW b \in Browsers, ExpireSession(b) PROVE SessionInv'
  <2>1. /\ table' = [table EXCEPT ![b] = IF @ = "fresh" THEN "expired" ELSE @]
        /\ UNCHANGED <<queue, row, epoch, lost>>
    BY <1>3 DEF ExpireSession, ExpireCookie, storeVars, entryVars
  <2>2. SessionTypes /\ AloneIn(table) /\ Prepared(queue, table)
    BY <2>1 DEF SessionInv
  <2>3. \A d \in Browsers : table'[d] = "absent" <=> table[d] = "absent"
    BY <2>1, <2>2 DEF SessionTypes
  <2>4. SessionTypes'
    BY <2>1, <2>2 DEF SessionTypes
  <2> QED
    BY <2>1, <2>2, <2>3, <2>4 DEF SessionInv, AloneIn, Prepared, EmptyIn
<1>4. ASSUME OtherSocketStep, UNCHANGED persistVars PROVE SessionInv'
  <2>1. epoch' = epoch
    BY <1>4 DEF OtherSocketStep, SocketHandler, SocketEnvironment, NoticeHandler,
       IssueTicket, AcceptUpgrade, TakeSlot, MarkConnected, ObeyClose, RefuseMessage,
       ForwardText, ClearSession, ReturnSlot, AuthenticateTicket, ExpireTicket, UseTicket,
       AbandonUpgrade, LeaveSocket, StallPhone, WriteFrame, AcceptText, SendOver, Greet,
       FinishSend, GiveUpText, SayFarewell, Part, FindStream, NotifyBootstrap, NotifyRevoke,
       storeVars, entryVars
  <2> QED
    BY <1>4, <2>1, SessionKept DEF persistVars
<1>5. ASSUME DropEntry PROVE SessionInv'
  <2>1. queue' = AgedQueue /\ row' = AgedRow /\ table' = table /\ epoch' = 0 /\ ~lost
    BY <1>5 DEF DropEntry, RemovePairing, RemoveEntry
  <2>2. SessionTypes /\ AloneIn(table) /\ Prepared(queue, table)
    BY <2>1 DEF SessionInv
  <2>3. AgedQueue \in Seq(Task) /\ Prepared(AgedQueue, table) /\ AgedRow \in Row
    BY <2>2, AgedPrepared
  <2> QED
    BY <2>1, <2>2, <2>3 DEF SessionInv, SessionTypes
<1>6. ASSUME NEW op \in Op, op # "SaveBrowserSession", Enqueue(queue, <<Plain(op)>>),
             UNCHANGED <<epoch, row, table>>
      PROVE  SessionInv'
  <2>1. epoch \in Nat
    BY <1>6, Sent DEF SessionInv, SessionTypes
  <2> QED
    BY <1>6, <2>1, TaskTypes, TaskOps, SessionSentOne
<1>7. ASSUME DeleteRow PROVE SessionInv'
  BY <1>6, <1>7 DEF DeleteRow, Op, vars, storeVars, entryVars
<1>8. ASSUME Sweep PROVE SessionInv'
  <2>1. UNCHANGED <<epoch, row, table>>
    BY <1>8 DEF Sweep, SweepStores, storeVars, entryVars
  <2> QED
    BY <1>6, <1>8, <2>1 DEF Sweep, SweepTasks, Op
<1>9. ASSUME Purge PROVE SessionInv'
  BY <1>9, SessionKept DEF Purge, PurgePairing, storeVars, entryVars, persistVars
<1>10. ASSUME WriteTask PROVE SessionInv'
  <2>1. ~lost /\ epoch' = epoch
    BY <1>10 DEF WriteTask, vars, storeVars, entryVars
  <2>2. SessionTypes /\ AloneIn(table) /\ Prepared(queue, table)
    BY <2>1 DEF SessionInv
  <2> QED
    BY <1>10, <2>1, <2>2, PreparedWritten DEF SessionInv, SessionTypes
<1>11. ASSUME LapseRow PROVE SessionInv'
  BY <1>11 DEF LapseRow, vars, storeVars, entryVars, SessionInv, SessionTypes, Row
<1>12. ASSUME LapseEntry PROVE SessionInv'
  BY <1>12, SessionKept DEF LapseEntry, Lapse, persistVars
<1>13. ASSUME NEW late \in BOOLEAN, Restart(late) PROVE SessionInv'
  <2>1. ~lost /\ table' = table /\ queue' = <<>>
    BY <1>13 DEF Restart
  <2>2. SessionTypes /\ AloneIn(table)
    BY <2>1 DEF SessionInv
  <2>3. row' \in Row /\ epoch' \in Nat
    BY <1>13, <2>2 DEF Restart, RestoredEpoch, SessionTypes, Row, Secret
  <2> QED
    BY <2>1, <2>2, <2>3 DEF SessionInv, SessionTypes, Prepared
<1>14. ASSUME UNCHANGED allVars PROVE SessionInv'
  BY <1>14, SessionKept DEF allVars, vars, storeVars, entryVars, persistVars
<1> QED
  BY <1>1, <1>2, <1>3, <1>4, <1>5, <1>7, <1>8, <1>9, <1>10, <1>11, <1>12, <1>13, <1>14
  DEF PersistNext

(* However far the writer had come, one browser session at most is stored. *)
THEOREM OneStoredSession == PersistSpec => []OneSessionOnDisk
<1>1. SessionInv /\ [PersistNext]_allVars => SessionInv'
  BY SessionStep
<1>2. SessionInv => OneSessionOnDisk
  BY DEF SessionInv, AloneIn, OneSessionOnDisk
<1> QED
  BY <1>1, <1>2, SessionInit, PTL DEF PersistSpec

-----------------------------------------------------------------------------
(* The relay of PairingRelay inside the one with a database: what is proved*)
(* of every step of the former holds of the latter's steps too, except for *)
(* a restart, which has to establish the invariants anew.                  *)
LEMMA RelayStep ==
  ASSUME [PersistNext]_allVars, restarts' = restarts, restarts \in Nat
  PROVE  [Next]_vars
<1>1. CASE \E t \in Tokens : SaveRefreshed(t)
  BY <1>1 DEF SaveRefreshed, Next, StreamNext, StreamEnvironment
<1>2. CASE \E t \in Tokens : SaveDrawn(t)
  BY <1>2 DEF SaveDrawn
<1>3. CASE \E t \in Tokens : InsertDrawn(t)
  BY <1>3 DEF InsertDrawn, Next, StreamNext, StreamHandler
<1>4. CASE \E t \in Tokens : SaveOffline(t)
  BY <1>4 DEF SaveOffline, Next, StreamNext, StreamHandler
<1>5. CASE \E t \in Tokens : SaveRevoke(t)
  BY <1>5 DEF SaveRevoke, Next, SocketNext
<1>6. CASE \E t \in Tokens : OtherStreamStep(t) /\ UNCHANGED <<socketVars, cleaner, persistVars, restarts>>
  BY <1>6 DEF OtherStreamStep, Next, StreamNext, StreamHandler, StreamEnvironment
<1>7. CASE \E b \in Browsers : SaveBootstrap(b) \/ ExpireSession(b)
  BY <1>7 DEF SaveBootstrap, ExpireSession, Next, SocketNext
<1>8. CASE OtherSocketStep /\ UNCHANGED <<streamVars, cleaner, persistVars, restarts>>
  BY <1>8 DEF OtherSocketStep, Next, SocketNext
<1>9. CASE DropEntry \/ Purge \/ Sweep \/ LapseEntry
  BY <1>9 DEF DropEntry, Purge, Sweep, LapseEntry, Next, Cleanup
<1>10. CASE DeleteRow \/ WriteTask \/ LapseRow
  BY <1>10 DEF DeleteRow, WriteTask, LapseRow
<1>11. CASE \E late \in BOOLEAN : Restart(late)
  BY <1>11 DEF Restart
<1>12. CASE UNCHANGED allVars
  BY <1>12 DEF allVars
<1> QED
  BY <1>1, <1>2, <1>3, <1>4, <1>5, <1>6, <1>7, <1>8, <1>9, <1>10, <1>11, <1>12
  DEF PersistNext, StreamStepWithDisk

(* Only a restart counts as one.                                           *)
LEMMA RestartOnly ==
  ASSUME [PersistNext]_allVars
  PROVE  restarts' = restarts \/ \E late \in BOOLEAN : Restart(late)
BY DEF PersistNext, StreamStepWithDisk, SaveRefreshed, SaveDrawn, InsertDrawn, SaveOffline,
       SaveRevoke, SaveBootstrap, ExpireSession, DropEntry, DeleteRow, Purge, Sweep,
       WriteTask, LapseRow, LapseEntry, allVars

-----------------------------------------------------------------------------
(* Types.                                                                  *)
LEMMA EnqueueType ==
  ASSUME NEW waiting \in Seq(Task), NEW tasks \in Seq(Task), Len(waiting) <= Capacity,
         Enqueue(waiting, tasks), lost \in BOOLEAN
  PROVE  queue' \in Seq(Task) /\ Len(queue') <= Capacity /\ lost' \in BOOLEAN
<1>1. CASE EnqueueAll(waiting, tasks)
  BY <1>1 DEF EnqueueAll
<1>2. CASE EnqueueSome(waiting, tasks)
  <2>0. PICK k \in 0..Len(tasks) - 1 :
          \E sent \in Subsequences(tasks, k) : queue' = waiting \o sent
    BY <1>2 DEF EnqueueSome
  <2>1. PICK sent \in Subsequences(tasks, k) : queue' = waiting \o sent
    BY <2>0
  <2>2. PICK kept \in [1..k -> DOMAIN tasks] : sent = [i \in 1..k |-> tasks[kept[i]]]
    BY DEF Subsequences
  <2>3. k \in Nat /\ \A i \in 1..k : tasks[kept[i]] \in Task
    OBVIOUS
  <2>4. sent \in Seq(Task)
    BY <2>2, <2>3
  <2>5. queue' \in Seq(Task)
    BY <2>1, <2>4
  <2> QED
    BY <1>2, <2>5 DEF EnqueueSome
<1> QED
  BY <1>1, <1>2 DEF Enqueue

(* What the writer's channel and the database hold.                        *)
DiskTypeOK ==
  /\ queue \in Seq(Task)
  /\ Len(queue) <= Capacity
  /\ row \in Row
  /\ table \in [Browsers -> {"absent", "fresh", "expired"}]
  /\ drawn \in SUBSET Tokens
  /\ deleting \in BOOLEAN
  /\ lost \in BOOLEAN
  /\ restarts \in 0..MaxRestarts

LEMMA AgedLength ==
  ASSUME queue \in Seq(Task)
  PROVE  Len(AgedQueue) = Len(queue)
BY DEF AgedQueue

LEMMA DiskTypeStream ==
  ASSUME PersistTypeOK, NEW t \in Tokens, StreamStepWithDisk(t)
  PROVE  DiskTypeOK'
<1> USE DEF diskVars
<1>0. DiskTypeOK /\ epoch \in Nat
  BY DEF PersistTypeOK, DiskTypeOK, RelayTypeOK, StoreTypeOK
<1>1. /\ <<SavePairing(epoch, "current")>> \in Seq(Task)
      /\ <<SavePairing(0, t)>> \in Seq(Task)
  <2>1. SavePairing(epoch, "current") \in Task /\ SavePairing(0, t) \in Task
    BY <1>0, TaskTypes DEF Secret
  <2> QED
    BY <2>1
<1>2. CASE SaveRefreshed(t)
  <2>1. queue' \in Seq(Task) /\ Len(queue') <= Capacity /\ lost' \in BOOLEAN
    BY <1>0, <1>1, <1>2, EnqueueType DEF SaveRefreshed, DiskTypeOK
  <2> QED
    BY <1>0, <1>2, <2>1 DEF SaveRefreshed, DiskTypeOK
<1>3. CASE SaveDrawn(t)
  <2>1. queue' \in Seq(Task) /\ Len(queue') <= Capacity /\ lost' \in BOOLEAN
    BY <1>0, <1>1, <1>3, EnqueueType DEF SaveDrawn, DiskTypeOK
  <2> QED
    BY <1>0, <1>3, <2>1 DEF SaveDrawn, DiskTypeOK
<1>4. CASE InsertDrawn(t)
  <2>1. queue' \in Seq(Task) /\ row' \in Row
    BY <1>0, <1>4, AdoptedTypes DEF InsertDrawn, DiskTypeOK
  <2>2. Len(queue') = Len(queue)
    BY <1>0, <1>4 DEF InsertDrawn, DiskTypeOK
  <2> QED
    BY <1>0, <1>4, <2>1, <2>2 DEF InsertDrawn, DiskTypeOK
<1>5. CASE SaveOffline(t)
  <2>1. queue' \in Seq(Task) /\ Len(queue') <= Capacity /\ lost' \in BOOLEAN
    BY <1>0, <1>1, <1>5, EnqueueType DEF SaveOffline, DiskTypeOK
  <2> QED
    BY <1>0, <1>5, <2>1 DEF SaveOffline, DiskTypeOK
<1>6. CASE SaveRevoke(t)
  <2> DEFINE tasks == <<SavePairing(epoch + 1, "current"), Plain("DeleteBrowserSessionsForPairing")>>
  <2>1. tasks \in Seq(Task)
    BY <1>0, TaskTypes DEF Op, Secret
  <2>2. AgedQueue \in Seq(Task) /\ AgedRow \in Row /\ Len(AgedQueue) <= Capacity
    BY <1>0, AgedTypes, AgedLength DEF DiskTypeOK
  <2>3. Enqueue(AgedQueue, tasks) /\ lost \in BOOLEAN
    BY <1>0, <1>6 DEF SaveRevoke, DiskTypeOK
  <2> HIDE DEF tasks
  <2>4. queue' \in Seq(Task) /\ Len(queue') <= Capacity /\ lost' \in BOOLEAN
    BY <2>1, <2>2, <2>3, EnqueueType
  <2> QED
    BY <1>0, <1>6, <2>2, <2>4 DEF SaveRevoke, DiskTypeOK
<1>7. CASE UNCHANGED <<persistVars, restarts>>
  BY <1>0, <1>7 DEF persistVars, DiskTypeOK
<1> QED
  BY <1>2, <1>3, <1>4, <1>5, <1>6, <1>7 DEF StreamStepWithDisk

LEMMA DiskTypeStep ==
  ASSUME PersistTypeOK, [PersistNext]_allVars
  PROVE  DiskTypeOK'
<1> USE DEF diskVars
<1>0. DiskTypeOK /\ epoch \in Nat
  BY DEF PersistTypeOK, DiskTypeOK, RelayTypeOK, StoreTypeOK
<1>1. AgedQueue \in Seq(Task) /\ AgedRow \in Row /\ Len(AgedQueue) <= Capacity
  BY <1>0, AgedTypes, AgedLength DEF DiskTypeOK
<1>2. ASSUME NEW b \in Browsers, SaveBootstrap(b) PROVE DiskTypeOK'
  <2> DEFINE tasks == BootstrapTasks(b)
  <2>1. tasks \in Seq(Task)
    BY <1>0, TaskTypes DEF BootstrapTasks, Op, Secret
  <2>2. Enqueue(AgedQueue, tasks) /\ lost \in BOOLEAN
    BY <1>0, <1>2 DEF SaveBootstrap, DiskTypeOK
  <2> HIDE DEF tasks
  <2>3. queue' \in Seq(Task) /\ Len(queue') <= Capacity /\ lost' \in BOOLEAN
    BY <1>1, <2>1, <2>2, EnqueueType
  <2> QED
    BY <1>0, <1>1, <1>2, <2>3 DEF SaveBootstrap, DiskTypeOK
<1>3. ASSUME NEW b \in Browsers, ExpireSession(b) PROVE DiskTypeOK'
  BY <1>0, <1>3 DEF ExpireSession, DiskTypeOK
<1>4. ASSUME DropEntry PROVE DiskTypeOK'
  BY <1>0, <1>1, <1>4 DEF DropEntry, DiskTypeOK
<1>5. ASSUME NEW op \in Op, Enqueue(queue, <<Plain(op)>>)
      PROVE  queue' \in Seq(Task) /\ Len(queue') <= Capacity /\ lost' \in BOOLEAN
  <2>1. <<Plain(op)>> \in Seq(Task)
    BY TaskTypes
  <2> QED
    BY <1>0, <1>5, <2>1, EnqueueType DEF DiskTypeOK
<1>6. ASSUME DeleteRow PROVE DiskTypeOK'
  <2>1. queue' \in Seq(Task) /\ Len(queue') <= Capacity /\ lost' \in BOOLEAN
    BY <1>5, <1>6 DEF DeleteRow, Op
  <2> QED
    BY <1>0, <1>6, <2>1 DEF DeleteRow, DiskTypeOK
<1>7. ASSUME Sweep PROVE DiskTypeOK'
  <2>1. queue' \in Seq(Task) /\ Len(queue') <= Capacity /\ lost' \in BOOLEAN
    BY <1>5, <1>7 DEF Sweep, SweepTasks, Op
  <2> QED
    BY <1>0, <1>7, <2>1 DEF Sweep, DiskTypeOK
<1>8. ASSUME WriteTask PROVE DiskTypeOK'
  <2>1. queue' \in Seq(Task) /\ row' \in Row
    BY <1>0, <1>8, WrittenType DEF WriteTask, DiskTypeOK
  <2>2. Len(queue') <= Capacity
    BY <1>0, <1>8, CapacityAssumption DEF WriteTask, DiskTypeOK
  <2>3. table' \in [Browsers -> {"absent", "fresh", "expired"}]
    BY <1>0, <1>8 DEF WriteTask, SessionsAfter, DiskTypeOK
  <2> QED
    BY <1>0, <1>8, <2>1, <2>2, <2>3 DEF WriteTask, DiskTypeOK
<1>9. ASSUME LapseRow PROVE DiskTypeOK'
  BY <1>0, <1>9 DEF LapseRow, DiskTypeOK, Row
<1>10. ASSUME NEW late \in BOOLEAN, Restart(late) PROVE DiskTypeOK'
  <2>1. row' \in Row
    BY <1>0, <1>10 DEF Restart, DiskTypeOK, Row, Secret
  <2>2. queue' = <<>> /\ drawn' = {} /\ deleting' = FALSE /\ UNCHANGED <<table, lost>>
    BY <1>10 DEF Restart
  <2>3. restarts' \in 0..MaxRestarts
    BY <1>0, <1>10, MaxRestartsAssumption DEF Restart, DiskTypeOK
  <2>4. queue' \in Seq(Task) /\ Len(queue') <= Capacity
    BY <2>2, CapacityAssumption
  <2> QED
    BY <1>0, <2>1, <2>2, <2>3, <2>4 DEF DiskTypeOK
<1>11. ASSUME UNCHANGED <<persistVars, restarts>> PROVE DiskTypeOK'
  BY <1>0, <1>11 DEF persistVars, DiskTypeOK
<1> QED
  BY <1>2, <1>3, <1>4, <1>6, <1>7, <1>8, <1>9, <1>10, <1>11, DiskTypeStream
  DEF PersistNext, Purge, LapseEntry, allVars

LEMMA RestartTypes ==
  ASSUME PersistTypeOK, NEW late \in BOOLEAN, Restart(late)
  PROVE  RelayTypeOK'
<1>0. RelayTypeOK /\ row.epoch \in Nat
  BY DEF PersistTypeOK, Row
<1>1. StoreTypeOK'
  <2>1. exists' \in BOOLEAN /\ displayed' \in BOOLEAN
    BY DEF Restart, PersistTypeOK, RelayTypeOK, StoreTypeOK, Row
  <2>2. epoch' \in Nat
    BY <1>0 DEF Restart, RestoredEpoch
  <2>3. /\ online' = FALSE /\ lapsed' = FALSE /\ activeToken' = NoToken /\ activeWs' = NoConn
        /\ overwritten' \in BOOLEAN /\ sessions' = {} /\ full' = {}
    BY <1>0 DEF Restart, RelayTypeOK, StoreTypeOK
  <2>4. /\ createdAt' \in [Tokens -> Nat] /\ mobileTx' \in [Tokens -> Conns \cup {NoConn}]
        /\ subscribeUrl' \in [Tokens -> Copy] /\ bootstrapUrl' \in [Browsers -> Copy]
        /\ revokeUrl' \in [Tokens -> Copy] /\ shown' \in [Tokens -> Copy]
        /\ firstEvent' \in [Tokens -> {"none", "own", "other"}]
    BY DEF Restart, Copy
  <2> QED
    BY <2>1, <2>2, <2>3, <2>4 DEF StoreTypeOK
<1>2. StreamTypeOK'
  BY <1>0 DEF Restart, RelayTypeOK, StreamTypeOK, StreamPhase
<1>3. SocketTypeOK'
  BY <1>0 DEF Restart, RelayTypeOK, SocketTypeOK, ConnPhase, Nothing, Local
<1> QED
  BY <1>1, <1>2, <1>3 DEF Restart, RelayTypeOK

LEMMA PersistTypeInit == PersistInit => PersistTypeOK
<1> SUFFICES ASSUME PersistInit PROVE PersistTypeOK
  OBVIOUS
<1>1. RelayTypeOK
  BY TypeInit DEF PersistInit
<1>2. queue \in Seq(Task) /\ Len(queue) <= Capacity
  BY CapacityAssumption DEF PersistInit
<1>3. row \in Row /\ restarts \in 0..MaxRestarts
  BY MaxRestartsAssumption DEF PersistInit, NoRow, Row, Secret
<1> QED
  BY <1>1, <1>2, <1>3 DEF PersistInit, PersistTypeOK

LEMMA PersistTypeStep ==
  PersistTypeOK /\ [PersistNext]_allVars => PersistTypeOK'
<1> SUFFICES ASSUME PersistTypeOK, [PersistNext]_allVars PROVE PersistTypeOK'
  OBVIOUS
<1>1. RelayTypeOK'
  <2>1. CASE \E late \in BOOLEAN : Restart(late)
    BY <2>1, RestartTypes
  <2>2. CASE restarts' = restarts
    BY <2>2, RelayStep, TypeStep DEF PersistTypeOK
  <2> QED
    BY <2>1, <2>2, RestartOnly
<1> QED
  BY <1>1, DiskTypeStep DEF DiskTypeOK, PersistTypeOK

(* Every variable keeps its type, and the channel its size, also when      *)
(* tasks are dropped and across restarts: the entries, rows and tasks that *)
(* the server reads back are what it could have written.                   *)
THEOREM PersistTypesCorrect == PersistSpec => []PersistTypeOK
BY PersistTypeInit, PersistTypeStep, PTL DEF PersistSpec

(* Between restarts the server with a database implements PairingRelay:    *)
(* saving, the writer and the database never show in what phones and PCs   *)
(* can observe, and the removal of an entry is not disturbed by the        *)
(* deletion of its row that follows.                                       *)
THEOREM PersistImplementsRelay ==
  PersistSpec => Init /\ [][Next \/ restarts' # restarts]_vars
<1>1. PersistTypeOK /\ [PersistNext]_allVars => [Next \/ restarts' # restarts]_vars
  BY RelayStep DEF PersistTypeOK
<1>2. PersistInit => Init
  BY DEF PersistInit
<1> QED
  BY <1>1, <1>2, PersistTypesCorrect, PTL DEF PersistSpec

-----------------------------------------------------------------------------
(* A restart drops every connection and every stream and leaves the entry, *)
(* if it is restored, offline with an empty slot.                          *)
LEMMA RestartInvariants ==
  ASSUME PersistTypeOK, NEW late \in BOOLEAN, Restart(late)
  PROVE  PhoneInv' /\ StreamInv'
<1>1. activeWs' = NoConn /\ \A c \in Conns : conn'[c] \in {"none", "done"}
  BY DEF Restart
<1>2. PhoneInv'
  BY <1>1 DEF PhoneInv, NoOrphanedPhone, SlotHolderAlive, Serving
<1>3. /\ online' = FALSE /\ sessions' = {}
      /\ \A t \in Tokens : stream'[t] \in {"new", "gone"}
  BY DEF Restart
<1>4. StreamInv'
  BY <1>3 DEF StreamInv, StoredStreams, SomebodyAnswers
<1> QED
  BY <1>2, <1>4

LEMMA PersistInvariants == PersistSpec => [](PhoneInv /\ StreamInv)
<1>1. PersistInit => PhoneInv /\ StreamInv
  BY PhoneInit, StreamInvInit DEF PersistInit
<1>2. PersistTypeOK /\ PhoneInv /\ StreamInv /\ [PersistNext]_allVars => (PhoneInv /\ StreamInv)'
  <2> SUFFICES ASSUME PersistTypeOK, PhoneInv, StreamInv, [PersistNext]_allVars
               PROVE  PhoneInv' /\ StreamInv'
    OBVIOUS
  <2>1. CASE \E late \in BOOLEAN : Restart(late)
    BY <2>1, RestartInvariants
  <2>2. CASE restarts' = restarts
    BY <2>2, RelayStep, PhoneStep, StreamInvStep DEF PersistTypeOK
  <2> QED
    BY <2>1, <2>2, RestartOnly
<1> QED
  BY <1>1, <1>2, PersistTypesCorrect, PTL DEF PersistSpec

(* Whatever the writer does and whenever the server dies and starts again, *)
(* no connection is served that nothing can reach, unless an insert has    *)
(* overwritten an entry.                                                   *)
THEOREM PhonesAccountedForAcrossRestarts == PersistSpec => []NoOrphanedPhone
BY PersistInvariants, PTL DEF PhoneInv

(* The same, with the same exception, of the rule that one phone at most   *)
(* types into a PC.                                                        *)
THEOREM SinglePhoneAcrossRestarts == PersistSpec => []OnePhoneAtATime
<1>1. PhoneInv => OnePhoneAtATime
  BY DEF PhoneInv, NoOrphanedPhone, OnePhoneAtATime
<1> QED
  BY <1>1, PersistInvariants, PTL

(* A restored entry names no connection of the server that died.           *)
THEOREM SlotNeverDeadAcrossRestarts == PersistSpec => []SlotHolderAlive
BY PersistInvariants, PTL DEF PhoneInv

(* A pairing without a PC stream is offline, restored ones included: its   *)
(* deadline counts.                                                        *)
THEOREM GoneMeansOfflineAcrossRestarts == PersistSpec => []OfflineWhenGone
<1>1. StreamInv => OfflineWhenGone
  BY DEF StreamInv, SomebodyAnswers, Answers, OfflineWhenGone
<1> QED
  BY <1>1, PersistInvariants, PTL
=============================================================================
