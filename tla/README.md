# A verification development for qr-paste

qr-paste relays texts and files from a phone's browser to a PC: the PC client
keeps a gRPC event stream open to the server, the phone scans a QR code, gets a
cookie, a WebSocket ticket and then a WebSocket, and whatever it sends the server
puts on the PC's event stream. This directory holds TLA+ models of the server's
concurrent core and its database, of the way of a file to the PC, and of the PC client's
connection and workers; the TLC configurations that check them on small instances; and
TLAPS proofs of their most important invariants for every instance.

Source references are `file:line` below `src/`; `web.rs`, `grpc.rs`, `pairing.rs`,
`session.rs`, `upload_store.rs`, `persist.rs`, `config.rs` and `main.rs` without a
directory are those of `server/src`, and
`ui.rs`, `clipboard.rs` and `file_handler.rs` those of `client/src`. `PROJECT.json` gives the source lines of every
definition.

    tlc -workers 2 -config relay_phones.cfg MCPairingRelay
    tlc -workers 2 -config pc_files.cfg MCPcDelivery
    tlapm PairingRelay_proofs.tla

`PROJECT.json` also says which module each configuration is run with.

## 1. Inventory

### Server

| Component | State | Operations | What is hard | What makes it correct |
|---|---|---|---|---|
| PC event streams (`grpc.rs`, `session.rs`) | `SessionStore`: token -> `Session` (event channel `client_tx`, `mobile_control_tx`, `created_at`) | `Subscribe` (upsert the pairing, insert the Session, first event), `Ping`, destructor of the stream | The destructor runs whenever the transport notices, so old and new streams of a PC overlap; each map access has its own lock | A pairing with a stream is online, one without is offline; a stream's first event is its own `SessionToken` |
| Pairings, browser sessions, tickets (`pairing.rs`, `web.rs`) | `PairingEntry` (secret, epoch, online, expiry, `active_session_token`, `active_mobile_ws`), `BrowserSession`, `WsTicket` | `bootstrap`, `ws-ticket`, `revoke`, removal | Checks and their use lie in different tasks; notices to the PC are sent after the lock | The secret on screen is the valid one; an old epoch is not served; superseded phones are told to close |
| Mobile WebSocket (`web.rs`) | Slot of the pairing, permits of `ws_slots`, the control channel of each connection | upgrade, take the slot, mark the Session, select loop, forward text, give everything back | Several connections, several browsers, orders to close that race with texts and with the end of the handler; sends that wait for a PC or a phone to read | At most one phone serves; a phone that must go goes; no dead slot |
| Cleanup of pairings (`pairing.rs`, `main.rs`) | - | remove lapsed entries, purge what hung on them, expire cookies and tickets | Runs next to returning PCs and phones | Abandoned pairings go, used ones stay |
| Upload store (`upload_store.rs`) | index of files, quota account under the reservation mutex, semaphores, transfer channels | begin, store, notify, ACK, roll back, clean-up of a pairing, sweep of the directory, baseline at start | Index, account and disk change in separate steps; five paths remove an entry | Every count exact, every limit kept, index and disk agree, files announced to the PC stay |
| Upload and download handlers (`web.rs`, `grpc.rs`) | the `.tmp` file, the permit, the channel to the PC | `POST /upload` in its modes HTTP_STREAMING, STREAMING and RELAY, `GET` of a file, `StreamFile`, ACK | I/O errors, timeouts, a phone that goes while the handler awaits, a PC that takes the file at any pace | A failed upload leaves nothing; a stored one is there until it is fetched or too old |
| Persistence (`persist.rs`) | bounded queue, SQLite | save and delete pairings and cookies, load at start | Fire and forget; queue full; crash between change and write | A restart never brings a revoked state back |
| Configuration (`config.rs`) | - | load, validate, `resolve_client_ip` | Chains of proxies | The nearest untrusted address is the client's |
| Start (`main.rs`) | - | baseline of the upload directory, load the database, background tasks | Restart in the middle of anything | Counters fit the directory |

### Client

| Component | State | Operations | What is hard | What makes it correct |
|---|---|---|---|---|
| Connection (`client/src/grpc.rs`) | one thread per connection with a channel of its own, heartbeat task | connect, subscribe, pass events on, ping | Events and errors in an order the server decides; the first frame need not be the `SessionToken` | Two connections never overlap; what is shown and used is the present connection's |
| User interface (`client/src/ui.rs`) | application state, token and address, reconnect delay, revocation under way, queues of 64 jobs | handle events, reconnect, hand jobs on, revoke | Full queues; the end of a connection after an error event; a revocation that outlives its connection | The PC comes back after every end but a final error; every job is dealt with |
| Clipboard worker (`client/src/clipboard.rs`, `ui.rs`) | the text under way, the snapshot | copy, press Ctrl+V, restore | The user, and images pasted by other threads, at the same clipboard and keyboard | A paste gives what it was made for; the user's text comes back |
| File handler (`client/src/file_handler.rs`) | shared queue, `paste_lock`, `file_save_lock`, temporary and final files | stream or download, check SHA-256, retry, paste an image, name the file, ACK | Attempts that race with the end of the upload; two workers with files of one name | No file is replaced; what is acknowledged is there |
| Configuration, tray, icon | - | - | - | - |

### How they interact

The PC talks to the server by gRPC (`Subscribe`, `Ping`, `StreamFile`) and HTTP
(downloads, `revoke`, ACK); the phone by HTTP and one WebSocket. Inside the PC client
threads pass jobs through bounded channels and share the clipboard, the keyboard and the folder. Inside the server the
handlers share the stores and nothing else: `DashMap`s, whose accesses lock one shard,
one mutex (`reservation`), semaphores, and channels from every handler to the PC's
stream (`client_tx`), to a phone's handler (`mobile_control_tx`) and to the writer of the database. Every handler is a
tokio task or future that can be suspended between two accesses, and, for HTTP
handlers, dropped at an `await` when the peer goes away.

## 2. The models

| Module | Models |
|---|---|
| `PairingStore` | the shared state of one pairing, `latest_session_token`, delivery of an event |
| `ClientStream` | `Subscribe` and the destructor of the event stream, step by step |
| `MobileSocket` | bootstrap, ws-ticket, upgrade, `handle_pairing_ws`, revoke |
| `PairingRelay` | the three together with the cleanup of pairings; the properties |
| `UploadStore` | index, quota account, semaphores, directory, and their operations |
| `QuotaAccount` | the quota as it is meant: a file is admitted once within the limits, settled, given back once |
| `UploadLifecycle` | upload handlers, PC, clean-up of a pairing, sweep, restart; the properties; implements `QuotaAccount` |
| `Transfer` | what sending a file promises: the upload is stored or fails, the PC keeps the file or gives it up |
| `TransferChannel` | one streamed file: upload handler, bounded channel, download, the PC's job; implements `Transfer` |
| `PersistentRelay` | `PairingRelay` with the writer's queue, the database, crash and restart |
| `ClientConnection` | the client's connection threads and the frame loop: events, reconnecting, revocations |
| `PcClipboard` | the text worker, the clipboard, the keyboard |
| `PcFiles` | the file workers: queue, downloads, pasting images, naming, acknowledging |
| `PcDelivery` | the two together with the user; the properties |
| `LockOrder` | which locks the server's calls take while they hold others |
| `MC*` | symmetry sets for TLC |
| `FunctionSums` | what the community modules' sum of a function over a finite set is; used by proofs only |
| `*_proofs` | theorems and proofs |

### PairingStore, ClientStream, MobileSocket, PairingRelay

One pairing, with any number of `Subscribe` calls (`Tokens`), WebSocket connections
(`Conns`, one per ticket) and browser sessions (`Browsers`). Ids are random and never
reused, so each is one element of its set, used once. Entries of different pairings
share only the WebSocket permits and the locks, so one pairing is enough.

*Granularity.* An action is what a handler does under one lock. `upsert_pairing` is a
look-up that refreshes (`RefreshPairing`) or misses (`MissPairing`), and an insert
(`InsertPairing`), because no lock spans the two (`grpc.rs:459`). The destructor is four
steps: remove the Session, look for a successor, point the entry at it, hand the phone over
or go offline. What a handler sends after its lock (`NotifyBootstrap`, `NotifyRevoke`,
`SendSessionToken`) is a step of its own; so the order in which two handlers reach the
PC's channel is free. Three things are coarser than the code: the look-ups inside
`latest_session_token` are one step; `handle_revoke` reads its Session and takes the
entry's lock in one step; a stream has at most one revocation under way.

*Data.* `pairing_secret` is random: a copy of it is `current` or `stale`, so a rotation
marks every copy in flight stale (`Outdated`). `created_at` only orders Sessions, so it is
kept as ranks. `Session.mobile_control_tx` is the connection it leads to, and a
`WsControl::Close` in a control channel is a member of `ordered`. `Deliver` says what enters
a stream's channel: a first event, a copy of the secret. A channel dies with its Session.

*The phone's loop.* `select!` picks one of the ready branches: the Close order (`ObeyClose`), a text that passes (`AcceptText`, then
`ForwardText`) or is refused (`RefuseMessage`), a frame to be answered or passed on (`WriteFrame`), or the connection's end
(`LeaveSocket`). `Refused` is `validate_pairing_ws` with its order of tests: a missing entry or browser session gives no close code, as in
the code. Rate limits, `Origin` checks and request parsing end a request before any state changes and are left out, and so is what the
notices to the phone say. `cleanup_old_sessions` is left out because every `Session` that is stored has a `client_tx`, which the function keeps.

*Sends that wait.* The channel of a stream holds 32 events (`grpc.rs:168`), a socket what the kernel buffers, and the handlers await their sends
without a limit of time: `handle_pairing_ws` outside its select loop (`web.rs:2034`, `2058`, `2069`, `2095`, `2141`, `2169`), `handle_bootstrap` and `handle_revoke`
after their locks. `full` holds the streams and connections that have no room. Which peers may stop reading is the constant `Stalling`; a
stream fills up and empties at any moment while it lives (`StallStream`: whoever fills it, phones among them), a phone's socket while its handler
sends to it (`StallPhone`), since nothing else looks. A send of `handle_pairing_ws` is therefore three steps: the target is looked up and the send begins
(`MarkConnected`, `ForwardText`, `ReturnSlot`, `ObeyClose`, `RefuseMessage`, `WriteFrame`), the buffer may be full for a while or for ever, and
the send ends (`Greet`, `FinishSend`, `GiveUpText`, `Part`, `SayFarewell`, together `SendOver`). `NotifyBootstrap`
and `NotifyRevoke` wait for room too. A first event is taken to find room: 32 other events would have to
enter the new channel in the moment before it. A channel that goes with its stream fails the sends that wait in it. `TransferChannel` treats the same channel the same way: its
announcement is not fair.

*Time.* `Lapse` lets the TTL pass (a day by default) only while no handler is in the middle of
its steps, those aside that await a send (`Stuck`), which may last a day; only the cleanup reads the deadline. A ticket's 15 s and a cookie's 30 days may pass at
any moment.

*History.* `overwritten` records that an insert replaced an entry that had come into being
since the look-up: two first `Subscribe` calls of one PC at once. The slot of the replaced entry is gone
without a word, so the two properties on phones are stated for behaviours without it.

### UploadStore, QuotaAccount, UploadLifecycle

Files of several pairings, each with the handler of its upload, and the PC as the environment.
`pc[f]` is where the handler of `f` is; `mode[f]` is its `UploadDispatchMode`:

    HttpStreaming  permit -> acquire -> announce -> create -> receive -> commit -> finish -> stored
    Streaming                           announce -> create -> receive -> commit -> finish -> stored
    Relay                                           create -> receive -> commit -> meta -> notify
                                                         -> push -> mark | unsent -> stored
    any failure    -> rollback | discard -> failed;  dropped connection -> dropped;  restart -> lost

*Three pieces of state that change apart.* The code takes an entry out of the concurrent map,
then gives its quota back under the mutex, then spawns the deletion of the file. The model has
the three steps: `RemoveEntry` (the entry becomes a record in `owed`), `PayDebt`, `DeleteFile`.
Any other thread may come between them. `Release` and `CorrectedBytes` keep the saturating
subtractions of the code, which would hide an error, and the properties say that none is hidden.

*The account as it is meant.* `QuotaAccount` knows files and limits, but no handlers, debts, disk or saturation: `Admit` is
`begin_upload`, `Settle` the change to the real size, `GiveBack` the release of one file with just the bytes it holds, `CountAfresh` the
baseline of a restart, which is bound by no limit. `KeepsAccount` maps `reserved` and `pendingBytes` to themselves, what a pending file holds to
`Held` (the size of its entry or, once that is gone, the amount of its release), and what has ever been admitted to `Started`, the files whose upload has begun.

*Permits.* A semaphore is named by the upload that created it; it lives on in the hands of its
users after `cleanup_pairing` has taken it out of the map. `try_acquire_stream_permit` finds it under the
mutex (`FindSemaphore`) and takes a permit after the mutex is released (`AcquirePermit`).

*Granularity.* `mark_streaming_done`, `finalize_stream_success` and `save_file_from_field` change entry and account
while they hold both locks: one step. The order in which they take the locks is the question of
`LockOrder`. `cleanup_pairing` is one step for flag and snapshot, two per
file (look, remove), one for the semaphore; `cleanup_expired` is one step for look-up, one for the
deletion, one for the entry.

*Environment.* Whether the PC has a stream, whether a send succeeds, whether the disk or the phone
fails, how large the body is up to the limit: all free. A request refused by the quota changes nothing and is no
step. `DropHandler` is possible where the handler awaits, and only there: a dropped future runs no rollback.
The frames of a transfer are abstracted to whether the PC gets the whole file, and the PC acknowledges only
files it has whole: that is what `TransferChannel` is about.

*Restart.* `Restart` may come at any point, keeps only the directory, and is `rebuild_baseline`: the files
found belong to `Uuid::nil()`, with a download token nobody knows. The pairings that the database brings back
are in `PersistentRelay`, not in this model, nor in `PairingRelay`, which starts without an entry.

### Transfer, TransferChannel

One file in one of the two streaming modes, from the moment its channel exists. The modes share the model because they share
their shape; where they differ an action says so: a `StreamPipe` leaves the map with its abort or its commit and its last
sender is handed out, a `StreamingState` stays until the guard of the download, a rollback, the ACK or the sweep removes it.

    handler   announce -> open -> receive <-> send -> (commit) -> finish -> stored
              send fails: HTTP -> receive, gRPC -> abort -> receive, both with stopped = TRUE
              any error -> [give up] -> roll back -> failed;  dropped connection -> dropped
    job       waiting -> told -> reading -> checked -> saved -> acked
                         told -> late -> fetch -> checked;  else refused (turned down) or failed (its own fault)

*Data.* The n-th chunk is the number n and the hash of a file of n chunks is n, so a hash fits exactly one sequence of chunks.
By HTTP the hash is the last 32 bytes of the body and there is no other end mark: a body that ends early ends with the wrong 32
bytes, which is `ReceiveNothingMore`; that a proper prefix of a file ends with its own hash is left out. `checked` means
that the comparison succeeded. `status` combines `Notified` and `StoredUnnotified`, which a download treats alike.

*Time.* A send that waits finds room or gives up (`SendChunk`, `StopSending`; `SendTerminal`), a reader of an HTTP body gives up on
reqwest's default timeout (`TimeOutRead`), one of a gRPC stream never does. The ten attempts to attach within 500 ms are one step and a
decision after it: a pipe that is missing is never created later.

*Granularity.* A send clones the sender and then waits; the sender it holds lets the last frame through after the map has lost its
own (`SendEnd`, second disjunct: the sweep came before the clone). `EndDownload` is the end of the server's side,
which may lag behind the PC's; its third disjunct is a stream dropped before its first poll, when there is no guard.
The buffers of HTTP/2 and TCP only make the channel longer. Errors are free, as in `UploadLifecycle`. A job asks once, so
`AlreadyAttached` cannot occur, and the fall-back to RELAY without a gRPC channel is left out: it needs the channel to be lost between event
and job, and asks for a file that is still `Uploading`.

### PersistentRelay

EXTENDS `PairingRelay` and conjoins to its actions what they do to the database. A handler that saves puts a `Task` into `queue`
with `try_send`, which drops it when the channel is full (`Enqueue`; `EnqueueSome` keeps some of several, in their order; `lost` remembers it); `WriteTask` is one turn of the writer thread, with
the SQL statement's effect on the pairing's `row` and on its browser sessions (`table`), the foreign key (a session without its pairing
is refused) and the cascade included. A copy of the secret is `current`, `stale`, or that of a Subscribe call that has saved the entry it is
about to insert (`drawn`): `upsert_pairing` saves first, so the order of two such calls in the queue and in the map may differ. The actions of `PairingRelay` are
conjoined unchanged, with one replacement: the removal of a lapsed entry (`DropEntry`) and its DeletePairing task (`DeleteRow`) are two steps here, because the tasks follow
after the map has been gone through. `Sweep` puts `DeleteExpired` in the queue at the end of the tick of the pairing cleanup (`pairing.rs:262`, every
`token_cleanup_interval_secs`); at most one waits at a time. `Restart` may come at any point; it loses memory and queue and loads what has not expired. Files are not in this model (`UploadLifecycle` has its own restart).
Phones change nothing that is saved, so the runs have no connections.

### ClientConnection

`latest` numbers the connections; each has a thread (`stage`) and a channel of its own (`events`). `HandleEvent`, `NoticeEnd`, `Reconnect` and `ShowResult`
are what a frame of the window does; frames come on request, and each event requests one. `NoticeEnd` tests both that the channel is empty and that its sender
is gone, in this order in the code, because `try_recv` only says Disconnected of an empty channel. A wait is a number of seconds, doubled up to
`MaxInterval`, and `PassTime` is its end. `TriggerRevoke` starts a task that uses the token and the address the client has at the moment; it may
outlive the connection, and what it leaves (`result`) is shown by a later frame. Of an event the model keeps its kind; `marked` says whether
the connection's first frame carried a gRPC token, because only then a heartbeat runs. Texts and files are events without a state change here (`job`).

### PcClipboard, PcFiles, PcDelivery

*Text worker.* Snapshot, write, Ctrl down, V, Ctrl up, the optional key, look, restore: each is one step, so that the user and other workers come between.
A call to the clipboard or keyboard may fail up to `MaxFailures` times and is followed as in the code: a failed press skips the click, a failed click still
releases. `typed` collects what the application in front got: `V` without Ctrl is a letter, the key with Ctrl still down is another key.

*File workers.* `ui.rs` starts several threads that share one receiver behind a mutex. `Download` stands for the three ways, of which only RELAY
tries again; what a streamed transfer yields is the matter of `TransferChannel`. Images are pasted under `paste_lock` (`paster`), `ChooseName` and `RenameFile` happen under `file_save_lock` (`saver`).
All files have the same name, the hard case. A file that finds the queue full is answered as failed by a task of its own (`TellDropped`).

*User.* `Copy` puts something new into the clipboard at any moment. `overtaken` marks that it came between a look and the change that rests on it,
`disturbed` that two hands were at work at once. The delays in the code are taken to be long enough for the application to react.
The user's texts differ from the phone's (`ContentAssumption`): a user who copies the very text being pasted is taken for the worker, and gets the older snapshot back.

### LockOrder

A call is the sequence in which it takes and gives locks, read off the lifetimes of its guards: `RefMut` and `Ref` of a DashMap, the callbacks of `retain`, the
guard of `reservation`. Calls that take one lock at a time can be in no circle and are left out. One shard stands for a map, since two keys may always fall into the same.
The data are irrelevant here, so the module shares no state with the others.

## 3. What is checked

States are distinct states with two workers; every run says `CHECK_DEADLOCK FALSE` because tokens, connections
and files are used once, so a behaviour that has used them all really stops.

### Runs that hold

| Run | Instance | Properties | States |
|---|---|---|---|
| `relay_phones` | 1 stream, 2 connections, 2 browsers, a revocation, 2 permits | `NoOrphanedPhone`, `OnePhoneAtATime`, `SlotHolderAlive` | 2 043 179 |
| `relay_live` | 1 stream, 1 connection, 2 browsers, a revocation, PC and phone may stop reading, fair | `OrderedPhoneLeaves`, `RevokedPhoneLeaves`, `AbandonedPairingIsReclaimed` | 183 083 |
| `upload_quota` | 2 files, 1 permit, byte limit for one reservation, one file too old | `CountsAgree`, `QuotaFollowsEntries`, `BytesAgree`, `StreamsWithinLimit`, `DiskWithinLimit` | 900 640 |
| `upload_files` | 1 file, a dropped connection, a restart, fair | `StoredIsOnDisk`, `NoOrphanOnDisk`, `KeepsAccount`, `ToldFilesAreKept`, `StoredFilesLeave` | 13 757 |
| `transfer` | 1 file of up to 6 chunks, channel of 4, both modes, fair | `OnlyWholeCopies`, `NothingLostInHandOver`, `GoodTransferArrives`, `SlowPcNeverBlocksPhone`, `DownloadEnds`, `ChannelIsClosed`, `KeepsPromise` | 3 930 |
| `persist_rows` | 2 streams, 1 browser, queue of 3 | `RowFollowsEntry`, `RelayTypeOK`, `OfflineWhenGone` | 3 635 772 |
| `persist` | 1 stream, 2 browsers, queue of 3, a restart, fair | `OneSessionOnDisk`, `RestartKeepsEpoch`, `LeftoverIsSwept` | 551 295 |
| `connection` | 3 connections, 2 revocations, fair | `OldConnectionsAreOver`, `ScreenIsCurrent`, `RevokeMatches`, `WaitsGrow`, `RevokeEnds`, `ComesBack` | 111 462 |
| `pc_paste` | 1 text, 2 images, 2 workers, the user copies, a failing call | `PastesAreOwn`, `ClipboardComesBack` | 4 082 833 |
| `pc_files` | 2 files of one name, one streamed, 2 texts, 2 workers, fair | `AckedFilesAreKept`, `FolderIsKept`, `JobsAreHandled` | 89 694 |

- `OfflineWhenGone`: two destructors may each look for a successor while the other is still there; whatever the
  overlap, the last one takes the pairing offline. Only then can its TTL count.
- `NoOrphanedPhone`: a connection that serves a phone is in the slot or has a Close order waiting. Bootstrap,
  replacement, revocation, removal of the entry and the handler's own end all change one or the other.
- `OnePhoneAtATime`: two connections that serve without a Close order under way are the same one. Both properties except behaviours in which an insert
  has overwritten an entry; see *History* above and `OnePhoneButForOneRace` below.
- `SlotHolderAlive`: the slot never names a handler that has given it back or returned; such a slot would block the removal for ever.
- `OrderedPhoneLeaves`, `RevokedPhoneLeaves`: a phone told to close, or whose epoch is over, is not served for ever, although
  texts may keep its loop busy and the PC may pause. There is one exception, which the formulas name: a handler that is `Stuck` for ever in a send to a PC or
  a phone that stays connected and never reads again. Such a handler keeps its permit, and an order to close is never looked at. The phone that sends texts as
  fast as it can is the one that fills the channel. `AbandonedPairingIsReclaimed`: a pairing that all have left does not stay.
- `CountsAgree`, `QuotaFollowsEntries`, `BytesAgree`: per-pairing count, global count and global bytes are exactly what
  the entries and the releases under way hold, whichever of rollback, ACK, failed push, clean-up and sweep wins a race.
- `KeepsAccount`: step by step the store does what `QuotaAccount` says, or nothing to the account; no interleaving admits a file twice, gives one back twice or
  with another file's bytes, or settles one that has been given back.
- `DiskWithinLimit`: reservations at full size and later corrections never let the files exceed the limit.
- `StreamsWithinLimit`: no more streams per pairing than permits, although the semaphore leaves the map early and is
  acquired without the lock: a closed pairing never gets a second semaphore.
- `StoredIsOnDisk`, `NoOrphanOnDisk`: index and directory agree but for the moments in which some thread is about to
  make them agree. `ToldFilesAreKept`: a clean-up that looked at a file before its notification began never takes it away while it is
  `Notifying` or `Notified`. A file announced for streaming is still `Uploading`; if its pairing closes it becomes `StoredUnnotified`, and the clean-up may take it.
- `StoredFilesLeave`: every stored file is gone in the end, with its quota, also across a restart.
- `OnlyWholeCopies`: a copy that passed the PC's check is the whole file, and the server has committed that file; timeouts, aborts, dropped
  handlers and bodies that just end never yield a torn one.
- `NothingLostInHandOver`: the server gives a file away only when the PC has saved it or its retention time is over.
- `GoodTransferArrives`: the PC turns a stored upload down only if sending was stopped, a last frame found no room in time, or the sweep was faster:
  attaching late, between commit and last frame, is never a reason.
- `SlowPcNeverBlocksPhone`, `DownloadEnds`, `ChannelIsClosed`: a PC that does not read does not hold the phone up; a download ends even when
  the frame that says so was lost; no channel stays in its map. The exceptions, a handler dropped by the phone, are in the formulas.
- `KeepsPromise`: all this implements `Transfer`, in which outcomes are final and a copy is kept only of a stored upload.
- `RowFollowsEntry`: five handlers save the pairing, three of them under its lock and one before it exists; what the writer writes last is
  still the entry's epoch and secret. `OneSessionOnDisk`: nor does a crash between two writes leave a superseded phone next to its successor.
- `RestartKeepsEpoch`: a restart with the writer at rest admits nobody who was revoked and turns away nobody whose session is stored; what one with
  tasks still in the queue brings back is older, and no property denies that.
  `LeftoverIsSwept`: a row whose deletion was dropped or lost in a crash still goes.
- `OldConnectionsAreOver`: two event streams of a PC never overlap, which would let the server's destructors race. `ScreenIsCurrent`,
  `RevokeMatches`: what the client shows and uses belongs to one connection, also when the first frame is not the token (`grpc.rs:184`).
- `WaitsGrow`, `ComesBack`: the client always tries again, but not without pause. `RevokeEnds`: its button does not stay disabled.
- `PastesAreOwn`: with nobody else at the keyboard a paste types its own text or image, with Ctrl held down for V only.
  `ClipboardComesBack`: the user's text is back after a paste, whatever was copied during it.
- `FolderIsKept`, `AckedFilesAreKept`: two workers never choose one name, and a file is acknowledged when it is in the folder (or pasted).
  `JobsAreHandled`: queues of workers that share locks drain, and a file dropped by a full queue is answered (a text is just dropped).

### Runs that find a disagreement

Each checks one promise of the repository and TLC shows a behaviour of the code that
breaks it.

| Run | Promise | What happens |
|---|---|---|
| `relay_online` | test at `grpc.rs:793`: disconnect keeps the pairing online when a newer session exists | The destructor decides that there is no successor, a new `Subscribe` upserts the entry and inserts its Session, then the destructor sets `online = false`. The live stream stays with an offline pairing, which the cleanup may remove. |
| `locks` | `upload_store.rs:267`: the store is thread-safe | `mark_streaming_done` takes `reservation` while it holds the entry of the file, `begin_upload` and others take them the other way round; two worker threads wait for each other for ever. The same circle exists between `authenticate_browser_session` and `handle_bootstrap`. |

### Promises the code does not keep, without a run

The following are definitions of the modules; no configuration names them. Named as an INVARIANT in the configuration of
the last column, each gives TLC's counterexample.

| Definition | Promise | What happens | Configuration |
|---|---|---|---|
| `FirstFrameIsOwnToken` | `proto/relay.proto:27`, `grpc.rs:134`: the first frame is `SessionToken` | The Session is stored before its first event is sent; another handler's event enters the channel first. The client takes its gRPC token from the first frame only (`ScreenIsCurrent` shows what it makes of that). | `relay_online` |
| `RevokeDisconnects` | `README.md:81`: a revocation disconnects existing connections at once | An upgrade that compared epochs before the revocation takes the slot after it, and no Close order is sent. `RevokedPhoneLeaves` shows that it is refused at its next frame. | `relay_online` |
| `QrCodeAdmits` | `pairing.rs:49`: the secret in the QR code admits the phone | Two changes of the secret send their URLs after the lock, in the opposite order; the QR code shown last is stale. | `relay_online` |
| `FailedUploadsLeave` | `upload_store.rs:133`: a failed upload is removed from `Uploading` with its counts | The 429 answer for want of a permit comes after `begin_upload` and without a rollback. The entry never leaves, since the sweep goes by files. | `upload_quota` |
| `RelayedFilesWait` | `README.md:65`: with the PC offline a file is stored and downloaded later | Without a stream to announce it on, `mark_notify_failed` removes the file, and the phone is told that it is stored. | `upload_files` |
| `OnlinePairingIsStored` | `server.example.toml:79`: pairings survive a restart | `DeleteExpired` goes by the stored deadline, which an online pairing may have passed. | `persist` |
| `AcceptedSessionIsStored` | the same of browser sessions | While the row is gone, a bootstrap's browser session is refused by the foreign key: it is saved before the pairing is saved again. | `persist` |
| `PastedImagesAreSaved` | `client.example.toml:45`: a pasted image is also saved | The server is told that an image is received when it was pasted, saved or not. | `pc_paste` |

Smaller ones, with no run of their own. A phone whose upgrade has compared the epochs when another browser bootstraps loses its cookie and takes the slot all the same,
later than its successor, who is told that it was replaced. No check refuses it then: the look-up of the deleted browser session at `web.rs:2198` ends `validate_pairing_ws`
without a close code. The model has this behaviour. It breaks none of the properties, because the late phone holds the slot and is the only one served without a Close order; that it should be
refused is promised nowhere. The comment at `web.rs:1236` says that a file whose stream was aborted is
`StoredUnnotified`, whereas `finalize_stream_success` makes it `Notified` whenever the pairing is open. In mode STREAMING
a dropped upload handler leaves the sender of its `StreamingState` in the map, so the PC's `stream.message()`, which has no timeout, waits until the
server restarts; and after a lost End frame it waits until the sweep. `download_via_http_stream` writes to the system's
temporary directory and `move_tmp_to_dest` renames from there, which fails across file systems; the server then keeps the file. The text worker takes no `paste_lock`, so a text and an image may be
pasted at once (`disturbed`); the look at the clipboard and its restoring are two calls (`overtaken`). Failing heartbeats never
make the client reconnect; `reconnect_max_interval_secs` below 2 is possible and the waits have no jitter. The client hands its gRPC channel on after
the first event, so a file announced there comes by RELAY instead of STREAMING.

### Bounds and why they are enough

- *Two streams.* Every hazard of the destructor is about one that goes and one that comes or goes. Who is the
  successor of three depends on pairwise comparison of ranks only. The theorems hold for any number.
- *Two connections, two browsers.* Replacement involves an old and a new connection, superseding two browsers. `MaxWsConnections` is 2 where
  there are two, so that the permit does not hide the overlap, and 1 elsewhere, so that it runs out. `relay_phones` has both twice and one PC stream:
  what a phone's slot and orders depend on is the entry, which a second stream only brings online or offline. Overlapping streams are in
  `persist_rows`, which has no connections. The proofs cover all at once.
- *`Stalling`.* `relay_live` lets its PC and its phone stop reading at any time. In the other runs nobody stalls: a full buffer only disables steps, so it adds no
  behaviour that an idle handler would not show and takes nothing from the safety properties; those are proved for every `Stalling`.
- *`MaxEpoch` = 1.* One revocation in the life of an entry; epochs are only compared for equality.
- *Two files, body sizes 0 and 1.* The smallest with a reservation larger than the file. With `MaxBytes` = 1 the second is
  admitted only when the first has shrunk to an empty file, which then still holds its permit, or has gone. What needs
  two full files at once (counts, quota, permits) is proved for all sizes.
- *`MaxExpired`, `MaxDrops`, `MaxRestarts`.* How many files grow too old, how many handlers are dropped and how often the server
  restarts. They multiply every state, so no run has all of them with two files: `upload_files` has one of each with one file
  (files do not interact on disk), `upload_quota` a sweep with two.
- *`Capacity` = 4, `MaxChunks` = 6.* The capacity of the code's channels; six chunks fill it while the PC holds some, and leave
  room for what follows. Transfers of different files share no channel. The safety properties are proved for all values.
- *Queue of 3 tasks, one `DeleteExpired` in it, one restart or none.* The code's queue holds 1024. Three let two handlers overlap with the sweep, and a
  fourth task is dropped. `persist_rows` explores two streams without, `persist` one stream with a restart.
- *Three connections, two revocations, `MaxInterval` 3.* One that is over, one that is read, one to come; the second wait meets the limit.
- *Queues of 1 on the PC, two files, `MaxSuffix` 1, one failing call.* The code has 64 places and 9999 numbers; one place is full at once, and the two files of one name
  fill both names when the user does not. `pc_paste` has no numbered names and one attempt, because there only clipboard and keyboard matter.
- *Two threads in `locks`.* Two are enough for a circle.

### Fairness and why the code justifies it

`PairingRelay!FairSpec`: weak fairness of the steps of a handler that has been started (tokio polls a woken task
again; no lock is held across an await for ever), of the notices, of the cleanup task (it ticks every `token_cleanup_interval_secs`) and of time. Strong
fairness of `ObeyClose` and `RefuseMessage`: `select!` chooses at random among the branches that are ready, so an order that waits is taken, and a frame read,
however often the loop does something else in between; and an open page sends a heartbeat every 30 s, while a mute connection idles out after
90 s. Strong fairness of `SendOver`: tokio gives the places of a channel to the senders that wait in their order, so a send that waits gets one if there is
room again and again. There need not be: no fairness makes a PC or a phone read (`StallStream`, `StallPhone`), and none is assumed of
`RefreshPairing`, `DropStream`, tickets, texts, bootstrap or revoke. What a peer that never reads holds up is excepted where a property would need it, as `[]Stuck(c)`,
and not assumed away. `AbandonedPairingIsReclaimed` needs no exception: it is about pairings whose handlers have returned. An HTTP handler may also be
dropped: `AbandonUpgrade`, `DropHandler`, `ExpireTicket`.

`UploadLifecycle!FairSpec`: releases, deletions, clean-up and sweep go on and files age. The upload handlers are not fair: they wait for the phone's body and
send to the PC's event channel, and nobody owes them either. The steps of the PC, new uploads, dropped connections, closing a pairing and restarts are not fair.

`TransferChannel!FairSpec`: the upload handler goes on once it runs (each of its waits, for the body, the channel or the disk, has a
timeout), a download is served and read or fails, and the sweep comes. Not fair: the announcement (the event channel
may be full as long as it likes), that the PC asks for the file, saves it or acknowledges it, and a dropped connection.

`PersistentRelay!FairPersistSpec`: weak fairness of the handlers of streams, of the notices and of the cleanup with its sweep, as in `PairingRelay`, and of the writer thread. Time is strongly fair, because it passes
in any moment of rest. Nothing is assumed of restarts and losses.

`ClientConnection!FairSpec`: connecting, subscribing, the first event and a revocation end by timeouts of 10 s, events and the wait ask for a frame.
Nothing is assumed of a stream that runs, which has no timeout, nor of the user.

`PcDelivery!FairSpec`: the workers are threads, and downloads end by timeouts, except those streamed by gRPC, which have none; `JobsAreHandled` therefore asks for one worker
more than there are such files. Nothing is assumed of the phone and the user.

## 4. What is proved

The proofs are for any finite set of streams (`TokensAssumption`), any connections, browsers and limits in `Nat`;
for any finite set of files (`FilesAssumption`) and any limits; for any bounds of the client's models and
any sets of texts, files, workers and server threads, and any number of restarts (`MaxRestartsAssumption`). The other assumptions say that absent values (`NoToken`,
`NoConn`, `NoBrowser`, `NoFile`, `Nil`, `NoWorker`, ...) are not real ones, that queues have at least one place,
that the phone's texts differ from the user's, and that a server has at least one WebSocket permit. They hold in every run.

`PairingRelay_proofs`
- `TypeCorrect`: one lemma per group of variables; ranks stay in `Nat` because the rank of a stored Session is positive.
- `PhonesAccountedFor`, `SinglePhone` (both except behaviours in which an entry has been overwritten), `SlotNeverDead` rest on `PhoneInv`: `NoOrphanedPhone`, `SlotHolderAlive` and "no entry, empty
  slot". The strengthening is needed because `InsertPairing` and `TakeSlot` must know what the slot of a missing entry is.
- `GoneMeansOffline` rests on `StreamInv`: the Sessions stored are exactly those of streams between insert and drop, and
  while the pairing is online some token *answers* for it (`Answers`): its stream is between the upsert and its own look-up for a
  successor, or it has looked and found none and will take the pairing offline. A destructor that leaves the pairing online has
  found a stored successor, and a stored stream still has its own look-up ahead.
- Three promises that TLC finds broken (section 3) are kept but for one race each. The theorems take the absence of the race as their
  hypothesis and nothing else, so no other interleaving breaks the promise, and a correction of the race alone would do:
  - `OnlineButForOneRace`: `OnlineWhenConnected` holds if no `Subscribe` call has upserted the entry and not yet stored its Session while a destructor that
    found no successor has yet to take the pairing offline (`NoReturnMeanwhile`). `OnlineInv`: a stored stream keeps the entry online, and beside it no
    destructor has found nobody; for this the scan for the newest Session must find one in every finite set that is not empty (`LatestTokenSome`).
  - `OnePhoneButForOneRace`: if two first `Subscribe` calls are never between look-up and insert at once (`FirstCallsApart`), no entry is overwritten, so the two
    properties on phones hold without their exception. The hypothesis is about the look-up, the conclusion about the insert.
  - `RevokeButForOneRace`: `RevokeDisconnects` holds of entries that were not overwritten if the epoch never changes while an upgrade has been accepted and has not taken the slot
    (`EpochStaysForUpgrades`). `EpochInv`: the session of such an upgrade, and of the owner of the slot, is of the entry's epoch as long as it is stored. The epoch changes
    by a revocation and by the removal of the entry, and both empty the slot.

`UploadLifecycle_proofs`
- `UploadTypeCorrect`, then `AccountInvariant`: `AccountInv` adds to the two properties that each release under way is for a file
  without an entry and names the account the file is in, if it is in any (`Debts`), that a running handler's file is in the account of
  its pairing or in none (`Ownership`) and that an unused id has left no trace (`Unused`). Without them a release could go to the wrong
  account, or a file that has just got its entry could lose its reservation to an old release.
  `CountsAlwaysAgree` and `QuotaComesBack` follow.
- `FileInvariant`: `FileInv` says which status and which file on disk go with each stage of the handler (`Stages`), and what the
  clean-up, the deletions and the sweep may have in hand. `OfferedFilesExist`, `NoFileIsForgotten` and the action property
  `ToldFilesStay` follow.
- `BytesInvariant`: `BytesInv` adds to `BytesAgree` that a file has at most one release under way (`OneDebt`), that until it is corrected an entry is charged with the largest
  size an upload may have (`FullSize`), afterwards with what is on disk (`RealSize`), and that without a restart the counter is within the limit (`BytesLimited`); what a
  restart finds on disk is counted whatever the limit. Each step then changes what one file holds, and `FunctionSums` says by how much that changes the sum:
  no saturating subtraction is cut off. `BytesAlwaysAgree` follows, and `DiskStaysWithinLimit`, because a file on disk holds no less than its bytes.
- `AccountImplements`: each step is a step of `QuotaAccount` or a stutter. The start of an upload is `Admit` because `CountsAgree` makes the counters checked by `begin_upload` the
  numbers of files they stand for; `BytesInv` makes a correction `Settle` and a release `GiveBack`, the amount a thread took with it being what the file still
  holds; and only `StartUpload` adds to the files ever admitted (`StartedStays`), among which a restart finds its own (`Unused`).
- `StreamsStayWithinLimit`: each stream holds a permit (`Permitted`) of the only semaphore its pairing has ever had since the
  start (`OneSemaphore`, `InTheMap`), which has at most `MaxStreams` holders (`Limited`).

`TransferChannel_proofs`, for any `Capacity` above 0 and any number of chunks
- `TransferTypeCorrect` with the capacity of the channel, from what a step can do to it (`QueueStep`).
- `TransferInvariant`: `TransferInv` says that the PC's chunks and the channel's are consecutive (`InOrder`) and, while nothing has been stopped,
  complete (`NothingMissing`), with the End frame last (`EndsAreFinal`, `EndInSight`) and an Abort frame only with a reason (`Excused`); the
  rest ties receiver, map and stages together. An End frame whose hash fits then proves the copy whole, and one whose hash does not is excused.
  `CopiesAreWhole`, `HandOverLosesNothing` and `GoodTransfersArrive` follow.
- `TransferImplements`: each step is a step of `Transfer` or a stutter; saving needs `OnlyWholeCopies` so that `Keep` finds the upload stored.

`PersistentRelay_proofs`, for any `Capacity` above 0
- `DatabaseFollows` rests on `RowInv`: what the last save in the queue, or the row if none waits, will leave (`Leaves`) has the entry's epoch and secret; and, because
  `upsert_pairing` saves before it inserts, it has the drawn secret of the only Subscribe call under way while there is no entry yet. An entry that has come into being
  since the look-up of such a call has not lapsed yet, so no deletion comes in between.
- `RestartChangesNoEpoch` takes `RowInv` at rest through `Restart`.
- `OneStoredSession` rests on `SessionInv`: each SaveBrowserSession in the queue stands right behind a task that clears the table, or is the next to be
  written to an empty one (`Prepared`), however far the writer has come.
- `PersistTypesCorrect`, and `PersistImplementsRelay`: each step is a step of `PairingRelay`, a stutter of its variables, or a restart. So whatever is inductive in `PairingRelay`
  and survives a restart holds here: `PhonesAccountedForAcrossRestarts`, `SinglePhoneAcrossRestarts`, `SlotNeverDeadAcrossRestarts`, `GoneMeansOfflineAcrossRestarts`.
  The loaded entry is offline and its slot empty, and every handler has died with the server. The removal in two steps (`DropEntry`, `DeleteRow`) is covered.

`ClientConnection_proofs`
- `ConnectionInv` says what numbers above `latest` are (`NotStarted`), what the frame loop knows of the connection it reads (`KnowsLatest`, `TokenComesFirst`,
  `EarlyIsQuiet`) and that an error event is the last (`ErrorIsLast`, `ErrorStops`). `OldConnectionsEnd`, `RevocationsMatch`, `ScreenShowsLatest` and `ErrorsAreFinal` (the action
  property `ErrorIsFinal`, which no run checks) follow.
- `WaitsAlwaysGrow`: while a wait is planned it is what `Backoff` gives for the number of connections since the last one with a session, and what the client will wait next is the
  entry after it (`WaitFollows`). That the recursive function `Backoff` satisfies its equation for every number is proved first (`BackoffIs`).

`PcDelivery_proofs`
- `SavingInv`: only the holder of `file_save_lock` is about to rename, its name is still free if any is, and an answer is true. The least free name exists by the
  well-foundedness of the natural numbers. `AckedFilesStay` and `NothingReplaced` follow.
- `PasteInv`: at most one image is being pasted; while nobody has interfered, the clipboard holds what the worker at the keyboard has put there and Ctrl is held exactly
  between its press and its release. `PastesAreTheirOwn` follows.
- `RestoreInv`: at each stage of the text worker, how snapshot, clipboard and the user's last copy go together. `ClipboardRestored` follows.

`LockOrder_proofs`, for any number of threads
- `CirclesAreExplained`: `NoCircularWait` does not hold, and this says why, completely. In every circle of waiting threads one is in `mark_streaming_done` and another in
  a call that locks the quota before a file, or one is in `handle_bootstrap` and another in `authenticate_browser_session` or `cleanup_pairings`. `HeldInv` ties what a thread
  holds to how far its call has come (`WhatIsHeld` reads off the calls that can hold a lock and wait for another); from any thread of a circle at most two edges lead
  to one of the pairs. So calls other than `mark_streaming_done` and `handle_bootstrap` never block each other for ever.

`FunctionSums` holds lemmas about sums, which say nothing of qr-paste and serve `BytesInvariant` and `AccountImplements`: the fold of the community modules picks elements in an order
nobody knows, and the sum neither depends on it nor changes by anything but the change of a summand. They are proved by induction on the set, written as: a set of sets that
does not hold all of them lacks a smallest one (`SubsetsByInduction`, from the well-foundedness of strict inclusion).

Only model-checked: the liveness properties of the runs (fairness and ENABLED are beyond the prover), and that the disagreements do occur. Every invariant and
every action property without fairness that a passing run checks is stated by a theorem.

## 5. Mutants

For each property of a passing run a definition that models code has a variant, named in a comment that begins
with "Bug:", which a plausible slip would produce; with it in place TLC finds the property violated. They show that the
property depends on the code.

## 6. Not modelled

- Configuration of server and client, among it `resolve_client_ip`; rate limits, `Origin` checks, formats, logging, the browser page, drawing, tray and
  icon: no concurrent state. `Ping` and the heartbeat task change nothing but a timestamp and a log.
- `sanitize_file_name` and the other conversions of names: pure algorithms on strings, planned below. The models use one name for all files.
- The protocol's message types are generated code.
- A restart in the middle of a transfer: both ends see a broken connection, which `TransferChannel` has as an error at any point.
- Three hazards whose effect the models have and no property denies, because no text of the repository does: a slot that is dropped when an entry is
  overwritten, a late upgrade whose cookie a bootstrap has deleted, and a crash before the writer is through, which restores an older secret, epoch or session.
- What a dropped database task leaves behind, beyond `LeftoverIsSwept`: a full queue may lose a revocation until the next save. The properties
  are stated for behaviours without a loss (`~lost`), and no text of the repository promises more.
- A pairing that expired and comes back under its id cannot upload until a restart, because its id stays in `closed`; a file whose upload handler was dropped keeps its quota until
  then. Both are in the models; the repository promises nothing either way.
- TLS, tonic, axum, DashMap and tokio, SQLite, the operating system's clipboard: trusted to do what their users assume.

## 7. Plan

1. `FileNames`, `ClientIp`: `sanitize_file_name`, `unique_dest_path`, `resolve_client_ip` as functions, checked against reference
   definitions over bounded inputs.
2. An abstract relay (a pairing with at most one PC and one phone) implemented by `PairingRelay`, with a theorem that its steps map
   to steps or stutters.
3. Retries of a RELAY download composed with `UploadLifecycle`, so that the sweep and the ACK race with a second attempt.
