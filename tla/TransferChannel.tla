-------------------------- MODULE TransferChannel --------------------------
(***************************************************************************)
(* One file on its way from the phone through the server to the PC while   *)
(* it is being uploaded: the upload handler, the bounded channel of the    *)
(* file (a StreamingState in mode "Streaming", a StreamPipe in mode        *)
(* "HttpStreaming"), the server side of the PC's download, and the file    *)
(* job of the PC.  The n-th chunk of the body is the number n, and the     *)
(* SHA-256 of a file of n chunks is n: it fits the chunks 1..n in order    *)
(* and nothing else.                                                       *)
(***************************************************************************)
EXTENDS Naturals, Sequences

CONSTANTS
  Capacity,    \* of the channel: 4, or http_stream_pipe_capacity
  MaxChunks    \* bound: chunks of the body

ASSUME CapacityAssumption == Capacity \in Nat \ {0}
ASSUME MaxChunksAssumption == MaxChunks \in Nat

VARIABLES
  mode,        \* UploadDispatchMode
  handler,     \* where the upload handler is
  total,       \* the chunks it has received and written
  stopped,     \* streaming_aborted, stream_aborted
  status,      \* FileMeta.status; without an entry "rolled back" if the
               \* upload has failed, "removed" if the file had been stored
  mapped,      \* the channel is in streaming_states or stream_pipes
  receiver,    \* its Receiver: in the map, attached to a download, dropped
  queue,       \* the frames in the channel
  job,         \* where the file job of the PC is
  got,         \* the chunks in the temporary file of the PC
  unsent,      \* history: a terminal frame found no room in time
  aged         \* history: the sweep has removed the file

handlerVars == <<mode, handler, total, stopped, status>>
channelVars == <<mapped, receiver, queue>>
clientVars == <<job, got>>
historyVars == <<unsent, aged>>
vars == <<handlerVars, channelVars, clientVars, historyVars>>

-----------------------------------------------------------------------------
Frame == [kind : {"Data", "End", "Abort"}, of : Nat]
Data(n) == [kind |-> "Data", of |-> n]
End(n) == [kind |-> "End", of |-> n]
Abort == [kind |-> "Abort", of |-> 0]

Stage == {"announce", "open", "receive", "send", "abort", "give up", "roll back",
          "finish", "stored", "failed", "dropped"}
JobStage == {"waiting", "told", "reading", "late", "fetch", "checked", "saved",
             "acked", "refused", "failed"}

HandlerTypes ==
  /\ mode \in {"Streaming", "HttpStreaming"}
  /\ handler \in Stage
  /\ total \in Nat
  /\ stopped \in BOOLEAN
  /\ status \in {"Uploading", "Notified", "removed", "rolled back"}

ChannelTypes ==
  /\ mapped \in BOOLEAN
  /\ receiver \in {"map", "attached", "gone"}
  /\ queue \in Seq(Frame)
  /\ Len(queue) <= Capacity

ClientTypes ==
  /\ job \in JobStage
  /\ got \in Seq(Nat)

(* Every variable has its type, and the channel never holds more frames    *)
(* than its capacity: each sender waits for room or gives up.              *)
TransferTypeOK ==
  HandlerTypes /\ ChannelTypes /\ ClientTypes /\ unsent \in BOOLEAN /\ aged \in BOOLEAN

(* The quota is reserved, the permit taken and the channel created.        *)
Init ==
  /\ mode \in {"Streaming", "HttpStreaming"}
  /\ handler = "announce"
  /\ total = 0
  /\ stopped = FALSE
  /\ status = "Uploading"
  /\ mapped = TRUE
  /\ receiver = "map"
  /\ queue = <<>>
  /\ job = "waiting"
  /\ got = <<>>
  /\ unsent = FALSE
  /\ aged = FALSE

-----------------------------------------------------------------------------
(* The channel.                                                            *)
Whole(n) == [i \in 1..n |-> i]

Full == Len(queue) = Capacity

(* What send_chunk, send_stream_chunk and send_abort find: without the     *)
(* channel in the map or without a receiver they fail at once.             *)
Connected == mapped /\ receiver # "gone"

(* The channel leaves the map.  A receiver that nobody has attached goes   *)
(* with it, and the frames that only it could have delivered.              *)
Unmap ==
  /\ mapped' = FALSE
  /\ receiver' = IF receiver = "map" THEN "gone" ELSE receiver
  /\ queue' = IF receiver = "map" THEN <<>> ELSE queue

(* abort_stream: try_send, so a full pipe takes no Abort frame.            *)
AbortPipe ==
  IF mapped /\ receiver = "attached" /\ ~Full
    THEN /\ mapped' = FALSE
         /\ queue' = Append(queue, Abort)
         /\ UNCHANGED receiver
    ELSE Unmap

(* recv() waits as long as there is a sender: the one in the map, or the   *)
(* one that finalize_stream_success or send_end has handed out.            *)
SenderAlive == mapped \/ handler = "finish"

-----------------------------------------------------------------------------
(* The upload handler.                                                     *)

(* FileReceived; when the event stream of the PC is closed, all is undone. *)
Announce ==
  /\ handler = "announce"
  /\ \/ /\ handler' = "open"
        /\ job' = "told"
        /\ UNCHANGED channelVars
     \/ /\ handler' = "roll back"
        /\ Unmap
        /\ UNCHANGED job
  /\ UNCHANGED <<mode, total, stopped, status, got, historyVars>>

OpenFile ==
  /\ handler = "open"
  /\ handler' = "receive"
  /\ UNCHANGED <<mode, total, stopped, status, channelVars, clientVars, historyVars>>

(* A chunk is written, and sent on unless the transfer has been stopped.   *)
ReceiveChunk ==
  /\ handler = "receive"
  /\ total < MaxChunks
  /\ total' = total + 1
  /\ handler' = IF stopped THEN "receive" ELSE "send"
  /\ UNCHANGED <<mode, stopped, status, channelVars, clientVars, historyVars>>

(* Bug: room in the channel is not waited for.                             *)
SendChunkAnyway ==
  /\ handler = "send"
  /\ Connected
  /\ queue' = Append(queue, Data(total))
  /\ handler' = "receive"
  /\ UNCHANGED <<mode, total, stopped, status, mapped, receiver, clientVars,
                 historyVars>>

SendChunk ==
  /\ handler = "send"
  /\ Connected
  /\ ~Full
  /\ queue' = Append(queue, Data(total))
  /\ handler' = "receive"
  /\ UNCHANGED <<mode, total, stopped, status, mapped, receiver, clientVars,
                 historyVars>>

(* Bug: a chunk waits for room as long as it takes.                        *)
StopSendingIfGone ==
  /\ handler = "send"
  /\ ~Connected
  /\ IF mode = "HttpStreaming"
       THEN AbortPipe /\ stopped' = TRUE /\ handler' = "receive"
       ELSE handler' = "abort" /\ UNCHANGED <<stopped, channelVars>>
  /\ UNCHANGED <<mode, total, status, clientVars, historyVars>>

(* No room in time, or nobody to receive it: the upload goes on alone.     *)
StopSending ==
  /\ handler = "send"
  /\ ~Connected \/ Full
  /\ IF mode = "HttpStreaming"
       THEN AbortPipe /\ stopped' = TRUE /\ handler' = "receive"
       ELSE handler' = "abort" /\ UNCHANGED <<stopped, channelVars>>
  /\ UNCHANGED <<mode, total, status, clientVars, historyVars>>

(* A terminal frame is sent, or finds no room in time, or no receiver.     *)
SendTerminal(frame, reachable) ==
  IF reachable /\ ~Full
    THEN queue' = Append(queue, frame) /\ UNCHANGED unsent
    ELSE unsent' = (unsent \/ reachable) /\ UNCHANGED queue

SendAbort ==
  /\ \/ /\ handler = "abort"
        /\ handler' = "receive"
        /\ stopped' = TRUE
     \/ /\ handler = "give up"
        /\ handler' = "roll back"
        /\ UNCHANGED stopped
  /\ SendTerminal(Abort, Connected)
  /\ UNCHANGED <<mode, total, status, mapped, receiver, clientVars, aged>>

(* Bug: what fails after the file has been stored is rolled back as well.  *)
FailUploadLate ==
  /\ handler \in {"open", "receive", "finish"}
  /\ IF mode = "Streaming" /\ ~stopped
       THEN handler' = "give up" /\ UNCHANGED channelVars
       ELSE /\ handler' = "roll back"
            /\ IF mode = "HttpStreaming" /\ ~stopped
                 THEN AbortPipe
                 ELSE UNCHANGED channelVars
  /\ UNCHANGED <<mode, total, stopped, status, clientVars, historyVars>>

(* Timeout, read error, oversized body, disk error: abort, then roll back. *)
FailUpload ==
  /\ handler \in {"open", "receive"}
  /\ IF mode = "Streaming" /\ ~stopped
       THEN handler' = "give up" /\ UNCHANGED channelVars
       ELSE /\ handler' = "roll back"
            /\ IF mode = "HttpStreaming" /\ ~stopped
                 THEN AbortPipe
                 ELSE UNCHANGED channelVars
  /\ UNCHANGED <<mode, total, stopped, status, clientVars, historyVars>>

(* rollback_upload takes a StreamingState along, not a StreamPipe.         *)
RollBack ==
  /\ handler = "roll back"
  /\ handler' = "failed"
  /\ status' = "rolled back"
  /\ IF mode = "Streaming" THEN Unmap ELSE UNCHANGED channelVars
  /\ UNCHANGED <<mode, total, stopped, clientVars, historyVars>>

(* Bug: a StreamingState is taken down before its End frame is sent.       *)
CommitUploadClosing ==
  /\ handler = "receive"
  /\ status' = "Notified"
  /\ Unmap
  /\ handler' = IF mapped /\ ~stopped THEN "finish" ELSE "stored"
  /\ UNCHANGED <<mode, total, stopped, clientVars, historyVars>>

(* mark_streaming_done leaves the channel in the map; the pipe is taken    *)
(* out by finalize_stream_success, which hands its sender out.             *)
CommitUpload ==
  /\ handler = "receive"
  /\ status' = "Notified"
  /\ IF mode = "Streaming" THEN UNCHANGED channelVars ELSE Unmap
  /\ handler' = IF mapped /\ ~stopped THEN "finish" ELSE "stored"
  /\ UNCHANGED <<mode, total, stopped, clientVars, historyVars>>

(* The sender is the one finalize_stream_success returned, or a clone; a   *)
(* StreamingState swept away before it was cloned leaves none.             *)
SendEnd ==
  /\ handler = "finish"
  /\ \/ SendTerminal(End(total), receiver # "gone")
     \/ mode = "Streaming" /\ ~mapped /\ UNCHANGED <<queue, unsent>>
  /\ handler' = "stored"
  /\ UNCHANGED <<mode, total, stopped, status, mapped, receiver, clientVars, aged>>

(* The phone's connection goes while the handler awaits something.         *)
DropHandler ==
  /\ handler \in {"announce", "open", "receive", "send", "abort", "give up", "finish"}
  /\ handler' = "dropped"
  /\ UNCHANGED <<mode, total, stopped, status, channelVars, clientVars, historyVars>>

-----------------------------------------------------------------------------
(* The download: the file job of the PC and the request it makes.          *)

Indexed == status \in {"Uploading", "Notified"}

(* stream_file, handle_stream_download.  A job asks once, so it never      *)
(* finds its own receiver attached.                                        *)
AskForStream ==
  /\ job = "told"
  /\ IF Indexed /\ mapped
       THEN /\ receiver = "map"
            /\ receiver' = "attached"
            /\ job' = "reading"
       ELSE /\ job' = IF mode = "HttpStreaming" /\ Indexed THEN "late" ELSE "refused"
            /\ UNCHANGED receiver
  /\ UNCHANGED <<handlerVars, mapped, queue, got, historyVars>>

(* After ten attempts in 500 ms the status decides between 302 and 404.    *)
ResolveLateAttach ==
  /\ job = "late"
  /\ job' = IF status = "Notified" THEN "fetch" ELSE "refused"
  /\ UNCHANGED <<handlerVars, channelVars, got, historyVars>>

(* The redirected download, checked against X-File-Sha256.                 *)
FetchFile ==
  /\ job = "fetch"
  /\ IF status = "Notified"
       THEN job' = "checked" /\ got' = Whole(total)
       ELSE job' = "refused" /\ UNCHANGED got
  /\ UNCHANGED <<handlerVars, channelVars, historyVars>>

ReceiveData ==
  /\ job = "reading"
  /\ queue # <<>>
  /\ Head(queue).kind = "Data"
  /\ got' = Append(got, Head(queue).of)
  /\ queue' = Tail(queue)
  /\ UNCHANGED <<handlerVars, mapped, receiver, job, historyVars>>

(* The hash comes with the last gRPC chunk or as the end of the body.      *)
ReceiveEnd ==
  /\ job = "reading"
  /\ queue # <<>>
  /\ Head(queue).kind = "End"
  /\ job' = IF got = Whole(Head(queue).of) THEN "checked" ELSE "refused"
  /\ queue' = Tail(queue)
  /\ UNCHANGED <<handlerVars, mapped, receiver, got, historyVars>>

(* Bug: a body that ends is taken for the whole file.                      *)
ReceiveNothingMoreTrusting ==
  /\ job = "reading"
  /\ IF queue = <<>> THEN ~SenderAlive ELSE Head(queue).kind = "Abort"
  /\ job' = IF mode = "HttpStreaming" THEN "checked" ELSE "refused"
  /\ UNCHANGED <<handlerVars, channelVars, got, historyVars>>

(* An Abort frame or the end of the channel.  By HTTP the body just ends,  *)
(* and its last 32 bytes are not the hash of the others.                   *)
ReceiveNothingMore ==
  /\ job = "reading"
  /\ IF queue = <<>> THEN ~SenderAlive ELSE Head(queue).kind = "Abort"
  /\ job' = "refused"
  /\ UNCHANGED <<handlerVars, channelVars, got, historyVars>>

(* A read of the HTTP body does not wait for ever; one of gRPC does.       *)
TimeOutRead ==
  /\ job = "reading"
  /\ mode = "HttpStreaming"
  /\ queue = <<>>
  /\ job' = "failed"
  /\ UNCHANGED <<handlerVars, channelVars, got, historyVars>>

(* Connection or disk of the PC, or its queue of jobs is full.             *)
FailJob ==
  /\ job \in {"told", "reading", "late", "fetch", "checked"}
  /\ job' = "failed"
  /\ UNCHANGED <<handlerVars, channelVars, got, historyVars>>

(* The server is done with the download or sees that the PC has gone.  The *)
(* StreamingStateGuard takes its channel out of the map; it does not exist *)
(* before the first poll of the stream.                                    *)
EndDownload ==
  /\ receiver = "attached"
  /\ job # "reading"
  /\ receiver' = "gone"
  /\ queue' = <<>>
  /\ \/ mode = "Streaming" /\ mapped' = FALSE
     \/ mode = "HttpStreaming" /\ UNCHANGED mapped
     \/ job = "failed" /\ got = <<>> /\ UNCHANGED mapped
  /\ UNCHANGED <<handlerVars, clientVars, historyVars>>

(* persist_tmp_locked: the file gets its final name.                       *)
SaveFile ==
  /\ job = "checked"
  /\ job' = "saved"
  /\ UNCHANGED <<handlerVars, channelVars, got, historyVars>>

(* Bug: acknowledged when it has been received, before it is saved.        *)
AcknowledgeEarly ==
  /\ job \in {"checked", "saved"}
  /\ job' = IF job = "saved" THEN "acked" ELSE job
  /\ status' = IF Indexed THEN "removed" ELSE status
  /\ IF mode = "Streaming" THEN Unmap ELSE UNCHANGED channelVars
  /\ UNCHANGED <<mode, handler, total, stopped, got, historyVars>>

(* send_ack and remove_file.                                               *)
Acknowledge ==
  /\ job = "saved"
  /\ job' = "acked"
  /\ status' = IF Indexed THEN "removed" ELSE status
  /\ IF mode = "Streaming" /\ Indexed THEN Unmap ELSE UNCHANGED channelVars
  /\ UNCHANGED <<mode, handler, total, stopped, got, historyVars>>

(* Bug: the sweep leaves the StreamingState behind.                        *)
SweepFileOnly ==
  /\ status = "Notified"
  /\ status' = "removed"
  /\ aged' = TRUE
  /\ UNCHANGED <<mode, handler, total, stopped, channelVars, clientVars, unsent>>

(* cleanup_expired, when the retention time is over.                       *)
Sweep ==
  /\ status = "Notified"
  /\ status' = "removed"
  /\ aged' = TRUE
  /\ IF mode = "Streaming" THEN Unmap ELSE UNCHANGED channelVars
  /\ UNCHANGED <<mode, handler, total, stopped, clientVars, unsent>>

-----------------------------------------------------------------------------
Upload ==
  \/ OpenFile \/ ReceiveChunk \/ SendChunk \/ StopSending \/ SendAbort
  \/ FailUpload \/ RollBack \/ CommitUpload \/ SendEnd

Download ==
  \/ ResolveLateAttach \/ FetchFile \/ ReceiveData \/ ReceiveEnd
  \/ ReceiveNothingMore \/ TimeOutRead \/ EndDownload

Next ==
  \/ Announce \/ Upload \/ DropHandler
  \/ AskForStream \/ Download \/ FailJob \/ SaveFile \/ Acknowledge
  \/ Sweep

Spec == Init /\ [][Next]_vars

(* Handlers go on, every wait of theirs has a timeout, a running download  *)
(* is polled, and time passes.  That the PC takes the event off its stream *)
(* or ever asks for the file is not assumed.                               *)
FairSpec == Spec /\ WF_vars(Upload) /\ WF_vars(Download) /\ WF_vars(Sweep)

-----------------------------------------------------------------------------
(* A copy that has passed the check of the PC is the whole file and the    *)
(* server has stored that file: no timeout, abort or dropped handler, and  *)
(* no HTTP body that merely ends, makes file_handler.rs keep a torn copy.  *)
OnlyWholeCopies ==
  job \in {"checked", "saved", "acked"} =>
    got = Whole(total) /\ status \in {"Notified", "removed"}

(* remove_file runs only for a file that the PC has saved: until then or   *)
(* until the retention time is over the server can still serve it.         *)
NothingLostInHandOver ==
  status = "removed" => aged \/ job \in {"saved", "acked"}

(* When the server stopped nothing and its End frame found room, the PC    *)
(* does not turn the transfer down, however late it attached: the frames   *)
(* wait in the channel, or the late attach is redirected to the file.      *)
GoodTransferArrives ==
  job = "refused" /\ handler = "stored" => stopped \/ unsent \/ aged

(* A PC that does not read, or never asks, does not keep the phone from    *)
(* finishing its upload.                                                   *)
SlowPcNeverBlocksPhone ==
  (handler \in {"send", "abort", "give up", "finish"}) ~>
    (handler \in {"receive", "stored", "failed", "dropped"})

(* A download that has begun comes to an end, even when the frame that     *)
(* says so was lost in a full channel; in mode "Streaming" only if the     *)
(* handler was not dropped, for then nobody closes the channel.            *)
DownloadEnds ==
  (job \in {"reading", "late", "fetch"}) ~>
    \/ job \notin {"reading", "late", "fetch"}
    \/ mode = "Streaming" /\ handler = "dropped"

(* The channel of an announced file does not stay in the map, whichever of *)
(* finalize, abort, rollback, guard and sweep has to take it out.          *)
ChannelIsClosed ==
  (mapped /\ handler # "announce") ~> (~mapped \/ handler = "dropped")

UploadOutcome ==
  CASE status = "Uploading" -> "open"
    [] status = "rolled back" -> "failed"
    [] OTHER -> "stored"

CopyOutcome ==
  CASE job \in {"refused", "failed"} -> "given up"
    [] job \in {"saved", "acked"} -> IF got = Whole(total) THEN "kept" ELSE "torn"
    [] OTHER -> "none"

Promise == INSTANCE Transfer WITH upload <- UploadOutcome, copy <- CopyOutcome

(* web.rs, grpc.rs and file_handler.rs together implement Transfer: one    *)
(* outcome for the upload, one for the copy, and no torn copy is kept.     *)
KeepsPromise == Promise!Spec
=============================================================================
