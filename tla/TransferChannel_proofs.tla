----------------------- MODULE TransferChannel_proofs -----------------------
(***************************************************************************)
(* Proofs about TransferChannel, for every capacity of the channel and     *)
(* every length of the body.                                               *)
(***************************************************************************)
EXTENDS TransferChannel, TLAPS

-----------------------------------------------------------------------------
(* The invariant.                                                          *)

(* The index follows the handler.                                          *)
StatusFits ==
  /\ handler \in {"announce", "open", "receive", "send", "abort", "give up", "roll back"} =>
       status = "Uploading"
  /\ handler \in {"finish", "stored"} => status \in {"Notified", "removed"}
  /\ handler = "failed" => status = "rolled back"
  /\ handler = "dropped" => status # "rolled back"

(* An End frame is the last one, and sent when the upload is stored.       *)
EndsAreFinal ==
  \A i \in 1..Len(queue) :
    queue[i].kind = "End" =>
      queue[i].of = total /\ handler = "stored" /\ i = Len(queue)

(* Why a transfer may be turned down.                                      *)
Excused == stopped \/ unsent \/ aged \/ handler \in {"roll back", "failed", "dropped"}

AbortsAreExcused == \A i \in 1..Len(queue) : queue[i].kind = "Abort" => Excused

(* What the PC has and what is in the channel are the chunks in order ...  *)
InOrder ==
  /\ \A i \in 1..Len(got) : got[i] = i
  /\ \A i \in 1..Len(queue) :
       queue[i].kind = "Data" => queue[i].of = Len(got) + i

(* ... and, as long as nothing has been stopped, all of them.              *)
Sent == IF handler = "send" THEN total - 1 ELSE total

NothingMissing ==
  /\ receiver # "gone"
  /\ handler \in {"announce", "open", "receive", "send", "finish"}
  /\ ~stopped
  => Len(got) + Len(queue) = Sent

(* The End frame then follows them.                                        *)
EndInSight ==
  /\ receiver = "map" \/ job = "reading"
  /\ handler = "stored"
  /\ ~Excused
  => /\ Len(queue) > 0
     /\ queue[Len(queue)] = End(total)
     /\ Len(got) + Len(queue) = total + 1

(* Who has the receiver.                                                   *)
ReceiverFits ==
  /\ receiver = "map" => mapped /\ job \in {"waiting", "told", "failed"}
  /\ job = "reading" => receiver = "attached"
  /\ receiver = "attached" => job \notin {"waiting", "told", "late", "fetch"}
  /\ handler = "announce" => job = "waiting" /\ receiver = "map"
  /\ receiver = "gone" => queue = <<>>
  /\ receiver = "map" \/ job \in {"waiting", "told", "late", "fetch"} => got = <<>>

(* When the channel is in the map, and why it is not.                      *)
MappedFits ==
  /\ mode = "HttpStreaming" /\ (stopped \/ status # "Uploading" \/ handler = "roll back")
       => ~mapped
  /\ status \in {"removed", "rolled back"} => ~mapped
  /\ job \in {"late", "fetch"} => ~mapped
  /\ ~mapped /\ job \in {"waiting", "told", "reading", "late", "fetch"} =>
       Excused \/ (mode = "HttpStreaming" /\ handler \in {"finish", "stored"})
  /\ handler \in {"abort", "give up"} => mode = "Streaming"
  /\ handler \in {"send", "finish"} => ~stopped

JobFits ==
  /\ job = "fetch" => status \in {"Notified", "removed"}
  /\ job = "refused" => Excused

TransferInv ==
  /\ TransferTypeOK
  /\ StatusFits
  /\ EndsAreFinal
  /\ OnlyWholeCopies
  /\ NothingLostInHandOver
  /\ AbortsAreExcused
  /\ InOrder
  /\ NothingMissing
  /\ EndInSight
  /\ ReceiverFits
  /\ MappedFits
  /\ JobFits

-----------------------------------------------------------------------------
(* Type correctness.                                                       *)

LEMMA FramesTyped == /\ \A n \in Nat : Data(n) \in Frame /\ End(n) \in Frame
                     /\ Abort \in Frame
  BY DEF Data, End, Abort, Frame

LEMMA WholeTyped == ASSUME NEW n \in Nat
                    PROVE  /\ Whole(n) \in Seq(Nat)
                           /\ Len(Whole(n)) = n
                           /\ \A i \in 1..n : Whole(n)[i] = i
  <1>1. Whole(n) \in [1..n -> Nat]
    BY DEF Whole
  <1>2. \A i \in 1..n : Whole(n)[i] = i
    BY DEF Whole
  <1>3. QED
    BY <1>1, <1>2

LEMMA AppendFrame == ASSUME NEW q \in Seq(Frame), NEW f \in Frame
                     PROVE  /\ Append(q, f) \in Seq(Frame)
                            /\ Len(Append(q, f)) = Len(q) + 1
                            /\ \A i \in 1..Len(q) : Append(q, f)[i] = q[i]
                            /\ Append(q, f)[Len(q) + 1] = f
                            /\ Append(q, f) # <<>>
  OBVIOUS

LEMMA TakeFrame == ASSUME NEW q \in Seq(Frame), q # <<>>
                   PROVE  /\ Tail(q) \in Seq(Frame)
                          /\ Len(q) \in Nat /\ Len(q) > 0
                          /\ Len(Tail(q)) = Len(q) - 1
                          /\ \A i \in 1..Len(Tail(q)) : Tail(q)[i] = q[i + 1]
                          /\ Head(q) = q[1] /\ Head(q) \in Frame
  OBVIOUS

LEMMA NoFrames == /\ <<>> \in Seq(Frame) /\ <<>> \in Seq(Nat)
                  /\ Len(<<>>) = 0
                  /\ \A q \in Seq(Frame) : Len(q) = 0 <=> q = <<>>
  OBVIOUS

LEMMA TypeInit == Init => TransferTypeOK
  <1> SUFFICES ASSUME Init
               PROVE  TransferTypeOK
    OBVIOUS
  <1>1. HandlerTypes
    BY DEF Init, HandlerTypes, Stage
  <1>2. ChannelTypes
    BY CapacityAssumption, NoFrames DEF Init, ChannelTypes
  <1>3. ClientTypes
    BY NoFrames DEF Init, ClientTypes, JobStage
  <1>4. QED
    BY <1>1, <1>2, <1>3 DEF Init, TransferTypeOK

LEMMA HandlerTypesNext == HandlerTypes /\ [Next]_vars => HandlerTypes'
  <1> SUFFICES ASSUME HandlerTypes, [Next]_vars
               PROVE  HandlerTypes'
    OBVIOUS
  <1>1. total' = total \/ total' = total + 1
    BY DEF Next, Upload, Download, vars, handlerVars,
           Announce, OpenFile, ReceiveChunk, SendChunk, StopSending, SendAbort, FailUpload,
           RollBack, CommitUpload, SendEnd, DropHandler, AskForStream, ResolveLateAttach,
           FetchFile, ReceiveData, ReceiveEnd, ReceiveNothingMore, TimeOutRead, EndDownload,
           FailJob, SaveFile, Acknowledge, Sweep
  <1>2. total' \in Nat
    <2>1. total \in Nat
      BY DEF HandlerTypes
    <2>2. QED
      BY <1>1, <2>1
  <1>3. /\ mode' \in {"Streaming", "HttpStreaming"}
        /\ handler' \in Stage
        /\ stopped' \in BOOLEAN
        /\ status' \in {"Uploading", "Notified", "removed", "rolled back"}
    BY DEF HandlerTypes, Stage, Next, Upload, Download, vars, handlerVars,
           Announce, OpenFile, ReceiveChunk, SendChunk, StopSending, SendAbort, FailUpload,
           RollBack, CommitUpload, SendEnd, DropHandler, AskForStream, ResolveLateAttach,
           FetchFile, ReceiveData, ReceiveEnd, ReceiveNothingMore, TimeOutRead, EndDownload,
           FailJob, SaveFile, Acknowledge, Sweep
  <1>4. QED
    BY <1>2, <1>3 DEF HandlerTypes

(* What a step can do to the frames in the channel.                        *)
QueueStep ==
  \/ queue' = queue
  \/ queue' = <<>>
  \/ /\ Len(queue) # Capacity
     /\ \E f \in Frame : queue' = Append(queue, f)
  \/ /\ queue # <<>>
     /\ queue' = Tail(queue)

LEMMA QueueSteps == HandlerTypes /\ [Next]_vars => QueueStep
  <1> SUFFICES ASSUME HandlerTypes, [Next]_vars
               PROVE  QueueStep
    OBVIOUS
  <1> total \in Nat
    BY DEF HandlerTypes
  <1> USE DEF QueueStep, Unmap, Full
  <1>1. CASE Announce \/ RollBack \/ CommitUpload \/ EndDownload \/ Acknowledge \/ Sweep
    BY <1>1 DEF Announce, RollBack, CommitUpload, EndDownload, Acknowledge, Sweep,
                channelVars
  <1>2. CASE SendChunk
    BY <1>2, FramesTyped DEF SendChunk
  <1>3. CASE StopSending \/ FailUpload
    BY <1>3, FramesTyped DEF StopSending, FailUpload, AbortPipe, channelVars
  <1>4. CASE SendAbort \/ SendEnd
    BY <1>4, FramesTyped DEF SendAbort, SendEnd, SendTerminal
  <1>5. CASE ReceiveData \/ ReceiveEnd
    BY <1>5 DEF ReceiveData, ReceiveEnd
  <1>6. CASE OpenFile \/ ReceiveChunk \/ DropHandler \/ AskForStream \/ ResolveLateAttach
             \/ FetchFile \/ ReceiveNothingMore \/ TimeOutRead \/ FailJob \/ SaveFile
             \/ UNCHANGED vars
    BY <1>6 DEF OpenFile, ReceiveChunk, DropHandler, AskForStream, ResolveLateAttach,
                FetchFile, ReceiveNothingMore, TimeOutRead, FailJob, SaveFile, channelVars,
                vars
  <1>7. QED
    BY <1>1, <1>2, <1>3, <1>4, <1>5, <1>6 DEF Next, Upload, Download

LEMMA ChannelTypesNext == HandlerTypes /\ ChannelTypes /\ [Next]_vars => ChannelTypes'
  <1> SUFFICES ASSUME HandlerTypes, ChannelTypes, [Next]_vars
               PROVE  ChannelTypes'
    OBVIOUS
  <1>1. mapped' \in BOOLEAN /\ receiver' \in {"map", "attached", "gone"}
    BY DEF ChannelTypes, Next, Upload, Download, vars, channelVars, Unmap, AbortPipe,
           Announce, OpenFile, ReceiveChunk, SendChunk, StopSending, SendAbort, FailUpload,
           RollBack, CommitUpload, SendEnd, DropHandler, AskForStream, ResolveLateAttach,
           FetchFile, ReceiveData, ReceiveEnd, ReceiveNothingMore, TimeOutRead, EndDownload,
           FailJob, SaveFile, Acknowledge, Sweep
  <1>2. queue' \in Seq(Frame) /\ Len(queue') <= Capacity
    <2> /\ queue \in Seq(Frame) /\ Len(queue) <= Capacity /\ Len(queue) \in Nat
        /\ Capacity \in Nat
      BY CapacityAssumption DEF ChannelTypes
    <2>1. CASE queue' = queue
      BY <2>1
    <2>0. CASE queue' = <<>>
      BY <2>0, NoFrames
    <2>2. ASSUME Len(queue) # Capacity, NEW f \in Frame, queue' = Append(queue, f)
          PROVE  queue' \in Seq(Frame) /\ Len(queue') <= Capacity
      BY <2>2, AppendFrame
    <2>3. CASE queue # <<>> /\ queue' = Tail(queue)
      BY <2>3, TakeFrame
    <2>4. QED
      BY <2>0, <2>1, <2>2, <2>3, QueueSteps DEF QueueStep
  <1>3. QED
    BY <1>1, <1>2 DEF ChannelTypes

LEMMA ClientTypesNext == TransferTypeOK /\ [Next]_vars => ClientTypes'
  <1> SUFFICES ASSUME TransferTypeOK, [Next]_vars
               PROVE  ClientTypes'
    OBVIOUS
  <1> USE DEF TransferTypeOK
  <1>1. job' \in JobStage
    BY DEF ClientTypes, JobStage, Next, Upload, Download, vars, clientVars,
           Announce, OpenFile, ReceiveChunk, SendChunk, StopSending, SendAbort, FailUpload,
           RollBack, CommitUpload, SendEnd, DropHandler, AskForStream, ResolveLateAttach,
           FetchFile, ReceiveData, ReceiveEnd, ReceiveNothingMore, TimeOutRead, EndDownload,
           FailJob, SaveFile, Acknowledge, Sweep
  <1>2. CASE FetchFile
    BY <1>1, <1>2, WholeTyped DEF FetchFile, ClientTypes, HandlerTypes
  <1>3. CASE ReceiveData
    <2>1. Head(queue).of \in Nat
      BY <1>3, TakeFrame DEF ReceiveData, ChannelTypes, Frame
    <2>2. QED
      BY <1>1, <1>3, <2>1 DEF ReceiveData, ClientTypes
  <1>4. CASE got' = got
    BY <1>1, <1>4 DEF ClientTypes
  <1>5. QED
    BY <1>2, <1>3, <1>4
    DEF Next, Upload, Download, vars, clientVars,
        Announce, OpenFile, ReceiveChunk, SendChunk, StopSending, SendAbort, FailUpload,
        RollBack, CommitUpload, SendEnd, DropHandler, AskForStream, ResolveLateAttach,
        ReceiveEnd, ReceiveNothingMore, TimeOutRead, EndDownload, FailJob, SaveFile,
        Acknowledge, Sweep

LEMMA TypeNext == TransferTypeOK /\ [Next]_vars => TransferTypeOK'
  <1> SUFFICES ASSUME TransferTypeOK, [Next]_vars
               PROVE  TransferTypeOK'
    OBVIOUS
  <1>1. HandlerTypes' /\ ChannelTypes' /\ ClientTypes'
    BY HandlerTypesNext, ChannelTypesNext, ClientTypesNext DEF TransferTypeOK
  <1>2. unsent' \in BOOLEAN /\ aged' \in BOOLEAN
    BY DEF TransferTypeOK, Next, Upload, Download, vars, historyVars, SendTerminal,
           Announce, OpenFile, ReceiveChunk, SendChunk, StopSending, SendAbort, FailUpload,
           RollBack, CommitUpload, SendEnd, DropHandler, AskForStream, ResolveLateAttach,
           FetchFile, ReceiveData, ReceiveEnd, ReceiveNothingMore, TimeOutRead, EndDownload,
           FailJob, SaveFile, Acknowledge, Sweep
  <1>3. QED
    BY <1>1, <1>2 DEF TransferTypeOK

(* The types of the transfer and the capacity of its channel hold in every *)
(* reachable state.                                                        *)
THEOREM TransferTypeCorrect == Spec => []TransferTypeOK
  BY TypeInit, TypeNext, PTL DEF Spec

-----------------------------------------------------------------------------
(* The control of handler, index and job.                                  *)

LEMMA InvInit == Init => TransferInv
  <1> SUFFICES ASSUME Init
               PROVE  TransferInv
    OBVIOUS
  <1>1. TransferTypeOK
    BY TypeInit
  <1>2. StatusFits /\ OnlyWholeCopies /\ NothingLostInHandOver /\ MappedFits /\ JobFits
    BY DEF Init, StatusFits, OnlyWholeCopies, NothingLostInHandOver, MappedFits, JobFits
  <1>3. ReceiverFits
    BY DEF Init, ReceiverFits
  <1>4. /\ EndsAreFinal /\ AbortsAreExcused /\ InOrder
        /\ NothingMissing /\ EndInSight
    BY NoFrames DEF Init, EndsAreFinal, AbortsAreExcused, InOrder, NothingMissing, Sent,
                    EndInSight
  <1>5. QED
    BY <1>1, <1>2, <1>3, <1>4 DEF TransferInv

LEMMA ExcusedStays == TransferTypeOK /\ Excused /\ [Next]_vars => Excused'
  BY DEF Excused, SendTerminal, Next, Upload, Download, vars, handlerVars, channelVars,
           clientVars, historyVars, Announce, OpenFile, ReceiveChunk, SendChunk,
           StopSending, SendAbort, FailUpload, RollBack, CommitUpload, SendEnd,
           DropHandler, AskForStream, ResolveLateAttach, FetchFile, ReceiveData,
           ReceiveEnd, ReceiveNothingMore, TimeOutRead, EndDownload, FailJob, SaveFile,
           Acknowledge, Sweep

LEMMA StatusFitsNext == TransferInv /\ [Next]_vars => StatusFits'
  <1> SUFFICES ASSUME TransferInv, [Next]_vars
               PROVE  StatusFits'
    OBVIOUS
  <1>1. handler \in Stage /\ StatusFits /\ OnlyWholeCopies
    BY DEF TransferInv, TransferTypeOK, HandlerTypes
  <1>2. CASE Acknowledge \/ Sweep
    BY <1>1, <1>2 DEF Acknowledge, Sweep, Indexed, OnlyWholeCopies, StatusFits, Stage
  <1>3. CASE Announce \/ Upload \/ DropHandler
    BY <1>1, <1>3 DEF StatusFits, Upload, Announce, OpenFile, ReceiveChunk, SendChunk,
      StopSending, SendAbort, FailUpload, RollBack, CommitUpload, SendEnd, DropHandler
  <1>4. CASE UNCHANGED <<handler, status>>
    BY <1>1, <1>4 DEF StatusFits
  <1>5. QED
    BY <1>2, <1>3, <1>4
    DEF Next, Download, vars, handlerVars, AskForStream, ResolveLateAttach, FetchFile,
        ReceiveData, ReceiveEnd, ReceiveNothingMore, TimeOutRead, EndDownload, FailJob,
        SaveFile

LEMMA NothingLostNext == TransferInv /\ [Next]_vars => NothingLostInHandOver'
  <1> SUFFICES ASSUME TransferInv, [Next]_vars
               PROVE  NothingLostInHandOver'
    OBVIOUS
  <1>1. NothingLostInHandOver /\ StatusFits /\ aged \in BOOLEAN
    BY DEF TransferInv, TransferTypeOK
  <1> USE DEF NothingLostInHandOver, handlerVars, clientVars, historyVars
  <1>2. CASE Announce
    BY <1>1, <1>2 DEF Announce, StatusFits
  <1>3. CASE OpenFile
    BY <1>1, <1>3 DEF OpenFile
  <1>4. CASE ReceiveChunk
    BY <1>1, <1>4 DEF ReceiveChunk
  <1>5. CASE SendChunk
    BY <1>1, <1>5 DEF SendChunk
  <1>6. CASE StopSending
    BY <1>1, <1>6 DEF StopSending
  <1>7. CASE SendAbort
    BY <1>1, <1>7 DEF SendAbort
  <1>8. CASE FailUpload
    BY <1>1, <1>8 DEF FailUpload
  <1>9. CASE RollBack
    BY <1>1, <1>9 DEF RollBack
  <1>10. CASE CommitUpload
    BY <1>1, <1>10 DEF CommitUpload
  <1>11. CASE SendEnd
    BY <1>1, <1>11 DEF SendEnd
  <1>12. CASE DropHandler
    BY <1>1, <1>12 DEF DropHandler
  <1>13. CASE AskForStream
    BY <1>1, <1>13 DEF AskForStream
  <1>14. CASE ResolveLateAttach
    BY <1>1, <1>14 DEF ResolveLateAttach
  <1>15. CASE FetchFile
    BY <1>1, <1>15 DEF FetchFile
  <1>16. CASE ReceiveData
    BY <1>1, <1>16 DEF ReceiveData
  <1>17. CASE ReceiveEnd
    BY <1>1, <1>17 DEF ReceiveEnd
  <1>18. CASE ReceiveNothingMore
    BY <1>1, <1>18 DEF ReceiveNothingMore
  <1>19. CASE TimeOutRead
    BY <1>1, <1>19 DEF TimeOutRead
  <1>20. CASE EndDownload
    BY <1>1, <1>20 DEF EndDownload
  <1>21. CASE FailJob
    BY <1>1, <1>21 DEF FailJob
  <1>22. CASE SaveFile
    BY <1>1, <1>22 DEF SaveFile
  <1>23. CASE Acknowledge
    BY <1>1, <1>23 DEF Acknowledge
  <1>24. CASE Sweep
    BY <1>1, <1>24 DEF Sweep
  <1>25. CASE UNCHANGED vars
    BY <1>1, <1>25 DEF vars
  <1>26. QED
    BY <1>2, <1>3, <1>4, <1>5, <1>6, <1>7, <1>8, <1>9, <1>10, <1>11, <1>12, <1>13,
       <1>14, <1>15, <1>16, <1>17, <1>18, <1>19, <1>20, <1>21, <1>22, <1>23, <1>24,
       <1>25
    DEF Next, Upload, Download

LEMMA ReceiverFitsNext == TransferInv /\ [Next]_vars => ReceiverFits'
  <1> SUFFICES ASSUME TransferInv, [Next]_vars
               PROVE  ReceiverFits'
    OBVIOUS
  <1>1. /\ mode \in {"Streaming", "HttpStreaming"}
        /\ status \in {"Uploading", "Notified", "removed", "rolled back"}
        /\ receiver \in {"map", "attached", "gone"} /\ mapped \in BOOLEAN
        /\ job \in JobStage
        /\ StatusFits /\ MappedFits /\ ReceiverFits
    BY DEF TransferInv, TransferTypeOK, HandlerTypes, ChannelTypes, ClientTypes
  <1> USE DEF ReceiverFits, handlerVars, channelVars, clientVars, historyVars
  <1>2. CASE Announce
    BY <1>1, <1>2 DEF Announce, Unmap
  <1>3. CASE OpenFile
    BY <1>1, <1>3 DEF OpenFile
  <1>4. CASE ReceiveChunk
    BY <1>1, <1>4 DEF ReceiveChunk
  <1>5. CASE SendChunk
    BY <1>1, <1>5 DEF SendChunk, Connected
  <1>6. CASE StopSending
    BY <1>1, <1>6 DEF StopSending, AbortPipe, Unmap, Full, Connected
  <1>7. CASE SendAbort
    BY <1>1, <1>7 DEF SendAbort, SendTerminal, Connected
  <1>8. CASE FailUpload
    BY <1>1, <1>8 DEF FailUpload, AbortPipe, Unmap, Full
  <1>9. CASE RollBack
    BY <1>1, <1>9 DEF RollBack, Unmap, StatusFits
  <1>10. CASE CommitUpload
    BY <1>1, <1>10 DEF CommitUpload, Unmap
  <1>11. CASE SendEnd
    BY <1>1, <1>11 DEF SendEnd, SendTerminal
  <1>12. CASE DropHandler
    BY <1>1, <1>12 DEF DropHandler
  <1>13. CASE AskForStream
    BY <1>1, <1>13 DEF AskForStream, Indexed, MappedFits
  <1>14. CASE ResolveLateAttach
    BY <1>1, <1>14 DEF ResolveLateAttach
  <1>15. CASE FetchFile
    BY <1>1, <1>15 DEF FetchFile, MappedFits
  <1>16. CASE ReceiveData
    BY <1>1, <1>16 DEF ReceiveData
  <1>17. CASE ReceiveEnd
    BY <1>1, <1>17 DEF ReceiveEnd
  <1>18. CASE ReceiveNothingMore
    BY <1>1, <1>18 DEF ReceiveNothingMore
  <1>19. CASE TimeOutRead
    BY <1>1, <1>19 DEF TimeOutRead
  <1>20. CASE EndDownload
    BY <1>1, <1>20 DEF EndDownload
  <1>21. CASE FailJob
    BY <1>1, <1>21 DEF FailJob
  <1>22. CASE SaveFile
    BY <1>1, <1>22 DEF SaveFile
  <1>23. CASE Acknowledge
    BY <1>1, <1>23 DEF Acknowledge, Unmap
  <1>24. CASE Sweep
    BY <1>1, <1>24 DEF Sweep, Unmap, StatusFits
  <1>25. CASE UNCHANGED vars
    BY <1>1, <1>25 DEF vars
  <1>26. QED
    BY <1>2, <1>3, <1>4, <1>5, <1>6, <1>7, <1>8, <1>9, <1>10, <1>11, <1>12, <1>13,
       <1>14, <1>15, <1>16, <1>17, <1>18, <1>19, <1>20, <1>21, <1>22, <1>23, <1>24,
       <1>25
    DEF Next, Upload, Download

LEMMA MappedFitsNext == TransferInv /\ [Next]_vars => MappedFits'
  <1> SUFFICES ASSUME TransferInv, [Next]_vars
               PROVE  MappedFits'
    OBVIOUS
  <1>1. /\ mode \in {"Streaming", "HttpStreaming"}
        /\ handler \in Stage
        /\ status \in {"Uploading", "Notified", "removed", "rolled back"}
        /\ job \in JobStage
        /\ stopped \in BOOLEAN /\ mapped \in BOOLEAN
        /\ unsent \in BOOLEAN /\ aged \in BOOLEAN
        /\ StatusFits /\ MappedFits /\ ReceiverFits /\ OnlyWholeCopies
    BY DEF TransferInv, TransferTypeOK, HandlerTypes, ChannelTypes, ClientTypes
  <1>2. Excused => Excused'
    BY ExcusedStays DEF TransferInv
  <1> USE DEF MappedFits, Excused, handlerVars, channelVars, clientVars, historyVars
  <1>3. CASE Announce
    BY <1>1, <1>2, <1>3 DEF Announce, Unmap, ReceiverFits, StatusFits
  <1>4. CASE OpenFile
    BY <1>1, <1>2, <1>4 DEF OpenFile
  <1>5. CASE ReceiveChunk
    BY <1>1, <1>2, <1>5 DEF ReceiveChunk
  <1>6. CASE SendChunk
    BY <1>1, <1>2, <1>6 DEF SendChunk, StatusFits
  <1>7. CASE StopSending
    BY <1>1, <1>2, <1>7 DEF StopSending, AbortPipe, Unmap, StatusFits
  <1>8. CASE SendAbort
    BY <1>1, <1>2, <1>8 DEF SendAbort, StatusFits
  <1>9. CASE FailUpload
    BY <1>1, <1>2, <1>9 DEF FailUpload, AbortPipe, Unmap, StatusFits
  <1>10. CASE RollBack
    BY <1>1, <1>2, <1>10 DEF RollBack, Unmap, StatusFits
  <1>11. CASE CommitUpload
    BY <1>1, <1>2, <1>11 DEF CommitUpload, Unmap, StatusFits
  <1>12. CASE SendEnd
    BY <1>1, <1>2, <1>12 DEF SendEnd, StatusFits
  <1>13. CASE DropHandler
    BY <1>1, <1>2, <1>13 DEF DropHandler
  <1>14. CASE AskForStream
    BY <1>1, <1>2, <1>14 DEF AskForStream, Indexed, ReceiverFits
  <1>15. CASE ResolveLateAttach
    BY <1>1, <1>2, <1>15 DEF ResolveLateAttach
  <1>16. CASE FetchFile
    BY <1>1, <1>2, <1>16 DEF FetchFile
  <1>17. CASE ReceiveData
    BY <1>1, <1>2, <1>17 DEF ReceiveData
  <1>18. CASE ReceiveEnd
    BY <1>1, <1>2, <1>18 DEF ReceiveEnd
  <1>19. CASE ReceiveNothingMore
    BY <1>1, <1>2, <1>19 DEF ReceiveNothingMore
  <1>20. CASE TimeOutRead
    BY <1>1, <1>2, <1>20 DEF TimeOutRead
  <1>21. CASE EndDownload
    <2>1. job \notin {"waiting", "told", "reading", "late", "fetch"}
      BY <1>1, <1>21 DEF EndDownload, ReceiverFits
    <2>2. /\ UNCHANGED <<mode, handler, stopped, status, job>>
          /\ mapped' => mapped
      BY <1>21 DEF EndDownload
    <2>3. QED
      BY <1>1, <2>1, <2>2, Zenon
  <1>22. CASE FailJob
    BY <1>1, <1>2, <1>22 DEF FailJob
  <1>23. CASE SaveFile
    BY <1>1, <1>2, <1>23 DEF SaveFile
  <1>24. CASE Acknowledge
    BY <1>1, <1>2, <1>24 DEF Acknowledge, Unmap, Indexed, OnlyWholeCopies
  <1>25. CASE Sweep
    BY <1>1, <1>2, <1>25 DEF Sweep, Unmap, StatusFits
  <1>26. CASE UNCHANGED vars
    BY <1>1, <1>2, <1>26 DEF vars
  <1>27. QED
    BY <1>3, <1>4, <1>5, <1>6, <1>7, <1>8, <1>9, <1>10, <1>11, <1>12, <1>13, <1>14,
       <1>15, <1>16, <1>17, <1>18, <1>19, <1>20, <1>21, <1>22, <1>23, <1>24, <1>25,
       <1>26
    DEF Next, Upload, Download

LEMMA OnlyWholeCopiesNext == TransferInv /\ [Next]_vars => OnlyWholeCopies'
  <1> SUFFICES ASSUME TransferInv, [Next]_vars
               PROVE  OnlyWholeCopies'
    OBVIOUS
  <1>1. StatusFits /\ EndsAreFinal /\ OnlyWholeCopies
    BY DEF TransferInv
  <1>2. queue # <<>> => 1 \in 1..Len(queue) /\ Head(queue) = queue[1]
    BY TakeFrame DEF TransferInv, TransferTypeOK, ChannelTypes
  <1> USE DEF OnlyWholeCopies, handlerVars, clientVars
  <1>3. CASE ReceiveChunk
    BY <1>1, <1>3 DEF ReceiveChunk, StatusFits
  <1>4. CASE FetchFile
    BY <1>4 DEF FetchFile
  <1>5. CASE ReceiveData
    BY <1>5 DEF ReceiveData
  <1>6. CASE ReceiveEnd
    <2>1. Head(queue).of = total /\ handler = "stored"
      BY <1>1, <1>2, <1>6 DEF ReceiveEnd, EndsAreFinal
    <2>2. QED
      BY <1>1, <1>6, <2>1 DEF ReceiveEnd, StatusFits
  <1>7. ASSUME UNCHANGED <<total, got>>,
               job' \in {"checked", "saved", "acked"} => job \in {"checked", "saved", "acked"},
               status' = status \/ status' \in {"Notified", "removed"}
        PROVE  OnlyWholeCopies'
    BY <1>1, <1>7 DEF Whole
  <1>8. CASE Announce \/ OpenFile \/ SendChunk \/ StopSending \/ SendAbort \/ FailUpload
    BY <1>7, <1>8 DEF Announce, OpenFile, SendChunk, StopSending, SendAbort, FailUpload
  <1>9. CASE RollBack
    BY <1>1, <1>9 DEF RollBack, StatusFits
  <1>10. CASE CommitUpload \/ SendEnd \/ DropHandler \/ AskForStream \/ ResolveLateAttach
    BY <1>7, <1>10 DEF CommitUpload, SendEnd, DropHandler, AskForStream, ResolveLateAttach
  <1>11. CASE ReceiveNothingMore \/ TimeOutRead \/ EndDownload \/ FailJob \/ SaveFile
    BY <1>7, <1>11 DEF ReceiveNothingMore, TimeOutRead, EndDownload, FailJob, SaveFile
  <1>12. CASE Acknowledge \/ Sweep \/ UNCHANGED vars
    BY <1>7, <1>12 DEF Acknowledge, Sweep, vars
  <1>13. QED
    BY <1>3, <1>4, <1>5, <1>6, <1>8, <1>9, <1>10, <1>11, <1>12 DEF Next, Upload, Download

-----------------------------------------------------------------------------
(* The frames in the channel.                                              *)

LEMMA SequencesTyped == TransferInv => /\ queue \in Seq(Frame) /\ Len(queue) \in Nat
                                       /\ got \in Seq(Nat) /\ Len(got) \in Nat
                                       /\ total \in Nat
  <1> SUFFICES ASSUME TransferInv
               PROVE  queue \in Seq(Frame) /\ got \in Seq(Nat) /\ total \in Nat
    OBVIOUS
  <1>1. ChannelTypes /\ ClientTypes /\ HandlerTypes
    BY DEF TransferInv, TransferTypeOK
  <1>2. queue \in Seq(Frame)
    BY <1>1 DEF ChannelTypes
  <1>3. got \in Seq(Nat)
    BY <1>1 DEF ClientTypes
  <1>4. total \in Nat
    BY <1>1 DEF HandlerTypes
  <1>5. QED
    BY <1>2, <1>3, <1>4

(* The actions that at most empty the channel.                             *)
Quiet ==
  \/ Announce \/ OpenFile \/ ReceiveChunk \/ RollBack \/ CommitUpload \/ DropHandler
  \/ AskForStream \/ ResolveLateAttach \/ FetchFile \/ ReceiveNothingMore \/ TimeOutRead
  \/ EndDownload \/ FailJob \/ SaveFile \/ Acknowledge \/ Sweep \/ UNCHANGED vars

LEMMA QuietQueue == Quiet => queue' = queue \/ queue' = <<>>
  BY DEF Quiet, Unmap, Announce, OpenFile, ReceiveChunk, RollBack, CommitUpload,
         DropHandler, AskForStream, ResolveLateAttach, FetchFile, ReceiveNothingMore,
         TimeOutRead, EndDownload, FailJob, SaveFile, Acknowledge, Sweep, channelVars, vars

LEMMA NextIsQuiet ==
    [Next]_vars => \/ Quiet \/ SendChunk \/ StopSending \/ SendAbort \/ FailUpload
                   \/ SendEnd \/ ReceiveData \/ ReceiveEnd
  BY DEF Quiet, Next, Upload, Download

(* An Abort frame comes with a reason, and from a handler that goes on.    *)
AddsAbort == Len(queue) # Capacity /\ queue' = Append(queue, Abort)

LEMMA Aborts ==
    /\ StopSending \/ SendAbort \/ FailUpload => queue' = queue \/ queue' = <<>> \/ AddsAbort
    /\ (StopSending \/ SendAbort \/ FailUpload) /\ queue' # queue /\ queue' # <<>>
         => Excused'
    /\ StopSending \/ SendAbort \/ FailUpload =>
         handler \in {"open", "receive", "send", "abort", "give up"}
  <1> USE DEF AddsAbort, Excused, Full
  <1>1. ASSUME StopSending
        PROVE  /\ queue' = queue \/ queue' = <<>> \/ AddsAbort
               /\ queue' # queue => Excused'
               /\ handler \in {"open", "receive", "send", "abort", "give up"}
    BY <1>1 DEF StopSending, AbortPipe, Unmap, channelVars
  <1>2. ASSUME SendAbort
        PROVE  /\ queue' = queue \/ queue' = <<>> \/ AddsAbort
               /\ queue' # queue => Excused'
               /\ handler \in {"open", "receive", "send", "abort", "give up"}
    BY <1>2 DEF SendAbort, SendTerminal
  <1>3. ASSUME FailUpload
        PROVE  /\ queue' = queue \/ queue' = <<>> \/ AddsAbort
               /\ queue' # queue => Excused'
               /\ handler \in {"open", "receive", "send", "abort", "give up"}
    BY <1>3 DEF FailUpload, AbortPipe, Unmap, channelVars
  <1>4. QED
    BY <1>1, <1>2, <1>3

LEMMA EndsAreFinalNext == TransferInv /\ [Next]_vars => EndsAreFinal'
  <1> SUFFICES ASSUME TransferInv, [Next]_vars
               PROVE  EndsAreFinal'
    OBVIOUS
  <1>1. queue \in Seq(Frame) /\ Len(queue) \in Nat /\ EndsAreFinal /\ total \in Nat
    BY SequencesTyped DEF TransferInv
  <1>2. CASE queue' = <<>>
    BY <1>2, NoFrames DEF EndsAreFinal
  <1>3. ASSUME queue' = queue, handler # "stored" \/ UNCHANGED <<handler, total>>
        PROVE  EndsAreFinal'
    BY <1>1, <1>3 DEF EndsAreFinal
  <1>4. ASSUME NEW f \in Frame, f.kind # "End", handler # "stored", queue' = Append(queue, f)
        PROVE  EndsAreFinal'
    <2>1. \A i \in 1..Len(queue') : queue'[i].kind # "End"
      BY <1>1, <1>4, AppendFrame DEF EndsAreFinal
    <2>2. QED
      BY <2>1 DEF EndsAreFinal
  <1>5. CASE Quiet
    <2>1. handler # "stored" \/ UNCHANGED <<handler, total>>
      BY <1>5 DEF Quiet, Announce, OpenFile, ReceiveChunk, RollBack, CommitUpload,
         DropHandler, AskForStream, ResolveLateAttach, FetchFile, ReceiveNothingMore,
         TimeOutRead, EndDownload, FailJob, SaveFile, Acknowledge, Sweep, handlerVars, vars
    <2>2. QED
      BY <1>2, <1>3, <1>5, <2>1, QuietQueue
  <1>6. CASE SendChunk
    BY <1>1, <1>4, <1>6, FramesTyped DEF SendChunk, Data
  <1>7. CASE StopSending \/ SendAbort \/ FailUpload
    <2>1. handler # "stored" /\ Abort.kind # "End"
      BY <1>7, Aborts DEF Abort
    <2>2. QED
      BY <1>2, <1>3, <1>4, <1>7, <2>1, Aborts, FramesTyped DEF AddsAbort
  <1>8. CASE SendEnd
    <2>1. CASE queue' = queue
      BY <1>3, <1>8, <2>1 DEF SendEnd
    <2>2. CASE queue' = Append(queue, End(total))
      <3>1. \A i \in 1..Len(queue) : queue[i].kind # "End"
        BY <1>1, <1>8 DEF SendEnd, EndsAreFinal
      <3>2. \A i \in 1..Len(queue') :
              queue'[i].kind = "End" => i = Len(queue') /\ queue'[i] = End(total)
        BY <1>1, <2>2, <3>1, AppendFrame, FramesTyped
      <3>3. handler' = "stored" /\ total' = total
        BY <1>8 DEF SendEnd
      <3>4. End(total).of = total
        BY DEF End
      <3>5. QED
        BY <3>2, <3>3, <3>4 DEF EndsAreFinal
    <2>3. QED
      BY <1>8, <2>1, <2>2 DEF SendEnd, SendTerminal
  <1>9. CASE ReceiveData \/ ReceiveEnd
    <2>1. queue # <<>> /\ queue' = Tail(queue) /\ UNCHANGED <<handler, total>>
      BY <1>9 DEF ReceiveData, ReceiveEnd, handlerVars
    <2>2. QED
      BY <1>1, <2>1, TakeFrame DEF EndsAreFinal
  <1>10. QED
    BY <1>5, <1>6, <1>7, <1>8, <1>9, NextIsQuiet

LEMMA AbortsAreExcusedNext == TransferInv /\ [Next]_vars => AbortsAreExcused'
  <1> SUFFICES ASSUME TransferInv, [Next]_vars, ~Excused'
               PROVE  AbortsAreExcused'
    BY DEF AbortsAreExcused
  <1>1. queue \in Seq(Frame) /\ Len(queue) \in Nat /\ total \in Nat
    BY SequencesTyped
  <1>2. \A i \in 1..Len(queue) : queue[i].kind # "Abort"
    BY ExcusedStays DEF TransferInv, AbortsAreExcused
  <1>3. \A i \in 1..Len(queue') : queue'[i].kind # "Abort"
    <2>1. CASE queue' = queue
      BY <1>2, <2>1
    <2>2. CASE queue' = <<>>
      BY <2>2, NoFrames
    <2>3. ASSUME NEW f \in Frame, f.kind # "Abort", queue' = Append(queue, f)
          PROVE  \A i \in 1..Len(queue') : queue'[i].kind # "Abort"
      BY <1>1, <1>2, <2>3, AppendFrame
    <2>4. CASE queue # <<>> /\ queue' = Tail(queue)
      BY <1>1, <1>2, <2>4, TakeFrame
    <2>5. CASE SendChunk
      BY <1>1, <2>3, <2>5, FramesTyped DEF SendChunk, Data
    <2>6. CASE SendEnd
      <3>1. End(total).kind # "Abort"
        BY DEF End
      <3>2. QED
        BY <1>1, <2>1, <2>3, <2>6, <3>1, FramesTyped DEF SendEnd, SendTerminal
    <2>7. CASE StopSending \/ SendAbort \/ FailUpload
      BY <2>1, <2>2, <2>7, Aborts
    <2>8. CASE ReceiveData \/ ReceiveEnd
      BY <2>4, <2>8 DEF ReceiveData, ReceiveEnd
    <2>9. CASE Quiet
      BY <2>1, <2>2, <2>9, QuietQueue
    <2>10. QED
      BY <2>5, <2>6, <2>7, <2>8, <2>9, NextIsQuiet
  <1>4. QED
    BY <1>3 DEF AbortsAreExcused

(* When the End frame is next, it is all there is.                         *)
LEMMA OnlyEndLeft == ASSUME TransferInv, queue # <<>>, Head(queue).kind = "End"
                     PROVE  /\ Len(queue) = 1 /\ queue[1] = Head(queue)
                            /\ Head(queue).of = total /\ handler = "stored"
  <1>1. queue \in Seq(Frame) /\ EndsAreFinal
    BY SequencesTyped DEF TransferInv
  <1>2. 1 \in 1..Len(queue) /\ Head(queue) = queue[1]
    BY <1>1, TakeFrame
  <1>3. QED
    BY <1>1, <1>2 DEF EndsAreFinal

(* What leaves the PC's file as it is.                                     *)
LEMMA GotStays == [Next]_vars => FetchFile \/ ReceiveData \/ UNCHANGED got
  BY DEF Next, Upload, Download, clientVars, vars, Announce, OpenFile, ReceiveChunk,
         SendChunk, StopSending, SendAbort, FailUpload, RollBack, CommitUpload, SendEnd,
         DropHandler, AskForStream, ResolveLateAttach, ReceiveEnd, ReceiveNothingMore,
         TimeOutRead, EndDownload, FailJob, SaveFile, Acknowledge, Sweep

LEMMA InOrderNext == TransferInv /\ [Next]_vars => InOrder'
  <1> SUFFICES ASSUME TransferInv, [Next]_vars
               PROVE  InOrder'
    OBVIOUS
  <1>1. /\ queue \in Seq(Frame) /\ Len(queue) \in Nat
        /\ got \in Seq(Nat) /\ Len(got) \in Nat /\ total \in Nat
    BY SequencesTyped
  <1>2. InOrder
    BY DEF TransferInv
  <1>3. ASSUME queue' = queue \/ queue' = <<>>, UNCHANGED got
        PROVE  InOrder'
    BY <1>2, <1>3, NoFrames DEF InOrder
  <1>4. ASSUME NEW f \in Frame, queue' = Append(queue, f), UNCHANGED got,
               f.kind = "Data" => f.of = Len(got) + Len(queue) + 1
        PROVE  InOrder'
    <2>1. \A i \in 1..Len(queue) :
            queue'[i].kind = "Data" => queue'[i].of = Len(got) + i
      BY <1>1, <1>2, <1>4, AppendFrame DEF InOrder
    <2>2. Len(queue') = Len(queue) + 1 /\ queue'[Len(queue) + 1] = f
      BY <1>1, <1>4, AppendFrame
    <2>3. \A i \in 1..Len(queue') : i \in 1..Len(queue) \/ i = Len(queue) + 1
      BY <1>1, <2>2
    <2>4. f.kind = "Data" => f.of = Len(got) + (Len(queue) + 1)
      BY <1>1, <1>4
    <2>5. \A i \in 1..Len(queue') :
            queue'[i].kind = "Data" => queue'[i].of = Len(got) + i
      BY <2>1, <2>2, <2>3, <2>4
    <2>6. QED
      BY <1>2, <1>4, <2>5 DEF InOrder
  <1>5. CASE FetchFile
    <2>1. queue = <<>>
      <3>1. receiver \in {"map", "attached", "gone"} /\ ReceiverFits /\ MappedFits
        BY DEF TransferInv, TransferTypeOK, ChannelTypes
      <3>2. QED
        BY <1>5, <3>1 DEF FetchFile, ReceiverFits, MappedFits
    <2>2. queue' = <<>>
      BY <1>5, <2>1, QuietQueue DEF Quiet
    <2>3. got' = Whole(total) \/ got' = got
      BY <1>5 DEF FetchFile
    <2>4. \A i \in 1..Len(got') : got'[i] = i
      BY <1>1, <1>2, <2>3, WholeTyped DEF InOrder
    <2>5. QED
      BY <2>2, <2>4, NoFrames DEF InOrder
  <1>6. CASE ReceiveData
    <2>1. /\ queue # <<>> /\ queue' = Tail(queue) /\ Head(queue).kind = "Data"
          /\ got' = Append(got, Head(queue).of)
      BY <1>6 DEF ReceiveData
    <2>2. Head(queue).of = Len(got) + 1
      BY <1>1, <1>2, <2>1, TakeFrame DEF InOrder
    <2>3. /\ Len(got') = Len(got) + 1
          /\ \A i \in 1..Len(got) : got'[i] = got[i]
          /\ got'[Len(got) + 1] = Len(got) + 1
      BY <1>1, <2>1, <2>2
    <2>4. \A i \in 1..Len(got') : got'[i] = i
      BY <1>1, <1>2, <2>3 DEF InOrder
    <2>5. \A i \in 1..Len(queue') : i + 1 \in 1..Len(queue) /\ queue'[i] = queue[i + 1]
      BY <1>1, <2>1, TakeFrame
    <2>6. \A i \in 1..Len(queue') :
            queue'[i].kind = "Data" => queue'[i].of = Len(got) + (i + 1)
      BY <1>2, <2>5 DEF InOrder
    <2>7. \A i \in 1..Len(queue') :
            queue'[i].kind = "Data" => queue'[i].of = Len(got') + i
      BY <1>1, <2>3, <2>6
    <2>8. QED
      BY <2>4, <2>7 DEF InOrder
  <1>7. CASE ReceiveEnd
    <2>1. queue # <<>> /\ queue' = Tail(queue) /\ Head(queue).kind = "End" /\ UNCHANGED got
      BY <1>7 DEF ReceiveEnd
    <2>2. Len(queue) = 1
      BY <1>1, <2>1, OnlyEndLeft
    <2>3. queue' = <<>>
      BY <1>1, <2>1, <2>2, TakeFrame, NoFrames
    <2>4. QED
      BY <1>3, <2>1, <2>3
  <1>8. CASE SendChunk
    <2>1. total = Len(got) + Len(queue) + 1
      <3>1. Len(got) + Len(queue) = total - 1
        BY <1>8 DEF SendChunk, Connected, TransferInv, NothingMissing, MappedFits, Sent
      <3>2. QED
        BY <1>1, <3>1
    <2>2. Data(total) \in Frame /\ Data(total).of = total
      BY <1>1, FramesTyped DEF Data
    <2>3. queue' = Append(queue, Data(total)) /\ UNCHANGED got
      BY <1>8 DEF SendChunk, clientVars
    <2>4. QED
      BY <1>4, <2>1, <2>2, <2>3
  <1>9. CASE StopSending \/ SendAbort \/ FailUpload
    <2>1. UNCHANGED got
      BY <1>9 DEF StopSending, SendAbort, FailUpload, clientVars
    <2>2. Abort \in Frame /\ Abort.kind # "Data"
      BY FramesTyped DEF Abort
    <2>3. QED
      BY <1>3, <1>4, <1>9, <2>1, <2>2, Aborts DEF AddsAbort
  <1>10. CASE SendEnd
    <2>1. UNCHANGED got /\ (queue' = queue \/ queue' = Append(queue, End(total)))
      BY <1>10 DEF SendEnd, SendTerminal, clientVars
    <2>2. End(total) \in Frame /\ End(total).kind # "Data"
      BY <1>1, FramesTyped DEF End
    <2>3. QED
      BY <1>3, <1>4, <2>1, <2>2
  <1>11. CASE Quiet
    BY <1>3, <1>5, <1>6, <1>11, QuietQueue, GotStays
  <1>12. QED
    BY <1>6, <1>7, <1>8, <1>9, <1>10, <1>11, NextIsQuiet

LEMMA NothingMissingNext == TransferInv /\ [Next]_vars => NothingMissing'
  <1> SUFFICES ASSUME TransferInv, [Next]_vars,
                      receiver' # "gone", ~stopped',
                      handler' \in {"announce", "open", "receive", "send", "finish"}
               PROVE  (Len(got) + Len(queue) = Sent)'
    BY DEF NothingMissing
  <1>1. /\ queue \in Seq(Frame) /\ Len(queue) \in Nat
        /\ got \in Seq(Nat) /\ Len(got) \in Nat /\ total \in Nat
    BY SequencesTyped
  <1>2. NothingMissing /\ StatusFits /\ ReceiverFits /\ MappedFits
    BY DEF TransferInv
  <1>3. ASSUME UNCHANGED <<queue, got, handler, total>>, receiver # "gone", ~stopped
        PROVE  (Len(got) + Len(queue) = Sent)'
    BY <1>2, <1>3 DEF NothingMissing, Sent
  <1> USE DEF handlerVars, channelVars, clientVars, Sent
  <1>4. CASE Announce \/ OpenFile \/ CommitUpload
    <2>1. UNCHANGED <<queue, got, total>> /\ receiver # "gone" /\ ~stopped
      <3>1. CASE Announce
        BY <3>1 DEF Announce
      <3>2. CASE OpenFile
        BY <3>2 DEF OpenFile
      <3>3. CASE CommitUpload
        BY <3>3 DEF CommitUpload, Unmap
      <3>4. QED
        BY <1>4, <3>1, <3>2, <3>3
    <2>2. handler \in {"announce", "open", "receive"} /\ handler' # "send"
      BY <1>4 DEF Announce, OpenFile, CommitUpload
    <2>3. QED
      BY <1>2, <2>1, <2>2 DEF NothingMissing
  <1>5. CASE ReceiveChunk
    <2>1. Len(got) + Len(queue) = total
      BY <1>2, <1>5 DEF ReceiveChunk, NothingMissing
    <2>2. UNCHANGED <<queue, got>> /\ handler' = "send" /\ total' = total + 1
      BY <1>5 DEF ReceiveChunk
    <2>3. QED
      BY <1>1, <2>1, <2>2
  <1>6. CASE SendChunk
    <2>1. Len(got) + Len(queue) = total - 1
      BY <1>2, <1>6 DEF SendChunk, Connected, NothingMissing
    <2>2. /\ queue' = Append(queue, Data(total)) /\ Data(total) \in Frame
          /\ UNCHANGED <<got, total>> /\ handler' = "receive"
      BY <1>1, <1>6, FramesTyped DEF SendChunk
    <2>3. Len(queue') = Len(queue) + 1
      BY <1>1, <2>2, AppendFrame
    <2>4. QED
      BY <1>1, <2>1, <2>2, <2>3
  <1>7. CASE StopSending \/ SendAbort \/ FailUpload \/ RollBack \/ SendEnd \/ DropHandler
    BY <1>2, <1>7 DEF StopSending, SendAbort, FailUpload, RollBack, SendEnd, DropHandler
  <1>8. CASE AskForStream
    BY <1>3, <1>8 DEF AskForStream
  <1>9. CASE FetchFile
    BY <1>1, <1>2, <1>9 DEF FetchFile, StatusFits, ReceiverFits, MappedFits, TransferInv,
                            TransferTypeOK, ChannelTypes
  <1>10. CASE ReceiveData
    <2>1. /\ queue # <<>> /\ queue' = Tail(queue) /\ got' = Append(got, Head(queue).of)
          /\ UNCHANGED <<handler, total, stopped, receiver>>
      BY <1>10 DEF ReceiveData
    <2>2. Len(queue') = Len(queue) - 1 /\ Len(got') = Len(got) + 1
      BY <1>1, <2>1, TakeFrame
    <2>3. Len(got') + Len(queue') = Len(got) + Len(queue)
      BY <1>1, <2>2
    <2>4. QED
      BY <1>2, <2>1, <2>3 DEF NothingMissing
  <1>11. CASE ReceiveEnd
    BY <1>11, OnlyEndLeft DEF ReceiveEnd
  <1>12. CASE ResolveLateAttach \/ ReceiveNothingMore \/ TimeOutRead \/ FailJob \/ SaveFile
    BY <1>3, <1>12 DEF ResolveLateAttach, ReceiveNothingMore, TimeOutRead, FailJob, SaveFile
  <1>13. CASE EndDownload
    BY <1>13 DEF EndDownload
  <1>14. CASE Acknowledge \/ Sweep
    BY <1>3, <1>14 DEF Acknowledge, Sweep, Unmap
  <1>15. CASE UNCHANGED vars
    BY <1>3, <1>15 DEF vars
  <1>16. QED
    BY <1>4, <1>5, <1>6, <1>7, <1>8, <1>9, <1>10, <1>11, <1>12, <1>13, <1>14, <1>15
    DEF Next, Upload, Download

LEMMA EndInSightNext == TransferInv /\ [Next]_vars => EndInSight'
  <1> SUFFICES ASSUME TransferInv, [Next]_vars,
                      (receiver = "map" \/ job = "reading")', handler' = "stored", ~Excused'
               PROVE  /\ Len(queue') > 0
                      /\ queue'[Len(queue')] = End(total')
                      /\ Len(got') + Len(queue') = total' + 1
    BY DEF EndInSight, End
  <1>1. /\ queue \in Seq(Frame) /\ Len(queue) \in Nat
        /\ got \in Seq(Nat) /\ Len(got) \in Nat /\ total \in Nat
        /\ receiver \in {"map", "attached", "gone"}
    BY SequencesTyped DEF TransferInv, TransferTypeOK, ChannelTypes
  <1>2. NothingMissing /\ EndInSight /\ StatusFits /\ ReceiverFits /\ MappedFits
    BY DEF TransferInv
  <1>3. ~Excused
    BY ExcusedStays DEF TransferInv
  <1>4. ASSUME UNCHANGED <<queue, got, handler, total>>, receiver = "map" \/ job = "reading"
        PROVE  /\ Len(queue') > 0
               /\ queue'[Len(queue')] = End(total')
               /\ Len(got') + Len(queue') = total' + 1
    BY <1>2, <1>3, <1>4 DEF EndInSight
  <1> USE DEF handlerVars, channelVars, clientVars
  <1>5. CASE CommitUpload
    BY <1>2, <1>3, <1>5 DEF CommitUpload, MappedFits, ReceiverFits, StatusFits, Unmap, Excused
  <1>6. CASE SendEnd
    <2>1. handler = "finish" /\ UNCHANGED <<got, total, receiver, job>>
      BY <1>6 DEF SendEnd
    <2>2. receiver # "gone"
      BY <1>2, <2>1 DEF ReceiverFits
    <2>3. Len(got) + Len(queue) = total
      BY <1>2, <2>1, <2>2 DEF NothingMissing, MappedFits, Sent
    <2>4. queue' = Append(queue, End(total)) /\ End(total) \in Frame
      <3>1. mode = "Streaming" => mapped
        BY <1>2, <1>3, <2>1 DEF ReceiverFits, MappedFits
      <3>2. QED
        BY <1>1, <1>6, <2>2, <3>1, FramesTyped DEF SendEnd, SendTerminal, Excused
    <2>5. Len(queue') = Len(queue) + 1 /\ queue'[Len(queue) + 1] = End(total)
      BY <1>1, <2>4, AppendFrame
    <2>6. QED
      BY <1>1, <2>1, <2>3, <2>5
  <1>7. CASE ReceiveData
    <2>1. /\ queue # <<>> /\ queue' = Tail(queue) /\ got' = Append(got, Head(queue).of)
          /\ Head(queue).kind = "Data" /\ job = "reading"
          /\ UNCHANGED <<handler, total>>
      BY <1>7 DEF ReceiveData
    <2>2. /\ Len(queue) > 0 /\ queue[Len(queue)] = End(total)
          /\ Len(got) + Len(queue) = total + 1
      BY <1>2, <1>3, <2>1 DEF EndInSight
    <2>3. Len(queue') = Len(queue) - 1 /\ Len(got') = Len(got) + 1
      BY <1>1, <2>1, TakeFrame
    <2>4. Len(queue) # 1
      BY <1>1, <2>1, <2>2, TakeFrame DEF End
    <2>5. Len(queue') \in 1..Len(queue') /\ Len(queue') + 1 = Len(queue)
      BY <1>1, <2>2, <2>3, <2>4
    <2>6. queue'[Len(queue')] = queue[Len(queue)]
      BY <1>1, <2>1, <2>5, TakeFrame
    <2>7. queue'[Len(queue')] = End(total')
      BY <2>1, <2>2, <2>6
    <2>8. Len(queue') > 0
      BY <1>1, <2>2, <2>3, <2>4
    <2>9. Len(got') + Len(queue') = Len(got) + Len(queue)
      BY <1>1, <2>3
    <2>10. QED
      BY <2>1, <2>2, <2>7, <2>8, <2>9
  <1>8. CASE ReceiveEnd
    BY <1>2, <1>8 DEF ReceiveEnd, ReceiverFits
  <1>9. CASE Announce \/ OpenFile \/ ReceiveChunk \/ SendChunk \/ StopSending \/ SendAbort
             \/ FailUpload \/ RollBack \/ DropHandler
    BY <1>9 DEF Announce, OpenFile, ReceiveChunk, SendChunk, StopSending, SendAbort,
                FailUpload, RollBack, DropHandler
  <1>10. CASE AskForStream \/ ResolveLateAttach \/ FetchFile \/ ReceiveNothingMore
    BY <1>2, <1>4, <1>10 DEF AskForStream, ResolveLateAttach, FetchFile, ReceiveNothingMore,
                             ReceiverFits
  <1>11. CASE TimeOutRead \/ EndDownload \/ FailJob \/ SaveFile \/ UNCHANGED vars
    BY <1>4, <1>11 DEF TimeOutRead, EndDownload, FailJob, SaveFile, vars
  <1>12. CASE Acknowledge \/ Sweep
    BY <1>2, <1>4, <1>12 DEF Acknowledge, Sweep, Unmap, ReceiverFits
  <1>13. QED
    BY <1>5, <1>6, <1>7, <1>8, <1>9, <1>10, <1>11, <1>12 DEF Next, Upload, Download

LEMMA JobFitsNext == TransferInv /\ [Next]_vars => JobFits'
  <1> SUFFICES ASSUME TransferInv, [Next]_vars
               PROVE  JobFits'
    OBVIOUS
  <1>1. /\ queue \in Seq(Frame) /\ Len(queue) \in Nat
        /\ got \in Seq(Nat) /\ Len(got) \in Nat /\ total \in Nat
    BY SequencesTyped
  <1>2. /\ StatusFits /\ NothingLostInHandOver /\ EndInSight /\ ReceiverFits /\ MappedFits
        /\ JobFits
        /\ mode \in {"Streaming", "HttpStreaming"}
        /\ handler \in Stage
        /\ status \in {"Uploading", "Notified", "removed", "rolled back"}
    BY DEF TransferInv, TransferTypeOK, HandlerTypes
  <1>3. Excused => Excused'
    BY ExcusedStays DEF TransferInv
  <1>4. job' = "refused" => Excused'
    <2>1. CASE job = "refused"
      BY <1>2, <1>3, <2>1 DEF JobFits
    <2>2. ASSUME status \in {"removed", "rolled back"}, job \notin {"saved", "acked"}
          PROVE  Excused'
      BY <1>2, <1>3, <2>2 DEF StatusFits, NothingLostInHandOver, Excused, Stage
    <2>3. CASE AskForStream
      BY <1>2, <1>3, <2>1, <2>2, <2>3 DEF AskForStream, Indexed, MappedFits
    <2>4. CASE ResolveLateAttach
      BY <1>2, <1>3, <2>1, <2>2, <2>4 DEF ResolveLateAttach, MappedFits, StatusFits
    <2>5. CASE FetchFile
      BY <1>2, <2>1, <2>2, <2>5 DEF FetchFile, JobFits
    <2>6. CASE ReceiveEnd
      <3>1. SUFFICES ASSUME ~Excused
                     PROVE  got = Whole(total)
        BY <1>3, <2>6, OnlyEndLeft DEF ReceiveEnd
      <3>2. Len(got) = total
        <4>1. Len(queue) = 1 /\ handler = "stored" /\ job = "reading"
          BY <2>6, OnlyEndLeft DEF ReceiveEnd
        <4>2. Len(got) + Len(queue) = total + 1
          BY <1>2, <3>1, <4>1 DEF EndInSight
        <4>3. QED
          BY <1>1, <4>1, <4>2
      <3>3. \A i \in 1..total : got[i] = i
        BY <3>2 DEF TransferInv, InOrder
      <3>4. QED
        BY <1>1, <3>2, <3>3 DEF Whole
    <2>7. CASE ReceiveNothingMore
      <3>1. CASE queue = <<>>
        <4>1. ~mapped /\ handler # "finish" /\ job = "reading"
          BY <2>7, <3>1 DEF ReceiveNothingMore, SenderAlive
        <4>2. Excused \/ handler = "stored"
          BY <1>2, <4>1 DEF MappedFits
        <4>3. Len(queue) = 0
          BY <3>1, NoFrames
        <4>4. Excused
          <5>1. SUFFICES ASSUME ~Excused, handler = "stored"
                         PROVE  FALSE
            BY <4>2
          <5>2. Len(queue) > 0
            BY <1>2, <4>1, <5>1 DEF EndInSight
          <5>3. QED
            BY <4>3, <5>2
        <4>5. QED
          BY <1>3, <4>4
      <3>2. CASE queue # <<>>
        BY <1>1, <1>3, <2>7, <3>2, TakeFrame DEF ReceiveNothingMore, TransferInv,
                                                 AbortsAreExcused
      <3>3. QED
        BY <3>1, <3>2
    <2>8. CASE job' # "refused" \/ job' = job
      BY <2>1, <2>8
    <2>9. QED
      BY <2>3, <2>4, <2>5, <2>6, <2>7, <2>8
      DEF Next, Upload, Download, clientVars, vars, Announce, OpenFile, ReceiveChunk,
          SendChunk, StopSending, SendAbort, FailUpload, RollBack, CommitUpload, SendEnd,
          DropHandler, ReceiveData, TimeOutRead, EndDownload, FailJob, SaveFile,
          Acknowledge, Sweep
  <1>5. job' = "fetch" => status' \in {"Notified", "removed"}
    <2>1. CASE ResolveLateAttach
      BY <2>1 DEF ResolveLateAttach, handlerVars
    <2>2. ASSUME job' = "fetch" => job = "fetch",
                 status' = status \/ status' \in {"Notified", "removed"}
          PROVE  job' = "fetch" => status' \in {"Notified", "removed"}
      BY <1>2, <2>2 DEF JobFits
    <2>3. CASE RollBack
      BY <1>2, <2>3 DEF RollBack, StatusFits, JobFits, clientVars
    <2>4. QED
      BY <2>1, <2>2, <2>3
      DEF Next, Upload, Download, clientVars, handlerVars, vars, Announce, OpenFile,
          ReceiveChunk, SendChunk, StopSending, SendAbort, FailUpload, CommitUpload,
          SendEnd, DropHandler, AskForStream, FetchFile, ReceiveData, ReceiveEnd,
          ReceiveNothingMore, TimeOutRead, EndDownload, FailJob, SaveFile, Acknowledge,
          Sweep
  <1>6. QED
    BY <1>4, <1>5 DEF JobFits

-----------------------------------------------------------------------------
(* The results.                                                            *)

LEMMA InvNext == TransferInv /\ [Next]_vars => TransferInv'
  BY TypeNext, StatusFitsNext, EndsAreFinalNext, OnlyWholeCopiesNext, NothingLostNext,
     AbortsAreExcusedNext, InOrderNext, NothingMissingNext, EndInSightNext,
     ReceiverFitsNext, MappedFitsNext, JobFitsNext DEF TransferInv

LEMMA TransferInvariant == Spec => []TransferInv
  BY InvInit, InvNext, PTL DEF Spec

(* A copy that has passed the check of the PC is the whole stored file,    *)
(* whatever the capacity of the channel and the length of the body.        *)
THEOREM CopiesAreWhole == Spec => []OnlyWholeCopies
  <1>1. TransferInv => OnlyWholeCopies
    BY DEF TransferInv
  <1>2. QED
    BY <1>1, TransferInvariant, PTL

(* The server gives a file away only when the PC has saved it or the       *)
(* retention time is over.                                                 *)
THEOREM HandOverLosesNothing == Spec => []NothingLostInHandOver
  <1>1. TransferInv => NothingLostInHandOver
    BY DEF TransferInv
  <1>2. QED
    BY <1>1, TransferInvariant, PTL

(* The PC turns a stored upload down only when the server stopped sending, *)
(* lost a terminal frame in a full channel, or has swept the file away.    *)
THEOREM GoodTransfersArrive == Spec => []GoodTransferArrives
  <1>1. TransferInv => GoodTransferArrives
    BY DEF TransferInv, JobFits, Excused, GoodTransferArrives
  <1>2. QED
    BY <1>1, TransferInvariant, PTL

-----------------------------------------------------------------------------
(* The refinement of Transfer.                                             *)

LEMMA PromiseInit == Init => Promise!Init
  BY DEF Init, Promise!Init, UploadOutcome, CopyOutcome

LEMMA PromiseNext ==
    TransferInv /\ TransferInv' /\ [Next]_vars =>
      [Promise!Next]_<<UploadOutcome, CopyOutcome>>
  <1> SUFFICES ASSUME TransferInv, TransferInv', [Next]_vars
               PROVE  \/ Promise!Next
                      \/ UNCHANGED <<UploadOutcome, CopyOutcome>>
    OBVIOUS
  <1>1. /\ StatusFits /\ OnlyWholeCopies /\ OnlyWholeCopies'
        /\ status \in {"Uploading", "Notified", "removed", "rolled back"}
        /\ job \in JobStage
    BY DEF TransferInv, TransferTypeOK, HandlerTypes, ClientTypes
  <1>2. ASSUME UNCHANGED status
        PROVE  UNCHANGED UploadOutcome
    BY <1>2 DEF UploadOutcome
  <1>3. ASSUME UNCHANGED job
        PROVE  UNCHANGED CopyOutcome
    BY <1>1, <1>3 DEF CopyOutcome, OnlyWholeCopies
  <1>4. ASSUME UNCHANGED <<status, job>>
        PROVE  UNCHANGED <<UploadOutcome, CopyOutcome>>
    BY <1>2, <1>3, <1>4
  <1>5. CASE RollBack
    <2>1. UploadOutcome = "open" /\ UploadOutcome' = "failed"
      BY <1>1, <1>5 DEF RollBack, StatusFits, UploadOutcome
    <2>2. UNCHANGED CopyOutcome
      BY <1>3, <1>5 DEF RollBack, clientVars
    <2>3. QED
      BY <2>1, <2>2 DEF Promise!Next, Promise!Fail
  <1>6. CASE CommitUpload
    <2>1. UploadOutcome = "open" /\ UploadOutcome' = "stored"
      BY <1>1, <1>6 DEF CommitUpload, StatusFits, UploadOutcome
    <2>2. UNCHANGED CopyOutcome
      BY <1>3, <1>6 DEF CommitUpload, clientVars
    <2>3. QED
      BY <2>1, <2>2 DEF Promise!Next, Promise!Store
  <1>7. CASE SaveFile
    <2>1. UploadOutcome = "stored"
      BY <1>1, <1>7 DEF SaveFile, OnlyWholeCopies, UploadOutcome
    <2>2. CopyOutcome = "none" /\ CopyOutcome' = "kept"
      BY <1>1, <1>7 DEF SaveFile, OnlyWholeCopies, CopyOutcome
    <2>3. UNCHANGED UploadOutcome
      BY <1>2, <1>7 DEF SaveFile, handlerVars
    <2>4. QED
      BY <2>1, <2>2, <2>3 DEF Promise!Next, Promise!Keep
  <1>8. ASSUME UNCHANGED status,
               job \in {"waiting", "told", "late", "fetch", "reading", "checked"},
               job' \in JobStage \ {"saved", "acked"}
        PROVE  \/ Promise!Next
               \/ UNCHANGED <<UploadOutcome, CopyOutcome>>
    <2>1. CopyOutcome = "none"
      BY <1>8 DEF CopyOutcome
    <2>2. CopyOutcome' \in {"none", "given up"}
      BY <1>8 DEF CopyOutcome
    <2>3. QED
      BY <1>2, <1>8, <2>1, <2>2 DEF Promise!Next, Promise!GiveUp
  <1>9. CASE AskForStream \/ ResolveLateAttach \/ FetchFile \/ ReceiveEnd
             \/ ReceiveNothingMore
    BY <1>8, <1>9 DEF AskForStream, ResolveLateAttach, FetchFile, ReceiveEnd,
                      ReceiveNothingMore, handlerVars, JobStage
  <1>10. CASE Announce
    BY <1>1, <1>8, <1>10 DEF Announce, JobStage, TransferInv, ReceiverFits
  <1>11. CASE TimeOutRead \/ FailJob
    BY <1>8, <1>11 DEF TimeOutRead, FailJob, handlerVars, JobStage
  <1>12. CASE Acknowledge \/ Sweep
    <2>1. /\ status \in {"Notified", "removed"} /\ status' \in {"Notified", "removed"}
          /\ job' = job \/ (job = "saved" /\ job' = "acked")
      BY <1>1, <1>12 DEF Acknowledge, Sweep, Indexed, OnlyWholeCopies, clientVars
    <2>2. UNCHANGED UploadOutcome
      BY <2>1 DEF UploadOutcome
    <2>3. UNCHANGED CopyOutcome
      BY <1>1, <1>3, <2>1 DEF CopyOutcome, OnlyWholeCopies
    <2>4. QED
      BY <2>2, <2>3
  <1>13. CASE OpenFile \/ ReceiveChunk \/ SendChunk \/ StopSending \/ SendAbort
              \/ FailUpload \/ SendEnd \/ DropHandler \/ ReceiveData \/ EndDownload
              \/ UNCHANGED vars
    BY <1>4, <1>13 DEF OpenFile, ReceiveChunk, SendChunk, StopSending, SendAbort,
                       FailUpload, SendEnd, DropHandler, ReceiveData, EndDownload, vars,
                       handlerVars, clientVars
  <1>14. QED
    BY <1>5, <1>6, <1>7, <1>9, <1>10, <1>11, <1>12, <1>13 DEF Next, Upload, Download

(* Every behaviour of the handlers, the channel and the PC is one that     *)
(* Transfer allows.                                                        *)
THEOREM TransferImplements == Spec => KeepsPromise
  <1>1. TransferInv /\ TransferInv' /\ [Next]_vars =>
          [Promise!Next]_<<UploadOutcome, CopyOutcome>>
    BY PromiseNext
  <1>2. QED
    BY PromiseInit, <1>1, TransferInvariant, PTL DEF Spec, KeepsPromise, Promise!Spec

=============================================================================
