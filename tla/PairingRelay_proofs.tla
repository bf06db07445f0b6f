------------------------ MODULE PairingRelay_proofs ------------------------
(***************************************************************************)
(* Theorems about the pairing relay, for every number of PC streams,       *)
(* connections and browsers.                                               *)
(***************************************************************************)
EXTENDS PairingRelay, FunctionSums, FiniteSetTheorems, TLAPS

USE DEF Copy, StreamPhase, ConnPhase, Local, Nothing

(* The rank a new Session gets is a natural number.                        *)
LEMMA CreatedType ==
  ASSUME StoreTypeOK, NEW t \in Tokens
  PROVE  Created(t) \in [Tokens -> Nat]
<1>1. IsFiniteSet(sessions)
  BY TokensAssumption, FS_Subset DEF StoreTypeOK
<1>2. Cardinality(sessions) \in Nat
  BY <1>1, FS_CardinalityType
<1> QED
  BY <1>2 DEF Created, StoreTypeOK

LEMMA UncreatedType ==
  ASSUME StoreTypeOK, NEW t \in Tokens
  PROVE  Uncreated(t) \in [Tokens -> Nat]
BY DEF Uncreated, StoreTypeOK

(* latest_session_token answers with a stored session or with none.        *)
LEMMA LatestTokenStored ==
  LatestToken \in sessions \cup {NoToken}
<1>1. Newest \in sessions \cup {NoToken}
  BY DEF Newest
<1> QED
  BY <1>1 DEF LatestToken

(* Without a stored session it answers with none.                          *)
LEMMA LatestTokenNone ==
  ASSUME sessions = {}
  PROVE  LatestToken = NoToken
BY DEF LatestToken, Newest

LEMMA OutdatedType ==
  ASSUME NEW S, NEW f \in [S -> Copy]
  PROVE  Outdated(f) \in [S -> Copy]
BY DEF Outdated

LEMMA DeliverType ==
  ASSUME StoreTypeOK, NEW t, NEW kind \in {"own", "other"}, NEW copy \in Copy,
         Deliver(t, kind, copy)
  PROVE  /\ shown' \in [Tokens -> Copy]
         /\ displayed' \in BOOLEAN
         /\ firstEvent' \in [Tokens -> {"none", "own", "other"}]
         /\ full' \in SUBSET (Tokens \cup Conns)
<1>1. CASE t \in sessions
  <2>1. /\ shown' \in [Tokens -> Copy]
        /\ firstEvent' \in [Tokens -> {"none", "own", "other"}]
        /\ full' \in SUBSET (Tokens \cup Conns)
    BY <1>1 DEF Deliver, StoreTypeOK
  <2>2. displayed' \in BOOLEAN
    BY <1>1, Zenon DEF Deliver
  <2> QED
    BY <2>1, <2>2
<1>2. CASE t \notin sessions
  BY <1>2 DEF Deliver, StoreTypeOK, channelVars
<1> QED
  BY <1>1, <1>2

LEMMA RotateType ==
  ASSUME StoreTypeOK, ChannelsOutdated
  PROVE  /\ shown' \in [Tokens -> Copy]
         /\ displayed' \in BOOLEAN
         /\ firstEvent' \in [Tokens -> {"none", "own", "other"}]
         /\ full' \in SUBSET (Tokens \cup Conns)
BY OutdatedType DEF ChannelsOutdated, StoreTypeOK

(* A step of a connection keeps the types of its phase and locals.         *)
LEMMA ConnStepType ==
  ASSUME SocketTypeOK, NEW c \in Conns, NEW from, NEW to \in ConnPhase,
         NEW locals \in Local, ConnStep(c, from, to, locals)
  PROVE  conn' \in [Conns -> ConnPhase] /\ local' \in [Conns -> Local]
BY DEF ConnStep, SocketTypeOK

LEMMA AdvanceType ==
  ASSUME SocketTypeOK, NEW c \in Conns, NEW from, NEW to \in ConnPhase,
         Advance(c, from, to)
  PROVE  conn' \in [Conns -> ConnPhase] /\ local' \in [Conns -> Local]
<1>1. local[c] \in Local
  BY DEF SocketTypeOK
<1> QED
  BY <1>1, ConnStepType DEF Advance

LEMMA SendType ==
  ASSUME SocketTypeOK, NEW c \in Conns, NEW from, NEW to \in ConnPhase,
         NEW target \in Tokens \cup Conns \cup {NoToken},
         BeginSend(c, from, to, target) \/ EndSend(c, from, to)
  PROVE  conn' \in [Conns -> ConnPhase] /\ local' \in [Conns -> Local]
<1>1. local[c] \in Local
  BY DEF SocketTypeOK
<1>2. CASE BeginSend(c, from, to, target)
  <2>1. [local[c] EXCEPT !.target = target] \in Local
    BY <1>1
  <2> QED
    BY <1>2, <2>1, ConnStepType DEF BeginSend
<1>3. CASE EndSend(c, from, to)
  <2>1. [local[c] EXCEPT !.target = NoToken] \in Local
    BY <1>1
  <2>2. ConnStep(c, from, to, [local[c] EXCEPT !.target = NoToken])
    BY <1>3 DEF EndSend
  <2> QED
    BY <2>1, <2>2, ConnStepType
<1> QED
  BY <1>2, <1>3

LEMMA DropTicketsType ==
  ASSUME SocketTypeOK, DropTickets
  PROVE  conn' \in [Conns -> ConnPhase] /\ local' \in [Conns -> Local]
BY DEF DropTickets, SocketTypeOK

-----------------------------------------------------------------------------
(* Every step keeps the types.                                             *)
LEMMA TypeInit == Init => RelayTypeOK
<1> SUFFICES ASSUME Init PROVE RelayTypeOK
  OBVIOUS
<1>1. StoreTypeOK
  BY DEF Init, StoreInit, NoEntry, StoreTypeOK
<1>2. StreamTypeOK
  BY DEF Init, StreamInit, StreamTypeOK
<1>3. SocketTypeOK
  BY DEF Init, SocketInit, SocketTypeOK
<1> QED
  BY <1>1, <1>2, <1>3 DEF Init, RelayTypeOK

LEMMA TypeStream ==
  ASSUME RelayTypeOK, NEW t \in Tokens, UNCHANGED <<socketVars, cleaner>>,
         StreamHandler(t) \/ StreamEnvironment(t)
  PROVE  RelayTypeOK'
<1> USE DEF RelayTypeOK, StreamTypeOK, StreamStep
<1>1. SocketTypeOK' /\ (cleaner \in {"idle", "purging"})'
  BY DEF SocketTypeOK, socketVars, cookieVars, connVars
<1>2. stream' \in [Tokens -> StreamPhase]
  BY DEF StreamHandler, StreamEnvironment, InsertPairing, InsertSession, SendSessionToken,
         LocateSuccessor, IndexSuccessor, HandOver, GoOffline, RefreshPairing, MissPairing,
         StallStream, DropStream, streamVars
<1>3. StoreTypeOK' /\ successor' \in [Tokens -> Tokens \cup {NoToken}]
  <2>1. CASE InsertPairing(t)
    BY <2>1, OutdatedType, RotateType DEF InsertPairing, StoreTypeOK, sessionVars
  <2>2. CASE InsertSession(t)
    BY <2>2, CreatedType
       DEF InsertSession, StoreTypeOK, entryVars, urlVars, channelVars
  <2>3. CASE SendSessionToken(t)
    <3>1. subscribeUrl[t] \in Copy
      BY DEF StoreTypeOK
    <3> QED
      BY <2>3, <3>1, DeliverType DEF SendSessionToken, StoreTypeOK, entryVars, sessionVars
  <2>4. CASE LocateSuccessor(t)
    BY <2>4, LatestTokenStored
       DEF LocateSuccessor, StoreTypeOK, storeVars, entryVars, sessionVars, urlVars, channelVars
  <2>5. CASE IndexSuccessor(t)
    BY <2>5 DEF IndexSuccessor, StoreTypeOK, sessionVars, urlVars, channelVars
  <2>6. CASE HandOver(t)
    <3>1. HandedOver(t, successor[t]) \in [Tokens -> Conns \cup {NoConn}]
      BY DEF HandedOver, StoreTypeOK
    <3> QED
      BY <2>6, <3>1 DEF HandOver, StoreTypeOK, entryVars, urlVars, channelVars
  <2>7. CASE GoOffline(t)
    BY <2>7 DEF GoOffline, StoreTypeOK, urlVars, channelVars
  <2>8. CASE RefreshPairing(t)
    BY <2>8 DEF RefreshPairing, StoreTypeOK, sessionVars, channelVars
  <2>9. CASE MissPairing(t)
    BY <2>9 DEF MissPairing, StoreTypeOK, storeVars, entryVars, sessionVars, urlVars,
                channelVars
  <2>10. CASE DropStream(t)
    BY <2>10, UncreatedType DEF DropStream, StoreTypeOK, entryVars, urlVars
  <2>11. CASE StallStream(t)
    BY <2>11
       DEF StallStream, FillBuffer, EmptyBuffer, StoreTypeOK, entryVars, sessionVars, urlVars,
           streamVars
  <2> QED
    BY <2>1, <2>2, <2>3, <2>4, <2>5, <2>6, <2>7, <2>8, <2>9, <2>10, <2>11
       DEF StreamHandler, StreamEnvironment
<1> QED
  BY <1>1, <1>2, <1>3

LEMMA TypeSocket ==
  ASSUME RelayTypeOK, NEW c \in Conns, UNCHANGED <<streamVars, cleaner>>,
         SocketHandler(c) \/ SocketEnvironment(c)
  PROVE  RelayTypeOK'
<1> USE DEF RelayTypeOK
<1>1. StreamTypeOK' /\ (cleaner \in {"idle", "purging"})'
  BY DEF StreamTypeOK, streamVars
<1>2. local[c] \in Local
  BY DEF SocketTypeOK
<1>3. StoreTypeOK' /\ SocketTypeOK'
  <2>1. CASE \E b \in Browsers : AuthenticateTicket(c, b)
    <3>1. PICK b \in Browsers : AuthenticateTicket(c, b)
      BY <2>1
    <3>2. [local[c] EXCEPT !.browser = b] \in Local
      BY <1>2
    <3> QED
      BY <3>1, <3>2, ConnStepType
         DEF AuthenticateTicket, StoreTypeOK, SocketTypeOK, storeVars, entryVars, sessionVars,
             urlVars, channelVars, cookieVars
  <2>2. CASE IssueTicket(c)
    <3>1. [local[c] EXCEPT !.epoch = epoch] \in Local
      BY <1>2 DEF StoreTypeOK
    <3> QED
      BY <2>2, <3>1, ConnStepType
         DEF IssueTicket, StoreTypeOK, SocketTypeOK, storeVars, entryVars, sessionVars,
             urlVars, channelVars, cookieVars
  <2>3. CASE \/ ExpireTicket(c) \/ UseTicket(c) \/ AcceptUpgrade(c) \/ AbandonUpgrade(c)
             \/ LeaveSocket(c) \/ AcceptText(c)
             \/ ObeyClose(c) \/ RefuseMessage(c) \/ SayFarewell(c) \/ WriteFrame(c)
             \/ ForwardText(c) \/ GiveUpText(c)
    <3>1. conn' \in [Conns -> ConnPhase] /\ local' \in [Conns -> Local]
      <4>1. CASE \/ ExpireTicket(c) \/ UseTicket(c) \/ AcceptUpgrade(c) \/ AbandonUpgrade(c)
                 \/ LeaveSocket(c) \/ AcceptText(c)
        BY <4>1, AdvanceType
           DEF ExpireTicket, UseTicket, AcceptUpgrade, AbandonUpgrade, LeaveSocket, AcceptText
      <4>2. CASE ObeyClose(c) \/ RefuseMessage(c) \/ SayFarewell(c) \/ WriteFrame(c) \/ GiveUpText(c)
        BY <4>2, SendType DEF ObeyClose, RefuseMessage, SayFarewell, WriteFrame, GiveUpText
      <4>3. CASE ForwardText(c)
        BY <4>3, SendType, LatestTokenStored DEF ForwardText, StoreTypeOK
      <4> QED
        BY <2>3, <4>1, <4>2, <4>3
    <3>2. UNCHANGED <<storeVars, cookieVars, ordered>>
      BY <2>3
         DEF ExpireTicket, UseTicket, AcceptUpgrade, AbandonUpgrade, ObeyClose, LeaveSocket,
             RefuseMessage, AcceptText, SayFarewell, WriteFrame, ForwardText, GiveUpText
    <3> QED
      BY <3>1, <3>2
         DEF StoreTypeOK, SocketTypeOK, storeVars, entryVars, sessionVars, urlVars,
             channelVars, cookieVars
  <2>4. CASE TakeSlot(c)
    <3>1. conn' \in [Conns -> ConnPhase] /\ local' \in [Conns -> Local]
      BY <2>4, AdvanceType DEF TakeSlot
    <3>2. ordered' \in SUBSET Conns /\ activeWs' \in Conns \cup {NoConn}
      BY <2>4 DEF TakeSlot, OrderedToClose, StoreTypeOK, SocketTypeOK
    <3> QED
      BY <2>4, <3>1, <3>2
         DEF TakeSlot, StoreTypeOK, SocketTypeOK, sessionVars, urlVars, channelVars, cookieVars
  <2>5. CASE MarkConnected(c)
    <3>1. [local[c] EXCEPT !.token = LatestToken, !.target = LatestToken] \in Local
      BY <1>2, LatestTokenStored DEF StoreTypeOK
    <3>2. conn' \in [Conns -> ConnPhase] /\ local' \in [Conns -> Local]
      BY <2>5, <3>1, ConnStepType DEF MarkConnected
    <3>3. mobileTx' \in [Tokens -> Conns \cup {NoConn}]
      BY <2>5 DEF MarkConnected, StoreTypeOK
    <3> QED
      BY <2>5, <3>2, <3>3
         DEF MarkConnected, StoreTypeOK, SocketTypeOK, entryVars, urlVars, channelVars, cookieVars
  <2>6. CASE Greet(c) \/ FinishSend(c) \/ Part(c)
    <3>1. conn' \in [Conns -> ConnPhase] /\ local' \in [Conns -> Local]
      BY <2>6, SendType DEF Greet, FinishSend, Part
    <3>2. /\ Deliver(local[c].target, "other", "none")
          /\ ordered' \in SUBSET Conns
          /\ UNCHANGED <<entryVars, sessionVars, urlVars, cookieVars>>
      BY <2>6 DEF Greet, FinishSend, Part, SocketTypeOK
    <3> QED
      BY <3>1, <3>2, DeliverType
         DEF StoreTypeOK, SocketTypeOK, entryVars, sessionVars, urlVars, cookieVars
  <2>7. CASE ClearSession(c)
    <3>1. conn' \in [Conns -> ConnPhase] /\ local' \in [Conns -> Local]
      BY <2>7, AdvanceType DEF ClearSession
    <3>2. mobileTx' \in [Tokens -> Conns \cup {NoConn}]
      BY <2>7 DEF ClearSession, Unmarked, StoreTypeOK
    <3> QED
      BY <2>7, <3>1, <3>2
         DEF ClearSession, StoreTypeOK, SocketTypeOK, entryVars, urlVars, channelVars, cookieVars
  <2>8. CASE ReturnSlot(c)
    <3>1. conn' \in [Conns -> ConnPhase] /\ local' \in [Conns -> Local]
      BY <2>8, SendType, LatestTokenStored DEF ReturnSlot, StoreTypeOK
    <3>2. activeWs' \in Conns \cup {NoConn}
      BY <2>8 DEF ReturnSlot, SlotAfter, StoreTypeOK
    <3> QED
      BY <2>8, <3>1, <3>2
         DEF ReturnSlot, StoreTypeOK, SocketTypeOK, sessionVars, urlVars, channelVars, cookieVars
  <2>9. CASE StallPhone(c)
    BY <2>9
       DEF StallPhone, FillBuffer, EmptyBuffer, StoreTypeOK, SocketTypeOK, entryVars,
           sessionVars, urlVars, socketVars, cookieVars, connVars
  <2> QED
    BY <2>1, <2>2, <2>3, <2>4, <2>5, <2>6, <2>7, <2>8, <2>9
       DEF SocketHandler, SocketEnvironment, SendOver
<1> QED
  BY <1>1, <1>3

LEMMA TypeBrowser ==
  ASSUME RelayTypeOK, NEW b \in Browsers, UNCHANGED <<streamVars, cleaner>>,
         Bootstrap(b) \/ FindStream(b) \/ NotifyBootstrap(b) \/ ExpireCookie(b)
  PROVE  RelayTypeOK'
<1> USE DEF RelayTypeOK
<1>1. StreamTypeOK' /\ (cleaner \in {"idle", "purging"})'
  BY DEF StreamTypeOK, streamVars
<1>2. CASE Bootstrap(b)
  <2>1. conn' \in [Conns -> ConnPhase] /\ local' \in [Conns -> Local]
    BY <1>2, DropTicketsType DEF Bootstrap
  <2>2. cookie' \in [Browsers -> {"none", "stored", "expired", "deleted"}]
    BY <1>2 DEF Bootstrap, Forgotten, SocketTypeOK
  <2>3. ordered' \in SUBSET Conns /\ cookieEpoch' \in [Browsers -> Nat]
    BY <1>2 DEF Bootstrap, OrderedToClose, StoreTypeOK, SocketTypeOK
  <2>4. named' \in [Browsers -> Tokens \cup {NoToken}]
    BY <1>2 DEF Bootstrap, StoreTypeOK, SocketTypeOK
  <2>5. StoreTypeOK'
    BY <1>2, OutdatedType, RotateType DEF Bootstrap, StoreTypeOK, sessionVars
  <2> QED
    BY <1>1, <1>2, <2>1, <2>2, <2>3, <2>4, <2>5 DEF SocketTypeOK, Bootstrap
<1>3. CASE NotifyBootstrap(b)
  <2>1. bootstrapUrl[b] \in Copy
    BY DEF StoreTypeOK
  <2>2. named' \in [Browsers -> Tokens \cup {NoToken}] /\ notifying' \in SUBSET Browsers
    BY <1>3 DEF NotifyBootstrap, SocketTypeOK
  <2> QED
    BY <1>1, <1>3, <2>1, <2>2, DeliverType
       DEF NotifyBootstrap, StoreTypeOK, SocketTypeOK, entryVars, sessionVars, socketVars,
           cookieVars, connVars
<1>4. CASE ExpireCookie(b)
  BY <1>1, <1>4
     DEF ExpireCookie, StoreTypeOK, SocketTypeOK, storeVars, entryVars, sessionVars, urlVars,
         channelVars, connVars
<1>5. CASE FindStream(b)
  <2>1. named' \in [Browsers -> Tokens \cup {NoToken}] /\ notifying' \in SUBSET Browsers
    BY <1>5, LatestTokenStored DEF FindStream, StoreTypeOK, SocketTypeOK
  <2> QED
    BY <1>1, <1>5, <2>1
       DEF FindStream, StoreTypeOK, SocketTypeOK, storeVars, entryVars, sessionVars, urlVars,
           channelVars, connVars
<1> QED
  BY <1>2, <1>3, <1>4, <1>5

LEMMA TypeRevoke ==
  ASSUME RelayTypeOK, NEW t \in Tokens, UNCHANGED <<streamVars, cleaner>>,
         Revoke(t) \/ NotifyRevoke(t)
  PROVE  RelayTypeOK'
<1> USE DEF RelayTypeOK
<1>1. StreamTypeOK' /\ (cleaner \in {"idle", "purging"})'
  BY DEF StreamTypeOK, streamVars
<1>2. CASE Revoke(t)
  <2>1. ordered' \in SUBSET Conns
    BY <1>2 DEF Revoke, OrderedToClose, StoreTypeOK, SocketTypeOK
  <2>2. /\ subscribeUrl' \in [Tokens -> Copy]
        /\ bootstrapUrl' \in [Browsers -> Copy]
        /\ revokeUrl' \in [Tokens -> Copy]
    BY <1>2, OutdatedType DEF Revoke, StoreTypeOK
  <2>3. /\ shown' \in [Tokens -> Copy]
        /\ displayed' \in BOOLEAN
        /\ firstEvent' \in [Tokens -> {"none", "own", "other"}]
        /\ full' \in SUBSET (Tokens \cup Conns)
    BY <1>2, RotateType DEF Revoke
  <2>4. epoch' \in Nat
    BY <1>2 DEF Revoke, StoreTypeOK
  <2>5. StoreTypeOK'
    BY <1>2, <2>2, <2>3, <2>4 DEF Revoke, StoreTypeOK, sessionVars
  <2> QED
    BY <1>1, <1>2, <2>1, <2>5 DEF Revoke, SocketTypeOK, cookieVars
<1>3. CASE NotifyRevoke(t)
  <2>1. revokeUrl[t] \in Copy
    BY DEF StoreTypeOK
  <2> QED
    BY <1>1, <1>3, <2>1, DeliverType
       DEF NotifyRevoke, StoreTypeOK, SocketTypeOK, entryVars, sessionVars, socketVars,
           cookieVars, connVars
<1> QED
  BY <1>2, <1>3

LEMMA TypeCleaner ==
  ASSUME RelayTypeOK, Cleanup \/ Lapse
  PROVE  RelayTypeOK'
<1> USE DEF RelayTypeOK
<1>1. CASE RemovePairing
  BY <1>1
     DEF RemovePairing, RemoveEntry, StoreTypeOK, StreamTypeOK, SocketTypeOK, sessionVars,
         urlVars, channelVars, streamVars, socketVars, cookieVars, connVars
<1>2. CASE PurgePairing
  <2>1. conn' \in [Conns -> ConnPhase] /\ local' \in [Conns -> Local]
    BY <1>2, DropTicketsType DEF PurgePairing
  <2>2. cookie' \in [Browsers -> {"none", "stored", "expired", "deleted"}]
    BY <1>2 DEF PurgePairing, Forgotten, SocketTypeOK
  <2> QED
    BY <1>2, <2>1, <2>2
       DEF PurgePairing, StoreTypeOK, StreamTypeOK, SocketTypeOK, storeVars, entryVars,
           sessionVars, urlVars, channelVars, streamVars
<1>3. CASE SweepStores
  <2>1. conn' \in [Conns -> ConnPhase] /\ local' \in [Conns -> Local]
    BY <1>3, DropTicketsType DEF SweepStores, SocketTypeOK
  <2>2. cookie' \in [Browsers -> {"none", "stored", "expired", "deleted"}]
    BY <1>3 DEF SweepStores, Forgotten, SocketTypeOK
  <2> QED
    BY <1>3, <2>1, <2>2
       DEF SweepStores, StoreTypeOK, StreamTypeOK, SocketTypeOK, storeVars, entryVars,
           sessionVars, urlVars, channelVars, streamVars
<1>4. CASE Lapse
  BY <1>4
     DEF Lapse, StoreTypeOK, StreamTypeOK, SocketTypeOK, sessionVars, urlVars, channelVars,
         streamVars, socketVars, cookieVars, connVars
<1> QED
  BY <1>1, <1>2, <1>3, <1>4 DEF Cleanup

LEMMA TypeStep ==
  RelayTypeOK /\ [Next]_vars => RelayTypeOK'
<1> SUFFICES ASSUME RelayTypeOK, [Next]_vars PROVE RelayTypeOK'
  OBVIOUS
<1>1. CASE StreamNext /\ UNCHANGED <<socketVars, cleaner>>
  BY <1>1, TypeStream DEF StreamNext
<1>2. CASE SocketNext /\ UNCHANGED <<streamVars, cleaner>>
  BY <1>2, TypeSocket, TypeBrowser, TypeRevoke DEF SocketNext, NoticeHandler
<1>3. CASE Cleanup \/ Lapse
  BY <1>3, TypeCleaner
<1>4. CASE UNCHANGED vars
  BY <1>4
     DEF vars, RelayTypeOK, StoreTypeOK, StreamTypeOK, SocketTypeOK, storeVars, entryVars,
         sessionVars, urlVars, channelVars, streamVars, socketVars, cookieVars, connVars
<1> QED
  BY <1>1, <1>2, <1>3, <1>4 DEF Next

(* Every variable of the pairing keeps its type in every behaviour.        *)
THEOREM TypeCorrect == Spec => []RelayTypeOK
BY TypeInit, TypeStep, PTL DEF Spec

-----------------------------------------------------------------------------
(* Phones.  The two invariants are inductive together, given the types.    *)
PhoneInv == NoOrphanedPhone /\ SlotHolderAlive /\ (~exists => activeWs = NoConn)

LEMMA PhoneInit == Init => PhoneInv
BY DEF Init, StoreInit, NoEntry, SocketInit, PhoneInv, NoOrphanedPhone, SlotHolderAlive, Serving

(* A step that leaves the slot alone and takes no connection into service  *)
(* keeps the invariants: this is all that most steps have to show.         *)
LEMMA PhoneKept ==
  ASSUME RelayTypeOK, PhoneInv,
         UNCHANGED <<exists, activeWs, overwritten>>,
         ordered \subseteq ordered',
         \A c \in Conns : conn'[c] \in Serving => conn[c] \in Serving,
         \A c \in Conns : conn[c] \in Owning => conn'[c] \in Owning
  PROVE  PhoneInv'
<1>1. activeWs # NoConn => activeWs \in Conns
  BY DEF RelayTypeOK, StoreTypeOK
<1>2. SlotHolderAlive'
  BY <1>1 DEF PhoneInv, SlotHolderAlive
<1>3. NoOrphanedPhone'
  BY DEF PhoneInv, NoOrphanedPhone
<1> QED
  BY <1>2, <1>3 DEF PhoneInv

LEMMA PhoneStream ==
  ASSUME RelayTypeOK, PhoneInv, NEW t \in Tokens, UNCHANGED <<socketVars, cleaner>>,
         StreamHandler(t) \/ StreamEnvironment(t)
  PROVE  PhoneInv'
<1>1. UNCHANGED <<conn, ordered>>
  BY DEF socketVars, connVars
<1>2. CASE InsertPairing(t)
  BY <1>1, <1>2 DEF InsertPairing, PhoneInv, NoOrphanedPhone, SlotHolderAlive
<1>3. CASE ~InsertPairing(t)
  <2>1. UNCHANGED <<exists, activeWs, overwritten>>
    BY <1>3
       DEF StreamHandler, StreamEnvironment, InsertSession, SendSessionToken, LocateSuccessor,
           IndexSuccessor, HandOver, GoOffline, RefreshPairing, MissPairing, StallStream,
           DropStream, storeVars, entryVars
  <2> QED
    BY <1>1, <2>1, PhoneKept
<1> QED
  BY <1>2, <1>3

LEMMA PhoneSocket ==
  ASSUME RelayTypeOK, PhoneInv, NEW c \in Conns,
         SocketHandler(c) \/ SocketEnvironment(c)
  PROVE  PhoneInv'
<1> USE DEF ConnStep, Advance, BeginSend, EndSend, Serving, Owning
<1>0. conn \in [Conns -> ConnPhase] /\ activeWs \in Conns \cup {NoConn} /\ ordered \subseteq Conns
  BY DEF RelayTypeOK, StoreTypeOK, SocketTypeOK
<1>1. CASE \/ \E b \in Browsers : AuthenticateTicket(c, b)
           \/ IssueTicket(c) \/ ExpireTicket(c) \/ UseTicket(c) \/ AcceptUpgrade(c)
           \/ AbandonUpgrade(c)
  <2>1. UNCHANGED <<exists, activeWs, overwritten, ordered>>
    BY <1>1
       DEF AuthenticateTicket, IssueTicket, ExpireTicket, UseTicket, AcceptUpgrade,
           AbandonUpgrade, storeVars, entryVars
  <2>2. /\ conn[c] \in {"none", "authed", "ticketed", "checked", "upgrading"}
        /\ \E p \in {"authed", "ticketed", "checked", "upgrading", "done"} :
             conn' = [conn EXCEPT ![c] = p]
    BY <1>1
       DEF AuthenticateTicket, IssueTicket, ExpireTicket, UseTicket, AcceptUpgrade,
           AbandonUpgrade
  <2> QED
    BY <1>0, <2>1, <2>2, PhoneKept
<1>2. CASE \/ ObeyClose(c) \/ LeaveSocket(c) \/ RefuseMessage(c) \/ AcceptText(c)
           \/ ForwardText(c) \/ MarkConnected(c) \/ ClearSession(c) \/ WriteFrame(c)
           \/ Greet(c) \/ FinishSend(c) \/ GiveUpText(c) \/ SayFarewell(c)
  <2>1. UNCHANGED <<exists, activeWs, overwritten, ordered>>
    BY <1>2
       DEF ObeyClose, LeaveSocket, RefuseMessage, AcceptText, ForwardText, MarkConnected,
           ClearSession, WriteFrame, Greet, FinishSend, GiveUpText, SayFarewell, storeVars,
           entryVars
  <2>2. \/ /\ conn[c] \in Serving
           /\ \E p \in (Serving \ {"registered"}) \cup {"farewell", "closing"} :
                conn' = [conn EXCEPT ![c] = p]
        \/ conn[c] = "farewell" /\ conn' = [conn EXCEPT ![c] = "closing"]
        \/ conn[c] = "closing" /\ conn' = [conn EXCEPT ![c] = "cleared"]
    BY <1>2
       DEF ObeyClose, LeaveSocket, RefuseMessage, AcceptText, ForwardText, MarkConnected,
           ClearSession, WriteFrame, Greet, FinishSend, GiveUpText, SayFarewell
  <2> QED
    BY <1>0, <2>1, <2>2, PhoneKept
<1>3. CASE TakeSlot(c)
  <2>1. CASE exists
    <3>1. /\ conn[c] = "upgrading" /\ conn' = [conn EXCEPT ![c] = "registered"]
          /\ exists' /\ activeWs' = c /\ overwritten' = overwritten
          /\ ordered' = ordered \cup ({activeWs} \ {NoConn})
      BY <1>3, <2>1 DEF TakeSlot, OrderedToClose
    <3>2. NoOrphanedPhone'
      <4> SUFFICES ASSUME ~overwritten', NEW d \in Conns, conn'[d] \in Serving
                   PROVE  d \in ordered' \/ (exists' /\ activeWs' = d)
        BY DEF NoOrphanedPhone
      <4>1. CASE d = c
        BY <3>1, <4>1
      <4>2. CASE d # c
        <5>1. conn[d] \in Serving
          BY <1>0, <3>1, <4>2
        <5>2. d \in ordered \/ activeWs = d
          BY <3>1, <5>1 DEF PhoneInv, NoOrphanedPhone
        <5> QED
          BY <3>1, <5>2, NoConnAssumption
      <4> QED
        BY <4>1, <4>2
    <3>3. SlotHolderAlive'
      BY <1>0, <3>1 DEF SlotHolderAlive
    <3> QED
      BY <3>1, <3>2, <3>3 DEF PhoneInv
  <2>2. CASE ~exists
    <3>1. activeWs = NoConn /\ UNCHANGED <<exists, activeWs, overwritten>>
      BY <1>3, <2>2 DEF TakeSlot, PhoneInv
    <3>2. ordered \subseteq ordered'
      BY <1>3 DEF TakeSlot, OrderedToClose
    <3>3. conn[c] = "upgrading" /\ conn' = [conn EXCEPT ![c] = "done"]
      BY <1>3, <2>2 DEF TakeSlot
    <3> QED
      BY <1>0, <3>1, <3>2, <3>3, PhoneKept
  <2> QED
    BY <2>1, <2>2
<1>4. CASE ReturnSlot(c)
  BY <1>0, <1>4 DEF ReturnSlot, SlotAfter, PhoneInv, NoOrphanedPhone, SlotHolderAlive
<1>5. CASE Part(c)
  <2>1. /\ UNCHANGED <<exists, activeWs, overwritten>>
        /\ conn[c] = "parting" /\ conn' = [conn EXCEPT ![c] = "done"]
        /\ ordered' = ordered \ {c}
    BY <1>5 DEF Part, entryVars
  <2>2. NoOrphanedPhone'
    BY <1>0, <2>1 DEF PhoneInv, NoOrphanedPhone
  <2>3. SlotHolderAlive'
    BY <1>0, <2>1 DEF PhoneInv, SlotHolderAlive
  <2> QED
    BY <2>1, <2>2, <2>3 DEF PhoneInv
<1>6. CASE StallPhone(c)
  <2>1. UNCHANGED <<exists, activeWs, overwritten, ordered, conn>>
    BY <1>6 DEF StallPhone, entryVars, socketVars, connVars
  <2> QED
    BY <2>1, PhoneKept
<1> QED
  BY <1>1, <1>2, <1>3, <1>4, <1>5, <1>6 DEF SocketHandler, SocketEnvironment, SendOver

(* Dropped tickets are of connections that nobody serves yet.              *)
LEMMA DropTicketsServing ==
  ASSUME RelayTypeOK, DropTickets
  PROVE  \A c \in Conns : /\ conn'[c] \in Serving <=> conn[c] \in Serving
                          /\ conn'[c] \in Owning <=> conn[c] \in Owning
BY DEF DropTickets, Serving, Owning, RelayTypeOK, SocketTypeOK

(* A bootstrap or a revocation empties the slot and orders its owner out.  *)
LEMMA PhoneEvicted ==
  ASSUME RelayTypeOK, PhoneInv, UNCHANGED <<exists, overwritten>>,
         ordered' = OrderedToClose(activeWs), activeWs' = NoConn,
         \A c \in Conns : conn'[c] \in Serving => conn[c] \in Serving
  PROVE  PhoneInv'
BY DEF PhoneInv, NoOrphanedPhone, SlotHolderAlive, OrderedToClose, RelayTypeOK, StoreTypeOK

LEMMA PhoneOther ==
  ASSUME RelayTypeOK, PhoneInv,
         \/ \E b \in Browsers :
              Bootstrap(b) \/ FindStream(b) \/ NotifyBootstrap(b) \/ ExpireCookie(b)
         \/ \E t \in Tokens : Revoke(t) \/ NotifyRevoke(t)
         \/ Cleanup
         \/ Lapse
  PROVE  PhoneInv'
<1>1. CASE \E b \in Browsers : Bootstrap(b)
  BY <1>1, DropTicketsServing, PhoneEvicted DEF Bootstrap
<1>2. CASE \E t \in Tokens : Revoke(t)
  BY <1>2, PhoneEvicted DEF Revoke
<1>3. CASE \/ \E b \in Browsers : FindStream(b) \/ NotifyBootstrap(b) \/ ExpireCookie(b)
           \/ \E t \in Tokens : NotifyRevoke(t)
           \/ Lapse
  <2>1. UNCHANGED <<exists, activeWs, overwritten, conn, ordered>>
    BY <1>3
       DEF FindStream, NotifyBootstrap, ExpireCookie, NotifyRevoke, Lapse, storeVars, entryVars, socketVars,
           connVars
  <2> QED
    BY <2>1, PhoneKept
<1>4. CASE RemovePairing
  <2>1. /\ activeWs = NoConn /\ activeWs' = NoConn /\ ~exists'
        /\ UNCHANGED <<conn, ordered, overwritten>>
    BY <1>4 DEF RemovePairing, Removable, RemoveEntry, socketVars, connVars
  <2>2. NoOrphanedPhone'
    BY <2>1, NoConnAssumption DEF PhoneInv, NoOrphanedPhone
  <2> QED
    BY <2>1, <2>2 DEF PhoneInv, SlotHolderAlive
<1>5. CASE PurgePairing \/ SweepStores
  <2>1. UNCHANGED <<exists, activeWs, overwritten, ordered>>
    BY <1>5 DEF PurgePairing, SweepStores, storeVars, entryVars
  <2>2. DropTickets \/ UNCHANGED conn
    BY <1>5 DEF PurgePairing, SweepStores
  <2> QED
    BY <2>1, <2>2, DropTicketsServing, PhoneKept
<1> QED
  BY <1>1, <1>2, <1>3, <1>4, <1>5 DEF Cleanup

LEMMA PhoneStep ==
  RelayTypeOK /\ PhoneInv /\ [Next]_vars => PhoneInv'
<1> SUFFICES ASSUME RelayTypeOK, PhoneInv, [Next]_vars PROVE PhoneInv'
  OBVIOUS
<1>1. CASE StreamNext /\ UNCHANGED <<socketVars, cleaner>>
  BY <1>1, PhoneStream DEF StreamNext
<1>2. CASE SocketNext
  BY <1>2, PhoneSocket, PhoneOther DEF SocketNext, NoticeHandler
<1>3. CASE Cleanup \/ Lapse
  BY <1>3, PhoneOther
<1>4. CASE UNCHANGED vars
  <2>1. UNCHANGED <<exists, activeWs, overwritten, conn, ordered>>
    BY <1>4 DEF vars, storeVars, entryVars, socketVars, connVars
  <2> QED
    BY <2>1, PhoneKept
<1> QED
  BY <1>1, <1>2, <1>3, <1>4 DEF Next

LEMMA PhoneInvariant == Spec => []PhoneInv
<1>1. Spec => []RelayTypeOK
  BY TypeCorrect
<1> QED
  BY <1>1, PhoneInit, PhoneStep, PTL DEF Spec

(* No connection is served that nothing can reach any more, unless an      *)
(* insert has overwritten an entry and dropped its slot.                   *)
THEOREM PhonesAccountedFor == Spec => []NoOrphanedPhone
BY PhoneInvariant, PTL DEF PhoneInv

(* At most one phone types into a PC, whatever replaced, superseded or     *)
(* revoked the others and however their upgrades interleaved, with the     *)
(* same exception.                                                         *)
THEOREM SinglePhone == Spec => []OnePhoneAtATime
<1>1. PhoneInv => OnePhoneAtATime
  BY DEF PhoneInv, NoOrphanedPhone, OnePhoneAtATime
<1> QED
  BY <1>1, PhoneInvariant, PTL

(* The slot never holds a connection whose handler has given it back or    *)
(* returned.                                                               *)
THEOREM SlotNeverDead == Spec => []SlotHolderAlive
BY PhoneInvariant, PTL DEF PhoneInv

-----------------------------------------------------------------------------
(* Streams.  An online pairing has somebody who will take it offline: a    *)
(* stream that is not through with its destructor, and that, if it has     *)
(* looked already, found no successor to leave this to.                    *)
Answers(t) ==
  \/ stream[t] \in {"upserted", "inserted", "live", "removed"}
  \/ stream[t] \in {"located", "indexed"} /\ successor[t] = NoToken

StoredStreams == sessions = {t \in Tokens : stream[t] \in {"inserted", "live"}}
SomebodyAnswers == online => \E t \in Tokens : Answers(t)
StreamInv == StoredStreams /\ SomebodyAnswers

LEMMA StreamInvInit == Init => StreamInv
BY DEF Init, StoreInit, NoEntry, StreamInit, StreamInv, StoredStreams, SomebodyAnswers

LEMMA StreamInvStream ==
  ASSUME RelayTypeOK, StreamInv, NEW t \in Tokens, StreamHandler(t) \/ StreamEnvironment(t)
  PROVE  StreamInv'
<1> USE DEF StreamStep
<1>0. stream \in [Tokens -> StreamPhase] /\ successor \in [Tokens -> Tokens \cup {NoToken}]
  BY DEF RelayTypeOK, StreamTypeOK
<1>1. CASE InsertPairing(t) \/ RefreshPairing(t) \/ MissPairing(t)
  <2>1. sessions' = sessions /\ successor' = successor
    BY <1>1 DEF InsertPairing, RefreshPairing, MissPairing, storeVars, sessionVars
  <2>2. \/ /\ stream[t] \in {"new", "missing"}
           /\ stream' = [stream EXCEPT ![t] = "upserted"]
        \/ /\ stream[t] = "new" /\ stream' = [stream EXCEPT ![t] = "missing"]
           /\ online' = online
    BY <1>1 DEF InsertPairing, RefreshPairing, MissPairing, storeVars, entryVars
  <2> QED
    BY <1>0, <2>1, <2>2 DEF StreamInv, StoredStreams, SomebodyAnswers, Answers
<1>2. CASE InsertSession(t) \/ SendSessionToken(t)
  <2>1. successor' = successor /\ online' = online
    BY <1>2 DEF InsertSession, SendSessionToken, entryVars
  <2>2. \/ /\ stream[t] = "upserted" /\ stream' = [stream EXCEPT ![t] = "inserted"]
           /\ sessions' = sessions \cup {t}
        \/ /\ stream[t] = "inserted" /\ stream' = [stream EXCEPT ![t] = "live"]
           /\ sessions' = sessions
    BY <1>2 DEF InsertSession, SendSessionToken, sessionVars
  <2> QED
    BY <1>0, <2>1, <2>2 DEF StreamInv, StoredStreams, SomebodyAnswers, Answers
<1>3. CASE DropStream(t)
  <2>1. successor' = successor /\ online' = online /\ sessions' = sessions \ {t}
    BY <1>3 DEF DropStream, entryVars
  <2>2. stream[t] = "live" /\ stream' = [stream EXCEPT ![t] = "removed"]
    BY <1>3 DEF DropStream
  <2> QED
    BY <1>0, <2>1, <2>2 DEF StreamInv, StoredStreams, SomebodyAnswers, Answers
<1>4. CASE LocateSuccessor(t)
  <2>1. UNCHANGED <<online, sessions>>
    BY <1>4 DEF LocateSuccessor, storeVars, entryVars, sessionVars
  <2>2. /\ stream[t] = "removed" /\ stream' = [stream EXCEPT ![t] = "located"]
        /\ successor' = [successor EXCEPT ![t] = LatestToken]
    BY <1>4 DEF LocateSuccessor
  <2>3. StoredStreams'
    BY <1>0, <2>1, <2>2 DEF StreamInv, StoredStreams
  <2>4. CASE LatestToken = NoToken
    <3>1. Answers(t)'
      BY <1>0, <2>2, <2>4 DEF Answers
    <3> QED
      BY <2>3, <3>1 DEF StreamInv, SomebodyAnswers
  <2>5. CASE LatestToken # NoToken
    <3>1. LatestToken \in Tokens /\ stream[LatestToken] \in {"inserted", "live"}
      BY <2>5, LatestTokenStored DEF StreamInv, StoredStreams
    <3>2. stream'[LatestToken] \in {"inserted", "live"}
      BY <1>0, <2>2, <3>1
    <3>3. \E u \in Tokens : Answers(u)'
      BY <3>1, <3>2 DEF Answers
    <3> QED
      BY <2>3, <3>3 DEF StreamInv, SomebodyAnswers
  <2> QED
    BY <2>4, <2>5
<1>5. CASE IndexSuccessor(t)
  <2>1. UNCHANGED <<online, sessions, successor>>
    BY <1>5 DEF IndexSuccessor, sessionVars
  <2>2. stream[t] = "located" /\ stream' = [stream EXCEPT ![t] = "indexed"]
    BY <1>5 DEF IndexSuccessor
  <2> QED
    BY <1>0, <2>1, <2>2 DEF StreamInv, StoredStreams, SomebodyAnswers, Answers
<1>6. CASE HandOver(t)
  <2>1. /\ UNCHANGED <<online, sessions>>
        /\ successor[t] # NoToken
        /\ successor' = [successor EXCEPT ![t] = NoToken]
    BY <1>6 DEF HandOver, entryVars
  <2>2. stream[t] = "indexed" /\ stream' = [stream EXCEPT ![t] = "gone"]
    BY <1>6 DEF HandOver
  <2> QED
    BY <1>0, <2>1, <2>2 DEF StreamInv, StoredStreams, SomebodyAnswers, Answers
<1>7. CASE GoOffline(t)
  <2>1. ~online' /\ sessions' = sessions
    BY <1>7 DEF GoOffline
  <2>2. stream[t] = "indexed" /\ stream' = [stream EXCEPT ![t] = "gone"]
    BY <1>7 DEF GoOffline
  <2> QED
    BY <1>0, <2>1, <2>2 DEF StreamInv, StoredStreams, SomebodyAnswers
<1>8. CASE StallStream(t)
  <2>1. UNCHANGED <<online, sessions, stream, successor>>
    BY <1>8 DEF StallStream, entryVars, sessionVars, streamVars
  <2> QED
    BY <2>1 DEF StreamInv, StoredStreams, SomebodyAnswers, Answers
<1> QED
  BY <1>1, <1>2, <1>3, <1>4, <1>5, <1>6, <1>7, <1>8 DEF StreamHandler, StreamEnvironment

LEMMA StreamInvOther ==
  ASSUME StreamInv, UNCHANGED streamVars, SocketNext \/ Cleanup \/ Lapse
  PROVE  StreamInv'
<1>1. sessions' = sessions /\ (online' = online \/ ~online')
  BY DEF SocketNext, SocketHandler, SocketEnvironment, NoticeHandler, Bootstrap,
         FindStream, NotifyBootstrap, Revoke, NotifyRevoke, AuthenticateTicket, IssueTicket,
         ExpireTicket, UseTicket, AcceptUpgrade, AbandonUpgrade, TakeSlot, MarkConnected,
         ObeyClose, LeaveSocket, RefuseMessage, AcceptText, ForwardText, ClearSession,
         ReturnSlot, StallPhone, WriteFrame, SendOver, Greet, FinishSend, GiveUpText,
         SayFarewell, Part,
         ExpireCookie, Cleanup, RemovePairing, RemoveEntry, PurgePairing, SweepStores, Lapse,
         storeVars, entryVars, sessionVars
<1> QED
  BY <1>1 DEF StreamInv, StoredStreams, SomebodyAnswers, Answers, streamVars

LEMMA StreamInvStep ==
  RelayTypeOK /\ StreamInv /\ [Next]_vars => StreamInv'
<1> SUFFICES ASSUME RelayTypeOK, StreamInv, [Next]_vars PROVE StreamInv'
  OBVIOUS
<1>1. CASE StreamNext
  BY <1>1, StreamInvStream DEF StreamNext
<1>2. CASE SocketNext /\ UNCHANGED <<streamVars, cleaner>>
  BY <1>2, StreamInvOther
<1>3. CASE Cleanup \/ Lapse
  <2>1. UNCHANGED streamVars
    BY <1>3 DEF Cleanup, RemovePairing, PurgePairing, SweepStores, Lapse
  <2> QED
    BY <1>3, <2>1, StreamInvOther
<1>4. CASE UNCHANGED vars
  BY <1>4
     DEF vars, streamVars, storeVars, entryVars, sessionVars, StreamInv, StoredStreams,
         SomebodyAnswers, Answers
<1> QED
  BY <1>1, <1>2, <1>3, <1>4 DEF Next

(* Once the last PC stream is dropped the pairing is offline, however the  *)
(* destructors of overlapping streams interleave with new Subscribe calls. *)
THEOREM GoneMeansOffline == Spec => []OfflineWhenGone
<1>1. Spec => []RelayTypeOK
  BY TypeCorrect
<1>2. StreamInv => OfflineWhenGone
  BY DEF StreamInv, SomebodyAnswers, Answers, OfflineWhenGone
<1> QED
  BY <1>1, <1>2, StreamInvInit, StreamInvStep, PTL DEF Spec

-----------------------------------------------------------------------------
(* Three promises that the code keeps but for one race each.  The theorems *)
(* assume that the race does not occur, and nothing else: so the race that *)
(* is named is the only way to break the promise.                          *)

(* A destructor that has found no successor and is about to take the       *)
(* pairing offline, while a Subscribe call has come back (grpc.rs:322,     *)
(* 346, 436).                                                              *)
LeavesAlone(t) == stream[t] \in {"located", "indexed"} /\ successor[t] = NoToken

NoReturnMeanwhile == \A t, u \in Tokens : stream[t] = "upserted" => ~LeavesAlone(u)

OnlineInv ==
  /\ StoredStreams
  /\ \A t \in Tokens : stream[t] \in {"upserted", "inserted", "live"} => exists /\ online
  /\ \A t, u \in Tokens : stream[t] \in {"inserted", "live"} => ~LeavesAlone(u)

(* A stored session has one created last, so the scan finds one.           *)
LEMMA LatestTokenSome ==
  ASSUME RelayTypeOK, sessions # {}
  PROVE  LatestToken # NoToken
<1>0. sessions \in SUBSET Tokens /\ createdAt \in [Tokens -> Nat]
  BY DEF RelayTypeOK, StoreTypeOK
<1> DEFINE last(S) == {t \in S : \A u \in S : createdAt[u] <= createdAt[t]}
           P == {S \in SUBSET Tokens : S # {} => last(S) # {}}
<1>1. ASSUME NEW S \in SUBSET Tokens, \A x \in S : S \ {x} \in P, S # {}
      PROVE  last(S) # {}
  <2>1. PICK x \in S : TRUE
    BY <1>1
  <2>2. CASE S \ {x} = {}
    <3>1. x \in last(S)
      BY <1>0, <2>1, <2>2
    <3> QED
      BY <3>1
  <2>3. CASE S \ {x} # {}
    <3>1. last(S \ {x}) # {}
      BY <1>1, <2>1, <2>3
    <3>2. PICK y \in S \ {x} : \A u \in S \ {x} : createdAt[u] <= createdAt[y]
      BY <3>1
    <3>3. x \in last(S) \/ y \in last(S)
      BY <1>0, <2>1, <3>2
    <3> QED
      BY <3>3
  <2> QED
    BY <2>2, <2>3
<1>2. sessions \in P
  <2>1. \A S \in SUBSET Tokens : (\A x \in S : S \ {x} \in P) => S \in P
    BY <1>1
  <2> HIDE DEF P
  <2> QED
    BY <1>0, <2>1, TokensAssumption, SubsetsByInduction
<1>3. last(sessions) # {}
  BY <1>2
<1>4. Newest \in sessions
  BY <1>3 DEF Newest
<1> QED
  BY <1>0, <1>4, NoTokenAssumption DEF LatestToken

LEMMA OnlineStream ==
  ASSUME RelayTypeOK, StreamInv', OnlineInv, NoReturnMeanwhile, NEW t \in Tokens,
         StreamHandler(t) \/ StreamEnvironment(t)
  PROVE  OnlineInv'
<1> USE DEF StreamStep
<1>0. /\ stream \in [Tokens -> StreamPhase]
      /\ successor \in [Tokens -> Tokens \cup {NoToken}]
      /\ StoredStreams'
  BY DEF RelayTypeOK, StreamTypeOK, StreamInv
<1>1. CASE InsertPairing(t) \/ RefreshPairing(t)
  <2>1. /\ exists' /\ online' /\ successor' = successor
        /\ stream[t] \in {"new", "missing"} /\ stream' = [stream EXCEPT ![t] = "upserted"]
    BY <1>1 DEF InsertPairing, RefreshPairing
  <2> QED
    BY <1>0, <2>1 DEF OnlineInv, LeavesAlone
<1>2. CASE MissPairing(t)
  <2>1. /\ UNCHANGED <<exists, online, successor>>
        /\ stream' = [stream EXCEPT ![t] = "missing"]
    BY <1>2 DEF MissPairing, storeVars, entryVars
  <2> QED
    BY <1>0, <2>1 DEF OnlineInv, LeavesAlone
<1>3. CASE InsertSession(t) \/ SendSessionToken(t)
  <2>1. /\ UNCHANGED <<exists, online, successor>>
        /\ \/ stream[t] = "upserted" /\ stream' = [stream EXCEPT ![t] = "inserted"]
           \/ stream[t] = "inserted" /\ stream' = [stream EXCEPT ![t] = "live"]
    BY <1>3 DEF InsertSession, SendSessionToken, entryVars
  <2> QED
    BY <1>0, <2>1 DEF OnlineInv, LeavesAlone, NoReturnMeanwhile
<1>4. CASE DropStream(t)
  <2>1. /\ UNCHANGED <<exists, online, successor>>
        /\ stream' = [stream EXCEPT ![t] = "removed"]
    BY <1>4 DEF DropStream, entryVars
  <2> QED
    BY <1>0, <2>1 DEF OnlineInv, LeavesAlone
<1>5. CASE LocateSuccessor(t)
  <2>1. /\ UNCHANGED <<exists, online, sessions>>
        /\ stream' = [stream EXCEPT ![t] = "located"]
        /\ successor' = [successor EXCEPT ![t] = LatestToken]
    BY <1>5 DEF LocateSuccessor, storeVars, entryVars, sessionVars
  <2>2. LatestToken = NoToken => \A u \in Tokens : stream[u] \notin {"inserted", "live"}
    BY LatestTokenSome DEF OnlineInv, StoredStreams
  <2> QED
    BY <1>0, <2>1, <2>2 DEF OnlineInv, LeavesAlone
<1>6. CASE IndexSuccessor(t)
  <2>1. /\ UNCHANGED <<exists, online, successor>>
        /\ stream[t] = "located" /\ stream' = [stream EXCEPT ![t] = "indexed"]
    BY <1>6 DEF IndexSuccessor
  <2> QED
    BY <1>0, <2>1 DEF OnlineInv, LeavesAlone
<1>7. CASE HandOver(t)
  <2>1. /\ UNCHANGED <<exists, online>>
        /\ stream' = [stream EXCEPT ![t] = "gone"]
        /\ successor' = [successor EXCEPT ![t] = NoToken]
    BY <1>7 DEF HandOver, entryVars
  <2> QED
    BY <1>0, <2>1 DEF OnlineInv, LeavesAlone
<1>8. CASE GoOffline(t)
  <2>1. /\ LeavesAlone(t) /\ successor' = successor
        /\ stream' = [stream EXCEPT ![t] = "gone"]
    BY <1>8 DEF GoOffline, LeavesAlone
  <2>2. \A u \in Tokens : stream'[u] \notin {"upserted", "inserted", "live"}
    BY <1>0, <2>1 DEF OnlineInv, NoReturnMeanwhile
  <2> QED
    BY <1>0, <2>2 DEF OnlineInv
<1>9. CASE StallStream(t)
  <2>1. UNCHANGED <<exists, online, stream, successor>>
    BY <1>9 DEF StallStream, entryVars, streamVars
  <2> QED
    BY <1>0, <2>1 DEF OnlineInv, LeavesAlone
<1> QED
  BY <1>1, <1>2, <1>3, <1>4, <1>5, <1>6, <1>7, <1>8, <1>9 DEF StreamHandler, StreamEnvironment

LEMMA OnlineOther ==
  ASSUME StreamInv', OnlineInv, UNCHANGED streamVars, SocketNext \/ Cleanup \/ Lapse
  PROVE  OnlineInv'
<1>1. CASE RemovePairing
  <2>1. \A t \in Tokens : stream[t] \notin {"upserted", "inserted", "live"}
    BY <1>1 DEF RemovePairing, Removable, OnlineInv
  <2> QED
    BY <2>1 DEF OnlineInv, StreamInv, streamVars
<1>2. CASE ~RemovePairing
  <2>1. UNCHANGED <<exists, online>>
    BY <1>2
    DEF SocketNext, SocketHandler, SocketEnvironment, NoticeHandler, Bootstrap,
        FindStream, NotifyBootstrap, Revoke, NotifyRevoke, AuthenticateTicket, IssueTicket,
        ExpireTicket, UseTicket, AcceptUpgrade, AbandonUpgrade, TakeSlot, MarkConnected,
        ObeyClose, LeaveSocket, RefuseMessage, AcceptText, ForwardText, ClearSession,
        ReturnSlot, StallPhone, WriteFrame, SendOver, Greet, FinishSend, GiveUpText,
        SayFarewell, Part,
        ExpireCookie, Cleanup, PurgePairing, SweepStores, Lapse, storeVars, entryVars
  <2> QED
    BY <2>1 DEF OnlineInv, StreamInv, streamVars, LeavesAlone
<1> QED
  BY <1>1, <1>2

LEMMA OnlineStep ==
  RelayTypeOK /\ StreamInv' /\ OnlineInv /\ NoReturnMeanwhile /\ [Next]_vars => OnlineInv'
<1> SUFFICES ASSUME RelayTypeOK, StreamInv', OnlineInv, NoReturnMeanwhile, [Next]_vars
             PROVE  OnlineInv'
  OBVIOUS
<1>1. CASE StreamNext
  BY <1>1, OnlineStream DEF StreamNext
<1>2. CASE SocketNext /\ UNCHANGED <<streamVars, cleaner>>
  BY <1>2, OnlineOther
<1>3. CASE Cleanup \/ Lapse
  <2>1. UNCHANGED streamVars
    BY <1>3 DEF Cleanup, RemovePairing, PurgePairing, SweepStores, Lapse
  <2> QED
    BY <1>3, <2>1, OnlineOther
<1>4. CASE UNCHANGED vars
  BY <1>4
  DEF vars, storeVars, entryVars, sessionVars, streamVars, OnlineInv, StoredStreams, LeavesAlone
<1> QED
  BY <1>1, <1>2, <1>3, <1>4 DEF Next

(* A pairing with a live stream and nothing under way is online (grpc.rs:  *)
(* 793), unless a Subscribe call came back between a destructor's look for *)
(* a successor and its taking the pairing offline.                         *)
THEOREM OnlineButForOneRace ==
  Spec /\ []NoReturnMeanwhile => []OnlineWhenConnected
<1>1. Init => OnlineInv
  BY DEF Init, StoreInit, StreamInit, OnlineInv, StoredStreams, LeavesAlone
<1>2. OnlineInv => OnlineWhenConnected
  BY DEF OnlineInv, StoredStreams, OnlineWhenConnected
<1>3. Spec => []RelayTypeOK /\ []StreamInv
  BY TypeInit, TypeStep, StreamInvInit, StreamInvStep, PTL DEF Spec
<1> QED
  BY <1>1, <1>2, <1>3, OnlineStep, PTL DEF Spec

-----------------------------------------------------------------------------
(* Two first Subscribe calls of one PC between look-up and insert          *)
(* (grpc.rs:459).                                                          *)
FirstCallsApart ==
  \A t, u \in Tokens : stream[t] = "missing" /\ stream[u] = "missing" => t = u

OverwriteInv ==
  ~overwritten /\ (exists => \A t \in Tokens : stream[t] # "missing")

LEMMA OverwriteStep ==
  RelayTypeOK /\ OverwriteInv /\ FirstCallsApart /\ [Next]_vars => OverwriteInv'
<1> SUFFICES ASSUME RelayTypeOK, OverwriteInv, FirstCallsApart, [Next]_vars
             PROVE  OverwriteInv'
  OBVIOUS
<1>0. stream \in [Tokens -> StreamPhase]
  BY DEF RelayTypeOK, StreamTypeOK
<1>1. ASSUME NEW t \in Tokens, StreamHandler(t) \/ StreamEnvironment(t) PROVE OverwriteInv'
  <2>1. CASE InsertPairing(t)
    <3>1. ~overwritten' /\ \A u \in Tokens : stream'[u] # "missing"
      BY <1>0, <2>1 DEF InsertPairing, StreamStep, OverwriteInv, FirstCallsApart
    <3> QED
      BY <3>1 DEF OverwriteInv
  <2>2. CASE MissPairing(t)
    BY <2>2 DEF MissPairing, storeVars, entryVars, OverwriteInv
  <2>3. CASE ~InsertPairing(t) /\ ~MissPairing(t)
    <3>1. UNCHANGED <<exists, overwritten>>
      BY <1>1, <2>3
      DEF StreamHandler, StreamEnvironment, InsertSession, SendSessionToken, LocateSuccessor,
          IndexSuccessor, HandOver, GoOffline, RefreshPairing, StallStream, DropStream,
          storeVars, entryVars
    <3>2. \/ stream' = stream
          \/ \E phase \in StreamPhase \ {"missing"} : stream' = [stream EXCEPT ![t] = phase]
      BY <1>1, <2>3
      DEF StreamHandler, StreamEnvironment, InsertSession, SendSessionToken, LocateSuccessor,
          IndexSuccessor, HandOver, GoOffline, RefreshPairing, StallStream, DropStream,
          StreamStep, StreamPhase, streamVars
    <3> QED
      BY <1>0, <3>1, <3>2 DEF OverwriteInv
  <2> QED
    BY <2>1, <2>2, <2>3
<1>2. CASE UNCHANGED streamVars /\ (SocketNext \/ Cleanup \/ Lapse)
  <2>1. overwritten' = overwritten /\ (exists' = exists \/ ~exists')
    BY <1>2
    DEF SocketNext, SocketHandler, SocketEnvironment, NoticeHandler, Bootstrap,
        FindStream, NotifyBootstrap, Revoke, NotifyRevoke, AuthenticateTicket, IssueTicket,
        ExpireTicket, UseTicket, AcceptUpgrade, AbandonUpgrade, TakeSlot, MarkConnected,
        ObeyClose, LeaveSocket, RefuseMessage, AcceptText, ForwardText, ClearSession,
        ReturnSlot, StallPhone, WriteFrame, SendOver, Greet, FinishSend, GiveUpText,
        SayFarewell, Part,
        ExpireCookie, Cleanup, RemovePairing, RemoveEntry, PurgePairing, SweepStores, Lapse,
        storeVars, entryVars
  <2> QED
    BY <1>2, <2>1 DEF OverwriteInv, streamVars
<1>3. Cleanup \/ Lapse => UNCHANGED streamVars
  BY DEF Cleanup, RemovePairing, PurgePairing, SweepStores, Lapse
<1>4. CASE UNCHANGED vars
  BY <1>4 DEF vars, storeVars, entryVars, streamVars, OverwriteInv
<1> QED
  BY <1>1, <1>2, <1>3, <1>4 DEF Next, StreamNext

(* No entry is replaced by another, and so one phone at most is served at  *)
(* any time, unless two first Subscribe calls of a PC are under way at     *)
(* once.                                                                   *)
THEOREM OnePhoneButForOneRace ==
  Spec /\ []FirstCallsApart =>
    [](~overwritten /\ NoOrphanedPhone /\ OnePhoneAtATime)
<1>1. Init => OverwriteInv
  BY DEF Init, StoreInit, StreamInit, OverwriteInv
<1>2. OverwriteInv => ~overwritten
  BY DEF OverwriteInv
<1>3. Spec => []RelayTypeOK
  BY TypeCorrect
<1> QED
  BY <1>1, <1>2, <1>3, OverwriteStep, PhonesAccountedFor, SinglePhone, PTL DEF Spec

-----------------------------------------------------------------------------
(* A change of the epoch while an upgrade that has been accepted has not   *)
(* taken the slot yet (web.rs:1999).                                       *)
EpochStaysForUpgrades ==
  [][epoch' # epoch => \A c \in Conns : conn[c] # "upgrading"]_vars

Attempted(c) == conn[c] \notin {"none", "done"}
FreshIfStored(c) == cookie[Browser(c)] = "stored" => cookieEpoch[Browser(c)] = epoch

EpochInv ==
  /\ \A c \in Conns : Attempted(c) => Browser(c) \in Browsers
  /\ \A c \in Conns : conn[c] = "upgrading" \/ activeWs = c => FreshIfStored(c)

(* What most steps have to show: no epoch, no session and no upgrade is    *)
(* new, and a connection keeps the browser it is for.                      *)
LEMMA EpochKept ==
  ASSUME EpochInv, RelayTypeOK', PhoneInv',
         activeWs' \in {activeWs, NoConn},
         UNCHANGED <<epoch, cookieEpoch>>,
         \A b \in Browsers : cookie'[b] = "stored" => cookie[b] = "stored",
         \A c \in Conns : Attempted(c)' => Attempted(c) /\ Browser(c)' = Browser(c),
         \A c \in Conns : conn'[c] = "upgrading" => conn[c] = "upgrading"
  PROVE  EpochInv'
<1>1. \A c \in Conns : Attempted(c)' => Browser(c)' \in Browsers
  BY DEF EpochInv
<1>2. ASSUME NEW c \in Conns, conn'[c] = "upgrading" \/ activeWs' = c
      PROVE  FreshIfStored(c)'
  <2>1. Attempted(c)'
    BY <1>2, NoConnAssumption
    DEF PhoneInv, SlotHolderAlive, Owning, Serving, Attempted, RelayTypeOK, SocketTypeOK
  <2>2. Attempted(c) /\ Browser(c)' = Browser(c) /\ Browser(c) \in Browsers
    BY <2>1 DEF EpochInv
  <2>3. FreshIfStored(c)
    BY <1>2, NoConnAssumption DEF EpochInv
  <2> QED
    BY <2>2, <2>3 DEF FreshIfStored
<1> QED
  BY <1>1, <1>2 DEF EpochInv

LEMMA EpochMoved ==
  ASSUME EpochInv, RelayTypeOK', PhoneInv', activeWs' = NoConn,
         UNCHANGED <<cookie, cookieEpoch, conn, local>>,
         epoch' # epoch => \A c \in Conns : conn[c] # "upgrading"
  PROVE  EpochInv'
<1>1. CASE epoch' = epoch
  BY <1>1, EpochKept DEF Attempted, Browser
<1>2. CASE epoch' # epoch
  BY <1>2, NoConnAssumption DEF EpochInv, Attempted, Browser
<1> QED
  BY <1>1, <1>2

LEMMA EpochStream ==
  ASSUME EpochInv, RelayTypeOK', PhoneInv', NEW t \in Tokens,
         StreamHandler(t) \/ StreamEnvironment(t), UNCHANGED socketVars,
         epoch' # epoch => \A c \in Conns : conn[c] # "upgrading"
  PROVE  EpochInv'
<1>0. UNCHANGED <<cookie, cookieEpoch, conn, local>>
  BY DEF socketVars, cookieVars, connVars
<1>1. CASE InsertPairing(t)
  <2>1. activeWs' = NoConn
    BY <1>1 DEF InsertPairing
  <2> QED
    BY <1>0, <2>1, EpochMoved
<1>2. CASE ~InsertPairing(t)
  <2>1. UNCHANGED <<epoch, activeWs>>
    BY <1>2
    DEF StreamHandler, StreamEnvironment, InsertSession, SendSessionToken, LocateSuccessor,
        IndexSuccessor, HandOver, GoOffline, RefreshPairing, MissPairing, StallStream,
        DropStream, storeVars, entryVars
  <2> QED
    BY <1>0, <2>1, EpochKept DEF Attempted, Browser
<1> QED
  BY <1>1, <1>2

LEMMA EpochSocket ==
  ASSUME RelayTypeOK, EpochInv, RelayTypeOK', PhoneInv', NEW c \in Conns,
         SocketHandler(c) \/ SocketEnvironment(c)
  PROVE  EpochInv'
<1> USE DEF ConnStep, Advance, BeginSend, EndSend
<1>0. /\ conn \in [Conns -> ConnPhase] /\ local \in [Conns -> Local]
      /\ activeWs \in Conns \cup {NoConn}
  BY DEF RelayTypeOK, StoreTypeOK, SocketTypeOK
<1>1. UNCHANGED <<epoch, cookie, cookieEpoch>>
  BY DEF SocketHandler, SocketEnvironment, AuthenticateTicket, IssueTicket, ExpireTicket,
         UseTicket, AcceptUpgrade, AbandonUpgrade, TakeSlot, MarkConnected, ObeyClose,
         LeaveSocket, RefuseMessage, AcceptText, ForwardText, ClearSession, ReturnSlot,
         StallPhone, WriteFrame, SendOver, Greet, FinishSend, GiveUpText, SayFarewell, Part,
         storeVars, entryVars, socketVars, cookieVars
<1>2. CASE \E b \in Browsers : AuthenticateTicket(c, b)
  <2>1. PICK b \in Browsers : AuthenticateTicket(c, b)
    BY <1>2
  <2>2. /\ conn[c] = "none" /\ conn' = [conn EXCEPT ![c] = "authed"] /\ activeWs' = activeWs
        /\ local' = [local EXCEPT ![c] = [local[c] EXCEPT !.browser = b]]
    BY <2>1 DEF AuthenticateTicket, storeVars, entryVars
  <2>3. Browser(c)' = b
    BY <1>0, <2>2 DEF Browser
  <2>4. \A d \in Conns \ {c} : conn'[d] = conn[d] /\ Browser(d)' = Browser(d)
    BY <1>0, <2>2 DEF Browser
  <2>5. activeWs' # c /\ conn'[c] = "authed"
    BY <1>0, <2>2, NoConnAssumption DEF PhoneInv, SlotHolderAlive, Owning, Serving
  <2> QED
    BY <1>1, <2>2, <2>3, <2>4, <2>5 DEF EpochInv, Attempted, FreshIfStored
<1>3. CASE AcceptUpgrade(c)
  <2>1. /\ conn[c] = "checked" /\ activeWs' = activeWs
        /\ \/ EpochsAgree(c) /\ local' = local /\ conn' = [conn EXCEPT ![c] = "upgrading"]
           \/ conn' = [conn EXCEPT ![c] = "done"]
        /\ \A d \in Conns \ {c} : local'[d] = local[d]
    BY <1>0, <1>3 DEF AcceptUpgrade, storeVars, entryVars
  <2>2. \A d \in Conns \ {c} : conn'[d] = conn[d] /\ Browser(d)' = Browser(d)
    BY <1>0, <2>1 DEF Browser
  <2>3. CASE conn' = [conn EXCEPT ![c] = "done"]
    <3>1. conn'[c] = "done"
      BY <1>0, <2>3
    <3> QED
      BY <1>1, <2>1, <2>2, <3>1, EpochKept DEF Attempted
  <2>4. CASE conn' # [conn EXCEPT ![c] = "done"]
    <3>1. Browser(c)' = Browser(c) /\ cookieEpoch[Browser(c)] = epoch /\ Attempted(c)
      BY <2>1, <2>4 DEF EpochsAgree, Browser, Attempted
    <3> QED
      BY <1>1, <2>1, <2>2, <3>1 DEF EpochInv, Attempted, FreshIfStored
  <2> QED
    BY <2>3, <2>4
<1>4. CASE TakeSlot(c)
  <2>1. /\ conn[c] = "upgrading" /\ activeWs' \in {activeWs, c}
        /\ \/ conn' = [conn EXCEPT ![c] = "registered"] /\ local' = local
           \/ conn' = [conn EXCEPT ![c] = "done"] /\ activeWs' = activeWs
        /\ \A d \in Conns \ {c} : local'[d] = local[d]
    BY <1>0, <1>4 DEF TakeSlot
  <2>2. \A d \in Conns \ {c} : conn'[d] = conn[d] /\ Browser(d)' = Browser(d)
    BY <1>0, <2>1 DEF Browser
  <2>3. CASE conn' = [conn EXCEPT ![c] = "done"]
    <3>1. conn'[c] = "done" /\ activeWs' = activeWs
      BY <1>0, <2>1, <2>3
    <3> QED
      BY <1>1, <2>2, <3>1, EpochKept DEF Attempted
  <2>4. CASE conn' = [conn EXCEPT ![c] = "registered"] /\ local' = local
    <3>1. Browser(c)' = Browser(c) /\ Attempted(c) /\ FreshIfStored(c) /\ conn'[c] = "registered"
      BY <1>0, <2>1, <2>4 DEF EpochInv, Browser, Attempted
    <3> QED
      BY <1>1, <2>1, <2>2, <3>1 DEF EpochInv, Attempted, FreshIfStored
  <2> QED
    BY <2>1, <2>3, <2>4
<1>5. CASE IssueTicket(c) \/ MarkConnected(c)
  <2>1. /\ conn[c] \in {"authed", "registered"} /\ activeWs' = activeWs
        /\ \E p \in {"ticketed", "done", "greeting"} : conn' = [conn EXCEPT ![c] = p]
        /\ \A d \in Conns \ {c} : local'[d] = local[d]
    BY <1>0, <1>5 DEF IssueTicket, MarkConnected, storeVars, entryVars
  <2>2. \A d \in Conns \ {c} : conn'[d] = conn[d] /\ Browser(d)' = Browser(d)
    BY <1>0, <2>1 DEF Browser
  <2>3. conn'[c] = "done" \/ Browser(c)' = Browser(c)
    <3>1. CASE IssueTicket(c)
      BY <1>0, <3>1 DEF IssueTicket, Browser
    <3>2. CASE MarkConnected(c)
      BY <1>0, <3>2 DEF MarkConnected, Browser
    <3> QED
      BY <1>5, <3>1, <3>2
  <2>4. Attempted(c) /\ conn'[c] # "upgrading"
    BY <1>0, <2>1 DEF Attempted
  <2> QED
    BY <1>1, <2>1, <2>2, <2>3, <2>4, EpochKept DEF Attempted
<1>6. CASE \/ ExpireTicket(c) \/ UseTicket(c) \/ AbandonUpgrade(c) \/ ObeyClose(c)
           \/ LeaveSocket(c) \/ RefuseMessage(c) \/ AcceptText(c) \/ ForwardText(c)
           \/ ClearSession(c) \/ ReturnSlot(c) \/ WriteFrame(c) \/ SendOver(c)
  <2>1. activeWs' \in {activeWs, NoConn}
    BY <1>6
    DEF ExpireTicket, UseTicket, AbandonUpgrade, ObeyClose, LeaveSocket, RefuseMessage,
        AcceptText, ForwardText, ClearSession, ReturnSlot, WriteFrame, SendOver, Greet,
        FinishSend, GiveUpText, SayFarewell, Part, SlotAfter, storeVars, entryVars
  <2>2. /\ Attempted(c)
        /\ \E p \in {"checked", "done", "closing", "accepted", "open", "cleared", "sending",
                      "farewell", "parting"}, r \in Tokens \cup Conns \cup {NoToken} :
             /\ conn' = [conn EXCEPT ![c] = p]
             /\ \/ local' = [local EXCEPT ![c] = IF p = "done" THEN Nothing ELSE local[c]]
                \/ local' = [local EXCEPT ![c] = IF p = "done" THEN Nothing
                                               ELSE [local[c] EXCEPT !.target = r]]
    <3>1. CASE \/ ExpireTicket(c) \/ UseTicket(c) \/ AbandonUpgrade(c) \/ LeaveSocket(c)
               \/ AcceptText(c) \/ ClearSession(c)
      BY <3>1
      DEF ExpireTicket, UseTicket, AbandonUpgrade, LeaveSocket, AcceptText, ClearSession, Attempted
    <3>2. CASE ObeyClose(c) \/ RefuseMessage(c) \/ WriteFrame(c) \/ SendOver(c)
      BY <3>2
      DEF ObeyClose, RefuseMessage, WriteFrame, SendOver, Greet, FinishSend, GiveUpText,
          SayFarewell, Part, Attempted
    <3>3. CASE ForwardText(c) \/ ReturnSlot(c)
      <4>1. LatestToken \in Tokens \cup {NoToken}
        BY LatestTokenStored DEF RelayTypeOK, StoreTypeOK
      <4> QED
        BY <3>3, <4>1 DEF ForwardText, ReturnSlot, Attempted
    <3> QED
      BY <1>6, <3>1, <3>2, <3>3
  <2>3. /\ \A d \in Conns \ {c} : conn'[d] = conn[d] /\ Browser(d)' = Browser(d)
        /\ conn'[c] = "done" \/ Browser(c)' = Browser(c)
        /\ conn'[c] # "upgrading"
    BY <1>0, <2>2 DEF Browser
  <2> QED
    BY <1>1, <2>1, <2>2, <2>3, EpochKept DEF Attempted
<1>7. CASE StallPhone(c)
  <2>1. UNCHANGED <<activeWs, conn, local>>
    BY <1>7 DEF StallPhone, entryVars, socketVars, connVars
  <2> QED
    BY <1>1, <2>1, EpochKept DEF Attempted, Browser
<1> QED
  BY <1>2, <1>3, <1>4, <1>5, <1>6, <1>7 DEF SocketHandler, SocketEnvironment

(* Dropped tickets are of connections that have been attempted and are not *)
(* any more; the others keep their browser.                                *)
LEMMA DropTicketsBrowsers ==
  ASSUME RelayTypeOK, DropTickets
  PROVE  \A c \in Conns : /\ Attempted(c)' => Attempted(c) /\ Browser(c)' = Browser(c)
                          /\ conn'[c] = "upgrading" => conn[c] = "upgrading"
BY DEF DropTickets, Attempted, Browser, RelayTypeOK, SocketTypeOK

LEMMA EpochOther ==
  ASSUME RelayTypeOK, EpochInv, RelayTypeOK', PhoneInv',
         \/ \E b \in Browsers :
              Bootstrap(b) \/ FindStream(b) \/ NotifyBootstrap(b) \/ ExpireCookie(b)
         \/ \E t \in Tokens : Revoke(t) \/ NotifyRevoke(t)
         \/ Cleanup
         \/ Lapse,
         epoch' # epoch => \A c \in Conns : conn[c] # "upgrading"
  PROVE  EpochInv'
<1>0. cookie \in [Browsers -> {"none", "stored", "expired", "deleted"}]
      /\ cookieEpoch \in [Browsers -> Nat]
  BY DEF RelayTypeOK, SocketTypeOK
<1>1. ASSUME NEW b \in Browsers, Bootstrap(b) PROVE EpochInv'
  <2>1. /\ activeWs' = NoConn /\ epoch' = epoch
        /\ cookieEpoch' = [cookieEpoch EXCEPT ![b] = epoch]
        /\ \A a \in Browsers \ {b} : cookie'[a] # "stored"
    BY <1>0, <1>1 DEF Bootstrap, Forgotten, Known
  <2>2. \A a \in Browsers : cookie'[a] = "stored" => cookieEpoch'[a] = epoch'
    BY <1>0, <2>1
  <2>3. \A c \in Conns : Attempted(c)' => Browser(c)' \in Browsers
    BY <1>1, DropTicketsBrowsers DEF Bootstrap, EpochInv
  <2>4. ASSUME NEW c \in Conns, conn'[c] = "upgrading" \/ activeWs' = c
        PROVE  FreshIfStored(c)'
    BY <2>1, <2>2, <2>3, <2>4, NoConnAssumption DEF FreshIfStored, Attempted
  <2> QED
    BY <2>3, <2>4 DEF EpochInv
<1>2. CASE \E t \in Tokens : Revoke(t)
  BY <1>2, EpochMoved DEF Revoke, cookieVars
<1>3. CASE RemovePairing
  BY <1>3, EpochMoved DEF RemovePairing, RemoveEntry, socketVars, cookieVars, connVars
<1>4. CASE \/ \E b \in Browsers : FindStream(b) \/ NotifyBootstrap(b) \/ ExpireCookie(b)
           \/ \E t \in Tokens : NotifyRevoke(t)
           \/ Lapse
  <2>1. UNCHANGED <<epoch, activeWs, cookieEpoch, conn, local>>
    BY <1>4
    DEF FindStream, NotifyBootstrap, ExpireCookie, NotifyRevoke, Lapse, storeVars, entryVars,
        socketVars, cookieVars, connVars
  <2>2. \A b \in Browsers : cookie'[b] = "stored" => cookie[b] = "stored"
    BY <1>0, <1>4
    DEF FindStream, NotifyBootstrap, ExpireCookie, NotifyRevoke, Lapse, socketVars, cookieVars
  <2> QED
    BY <2>1, <2>2, EpochKept DEF Attempted, Browser
<1>5. CASE PurgePairing \/ SweepStores
  <2>1. /\ UNCHANGED <<epoch, activeWs, cookieEpoch>>
        /\ \A b \in Browsers : cookie'[b] = "stored" => cookie[b] = "stored"
    BY <1>5 DEF PurgePairing, SweepStores, Forgotten, storeVars, entryVars
  <2>2. DropTickets \/ UNCHANGED <<conn, local>>
    BY <1>5 DEF PurgePairing, SweepStores
  <2>3. \A c \in Conns : /\ Attempted(c)' => Attempted(c) /\ Browser(c)' = Browser(c)
                         /\ conn'[c] = "upgrading" => conn[c] = "upgrading"
    BY <2>2, DropTicketsBrowsers DEF Attempted, Browser
  <2> QED
    BY <2>1, <2>3, EpochKept
<1> QED
  BY <1>1, <1>2, <1>3, <1>4, <1>5 DEF Cleanup

LEMMA EpochStep ==
  /\ RelayTypeOK /\ EpochInv /\ RelayTypeOK' /\ PhoneInv' /\ [Next]_vars
  /\ [epoch' # epoch => \A c \in Conns : conn[c] # "upgrading"]_vars
  => EpochInv'
<1> SUFFICES ASSUME RelayTypeOK, EpochInv, RelayTypeOK', PhoneInv', [Next]_vars,
                    [epoch' # epoch => \A c \in Conns : conn[c] # "upgrading"]_vars
             PROVE  EpochInv'
  OBVIOUS
<1>1. CASE UNCHANGED vars
  <2>1. UNCHANGED <<epoch, activeWs, cookie, cookieEpoch, conn, local>>
    BY <1>1 DEF vars, storeVars, entryVars, socketVars, cookieVars, connVars
  <2> QED
    BY <2>1, EpochKept DEF Attempted, Browser
<1>2. CASE Next /\ (epoch' # epoch => \A c \in Conns : conn[c] # "upgrading")
  <2>1. CASE StreamNext /\ UNCHANGED <<socketVars, cleaner>>
    BY <1>2, <2>1, EpochStream DEF StreamNext
  <2>2. CASE SocketNext
    BY <1>2, <2>2, EpochSocket, EpochOther DEF SocketNext, NoticeHandler
  <2>3. CASE Cleanup \/ Lapse
    BY <1>2, <2>3, EpochOther
  <2> QED
    BY <1>2, <2>1, <2>2, <2>3 DEF Next
<1> QED
  BY <1>1, <1>2

(* README: a revocation disconnects existing connections at once: of the   *)
(* entry that keeps its slot (see above), unless the epoch changed while   *)
(* an accepted upgrade had yet to take the slot.                           *)
THEOREM RevokeButForOneRace ==
  Spec /\ EpochStaysForUpgrades => [](~overwritten => RevokeDisconnects)
<1>1. Init => EpochInv
  BY NoConnAssumption DEF Init, StoreInit, NoEntry, SocketInit, EpochInv, Attempted
<1>2. PhoneInv /\ EpochInv => (~overwritten => RevokeDisconnects)
  BY DEF PhoneInv, NoOrphanedPhone, EpochInv, FreshIfStored, RevokeDisconnects
<1>3. Spec => []RelayTypeOK
  BY TypeCorrect
<1> QED
  BY <1>1, <1>2, <1>3, PhoneInvariant, EpochStep, PTL DEF Spec, EpochStaysForUpgrades
=============================================================================
