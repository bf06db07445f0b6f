---------------------------- MODULE PairingRelay ----------------------------
(***************************************************************************)
(* One pairing of the relay server: PC streams (ClientStream), phones      *)
(* (MobileSocket) and the periodic cleanup task, all acting on the same    *)
(* stores.                                                                 *)
(***************************************************************************)
EXTENDS ClientStream, MobileSocket

VARIABLE
  cleaner  \* "idle", or "purging" between the removal of the entry and the
           \* removal of what hung on it

vars == <<storeVars, streamVars, socketVars, cleaner>>

RelayTypeOK ==
  /\ StoreTypeOK
  /\ StreamTypeOK
  /\ SocketTypeOK
  /\ cleaner \in {"idle", "purging"}

Init ==
  /\ StoreInit
  /\ StreamInit
  /\ SocketInit
  /\ cleaner = "idle"

-----------------------------------------------------------------------------
(* Connection c's handler awaits a send to a PC or a phone that does not   *)
(* read.                                                                   *)
Stuck(c) == conn[c] \in Sending /\ local[c].target \in full

(* The pairing's TTL runs out.  It is a day by default and every handler   *)
(* step takes far less, so time is let pass only while none is in flight,  *)
(* but for those that await a send: only the cleanup reads the deadline,   *)
(* so a handler that is in flight at that moment behaves like one that     *)
(* starts just after it.                                                   *)
NothingInFlight ==
  /\ \A t \in Tokens :
       stream[t] \in {"new", "live", "gone"} /\ (revokeUrl[t] = "none" \/ t \in full)
  /\ \A c \in Conns : conn[c] \in {"none", "open", "done"} \/ Stuck(c)
  /\ \A b \in Browsers : bootstrapUrl[b] = "none" \/ (b \in notifying /\ named[b] \in full)
  /\ \A c \in ordered : Stuck(c)
  /\ cleaner = "idle"

Lapse ==
  /\ exists
  /\ ~lapsed
  /\ NothingInFlight
  /\ lapsed' = TRUE
  /\ UNCHANGED <<exists, online, epoch, activeToken, activeWs, overwritten, sessionVars,
                 urlVars, channelVars, streamVars, socketVars, cleaner>>

(* Bug: a connected phone is not looked for.                               *)
RemovableDespitePhone == lapsed /\ ~online

(* remove_if of cleanup_pairings: past its TTL, offline, without a phone.  *)
(* The revision seen by the scan cannot differ when all three still hold   *)
(* in a scan made at this moment.                                          *)
Removable == lapsed /\ ~online /\ activeWs = NoConn

RemovePairing ==
  /\ cleaner = "idle"
  /\ exists
  /\ Removable
  /\ RemoveEntry
  /\ cleaner' = "purging"
  /\ UNCHANGED <<sessionVars, urlVars, channelVars, streamVars, socketVars>>

(* cleanup_pairings: what belonged to the removed pairing id is dropped,   *)
(* by id, even if the entry has been created again meanwhile.              *)
PurgePairing ==
  /\ cleaner = "purging"
  /\ cookie' = Forgotten(Known)
  /\ DropTickets
  /\ cleaner' = "idle"
  /\ UNCHANGED <<storeVars, streamVars, cookieEpoch, named, notifying, ordered>>

(* cleanup_pairings: expired sessions, and those without an entry.         *)
SweepStores ==
  /\ cleaner = "idle"
  /\ IF exists
       THEN /\ cookie' = Forgotten({b \in Browsers : cookie[b] = "expired"})
            /\ UNCHANGED <<conn, local>>
       ELSE /\ cookie' = Forgotten(Known)
            /\ DropTickets
  /\ UNCHANGED <<storeVars, streamVars, cookieEpoch, named, notifying, ordered, cleaner>>

-----------------------------------------------------------------------------
Cleanup == RemovePairing \/ PurgePairing \/ SweepStores

Next ==
  \/ StreamNext /\ UNCHANGED <<socketVars, cleaner>>
  \/ SocketNext /\ UNCHANGED <<streamVars, cleaner>>
  \/ Cleanup
  \/ Lapse

Spec == Init /\ [][Next]_vars

(* Handlers are tokio tasks that the runtime keeps polling, and select!    *)
(* picks at random among the branches that are ready, so a Close order is  *)
(* taken, and the phone's frame read, in the end however much else there   *)
(* is to do (strong fairness).  An open page sends a heartbeat every 30 s  *)
(* and a mute one idles out after 90 s, so a connection due to be refused  *)
(* gets there.  A channel serves the sends that wait for it in their       *)
(* order, so each gets its place if there is room again and again (strong  *)
(* fairness); there need not be: nobody is made to read.  The cleanup task *)
(* ticks forever.                                                          *)
StreamFairness ==
  \A t \in Tokens : WF_vars(StreamHandler(t) /\ UNCHANGED <<socketVars, cleaner>>)

SocketFairness ==
  /\ \A c \in Conns :
       /\ WF_vars(SocketHandler(c) /\ UNCHANGED <<streamVars, cleaner>>)
       /\ SF_vars(ObeyClose(c) /\ UNCHANGED <<streamVars, cleaner>>)
       /\ SF_vars(RefuseMessage(c) /\ UNCHANGED <<streamVars, cleaner>>)
       /\ SF_vars(SendOver(c) /\ UNCHANGED <<streamVars, cleaner>>)
  /\ WF_vars(NoticeHandler /\ UNCHANGED <<streamVars, cleaner>>)

CleanupFairness == WF_vars(Lapse) /\ WF_vars(RemovePairing) /\ WF_vars(PurgePairing)

FairSpec == Spec /\ StreamFairness /\ SocketFairness /\ CleanupFairness

-----------------------------------------------------------------------------
(* Every connection whose handler serves its phone is the one in the slot, *)
(* or has been told to close: nothing else could ever reach it to end it.  *)
(* Replacing it, superseding it, revoking it and removing its entry must   *)
(* all keep this (web.rs:2007, 526, 839, pairing.rs:324); an entry that is *)
(* created twice at once drops a slot without a word (grpc.rs:459).        *)
NoOrphanedPhone ==
  ~overwritten =>
    \A c \in Conns :
      conn[c] \in Serving => c \in ordered \/ (exists /\ activeWs = c)

(* At most one phone types into a PC: two connections that both serve      *)
(* without a Close order on its way are the same connection.               *)
OnePhoneAtATime ==
  ~overwritten =>
    \A c, d \in Conns :
      conn[c] \in Serving /\ conn[d] \in Serving /\ {c, d} \cap ordered = {} => c = d

(* The slot never names a connection whose handler has given it back or    *)
(* returned: such a slot would keep the entry from cleanup_pairings for    *)
(* ever.                                                                   *)
SlotHolderAlive ==
  activeWs # NoConn => conn[activeWs] \in Owning

(* Once the last PC stream has been dropped, whatever overlapped with its  *)
(* destructor, the pairing is offline; only then does its TTL count.       *)
OfflineWhenGone ==
  (\A t \in Tokens : stream[t] \in {"new", "missing", "gone"}) => ~online

(* A phone that was told to close is gone in the end, also one that keeps  *)
(* sending and whose texts still pass validate_pairing_ws, unless its      *)
(* handler awaits for ever a send to a PC or a phone that stays connected  *)
(* and never reads: the sends have no limit of time (web.rs:2034, 2061,    *)
(* 2141, 2169).                                                            *)
OrderedPhoneLeaves ==
  \A c \in Conns : c \in ordered ~> (conn[c] = "done" \/ []Stuck(c))

(* A phone whose session is of an older epoch stops being served, even if  *)
(* its upgrade was late for the revocation, with the same exception.       *)
OutOfDate(c) ==
  /\ conn[c] \in Serving
  /\ exists
  /\ cookie[Browser(c)] = "stored"
  /\ cookieEpoch[Browser(c)] # epoch

RevokedPhoneLeaves ==
  \A c \in Conns : OutOfDate(c) ~> (~OutOfDate(c) \/ []Stuck(c))

(* A pairing that everybody has left does not stay in memory.              *)
Abandoned ==
  /\ exists
  /\ \A t \in Tokens : stream[t] \in {"new", "gone"}
  /\ \A c \in Conns : conn[c] \in {"none", "done"}

AbandonedPairingIsReclaimed == ~ <>[]Abandoned

-----------------------------------------------------------------------------
(* grpc.rs:793: a disconnect "keeps pairing online when newer session      *)
(* exists".  With nothing under way, a pairing with a live stream is       *)
(* online, whichever of its streams were dropped when.                     *)
OnlineWhenConnected ==
  NothingInFlight /\ sessions # {} => exists /\ online

(* relay.proto: the first frame of a stream is the SessionToken event that *)
(* carries the session's gRPC token (without it the PC starts no           *)
(* heartbeat and cannot revoke).                                           *)
FirstFrameIsOwnToken ==
  \A t \in Tokens : firstEvent[t] # "other"

(* README: a revocation disconnects existing connections at once: none of  *)
(* an older epoch is served without a Close order on its way.              *)
RevokeDisconnects ==
  \A c \in Conns :
    conn[c] \in Serving /\ c \notin ordered /\ exists /\ cookie[Browser(c)] = "stored"
      => cookieEpoch[Browser(c)] = epoch

(* pairing.rs:49: the secret that admits a phone is the one embedded in    *)
(* the QR code.  With nothing under way, the URL last sent to the current  *)
(* PC stream holds the entry's secret.                                     *)
QrCodeAdmits ==
  NothingInFlight /\ exists /\ LatestToken # NoToken => shown[LatestToken] = "current"
=============================================================================
