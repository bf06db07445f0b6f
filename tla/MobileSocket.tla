---------------------------- MODULE MobileSocket ----------------------------
(***************************************************************************)
(* The browser side of the relay server: bootstrap with the scanned        *)
(* secret, WebSocket tickets, the upgrade, the message loop of a phone's   *)
(* connection, and the revocation a PC asks for.  Browsers and connections *)
(* are named by the session id and the ticket they are given, which are    *)
(* random and never reused.                                                *)
(***************************************************************************)
EXTENDS PairingStore

CONSTANTS
  NoBrowser,         \* the absent browser session
  MaxWsConnections,  \* ServerConfig.max_ws_connections
  MaxEpoch           \* bound: revocations explored in one life of the entry

ASSUME NoBrowserAssumption == NoBrowser \notin Browsers
ASSUME MaxWsConnectionsAssumption == MaxWsConnections \in Nat \ {0}

VARIABLES
  cookie,       \* BrowserSession of b in the BrowserSessionStore
  cookieEpoch,  \* BrowserSession.pairing_epoch
  named,        \* the stream the entry named when b's bootstrap read it, then
                \* the one it notifies, until it has
  notifying,    \* the bootstraps that have found the stream they notify
  conn,         \* how far connection c has come
  local,        \* what connection c's ticket and handler remember
  ordered       \* connections with a WsControl::Close in their channel

cookieVars == <<cookie, cookieEpoch, named, notifying>>
connVars == <<conn, local, ordered>>
socketVars == <<cookieVars, connVars>>

ConnPhase ==
  {"none",        \* no ticket yet
   "authed",      \* ws-ticket: the cookie is accepted
   "ticketed",    \* the ticket is in the WsTicketStore
   "checked",     \* upgrade: ticket consumed and browser session accepted
   "upgrading",   \* upgrade accepted, permit held, handler not started
   "registered",  \* the handler has put itself in the pairing's slot
   "greeting",    \* it sends MobileConnected
   "open",        \* the handler waits in its select loop
   "accepted",    \* a text passed validate_pairing_ws, not yet forwarded
   "sending",     \* an iteration of the loop sends an event or a frame
   "farewell",    \* the last frame of the connection is sent
   "closing",     \* the loop has ended
   "cleared",     \* the Session no longer points at the connection
   "parting",     \* the slot is given back, MobileDisconnected is sent
   "done"}        \* the handler has returned, or the attempt was refused

Serving == {"registered", "greeting", "open", "accepted", "sending"}
Owning == Serving \cup {"farewell", "closing", "cleared"}
HoldingPermit == Owning \cup {"upgrading", "parting"}

(* The handler awaits a send, outside its select loop and without a limit  *)
(* of time.                                                                *)
Sending == {"greeting", "sending", "farewell", "parting"}

(* browser: the session the ticket is for; epoch: WsTicket.pairing_epoch;  *)
(* token: the session token the handler has marked as connected; target:   *)
(* what it sends to, a stream's channel or its own socket.                 *)
Local == [browser : Browsers \cup {NoBrowser}, epoch : Nat, token : Tokens \cup {NoToken},
          target : Tokens \cup Conns \cup {NoToken}]
Nothing == [browser |-> NoBrowser, epoch |-> 0, token |-> NoToken, target |-> NoToken]

SocketTypeOK ==
  /\ cookie \in [Browsers -> {"none", "stored", "expired", "deleted"}]
  /\ cookieEpoch \in [Browsers -> Nat]
  /\ named \in [Browsers -> Tokens \cup {NoToken}]
  /\ notifying \in SUBSET Browsers
  /\ conn \in [Conns -> ConnPhase]
  /\ local \in [Conns -> Local]
  /\ ordered \in SUBSET Conns

SocketInit ==
  /\ cookie = [b \in Browsers |-> "none"]
  /\ cookieEpoch = [b \in Browsers |-> 0]
  /\ named = [b \in Browsers |-> NoToken]
  /\ notifying = {}
  /\ conn = [c \in Conns |-> "none"]
  /\ local = [c \in Conns |-> Nothing]
  /\ ordered = {}

(* Connection c goes on, remembering what it did and the changes given; at *)
(* the end its locals are dropped.                                         *)
ConnStep(c, from, to, locals) ==
  /\ conn[c] = from
  /\ conn' = [conn EXCEPT ![c] = to]
  /\ local' = [local EXCEPT ![c] = IF to = "done" THEN Nothing ELSE locals]

Advance(c, from, to) == ConnStep(c, from, to, local[c])

(* The handler begins, or has finished, a send.                            *)
BeginSend(c, from, to, target) == ConnStep(c, from, to, [local[c] EXCEPT !.target = target])
EndSend(c, from, to) ==
  /\ local[c].target \notin full
  /\ ConnStep(c, from, to, [local[c] EXCEPT !.target = NoToken])

(* Browser sessions S leave their store, and the tickets theirs.           *)
Forgotten(S) == [b \in Browsers |-> IF b \in S THEN "deleted" ELSE cookie[b]]
DropTickets ==
  /\ conn' = [c \in Conns |-> IF conn[c] = "ticketed" THEN "done" ELSE conn[c]]
  /\ local' = [c \in Conns |-> IF conn[c] = "ticketed" THEN Nothing ELSE local[c]]

Known == {b \in Browsers : cookie[b] # "none"}
Browser(c) == local[c].browser

(* Bug: the slot's old owner is dropped without a Close order.             *)
NobodyToldToClose(old) == ordered

(* A Close order is put in the control channel of the slot's old owner.    *)
OrderedToClose(old) == ordered \cup ({old} \ {NoConn})

(* authenticate_browser_session: the cookie names a stored, unexpired      *)
(* session of the entry's epoch.                                           *)
Authenticates(b) ==
  /\ cookie[b] = "stored"
  /\ exists
  /\ cookieEpoch[b] = epoch

-----------------------------------------------------------------------------
(* handle_bootstrap under the entry's lock: a browser that scanned the     *)
(* current secret from a PC's screen supersedes every session, ticket and  *)
(* connection before it, and the secret is rotated.                        *)
Bootstrap(b) ==
  /\ exists
  /\ displayed
  /\ cookie[b] = "none"
  /\ cookie' = [Forgotten(Known) EXCEPT ![b] = "stored"]
  /\ cookieEpoch' = [cookieEpoch EXCEPT ![b] = epoch]
  /\ named' = [named EXCEPT ![b] = activeToken]
  /\ DropTickets
  /\ ordered' = OrderedToClose(activeWs)
  /\ activeWs' = NoConn
  /\ lapsed' = FALSE
  /\ subscribeUrl' = Outdated(subscribeUrl)
  /\ bootstrapUrl' = [Outdated(bootstrapUrl) EXCEPT ![b] = "current"]
  /\ revokeUrl' = Outdated(revokeUrl)
  /\ ChannelsOutdated
  /\ UNCHANGED <<exists, online, epoch, activeToken, overwritten, sessionVars, notifying>>

(* handle_bootstrap after the lock: who is to get the URL with the new     *)
(* secret?  The stream the entry named under the lock, if it is still      *)
(* stored.                                                                 *)
FindStream(b) ==
  /\ bootstrapUrl[b] # "none"
  /\ b \notin notifying
  /\ named' = [named EXCEPT ![b] = IF @ \in sessions THEN @ ELSE LatestToken]
  /\ notifying' = notifying \cup {b}
  /\ UNCHANGED <<storeVars, cookie, cookieEpoch, connVars>>

(* The URL is sent, as soon as the stream's channel has room.              *)
NotifyBootstrap(b) ==
  /\ b \in notifying
  /\ named[b] \notin full
  /\ Deliver(named[b], "other", bootstrapUrl[b])
  /\ bootstrapUrl' = [bootstrapUrl EXCEPT ![b] = "none"]
  /\ named' = [named EXCEPT ![b] = NoToken]
  /\ notifying' = notifying \ {b}
  /\ UNCHANGED <<entryVars, sessionVars, subscribeUrl, revokeUrl, cookie, cookieEpoch, connVars>>

(* handle_revoke, asked by the PC of stream t: a new epoch, a new secret,  *)
(* the slot's owner told to close.  The browser sessions stay in memory.   *)
(* The PC can name its Session only if its first frame was the one with    *)
(* the gRPC token.                                                         *)
Revoke(t) ==
  /\ t \in sessions
  /\ firstEvent[t] = "own"
  /\ exists
  /\ revokeUrl[t] = "none"
  /\ epoch < MaxEpoch
  /\ epoch' = epoch + 1
  /\ lapsed' = FALSE
  /\ ordered' = OrderedToClose(activeWs)
  /\ activeWs' = NoConn
  /\ subscribeUrl' = Outdated(subscribeUrl)
  /\ bootstrapUrl' = Outdated(bootstrapUrl)
  /\ revokeUrl' = [Outdated(revokeUrl) EXCEPT ![t] = "current"]
  /\ ChannelsOutdated
  /\ UNCHANGED <<exists, online, activeToken, overwritten, sessionVars, cookieVars,
                 conn, local>>

(* handle_revoke after the lock: the URL goes to the asking PC's channel,  *)
(* as soon as it has room.                                                 *)
NotifyRevoke(t) ==
  /\ revokeUrl[t] # "none"
  /\ t \notin full
  /\ Deliver(t, "other", revokeUrl[t])
  /\ revokeUrl' = [revokeUrl EXCEPT ![t] = "none"]
  /\ UNCHANGED <<entryVars, sessionVars, subscribeUrl, bootstrapUrl, socketVars>>

-----------------------------------------------------------------------------
(* handle_ws_ticket: authentication, then the ticket with the epoch read   *)
(* from the entry once more.                                               *)
AuthenticateTicket(c, b) ==
  /\ Authenticates(b)
  /\ ConnStep(c, "none", "authed", [local[c] EXCEPT !.browser = b])
  /\ UNCHANGED <<storeVars, cookieVars, ordered>>

IssueTicket(c) ==
  /\ ConnStep(c, "authed", IF exists THEN "ticketed" ELSE "done",
              [local[c] EXCEPT !.epoch = epoch])
  /\ UNCHANGED <<storeVars, cookieVars, ordered>>

(* The ticket's 15 seconds are over, or it is never used.                  *)
ExpireTicket(c) ==
  /\ Advance(c, "ticketed", "done")
  /\ UNCHANGED <<storeVars, cookieVars, ordered>>

(* handle_ws_upgrade: the ticket is consumed whatever follows; the browser *)
(* session must still be stored and fresh.                                 *)
UseTicket(c) ==
  /\ Advance(c, "ticketed", IF cookie[Browser(c)] = "stored" THEN "checked" ELSE "done")
  /\ UNCHANGED <<storeVars, cookieVars, ordered>>

(* The epochs the upgrade compares with the entry's.                       *)
EpochsAgree(c) ==
  /\ exists
  /\ cookieEpoch[Browser(c)] = epoch
  /\ local[c].epoch = epoch

PermitFree == Cardinality({d \in Conns : conn[d] \in HoldingPermit}) < MaxWsConnections

(* handle_ws_upgrade: epochs, then one of the ws_slots.                    *)
AcceptUpgrade(c) ==
  /\ Advance(c, "checked", IF EpochsAgree(c) /\ PermitFree THEN "upgrading" ELSE "done")
  /\ UNCHANGED <<storeVars, cookieVars, ordered>>

(* The phone goes away before the upgrade completes.                       *)
AbandonUpgrade(c) ==
  /\ Advance(c, "upgrading", "done")
  /\ UNCHANGED <<storeVars, cookieVars, ordered>>

-----------------------------------------------------------------------------
(* handle_pairing_ws takes the pairing's slot; the previous owner is told  *)
(* it was replaced.                                                        *)
TakeSlot(c) ==
  /\ Advance(c, "upgrading", IF exists THEN "registered" ELSE "done")
  /\ ordered' = OrderedToClose(activeWs)
  /\ activeWs' = IF exists THEN c ELSE activeWs
  /\ UNCHANGED <<exists, online, lapsed, epoch, activeToken, overwritten,
                 sessionVars, urlVars, channelVars, cookieVars>>

(* mark_mobile_ws_connected; the MobileConnected event is for the stream   *)
(* it has found.                                                           *)
MarkConnected(c) ==
  /\ ConnStep(c, "registered", "greeting",
              [local[c] EXCEPT !.token = LatestToken, !.target = LatestToken])
  /\ mobileTx' = [t \in Tokens |-> IF t = LatestToken THEN c ELSE mobileTx[t]]
  /\ UNCHANGED <<sessions, createdAt, entryVars, urlVars, channelVars, cookieVars, ordered>>

(* MobileConnected is sent and the loop begins.                            *)
Greet(c) ==
  /\ EndSend(c, "greeting", "open")
  /\ Deliver(local[c].target, "other", "none")
  /\ UNCHANGED <<entryVars, sessionVars, urlVars, cookieVars, ordered>>

(* The phone does not read what it is just sent, or reads it at last.      *)
StallPhone(c) ==
  /\ conn[c] \in Sending
  /\ local[c].target = c
  /\ FillBuffer(c) \/ EmptyBuffer(c)
  /\ UNCHANGED <<entryVars, sessionVars, urlVars, socketVars>>

(* The select loop takes the Close order and has a Close frame to send.    *)
ObeyClose(c) ==
  /\ c \in ordered
  /\ BeginSend(c, "open", "farewell", c)
  /\ UNCHANGED <<storeVars, cookieVars, ordered>>

(* The last frame is sent.                                                 *)
SayFarewell(c) ==
  /\ EndSend(c, "farewell", "closing")
  /\ UNCHANGED <<storeVars, cookieVars, ordered>>

(* A heartbeat or a malformed text is answered, or a message of an upload  *)
(* to the phone is passed on.                                              *)
WriteFrame(c) ==
  /\ c \in Stalling
  /\ BeginSend(c, "open", "sending", c)
  /\ UNCHANGED <<storeVars, cookieVars, ordered>>

(* The phone closes or breaks the connection, or idles past the timeout.   *)
LeaveSocket(c) ==
  /\ Advance(c, "open", "closing")
  /\ UNCHANGED <<storeVars, cookieVars, ordered>>

(* Bug: the epochs are not compared.                                       *)
RefusedWhateverEpoch(c) ==
  /\ exists
  /\ activeWs \notin {c, NoConn} \/ cookie[Browser(c)] = "expired"

(* validate_pairing_ws gives a close code.  A missing entry and, after the *)
(* slot's owner has been compared, a missing browser session give none.    *)
Refused(c) ==
  /\ exists
  /\ \/ activeWs \notin {c, NoConn}
     \/ cookie[Browser(c)] = "expired"
     \/ cookie[Browser(c)] = "stored" /\ cookieEpoch[Browser(c)] # epoch

(* A text or heartbeat frame is refused, with a Close frame.               *)
RefuseMessage(c) ==
  /\ BeginSend(c, "open", "farewell", c)
  /\ Refused(c)
  /\ UNCHANGED <<storeVars, cookieVars, ordered>>

(* A clipboard text passes the validation.                                 *)
AcceptText(c) ==
  /\ Advance(c, "open", "accepted")
  /\ ~Refused(c)
  /\ UNCHANGED <<storeVars, cookieVars, ordered>>

(* current_client_tx: the text is for the current PC stream, if any.       *)
ForwardText(c) ==
  /\ BeginSend(c, "accepted", "sending", LatestToken)
  /\ UNCHANGED <<storeVars, cookieVars, ordered>>

(* The text enters the stream's channel, or the frame the socket.  A       *)
(* stream that is being dropped takes texts until its destructor is        *)
(* through; nobody reads them.                                             *)
FinishSend(c) ==
  /\ local[c].target # NoToken
  /\ EndSend(c, "sending", "open")
  /\ Deliver(local[c].target, "other", "none")
  /\ UNCHANGED <<entryVars, sessionVars, urlVars, cookieVars, ordered>>

(* There is no stream, or it is gone: the phone is told that the PC is.    *)
GiveUpText(c) ==
  /\ local[c].target \notin sessions \cup Conns
  /\ BeginSend(c, "sending", "farewell", c)
  /\ UNCHANGED <<storeVars, cookieVars, ordered>>

(* clear_mobile_ws_state: only the marked Session, and only if it still    *)
(* leads to this connection.                                               *)
Unmarked(c, t) == IF t \in sessions /\ mobileTx[t] = c THEN NoConn ELSE mobileTx[t]

(* Bug: the handler returns early when its Session has left the store.     *)
ClearSessionOrGiveUp(c) ==
  /\ local[c].token \in sessions
  /\ Advance(c, "closing", "cleared")
  /\ mobileTx' = [t \in Tokens |-> IF t = local[c].token THEN Unmarked(c, t) ELSE mobileTx[t]]
  /\ UNCHANGED <<sessions, createdAt, entryVars, urlVars, channelVars, cookieVars, ordered>>

ClearSession(c) ==
  /\ Advance(c, "closing", "cleared")
  /\ mobileTx' = [t \in Tokens |-> IF t = local[c].token THEN Unmarked(c, t) ELSE mobileTx[t]]
  /\ UNCHANGED <<sessions, createdAt, entryVars, urlVars, channelVars, cookieVars, ordered>>

(* Bug: the slot is never given back.                                      *)
SlotKept(c) == activeWs

(* What the slot holds once connection c has returned it.                  *)
SlotAfter(c) == IF activeWs = c THEN NoConn ELSE activeWs

(* The handler gives the slot back if it is still its own; the             *)
(* MobileDisconnected event is for the stream it finds then.               *)
ReturnSlot(c) ==
  /\ BeginSend(c, "cleared", "parting", LatestToken)
  /\ activeWs' = SlotAfter(c)
  /\ UNCHANGED <<exists, online, lapsed, epoch, activeToken, overwritten, sessionVars,
                 urlVars, channelVars, cookieVars, ordered>>

(* MobileDisconnected is sent and the handler returns, which also frees    *)
(* the permit.                                                             *)
Part(c) ==
  /\ EndSend(c, "parting", "done")
  /\ ordered' = ordered \ {c}
  /\ Deliver(local[c].target, "other", "none")
  /\ UNCHANGED <<entryVars, sessionVars, urlVars, cookieVars>>

(* BrowserSession.expires_at, 30 days after the bootstrap, passes.         *)
ExpireCookie(b) ==
  /\ cookie[b] = "stored"
  /\ cookie' = [cookie EXCEPT ![b] = "expired"]
  /\ UNCHANGED <<storeVars, cookieEpoch, named, notifying, connVars>>

-----------------------------------------------------------------------------
(* The ends of the sends, for which the peer may have to read first.       *)
SendOver(c) ==
  \/ Greet(c)
  \/ FinishSend(c)
  \/ GiveUpText(c)
  \/ SayFarewell(c)
  \/ Part(c)

(* Steps of handlers that have been started.                               *)
SocketHandler(c) ==
  \/ IssueTicket(c)
  \/ AcceptUpgrade(c)
  \/ TakeSlot(c)
  \/ MarkConnected(c)
  \/ ObeyClose(c)
  \/ RefuseMessage(c)
  \/ ForwardText(c)
  \/ SendOver(c)
  \/ ClearSession(c)
  \/ ReturnSlot(c)

NoticeHandler ==
  \/ \E b \in Browsers : FindStream(b) \/ NotifyBootstrap(b)
  \/ \E t \in Tokens : NotifyRevoke(t)

(* Steps of the phones, of the network and of time.                        *)
SocketEnvironment(c) ==
  \/ \E b \in Browsers : AuthenticateTicket(c, b)
  \/ ExpireTicket(c)
  \/ UseTicket(c)
  \/ AbandonUpgrade(c)
  \/ LeaveSocket(c)
  \/ StallPhone(c)
  \/ WriteFrame(c)
  \/ AcceptText(c)

SocketNext ==
  \/ \E c \in Conns : SocketHandler(c) \/ SocketEnvironment(c)
  \/ NoticeHandler
  \/ \E b \in Browsers : Bootstrap(b) \/ ExpireCookie(b)
  \/ \E t \in Tokens : Revoke(t)
=============================================================================
