---------------------------- MODULE PairingStore ----------------------------
(***************************************************************************)
(* The state of ONE pairing that the gRPC side and the browser side of the *)
(* server share: its PairingEntry in the PairingStore and the Session      *)
(* records of its PC streams in the SessionStore.  Both stores are maps    *)
(* under per-shard locks, so one access is one step, and every handler     *)
(* that makes several accesses can be interleaved with any other handler   *)
(* between them.  Entries of different pairings never touch each other.    *)
(***************************************************************************)
EXTENDS Naturals, FiniteSets

CONSTANTS
  Tokens,   \* session tokens: one per Subscribe call, never reused
  Conns,    \* mobile WebSocket connections, one per issued ticket
  Browsers, \* browser sessions, one per successful bootstrap
  NoToken,  \* the absent session token
  NoConn,   \* the absent connection
  Stalling  \* bound: the streams and connections whose peer may stop reading

ASSUME TokensAssumption == IsFiniteSet(Tokens)
ASSUME NoTokenAssumption == NoToken \notin Tokens
ASSUME NoConnAssumption == NoConn \notin Conns

VARIABLES
  exists,       \* the pairing has an entry in the PairingStore; without one
                \* the next five keep the values NoEntry gives them
  online,       \* PairingEntry.online
  lapsed,       \* PairingEntry.expires_at lies in the past
  epoch,        \* PairingEntry.epoch
  activeToken,  \* PairingEntry.active_session_token
  activeWs,     \* PairingEntry.active_mobile_ws
  overwritten   \* history: an insert replaced an entry that already existed

VARIABLES
  sessions,     \* the tokens whose Session is in the SessionStore
  createdAt,    \* Session.created_at as a rank, 0 while there is no Session
  mobileTx      \* Session.mobile_control_tx: the connection it leads to

(* PairingEntry.pairing_secret is a random value of which only this counts:*)
(* does a copy of it still equal the one in the entry?                     *)
VARIABLES
  subscribeUrl, \* the copy in the URL a Subscribe call is about to send
  bootstrapUrl, \* the copy in the URL a bootstrap has yet to send to the PC
  revokeUrl,    \* the copy in the URL a revocation has yet to send to the PC
  shown,        \* the copy in the last URL put on the event channel
  displayed,    \* the entry's secret has been put on some event channel
  firstEvent,   \* what entered the event channel first
  full          \* the streams whose event channel (of 32) and the connections
                \* whose socket has no room: a send to them waits

entryVars == <<exists, online, lapsed, epoch, activeToken, activeWs, overwritten>>
sessionVars == <<sessions, createdAt, mobileTx>>
urlVars == <<subscribeUrl, bootstrapUrl, revokeUrl>>
channelVars == <<shown, displayed, firstEvent, full>>
storeVars == <<entryVars, sessionVars, urlVars, channelVars>>

-----------------------------------------------------------------------------
Copy == {"none", "current", "stale"}

StoreTypeOK ==
  /\ exists \in BOOLEAN
  /\ online \in BOOLEAN
  /\ lapsed \in BOOLEAN
  /\ epoch \in Nat
  /\ activeToken \in Tokens \cup {NoToken}
  /\ activeWs \in Conns \cup {NoConn}
  /\ overwritten \in BOOLEAN
  /\ sessions \in SUBSET Tokens
  /\ createdAt \in [Tokens -> Nat]
  /\ mobileTx \in [Tokens -> Conns \cup {NoConn}]
  /\ subscribeUrl \in [Tokens -> Copy]
  /\ bootstrapUrl \in [Browsers -> Copy]
  /\ revokeUrl \in [Tokens -> Copy]
  /\ shown \in [Tokens -> Copy]
  /\ displayed \in BOOLEAN
  /\ firstEvent \in [Tokens -> {"none", "own", "other"}]
  /\ full \in SUBSET (Tokens \cup Conns)

NoEntry ==
  /\ exists = FALSE
  /\ online = FALSE
  /\ lapsed = FALSE
  /\ epoch = 0
  /\ activeToken = NoToken
  /\ activeWs = NoConn

StoreInit ==
  /\ NoEntry
  /\ overwritten = FALSE
  /\ sessions = {}
  /\ createdAt = [t \in Tokens |-> 0]
  /\ mobileTx = [t \in Tokens |-> NoConn]
  /\ subscribeUrl = [t \in Tokens |-> "none"]
  /\ bootstrapUrl = [b \in Browsers |-> "none"]
  /\ revokeUrl = [t \in Tokens |-> "none"]
  /\ shown = [t \in Tokens |-> "none"]
  /\ displayed = FALSE
  /\ firstEvent = [t \in Tokens |-> "none"]
  /\ full = {}

(* The entry leaves the store.                                             *)
RemoveEntry ==
  /\ exists' = FALSE
  /\ online' = FALSE
  /\ lapsed' = FALSE
  /\ epoch' = 0
  /\ activeToken' = NoToken
  /\ activeWs' = NoConn
  /\ UNCHANGED overwritten

-----------------------------------------------------------------------------
(* The stored Session created last.                                        *)
Newest ==
  LET newest == {t \in sessions : \A u \in sessions : createdAt[u] <= createdAt[t]}
  IN  IF newest = {} THEN NoToken ELSE CHOOSE t \in newest : TRUE

(* Bug: the index is trusted although its Session may have left the store. *)
LatestTokenUnchecked == IF exists THEN activeToken ELSE Newest

(* latest_session_token: the indexed token if its Session is still stored, *)
(* otherwise a scan.  Its look-ups are taken as one step.                  *)
LatestToken == IF exists /\ activeToken \in sessions THEN activeToken ELSE Newest

(* Creation times count relative to each other only: they are kept as the  *)
(* ranks 1..n of the n stored Sessions.                                    *)
Created(t) == [createdAt EXCEPT ![t] = Cardinality(sessions) + 1]

(* Bug: every other rank moves down, not only the later ones.              *)
UncreatedAll(t) == [u \in Tokens |-> IF u = t THEN 0 ELSE createdAt[u] - 1]

Uncreated(t) ==
  [u \in Tokens |->
     IF u = t THEN 0
     ELSE IF createdAt[u] > createdAt[t] THEN createdAt[u] - 1
     ELSE createdAt[u]]

(* What becomes of copies of the secret when a new one is drawn.           *)
Outdated(copies) ==
  [x \in DOMAIN copies |-> IF copies[x] = "current" THEN "stale" ELSE copies[x]]

(* Nothing has been sent with the new secret yet.                          *)
ChannelsOutdated ==
  /\ shown' = Outdated(shown)
  /\ displayed' = FALSE
  /\ UNCHANGED <<firstEvent, full>>

(* The peer of r, a stream's PC or a connection's phone, does not read     *)
(* what it is sent, whoever sends it, and the buffer of r fills up.        *)
FillBuffer(r) ==
  /\ r \in Stalling
  /\ full' = full \cup {r}
  /\ UNCHANGED <<shown, displayed, firstEvent>>

(* It reads again, or its connection breaks, after which no send waits.    *)
EmptyBuffer(r) ==
  /\ r \in full
  /\ full' = full \ {r}
  /\ UNCHANGED <<shown, displayed, firstEvent>>

(* An event, with or without a copy of the secret, enters the channel of   *)
(* stream t; nobody reads it once the Session is gone.                     *)
Deliver(t, kind, copy) ==
  IF t \in sessions
    THEN /\ firstEvent' = [firstEvent EXCEPT ![t] = IF @ = "none" THEN kind ELSE @]
         /\ shown' = [shown EXCEPT ![t] = IF copy = "none" THEN @ ELSE copy]
         /\ displayed' = (displayed \/ copy = "current")
         /\ UNCHANGED full
    ELSE UNCHANGED channelVars
=============================================================================
