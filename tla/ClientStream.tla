---------------------------- MODULE ClientStream ----------------------------
(***************************************************************************)
(* The PC side of the relay server: one Subscribe call per token, from the *)
(* upsert of the pairing entry to the destructor of the event stream.      *)
(* Reconnecting PCs overlap: the stream of the old connection is dropped   *)
(* whenever the transport notices, before, during or after the new one's   *)
(* Subscribe.                                                              *)
(***************************************************************************)
EXTENDS PairingStore

VARIABLES
  stream,     \* how far the Subscribe call or the destructor of token t is
  successor   \* the successor a destructor in progress has looked up

streamVars == <<stream, successor>>

StreamPhase ==
  {"new",       \* not subscribed yet
   "missing",   \* upsert_pairing found no entry and has yet to insert one
   "upserted",  \* the entry names the token, the Session does not exist yet
   "inserted",  \* the Session is stored, the first event is not sent yet
   "live",      \* Subscribe has returned the stream
   "removed",   \* dropped: the Session has left the store
   "located",   \* dropped: the successor has been looked up
   "indexed",   \* dropped: the entry names the successor
   "gone"}      \* the destructor has finished

StreamTypeOK ==
  /\ stream \in [Tokens -> StreamPhase]
  /\ successor \in [Tokens -> Tokens \cup {NoToken}]

StreamInit ==
  /\ stream = [t \in Tokens |-> "new"]
  /\ successor = [t \in Tokens |-> NoToken]

StreamStep(t, from, to) ==
  /\ stream[t] = from
  /\ stream' = [stream EXCEPT ![t] = to]

-----------------------------------------------------------------------------
(* upsert_pairing, first half: the entry is there and is refreshed under   *)
(* its lock.                                                               *)
RefreshPairing(t) ==
  /\ exists
  /\ StreamStep(t, "new", "upserted")
  /\ online' = TRUE
  /\ lapsed' = FALSE
  /\ activeToken' = t
  /\ subscribeUrl' = [subscribeUrl EXCEPT ![t] = "current"]
  /\ UNCHANGED <<exists, epoch, activeWs, overwritten, sessionVars, bootstrapUrl,
                 revokeUrl, channelVars, successor>>

(* upsert_pairing, first half: no entry.  No lock is kept until the insert. *)
MissPairing(t) ==
  /\ ~exists
  /\ StreamStep(t, "new", "missing")
  /\ UNCHANGED <<storeVars, successor>>

(* upsert_pairing, second half: a new entry, with a new secret, replaces   *)
(* whatever is there.                                                      *)
InsertPairing(t) ==
  /\ StreamStep(t, "missing", "upserted")
  /\ exists' = TRUE
  /\ online' = TRUE
  /\ lapsed' = FALSE
  /\ epoch' = 0
  /\ activeToken' = t
  /\ activeWs' = NoConn
  /\ overwritten' = (overwritten \/ exists)
  /\ subscribeUrl' = [Outdated(subscribeUrl) EXCEPT ![t] = "current"]
  /\ bootstrapUrl' = Outdated(bootstrapUrl)
  /\ revokeUrl' = Outdated(revokeUrl)
  /\ ChannelsOutdated
  /\ UNCHANGED <<sessionVars, successor>>

(* subscribe: the Session becomes visible to every other handler.          *)
InsertSession(t) ==
  /\ StreamStep(t, "upserted", "inserted")
  /\ sessions' = sessions \cup {t}
  /\ createdAt' = Created(t)
  /\ UNCHANGED <<mobileTx, entryVars, urlVars, channelVars, successor>>

(* subscribe: the SessionToken event is sent and the stream returned.      *)
SendSessionToken(t) ==
  /\ StreamStep(t, "inserted", "live")
  /\ Deliver(t, "own", subscribeUrl[t])
  /\ subscribeUrl' = [subscribeUrl EXCEPT ![t] = "none"]
  /\ UNCHANGED <<entryVars, sessionVars, bootstrapUrl, revokeUrl, successor>>

-----------------------------------------------------------------------------
(* The PC stops reading its stream, or reads it again.                     *)
StallStream(t) ==
  /\ stream[t] = "live"
  /\ FillBuffer(t) \/ EmptyBuffer(t)
  /\ UNCHANGED <<entryVars, sessionVars, urlVars, streamVars>>

(* Drop of the stream: the transport ends, the Session is removed, and     *)
(* with it the channel: a send that waits for room in it fails.            *)
DropStream(t) ==
  /\ StreamStep(t, "live", "removed")
  /\ sessions' = sessions \ {t}
  /\ createdAt' = Uncreated(t)
  /\ firstEvent' = [firstEvent EXCEPT ![t] = "none"]
  /\ shown' = [shown EXCEPT ![t] = "none"]
  /\ full' = full \ {t}
  /\ UNCHANGED <<mobileTx, displayed, entryVars, urlVars, successor>>

(* Drop: latest_session_token looks for another stream of the pairing.     *)
LocateSuccessor(t) ==
  /\ StreamStep(t, "removed", "located")
  /\ successor' = [successor EXCEPT ![t] = LatestToken]
  /\ UNCHANGED storeVars

(* Drop: the entry, if it is still there, is pointed at the successor.     *)
IndexSuccessor(t) ==
  /\ StreamStep(t, "located", "indexed")
  /\ activeToken' = IF exists THEN successor[t] ELSE activeToken
  /\ UNCHANGED <<exists, online, lapsed, epoch, activeWs, overwritten,
                 sessionVars, urlVars, channelVars, successor>>

(* The phone's control channel after the Session that left has handed it   *)
(* on: a successor that has one of its own keeps it.                       *)
HandedOver(t, s) ==
  [mobileTx EXCEPT ![t] = NoConn,
                   ![s] = IF s \in sessions /\ @ = NoConn THEN mobileTx[t] ELSE @]

(* Drop, with a successor: it inherits the phone, and the pairing stays as *)
(* it is.                                                                  *)
HandOver(t) ==
  /\ successor[t] # NoToken
  /\ StreamStep(t, "indexed", "gone")
  /\ mobileTx' = HandedOver(t, successor[t])
  /\ successor' = [successor EXCEPT ![t] = NoToken]
  /\ UNCHANGED <<sessions, createdAt, entryVars, urlVars, channelVars>>

(* Bug: the pairing is left online.                                        *)
GoOfflineSilently(t) ==
  /\ successor[t] = NoToken
  /\ StreamStep(t, "indexed", "gone")
  /\ mobileTx' = [mobileTx EXCEPT ![t] = NoConn]
  /\ UNCHANGED <<entryVars, sessions, createdAt, urlVars, channelVars, successor>>

(* Drop, without a successor: the pairing goes offline and its TTL starts. *)
GoOffline(t) ==
  /\ successor[t] = NoToken
  /\ StreamStep(t, "indexed", "gone")
  /\ online' = FALSE
  /\ lapsed' = FALSE
  /\ mobileTx' = [mobileTx EXCEPT ![t] = NoConn]
  /\ UNCHANGED <<exists, epoch, activeToken, activeWs, overwritten, sessions,
                 createdAt, urlVars, channelVars, successor>>

-----------------------------------------------------------------------------
(* The steps the server owes to a call it has accepted.                    *)
StreamHandler(t) ==
  \/ InsertPairing(t)
  \/ InsertSession(t)
  \/ SendSessionToken(t)
  \/ LocateSuccessor(t)
  \/ IndexSuccessor(t)
  \/ HandOver(t)
  \/ GoOffline(t)

(* The steps that the PC and the network decide.                           *)
StreamEnvironment(t) ==
  \/ RefreshPairing(t)
  \/ MissPairing(t)
  \/ StallStream(t)
  \/ DropStream(t)

StreamNext == \E t \in Tokens : StreamHandler(t) \/ StreamEnvironment(t)
=============================================================================
