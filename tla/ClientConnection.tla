-------------------------- MODULE ClientConnection --------------------------
(***************************************************************************)
(* The PC client's connection: a thread per connection attempt puts events *)
(* into a channel of its own, the frame loop of the user interface handles *)
(* them, notices the end of the thread, waits, and starts the next one.    *)
(* What becomes of texts and files is the matter of PcDelivery.            *)
(***************************************************************************)
EXTENDS Integers, Sequences

CONSTANTS
  MaxConnections,  \* bound: connections started
  MaxEvents,       \* bound: events of a stream after its first
  MaxRevokes,      \* bound: clicks on the button that revokes
  MaxInterval      \* reconnect_max_interval_secs

ASSUME BoundsAssumption ==
  MaxConnections \in Nat \ {0} /\ MaxEvents \in Nat /\ MaxRevokes \in Nat
ASSUME IntervalAssumption == MaxInterval \in Nat

VARIABLES
  latest,    \* the connections started, numbered from 1
  reading,   \* the connection whose channel the user interface holds, or 0
  stage,     \* where the thread of each connection is
  events,    \* what is in the channel of each connection
  greeted,   \* history: connections that have sent a SessionToken
  marked,    \* history: connections whose first frame held a gRPC token
  received,  \* history: number of events since a connection's first
  app,       \* what the window shows
  token,     \* last_grpc_session_token: the connection it came by, or 0
  url,       \* last_public_base_url: likewise
  delay,     \* reconnect_delay
  wait,      \* the wait that reconnect_at is the end of, or None
  due,       \* that moment has come
  revoke,    \* revoke_state
  requests,  \* the revocations under way, with the token and url they use
  result,    \* what the last one to end has left for the next frame
  clicks     \* history: number of clicks

threadVars == <<stage, events, greeted, marked, received>>
retryVars == <<latest, reading, delay, wait, due>>
revokeVars == <<revoke, requests, result, clicks>>
screenVars == <<app, token, url>>
vars == <<threadVars, retryVars, screenVars, revokeVars>>

Connection == 1..MaxConnections
Request == [token : Connection, url : Connection, click : 1..MaxRevokes]
None == -1
Frame == {"session", "connected", "disconnected", "job"}
Event == Frame \cup {"status", "token", "channel", "error"}

ConnectionTypeOK ==
  /\ latest \in Connection
  /\ reading \in {0, latest}
  /\ stage \in [Connection -> {"none", "connect", "subscribe", "first", "stream", "ended"}]
  /\ events \in [Connection -> Seq(Event)]
  /\ greeted \in SUBSET Connection
  /\ marked \in SUBSET greeted
  /\ received \in [Connection -> 0..MaxEvents]
  /\ app \in {"connecting", "waitingScan", "connected", "error"}
  /\ token \in 0..latest
  /\ url \in 0..latest
  /\ delay \in Nat
  /\ wait \in Nat \cup {None}
  /\ due \in BOOLEAN
  /\ revoke \in {"idle", "running", "success", "error"}
  /\ requests \in SUBSET Request
  /\ result \in {"none", "success", "error"}
  /\ clicks \in 0..MaxRevokes

FirstDelay == 2

(* App::new starts the first connection.                                   *)
Init ==
  /\ latest = 1
  /\ reading = 1
  /\ stage = [c \in Connection |-> IF c = 1 THEN "connect" ELSE "none"]
  /\ events = [c \in Connection |-> <<>>]
  /\ greeted = {}
  /\ marked = {}
  /\ received = [c \in Connection |-> 0]
  /\ app = "connecting"
  /\ token = 0
  /\ url = 0
  /\ delay = FirstDelay
  /\ wait = None
  /\ due = FALSE
  /\ revoke = "idle"
  /\ requests = {}
  /\ result = "none"
  /\ clicks = 0

-----------------------------------------------------------------------------
(* The thread of connection c sends some events and goes on.  send fails   *)
(* when nobody holds the receiver any more, and then the thread ends.      *)
Send(c, sent, next) ==
  IF c = reading
    THEN /\ events' = [events EXCEPT ![c] = @ \o sent]
         /\ stage' = [stage EXCEPT ![c] = next]
    ELSE /\ stage' = [stage EXCEPT ![c] = "ended"]
         /\ UNCHANGED events

ThreadOnly == UNCHANGED <<retryVars, screenVars, revokeVars>>

(* A bad address or a missing runtime is an error, a failed connect is     *)
(* only a status.                                                          *)
Connect(c) ==
  /\ stage[c] = "connect"
  /\ \/ Send(c, <<"error">>, "ended")
     \/ Send(c, <<"status", "status", "status">>, "ended")
     \/ Send(c, <<"status", "status">>, "subscribe")
  /\ UNCHANGED <<greeted, marked, received>>
  /\ ThreadOnly

(* Only a wrong auth token is an error.                                    *)
Subscribe(c) ==
  /\ stage[c] = "subscribe"
  /\ \/ Send(c, <<"error">>, "ended")
     \/ Send(c, <<"status">>, "ended")
     \/ Send(c, <<>>, "first")
  /\ UNCHANGED <<greeted, marked, received>>
  /\ ThreadOnly

(* Bug: the session is passed on before the gRPC token.                    *)
FirstEventBeforeToken(c) ==
  /\ stage[c] = "first"
  /\ Send(c, <<"session", "token", "channel">>, "stream")
  /\ greeted' = greeted \cup {c}
  /\ marked' = marked \cup {c}
  /\ UNCHANGED received
  /\ ThreadOnly

(* The first event of the stream: the server's SessionToken frame with the *)
(* gRPC token, or, as other handlers of the server may be faster, any      *)
(* other event, a SessionToken without the gRPC token among them.          *)
FirstEvent(c) ==
  /\ stage[c] = "first"
  /\ \/ /\ Send(c, <<"token", "session", "channel">>, "stream")
        /\ greeted' = greeted \cup {c}
        /\ marked' = marked \cup {c}
     \/ \E frame \in Frame :
          /\ Send(c, <<frame, "channel">>, "stream")
          /\ greeted' = IF frame = "session" THEN greeted \cup {c} ELSE greeted
          /\ UNCHANGED marked
  /\ UNCHANGED received
  /\ ThreadOnly

(* A later one: the gRPC token of its frame is not looked at.              *)
NextEvent(c) ==
  /\ stage[c] = "stream"
  /\ received[c] < MaxEvents
  /\ received' = [received EXCEPT ![c] = @ + 1]
  /\ \E frame \in Frame :
       /\ Send(c, <<frame>>, "stream")
       /\ greeted' = IF frame = "session" THEN greeted \cup {c} ELSE greeted
  /\ UNCHANGED marked
  /\ ThreadOnly

(* The stream, or the wait for its first event, ends or breaks.            *)
EndStream(c) ==
  /\ stage[c] \in {"first", "stream"}
  /\ Send(c, <<>>, "ended") \/ Send(c, <<"status">>, "ended")
  /\ UNCHANGED <<greeted, marked, received>>
  /\ ThreadOnly

-----------------------------------------------------------------------------
(* Bug: the end of the phone's connection is a state of its own.           *)
ShownAsIs(event) == IF event \in {"token", "channel", "job"} THEN app ELSE event

(* App::logic: what each event does to the state of the application.       *)
Shown(event) ==
  CASE event = "status" -> "connecting"
    [] event = "session" -> "waitingScan"
    [] event = "connected" -> "connected"
    [] event = "error" -> "error"
    [] event \in {"token", "channel", "disconnected", "job"} -> app

HandleEvent ==
  /\ reading # 0
  /\ events[reading] # <<>>
  /\ LET event == Head(events[reading])
     IN  /\ app' = Shown(event)
         /\ token' = IF event = "token" THEN reading ELSE token
         /\ url' = IF event = "session" THEN reading ELSE url
         /\ delay' = IF event = "session" THEN FirstDelay ELSE delay
  /\ events' = [events EXCEPT ![reading] = Tail(@)]
  /\ UNCHANGED <<stage, greeted, marked, received, latest, reading, wait, due, revokeVars>>

Least(a, b) == IF a <= b THEN a ELSE b

(* Bug: an empty channel is taken for a closed one.                        *)
DisconnectedWhenEmpty == events[reading] = <<>>

(* try_recv says Disconnected only when the thread has gone and every      *)
(* event has been taken.                                                   *)
Disconnected == events[reading] = <<>> /\ stage[reading] = "ended"

(* Bug: an error does not keep the client from trying again.               *)
ShouldReconnectAlways == TRUE

(* Bug: only a connection that had a session is tried again.               *)
ShouldReconnectIfKnown == app \in {"waitingScan", "connected"}

ShouldReconnect == app # "error"

NoticeEnd ==
  /\ reading # 0
  /\ Disconnected
  /\ reading' = 0
  /\ IF ShouldReconnect /\ wait = None
       THEN /\ app' = "connecting"
            /\ wait' = delay
            /\ delay' = Least(2 * delay, MaxInterval)
            /\ due' = FALSE
       ELSE UNCHANGED <<app, wait, delay, due>>
  /\ UNCHANGED <<threadVars, latest, token, url, revokeVars>>

PassTime ==
  /\ wait # None
  /\ ~due
  /\ due' = TRUE
  /\ UNCHANGED <<threadVars, latest, reading, delay, wait, screenVars, revokeVars>>

(* Bug: the delay starts anew with every connection.                       *)
DelayOfNewAttempt == FirstDelay

(* start_grpc leaves the delay as it is.                                   *)
DelayAtStart == delay

(* Bug: the token of the connection before is kept.                        *)
TokenKept == token

(* start_grpc forgets what the connection before had told.                 *)
TokenAtStart == 0

Reconnect ==
  /\ wait # None
  /\ due
  /\ reading = 0
  /\ latest < MaxConnections
  /\ latest' = latest + 1
  /\ reading' = latest + 1
  /\ stage' = [stage EXCEPT ![latest + 1] = "connect"]
  /\ wait' = None
  /\ due' = FALSE
  /\ delay' = DelayAtStart
  /\ app' = "connecting"
  /\ token' = TokenAtStart
  /\ url' = 0
  /\ revoke' = "idle"
  /\ UNCHANGED <<events, greeted, marked, received, requests, result, clicks>>

-----------------------------------------------------------------------------
(* trigger_revoke: the button is there while a phone is connected.         *)
TriggerRevoke ==
  /\ app = "connected"
  /\ revoke # "running"
  /\ clicks < MaxRevokes
  /\ clicks' = clicks + 1
  /\ IF token = 0 \/ url = 0
       THEN revoke' = "error" /\ UNCHANGED requests
       ELSE /\ revoke' = "running"
            /\ requests' = requests \cup {[token |-> token, url |-> url, click |-> clicks']}
  /\ UNCHANGED <<threadVars, retryVars, screenVars, result>>

(* Bug: a request that fails leaves no result.                             *)
EndRevokeIfAccepted(request) ==
  /\ request \in requests
  /\ requests' = requests \ {request}
  /\ result' \in {result, "success"}
  /\ UNCHANGED <<threadVars, retryVars, screenVars, revoke, clicks>>

(* The thread of the request leaves its result for the next frame, in the  *)
(* place of one that nobody has taken yet.                                 *)
EndRevoke(request) ==
  /\ request \in requests
  /\ requests' = requests \ {request}
  /\ result' \in {"success", "error"}
  /\ UNCHANGED <<threadVars, retryVars, screenVars, revoke, clicks>>

ShowResult ==
  /\ result # "none"
  /\ revoke' = result
  /\ result' = "none"
  /\ UNCHANGED <<threadVars, retryVars, screenVars, requests, clicks>>

-----------------------------------------------------------------------------
(* The steps of a thread that end by themselves or by a timeout; a stream  *)
(* goes on as long as the server likes.                                    *)
Thread(c) == Connect(c) \/ Subscribe(c) \/ FirstEvent(c) \/ (stage[c] = "first" /\ EndStream(c))

FrameLoop == HandleEvent \/ NoticeEnd \/ Reconnect \/ ShowResult

Next ==
  \/ \E c \in Connection : Thread(c) \/ NextEvent(c) \/ EndStream(c)
  \/ FrameLoop
  \/ PassTime
  \/ TriggerRevoke
  \/ \E request \in Request : EndRevoke(request)

Spec == Init /\ [][Next]_vars

(* Connecting, subscribing and waiting for the first event have timeouts   *)
(* of 10 s, a revocation one of 10 s; every event asks for a frame, and so *)
(* does the wait.  Nothing is assumed of a stream.                         *)
FairSpec ==
  /\ Spec
  /\ \A c \in Connection : WF_vars(Thread(c))
  /\ WF_vars(HandleEvent) /\ WF_vars(NoticeEnd) /\ WF_vars(Reconnect) /\ WF_vars(ShowResult)
  /\ WF_vars(PassTime)
  /\ \A request \in Request : WF_vars(EndRevoke(request))

-----------------------------------------------------------------------------
(* A connection that is not read any more is over: its thread has ended,   *)
(* and every event it has sent has been handled (ui.rs:422).  There are    *)
(* never two streams of this PC at once, whose destructors on the server   *)
(* would take each other's pairing offline.                                *)
OldConnectionsAreOver ==
  \A c \in 1..latest : c # reading => stage[c] = "ended" /\ events[c] = <<>>

(* What is on the screen is of the connection that is being read, or was   *)
(* last: a QR code only with an address, and with the gRPC token if the    *)
(* first frame held it.                                                    *)
ScreenIsCurrent ==
  app = "waitingScan" => url = latest /\ (latest \in marked => token = latest)

(* A revocation is asked for with the token and the address of one and the *)
(* same connection (ui.rs:217), also when the first frame of a connection  *)
(* was not the one with the token.                                         *)
RevokeMatches == \A request \in requests : request.token = request.url

(* The wait before a connection is 2 s after one that had a session, and   *)
(* twice the last, up to the limit, after one that had not (ui.rs:431): a  *)
(* server that is down or turns the PC away is not asked without pause.    *)
Backoff[n \in Nat] ==
  IF n = 0 THEN FirstDelay ELSE Least(2 * Backoff[n - 1], MaxInterval)

(* Connections since the last that had a session, or since the start.      *)
LastGreeted == IF greeted = {} THEN 0 ELSE CHOOSE c \in greeted : \A d \in greeted : d <= c

Failures == IF LastGreeted = 0 THEN latest - 1 ELSE latest - LastGreeted

WaitsGrow == wait # None => wait = Backoff[Failures]

(* After an error that only the user can remedy nothing is tried again,    *)
(* and the message stays on the screen (ui.rs:426).                        *)
ErrorIsFinal ==
  [][app = "error" => app' = "error" /\ latest' = latest]_vars

(* The PC comes back: after every other end a new connection is started,   *)
(* whatever the user clicks meanwhile.                                     *)
Failed(c) == app = "error" \/ \E i \in DOMAIN events[c] : events[c][i] = "error"

ComesBack ==
  \A c \in Connection :
    c < MaxConnections /\ latest = c /\ stage[c] = "ended" ~> latest > c \/ Failed(c)

(* The button that revokes does not stay disabled: each request ends and   *)
(* its result is shown, although reconnecting resets the state (ui.rs:199) *)
(* and a late result of an earlier connection may come between.            *)
RevokeEnds == revoke = "running" ~> revoke # "running"
=============================================================================
