----------------------- MODULE ClientConnection_proofs -----------------------
(***************************************************************************)
(* What holds of the PC's connections for any number of attempts, events   *)
(* and revocations.                                                        *)
(***************************************************************************)
EXTENDS ClientConnection, FunctionSums, TLAPS

Status == {"status"}

(* A connection that has not been started has done nothing.                *)
NotStarted ==
  \A c \in Connection : c > latest => stage[c] = "none" /\ events[c] = <<>> /\ c \notin marked

(* A wait begins when nothing is read any more.                            *)
WaitsUnread == reading # 0 => wait = None

(* What the window knows is of the latest connection.                      *)
KnowsLatest == token \in {0, latest} /\ url \in {0, latest}

(* Before its first event a connection has sent nothing but statuses.      *)
EarlyStage == {"connect", "subscribe", "first"}

AllStatus(sent) == \A i \in DOMAIN sent : sent[i] = "status"

EarlyIsQuiet ==
  stage[latest] \in EarlyStage =>
    app = "connecting" /\ latest \notin marked /\ AllStatus(events[latest])

(* A gRPC token that has come is shown, or is on its way behind statuses   *)
(* only.                                                                   *)
TokenAhead ==
  \E i \in DOMAIN events[latest] :
    /\ events[latest][i] = "token"
    /\ \A j \in 1..(i - 1) : events[latest][j] = "status"

TokenComesFirst ==
  latest \in marked =>
    token = latest \/ (reading = latest /\ app = "connecting" /\ TokenAhead)

(* An error is the last thing a thread sends.                              *)
ErrorIsLast ==
  \A i \in DOMAIN events[latest] :
    events[latest][i] = "error" => i = Len(events[latest]) /\ stage[latest] = "ended"

ErrorStops ==
  app = "error" => wait = None /\ stage[latest] = "ended" /\ events[latest] = <<>>

ScreenInv == app = "waitingScan" => url = latest

ConnectionInv ==
  /\ ConnectionTypeOK
  /\ OldConnectionsAreOver
  /\ NotStarted
  /\ WaitsUnread
  /\ KnowsLatest
  /\ EarlyIsQuiet
  /\ TokenComesFirst
  /\ ErrorIsLast
  /\ ErrorStops
  /\ ScreenInv
  /\ RevokeMatches

-----------------------------------------------------------------------------
StageSet == {"none", "connect", "subscribe", "first", "stream", "ended"}

(* What is appended comes behind what is there.                            *)
LEMMA Appended ==
  ASSUME NEW S, NEW s \in Seq(S), NEW t \in Seq(S)
  PROVE  /\ s \o t \in Seq(S)
         /\ Len(s \o t) = Len(s) + Len(t)
         /\ \A i \in DOMAIN s : i \in DOMAIN (s \o t) /\ (s \o t)[i] = s[i]
         /\ \A i \in DOMAIN t :
              Len(s) + i \in DOMAIN (s \o t) /\ (s \o t)[Len(s) + i] = t[i]
         /\ \A i \in DOMAIN (s \o t) :
              i \in DOMAIN s \/ (i - Len(s) \in DOMAIN t /\ (s \o t)[i] = t[i - Len(s)])
  OBVIOUS

(* A thread that has not ended is the one whose channel is read.           *)
LEMMA ActiveIsRead ==
  ASSUME ConnectionInv, NEW c \in Connection, stage[c] \notin {"none", "ended"}
  PROVE  c = reading /\ c = latest
  <1>1. c \in Nat /\ latest \in Nat /\ reading \in {0, latest}
    BY BoundsAssumption DEF ConnectionInv, ConnectionTypeOK, Connection
  <1>2. ~(c > latest)
    BY DEF ConnectionInv, NotStarted
  <1>3. c \in 1..latest
    BY <1>1, <1>2 DEF Connection
  <1>4. c = reading
    BY <1>3 DEF ConnectionInv, OldConnectionsAreOver
  <1>5. reading # 0
    BY <1>3, <1>4
  <1> QED
    BY <1>1, <1>4, <1>5

(* What a thread may send: an error only at its end, a gRPC token only in  *)
(* its first event, and before that only statuses.                         *)
SendsWell(c, sent, next) ==
  /\ sent \in Seq(Event)
  /\ next \in StageSet
  /\ Send(c, sent, next)
  /\ \A i \in DOMAIN sent : sent[i] = "error" => i = Len(sent) /\ next = "ended"
  /\ next \in EarlyStage => stage[c] \in EarlyStage /\ AllStatus(sent) /\ marked' = marked
  /\ \/ marked' = marked
     \/ /\ stage[c] = "first"
        /\ marked' = marked \cup {c}
        /\ sent = <<"token", "session", "channel">>

HistoryTyped ==
  /\ greeted' \in SUBSET Connection
  /\ marked' \in SUBSET greeted'
  /\ received' \in [Connection -> 0..MaxEvents]

LEMMA ThreadSend ==
  ASSUME ConnectionInv, NEW c \in Connection, stage[c] \notin {"none", "ended"},
         NEW sent, NEW next, SendsWell(c, sent, next), HistoryTyped, ThreadOnly
  PROVE  ConnectionInv'
  <1> DEFINE old == events[c]
  <1>1. c = reading /\ c = latest
    BY ActiveIsRead
  <1>2. /\ events' = [events EXCEPT ![c] = old \o sent]
        /\ stage' = [stage EXCEPT ![c] = next]
    BY <1>1 DEF SendsWell, Send
  <1>3. /\ ConnectionTypeOK /\ OldConnectionsAreOver /\ NotStarted /\ WaitsUnread /\ KnowsLatest
        /\ EarlyIsQuiet /\ TokenComesFirst /\ ErrorIsLast /\ ErrorStops /\ ScreenInv /\ RevokeMatches
    BY DEF ConnectionInv
  <1>4. /\ latest' = latest /\ reading' = reading /\ wait' = wait /\ app' = app /\ token' = token
        /\ url' = url /\ requests' = requests /\ delay' = delay /\ due' = due /\ revoke' = revoke
        /\ result' = result /\ clicks' = clicks
    BY DEF ThreadOnly, retryVars, screenVars, revokeVars
  <1>5. /\ events \in [Connection -> Seq(Event)] /\ stage \in [Connection -> StageSet]
        /\ old \in Seq(Event) /\ sent \in Seq(Event) /\ next \in StageSet
    BY <1>3 DEF ConnectionTypeOK, SendsWell, StageSet
  <1>6. /\ old \o sent \in Seq(Event)
        /\ Len(old \o sent) = Len(old) + Len(sent)
        /\ \A i \in DOMAIN old : i \in DOMAIN (old \o sent) /\ (old \o sent)[i] = old[i]
        /\ \A i \in DOMAIN sent :
             Len(old) + i \in DOMAIN (old \o sent) /\ (old \o sent)[Len(old) + i] = sent[i]
        /\ \A i \in DOMAIN (old \o sent) :
             i \in DOMAIN old \/ (i - Len(old) \in DOMAIN sent /\ (old \o sent)[i] = sent[i - Len(old)])
    <2> HIDE DEF old
    <2> QED BY <1>5, Appended
  <1>7. /\ events'[c] = old \o sent
        /\ stage'[c] = next
        /\ \A d \in Connection : d # c => events'[d] = events[d] /\ stage'[d] = stage[d]
    BY <1>2, <1>5
  <1> HIDE DEF old
  <1>8. Len(old) \in Nat /\ DOMAIN old = 1..Len(old) /\ Len(sent) \in Nat /\ DOMAIN sent = 1..Len(sent)
    BY <1>5
  <1>a. ConnectionTypeOK'
    <2>1. events' \in [Connection -> Seq(Event)]
      BY <1>2, <1>5, <1>6
    <2>2. stage' \in [Connection -> StageSet]
      BY <1>2, <1>5
    <2> QED BY <2>1, <2>2, <1>3, <1>4 DEF ConnectionTypeOK, HistoryTyped, StageSet
  <1>b. OldConnectionsAreOver'
    <2>1. latest \in Connection
      BY <1>1
    <2>2. 1..latest \subseteq Connection
      BY <2>1, BoundsAssumption DEF Connection
    <2> QED BY <2>2, <1>1, <1>3, <1>4, <1>7 DEF OldConnectionsAreOver
  <1>c. NotStarted'
    <2>1. latest \in Nat
      BY <1>1 DEF Connection
    <2>2. ~(c > latest)
      BY <2>1, <1>1
    <2>3. marked' \in {marked, marked \cup {c}}
      BY DEF SendsWell
    <2> QED BY <2>2, <2>3, <1>3, <1>4, <1>7 DEF NotStarted
  <1>d. WaitsUnread' /\ KnowsLatest' /\ ScreenInv' /\ RevokeMatches'
    BY <1>3, <1>4 DEF WaitsUnread, KnowsLatest, ScreenInv, RevokeMatches
  <1>e. ErrorStops'
    BY <1>1, <1>3, <1>4 DEF ErrorStops
  <1>f. EarlyIsQuiet'
    <2> SUFFICES ASSUME next \in EarlyStage
                 PROVE  app = "connecting" /\ c \notin marked' /\ AllStatus(old \o sent)
      BY <1>1, <1>4, <1>7 DEF EarlyIsQuiet
    <2>1. stage[c] \in EarlyStage /\ AllStatus(sent) /\ marked' = marked
      BY DEF SendsWell
    <2>2. app = "connecting" /\ c \notin marked /\ AllStatus(old)
      BY <2>1, <1>1, <1>3 DEF EarlyIsQuiet, old
    <2>3. AllStatus(old \o sent)
      BY <2>1, <2>2, <1>6 DEF AllStatus
    <2> QED BY <2>1, <2>2, <2>3
  <1>g. ErrorIsLast'
    <2> SUFFICES ASSUME NEW i \in DOMAIN (old \o sent), (old \o sent)[i] = "error"
                 PROVE  i = Len(old \o sent) /\ next = "ended"
      BY <1>1, <1>4, <1>7 DEF ErrorIsLast
    <2>1. i \notin DOMAIN old
      BY <1>1, <1>3, <1>6 DEF ErrorIsLast, old
    <2>2. i - Len(old) \in DOMAIN sent /\ sent[i - Len(old)] = "error"
      BY <2>1, <1>6
    <2>3. i - Len(old) = Len(sent) /\ next = "ended"
      BY <2>2 DEF SendsWell
    <2>4. i \in Int
      BY <1>6, <1>5
    <2> QED BY <2>3, <2>4, <1>6, <1>8
  <1>h. TokenComesFirst'
    <2> SUFFICES ASSUME c \in marked', token # c
                 PROVE  app = "connecting" /\ TokenAhead'
      BY <1>1, <1>4 DEF TokenComesFirst
    <2>1. CASE c \in marked
      <3>1. app = "connecting" /\ TokenAhead
        BY <2>1, <1>1, <1>3 DEF TokenComesFirst
      <3>2. PICK i \in DOMAIN old : old[i] = "token" /\ \A j \in 1..(i - 1) : old[j] = "status"
        BY <3>1, <1>1 DEF TokenAhead, old
      <3>3. i \in 1..Len(old) /\ \A j \in 1..(i - 1) : j \in DOMAIN old
        BY <1>8
      <3>4. \A j \in 1..(i - 1) : (old \o sent)[j] = "status"
        BY <3>2, <3>3, <1>6
      <3>5. TokenAhead'
        BY <3>2, <3>4, <1>1, <1>4, <1>6, <1>7 DEF TokenAhead
      <3> QED BY <3>1, <3>5
    <2>2. CASE c \notin marked
      <3>1. stage[c] = "first" /\ sent = <<"token", "session", "channel">>
        BY <2>2 DEF SendsWell
      <3>2. app = "connecting" /\ AllStatus(old)
        BY <3>1, <1>1, <1>3 DEF EarlyIsQuiet, EarlyStage, old
      <3> DEFINE k == Len(old) + 1
      <3>3. 1 \in DOMAIN sent /\ sent[1] = "token"
        BY <3>1
      <3>4. k \in DOMAIN (old \o sent) /\ (old \o sent)[k] = "token"
        BY <3>3, <1>6
      <3>5. \A j \in 1..(k - 1) : (old \o sent)[j] = "status"
        BY <3>2, <1>6, <1>8 DEF AllStatus
      <3>6. TokenAhead'
        <4> HIDE DEF k
        <4> QED BY <3>4, <3>5, <1>1, <1>4, <1>7 DEF TokenAhead
      <3> QED BY <3>2, <3>6
    <2> QED BY <2>1, <2>2
  <1> QED
    BY <1>a, <1>b, <1>c, <1>d, <1>e, <1>f, <1>g, <1>h DEF ConnectionInv

(* Each step of a thread sends in that way.                                *)
LEMMA ThreadKeeps ==
  ASSUME ConnectionInv, NEW c \in Connection, Thread(c) \/ NextEvent(c) \/ EndStream(c)
  PROVE  ConnectionInv'
  <1>1. stage[c] \notin {"none", "ended"}
    BY DEF Thread, Connect, Subscribe, FirstEvent, NextEvent, EndStream
  <1>2. ThreadOnly
    BY DEF Thread, Connect, Subscribe, FirstEvent, NextEvent, EndStream
  <1>3. ConnectionTypeOK
    BY DEF ConnectionInv
  <1>4. CASE Connect(c)
    <2>1. HistoryTyped
      BY <1>3, <1>4 DEF Connect, HistoryTyped, ConnectionTypeOK
    <2>2. stage[c] = "connect" /\ marked' = marked
      BY <1>4 DEF Connect
    <2>3. CASE Send(c, <<"error">>, "ended")
      <3>1. SendsWell(c, <<"error">>, "ended")
        BY <2>2, <2>3 DEF SendsWell, Event, Frame, StageSet, EarlyStage
      <3> QED BY <3>1, <2>1, <1>1, <1>2, ThreadSend
    <2>4. CASE Send(c, <<"status", "status", "status">>, "ended")
      <3>1. SendsWell(c, <<"status", "status", "status">>, "ended")
        BY <2>2, <2>4 DEF SendsWell, Event, Frame, StageSet, EarlyStage
      <3> QED BY <3>1, <2>1, <1>1, <1>2, ThreadSend
    <2>5. CASE Send(c, <<"status", "status">>, "subscribe")
      <3>1. SendsWell(c, <<"status", "status">>, "subscribe")
        BY <2>2, <2>5 DEF SendsWell, Event, Frame, StageSet, EarlyStage, AllStatus
      <3> QED BY <3>1, <2>1, <1>1, <1>2, ThreadSend
    <2> QED BY <1>4, <2>3, <2>4, <2>5 DEF Connect
  <1>5. CASE Subscribe(c)
    <2>1. HistoryTyped
      BY <1>3, <1>5 DEF Subscribe, HistoryTyped, ConnectionTypeOK
    <2>2. stage[c] = "subscribe" /\ marked' = marked
      BY <1>5 DEF Subscribe
    <2>3. CASE Send(c, <<"error">>, "ended")
      <3>1. SendsWell(c, <<"error">>, "ended")
        BY <2>2, <2>3 DEF SendsWell, Event, Frame, StageSet, EarlyStage
      <3> QED BY <3>1, <2>1, <1>1, <1>2, ThreadSend
    <2>4. CASE Send(c, <<"status">>, "ended")
      <3>1. SendsWell(c, <<"status">>, "ended")
        BY <2>2, <2>4 DEF SendsWell, Event, Frame, StageSet, EarlyStage
      <3> QED BY <3>1, <2>1, <1>1, <1>2, ThreadSend
    <2>5. CASE Send(c, <<>>, "first")
      <3>1. SendsWell(c, <<>>, "first")
        BY <2>2, <2>5 DEF SendsWell, Event, Frame, StageSet, EarlyStage, AllStatus
      <3> QED BY <3>1, <2>1, <1>1, <1>2, ThreadSend
    <2> QED BY <1>5, <2>3, <2>4, <2>5 DEF Subscribe
  <1>6. CASE FirstEvent(c)
    <2>1. HistoryTyped
      BY <1>3, <1>6 DEF FirstEvent, HistoryTyped, ConnectionTypeOK
    <2>2. CASE Send(c, <<"token", "session", "channel">>, "stream") /\ marked' = marked \cup {c}
      <3>1. SendsWell(c, <<"token", "session", "channel">>, "stream")
        BY <2>2, <1>6 DEF FirstEvent, SendsWell, Event, Frame, StageSet, EarlyStage
      <3> QED BY <3>1, <2>1, <1>1, <1>2, ThreadSend
    <2>3. ASSUME NEW frame \in Frame, Send(c, <<frame, "channel">>, "stream"), marked' = marked
          PROVE  ConnectionInv'
      <3>1. SendsWell(c, <<frame, "channel">>, "stream")
        BY <2>3 DEF SendsWell, Event, Frame, StageSet, EarlyStage
      <3> QED BY <3>1, <2>1, <1>1, <1>2, ThreadSend
    <2> QED BY <1>6, <2>2, <2>3 DEF FirstEvent
  <1>7. CASE NextEvent(c)
    <2>1. HistoryTyped
      BY <1>3, <1>7, BoundsAssumption DEF NextEvent, HistoryTyped, ConnectionTypeOK
    <2>2. PICK frame \in Frame : Send(c, <<frame>>, "stream")
      BY <1>7 DEF NextEvent
    <2>3. SendsWell(c, <<frame>>, "stream")
      BY <2>2, <1>7 DEF NextEvent, SendsWell, Event, Frame, StageSet, EarlyStage
    <2> QED BY <2>3, <2>1, <1>1, <1>2, ThreadSend
  <1>8. CASE EndStream(c)
    <2>1. HistoryTyped
      BY <1>3, <1>8 DEF EndStream, HistoryTyped, ConnectionTypeOK
    <2>2. CASE Send(c, <<>>, "ended")
      <3>1. SendsWell(c, <<>>, "ended")
        BY <2>2, <1>8 DEF EndStream, SendsWell, Event, Frame, StageSet, EarlyStage
      <3> QED BY <3>1, <2>1, <1>1, <1>2, ThreadSend
    <2>3. CASE Send(c, <<"status">>, "ended")
      <3>1. SendsWell(c, <<"status">>, "ended")
        BY <2>3, <1>8 DEF EndStream, SendsWell, Event, Frame, StageSet, EarlyStage
      <3> QED BY <3>1, <2>1, <1>1, <1>2, ThreadSend
    <2> QED BY <1>8, <2>2, <2>3 DEF EndStream
  <1> QED BY <1>4, <1>5, <1>6, <1>7, <1>8 DEF Thread

-----------------------------------------------------------------------------
LEMMA Taken ==
  ASSUME NEW S, NEW s \in Seq(S), s # <<>>
  PROVE  /\ Tail(s) \in Seq(S)
         /\ Len(s) \in Nat \ {0}
         /\ Len(Tail(s)) = Len(s) - 1
         /\ Head(s) = s[1] /\ 1 \in DOMAIN s /\ Head(s) \in S
         /\ DOMAIN s = 1..Len(s) /\ DOMAIN Tail(s) = 1..(Len(s) - 1)
         /\ \A i \in DOMAIN Tail(s) : i + 1 \in DOMAIN s /\ Tail(s)[i] = s[i + 1]
  OBVIOUS

LEMMA HandleEventKeeps ==
  ASSUME ConnectionInv, HandleEvent
  PROVE  ConnectionInv'
  <1> DEFINE old == events[latest]
             event == Head(old)
  <1>1. /\ ConnectionTypeOK /\ OldConnectionsAreOver /\ NotStarted /\ WaitsUnread /\ KnowsLatest
        /\ EarlyIsQuiet /\ TokenComesFirst /\ ErrorIsLast /\ ErrorStops /\ ScreenInv /\ RevokeMatches
    BY DEF ConnectionInv
  <1>2. /\ reading = latest /\ reading # 0 /\ latest \in Connection /\ latest \in Nat
    BY <1>1 DEF HandleEvent, ConnectionTypeOK, Connection
  <1>3. /\ old # <<>>
        /\ app' = Shown(event)
        /\ token' = IF event = "token" THEN latest ELSE token
        /\ url' = IF event = "session" THEN latest ELSE url
        /\ delay' = IF event = "session" THEN FirstDelay ELSE delay
        /\ events' = [events EXCEPT ![latest] = Tail(old)]
    BY <1>2 DEF HandleEvent
  <1>4. /\ latest' = latest /\ reading' = reading /\ wait' = wait /\ stage' = stage
        /\ requests' = requests /\ due' = due /\ revoke' = revoke
        /\ result' = result /\ clicks' = clicks
        /\ greeted' = greeted /\ marked' = marked /\ received' = received
    BY DEF HandleEvent, revokeVars
  <1>5. events \in [Connection -> Seq(Event)] /\ old \in Seq(Event)
    BY <1>1, <1>2 DEF ConnectionTypeOK
  <1>6. /\ Tail(old) \in Seq(Event)
        /\ Len(old) \in Nat \ {0}
        /\ Len(Tail(old)) = Len(old) - 1
        /\ Head(old) = old[1] /\ 1 \in DOMAIN old /\ Head(old) \in Event
        /\ DOMAIN old = 1..Len(old) /\ DOMAIN Tail(old) = 1..(Len(old) - 1)
        /\ \A i \in DOMAIN Tail(old) : i + 1 \in DOMAIN old /\ Tail(old)[i] = old[i + 1]
    <2> HIDE DEF old
    <2> QED BY <1>3, <1>5, Taken
  <1>7. /\ events'[latest] = Tail(old)
        /\ \A d \in Connection : d # latest => events'[d] = events[d]
    BY <1>2, <1>3, <1>5
  <1>8. event = old[1] /\ event \in Event
    BY <1>6
  <1>9. app' \in {app, "connecting", "waitingScan", "connected", "error"}
    BY <1>3, <1>8 DEF Shown, Event, Frame
  <1>0. /\ event = "status" => app' = "connecting"
        /\ app' = "waitingScan" => event = "session" \/ app = "waitingScan"
        /\ app' = "error" => event = "error" \/ app = "error"
    BY <1>3, <1>8 DEF Shown, Event, Frame
  <1> HIDE DEF old, event
  <1>a. ConnectionTypeOK'
    <2>1. events' \in [Connection -> Seq(Event)]
      BY <1>2, <1>3, <1>5, <1>6
    <2>2. token' \in 0..latest /\ url' \in 0..latest /\ delay' \in Nat
      BY <1>1, <1>2, <1>3 DEF ConnectionTypeOK, FirstDelay
    <2> QED BY <2>1, <2>2, <1>1, <1>4, <1>9 DEF ConnectionTypeOK
  <1>b. OldConnectionsAreOver'
    <2>1. 1..latest \subseteq Connection
      BY <1>2, BoundsAssumption DEF Connection
    <2> QED BY <2>1, <1>1, <1>2, <1>4, <1>7 DEF OldConnectionsAreOver
  <1>c. NotStarted'
    <2>1. ~(latest > latest)
      BY <1>2
    <2> QED BY <2>1, <1>1, <1>2, <1>4, <1>7 DEF NotStarted
  <1>d. WaitsUnread' /\ KnowsLatest' /\ ScreenInv' /\ RevokeMatches'
    <2>1. WaitsUnread' /\ RevokeMatches'
      BY <1>1, <1>4 DEF WaitsUnread, RevokeMatches
    <2>2. KnowsLatest'
      BY <1>1, <1>3, <1>4 DEF KnowsLatest
    <2>3. ScreenInv'
      BY <1>0, <1>1, <1>3, <1>4 DEF ScreenInv
    <2> QED BY <2>1, <2>2, <2>3
  <1>e. EarlyIsQuiet'
    <2> SUFFICES ASSUME stage[latest] \in EarlyStage
                 PROVE  app' = "connecting" /\ latest \notin marked /\ AllStatus(Tail(old))
      BY <1>4, <1>7 DEF EarlyIsQuiet
    <2>1. latest \notin marked /\ AllStatus(old)
      BY <1>1 DEF EarlyIsQuiet, old
    <2>2. event = "status"
      BY <2>1, <1>6, <1>8 DEF AllStatus
    <2>3. AllStatus(Tail(old))
      BY <2>1, <1>6 DEF AllStatus
    <2> QED BY <2>1, <2>2, <2>3, <1>0
  <1>f. TokenComesFirst'
    <2> SUFFICES ASSUME latest \in marked, token' # latest
                 PROVE  app' = "connecting" /\ TokenAhead'
      BY <1>2, <1>4 DEF TokenComesFirst
    <2>1. token # latest /\ event # "token"
      BY <1>3
    <2>2. PICK i \in DOMAIN old : old[i] = "token" /\ \A j \in 1..(i - 1) : old[j] = "status"
      BY <2>1, <1>1 DEF TokenComesFirst, TokenAhead, old
    <2>3. i \in 2..Len(old)
      BY <2>1, <2>2, <1>6, <1>8
    <2>4. event = "status"
      BY <2>2, <2>3, <1>8
    <2>5. i - 1 \in DOMAIN Tail(old) /\ Tail(old)[i - 1] = "token"
      BY <2>2, <2>3, <1>6
    <2>6. \A j \in 1..((i - 1) - 1) : Tail(old)[j] = "status"
      BY <2>2, <2>3, <1>6
    <2>7. TokenAhead'
      BY <2>5, <2>6, <1>4, <1>7 DEF TokenAhead
    <2> QED BY <2>4, <2>7, <1>0
  <1>g. ErrorIsLast'
    <2> SUFFICES ASSUME NEW i \in DOMAIN Tail(old), Tail(old)[i] = "error"
                 PROVE  i = Len(Tail(old)) /\ stage[latest] = "ended"
      BY <1>4, <1>7 DEF ErrorIsLast
    <2>1. i + 1 \in DOMAIN old /\ old[i + 1] = "error"
      BY <1>6
    <2>2. i + 1 = Len(old) /\ stage[latest] = "ended"
      BY <2>1, <1>1 DEF ErrorIsLast, old
    <2> QED BY <2>2, <1>6
  <1>h. ErrorStops'
    <2> SUFFICES ASSUME app' = "error"
                 PROVE  wait = None /\ stage[latest] = "ended" /\ Tail(old) = <<>>
      BY <1>4, <1>7 DEF ErrorStops
    <2>1. app # "error"
      BY <1>1, <1>3 DEF ErrorStops, old
    <2>2. old[1] = "error"
      BY <2>1, <1>0, <1>8
    <2>3. 1 = Len(old) /\ stage[latest] = "ended"
      BY <2>2, <1>1, <1>6 DEF ErrorIsLast, old
    <2>4. Tail(old) = <<>>
      BY <2>3, <1>6
    <2> QED BY <2>3, <2>4, <1>1, <1>2 DEF WaitsUnread
  <1> QED
    BY <1>a, <1>b, <1>c, <1>d, <1>e, <1>f, <1>g, <1>h DEF ConnectionInv

LEMMA NoticeEndKeeps ==
  ASSUME ConnectionInv, NoticeEnd
  PROVE  ConnectionInv'
  <1>1. /\ ConnectionTypeOK /\ OldConnectionsAreOver /\ NotStarted /\ WaitsUnread /\ KnowsLatest
        /\ EarlyIsQuiet /\ TokenComesFirst /\ ErrorIsLast /\ ErrorStops /\ ScreenInv /\ RevokeMatches
    BY DEF ConnectionInv
  <1>2. /\ reading = latest /\ events[latest] = <<>> /\ stage[latest] = "ended" /\ reading' = 0
    BY <1>1 DEF NoticeEnd, Disconnected, ConnectionTypeOK
  <1>3. /\ latest' = latest /\ stage' = stage /\ events' = events /\ token' = token /\ url' = url
        /\ requests' = requests /\ revoke' = revoke /\ result' = result /\ clicks' = clicks
        /\ greeted' = greeted /\ marked' = marked /\ received' = received
    BY DEF NoticeEnd, threadVars, revokeVars
  <1>4. \/ /\ app # "error" /\ app' = "connecting" /\ wait' = delay
           /\ delay' = Least(2 * delay, MaxInterval) /\ due' = FALSE
        \/ app' = app /\ wait' = wait /\ delay' = delay /\ due' = due
    BY DEF NoticeEnd, ShouldReconnect
  <1>5. ConnectionTypeOK'
    <2>1. delay \in Nat /\ Least(2 * delay, MaxInterval) \in Nat
      BY <1>1, IntervalAssumption DEF ConnectionTypeOK, Least
    <2> QED BY <2>1, <1>1, <1>2, <1>3, <1>4 DEF ConnectionTypeOK
  <1>6. OldConnectionsAreOver'
    BY <1>1, <1>2, <1>3 DEF OldConnectionsAreOver
  <1>7. NotStarted' /\ KnowsLatest' /\ ErrorIsLast' /\ RevokeMatches' /\ WaitsUnread'
    BY <1>1, <1>2, <1>3 DEF NotStarted, KnowsLatest, ErrorIsLast, RevokeMatches, WaitsUnread
  <1>8. EarlyIsQuiet'
    BY <1>2, <1>3 DEF EarlyIsQuiet, EarlyStage
  <1>9. TokenComesFirst'
    <2>1. ~TokenAhead
      BY <1>2 DEF TokenAhead
    <2> QED BY <2>1, <1>1, <1>3 DEF TokenComesFirst
  <1>10. ErrorStops' /\ ScreenInv'
    BY <1>1, <1>3, <1>4 DEF ErrorStops, ScreenInv
  <1> QED
    BY <1>5, <1>6, <1>7, <1>8, <1>9, <1>10 DEF ConnectionInv

LEMMA ReconnectKeeps ==
  ASSUME ConnectionInv, Reconnect
  PROVE  ConnectionInv'
  <1> DEFINE new == latest + 1
  <1>1. /\ ConnectionTypeOK /\ OldConnectionsAreOver /\ NotStarted /\ WaitsUnread /\ KnowsLatest
        /\ EarlyIsQuiet /\ TokenComesFirst /\ ErrorIsLast /\ ErrorStops /\ ScreenInv /\ RevokeMatches
    BY DEF ConnectionInv
  <1>2. /\ reading = 0 /\ latest' = new /\ reading' = new
        /\ stage' = [stage EXCEPT ![new] = "connect"]
        /\ wait' = None /\ due' = FALSE /\ delay' = delay /\ app' = "connecting"
        /\ token' = 0 /\ url' = 0 /\ revoke' = "idle"
        /\ events' = events /\ greeted' = greeted /\ marked' = marked /\ received' = received
        /\ requests' = requests /\ result' = result /\ clicks' = clicks
    BY DEF Reconnect, DelayAtStart, TokenAtStart
  <1>3. new \in Connection /\ latest \in Connection /\ latest \in Nat /\ new \in Nat /\ new # 0
    BY <1>1, BoundsAssumption DEF ConnectionTypeOK, Connection, Reconnect
  <1>4. /\ stage' \in [Connection -> StageSet]
        /\ stage'[new] = "connect"
        /\ \A d \in Connection : d # new => stage'[d] = stage[d]
    BY <1>1, <1>2, <1>3 DEF ConnectionTypeOK, StageSet
  <1>5. stage[new] = "none" /\ events[new] = <<>>
    BY <1>1, <1>3 DEF NotStarted
  <1>6. new \notin marked
    BY <1>1, <1>3, <1>5 DEF NotStarted
  <1>7. ConnectionTypeOK'
    <2>1. 0 \in 0..latest'
      BY <1>2, <1>3
    <2> HIDE DEF new
    <2> QED BY <2>1, <1>1, <1>2, <1>3, <1>4 DEF ConnectionTypeOK, StageSet
  <1>8. OldConnectionsAreOver'
    <2> SUFFICES ASSUME NEW d \in 1..new, d # new
                 PROVE  stage'[d] = "ended" /\ events[d] = <<>>
      BY <1>2 DEF OldConnectionsAreOver
    <2>1. d \in 1..latest
      BY <1>3
    <2>2. d \in Connection /\ d # 0
      BY <1>3, BoundsAssumption DEF Connection
    <2>3. stage'[d] = stage[d]
      BY <2>2, <1>4
    <2> QED BY <2>1, <2>2, <1>1, <1>2, <1>4 DEF OldConnectionsAreOver
  <1>9. NotStarted'
    <2> SUFFICES ASSUME NEW d \in Connection, d > new
                 PROVE  stage'[d] = "none" /\ events[d] = <<>> /\ d \notin marked
      BY <1>2 DEF NotStarted
    <2>1. d > latest /\ d # new
      BY <1>3 DEF Connection
    <2> QED BY <2>1, <1>1, <1>4 DEF NotStarted
  <1>10. EarlyIsQuiet' /\ ErrorIsLast'
    BY <1>2, <1>5, <1>6 DEF EarlyIsQuiet, AllStatus, ErrorIsLast
  <1>11. WaitsUnread' /\ KnowsLatest' /\ TokenComesFirst' /\ ErrorStops' /\ ScreenInv' /\ RevokeMatches'
    BY <1>1, <1>2, <1>6
    DEF WaitsUnread, KnowsLatest, TokenComesFirst, ErrorStops, ScreenInv, RevokeMatches
  <1> QED
    BY <1>7, <1>8, <1>9, <1>10, <1>11 DEF ConnectionInv

(* Time, the button and the results of revocations touch no connection.    *)
LEMMA OthersKeep ==
  ASSUME ConnectionInv,
         \/ PassTime \/ TriggerRevoke \/ (\E request \in Request : EndRevoke(request))
         \/ ShowResult \/ UNCHANGED vars
  PROVE  ConnectionInv'
  <1>1. /\ ConnectionTypeOK /\ OldConnectionsAreOver /\ NotStarted /\ WaitsUnread /\ KnowsLatest
        /\ EarlyIsQuiet /\ TokenComesFirst /\ ErrorIsLast /\ ErrorStops /\ ScreenInv /\ RevokeMatches
    BY DEF ConnectionInv
  <1>2. /\ latest' = latest /\ reading' = reading /\ wait' = wait /\ delay' = delay
        /\ app' = app /\ token' = token /\ url' = url
        /\ stage' = stage /\ events' = events /\ greeted' = greeted
        /\ marked' = marked /\ received' = received
    BY DEF PassTime, TriggerRevoke, EndRevoke, ShowResult, vars, threadVars, retryVars,
           screenVars, revokeVars
  <1>3. /\ OldConnectionsAreOver' /\ NotStarted' /\ WaitsUnread' /\ KnowsLatest' /\ EarlyIsQuiet'
        /\ TokenComesFirst' /\ ErrorIsLast' /\ ErrorStops' /\ ScreenInv'
    BY <1>1, <1>2
    DEF OldConnectionsAreOver, NotStarted, WaitsUnread, KnowsLatest, EarlyIsQuiet, AllStatus,
        TokenComesFirst, TokenAhead, ErrorIsLast, ErrorStops, ScreenInv
  <1>4. /\ due' \in BOOLEAN /\ revoke' \in {"idle", "running", "success", "error"}
        /\ result' \in {"none", "success", "error"} /\ clicks' \in 0..MaxRevokes
        /\ requests' \in SUBSET Request /\ RevokeMatches'
    <2>1. CASE TriggerRevoke
      <3>1. /\ clicks' \in 1..MaxRevokes /\ clicks' \in 0..MaxRevokes
            /\ due' = due /\ result' = result /\ revoke' \in {"error", "running"}
        BY <2>1, <1>1, BoundsAssumption DEF TriggerRevoke, ConnectionTypeOK, retryVars
      <3>2. CASE token = 0 \/ url = 0
        BY <3>1, <3>2, <2>1, <1>1 DEF TriggerRevoke, ConnectionTypeOK, RevokeMatches
      <3>3. CASE ~(token = 0 \/ url = 0)
        <4>1. token = latest /\ url = latest /\ latest \in Connection
          BY <3>3, <1>1 DEF KnowsLatest, ConnectionTypeOK
        <4>2. requests' = requests \cup {[token |-> latest, url |-> latest, click |-> clicks']}
          BY <4>1, <3>3, <2>1 DEF TriggerRevoke
        <4>3. [token |-> latest, url |-> latest, click |-> clicks'] \in Request
          BY <4>1, <3>1 DEF Request
        <4> QED BY <4>2, <4>3, <3>1, <1>1 DEF ConnectionTypeOK, RevokeMatches
      <3> QED BY <3>2, <3>3
    <2>2. CASE ~TriggerRevoke
      BY <2>2, <1>1 DEF PassTime, EndRevoke, ShowResult, vars, threadVars, retryVars, screenVars,
                        revokeVars, ConnectionTypeOK, RevokeMatches
    <2> QED BY <2>1, <2>2
  <1>5. ConnectionTypeOK'
    BY <1>1, <1>2, <1>4 DEF ConnectionTypeOK
  <1> QED
    BY <1>3, <1>4, <1>5 DEF ConnectionInv

LEMMA InitiallyConnection == Init => ConnectionInv
  <1> SUFFICES ASSUME Init PROVE ConnectionInv
    OBVIOUS
  <1>1. 1 \in Connection /\ 1 \in Nat
    BY BoundsAssumption DEF Connection
  <1>2. ConnectionTypeOK
    <2>1. events \in [Connection -> Seq(Event)]
      BY DEF Init
    <2>2. stage \in [Connection -> {"none", "connect", "subscribe", "first", "stream", "ended"}]
      BY DEF Init
    <2>3. received \in [Connection -> 0..MaxEvents]
      BY BoundsAssumption DEF Init
    <2>4. latest = 1 /\ token \in 0..latest /\ url \in 0..latest /\ clicks \in 0..MaxRevokes
      BY BoundsAssumption DEF Init
    <2> QED BY <2>1, <2>2, <2>3, <2>4, <1>1 DEF Init, ConnectionTypeOK, FirstDelay
  <1>3. OldConnectionsAreOver /\ NotStarted
    BY <1>1 DEF Init, OldConnectionsAreOver, NotStarted, Connection
  <1>4. /\ WaitsUnread /\ KnowsLatest /\ EarlyIsQuiet /\ TokenComesFirst
        /\ ErrorIsLast /\ ErrorStops /\ ScreenInv /\ RevokeMatches
    BY <1>1 DEF Init, WaitsUnread, KnowsLatest, EarlyIsQuiet, AllStatus, TokenComesFirst, ErrorIsLast,
           ErrorStops, ScreenInv, RevokeMatches
  <1> QED
    BY <1>2, <1>3, <1>4 DEF ConnectionInv

LEMMA EveryStepKeeps == ConnectionInv /\ [Next]_vars => ConnectionInv'
  <1> SUFFICES ASSUME ConnectionInv, [Next]_vars PROVE ConnectionInv'
    OBVIOUS
  <1>1. CASE \E c \in Connection : Thread(c) \/ NextEvent(c) \/ EndStream(c)
    BY <1>1, ThreadKeeps
  <1>2. CASE HandleEvent
    BY <1>2, HandleEventKeeps
  <1>3. CASE NoticeEnd
    BY <1>3, NoticeEndKeeps
  <1>4. CASE Reconnect
    BY <1>4, ReconnectKeeps
  <1>5. CASE \/ PassTime \/ TriggerRevoke \/ (\E request \in Request : EndRevoke(request))
             \/ ShowResult \/ UNCHANGED vars
    BY <1>5, OthersKeep
  <1> QED
    BY <1>1, <1>2, <1>3, <1>4, <1>5 DEF Next, FrameLoop

-----------------------------------------------------------------------------
LEMMA ConnectionInvariant == Spec => []ConnectionInv
  <1> QED
    BY InitiallyConnection, EveryStepKeeps, PTL DEF Spec

(* The variables keep their types (ui.rs, grpc.rs).                        *)
THEOREM ConnectionTypeCorrect == Spec => []ConnectionTypeOK
  <1>1. ConnectionInv => ConnectionTypeOK
    BY DEF ConnectionInv
  <1> QED
    BY <1>1, ConnectionInvariant, PTL

(* The client never has two streams: when a connection is started, the     *)
(* thread of the one before has ended and all its events are handled       *)
(* (ui.rs:422).                                                            *)
THEOREM OldConnectionsEnd == Spec => []OldConnectionsAreOver
  <1>1. ConnectionInv => OldConnectionsAreOver
    BY DEF ConnectionInv
  <1> QED
    BY <1>1, ConnectionInvariant, PTL

(* No revocation mixes the token of one connection with the address of     *)
(* another (ui.rs:217).                                                    *)
THEOREM RevocationsMatch == Spec => []RevokeMatches
  <1>1. ConnectionInv => RevokeMatches
    BY DEF ConnectionInv
  <1> QED
    BY <1>1, ConnectionInvariant, PTL

(* A QR code on the screen is of the latest connection, with its token if  *)
(* the first frame held one (ui.rs:303).                                   *)
THEOREM ScreenShowsLatest == Spec => []ScreenIsCurrent
  <1>1. ConnectionInv => ScreenIsCurrent
    BY DEF ConnectionInv, ScreenInv, TokenComesFirst, ScreenIsCurrent
  <1> QED
    BY <1>1, ConnectionInvariant, PTL

(* An error stays on the screen and no connection follows it (ui.rs:426).  *)
THEOREM ErrorsAreFinal == Spec => ErrorIsFinal
  <1>1. ConnectionInv /\ [Next]_vars => [app = "error" => app' = "error" /\ latest' = latest]_vars
    <2> SUFFICES ASSUME ConnectionInv, Next, app = "error"
                 PROVE  app' = "error" /\ latest' = latest
      OBVIOUS
    <2>1. wait = None /\ events[latest] = <<>> /\ reading \in {0, latest}
      BY DEF ConnectionInv, ErrorStops, ConnectionTypeOK
    <2>2. ~HandleEvent /\ ~Reconnect
      BY <2>1 DEF HandleEvent, Reconnect
    <2>3. NoticeEnd => app' = app /\ latest' = latest
      BY DEF NoticeEnd, ShouldReconnect
    <2>4. ASSUME NEW c \in Connection, Thread(c) \/ NextEvent(c) \/ EndStream(c)
          PROVE  app' = app /\ latest' = latest
      BY <2>4 DEF Thread, Connect, Subscribe, FirstEvent, NextEvent, EndStream, ThreadOnly,
                  retryVars, screenVars
    <2>5. CASE \/ PassTime \/ TriggerRevoke \/ (\E request \in Request : EndRevoke(request))
               \/ ShowResult
      BY <2>5 DEF PassTime, TriggerRevoke, EndRevoke, ShowResult, retryVars, screenVars
    <2> QED BY <2>2, <2>3, <2>4, <2>5 DEF Next, FrameLoop
  <1> QED
    BY <1>1, ConnectionInvariant, PTL DEF Spec, ErrorIsFinal

-----------------------------------------------------------------------------
(* The waits.  Backoff is the function its definition describes: one that  *)
(* satisfies the equation is put together from those that satisfy it up to *)
(* a number.                                                               *)
Doubled(g, n) == IF n = 0 THEN FirstDelay ELSE Least(2 * g[n - 1], MaxInterval)

Upto(g, n) == \A m \in 0..n : g[m] = Doubled(g, m)

LEMMA UptoExists == \A n \in Nat : \E g : Upto(g, n)
  <1> DEFINE P == {n \in Nat : \E g : Upto(g, n)}
  <1>1. ASSUME NEW n \in Nat, \A m \in Nat : m < n => m \in P
        PROVE  n \in P
    <2>1. CASE n = 0
      <3> DEFINE g == [m \in Nat |-> FirstDelay]
      <3>1. Upto(g, 0)
        BY DEF Upto, Doubled
      <3> HIDE DEF g
      <3> QED BY <3>1, <2>1
    <2>2. CASE n # 0
      <3>0. n - 1 \in P
        <4> HIDE DEF P
        <4>1. n - 1 \in Nat /\ n - 1 < n
          BY <2>2
        <4> QED BY <4>1, <1>1
      <3>1. PICK g : Upto(g, n - 1)
        BY <3>0
      <3> DEFINE h == [m \in Nat |-> IF m < n THEN g[m] ELSE Doubled(g, n)]
      <3>2. \A m \in 0..n : h[m] = IF m < n THEN g[m] ELSE Doubled(g, n)
        OBVIOUS
      <3> HIDE DEF h
      <3>3. ASSUME NEW m \in 0..n PROVE h[m] = Doubled(h, m)
        <4>1. CASE m = 0
          <5>1. g[0] = FirstDelay
            BY <3>1, <2>2 DEF Upto, Doubled
          <5> QED BY <4>1, <5>1, <3>2, <2>2 DEF Doubled
        <4>2. CASE m # 0
          <5>1. h[m - 1] = g[m - 1]
            BY <3>2, <4>2
          <5>2. Doubled(h, m) = Doubled(g, m)
            BY <5>1, <4>2 DEF Doubled
          <5>3. CASE m < n
            <6>1. m \in 0..(n - 1)
              BY <5>3
            <6> QED BY <6>1, <5>2, <5>3, <3>1, <3>2 DEF Upto
          <5>4. CASE m = n
            BY <5>4, <5>2, <3>2
          <5> QED BY <5>3, <5>4
        <4> QED BY <4>1, <4>2
      <3>4. Upto(h, n)
        BY <3>3 DEF Upto
      <3> QED BY <3>4
    <2> QED BY <2>1, <2>2
  <1>2. Nat \subseteq P
    <2> HIDE DEF P
    <2> QED BY <1>1, NumbersByInduction
  <1> QED BY <1>2

LEMMA UptoAgree ==
  ASSUME NEW n \in Nat, NEW g, NEW h, Upto(g, n), Upto(h, n)
  PROVE  g[n] = h[n]
  <1> DEFINE P == {m \in Nat : m <= n => g[m] = h[m]}
  <1>1. ASSUME NEW m \in Nat, \A k \in Nat : k < m => k \in P
        PROVE  m \in P
    <2> SUFFICES ASSUME m <= n PROVE g[m] = h[m]
      OBVIOUS
    <2>1. g[m] = Doubled(g, m) /\ h[m] = Doubled(h, m)
      BY DEF Upto
    <2>2. m # 0 => g[m - 1] = h[m - 1]
      <3> SUFFICES ASSUME m # 0 PROVE g[m - 1] = h[m - 1]
        OBVIOUS
      <3>1. m - 1 \in Nat /\ m - 1 < m /\ m - 1 <= n
        OBVIOUS
      <3> QED BY <3>1, <1>1
    <2> QED BY <2>1, <2>2 DEF Doubled
  <1>2. Nat \subseteq P
    <2> HIDE DEF P
    <2> QED BY <1>1, NumbersByInduction
  <1> QED BY <1>2

LEMMA BackoffIs == \A n \in Nat : Backoff[n] = Doubled(Backoff, n)
  <1> DEFINE f(n) == CHOOSE g : Upto(g, n)
             h == [n \in Nat |-> f(n)[n]]
  <1>1. \A n \in Nat : Upto(f(n), n)
    BY UptoExists
  <1>2. ASSUME NEW n \in Nat PROVE h[n] = Doubled(h, n)
    <2>1. h[n] = Doubled(f(n), n)
      BY <1>1 DEF Upto
    <2>2. CASE n = 0
      BY <2>1, <2>2 DEF Doubled
    <2>3. CASE n # 0
      <3>1. n - 1 \in Nat
        BY <2>3
      <3>2. Upto(f(n), n - 1) /\ Upto(f(n - 1), n - 1)
        <4>1. Upto(f(n), n) /\ Upto(f(n - 1), n - 1)
          BY <1>1, <3>1
        <4>2. \A m \in 0..(n - 1) : m \in 0..n
          OBVIOUS
        <4> HIDE DEF f
        <4> QED BY <4>1, <4>2 DEF Upto
      <3>3. f(n)[n - 1] = f(n - 1)[n - 1]
        <4> HIDE DEF f
        <4> QED BY <3>1, <3>2, UptoAgree
      <3>4. h[n - 1] = f(n - 1)[n - 1]
        BY <3>1
      <3> HIDE DEF f, h
      <3> QED BY <2>1, <2>3, <3>3, <3>4 DEF Doubled
    <2> QED BY <2>2, <2>3
  <1>3. h = [n \in Nat |-> Doubled(h, n)]
    <2>1. h = [n \in Nat |-> h[n]]
      OBVIOUS
    <2> HIDE DEF h
    <2> QED BY <1>2, <2>1
  <1>4. Backoff = CHOOSE g : g = [n \in Nat |-> Doubled(g, n)]
    BY DEF Backoff, Doubled
  <1> HIDE DEF h
  <1>5. Backoff = [n \in Nat |-> Doubled(Backoff, n)]
    BY <1>3, <1>4
  <1> QED BY <1>5

-----------------------------------------------------------------------------
(* WaitsGrow says nothing of the time between two waits.  What the next    *)
(* wait will be is the delay: that of the failures so far, unless a        *)
(* session that starts it anew is still to be handled.                     *)
GreetedStarted == greeted \subseteq 1..latest

HasLast == greeted # {} => \E c \in greeted : \A d \in greeted : d <= c

SessionAhead == \E i \in DOMAIN events[latest] : events[latest][i] = "session"

DelayFollows == reading # 0 => SessionAhead \/ delay = Backoff[Failures]

WaitFollows == wait # None => wait = Backoff[Failures] /\ delay = Backoff[Failures + 1]

WaitInv ==
  /\ GreetedStarted
  /\ HasLast
  /\ SessionAhead => latest \in greeted
  /\ DelayFollows
  /\ WaitFollows

LEMMA LastIs ==
  ASSUME ConnectionTypeOK, GreetedStarted, HasLast
  PROVE  /\ LastGreeted \in 0..latest
         /\ greeted # {} => LastGreeted \in greeted /\ \A d \in greeted : d <= LastGreeted
         /\ greeted = {} <=> LastGreeted = 0
         /\ Failures \in Nat
         /\ latest \in greeted => Failures = 0
  <1>1. latest \in Nat /\ latest # 0
    BY DEF ConnectionTypeOK, Connection
  <1>2. greeted # {} => LastGreeted \in greeted /\ \A d \in greeted : d <= LastGreeted
    BY DEF HasLast, LastGreeted
  <1>3. greeted = {} => LastGreeted = 0
    BY DEF LastGreeted
  <1>4. LastGreeted \in 0..latest /\ (greeted # {} => LastGreeted # 0)
    <2>1. CASE greeted = {}
      BY <2>1, <1>1, <1>3
    <2>2. CASE greeted # {}
      <3>1. LastGreeted \in 1..latest
        BY <2>2, <1>2 DEF GreetedStarted
      <3> QED BY <3>1, <2>2, <1>1
    <2> QED BY <2>1, <2>2
  <1>5. Failures \in Nat
    BY <1>1, <1>4 DEF Failures
  <1>6. latest \in greeted => LastGreeted = latest
    BY <1>1, <1>2, <1>4
  <1> QED BY <1>1, <1>2, <1>3, <1>4, <1>5, <1>6 DEF Failures

(* A session in what a thread sends is recorded, and nothing else is.      *)
HasSession(sent) == \E i \in DOMAIN sent : sent[i] = "session"

LEMMA ThreadGreets ==
  ASSUME NEW c \in Connection, Thread(c) \/ NextEvent(c) \/ EndStream(c)
  PROVE  \E sent \in Seq(Event), next \in StageSet :
           /\ Send(c, sent, next)
           /\ greeted' = IF HasSession(sent) THEN greeted \cup {c} ELSE greeted
  <1>1. ASSUME NEW sent \in Seq(Event), NEW next \in StageSet, Send(c, sent, next),
               greeted' = IF HasSession(sent) THEN greeted \cup {c} ELSE greeted
        PROVE  \E s \in Seq(Event), n \in StageSet :
                 /\ Send(c, s, n)
                 /\ greeted' = IF HasSession(s) THEN greeted \cup {c} ELSE greeted
    BY <1>1
  <1>2. /\ ~HasSession(<<>>) /\ ~HasSession(<<"error">>) /\ ~HasSession(<<"status">>)
        /\ ~HasSession(<<"status", "status">>) /\ ~HasSession(<<"status", "status", "status">>)
        /\ HasSession(<<"token", "session", "channel">>)
        /\ \A frame \in Frame : /\ HasSession(<<frame>>) <=> frame = "session"
                                /\ HasSession(<<frame, "channel">>) <=> frame = "session"
    <2>1. HasSession(<<"token", "session", "channel">>)
      <3>1. 2 \in DOMAIN <<"token", "session", "channel">>
        OBVIOUS
      <3> QED BY <3>1 DEF HasSession
    <2>2. ASSUME NEW frame \in Frame
          PROVE  /\ HasSession(<<frame>>) <=> frame = "session"
                 /\ HasSession(<<frame, "channel">>) <=> frame = "session"
      <3>1. 1 \in DOMAIN <<frame>> /\ 1 \in DOMAIN <<frame, "channel">>
        OBVIOUS
      <3> QED BY <3>1 DEF HasSession
    <2> QED BY <2>1, <2>2 DEF HasSession
  <1>3. /\ <<>> \in Seq(Event) /\ <<"error">> \in Seq(Event) /\ <<"status">> \in Seq(Event)
        /\ <<"status", "status">> \in Seq(Event) /\ <<"status", "status", "status">> \in Seq(Event)
        /\ <<"token", "session", "channel">> \in Seq(Event)
        /\ \A frame \in Frame : <<frame>> \in Seq(Event) /\ <<frame, "channel">> \in Seq(Event)
    BY DEF Event, Frame
  <1>4. {"ended", "subscribe", "first", "stream"} \subseteq StageSet
    BY DEF StageSet
  <1>5. CASE Connect(c)
    BY <1>5, <1>1, <1>2, <1>3, <1>4 DEF Connect
  <1>6. CASE Subscribe(c)
    BY <1>6, <1>1, <1>2, <1>3, <1>4 DEF Subscribe
  <1>7. CASE FirstEvent(c)
    BY <1>7, <1>1, <1>2, <1>3, <1>4 DEF FirstEvent
  <1>8. CASE NextEvent(c)
    BY <1>8, <1>1, <1>2, <1>3, <1>4 DEF NextEvent
  <1>9. CASE EndStream(c)
    BY <1>9, <1>1, <1>2, <1>3, <1>4 DEF EndStream
  <1> QED BY <1>5, <1>6, <1>7, <1>8, <1>9 DEF Thread

LEMMA WaitThread ==
  ASSUME ConnectionInv, WaitInv, NEW c \in Connection, Thread(c) \/ NextEvent(c) \/ EndStream(c)
  PROVE  WaitInv'
  <1> DEFINE old == events[c]
  <1>1. stage[c] \notin {"none", "ended"} /\ ThreadOnly
    BY DEF Thread, Connect, Subscribe, FirstEvent, NextEvent, EndStream
  <1>2. c = reading /\ c = latest /\ wait = None /\ reading # 0
    <2>1. c = reading /\ c = latest
      BY <1>1, ActiveIsRead
    <2>2. c # 0
      BY BoundsAssumption DEF Connection
    <2> QED BY <2>1, <2>2 DEF ConnectionInv, WaitsUnread
  <1>3. UNCHANGED <<latest, reading, delay, wait>>
    BY <1>1 DEF ThreadOnly, retryVars
  <1>4. PICK sent \in Seq(Event), next \in StageSet :
          /\ Send(c, sent, next)
          /\ greeted' = IF HasSession(sent) THEN greeted \cup {c} ELSE greeted
    BY ThreadGreets
  <1>5. events'[c] = old \o sent /\ old \in Seq(Event)
    BY <1>2, <1>4 DEF Send, ConnectionInv, ConnectionTypeOK
  <1>6. /\ \A i \in DOMAIN old : i \in DOMAIN (old \o sent) /\ (old \o sent)[i] = old[i]
        /\ \A i \in DOMAIN sent :
             Len(old) + i \in DOMAIN (old \o sent) /\ (old \o sent)[Len(old) + i] = sent[i]
        /\ \A i \in DOMAIN (old \o sent) :
             i \in DOMAIN old \/ (i - Len(old) \in DOMAIN sent /\ (old \o sent)[i] = sent[i - Len(old)])
    <2> HIDE DEF old
    <2> QED BY <1>5, Appended
  <1> HIDE DEF old
  <1>7. SessionAhead' <=> SessionAhead \/ HasSession(sent)
    <2>1. SessionAhead' <=> HasSession(old \o sent)
      BY <1>2, <1>3, <1>5 DEF SessionAhead, HasSession
    <2>2. SessionAhead <=> HasSession(old)
      BY <1>2 DEF SessionAhead, HasSession, old
    <2>3. HasSession(old \o sent) <=> HasSession(old) \/ HasSession(sent)
      BY <1>6 DEF HasSession
    <2> QED BY <2>1, <2>2, <2>3
  <1>8. latest \in Nat /\ c \in 1..latest
    BY <1>2 DEF Connection
  <1>9. GreetedStarted' /\ HasLast'
    <2>1. GreetedStarted'
      BY <1>3, <1>4, <1>8 DEF WaitInv, GreetedStarted
    <2>2. c \in greeted' => \A d \in greeted' : d <= c
      BY <2>1, <1>2, <1>3, <1>8 DEF GreetedStarted
    <2> QED BY <2>1, <2>2, <1>4 DEF WaitInv, HasLast
  <1>10. SessionAhead' => latest' \in greeted'
    BY <1>2, <1>3, <1>4, <1>7 DEF WaitInv
  <1>11. DelayFollows'
    <2>1. CASE HasSession(sent)
      BY <2>1, <1>7 DEF DelayFollows
    <2>2. CASE ~HasSession(sent)
      <3>1. Failures' = Failures
        BY <2>2, <1>3, <1>4 DEF Failures, LastGreeted
      <3> QED BY <3>1, <1>3, <1>7 DEF WaitInv, DelayFollows
    <2> QED BY <2>1, <2>2
  <1>12. WaitFollows'
    BY <1>2, <1>3 DEF WaitFollows
  <1> QED BY <1>9, <1>10, <1>11, <1>12 DEF WaitInv

LEMMA WaitHandle ==
  ASSUME ConnectionInv, WaitInv, HandleEvent
  PROVE  WaitInv'
  <1> DEFINE old == events[latest]
             event == Head(old)
  <1>1. reading = latest /\ latest \in Connection /\ latest \in Nat /\ wait = None
    BY DEF HandleEvent, ConnectionInv, ConnectionTypeOK, WaitsUnread, Connection
  <1>2. /\ old # <<>> /\ old \in Seq(Event)
        /\ delay' = IF event = "session" THEN FirstDelay ELSE delay
        /\ events'[latest] = Tail(old)
        /\ UNCHANGED <<latest, reading, wait, greeted>>
    BY <1>1 DEF HandleEvent, ConnectionInv, ConnectionTypeOK
  <1>3. /\ Len(old) \in Nat \ {0} /\ Head(old) = old[1] /\ 1 \in DOMAIN old
        /\ DOMAIN old = 1..Len(old) /\ DOMAIN Tail(old) = 1..(Len(old) - 1)
        /\ \A i \in DOMAIN Tail(old) : i + 1 \in DOMAIN old /\ Tail(old)[i] = old[i + 1]
    <2> HIDE DEF old
    <2> QED BY <1>2, Taken
  <1> HIDE DEF old, event
  <1>4. GreetedStarted' /\ HasLast' /\ WaitFollows'
    BY <1>1, <1>2 DEF WaitInv, GreetedStarted, HasLast, WaitFollows
  <1>5. SessionAhead' => SessionAhead
    BY <1>2, <1>3 DEF SessionAhead, old
  <1>6. Failures' = Failures
    BY <1>2 DEF Failures, LastGreeted
  <1>7. DelayFollows'
    <2>1. CASE event = "session"
      <3>1. SessionAhead
        BY <2>1, <1>3 DEF SessionAhead, event, old
      <3>2. Failures = 0
        BY <3>1, LastIs DEF WaitInv, ConnectionInv
      <3>3. Backoff[0] = FirstDelay
        BY BackoffIs DEF Doubled
      <3> QED BY <2>1, <3>2, <3>3, <1>2, <1>6 DEF DelayFollows
    <2>2. CASE event # "session"
      <3>1. SessionAhead => SessionAhead'
        <4> SUFFICES ASSUME NEW i \in DOMAIN old, old[i] = "session" PROVE SessionAhead'
          BY DEF SessionAhead, old
        <4>1. i # 1
          BY <2>2, <1>3 DEF event
        <4>2. i - 1 \in DOMAIN Tail(old) /\ Tail(old)[i - 1] = "session"
          BY <4>1, <1>3
        <4> QED BY <4>2, <1>2 DEF SessionAhead
      <3> QED BY <2>2, <3>1, <1>2, <1>6 DEF WaitInv, DelayFollows
    <2> QED BY <2>1, <2>2
  <1> QED BY <1>2, <1>4, <1>5, <1>7 DEF WaitInv

LEMMA WaitNotice ==
  ASSUME ConnectionInv, WaitInv, NoticeEnd
  PROVE  WaitInv'
  <1>1. /\ reading = latest /\ reading # 0 /\ events[latest] = <<>> /\ wait = None
        /\ reading' = 0 /\ UNCHANGED <<latest, events, greeted>>
    BY DEF NoticeEnd, Disconnected, ConnectionInv, ConnectionTypeOK, WaitsUnread, threadVars
  <1>2. ~SessionAhead /\ ~SessionAhead'
    BY <1>1 DEF SessionAhead
  <1>3. delay = Backoff[Failures] /\ Failures \in Nat
    BY <1>1, <1>2, LastIs DEF WaitInv, DelayFollows, ConnectionInv
  <1>4. Failures' = Failures
    BY <1>1 DEF Failures, LastGreeted
  <1>5. \/ wait' = delay /\ delay' = Least(2 * delay, MaxInterval)
        \/ wait' = None
    BY <1>1 DEF NoticeEnd
  <1>6. Backoff[Failures + 1] = Least(2 * Backoff[Failures], MaxInterval)
    <2>1. Failures + 1 \in Nat /\ Failures + 1 # 0 /\ (Failures + 1) - 1 = Failures
      BY <1>3
    <2> QED BY <2>1, BackoffIs DEF Doubled
  <1>7. WaitFollows'
    BY <1>3, <1>4, <1>5, <1>6 DEF WaitFollows
  <1>8. GreetedStarted' /\ HasLast' /\ DelayFollows'
    BY <1>1 DEF WaitInv, GreetedStarted, HasLast, DelayFollows
  <1> QED BY <1>2, <1>7, <1>8 DEF WaitInv

LEMMA WaitReconnect ==
  ASSUME ConnectionInv, WaitInv, Reconnect
  PROVE  WaitInv'
  <1> DEFINE new == latest + 1
  <1>1. /\ latest \in Nat /\ new \in Nat /\ new > latest /\ new \in Connection
    BY BoundsAssumption DEF Reconnect, ConnectionInv, ConnectionTypeOK, Connection
  <1>2. /\ latest' = new /\ wait # None /\ wait' = None /\ delay' = delay
        /\ greeted' = greeted /\ events' = events /\ events[new] = <<>>
    BY <1>1 DEF Reconnect, DelayAtStart, ConnectionInv, NotStarted
  <1>3. ~SessionAhead'
    BY <1>2 DEF SessionAhead
  <1>4. GreetedStarted' /\ HasLast' /\ WaitFollows'
    BY <1>1, <1>2 DEF WaitInv, GreetedStarted, HasLast, WaitFollows
  <1>5. Failures' = Failures + 1
    <2>1. LastGreeted' = LastGreeted /\ LastGreeted \in 0..latest
      BY <1>2, LastIs DEF LastGreeted, WaitInv, ConnectionInv
    <2> QED BY <1>1, <1>2, <2>1 DEF Failures
  <1>6. DelayFollows'
    BY <1>2, <1>5 DEF WaitInv, WaitFollows, DelayFollows
  <1> QED BY <1>3, <1>4, <1>6 DEF WaitInv

LEMMA WaitStep == ConnectionInv /\ WaitInv /\ [Next]_vars => WaitInv'
  <1> SUFFICES ASSUME ConnectionInv, WaitInv, [Next]_vars PROVE WaitInv'
    OBVIOUS
  <1>1. CASE \/ PassTime \/ TriggerRevoke \/ (\E request \in Request : EndRevoke(request))
             \/ ShowResult \/ UNCHANGED vars
    <2>1. UNCHANGED <<latest, reading, delay, wait, events, greeted>>
      BY <1>1 DEF PassTime, TriggerRevoke, EndRevoke, ShowResult, vars, threadVars, retryVars
    <2> QED BY <2>1 DEF WaitInv, GreetedStarted, HasLast, SessionAhead, DelayFollows, WaitFollows,
                        Failures, LastGreeted
  <1> QED BY <1>1, WaitThread, WaitHandle, WaitNotice, WaitReconnect DEF Next, FrameLoop

LEMMA WaitInit == Init => WaitInv
  <1> SUFFICES ASSUME Init PROVE WaitInv
    OBVIOUS
  <1>1. latest = 1 /\ greeted = {} /\ events[1] = <<>> /\ wait = None /\ delay = FirstDelay
    BY BoundsAssumption DEF Init, Connection
  <1>2. Failures = 0
    BY <1>1 DEF Failures, LastGreeted
  <1>3. Backoff[0] = FirstDelay
    BY BackoffIs DEF Doubled
  <1> QED BY <1>1, <1>2, <1>3 DEF WaitInv, GreetedStarted, HasLast, SessionAhead, DelayFollows,
                                  WaitFollows

(* The wait before a connection is 2 s doubled once for every connection   *)
(* since the last one with a session, up to the limit (ui.rs:431), however *)
(* the sessions' events and the ends of the connections fall.              *)
THEOREM WaitsAlwaysGrow == Spec => []WaitsGrow
  <1>1. WaitInv => WaitsGrow
    BY DEF WaitInv, WaitFollows, WaitsGrow
  <1> QED
    BY <1>1, ConnectionInvariant, WaitInit, WaitStep, PTL DEF Spec
=============================================================================
