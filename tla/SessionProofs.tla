----------------------------- MODULE SessionProofs -----------------------------
(***************************************************************************)
(* One client's session, for all durations that SessionAssumption allows:     *)
(* types, the media socket behind its acknowledgement, the client whose        *)
(* heartbeats keep its connection, and the silent one that is cut.  The        *)
(* inductive invariant follows the one authentication    *)
(* request of a session: from the request over the check, the token and the   *)
(* datagram to the acknowledgement there is at most one of each.             *)
(***************************************************************************)
EXTENDS SessionSilence, TLAPS

\* A message w is on channel c; there is at most one; the oldest come first.
Has(c, w) == \E i \in DOMAIN c : c[i].what = w
Once(c, w) == \A i, j \in DOMAIN c : c[i].what = w /\ c[j].what = w => i = j
InOrder(c) == \A i, j \in DOMAIN c : i <= j => c[i].left <= c[j].left

\* Every w on channel c comes behind a v.
Behind(c, w, v) ==
  \A i \in DOMAIN c : c[i].what = w => \E j \in 1..(i - 1) : c[j].what = v

\* What any channel is: messages in the order they were sent.
Channel(c, whats) == c \in Seq(Message(whats)) /\ InOrder(c)

--------------------------------------------------------------------------------
(* Channels *)

LEMMA Bounds ==
  /\ HeartbeatInterval \in Nat /\ HeartbeatInterval > 0
  /\ AuthTimeout \in Nat /\ AuthTimeout > 0
  /\ MediaTimeout \in Nat /\ MediaTimeout > 0
  /\ MaxLatency \in Nat /\ MaxCheck \in Nat
  /\ ConnectionTimeout \in Nat
  /\ HeartbeatInterval + MaxLatency < ConnectionTimeout
BY SessionAssumption

\* A message that is sent comes last and has all its time.
LEMMA SentShape ==
  ASSUME NEW whats, NEW c \in Seq(Message(whats)), NEW w
  PROVE  /\ DOMAIN Sent(c, w) = 1..(Len(c) + 1)
         /\ DOMAIN c = 1..Len(c) /\ Len(c) \in Nat
         /\ \A i \in 1..Len(c) : Sent(c, w)[i] = c[i]
         /\ Sent(c, w)[Len(c) + 1].what = w
         /\ Sent(c, w)[Len(c) + 1].left = MaxLatency
BY DEF Sent

LEMMA SentChannel ==
  ASSUME NEW whats, NEW c, Channel(c, whats), NEW w \in whats
  PROVE  Channel(Sent(c, w), whats)
<1>1. c \in Seq(Message(whats)) /\ InOrder(c)
  BY DEF Channel
<1>2. [what |-> w, left |-> MaxLatency] \in Message(whats)
  BY Bounds DEF Message
<1>3. Sent(c, w) \in Seq(Message(whats))
  BY <1>1, <1>2 DEF Sent
<1>4. ASSUME NEW i \in 1..Len(c)
      PROVE  c[i].left \in Nat /\ c[i].left <= MaxLatency
  <2>1. c[i] \in Message(whats)
    BY <1>1
  <2> QED BY <2>1, Bounds DEF Message
<1>5. /\ DOMAIN Sent(c, w) = 1..(Len(c) + 1)
      /\ DOMAIN c = 1..Len(c) /\ Len(c) \in Nat
      /\ \A i \in 1..Len(c) : Sent(c, w)[i] = c[i]
      /\ Sent(c, w)[Len(c) + 1].left = MaxLatency
  BY <1>1, SentShape
<1>6. InOrder(Sent(c, w))
  BY <1>1, <1>4, <1>5, Bounds DEF InOrder
<1> QED BY <1>3, <1>6 DEF Channel

LEMMA SentHas ==
  ASSUME NEW whats, NEW c \in Seq(Message(whats)), NEW w, NEW v
  PROVE  Has(Sent(c, w), v) <=> Has(c, v) \/ v = w
<1>1. /\ DOMAIN Sent(c, w) = 1..(Len(c) + 1)
      /\ DOMAIN c = 1..Len(c) /\ Len(c) \in Nat
      /\ \A i \in 1..Len(c) : Sent(c, w)[i] = c[i]
      /\ Sent(c, w)[Len(c) + 1].what = w
  BY SentShape
<1> QED BY <1>1 DEF Has

LEMMA SentOnce ==
  ASSUME NEW whats, NEW c \in Seq(Message(whats)), NEW w, NEW v,
         Once(c, v), v = w => ~Has(c, v)
  PROVE  Once(Sent(c, w), v)
<1>1. /\ DOMAIN Sent(c, w) = 1..(Len(c) + 1)
      /\ DOMAIN c = 1..Len(c) /\ Len(c) \in Nat
      /\ \A i \in 1..Len(c) : Sent(c, w)[i] = c[i]
      /\ Sent(c, w)[Len(c) + 1].what = w
  BY SentShape
<1> QED BY <1>1 DEF Once, Has

\* What is left of a channel when its first message is taken.
LEMMA TailShape ==
  ASSUME NEW whats, NEW c \in Seq(Message(whats)), c # <<>>
  PROVE  /\ Tail(c) \in Seq(Message(whats))
         /\ DOMAIN c = 1..Len(c) /\ Len(c) \in Nat /\ Len(c) > 0
         /\ DOMAIN Tail(c) = 1..(Len(c) - 1)
         /\ \A i \in 1..(Len(c) - 1) : Tail(c)[i] = c[i + 1]
         /\ Head(c) = c[1] /\ Head(c) \in Message(whats)
OBVIOUS

LEMMA TailChannel ==
  ASSUME NEW whats, NEW c, Channel(c, whats), c # <<>>
  PROVE  Channel(Tail(c), whats)
<1>1. c \in Seq(Message(whats)) /\ InOrder(c)
  BY DEF Channel
<1>2. InOrder(Tail(c))
  BY <1>1, TailShape DEF InOrder
<1> QED BY <1>1, <1>2, TailShape DEF Channel

LEMMA TailHas ==
  ASSUME NEW whats, NEW c \in Seq(Message(whats)), c # <<>>, NEW v
  PROVE  /\ Has(Tail(c), v) => Has(c, v)
         /\ Has(c, Head(c).what)
         /\ Has(c, v) /\ Head(c).what # v => Has(Tail(c), v)
         /\ Once(c, v) => Once(Tail(c), v)
         /\ Once(c, v) /\ Head(c).what = v => ~Has(Tail(c), v)
<1>1. /\ DOMAIN c = 1..Len(c) /\ Len(c) \in Nat /\ Len(c) > 0
      /\ DOMAIN Tail(c) = 1..(Len(c) - 1)
      /\ \A i \in 1..(Len(c) - 1) : Tail(c)[i] = c[i + 1]
      /\ Head(c) = c[1]
  BY TailShape
<1>2. Has(Tail(c), v) => Has(c, v)
  BY <1>1 DEF Has
<1>3. Has(c, Head(c).what)
  BY <1>1 DEF Has
<1>4. Has(c, v) /\ Head(c).what # v => Has(Tail(c), v)
  <2> SUFFICES ASSUME NEW i \in DOMAIN c, c[i].what = v, Head(c).what # v
               PROVE  Has(Tail(c), v)
    BY DEF Has
  <2>1. i - 1 \in 1..(Len(c) - 1) /\ Tail(c)[i - 1] = c[i]
    BY <1>1
  <2> QED BY <1>1, <2>1 DEF Has
<1>5. Once(c, v) => Once(Tail(c), v)
  BY <1>1 DEF Once
<1>6. Once(c, v) /\ Head(c).what = v => ~Has(Tail(c), v)
  BY <1>1 DEF Once, Has
<1> QED BY <1>2, <1>3, <1>4, <1>5, <1>6

\* A client that leaves may have sent only the first n of what it sent.
LEMMA SubSeqChannel ==
  ASSUME NEW whats, NEW c, Channel(c, whats), NEW n \in 0..Len(c), NEW v
  PROVE  /\ Channel(SubSeq(c, 1, n), whats)
         /\ Has(SubSeq(c, 1, n), v) => Has(c, v)
         /\ Once(c, v) => Once(SubSeq(c, 1, n), v)
<1>1. c \in Seq(Message(whats)) /\ InOrder(c)
  BY DEF Channel
<1>2. /\ SubSeq(c, 1, n) \in Seq(Message(whats))
      /\ DOMAIN SubSeq(c, 1, n) = 1..n
      /\ DOMAIN c = 1..Len(c) /\ Len(c) \in Nat
      /\ \A i \in 1..n : SubSeq(c, 1, n)[i] = c[i]
  BY <1>1
<1>3. InOrder(SubSeq(c, 1, n))
  BY <1>1, <1>2 DEF InOrder
<1>4. Has(SubSeq(c, 1, n), v) => Has(c, v)
  BY <1>2 DEF Has
<1>5. Once(c, v) => Once(SubSeq(c, 1, n), v)
  BY <1>2 DEF Once
<1> QED BY <1>2, <1>3, <1>4, <1>5 DEF Channel

\* Time passes over a channel on which nothing is due.
LEMMA OlderShape ==
  ASSUME NEW whats, NEW c, Channel(c, whats), ~Due(c)
  PROVE  /\ DOMAIN Older(c) = DOMAIN c
         /\ \A i \in DOMAIN c : /\ c[i].left \in 1..MaxLatency
                                /\ c[i].what \in whats
                                /\ Older(c)[i].what = c[i].what
                                /\ Older(c)[i].left = c[i].left - 1
         /\ Channel(Older(c), whats)
<1>1. c \in Seq(Message(whats)) /\ InOrder(c)
  BY DEF Channel
<1>2. DOMAIN c = 1..Len(c) /\ Len(c) \in Nat
  BY <1>1
<1>3. \A i \in DOMAIN c : c[i] \in Message(whats)
  BY <1>1
<1>4. \A i \in DOMAIN c : c[i].left \in 0..MaxLatency /\ c[i].what \in whats
  BY <1>3 DEF Message
<1>5. ASSUME NEW i \in DOMAIN c PROVE c[i].left \in 1..MaxLatency
  <2>1. c # <<>> /\ 1 \in DOMAIN c /\ 1 <= i /\ Head(c) = c[1]
    BY <1>1, <1>2
  <2>2. c[1].left # 0 /\ c[1].left <= c[i].left
    BY <1>1, <2>1 DEF Due, InOrder
  <2> QED BY <1>4, <2>1, <2>2, Bounds
<1>6. \A i \in DOMAIN c : Older(c)[i] = [what |-> c[i].what, left |-> c[i].left - 1]
  BY <1>3 DEF Older, Message
<1>7. DOMAIN Older(c) = DOMAIN c
  BY DEF Older
<1>8. ASSUME NEW i \in DOMAIN c PROVE Older(c)[i] \in Message(whats)
  <2>1. c[i].left - 1 \in 0..MaxLatency /\ c[i].what \in whats
    BY <1>4, <1>5, Bounds
  <2>2. [what |-> c[i].what, left |-> c[i].left - 1] \in Message(whats)
    BY <2>1 DEF Message
  <2> QED BY <1>6, <2>2
<1>9. Older(c) \in Seq(Message(whats))
  <2>1. Older(c) = [i \in 1..Len(c) |-> Older(c)[i]]
    BY <1>2 DEF Older
  <2> HIDE DEF Older
  <2> QED BY <1>2, <1>8, <2>1
<1>10. InOrder(Older(c))
  BY <1>1, <1>2, <1>4, <1>6, <1>7, Bounds DEF InOrder
<1> QED BY <1>4, <1>5, <1>6, <1>7, <1>9, <1>10 DEF Channel

LEMMA OlderHas ==
  ASSUME NEW whats, NEW c, Channel(c, whats), ~Due(c), NEW v
  PROVE  /\ Has(Older(c), v) <=> Has(c, v)
         /\ Once(c, v) => Once(Older(c), v)
<1>1. /\ DOMAIN Older(c) = DOMAIN c
      /\ \A i \in DOMAIN c : Older(c)[i].what = c[i].what
  BY OlderShape
<1> QED BY <1>1 DEF Has, Once

LEMMA OlderEmpty == Older(<<>>) = <<>>
BY DEF Older

--------------------------------------------------------------------------------
(* The inductive invariant *)

\* Before the socket is connected nothing has begun, at either end.
FreshStart ==
  status \in Waits \cup {"offer"} \/ socket = "connecting" =>
    /\ socket # "connected"
    /\ handler = NoHandler
    /\ media = NoMedia
    /\ left = [t \in Timers |-> Off]
    /\ toServer = <<>> /\ toClient = <<>>
    /\ ~closing

\* A handler that does not live has no rights, no timers and no disconnect.
HandlerEnds ==
  handler.state # "alive" =>
    /\ ~handler.authenticated /\ ~handler.token
    /\ ~Running("connection") /\ ~Running("auth")
    /\ ~closing

\* No authentication has succeeded yet.
Unanswered ==
  /\ ~handler.authenticated /\ ~handler.token
  /\ ~Has(toClient, "mediaauthsuccess")
  /\ media.keepAlives = 0

\* The one request for authentication of a session is on its way, in the check,
\* a token, or answered.
AuthOnce ==
  /\ Once(toServer, "auth")
  /\ Has(toServer, "auth") => Unanswered /\ ~Running("check")
  /\ Running("check") => Unanswered
  /\ handler.token =>
       /\ handler.authenticated
       /\ ~Has(toClient, "mediaauthsuccess")
       /\ media.keepAlives = 0

\* So the media socket is acknowledged once.
AckOnce ==
  /\ Once(toClient, "mediaauthsuccess")
  /\ Has(toClient, "mediaauthsuccess") => media.keepAlives = 0

\* An acknowledgement comes behind the answer that opens the media socket.
AckAfterAuth ==
  /\ ~alive => toClient = <<>>
  /\ alive /\ socket = "connected" /\ handler.token =>
       media.open \/ Has(toClient, "authenticated")
  /\ socket = "connected" =>
       media.open \/ Behind(toClient, "mediaauthsuccess", "authenticated")

SessionInv ==
  /\ SessionTypeOK
  /\ InOrder(toServer) /\ InOrder(toClient)
  /\ FreshStart
  /\ HandlerEnds
  /\ AuthOnce
  /\ AckOnce
  /\ AckAfterAuth

--------------------------------------------------------------------------------
(* The two directions of the connection *)

LEMMA ChannelsTyped ==
  ASSUME SessionInv
  PROVE  /\ Channel(toServer, Requests) /\ Channel(toClient, Answers)
         /\ toServer \in Seq(Message(Requests))
         /\ toClient \in Seq(Message(Answers))
BY DEF SessionInv, SessionTypeOK, Channel

\* What a step does to the messages from the client.
LEMMA ToServerSteps ==
  ASSUME SessionNext
  PROVE  \/ toServer' = toServer
         \/ ServerReceives /\ toServer # <<>> /\ toServer' = Tail(toServer)
         \/ (EndHandler \/ handler.state = "gone") /\ toServer' = <<>>
         \/ /\ socket = "connected" \/ SendHeartbeat
            /\ \E w \in {"heartbeat", "goodbye", "join"} : toServer' = Sent(toServer, w)
         \/ OnConnected
         \/ Leave
         \/ Tick
<1>1. CASE StartsUp
  BY <1>1 DEF StartsUp, Start, CheckVersion, LookupConference,
     LookupPublicConference, OnResolved, GoesOn, wireVars
<1>2. CASE ClientReceives
  BY <1>2 DEF ClientReceives, OnAuthFinished, OnAuthRefused, OnMediaAuthSuccess,
     OnJoined, OnNotJoined, OnDisconnected, Receive
<1>3. CASE ServerReceives
  BY <1>3 DEF ServerReceives, OnNewConnection, Authenticate, Heartbeat, Goodbye,
     JoinChannel, OnClientClosed, Unheard, Handle
<1>4. CASE TimersFire
  BY <1>4 DEF TimersFire, SendHeartbeat, OnMediaAuthTimeout,
     OnAuthenticationTimeout, OnConnectionTimeout, wireVars
<1>5. CASE FinishAuthentication \/ DisconnectFromHost
  BY <1>5 DEF FinishAuthentication, DisconnectFromHost
<1>6. CASE Outside
  BY <1>6 DEF Outside, DeclineUpdate, GoesOn, AcceptUpdate, ConnectFails,
     SendAuthToken, OnTokenAuthentication, DatagramLost, CloseDialog,
     CloseWindow, wireVars
<1> QED BY <1>1, <1>2, <1>3, <1>4, <1>5, <1>6 DEF SessionNext

\* What a step does to the messages from the server.
LEMMA ToClientSteps ==
  ASSUME SessionNext
  PROVE  \/ toClient' = toClient
         \/ ClientReceives /\ toClient # <<>> /\ toClient' = Tail(toClient)
         \/ Leave /\ toClient' = <<>>
         \/ alive /\ \E w \in {"refused", "joined", "notjoined"} : toClient' = Sent(toClient, w)
         \/ alive /\ EndHandler /\ toClient' = Sent(toClient, "end")
         \/ FinishAuthentication
         \/ OnTokenAuthentication
         \/ Tick
<1>1. CASE StartsUp
  BY <1>1 DEF StartsUp, Start, CheckVersion, LookupConference,
     LookupPublicConference, OnResolved, GoesOn, wireVars
<1>2. CASE ClientReceives
  BY <1>2 DEF ClientReceives, OnAuthFinished, OnAuthRefused, OnMediaAuthSuccess,
     OnJoined, OnNotJoined, OnDisconnected, Receive
<1>3. CASE ServerReceives
  BY <1>3 DEF ServerReceives, OnNewConnection, Authenticate, Heartbeat, Goodbye,
     JoinChannel, OnClientClosed, Unheard, Answer
<1>4. CASE TimersFire
  BY <1>4 DEF TimersFire, SendHeartbeat, OnMediaAuthTimeout,
     OnAuthenticationTimeout, OnConnectionTimeout, wireVars
<1>5. CASE DisconnectFromHost
  BY <1>5 DEF DisconnectFromHost, Answer
<1>6. CASE OnConnected \/ Outside
  BY <1>6 DEF OnConnected, Outside, DeclineUpdate, GoesOn, AcceptUpdate, ConnectFails,
     SendAuthToken, DatagramLost, CloseDialog, CloseWindow, Leave, wireVars
<1> QED BY <1>1, <1>2, <1>3, <1>4, <1>5, <1>6 DEF SessionNext

\* How a client appears and leaves.
LEMMA ClientSteps ==
  ASSUME SessionNext
  PROVE  /\ UNCHANGED alive \/ Leave \/ AcceptUpdate
         /\ socket' = "connected" => (socket = "connected" /\ ~OnDisconnected) \/ OnConnected
<1>1. CASE StartsUp
  BY <1>1 DEF StartsUp, Start, CheckVersion, LookupConference,
     LookupPublicConference, OnResolved, GoesOn, OnDisconnected
<1>2. CASE ClientReceives
  BY <1>2 DEF ClientReceives, OnAuthFinished, OnAuthRefused, OnMediaAuthSuccess,
     OnJoined, OnNotJoined, OnDisconnected
<1>3. CASE ServerReceives
  BY <1>3 DEF ServerReceives, OnNewConnection, Authenticate, Heartbeat, Goodbye,
     JoinChannel, OnClientClosed, Unheard, clientVars, OnDisconnected
<1>4. CASE TimersFire
  BY <1>4 DEF TimersFire, SendHeartbeat, OnMediaAuthTimeout,
     OnAuthenticationTimeout, OnConnectionTimeout, clientVars, OnDisconnected
<1>5. CASE FinishAuthentication \/ DisconnectFromHost \/ Tick
  BY <1>5 DEF FinishAuthentication, DisconnectFromHost, Tick, clientVars, OnDisconnected
<1>6. CASE OnConnected \/ Outside
  BY <1>6 DEF OnConnected, Outside, DeclineUpdate, GoesOn, ConnectFails, AcceptUpdate,
     SendAuthToken, OnTokenAuthentication, DatagramLost, CloseDialog, CloseWindow, Leave,
     clientVars, OnDisconnected
<1> QED BY <1>1, <1>2, <1>3, <1>4, <1>5, <1>6 DEF SessionNext

LEMMA EmptyChannel == ASSUME NEW whats, NEW v
                      PROVE  /\ Channel(<<>>, whats)
                             /\ ~Has(<<>>, v) /\ Once(<<>>, v)
BY DEF Channel, InOrder, Has, Once

\* Leave keeps a beginning, with the end of the connection behind it or not.
LEMMA LeaveLine ==
  ASSUME SessionInv, Leave
  PROVE  /\ Channel(toServer', Requests)
         /\ Has(toServer', "auth") => Has(toServer, "auth")
         /\ Once(toServer, "auth") => Once(toServer', "auth")
<1>0. Channel(toServer, Requests) /\ toServer \in Seq(Message(Requests))
  BY ChannelsTyped
<1>1. PICK n \in 0..Len(toServer) :
        toServer' \in {SubSeq(toServer, 1, n), Sent(SubSeq(toServer, 1, n), "end")}
  BY DEF Leave
<1> DEFINE rest == SubSeq(toServer, 1, n)
<1>2. /\ Channel(rest, Requests)
      /\ Has(rest, "auth") => Has(toServer, "auth")
      /\ Once(toServer, "auth") => Once(rest, "auth")
  BY <1>0, SubSeqChannel
<1>3. rest \in Seq(Message(Requests)) /\ toServer' \in {rest, Sent(rest, "end")}
  BY <1>1, <1>2 DEF Channel
<1> HIDE DEF rest
<1>4. CASE toServer' = rest
  BY <1>2, <1>4
<1>5. CASE toServer' = Sent(rest, "end")
  <2>1. "end" \in Requests
    BY DEF Requests
  <2>2. Channel(Sent(rest, "end"), Requests)
    BY <1>2, <2>1, SentChannel
  <2>3. Has(Sent(rest, "end"), "auth") <=> Has(rest, "auth") \/ "auth" = "end"
    BY <1>3, SentHas
  <2>4. Once(rest, "auth") => Once(Sent(rest, "end"), "auth")
    <3>1. "auth" # "end"
      OBVIOUS
    <3> QED BY <1>3, <3>1, SentOnce
  <2> QED BY <1>2, <1>5, <2>2, <2>3, <2>4
<1> QED BY <1>3, <1>4, <1>5

\* The first messages of a session.
LEMMA ConnectLine ==
  ASSUME SessionInv, OnConnected
  PROVE  /\ Channel(toServer', Requests)
         /\ Once(toServer', "auth")
<1>1. toServer = <<>>
  BY DEF SessionInv, FreshStart, OnConnected
<1> DEFINE opened == Sent(toServer, "connect")
<1>2. Channel(toServer, Requests) /\ ~Has(toServer, "auth") /\ Once(toServer, "auth")
  BY <1>1, EmptyChannel
<1>3. Channel(opened, Requests)
  BY <1>2, SentChannel DEF Requests
<1>4. ~Has(opened, "auth") /\ Once(opened, "auth")
  <2>1. toServer \in Seq(Message(Requests)) /\ "auth" # "connect"
    BY <1>2 DEF Channel
  <2>2. Has(opened, "auth") <=> Has(toServer, "auth") \/ "auth" = "connect"
    BY <2>1, SentHas
  <2>3. Once(opened, "auth")
    BY <1>2, <2>1, SentOnce
  <2> QED BY <1>2, <2>1, <2>2, <2>3
<1>5. toServer' \in {opened, Sent(opened, "auth")}
  BY DEF OnConnected
<1> HIDE DEF opened
<1>6. Channel(Sent(opened, "auth"), Requests)
  BY <1>3, SentChannel DEF Requests
<1>7. Once(Sent(opened, "auth"), "auth")
  BY <1>3, <1>4, SentOnce DEF Channel
<1> QED BY <1>3, <1>4, <1>5, <1>6, <1>7

LEMMA ToServerTyped ==
  ASSUME SessionInv, SessionNext
  PROVE  /\ Channel(toServer', Requests)
         /\ ~OnConnected => (Has(toServer', "auth") => Has(toServer, "auth"))
         /\ Once(toServer', "auth")
<1>0. /\ Channel(toServer, Requests) /\ toServer \in Seq(Message(Requests))
      /\ Once(toServer, "auth")
  BY ChannelsTyped DEF SessionInv, AuthOnce
<1> DEFINE Kept == /\ Channel(toServer', Requests)
                   /\ ~OnConnected => (Has(toServer', "auth") => Has(toServer, "auth"))
                   /\ Once(toServer', "auth")
<1>1. CASE toServer' = toServer
  BY <1>0, <1>1
<1>2. CASE toServer # <<>> /\ toServer' = Tail(toServer)
  BY <1>0, <1>2, TailChannel, TailHas
<1>3. CASE toServer' = <<>>
  BY <1>3, EmptyChannel
<1>4. ASSUME NEW w \in {"heartbeat", "goodbye", "join"}, toServer' = Sent(toServer, w)
      PROVE  Kept
  <2>1. w \in Requests /\ w # "auth"
    BY <1>4 DEF Requests
  <2>2. Channel(Sent(toServer, w), Requests)
    BY <1>0, <2>1, SentChannel
  <2>3. Has(Sent(toServer, w), "auth") <=> Has(toServer, "auth") \/ "auth" = w
    BY <1>0, SentHas
  <2>4. Once(Sent(toServer, w), "auth")
    BY <1>0, <2>1, SentOnce
  <2> QED BY <1>4, <2>1, <2>2, <2>3, <2>4
<1>5. CASE OnConnected
  BY <1>5, ConnectLine
<1>6. CASE Leave
  BY <1>0, <1>6, LeaveLine
<1>7. CASE Tick
  BY <1>0, <1>7, OlderShape, OlderHas DEF Tick
<1> QED BY <1>1, <1>2, <1>3, <1>4, <1>5, <1>6, <1>7, ToServerSteps

LEMMA ToClientTyped ==
  ASSUME SessionInv, SessionNext
  PROVE  Channel(toClient', Answers)
<1>0. Channel(toClient, Answers)
  BY ChannelsTyped
<1>1. ASSUME NEW w \in Answers PROVE Channel(Sent(toClient, w), Answers)
  BY <1>0, SentChannel
<1>2. CASE toClient # <<>> /\ toClient' = Tail(toClient)
  BY <1>0, <1>2, TailChannel
<1>3. CASE toClient' = <<>>
  BY <1>3, EmptyChannel
<1>4. CASE \E w \in {"refused", "joined", "notjoined", "end"} : toClient' = Sent(toClient, w)
  BY <1>1, <1>4 DEF Answers
<1>5. CASE FinishAuthentication \/ OnTokenAuthentication
  BY <1>0, <1>1, <1>5 DEF FinishAuthentication, OnTokenAuthentication, Answer, Answers
<1>6. CASE Tick
  BY <1>0, <1>6, OlderShape DEF Tick
<1> QED BY <1>0, <1>2, <1>3, <1>4, <1>5, <1>6, ToClientSteps

--------------------------------------------------------------------------------
(* What a step does to the rest of the state *)

LEMMA HandlerSteps ==
  ASSUME SessionNext
  PROVE  \/ UNCHANGED handler
         \/ OnNewConnection /\ handler' = [NoHandler EXCEPT !.state = "alive"]
         \/ /\ FinishAuthentication /\ Handled
            /\ handler' = [handler EXCEPT !.authenticated = TRUE, !.token = TRUE]
         \/ Handled /\ handler' = [handler EXCEPT !.member = TRUE]
         \/ OnTokenAuthentication /\ Handled /\ handler.token /\ handler' = TakeToken(handler)
         \/ EndHandler
<1>1. CASE StartsUp
  BY <1>1 DEF StartsUp, Start, CheckVersion, LookupConference,
     LookupPublicConference, OnResolved, GoesOn, serverVars
<1>2. CASE ClientReceives
  BY <1>2 DEF ClientReceives, OnAuthFinished, OnAuthRefused, OnMediaAuthSuccess,
     OnJoined, OnNotJoined, OnDisconnected, serverVars
<1>3. CASE ServerReceives
  BY <1>3 DEF ServerReceives, OnNewConnection, Authenticate, Heartbeat, Goodbye,
     JoinChannel, OnClientClosed, Unheard, Handle, serverVars
<1>4. CASE TimersFire
  BY <1>4 DEF TimersFire, SendHeartbeat, OnMediaAuthTimeout,
     OnAuthenticationTimeout, OnConnectionTimeout, serverVars
<1>5. CASE FinishAuthentication \/ DisconnectFromHost
  BY <1>5 DEF FinishAuthentication, DisconnectFromHost
<1>6. CASE OnConnected \/ Outside \/ Tick
  BY <1>6 DEF OnConnected, Outside, Tick, DeclineUpdate, GoesOn, AcceptUpdate, ConnectFails,
     SendAuthToken, OnTokenAuthentication, DatagramLost, CloseDialog,
     CloseWindow, Leave, serverVars
<1> QED BY <1>1, <1>2, <1>3, <1>4, <1>5, <1>6 DEF SessionNext

LEMMA ClosingSteps ==
  ASSUME SessionInv, SessionNext
  PROVE  /\ closing' \in BOOLEAN
         /\ closing' => closing \/ Handled \/ Expired("auth") \/ Expired("connection")
         /\ closing => closing' \/ EndHandler
<1>0. closing \in {TRUE, FALSE} /\ handler.authenticated \in BOOLEAN
  BY DEF SessionInv, SessionTypeOK
<1> DEFINE Kept == /\ closing' \in BOOLEAN
                   /\ closing' => closing \/ Handled \/ Expired("auth") \/ Expired("connection")
                   /\ closing => closing' \/ EndHandler
<1>1. ASSUME UNCHANGED closing PROVE Kept
  <2>1. CASE closing = TRUE
    BY <2>1, <1>1
  <2>2. CASE closing = FALSE
    <3>1. closing' = FALSE
      BY <2>2, <1>1
    <3>2. ~closing' /\ ~closing
      BY <2>2, <3>1
    <3> QED BY <3>1, <3>2
  <2> HIDE DEF Kept
  <2> QED BY <1>0, <2>1, <2>2
<1>2. CASE closing' = TRUE /\ (Handled \/ Expired("connection"))
  BY <1>2
<1>3. CASE Goodbye
  BY <1>0, <1>3 DEF Goodbye, Handle
<1>4. CASE OnAuthenticationTimeout
  BY <1>0, <1>4 DEF OnAuthenticationTimeout
<1>5. CASE EndHandler
  BY <1>5 DEF EndHandler
<1>6. \/ UNCHANGED closing
      \/ closing' = TRUE /\ (Handled \/ Expired("connection"))
      \/ Goodbye \/ OnAuthenticationTimeout
      \/ EndHandler
  <2>1. CASE StartsUp
    BY <2>1 DEF StartsUp, Start, CheckVersion, LookupConference,
       LookupPublicConference, OnResolved, GoesOn, serverVars
  <2>2. CASE ClientReceives
    BY <2>2 DEF ClientReceives, OnAuthFinished, OnAuthRefused, OnMediaAuthSuccess,
       OnJoined, OnNotJoined, OnDisconnected, serverVars
  <2>3. CASE ServerReceives
    BY <2>3 DEF ServerReceives, OnNewConnection, Authenticate, Handle, Heartbeat,
       JoinChannel, OnClientClosed, Unheard, serverVars
  <2>4. CASE TimersFire
    BY <2>4 DEF TimersFire, SendHeartbeat, OnMediaAuthTimeout,
       OnConnectionTimeout, serverVars
  <2>5. CASE FinishAuthentication \/ DisconnectFromHost
    BY <2>5 DEF FinishAuthentication, DisconnectFromHost
  <2>6. CASE OnConnected \/ Outside \/ Tick
    BY <2>6 DEF OnConnected, Outside, Tick, DeclineUpdate, GoesOn, AcceptUpdate, ConnectFails,
       SendAuthToken, OnTokenAuthentication, DatagramLost, CloseDialog,
       CloseWindow, Leave, serverVars
  <2> QED BY <2>1, <2>2, <2>3, <2>4, <2>5, <2>6 DEF SessionNext
<1> QED BY <1>1, <1>2, <1>3, <1>4, <1>5, <1>6

LEMMA MediaSteps ==
  ASSUME SessionNext
  PROVE  \/ UNCHANGED media
         \/ OnAuthFinished /\ media' = [NoMedia EXCEPT !.open = TRUE, !.authTimer = TRUE]
         \/ OnMediaAuthSuccess /\ media' = SetAuthenticated(media)
         \/ OnDisconnected /\ media' = NoMedia
<1>1. CASE StartsUp
  BY <1>1 DEF StartsUp, Start, CheckVersion, LookupConference,
     LookupPublicConference, OnResolved, GoesOn
<1>2. CASE ClientReceives
  BY <1>2 DEF ClientReceives, OnAuthFinished, OnAuthRefused, OnMediaAuthSuccess,
     OnJoined, OnNotJoined, OnDisconnected
<1>3. CASE ServerReceives
  BY <1>3 DEF ServerReceives, OnNewConnection, Authenticate, Heartbeat, Goodbye,
     JoinChannel, OnClientClosed, Unheard, clientVars
<1>4. CASE TimersFire
  BY <1>4 DEF TimersFire, SendHeartbeat, OnMediaAuthTimeout,
     OnAuthenticationTimeout, OnConnectionTimeout, clientVars
<1>5. CASE FinishAuthentication \/ DisconnectFromHost \/ Tick
  BY <1>5 DEF FinishAuthentication, DisconnectFromHost, Tick, clientVars
<1>6. CASE OnConnected \/ Outside
  BY <1>6 DEF OnConnected, Outside, DeclineUpdate, GoesOn, AcceptUpdate, ConnectFails,
     SendAuthToken, OnTokenAuthentication, DatagramLost, CloseDialog,
     CloseWindow, Leave, clientVars
<1> QED BY <1>1, <1>2, <1>3, <1>4, <1>5, <1>6 DEF SessionNext

LEMMA MediaValues ==
  /\ NoMedia.keepAlives = 0 /\ ~NoMedia.open
  /\ [NoMedia EXCEPT !.open = TRUE, !.authTimer = TRUE].keepAlives = 0
  /\ [NoMedia EXCEPT !.open = TRUE, !.authTimer = TRUE].open
BY DEF NoMedia

\* How a step starts or stops timers.
LEMMA TimerSteps ==
  ASSUME SessionNext
  PROVE  \/ UNCHANGED left
         \/ SendHeartbeat /\ left' = Started("heartbeat", HeartbeatInterval)
         \/ OnConnected /\ left' = [left EXCEPT !["heartbeat"] = HeartbeatInterval,
                                                !["media"] = MediaTimeout]
         \/ OnMediaAuthTimeout /\ left' = Stopped({"media"})
         \/ OnMediaAuthSuccess /\ left' = Stopped({"media"})
         \/ OnDisconnected /\ left' = Stopped({"heartbeat"})
         \/ Leave /\ left' = Stopped(ClientTimers)
         \/ OnNewConnection /\ left' = [left EXCEPT !["connection"] = ConnectionTimeout,
                                                    !["auth"] = AuthTimeout]
         \/ Authenticate /\ left' = Started("check", MaxCheck)
         \/ FinishAuthentication /\ left' = Stopped({"check"})
         \/ Heartbeat /\ left' = Started("connection", ConnectionTimeout)
         \/ OnConnectionTimeout /\ left' = Started("connection", ConnectionTimeout)
         \/ OnAuthenticationTimeout /\ left' = Stopped({"auth"})
         \/ EndHandler /\ left' = Stopped(ServerTimers)
         \/ Tick
<1>1. CASE StartsUp
  BY <1>1 DEF StartsUp, Start, CheckVersion, LookupConference,
     LookupPublicConference, OnResolved, GoesOn
<1>2. CASE ClientReceives
  BY <1>2 DEF ClientReceives, OnAuthFinished, OnAuthRefused, OnMediaAuthSuccess,
     OnJoined, OnNotJoined, OnDisconnected
<1>3. CASE ServerReceives
  BY <1>3 DEF ServerReceives, OnNewConnection, Authenticate, Heartbeat, Goodbye,
     JoinChannel, OnClientClosed, EndHandler, Unheard
<1>4. CASE TimersFire
  BY <1>4 DEF TimersFire, SendHeartbeat, OnMediaAuthTimeout,
     OnAuthenticationTimeout, OnConnectionTimeout
<1>5. CASE FinishAuthentication \/ DisconnectFromHost
  BY <1>5 DEF FinishAuthentication, DisconnectFromHost, EndHandler
<1>6. CASE OnConnected \/ Outside
  BY <1>6 DEF OnConnected, Outside, DeclineUpdate, GoesOn, AcceptUpdate, ConnectFails,
     SendAuthToken, OnTokenAuthentication, DatagramLost, CloseDialog,
     CloseWindow, Leave
<1> QED BY <1>1, <1>2, <1>3, <1>4, <1>5, <1>6 DEF SessionNext

LEMMA HeardSteps == ASSUME SessionNext PROVE UNCHANGED heard \/ Heartbeat
<1>1. CASE StartsUp
  BY <1>1 DEF StartsUp, Start, CheckVersion, LookupConference,
     LookupPublicConference, OnResolved, GoesOn, serverVars
<1>2. CASE ClientReceives
  BY <1>2 DEF ClientReceives, OnAuthFinished, OnAuthRefused, OnMediaAuthSuccess,
     OnJoined, OnNotJoined, OnDisconnected, serverVars
<1>3. CASE ServerReceives
  BY <1>3 DEF ServerReceives, OnNewConnection, Authenticate, Goodbye,
     JoinChannel, OnClientClosed, Unheard, serverVars
<1>4. CASE TimersFire
  BY <1>4 DEF TimersFire, SendHeartbeat, OnMediaAuthTimeout,
     OnAuthenticationTimeout, OnConnectionTimeout, serverVars
<1>5. CASE FinishAuthentication \/ DisconnectFromHost \/ Tick
  BY <1>5 DEF FinishAuthentication, DisconnectFromHost, Tick, serverVars
<1>6. CASE OnConnected \/ Outside
  BY <1>6 DEF OnConnected, Outside, DeclineUpdate, GoesOn, AcceptUpdate, ConnectFails,
     SendAuthToken, OnTokenAuthentication, DatagramLost, CloseDialog, CloseWindow, Leave,
     serverVars
<1> QED BY <1>1, <1>2, <1>3, <1>4, <1>5, <1>6 DEF SessionNext

\* The client: what happens to its process, its socket and its windows.
LEMMA ClientTyped ==
  ASSUME SessionInv, SessionNext
  PROVE  /\ {alive', goodbye', timedOut', datagram'} \subseteq BOOLEAN
         /\ socket' \in {"connecting", "connected", "unconnected"}
         /\ status' \in Waits \cup Ends
              \cup {"offer", "connecting", "authenticating", "joining"}
         /\ gui' \in {"startup", "dialog", "window", "closed"}
         /\ heard' \in {"none", "renewed", "refused"}
<1>0. /\ alive \in BOOLEAN /\ goodbye \in BOOLEAN /\ timedOut \in BOOLEAN /\ datagram \in BOOLEAN
      /\ socket \in {"connecting", "connected", "unconnected"}
      /\ status \in Waits \cup Ends
           \cup {"offer", "connecting", "authenticating", "joining"}
      /\ gui \in {"startup", "dialog", "window", "closed"}
      /\ heard \in {"none", "renewed", "refused"}
  BY DEF SessionInv, SessionTypeOK
<1>1. CASE StartsUp
  BY <1>0, <1>1 DEF StartsUp, Start, CheckVersion, LookupConference, LookupPublicConference,
     OnResolved, GoesOn, serverVars, wireVars, InitNetwork, LookupAsked, Waits, Ends
<1>2. CASE ClientReceives
  BY <1>0, <1>2 DEF ClientReceives, OnAuthFinished, OnAuthRefused, OnMediaAuthSuccess,
     OnJoined, OnNotJoined, OnDisconnected, serverVars, Ends
<1>3. CASE ServerReceives
  BY <1>0, <1>3 DEF ServerReceives, OnNewConnection, Authenticate, Heartbeat, Goodbye,
     JoinChannel, OnClientClosed, Unheard, clientVars, serverVars
<1>4. CASE TimersFire
  BY <1>0, <1>4 DEF TimersFire, SendHeartbeat, OnMediaAuthTimeout,
     OnAuthenticationTimeout, OnConnectionTimeout, clientVars, serverVars, wireVars, Ends
<1>5. CASE FinishAuthentication \/ DisconnectFromHost \/ Tick
  BY <1>0, <1>5 DEF FinishAuthentication, DisconnectFromHost, Tick, clientVars, serverVars
<1>6. CASE OnConnected \/ Outside
  BY <1>0, <1>6 DEF OnConnected, Outside, DeclineUpdate, GoesOn, AcceptUpdate, ConnectFails,
     SendAuthToken, OnTokenAuthentication, DatagramLost, CloseDialog, CloseWindow, Leave,
     clientVars, serverVars, wireVars, InitNetwork, LookupAsked, Waits, Ends
<1> QED BY <1>1, <1>2, <1>3, <1>4, <1>5, <1>6 DEF SessionNext

LEMMA TimersTyped ==
  ASSUME SessionInv, SessionNext
  PROVE  left' \in [Timers -> -1..ConnectionTimeout + AuthTimeout + MediaTimeout + MaxCheck]
<1> DEFINE Most == ConnectionTimeout + AuthTimeout + MediaTimeout + MaxCheck
           Lefts == -1..Most
<1>0. left \in [Timers -> Lefts] /\ Off = -1
  BY DEF SessionInv, SessionTypeOK, Off
<1>1. Most \in Nat
  BY Bounds
<1>2. /\ HeartbeatInterval \in 0..Most /\ MediaTimeout \in 0..Most
      /\ ConnectionTimeout \in 0..Most /\ AuthTimeout \in 0..Most /\ MaxCheck \in 0..Most
  BY Bounds
<1> HIDE DEF Most
<1>3. ASSUME NEW t \in Timers, NEW n \in 0..Most
      PROVE  Started(t, n) \in [Timers -> Lefts]
  BY <1>0, <1>1 DEF Started
<1>4. ASSUME NEW ts \in SUBSET Timers PROVE Stopped(ts) \in [Timers -> Lefts]
  BY <1>0, <1>1 DEF Stopped
<1>5. ASSUME NEW t \in Timers, NEW n \in 0..Most, NEW u \in Timers, NEW m \in 0..Most
      PROVE  [left EXCEPT ![t] = n, ![u] = m] \in [Timers -> Lefts]
  <2>1. [Started(t, n) EXCEPT ![u] = m] \in [Timers -> Lefts]
    BY <1>1, <1>3
  <2> QED BY <2>1 DEF Started
<1>6. ASSUME Tick PROVE left' \in [Timers -> Lefts]
  <2>1. left' = [t \in Timers |-> IF left[t] # -1 THEN left[t] - 1 ELSE -1]
    BY <1>6 DEF Tick, Running, Off
  <2>2. \A t \in Timers : left[t] \in Lefts
    BY <1>0
  <2>3. \A t \in Timers : left'[t] \in Lefts
    BY <1>1, <2>1, <2>2
  <2>4. left' = [t \in Timers |-> left'[t]]
    BY <2>1
  <2> HIDE DEF Lefts
  <2> QED BY <2>3, <2>4
<1>7. \/ UNCHANGED left
      \/ \E t \in Timers, n \in 0..Most : left' = Started(t, n)
      \/ \E ts \in SUBSET Timers : left' = Stopped(ts)
      \/ \E t, u \in Timers, n, m \in 0..Most : left' = [left EXCEPT ![t] = n, ![u] = m]
      \/ Tick
  <2>1. /\ "heartbeat" \in Timers /\ "media" \in Timers /\ "connection" \in Timers
        /\ "auth" \in Timers /\ "check" \in Timers
        /\ ClientTimers \in SUBSET Timers /\ ServerTimers \in SUBSET Timers
        /\ {"media"} \in SUBSET Timers /\ {"heartbeat"} \in SUBSET Timers
        /\ {"check"} \in SUBSET Timers /\ {"auth"} \in SUBSET Timers
    BY DEF Timers, ClientTimers, ServerTimers
  <2> QED BY <1>2, <2>1, TimerSteps
<1> HIDE DEF Lefts
<1>8. left' \in [Timers -> Lefts]
  <2>1. UNCHANGED left => left' \in [Timers -> Lefts]
    BY <1>0
  <2>2. ASSUME NEW t \in Timers, NEW n \in 0..Most, left' = Started(t, n)
        PROVE  left' \in [Timers -> Lefts]
    BY <1>3, <2>2
  <2>3. ASSUME NEW ts \in SUBSET Timers, left' = Stopped(ts)
        PROVE  left' \in [Timers -> Lefts]
    BY <1>4, <2>3
  <2>4. ASSUME NEW t \in Timers, NEW n \in 0..Most, NEW u \in Timers, NEW m \in 0..Most,
               left' = [left EXCEPT ![t] = n, ![u] = m]
        PROVE  left' \in [Timers -> Lefts]
    BY <1>5, <2>4
  <2> QED BY <1>6, <1>7, <2>1, <2>2, <2>3, <2>4
<1> QED BY <1>8 DEF Most, Lefts

LEMMA HandlerTyped ==
  ASSUME SessionInv, SessionNext
  PROVE  handler' \in [state : {"none", "alive", "gone"}, authenticated : BOOLEAN,
                       token : BOOLEAN, bound : BOOLEAN, member : BOOLEAN]
<1>1. handler \in [state : {"none", "alive", "gone"}, authenticated : BOOLEAN,
                   token : BOOLEAN, bound : BOOLEAN, member : BOOLEAN]
  BY DEF SessionInv, SessionTypeOK
<1> QED BY <1>1, HandlerSteps DEF NoHandler, TakeToken, EndHandler, GoneHandler

\* A second acknowledgement would start a second keep-alive timer.
LEMMA MediaTyped ==
  ASSUME SessionInv, SessionNext
  PROVE  media' \in [open : BOOLEAN, authenticated : BOOLEAN, authTimer : BOOLEAN,
                     keepAlives : 0..1]
<1> DEFINE Media == [open : BOOLEAN, authenticated : BOOLEAN, authTimer : BOOLEAN,
                     keepAlives : 0..1]
<1>1. media \in Media
  BY DEF SessionInv, SessionTypeOK
<1>2. ASSUME OnMediaAuthSuccess, media' = SetAuthenticated(media) PROVE media' \in Media
  <2>1. Has(toClient, "mediaauthsuccess")
    BY <1>2, ChannelsTyped, TailHas DEF OnMediaAuthSuccess, Receive
  <2>2. media.keepAlives = 0
    BY <2>1 DEF SessionInv, AckOnce
  <2>3. media.keepAlives + 1 = 1
    BY <2>2
  <2>4. media' = [open |-> media.open, authenticated |-> TRUE, authTimer |-> FALSE, keepAlives |-> 1]
    BY <1>1, <1>2, <2>3 DEF SetAuthenticated
  <2> QED BY <1>1, <2>4
<1>3. ASSUME media' = [NoMedia EXCEPT !.open = TRUE, !.authTimer = TRUE] PROVE media' \in Media
  <2>1. media' = [open |-> TRUE, authenticated |-> FALSE, authTimer |-> TRUE, keepAlives |-> 0]
    BY <1>3 DEF NoMedia
  <2> QED BY <2>1
<1>4. ASSUME media' = NoMedia PROVE media' \in Media
  BY <1>4 DEF NoMedia
<1>5. UNCHANGED media => media' \in Media
  BY <1>1
<1> HIDE DEF Media
<1>6. media' \in Media
  BY <1>2, <1>3, <1>4, <1>5, MediaSteps
<1> QED BY <1>6 DEF Media

LEMMA TypesStay == ASSUME SessionInv, SessionNext PROVE SessionTypeOK'
BY ClientTyped, ClosingSteps, TimersTyped, HandlerTyped, MediaTyped, ToServerTyped, ToClientTyped
   DEF SessionTypeOK, Channel

--------------------------------------------------------------------------------
(* Beginning and end *)

LEMMA FreshStartStays == ASSUME SessionInv, SessionNext PROVE FreshStart'
<1> DEFINE Early == status \in Waits \cup {"offer"} \/ socket = "connecting"
           Untouched == /\ handler' = handler /\ media' = media /\ left' = left
                        /\ toServer' = toServer /\ toClient' = toClient /\ closing' = closing
<1>0. Early => /\ socket # "connected" /\ handler = NoHandler /\ media = NoMedia
               /\ left = [t \in Timers |-> Off]
               /\ toServer = <<>> /\ toClient = <<>> /\ ~closing
  BY DEF SessionInv, FreshStart
<1>1. ASSUME StartsUp \/ DeclineUpdate PROVE FreshStart'
  <2>1. Early /\ Untouched /\ socket' \in {socket, "connecting"}
    BY <1>1 DEF StartsUp, Start, CheckVersion, LookupConference, LookupPublicConference,
       OnResolved, DeclineUpdate, GoesOn, serverVars, wireVars, Waits
  <2> QED BY <1>0, <2>1 DEF FreshStart
<1>2. ASSUME ClientReceives PROVE FreshStart'
  <2>1. ~Early
    BY <1>0, <1>2 DEF ClientReceives, OnAuthFinished, OnAuthRefused, OnMediaAuthSuccess,
       OnJoined, OnNotJoined, OnDisconnected, Receive
  <2>2. socket' \in {socket, "unconnected"} /\ status' \in {status, "error", "joining", "disconnected"}
    BY <1>2 DEF ClientReceives, OnAuthFinished, OnAuthRefused, OnMediaAuthSuccess,
       OnJoined, OnNotJoined, OnDisconnected
  <2> QED BY <2>1, <2>2 DEF FreshStart, Waits
<1>3. ASSUME ServerReceives \/ OnAuthenticationTimeout \/ OnConnectionTimeout
               \/ FinishAuthentication \/ DisconnectFromHost \/ Tick
      PROVE  FreshStart'
  <2>1. ~Early
    BY <1>0, <1>3 DEF ServerReceives, OnNewConnection, Authenticate, Heartbeat, Goodbye,
       JoinChannel, OnClientClosed, Unheard, Handle, OnAuthenticationTimeout,
       OnConnectionTimeout, FinishAuthentication, DisconnectFromHost, Tick, Expired, Running, Off, Timers
  <2>2. UNCHANGED <<status, socket>>
    BY <1>3 DEF ServerReceives, OnNewConnection, Authenticate, Heartbeat, Goodbye,
       JoinChannel, OnClientClosed, Unheard, OnAuthenticationTimeout,
       OnConnectionTimeout, FinishAuthentication, DisconnectFromHost, Tick, clientVars
  <2> QED BY <2>1, <2>2 DEF FreshStart
<1>4. ASSUME SendHeartbeat \/ OnMediaAuthTimeout \/ OnConnected PROVE FreshStart'
  <2>1. CASE OnConnected
    BY <2>1 DEF OnConnected, FreshStart, Waits
  <2>2. CASE SendHeartbeat \/ OnMediaAuthTimeout
    <3>1. ~Early
      BY <1>0, <2>2 DEF SendHeartbeat, OnMediaAuthTimeout, Expired, Off, Timers
    <3> QED BY <2>2, <3>1 DEF SendHeartbeat, OnMediaAuthTimeout, clientVars, FreshStart, Waits
  <2> QED BY <1>4, <2>1, <2>2
<1>5. ASSUME AcceptUpdate \/ SendAuthToken \/ DatagramLost \/ CloseDialog PROVE FreshStart'
  <2>1. Untouched /\ UNCHANGED <<status, socket>>
    BY <1>5 DEF AcceptUpdate, SendAuthToken, DatagramLost, CloseDialog, clientVars,
       serverVars, wireVars
  <2> QED BY <1>0, <2>1 DEF FreshStart
<1>6. ASSUME ConnectFails PROVE FreshStart'
  BY <1>6 DEF ConnectFails, FreshStart, Waits
<1>7. ASSUME OnTokenAuthentication \/ CloseWindow PROVE FreshStart'
  <2>1. UNCHANGED <<status, socket>>
    BY <1>7 DEF OnTokenAuthentication, CloseWindow, clientVars
  <2>2. Early => Untouched
    BY <1>0, <1>7 DEF OnTokenAuthentication, CloseWindow, Handled, NoHandler, clientVars, serverVars
  <2> QED BY <1>0, <2>1, <2>2 DEF FreshStart
<1>8. ASSUME Leave PROVE FreshStart'
  <2>1. UNCHANGED <<status, socket, handler, media, closing>> /\ toClient' = <<>>
    BY <1>8 DEF Leave, serverVars
  <2>2. Early => left' = [t \in Timers |-> Off] /\ toServer' = <<>>
    BY <1>0, <1>8 DEF Leave, Stopped
  <2> QED BY <1>0, <2>1, <2>2 DEF FreshStart
<1> QED BY <1>1, <1>2, <1>3, <1>4, <1>5, <1>6, <1>7, <1>8 DEF SessionNext, TimersFire, Outside

LEMMA HandlerEndsStays == ASSUME SessionInv, SessionNext PROVE HandlerEnds'
<1>0. /\ handler.state # "alive" =>
           /\ ~handler.authenticated /\ ~handler.token
           /\ left["connection"] = -1 /\ left["auth"] = -1 /\ ~closing
      /\ left \in [Timers -> Int]
  BY Bounds DEF SessionInv, SessionTypeOK, HandlerEnds, Running, Off
<1> SUFFICES ASSUME handler'.state # "alive"
             PROVE  /\ ~handler'.authenticated /\ ~handler'.token
                    /\ left'["connection"] = -1 /\ left'["auth"] = -1
                    /\ ~closing'
  BY DEF HandlerEnds, Running, Off
<1>1. EndHandler \/ (UNCHANGED handler /\ ~Handled)
  <2>1. handler \in [state : {"none", "alive", "gone"}, authenticated : BOOLEAN,
                   token : BOOLEAN, bound : BOOLEAN, member : BOOLEAN]
    BY DEF SessionInv, SessionTypeOK
  <2> QED BY <2>1, HandlerSteps DEF Handled, TakeToken, NoHandler
<1>2. CASE EndHandler
  BY <1>2 DEF EndHandler, GoneHandler, NoHandler, Stopped, ServerTimers, Timers, Off
<1>3. CASE UNCHANGED handler /\ ~Handled
  <2>1. ~handler'.authenticated /\ ~handler'.token
    BY <1>0, <1>3 DEF Handled
  <2>2. ~closing'
    BY <1>0, <1>3, ClosingSteps DEF Handled, Expired
  <2>3. ~OnNewConnection
    BY <1>3 DEF OnNewConnection, NoHandler, Handled
  <2>4. ~Heartbeat /\ ~Authenticate /\ ~OnConnectionTimeout
    BY <1>0, <1>3 DEF Handled, Heartbeat, Handle, Authenticate, OnConnectionTimeout, Expired
  <2>5. /\ left \in [Timers -> Int]
        /\ \A ts, u : u \in Timers => Stopped(ts)[u] = IF u \in ts THEN -1 ELSE left[u]
        /\ \A n : /\ Started("heartbeat", n)["connection"] = left["connection"]
                 /\ Started("heartbeat", n)["auth"] = left["auth"]
        /\ "connection" \in Timers /\ "auth" \in Timers
    BY <1>0 DEF Stopped, Started, Off, Timers
  <2> DEFINE Stay == left'["connection"] = -1 /\ left'["auth"] = -1
  <2>6. ASSUME left' = [left EXCEPT !["heartbeat"] = HeartbeatInterval, !["media"] = MediaTimeout]
        PROVE  Stay
    BY <1>0, <1>3, <2>6 DEF Timers, Handled
  <2>7. ASSUME Tick PROVE Stay
    BY <1>0, <1>3, <2>5, <2>7 DEF Tick, Running, Off, Handled
  <2>8. left["connection"] = -1 /\ left["auth"] = -1
    BY <1>0, <1>3 DEF Handled
  <2>9. ASSUME NEW ts, left' = Stopped(ts) PROVE Stay
    BY <2>5, <2>8, <2>9
  <2>10. ASSUME left' = Started("heartbeat", HeartbeatInterval) PROVE Stay
    BY <2>5, <2>8, <2>10
  <2>11. UNCHANGED left => Stay
    BY <2>8
  <2> HIDE DEF Stay
  <2>12. Stay
    BY <2>3, <2>4, <2>6, <2>7, <2>9, <2>10, <2>11, TimerSteps
  <2> QED BY <2>1, <2>2, <2>12 DEF Stay
<1> QED BY <1>1, <1>2, <1>3

--------------------------------------------------------------------------------
(* One request, one acknowledgement *)

\* The server redeems the token.
Redeems == OnTokenAuthentication /\ Handled /\ handler.token

LEMMA AckSteps ==
  ASSUME SessionInv, SessionNext
  PROVE  /\ ~Redeems => (Has(toClient', "mediaauthsuccess") => Has(toClient, "mediaauthsuccess"))
         /\ ~Has(toClient, "mediaauthsuccess") \/ ~Redeems => Once(toClient', "mediaauthsuccess")
<1> DEFINE ack == "mediaauthsuccess"
           Kept == /\ ~Redeems => (Has(toClient', ack) => Has(toClient, ack))
                   /\ ~Has(toClient, ack) \/ ~Redeems => Once(toClient', ack)
<1>0. /\ Channel(toClient, Answers) /\ toClient \in Seq(Message(Answers))
      /\ Once(toClient, ack)
  BY ChannelsTyped DEF SessionInv, AckOnce
<1>1. ASSUME NEW w \in Answers \ {ack}, toClient' = Sent(toClient, w) PROVE Kept
  <2>1. Has(Sent(toClient, w), ack) <=> Has(toClient, ack) \/ ack = w
    BY <1>0, SentHas
  <2>2. Once(Sent(toClient, w), ack)
    BY <1>0, <1>1, SentOnce
  <2> QED BY <1>1, <2>1, <2>2
<1>2. ASSUME toClient' = toClient PROVE Kept
  BY <1>0, <1>2
<1>3. ASSUME toClient # <<>>, toClient' = Tail(toClient) PROVE Kept
  BY <1>0, <1>3, TailHas
<1>4. ASSUME toClient' = <<>> PROVE Kept
  BY <1>4, EmptyChannel
<1>5. ASSUME Tick PROVE Kept
  BY <1>0, <1>5, OlderHas DEF Tick
<1>6. ASSUME FinishAuthentication PROVE Kept
  <2>1. \/ toClient' = toClient
        \/ \E w \in Answers \ {ack} : toClient' = Sent(toClient, w)
    BY <1>6 DEF FinishAuthentication, Answer, Answers
  <2> HIDE DEF Kept
  <2> QED BY <1>1, <1>2, <2>1
<1>7. ASSUME OnTokenAuthentication PROVE Kept
  <2>1. CASE toClient' = toClient
    BY <1>2, <2>1
  <2>2. CASE Redeems /\ toClient' = Sent(toClient, ack)
    BY <1>0, <2>2, SentOnce
  <2> QED BY <1>7, <2>1, <2>2 DEF OnTokenAuthentication, Answer, Redeems
<1>8. {"refused", "joined", "notjoined", "end"} \subseteq Answers \ {ack}
  BY DEF Answers
<1> HIDE DEF Kept
<1>9. Kept
  BY <1>1, <1>2, <1>3, <1>4, <1>5, <1>6, <1>7, <1>8, ToClientSteps
<1> QED BY <1>9 DEF Kept

LEMMA KeepAliveSteps ==
  ASSUME SessionInv, SessionNext
  PROVE  /\ media.keepAlives = 0 /\ ~Has(toClient, "mediaauthsuccess") => media'.keepAlives = 0
         /\ OnMediaAuthSuccess => /\ Has(toClient, "mediaauthsuccess")
                                  /\ ~Has(toClient', "mediaauthsuccess")
<1>0. toClient \in Seq(Message(Answers)) /\ Once(toClient, "mediaauthsuccess")
  BY ChannelsTyped DEF SessionInv, AckOnce
<1>1. OnMediaAuthSuccess => /\ Has(toClient, "mediaauthsuccess")
                            /\ ~Has(toClient', "mediaauthsuccess")
  BY <1>0, TailHas DEF OnMediaAuthSuccess, Receive
<1> QED BY <1>1, MediaSteps, MediaValues

\* Until the check ends nothing is authenticated.
LEMMA UnansweredStays ==
  ASSUME SessionInv, SessionNext, Unanswered, ~FinishAuthentication
  PROVE  Unanswered'
<1>1. ~handler.authenticated /\ ~handler.token /\ ~Has(toClient, "mediaauthsuccess")
        /\ media.keepAlives = 0
  BY DEF Unanswered
<1>2. ~handler'.authenticated /\ ~handler'.token
  <2>1. handler \in [state : {"none", "alive", "gone"}, authenticated : BOOLEAN,
                     token : BOOLEAN, bound : BOOLEAN, member : BOOLEAN]
    BY DEF SessionInv, SessionTypeOK
  <2> QED BY <1>1, <2>1, HandlerSteps DEF NoHandler, EndHandler, GoneHandler
<1>3. ~Has(toClient', "mediaauthsuccess")
  BY <1>1, AckSteps DEF Redeems
<1>4. media'.keepAlives = 0
  BY <1>1, KeepAliveSteps
<1> QED BY <1>2, <1>3, <1>4 DEF Unanswered

LEMMA AuthOnceStays == ASSUME SessionInv, SessionNext PROVE AuthOnce'
<1>0. /\ Once(toServer, "auth")
      /\ Has(toServer, "auth") => Unanswered /\ ~Running("check")
      /\ Running("check") => Unanswered
      /\ handler.token => /\ handler.authenticated
                          /\ ~Has(toClient, "mediaauthsuccess")
                          /\ media.keepAlives = 0
      /\ toServer \in Seq(Message(Requests))
      /\ left \in [Timers -> Int]
  BY ChannelsTyped, Bounds DEF SessionInv, AuthOnce, SessionTypeOK
<1>1. Once(toServer', "auth")
  BY ToServerTyped
<1>2. Running("check")' => Running("check") \/ Authenticate
  <2>1. left'["check"] = left["check"] \/ Authenticate \/ left'["check"] = -1 \/ Tick
    BY <1>0, TimerSteps DEF Started, Stopped, Off, Timers, ClientTimers, ServerTimers
  <2>2. Tick /\ left["check"] = -1 => left'["check"] = -1
    BY <1>0 DEF Tick, Running, Off, Timers
  <2> QED BY <2>1, <2>2 DEF Running, Off
<1>3. FinishAuthentication => Running("check") /\ ~Running("check")'
  BY <1>0 DEF FinishAuthentication, Stopped, Running, Timers
<1>4. Authenticate => Has(toServer, "auth") /\ ~Has(toServer', "auth")
  BY <1>0, TailHas DEF Authenticate, Handle
<1>5. ASSUME Has(toServer', "auth") PROVE Unanswered' /\ ~Running("check")'
  <2>1. CASE OnConnected
    <3>1. /\ handler = NoHandler /\ media = NoMedia /\ toClient = <<>>
          /\ left = [t \in Timers |-> Off]
      BY <2>1 DEF SessionInv, FreshStart, OnConnected
    <3>2. /\ handler' = NoHandler /\ media' = NoMedia /\ toClient' = <<>>
          /\ left'["check"] = -1
      BY <2>1, <3>1 DEF OnConnected, serverVars, Timers, Off
    <3> QED BY <3>2, EmptyChannel DEF Unanswered, NoHandler, NoMedia, Running, Off
  <2>2. CASE ~OnConnected
    <3>1. Has(toServer, "auth")
      BY <1>5, <2>2, ToServerTyped
    <3> QED BY <1>0, <1>2, <1>3, <1>4, <1>5, <3>1, UnansweredStays
  <2> QED BY <2>1, <2>2
<1>6. ASSUME Running("check")' PROVE Unanswered'
  BY <1>0, <1>2, <1>3, <1>4, <1>6, UnansweredStays
<1>7. ASSUME handler'.token
      PROVE  /\ handler'.authenticated
             /\ ~Has(toClient', "mediaauthsuccess")
             /\ media'.keepAlives = 0
  <2>1. CASE FinishAuthentication
    <3>1. Unanswered
      BY <1>0, <1>3, <2>1
    <3>2. ~OnTokenAuthentication \/ ~handler.token
      BY <3>1 DEF Unanswered
    <3>3. ~Has(toClient', "mediaauthsuccess") /\ media'.keepAlives = 0
      BY <3>1, <3>2, AckSteps, KeepAliveSteps DEF Unanswered, Redeems
    <3>4. handler'.authenticated
      <4>1. handler \in [state : {"none", "alive", "gone"}, authenticated : BOOLEAN,
                         token : BOOLEAN, bound : BOOLEAN, member : BOOLEAN]
        BY DEF SessionInv, SessionTypeOK
      <4> QED BY <1>7, <2>1, <3>1, <4>1 DEF FinishAuthentication, Unanswered
    <3> QED BY <3>3, <3>4
  <2>2. CASE ~FinishAuthentication
    <3>1. handler.token /\ ~Redeems /\ handler'.authenticated
      <4>1. handler \in [state : {"none", "alive", "gone"}, authenticated : BOOLEAN,
                         token : BOOLEAN, bound : BOOLEAN, member : BOOLEAN]
        BY DEF SessionInv, SessionTypeOK
      <4>2. ~Redeems
        BY <1>7, <4>1 DEF Redeems, OnTokenAuthentication, TakeToken
      <4> QED BY <1>0, <1>7, <2>2, <4>1, <4>2, HandlerSteps
              DEF NoHandler, TakeToken, EndHandler, GoneHandler, Redeems
    <3> QED BY <1>0, <3>1, AckSteps, KeepAliveSteps
  <2> QED BY <2>1, <2>2
<1> QED BY <1>1, <1>5, <1>6, <1>7 DEF AuthOnce

LEMMA AckOnceStays == ASSUME SessionInv, SessionNext PROVE AckOnce'
<1>0. /\ Has(toClient, "mediaauthsuccess") => media.keepAlives = 0
      /\ handler.token => ~Has(toClient, "mediaauthsuccess") /\ media.keepAlives = 0
  BY DEF SessionInv, AckOnce, AuthOnce
<1>1. Once(toClient', "mediaauthsuccess")
  BY <1>0, AckSteps DEF Redeems
<1>2. ASSUME Has(toClient', "mediaauthsuccess") PROVE media'.keepAlives = 0
  <2>1. media.keepAlives = 0 /\ ~OnMediaAuthSuccess
    BY <1>0, <1>2, AckSteps, KeepAliveSteps DEF Redeems
  <2> QED BY <2>1, MediaSteps, MediaValues
<1> QED BY <1>1, <1>2 DEF AckOnce

--------------------------------------------------------------------------------
(* The acknowledgement behind the answer that opens the media socket *)

LEMMA SentBehind ==
  ASSUME NEW whats, NEW c \in Seq(Message(whats)), NEW w, NEW v, NEW n,
         Behind(c, w, v), n = w => Has(c, v)
  PROVE  Behind(Sent(c, n), w, v)
<1>1. /\ DOMAIN Sent(c, n) = 1..(Len(c) + 1)
      /\ DOMAIN c = 1..Len(c) /\ Len(c) \in Nat
      /\ \A i \in 1..Len(c) : Sent(c, n)[i] = c[i]
      /\ Sent(c, n)[Len(c) + 1].what = n
  BY SentShape
<1> SUFFICES ASSUME NEW i \in 1..(Len(c) + 1), Sent(c, n)[i].what = w
             PROVE  \E j \in 1..(i - 1) : Sent(c, n)[j].what = v
  BY <1>1 DEF Behind
<1>2. CASE i \in 1..Len(c)
  <2>1. PICK j \in 1..(i - 1) : c[j].what = v
    BY <1>1, <1>2 DEF Behind
  <2>2. j \in 1..Len(c)
    BY <1>1, <1>2, <2>1
  <2> QED BY <1>1, <2>1, <2>2
<1>3. CASE i = Len(c) + 1
  <2>1. PICK j \in 1..Len(c) : c[j].what = v
    BY <1>1, <1>3 DEF Has
  <2> QED BY <1>1, <1>3, <2>1
<1> QED BY <1>1, <1>2, <1>3

LEMMA TailBehind ==
  ASSUME NEW whats, NEW c \in Seq(Message(whats)), NEW w, NEW v,
         c # <<>>, Head(c).what # v, Behind(c, w, v)
  PROVE  Behind(Tail(c), w, v)
<1>1. /\ DOMAIN c = 1..Len(c) /\ Len(c) \in Nat /\ Len(c) > 0
      /\ DOMAIN Tail(c) = 1..(Len(c) - 1)
      /\ \A i \in 1..(Len(c) - 1) : Tail(c)[i] = c[i + 1]
      /\ Head(c) = c[1]
  BY TailShape
<1> SUFFICES ASSUME NEW i \in 1..(Len(c) - 1), Tail(c)[i].what = w
             PROVE  \E j \in 1..(i - 1) : Tail(c)[j].what = v
  BY <1>1 DEF Behind
<1>2. PICK k \in 1..i : c[k].what = v
  <2>1. i + 1 \in 1..Len(c) /\ c[i + 1].what = w /\ (i + 1) - 1 = i
    BY <1>1
  <2> QED BY <1>1, <2>1 DEF Behind
<1>3. k - 1 \in 1..(i - 1) /\ Tail(c)[k - 1] = c[k]
  <2>1. k # 1
    BY <1>1, <1>2
  <2> QED BY <1>1, <1>2, <2>1
<1> QED BY <1>2, <1>3

LEMMA OlderBehind ==
  ASSUME NEW whats, NEW c, Channel(c, whats), ~Due(c), NEW w, NEW v, Behind(c, w, v)
  PROVE  Behind(Older(c), w, v)
<1>1. /\ DOMAIN Older(c) = DOMAIN c
      /\ \A i \in DOMAIN c : Older(c)[i].what = c[i].what
      /\ DOMAIN c = 1..Len(c) /\ Len(c) \in Nat
  BY OlderShape DEF Channel
<1> SUFFICES ASSUME NEW i \in DOMAIN c, c[i].what = w
             PROVE  \E j \in 1..(i - 1) : Older(c)[j].what = v
  BY <1>1 DEF Behind
<1>2. PICK j \in 1..(i - 1) : c[j].what = v
  BY DEF Behind
<1>3. j \in DOMAIN c
  BY <1>1, <1>2
<1> QED BY <1>1, <1>2, <1>3

LEMMA AckAfterAuthStays == ASSUME SessionInv, SessionNext PROVE AckAfterAuth'
<1> DEFINE auth == "authenticated"
           ack == "mediaauthsuccess"
           Line(c) == Behind(c, ack, auth)
<1>0. /\ ~alive => toClient = <<>>
      /\ alive /\ socket = "connected" /\ handler.token => media.open \/ Has(toClient, auth)
      /\ socket = "connected" => media.open \/ Line(toClient)
      /\ Channel(toClient, Answers) /\ toClient \in Seq(Message(Answers))
      /\ alive \in {TRUE, FALSE}
  BY ChannelsTyped DEF SessionInv, SessionTypeOK, AckAfterAuth
<1>1. ASSUME ~alive' PROVE toClient' = <<>>
  <2>1. CASE Leave \/ AcceptUpdate
    BY <2>1 DEF Leave, AcceptUpdate, wireVars, SessionInv, FreshStart
  <2>2. CASE UNCHANGED alive
    <3>1. ~alive /\ toClient = <<>>
      BY <1>0, <1>1, <2>2
    <3> QED BY <3>1, ToClientSteps, OlderEmpty
            DEF FinishAuthentication, OnTokenAuthentication, Answer, Tick, Leave
  <2> QED BY <2>1, <2>2, ClientSteps
<1>2. ASSUME socket' = "connected", OnConnected
      PROVE  ~handler'.token /\ Line(toClient')
  <2>1. handler = NoHandler /\ toClient = <<>>
    BY <1>2 DEF SessionInv, FreshStart, OnConnected
  <2>2. handler' = NoHandler /\ toClient' = <<>>
    BY <1>2, <2>1 DEF OnConnected, serverVars
  <2> QED BY <2>2 DEF NoHandler, Behind
<1>3. ASSUME socket = "connected", ~OnDisconnected
      PROVE  media.open \/ OnAuthFinished => media'.open
  <2>1. media \in [open : BOOLEAN, authenticated : BOOLEAN, authTimer : BOOLEAN, keepAlives : 0..1]
    BY DEF SessionInv, SessionTypeOK
  <2>2. SetAuthenticated(media).open = media.open
    BY <2>1 DEF SetAuthenticated
  <2> QED BY <1>3, <2>2, MediaSteps, MediaValues DEF OnAuthFinished
<1>4. ClientReceives /\ ~OnAuthFinished => Head(toClient).what # auth
  BY DEF ClientReceives, OnAuthRefused, OnMediaAuthSuccess, OnJoined,
     OnNotJoined, OnDisconnected, Receive
<1>5. ASSUME alive, Has(toClient, auth), ~OnAuthFinished, ~Leave
      PROVE  Has(toClient', auth)
  <2>1. ASSUME NEW w PROVE Has(Sent(toClient, w), auth)
    BY <1>0, <1>5, SentHas
  <2>2. Tick => Has(toClient', auth)
    BY <1>0, <1>5, OlderHas DEF Tick
  <2>3. ClientReceives /\ toClient # <<>> => Has(Tail(toClient), auth)
    BY <1>0, <1>4, <1>5, TailHas
  <2>4. FinishAuthentication \/ OnTokenAuthentication => Has(toClient', auth)
    BY <1>5, <2>1 DEF FinishAuthentication, OnTokenAuthentication, Answer
  <2> QED BY <1>5, <2>1, <2>2, <2>3, <2>4, ToClientSteps
<1>6. ASSUME alive', socket' = "connected", handler'.token
      PROVE  media'.open \/ Has(toClient', auth)
  <2>1. socket = "connected" /\ ~OnDisconnected
    BY <1>2, <1>6, ClientSteps
  <2>2. alive /\ ~Leave
    BY <1>6, ClientSteps DEF Leave, AcceptUpdate
  <2>3. CASE handler.token
    BY <1>0, <1>3, <1>5, <2>1, <2>2, <2>3
  <2>4. CASE ~handler.token
    <3>1. FinishAuthentication /\ toClient' = Sent(toClient, auth)
      <4>1. handler'.token /\ ~handler.token
        BY <1>6, <2>4
      <4>2. handler \in [state : {"none", "alive", "gone"}, authenticated : BOOLEAN,
                         token : BOOLEAN, bound : BOOLEAN, member : BOOLEAN]
        BY DEF SessionInv, SessionTypeOK
      <4>3. /\ [handler EXCEPT !.member = TRUE].token = handler.token
            /\ ~[NoHandler EXCEPT !.state = "alive"].token /\ ~GoneHandler.token
            /\ ~TakeToken(handler).token
        BY <4>2 DEF NoHandler, GoneHandler, TakeToken
      <4>4. FinishAuthentication /\ handler' # handler
        BY <4>1, <4>3, HandlerSteps DEF EndHandler
      <4> QED BY <2>2, <4>4 DEF FinishAuthentication, Answer
    <3> QED BY <1>0, <3>1, SentHas
  <2> QED BY <2>3, <2>4
<1>7. ASSUME socket' = "connected" PROVE media'.open \/ Line(toClient')
  <2>1. CASE OnConnected
    BY <1>2, <1>7, <2>1
  <2>2. CASE socket = "connected" /\ ~OnDisconnected /\ (media.open \/ OnAuthFinished)
    BY <1>3, <2>2
  <2>3. ASSUME socket = "connected", ~OnDisconnected, Line(toClient), ~media.open, ~OnAuthFinished
        PROVE  Line(toClient')
    <3>1. ASSUME NEW n, n # ack PROVE Line(Sent(toClient, n))
      BY <1>0, <2>3, <3>1, SentBehind
    <3>2. Tick => Line(toClient')
      BY <1>0, <2>3, OlderBehind DEF Tick
    <3>3. ClientReceives /\ toClient # <<>> => Line(Tail(toClient))
      BY <1>0, <1>4, <2>3, TailBehind
    <3>4. FinishAuthentication => Line(toClient')
      BY <2>3, <3>1 DEF FinishAuthentication, Answer
    <3>5. OnTokenAuthentication => Line(toClient')
      <4>1. alive /\ handler.token => Line(Sent(toClient, ack))
        BY <1>0, <2>3, SentBehind
      <4> QED BY <2>3, <4>1 DEF OnTokenAuthentication, Answer
    <3>6. Line(<<>>)
      BY DEF Behind
    <3> HIDE DEF Line
    <3> QED BY <2>3, <3>1, <3>2, <3>3, <3>4, <3>5, <3>6, ToClientSteps
  <2> QED BY <1>0, <1>7, <2>1, <2>2, <2>3, ClientSteps
<1> QED BY <1>1, <1>6, <1>7 DEF AckAfterAuth

--------------------------------------------------------------------------------
(* The theorems *)

LEMMA SessionInit_Inv == SessionInit => SessionInv
<1> SUFFICES ASSUME SessionInit PROVE SessionInv
  OBVIOUS
<1> USE DEF SessionInit
<1>1. -1 \in -1..ConnectionTimeout + AuthTimeout + MediaTimeout + MaxCheck
  BY Bounds
<1>2. SessionTypeOK
  <2>1. left \in [Timers -> -1..ConnectionTimeout + AuthTimeout + MediaTimeout + MaxCheck]
    BY <1>1 DEF Off
  <2>2. toServer \in Seq(Message(Requests)) /\ toClient \in Seq(Message(Answers))
    OBVIOUS
  <2>3. media \in [open : BOOLEAN, authenticated : BOOLEAN, authTimer : BOOLEAN, keepAlives : 0..1]
    BY DEF NoMedia
  <2>4. handler \in [state : {"none", "alive", "gone"}, authenticated : BOOLEAN,
                    token : BOOLEAN, bound : BOOLEAN, member : BOOLEAN]
    BY DEF NoHandler
  <2>5. {alive, goodbye, timedOut, closing, datagram} \subseteq BOOLEAN
    OBVIOUS
  <2> QED BY <2>1, <2>2, <2>3, <2>4, <2>5 DEF SessionTypeOK, Waits
<1>3. InOrder(toServer) /\ InOrder(toClient)
  BY DEF InOrder
<1>4. FreshStart
  BY DEF FreshStart
<1>5. HandlerEnds
  BY DEF HandlerEnds, NoHandler, Running, Timers, Off
<1>6. AuthOnce /\ AckOnce
  BY EmptyChannel DEF AuthOnce, AckOnce, NoHandler, Running, Timers, Off
<1>7. AckAfterAuth
  BY DEF AckAfterAuth
<1> QED BY <1>2, <1>3, <1>4, <1>5, <1>6, <1>7 DEF SessionInv

LEMMA SessionInvStep == SessionInv /\ [SessionNext]_sessionVars => SessionInv'
<1>1. ASSUME SessionInv, SessionNext PROVE SessionInv'
  BY <1>1, TypesStay, ToServerTyped, ToClientTyped, FreshStartStays, HandlerEndsStays,
     AuthOnceStays, AckOnceStays, AckAfterAuthStays DEF SessionInv, Channel
<1>2. ASSUME SessionInv, UNCHANGED sessionVars PROVE SessionInv'
  BY <1>2 DEF sessionVars, clientVars, serverVars, wireVars, SessionInv, SessionTypeOK, InOrder,
     FreshStart, HandlerEnds, AuthOnce, Unanswered, AckOnce, AckAfterAuth, Handled, Running
<1> QED BY <1>1, <1>2

LEMMA SessionInvariant == SessionSpec => []SessionInv
BY SessionInit_Inv, SessionInvStep, PTL DEF SessionSpec

\* The state of a session keeps its shape.  That the client never runs a second
\* keep-alive timer (MediaSocket::setAuthenticated overwrites the id of the
\* first) and that every timer has a time left its interval allows are parts.
THEOREM SessionTypeTheorem == SessionSpec => []SessionTypeOK
<1>1. SessionInv => SessionTypeOK
  BY DEF SessionInv
<1> QED BY <1>1, SessionInvariant, PTL

\* notify.mediaauthsuccess is handled without a test for the media socket, and
\* needs none: the answer that opens the socket comes first (networkclient.cpp:524).
THEOREM AckTheorem == SessionSpec => []AckFindsSocket
<1>1. ASSUME SessionInv PROVE AckFindsSocket
  <2> SUFFICES ASSUME socket = "connected", toClient # <<>>,
                      Head(toClient).what = "mediaauthsuccess"
               PROVE  media.open
    BY DEF AckFindsSocket
  <2>1. 1 \in DOMAIN toClient /\ Head(toClient) = toClient[1]
    BY <1>1, ChannelsTyped, TailShape
  <2>2. media.open \/ Behind(toClient, "mediaauthsuccess", "authenticated")
    BY <1>1 DEF SessionInv, AckAfterAuth
  <2> QED BY <2>1, <2>2 DEF Behind
<1> QED BY <1>1, SessionInvariant, PTL

--------------------------------------------------------------------------------
(* The client whose heartbeats arrive *)

\* The heartbeat timer runs as long as the socket is connected, which it is as
\* long as the client talks to a handler.
SocketAlive ==
  alive => /\ Running("heartbeat") <=> socket = "connected"
           /\ handler.state # "gone" /\ (toServer # <<>> \/ Handled) => socket = "connected"

\* The server closes the connection by deleting the handler.
EndIsLast == Has(toClient, "end") => handler.state = "gone"

HeardLate == handler.state = "none" => heard = "none"

\* Once a heartbeat was accepted, the next one is always early enough: the one
\* to be sent or one that is on its way.
Beating ==
  alive /\ Handled /\ heard = "renewed" =>
    /\ handler.authenticated
    /\ \/ left["heartbeat"] + MaxLatency < left["connection"]
       \/ \E i \in DOMAIN toServer : /\ toServer[i].what = "heartbeat"
                                     /\ toServer[i].left < left["connection"]

HeartbeatSoon == left["heartbeat"] <= HeartbeatInterval

HeartInv == HeartbeatSoon /\ SocketAlive /\ EndIsLast /\ HeardLate /\ Beating

LEMMA SocketStays ==
  ASSUME SessionInv, SessionNext, socket = "connected", ~OnDisconnected
  PROVE  socket' = "connected"
<1>1. CASE StartsUp \/ DeclineUpdate
  BY <1>1 DEF SessionInv, FreshStart, StartsUp, Start, CheckVersion, LookupConference,
     LookupPublicConference, OnResolved, DeclineUpdate, GoesOn, Waits
<1>2. CASE ClientReceives
  BY <1>2 DEF ClientReceives, OnAuthFinished, OnAuthRefused, OnMediaAuthSuccess,
     OnJoined, OnNotJoined
<1>3. CASE ServerReceives
  BY <1>3 DEF ServerReceives, OnNewConnection, Authenticate, Heartbeat, Goodbye,
     JoinChannel, OnClientClosed, Unheard, clientVars
<1>4. CASE TimersFire
  BY <1>4 DEF TimersFire, SendHeartbeat, OnMediaAuthTimeout,
     OnAuthenticationTimeout, OnConnectionTimeout, clientVars
<1>5. CASE FinishAuthentication \/ DisconnectFromHost \/ Tick
  BY <1>5 DEF FinishAuthentication, DisconnectFromHost, Tick, clientVars
<1>6. CASE OnConnected \/ Outside
  BY <1>1, <1>6 DEF OnConnected, Outside, ConnectFails, AcceptUpdate,
     SendAuthToken, OnTokenAuthentication, DatagramLost, CloseDialog, CloseWindow, Leave,
     clientVars
<1> QED BY <1>1, <1>2, <1>3, <1>4, <1>5, <1>6 DEF SessionNext

LEMMA TimersOfHeart ==
  ASSUME SessionInv
  PROVE  /\ left \in [Timers -> Int]
         /\ \A t \in Timers : left[t] >= -1
         /\ "heartbeat" \in Timers /\ "connection" \in Timers
BY Bounds DEF SessionInv, SessionTypeOK, Timers

\* The heartbeat timer over a step.
LEMMA HeartbeatTimer ==
  ASSUME SessionInv, SessionNext
  PROVE  /\ SendHeartbeat \/ OnConnected => left'["heartbeat"] = HeartbeatInterval
         /\ OnDisconnected \/ Leave => left'["heartbeat"] = -1
         /\ Tick => left'["heartbeat"] = IF left["heartbeat"] = -1 THEN -1
                                        ELSE left["heartbeat"] - 1
         /\ \/ SendHeartbeat \/ OnConnected \/ OnDisconnected \/ Leave \/ Tick
            \/ left'["heartbeat"] = left["heartbeat"]
<1>0. left \in [Timers -> Int] /\ "heartbeat" \in Timers
  BY TimersOfHeart
<1>1. /\ \A ts, u : u \in Timers => Stopped(ts)[u] = IF u \in ts THEN -1 ELSE left[u]
      /\ \A t, n : t # "heartbeat" => Started(t, n)["heartbeat"] = left["heartbeat"]
      /\ \A n : Started("heartbeat", n)["heartbeat"] = n
  BY <1>0 DEF Stopped, Started, Off
<1>2. /\ Stopped(ClientTimers)["heartbeat"] = -1
      /\ Stopped({"heartbeat"})["heartbeat"] = -1
      /\ Stopped(ServerTimers)["heartbeat"] = left["heartbeat"]
      /\ Stopped({"media"})["heartbeat"] = left["heartbeat"]
      /\ Stopped({"check"})["heartbeat"] = left["heartbeat"]
      /\ Stopped({"auth"})["heartbeat"] = left["heartbeat"]
      /\ Started("check", MaxCheck)["heartbeat"] = left["heartbeat"]
      /\ Started("connection", ConnectionTimeout)["heartbeat"] = left["heartbeat"]
  BY <1>0, <1>1 DEF ClientTimers, ServerTimers
<1>3. Tick => left'["heartbeat"] = IF left["heartbeat"] = -1 THEN -1 ELSE left["heartbeat"] - 1
  BY <1>0 DEF Tick, Running, Off
<1>4. SendHeartbeat \/ OnConnected => left'["heartbeat"] = HeartbeatInterval
  BY <1>0, <1>1 DEF SendHeartbeat, OnConnected
<1>5. OnDisconnected \/ Leave => left'["heartbeat"] = -1
  BY <1>2 DEF OnDisconnected, Leave
<1>6. OnNewConnection => left'["heartbeat"] = left["heartbeat"]
  BY <1>0 DEF OnNewConnection
<1>7. ~OnConnected /\ ~OnNewConnection =>
        \/ SendHeartbeat \/ OnDisconnected \/ Leave \/ Tick
        \/ left'["heartbeat"] = left["heartbeat"]
  BY <1>2, TimerSteps
<1> QED BY <1>3, <1>4, <1>5, <1>6, <1>7

LEMMA GoneStays == ASSUME SessionInv, SessionNext
                   PROVE  /\ handler.state = "gone" => handler'.state = "gone"
                          /\ handler'.state = "none" => handler.state = "none" /\ UNCHANGED handler
                          /\ EndHandler => handler'.state = "gone"
                          /\ Handled' => Handled \/ OnNewConnection
<1>1. handler \in [state : {"none", "alive", "gone"}, authenticated : BOOLEAN,
                  token : BOOLEAN, bound : BOOLEAN, member : BOOLEAN]
  BY DEF SessionInv, SessionTypeOK
<1>2. /\ [handler EXCEPT !.member = TRUE].state = handler.state
      /\ TakeToken(handler).state = handler.state
      /\ [handler EXCEPT !.authenticated = TRUE, !.token = TRUE].state = handler.state
      /\ [NoHandler EXCEPT !.state = "alive"].state = "alive"
      /\ GoneHandler.state = "gone"
  BY <1>1 DEF TakeToken, NoHandler, GoneHandler
<1>3. OnNewConnection => handler.state = "none"
  BY DEF OnNewConnection
<1>4. EndHandler => handler'.state = "gone"
  BY <1>2 DEF EndHandler
<1> QED BY <1>1, <1>2, <1>3, <1>4, HandlerSteps DEF Handled

LEMMA HeartbeatSoonStays == ASSUME SessionInv, HeartInv, SessionNext PROVE HeartbeatSoon'
BY Bounds, TimersOfHeart, HeartbeatTimer DEF HeartInv, HeartbeatSoon

LEMMA EndIsLastStays == ASSUME SessionInv, HeartInv, SessionNext PROVE EndIsLast'
<1>0. /\ Channel(toClient, Answers) /\ toClient \in Seq(Message(Answers))
      /\ Has(toClient, "end") => handler.state = "gone"
  BY ChannelsTyped DEF HeartInv, EndIsLast
<1>1. ASSUME NEW w, w # "end" PROVE Has(Sent(toClient, w), "end") => Has(toClient, "end")
  BY <1>0, <1>1, SentHas
<1>2. FinishAuthentication \/ OnTokenAuthentication =>
        (Has(toClient', "end") => Has(toClient, "end"))
  BY <1>1 DEF FinishAuthentication, OnTokenAuthentication, Answer
<1>3. Tick => (Has(toClient', "end") => Has(toClient, "end"))
  BY <1>0, OlderHas DEF Tick
<1>4. toClient # <<>> => (Has(Tail(toClient), "end") => Has(toClient, "end"))
  BY <1>0, TailHas
<1>5. Has(toClient', "end") => Has(toClient, "end") \/ EndHandler
  BY <1>1, <1>2, <1>3, <1>4, EmptyChannel, ToClientSteps
<1> QED BY <1>0, <1>5, GoneStays DEF EndIsLast

LEMMA HeardLateStays == ASSUME SessionInv, HeartInv, SessionNext PROVE HeardLate'
<1> SUFFICES ASSUME handler'.state = "none" PROVE heard' = "none"
  BY DEF HeardLate
<1>1. handler.state = "none" /\ heard = "none"
  BY GoneStays DEF HeartInv, HeardLate
<1>2. UNCHANGED heard \/ Heartbeat
  BY HeardSteps
<1>3. ~Heartbeat
  BY <1>1 DEF Heartbeat, Handle, Handled
<1> QED BY <1>1, <1>2, <1>3

LEMMA SocketAliveStays == ASSUME SessionInv, HeartInv, SessionNext PROVE SocketAlive'
<1> SUFFICES ASSUME alive'
             PROVE  /\ left'["heartbeat"] # -1 <=> socket' = "connected"
                    /\ handler'.state # "gone" /\ (toServer' # <<>> \/ Handled') =>
                         socket' = "connected"
  BY DEF SocketAlive, Running, Off
<1>0. alive \in {TRUE, FALSE}
  BY DEF SessionInv, SessionTypeOK
<1>1. alive /\ ~Leave /\ ~AcceptUpdate
  BY <1>0, ClientSteps DEF Leave, AcceptUpdate
<1>2. /\ left["heartbeat"] # -1 <=> socket = "connected"
      /\ handler.state # "gone" /\ (toServer # <<>> \/ Handled) => socket = "connected"
  BY <1>1 DEF HeartInv, SocketAlive, Running, Off
<1>3. socket' = "connected" <=> (socket = "connected" /\ ~OnDisconnected) \/ OnConnected
  BY ClientSteps, SocketStays DEF OnConnected
<1>4. left'["heartbeat"] # -1 <=> socket' = "connected"
  <2>1. OnDisconnected => socket = "connected" /\ ~OnConnected
    BY DEF OnDisconnected, OnConnected, Receive
  <2>2. SendHeartbeat => left["heartbeat"] = 0 /\ ~OnDisconnected
    BY DEF SendHeartbeat, Expired, clientVars, OnDisconnected, Receive
  <2>3. left["heartbeat"] \in Int /\ left["heartbeat"] >= -1
    BY TimersOfHeart
  <2>4. CASE SendHeartbeat \/ OnConnected
    <3>1. socket' = "connected"
      BY <1>2, <1>3, <2>2, <2>4
    <3> QED BY <2>4, <3>1, HeartbeatTimer, Bounds
  <2>5. CASE OnDisconnected
    BY <1>3, <2>1, <2>5, HeartbeatTimer
  <2>6. CASE Tick
    <3>1. left["heartbeat"] # 0 /\ socket' = socket
      BY <2>6, TimersOfHeart DEF Tick, Expired, clientVars
    <3> QED BY <1>2, <2>3, <2>6, <3>1, HeartbeatTimer
  <2>7. CASE ~SendHeartbeat /\ ~OnConnected /\ ~OnDisconnected /\ ~Tick
    BY <1>1, <1>2, <1>3, <2>7, HeartbeatTimer
  <2> QED BY <2>4, <2>5, <2>6, <2>7
<1>5. ASSUME handler'.state # "gone", toServer' # <<>> \/ Handled'
      PROVE  socket' = "connected"
  <2>1. handler.state # "gone" /\ ~EndHandler
    BY <1>5, GoneStays
  <2>2. CASE OnConnected
    BY <1>3, <2>2
  <2>3. CASE ~OnConnected
    <3>1. socket = "connected"
      <4>1. Handled' => Handled \/ toServer # <<>>
        BY GoneStays DEF OnNewConnection
      <4>2. SendHeartbeat => socket = "connected"
        BY <1>2 DEF SendHeartbeat, Expired
      <4>3. toServer' # <<>> => toServer # <<>> \/ socket = "connected"
        BY <1>1, <2>1, <2>3, <4>2, ToServerSteps, OlderEmpty DEF Tick
      <4> QED BY <1>2, <1>5, <2>1, <4>1, <4>3
    <3>2. ~OnDisconnected
      <4>1. OnDisconnected => Has(toClient, "end")
        BY ChannelsTyped, TailHas DEF OnDisconnected, Receive
      <4> QED BY <2>1, <4>1 DEF HeartInv, EndIsLast
    <3> QED BY <1>3, <3>1, <3>2
  <2> QED BY <2>2, <2>3
<1> QED BY <1>4, <1>5

\* The connection timer over a step.
LEMMA ConnectionTimer ==
  ASSUME SessionInv, SessionNext, ~OnNewConnection, ~EndHandler, ~Heartbeat, ~OnConnectionTimeout
  PROVE  IF Tick /\ left["connection"] # -1
           THEN left'["connection"] = left["connection"] - 1
           ELSE left'["connection"] = left["connection"]
<1>0. left \in [Timers -> Int] /\ "connection" \in Timers
  BY TimersOfHeart
<1>1. /\ \A ts, u : u \in Timers => Stopped(ts)[u] = IF u \in ts THEN -1 ELSE left[u]
      /\ \A t, n : t # "connection" => Started(t, n)["connection"] = left["connection"]
  BY <1>0 DEF Stopped, Started, Off
<1>2. /\ Stopped(ClientTimers)["connection"] = left["connection"]
      /\ Stopped({"heartbeat"})["connection"] = left["connection"]
      /\ Stopped({"media"})["connection"] = left["connection"]
      /\ Stopped({"check"})["connection"] = left["connection"]
      /\ Stopped({"auth"})["connection"] = left["connection"]
      /\ Started("check", MaxCheck)["connection"] = left["connection"]
      /\ Started("heartbeat", HeartbeatInterval)["connection"] = left["connection"]
  BY <1>0, <1>1 DEF ClientTimers
<1>3. Tick => left'["connection"] = IF left["connection"] = -1 THEN -1 ELSE left["connection"] - 1
  BY <1>0 DEF Tick, Running, Off
<1>4. OnConnected => left'["connection"] = left["connection"]
  BY <1>0 DEF OnConnected
<1>5. ~OnConnected /\ ~Tick => left'["connection"] = left["connection"]
  BY <1>2, TimerSteps
<1> QED BY <1>3, <1>4, <1>5

LEMMA BeatingStays == ASSUME SessionInv, HeartInv, SessionNext PROVE Beating'
<1> DEFINE hb == left["heartbeat"]
           conn == left["connection"]
           Coming(c, n) == \E i \in DOMAIN c : c[i].what = "heartbeat" /\ c[i].left < n
           Beat == hb + MaxLatency < conn \/ Coming(toServer, conn)
<1> SUFFICES ASSUME alive', Handled', heard' = "renewed"
             PROVE  handler'.authenticated /\ Beat'
  BY DEF Beating
<1>0. /\ hb \in Int /\ hb >= -1 /\ conn \in Int /\ conn >= -1 /\ hb <= HeartbeatInterval
      /\ Channel(toServer, Requests) /\ toServer \in Seq(Message(Requests))
      /\ left \in [Timers -> Int] /\ "connection" \in Timers
      /\ alive \in {TRUE, FALSE}
  BY TimersOfHeart, ChannelsTyped DEF HeartInv, HeartbeatSoon, SessionInv, SessionTypeOK
<1>1. alive /\ ~Leave /\ ~AcceptUpdate
  BY <1>0, ClientSteps DEF Leave, AcceptUpdate
<1>2. ~OnNewConnection /\ Handled /\ ~EndHandler
  <2>1. ~OnNewConnection
    BY DEF HeartInv, HeardLate, OnNewConnection
  <2> QED BY <2>1, GoneStays DEF Handled
<1>3. socket = "connected" /\ hb >= 0 /\ ~OnConnected /\ ~OnDisconnected
  <2>1. socket = "connected" /\ hb # -1
    BY <1>1, <1>2 DEF HeartInv, SocketAlive, Handled, Running, Off
  <2>2. OnDisconnected => Has(toClient, "end")
    BY ChannelsTyped, TailHas DEF OnDisconnected, Receive
  <2> QED BY <1>0, <1>2, <2>1, <2>2 DEF OnConnected, HeartInv, EndIsLast, Handled
<1>4. ASSUME Heartbeat PROVE handler'.authenticated /\ Beat'
  <2>1. handler.authenticated /\ UNCHANGED handler /\ left' = Started("connection", ConnectionTimeout)
    BY <1>4 DEF Heartbeat
  <2>2. left'["connection"] = ConnectionTimeout /\ left'["heartbeat"] = hb
    BY <1>0, <2>1 DEF Started
  <2>3. left'["heartbeat"] + MaxLatency < left'["connection"]
    BY <1>0, <2>2, Bounds
  <2> QED BY <2>1, <2>3
<1>5. ASSUME ~Heartbeat PROVE handler'.authenticated /\ Beat'
  <2>1. handler.authenticated /\ Beat
    BY <1>1, <1>2, <1>5, HeardSteps DEF HeartInv, Beating
  <2>2. handler'.authenticated
    <3>1. handler \in [state : {"none", "alive", "gone"}, authenticated : BOOLEAN,
                       token : BOOLEAN, bound : BOOLEAN, member : BOOLEAN]
      BY DEF SessionInv, SessionTypeOK
    <3>2. /\ [handler EXCEPT !.member = TRUE].authenticated = handler.authenticated
          /\ TakeToken(handler).authenticated = handler.authenticated
          /\ [handler EXCEPT !.authenticated = TRUE, !.token = TRUE].authenticated
      BY <3>1 DEF TakeToken
    <3> QED BY <1>2, <2>1, <3>2, HandlerSteps
  <2>3. \A i \in DOMAIN toServer : toServer[i].left \in Nat
    <3>1. \A i \in DOMAIN toServer : toServer[i] \in Message(Requests)
      BY <1>0
    <3> QED BY <3>1, Bounds DEF Message
  <2>4. conn > 0
    BY <1>0, <1>3, <2>1, <2>3, Bounds
  <2>5. ~OnConnectionTimeout
    BY <2>4 DEF OnConnectionTimeout, Expired
  <2>6. CASE SendHeartbeat
    <3>1. hb = 0 /\ toServer' = Sent(toServer, "heartbeat") /\ left'["connection"] = conn
      BY <1>0, <2>6 DEF SendHeartbeat, Expired, Started
    <3>2. /\ DOMAIN Sent(toServer, "heartbeat") = 1..(Len(toServer) + 1)
          /\ DOMAIN toServer = 1..Len(toServer) /\ Len(toServer) \in Nat
          /\ \A i \in 1..Len(toServer) : Sent(toServer, "heartbeat")[i] = toServer[i]
          /\ Sent(toServer, "heartbeat")[Len(toServer) + 1].what = "heartbeat"
          /\ Sent(toServer, "heartbeat")[Len(toServer) + 1].left = MaxLatency
      BY <1>0, SentShape
    <3>3. CASE hb + MaxLatency < conn
      <4>1. Len(toServer) + 1 \in DOMAIN Sent(toServer, "heartbeat") /\ MaxLatency < conn
        BY <3>1, <3>2, <3>3, Bounds
      <4>2. Coming(Sent(toServer, "heartbeat"), conn)
        BY <3>2, <4>1
      <4> QED BY <2>2, <3>1, <4>2
    <3>4. CASE Coming(toServer, conn)
      <4>1. Coming(Sent(toServer, "heartbeat"), conn)
        BY <3>2, <3>4
      <4> QED BY <2>2, <3>1, <4>1
    <3> QED BY <2>1, <3>3, <3>4
  <2>7. CASE Tick
    <3>1. left'["connection"] = conn - 1
      BY <1>2, <1>5, <2>4, <2>5, <2>7, ConnectionTimer
    <3>2. hb >= 1 /\ left'["heartbeat"] = hb - 1
      <4>1. hb # 0
        BY <2>7, TimersOfHeart DEF Tick, Expired
      <4> QED BY <1>0, <1>3, <2>7, <4>1, HeartbeatTimer
    <3>3. CASE hb + MaxLatency < conn
      <4>1. left'["heartbeat"] + MaxLatency < left'["connection"]
        BY <1>0, <3>1, <3>2, <3>3, Bounds
      <4> QED BY <2>2, <4>1
    <3>4. CASE Coming(toServer, conn)
      <4>1. toServer' = Older(toServer) /\ ~Due(toServer)
        BY <2>7 DEF Tick
      <4>2. /\ DOMAIN Older(toServer) = DOMAIN toServer
            /\ \A i \in DOMAIN toServer : /\ Older(toServer)[i].what = toServer[i].what
                                          /\ Older(toServer)[i].left = toServer[i].left - 1
        BY <1>0, <4>1, OlderShape
      <4>3. Coming(Older(toServer), conn - 1)
        BY <1>0, <2>3, <3>4, <4>2
      <4> QED BY <2>2, <3>1, <4>1, <4>3
    <3> QED BY <2>1, <3>3, <3>4
  <2>8. CASE ~SendHeartbeat /\ ~Tick
    <3>1. left'["connection"] = conn /\ left'["heartbeat"] = hb
      BY <1>1, <1>2, <1>3, <1>5, <2>5, <2>8, ConnectionTimer, HeartbeatTimer
    <3>2. ASSUME Coming(toServer, conn) PROVE Coming(toServer', conn)
      <4>1. ASSUME NEW w PROVE Coming(Sent(toServer, w), conn)
        <5>1. /\ DOMAIN Sent(toServer, w) = 1..(Len(toServer) + 1)
              /\ DOMAIN toServer = 1..Len(toServer) /\ Len(toServer) \in Nat
              /\ \A i \in 1..Len(toServer) : Sent(toServer, w)[i] = toServer[i]
          BY <1>0, SentShape
        <5> QED BY <3>2, <5>1
      <4>2. ASSUME ServerReceives, toServer # <<>> PROVE Coming(Tail(toServer), conn)
        <5>1. Head(toServer).what # "heartbeat"
          BY <1>2, <1>5, <4>2 DEF ServerReceives, Authenticate, Goodbye, JoinChannel,
             OnClientClosed, Unheard, Handle, Handled
        <5>2. /\ DOMAIN toServer = 1..Len(toServer) /\ Len(toServer) \in Nat
              /\ DOMAIN Tail(toServer) = 1..(Len(toServer) - 1)
              /\ \A i \in 1..(Len(toServer) - 1) : Tail(toServer)[i] = toServer[i + 1]
              /\ Head(toServer) = toServer[1]
          BY <1>0, <4>2, TailShape
        <5>3. PICK i \in DOMAIN toServer : toServer[i].what = "heartbeat" /\ toServer[i].left < conn
          BY <3>2
        <5>4. i # 1
          BY <5>1, <5>2, <5>3
        <5>5. i - 1 \in 1..(Len(toServer) - 1) /\ Tail(toServer)[i - 1] = toServer[i]
          BY <5>2, <5>4
        <5> QED BY <5>2, <5>3, <5>5
      <4> HIDE DEF Coming
      <4> QED BY <1>1, <1>2, <1>3, <2>8, <3>2, <4>1, <4>2, ToServerSteps DEF Handled
    <3> HIDE DEF Coming
    <3> QED BY <2>1, <2>2, <3>1, <3>2
  <2> QED BY <2>6, <2>7, <2>8
<1> QED BY <1>4, <1>5

\* The server gives up on no client whose heartbeats it accepts: the timer of
\* such a client is renewed in time, whatever the two intervals and the latency
\* are, if they leave room for one another as SessionAssumption says.
THEOREM HealthyTheorem == SessionSpec => HealthyClientStays
<1>1. SessionInit => HeartInv
  BY Bounds, EmptyChannel DEF SessionInit, HeartInv, HeartbeatSoon, SocketAlive, EndIsLast, HeardLate,
     Beating, Handled, NoHandler, Running, Timers, Off
<1>2. SessionInv /\ HeartInv /\ [SessionNext]_sessionVars => HeartInv'
  <2>1. ASSUME SessionInv, HeartInv, SessionNext PROVE HeartInv'
    BY <2>1, HeartbeatSoonStays, SocketAliveStays, EndIsLastStays, HeardLateStays, BeatingStays
       DEF HeartInv
  <2>2. ASSUME HeartInv, UNCHANGED sessionVars PROVE HeartInv'
    BY <2>2 DEF HeartInv, HeartbeatSoon, SocketAlive, EndIsLast, HeardLate, Beating, sessionVars,
       clientVars, serverVars, wireVars, Handled, Running
  <2> QED BY <2>1, <2>2
<1>3. SessionSpec => []HeartInv
  BY <1>1, <1>2, SessionInvariant, PTL DEF SessionSpec
<1> DEFINE InTime == OnConnectionTimeout => ~alive \/ heard # "renewed"
<1>4. ASSUME SessionInv, HeartInv PROVE InTime
  <2> SUFFICES ASSUME left["connection"] = 0, alive, heard = "renewed" PROVE FALSE
    BY DEF OnConnectionTimeout, Expired
  <2>1. Handled /\ left["heartbeat"] \in Int /\ left["heartbeat"] >= 0
    <3>1. Handled
      BY <1>4 DEF SessionInv, HandlerEnds, Handled, Running, Off
    <3>2. left["heartbeat"] # -1
      BY <1>4, <3>1 DEF HeartInv, SocketAlive, Handled, Running, Off
    <3> QED BY <1>4, <3>1, <3>2, TimersOfHeart
  <2>2. \A i \in DOMAIN toServer : toServer[i].left \in Nat
    <3>1. \A i \in DOMAIN toServer : toServer[i] \in Message(Requests)
      BY <1>4, ChannelsTyped
    <3> QED BY <3>1, Bounds DEF Message
  <2> QED BY <1>4, <2>1, <2>2, Bounds DEF HeartInv, Beating
<1>5. SessionInv /\ HeartInv /\ [SessionNext]_sessionVars => [InTime]_sessionVars
  BY <1>4
<1> HIDE DEF InTime
<1>6. SessionSpec => [][InTime]_sessionVars
  BY <1>3, <1>5, SessionInvariant, PTL DEF SessionSpec
<1> QED BY <1>6 DEF HealthyClientStays, InTime

--------------------------------------------------------------------------------
(* The silence of a session *)

\* Until its disconnect is queued, what the connection timer has left covers what
\* the silence may still grow; and then time does not pass before it runs.
SilenceInv ==
  /\ silence \in Nat
  /\ Handled =>
       /\ silence <= ConnectionTimeout
       /\ ~closing => /\ left["connection"] >= 0
                      /\ silence + left["connection"] <= ConnectionTimeout

LEMMA SilenceSteps ==
  ASSUME SilenceInv, SilenceNext
  PROVE  /\ silence' \in Nat
         /\ ServerReceives => silence' = 0
         /\ ~(Tick /\ Handled) => silence' <= silence
         /\ silence' <= silence + 1
BY DEF SilenceInv, SilenceNext

LEMMA SilenceStays == ASSUME SessionInv, SilenceInv, SilenceNext PROVE SilenceInv'
<1> DEFINE conn == left["connection"]
<1>0. /\ conn \in Int /\ conn >= -1 /\ left \in [Timers -> Int] /\ "connection" \in Timers
      /\ silence \in Nat /\ silence' \in Nat /\ ConnectionTimeout \in Nat
      /\ SessionNext
  BY TimersOfHeart, SilenceSteps, Bounds DEF SilenceInv, SilenceNext
<1> SUFFICES ASSUME Handled'
             PROVE  /\ silence' <= ConnectionTimeout
                    /\ ~closing' => conn' >= 0 /\ silence' + conn' <= ConnectionTimeout
  BY <1>0 DEF SilenceInv
<1>1. ~EndHandler
  BY <1>0, GoneStays DEF Handled
<1>2. CASE OnNewConnection
  <2>1. left' = [left EXCEPT !["connection"] = ConnectionTimeout, !["auth"] = AuthTimeout]
    BY <1>2 DEF OnNewConnection
  <2>2. conn' = ConnectionTimeout
    BY <1>0, <2>1
  <2>3. silence' = 0
    BY <1>2, SilenceSteps DEF ServerReceives
  <2> QED BY <1>0, <2>2, <2>3
<1>3. CASE ~OnNewConnection
  <2>1. /\ Handled /\ silence <= ConnectionTimeout
        /\ ~closing => conn >= 0 /\ silence + conn <= ConnectionTimeout
    BY <1>0, <1>3, GoneStays DEF SilenceInv
  <2>2. closing => closing'
    BY <1>0, <1>1, ClosingSteps
  <2>3. CASE OnConnectionTimeout
    <3>1. closing' /\ ~Tick
      BY <1>0, <2>3 DEF OnConnectionTimeout, Tick
    <3> QED BY <1>0, <2>1, <3>1, SilenceSteps
  <2>4. CASE Heartbeat
    <3>1. silence' = 0
      BY <2>4, SilenceSteps DEF ServerReceives
    <3>2. UNCHANGED closing /\ (conn' = conn \/ conn' = ConnectionTimeout)
      BY <1>0, <2>4 DEF Heartbeat, Started
    <3> QED BY <1>0, <2>1, <3>1, <3>2
  <2>5. CASE ~OnConnectionTimeout /\ ~Heartbeat /\ Tick
    <3>1. ~closing /\ conn # 0
      BY <1>0, <2>5 DEF Tick, Expired
    <3>2. conn' = conn - 1
      BY <1>0, <1>1, <1>3, <2>1, <2>5, <3>1, ConnectionTimer
    <3> QED BY <1>0, <2>1, <3>1, <3>2, SilenceSteps
  <2>6. CASE ~OnConnectionTimeout /\ ~Heartbeat /\ ~Tick
    <3>1. conn' = conn
      BY <1>0, <1>1, <1>3, <2>6, ConnectionTimer
    <3>2. silence' <= silence
      BY <2>6, SilenceSteps
    <3> QED BY <1>0, <2>1, <2>2, <3>1, <3>2
  <2> QED BY <2>3, <2>4, <2>5, <2>6
<1> QED BY <1>2, <1>3

\* Whatever a client does or fails to do, and however long its check takes, the
\* server keeps no session that was silent for longer than its timer runs: the
\* timer is restarted in one handler, fires at most once before its disconnect,
\* and no other step stops it.
THEOREM SilenceTheorem == SilenceSpec => []SilentAreCut
<1>1. SilenceInit => SessionInv /\ SilenceInv
  BY SessionInit_Inv DEF SilenceInit, SilenceInv, SessionInit, Handled, NoHandler
<1>2. SessionInv /\ SilenceInv /\ [SilenceNext]_silenceVars => SessionInv' /\ SilenceInv'
  <2>1. ASSUME SessionInv, SilenceInv, SilenceNext PROVE SessionInv' /\ SilenceInv'
    BY <2>1, SilenceStays, SessionInvStep DEF SilenceNext
  <2>2. ASSUME SessionInv, SilenceInv, UNCHANGED silenceVars PROVE SessionInv' /\ SilenceInv'
    <3>1. UNCHANGED sessionVars /\ UNCHANGED silence
      BY <2>2 DEF silenceVars
    <3>2. SessionInv'
      BY <2>2, <3>1, SessionInvStep
    <3> QED BY <2>2, <3>1, <3>2 DEF SilenceInv, sessionVars, serverVars, Handled
  <2> QED BY <2>1, <2>2
<1>3. SilenceInv => SilentAreCut
  BY DEF SilenceInv, SilentAreCut
<1> QED BY <1>1, <1>2, <1>3, PTL DEF SilenceSpec
================================================================================
