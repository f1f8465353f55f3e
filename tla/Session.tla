-------------------------------- MODULE Session --------------------------------
(***************************************************************************)
(* One client's session in discrete time: the start-up of the video client   *)
(* (Ts3VideoStartupLogic), its NetworkClient and MediaSocket, the server's    *)
(* ClientConnectionHandler, and the timers that watch over them.  The TCP     *)
(* connection delivers in order and within MaxLatency; the datagrams that     *)
(* carry the media token are lost and duplicated at will.                     *)
(*                                                                           *)
(* Expired timers, late messages and queued calls come before time passes    *)
(* (Tick).  The replies to heartbeat and goodbye, which the client only      *)
(* deletes, are left out.                                                    *)
(***************************************************************************)
EXTENDS Integers, Sequences

CONSTANTS
  HeartbeatInterval,   \* 10 s, networkclient.cpp
  ConnectionTimeout,   \* 20 s, clientconnectionhandler.cpp
  AuthTimeout,         \* 60 s, clientconnectionhandler.cpp
  MediaTimeout,        \* 10 s, ts3videostartuplogic.cpp
  MaxLatency,          \* bound of the time a TCP message takes
  MaxCheck             \* bound of the time the TeamSpeak 3 check takes

\* A heartbeat sent when its timer fires arrives before the server gives up.
ASSUME SessionAssumption ==
  /\ {HeartbeatInterval, AuthTimeout, MediaTimeout} \subseteq Nat \ {0}
  /\ {MaxLatency, MaxCheck} \subseteq Nat
  /\ ConnectionTimeout \in Nat
  /\ HeartbeatInterval + MaxLatency < ConnectionTimeout

VARIABLES
  alive,       \* the client's process runs and its machine is reachable
  socket,      \* state of the client's TCP socket
  goodbye,     \* NetworkClientPrivate::goodbye
  media,       \* the client's MediaSocket
  status,      \* what the start-up window shows
  gui,         \* the window of the client that is open
  timedOut,    \* history: the media timer of the start-up expired
  handler,     \* the server's ClientConnectionHandler
  closing,     \* a queued call of disconnectFromHost
  heard,       \* history: what became of the last heartbeat
  left,        \* of each timer, the time until it expires
  toServer,    \* messages from the client, oldest first
  toClient,    \* messages to the client, oldest first
  datagram     \* a datagram with the media token is under way

clientVars == <<alive, socket, goodbye, media, status, gui, timedOut>>
serverVars == <<handler, closing, heard>>
wireVars == <<toServer, toClient, datagram>>
sessionVars == <<clientVars, serverVars, left, wireVars>>

Timers == {"heartbeat", "media", "connection", "auth", "check"}
ClientTimers == {"heartbeat", "media"}
ServerTimers == {"connection", "auth"}

Off == -1
Running(t) == left[t] # Off
Expired(t) == left[t] = 0

\* left with timer t set to n, or with the timers ts stopped.
Started(t, n) == [left EXCEPT ![t] = n]
Stopped(ts) == [t \in Timers |-> IF t \in ts THEN Off ELSE left[t]]

Requests == {"connect", "auth", "heartbeat", "goodbye", "join", "end"}
Answers == {"authenticated", "refused", "mediaauthsuccess", "joined", "notjoined", "end"}

\* The messages on channel c with one more behind them.
Sent(c, what) == Append(c, [what |-> what, left |-> MaxLatency])

NoMedia == [open |-> FALSE, authenticated |-> FALSE, authTimer |-> FALSE, keepAlives |-> 0]
NoHandler ==
  [state |-> "none", authenticated |-> FALSE, token |-> FALSE, bound |-> FALSE, member |-> FALSE]
GoneHandler == [NoHandler EXCEPT !.state = "gone"]

Handled == handler.state = "alive"

\* The server sends what to the client; a client that left gets nothing.
Answer(what) == toClient' = IF alive THEN Sent(toClient, what) ELSE toClient
Starting == gui \in {"startup", "dialog"}

SessionInit ==
  /\ alive = TRUE
  /\ socket = "unconnected"
  /\ goodbye = FALSE
  /\ media = NoMedia
  /\ status = "starting"
  /\ gui = "startup"
  /\ timedOut = FALSE
  /\ handler = NoHandler
  /\ closing = FALSE
  /\ heard = "none"
  /\ left = [t \in Timers |-> Off]
  /\ toServer = <<>>
  /\ toClient = <<>>
  /\ datagram = FALSE
--------------------------------------------------------------------------------
(* The start-up of the client, as far as the connection *)

\* The status is the request that start() waits for in a local event loop, or
\* the lookup that a thread does for initNetwork.
Waits == {"starting", "updates", "lookup", "publiclookup", "resolving"}

\* start() goes on from the wait for what: now the status is next, and the
\* socket connects only with the status "connecting".
GoesOn(what, next) ==
  /\ alive
  /\ status = what
  /\ status' \in next
  /\ socket' = IF status' = "connecting" THEN "connecting" ELSE socket
  /\ UNCHANGED <<alive, goodbye, media, gui, timedOut, serverVars, left, wireVars>>

\* initNetwork: an address that is a host name is resolved first.
InitNetwork == {"connecting", "resolving"}

\* The arguments ask for a public server, the own one, or no lookup of it.
LookupAsked == {"publiclookup", "lookup"} \cup InitNetwork

\* start(), with the update check or without.
Start == GoesOn("starting", {"updates"} \cup LookupAsked)

\* A check that failed or has no update to offer lets the start-up continue;
\* otherwise a modal dialog waits for the user.
CheckVersion == GoesOn("updates", {"offer"} \cup LookupAsked)

DeclineUpdate == GoesOn("offer", LookupAsked)

\* The user updates now: quit is queued and start() does no more.
AcceptUpdate ==
  /\ alive
  /\ status = "offer"
  /\ alive' = FALSE
  /\ UNCHANGED <<socket, goodbye, media, status, gui, timedOut, serverVars, left, wireVars>>

\* Whatever comes of it: a failed lookup falls back to the own server.
LookupConference == GoesOn("lookup", InitNetwork)

\* A failed lookup ends the start-up; when the master knows no server, the
\* window says "falling back to self hosted server" and nothing falls back.
LookupPublicConference == GoesOn("publiclookup", InitNetwork \cup {"error", "fallback"})

\* The continuation of the DNS lookup.
OnResolved == GoesOn("resolving", {"connecting", "error"})

StartsUp ==
  Start \/ CheckVersion \/ LookupConference \/ LookupPublicConference \/ OnResolved
--------------------------------------------------------------------------------
(* The client *)

\* onError before there is a connection.
ConnectFails ==
  /\ alive
  /\ socket = "connecting"
  /\ socket' = "unconnected"
  /\ status' = "disconnected"
  /\ UNCHANGED <<alive, goodbye, media, gui, timedOut, serverVars, left, wireVars>>

\* A plausible bug: the media timer is not started.
OnConnected_MutantNoTimer ==
  /\ alive
  /\ socket = "connecting"
  /\ socket' = "connected"
  /\ status' = "authenticating"
  /\ left' = [left EXCEPT !["heartbeat"] = HeartbeatInterval]
  /\ toServer' = Sent(Sent(toServer, "connect"), "auth")
  /\ UNCHANGED <<alive, goodbye, media, gui, timedOut, serverVars, toClient, datagram>>

\* onStateChanged(ConnectedState) and authAndJoinConference; auth sends nothing
\* for an empty user name.
OnConnected ==
  /\ alive
  /\ socket = "connecting"
  /\ socket' = "connected"
  /\ status' = "authenticating"
  /\ left' = [left EXCEPT !["heartbeat"] = HeartbeatInterval, !["media"] = MediaTimeout]
  /\ \E named \in BOOLEAN :
       LET opened == Sent(toServer, "connect")
       IN  toServer' = IF named THEN Sent(opened, "auth") ELSE opened
  /\ UNCHANGED <<alive, goodbye, media, gui, timedOut, serverVars, toClient, datagram>>

SendHeartbeat ==
  /\ alive
  /\ Expired("heartbeat")
  /\ left' = Started("heartbeat", HeartbeatInterval)
  /\ toServer' = Sent(toServer, "heartbeat")
  /\ UNCHANGED <<clientVars, serverVars, toClient, datagram>>

\* A plausible bug: the media socket is given up with the wait for it.
OnMediaAuthTimeout_MutantClosesSocket ==
  /\ alive
  /\ Expired("media")
  /\ left' = Stopped({"media"})
  /\ timedOut' = TRUE
  /\ status' = "error"
  /\ media' = NoMedia
  /\ goodbye' = (goodbye \/ socket = "connected")
  /\ toServer' = IF socket = "connected" THEN Sent(toServer, "goodbye") ELSE toServer
  /\ UNCHANGED <<alive, socket, gui, serverVars, toClient, datagram>>

\* The timeout of mediaAuthTimer: the error is shown and goodbye is sent.
OnMediaAuthTimeout ==
  /\ alive
  /\ Expired("media")
  /\ left' = Stopped({"media"})
  /\ timedOut' = TRUE
  /\ status' = "error"
  /\ goodbye' = (goodbye \/ socket = "connected")
  /\ toServer' = IF socket = "connected" THEN Sent(toServer, "goodbye") ELSE toServer
  /\ UNCHANGED <<alive, socket, media, gui, serverVars, toClient, datagram>>

SendAuthToken ==
  /\ alive
  /\ media.authTimer
  /\ datagram' = TRUE
  /\ UNCHANGED <<clientVars, serverVars, left, toServer, toClient>>

\* What MediaSocket::setAuthenticated(TRUE) makes of the socket: the id of a
\* keep-alive timer that runs already is overwritten.
SetAuthenticated(m) ==
  [m EXCEPT !.authenticated = TRUE, !.authTimer = FALSE, !.keepAlives = @ + 1]

\* The first message to the client is what, and it is taken off the channel.
Receive(what) ==
  /\ alive
  /\ socket = "connected"
  /\ toClient # <<>>
  /\ Head(toClient).what = what
  /\ toClient' = Tail(toClient)

\* onAuthFinished and initMediaSocket.
OnAuthFinished ==
  /\ Receive("authenticated")
  /\ media' = [NoMedia EXCEPT !.open = TRUE, !.authTimer = TRUE]
  /\ UNCHANGED <<alive, socket, goodbye, status, gui, timedOut, serverVars, left, toServer, datagram>>

\* The media timer keeps running.
OnAuthRefused ==
  /\ Receive("refused")
  /\ status' = "error"
  /\ UNCHANGED <<alive, socket, goodbye, media, gui, timedOut, serverVars, left, toServer, datagram>>

\* notify.mediaauthsuccess and the slot of mediaSocketAuthenticated.
OnMediaAuthSuccess ==
  /\ Receive("mediaauthsuccess")
  /\ media' = SetAuthenticated(media)
  /\ left' = Stopped({"media"})
  /\ status' = "joining"
  /\ toServer' = Sent(toServer, "join")
  /\ UNCHANGED <<alive, socket, goodbye, gui, timedOut, serverVars, datagram>>

\* startVideoGui as far as its modal dialog, which the user may leave open.
OnJoined ==
  /\ Receive("joined")
  /\ gui' = "dialog"
  /\ UNCHANGED <<alive, socket, goodbye, media, status, timedOut, serverVars, left, toServer, datagram>>

OnNotJoined ==
  /\ Receive("notjoined")
  /\ status' = "error"
  /\ UNCHANGED <<alive, socket, goodbye, media, gui, timedOut, serverVars, left, toServer, datagram>>

\* The rest of startVideoGui: from here on the start-up hears of nothing.
CloseDialog ==
  /\ alive
  /\ gui = "dialog"
  /\ gui' = "window"
  /\ UNCHANGED <<alive, socket, goodbye, media, status, timedOut, serverVars, left, wireVars>>

\* ConferenceVideoWindow::closeEvent.
CloseWindow ==
  /\ alive
  /\ gui = "window"
  /\ gui' = "closed"
  /\ goodbye' = (goodbye \/ socket = "connected")
  /\ toServer' = IF socket = "connected" THEN Sent(toServer, "goodbye") ELSE toServer
  /\ UNCHANGED <<alive, socket, media, status, timedOut, serverVars, left, toClient, datagram>>

\* The server closed the connection: onError(RemoteHostClosedError), then
\* onStateChanged(UnconnectedState).
OnDisconnected ==
  /\ Receive("end")
  /\ socket' = "unconnected"
  /\ goodbye' = FALSE
  /\ media' = NoMedia
  /\ left' = Stopped({"heartbeat"})
  /\ status' = IF Starting THEN "disconnected" ELSE status
  /\ UNCHANGED <<alive, gui, timedOut, serverVars, toServer, datagram>>

\* The client is not there any more.  What it sent last may be lost with it;
\* a process that ends on a reachable machine closes its connection.
Leave ==
  /\ alive
  /\ alive' = FALSE
  /\ left' = Stopped(ClientTimers)
  /\ toClient' = <<>>
  /\ \E n \in 0..Len(toServer), silent \in BOOLEAN :
       LET rest == SubSeq(toServer, 1, n)
       IN  toServer' = IF silent \/ socket # "connected" THEN rest ELSE Sent(rest, "end")
  /\ UNCHANGED <<socket, goodbye, media, status, gui, timedOut, serverVars, datagram>>
--------------------------------------------------------------------------------
(* The server *)

\* The first message to the server is what, and it is taken off the channel.
Handle(what) ==
  /\ Handled
  /\ toServer # <<>>
  /\ Head(toServer).what = what
  /\ toServer' = Tail(toServer)

\* VirtualServer::onNewConnection and the constructor of the handler.
OnNewConnection ==
  /\ handler.state = "none"
  /\ toServer # <<>>
  /\ toServer' = Tail(toServer)
  /\ handler' = [NoHandler EXCEPT !.state = "alive"]
  /\ left' = [left EXCEPT !["connection"] = ConnectionTimeout, !["auth"] = AuthTimeout]
  /\ UNCHANGED <<clientVars, closing, heard, toClient, datagram>>

\* AuthenticationAction: refused at once (limits, ban, version, password), or
\* the TeamSpeak 3 check starts in a thread.
Authenticate ==
  /\ Handle("auth")
  /\ \/ /\ Answer("refused")
        /\ closing' = TRUE
        /\ UNCHANGED left
     \/ /\ left' = Started("check", MaxCheck)
        /\ UNCHANGED <<toClient, closing>>
  /\ UNCHANGED <<clientVars, handler, heard, datagram>>

\* The callback of the check, which finds the session alive or gone.
FinishAuthentication ==
  /\ Running("check")
  /\ left' = Stopped({"check"})
  /\ \/ /\ Handled
        /\ handler' = [handler EXCEPT !.authenticated = TRUE, !.token = TRUE]
        /\ Answer("authenticated")
        /\ UNCHANGED closing
     \/ /\ Handled
        /\ Answer("refused")
        /\ closing' = TRUE
        /\ UNCHANGED handler
     \/ /\ ~Handled
        /\ UNCHANGED <<handler, closing, toClient>>
  /\ UNCHANGED <<clientVars, heard, toServer, datagram>>

\* A plausible bug: the timer is stopped and not started again.
Heartbeat_MutantStops ==
  /\ Handle("heartbeat")
  /\ left' = IF handler.authenticated THEN Stopped({"connection"}) ELSE left
  /\ heard' = IF handler.authenticated THEN "renewed" ELSE "refused"
  /\ UNCHANGED <<clientVars, handler, closing, toClient, datagram>>

\* A plausible bug: the answer is sent and the timer is forgotten.
Heartbeat_MutantForgets ==
  /\ Handle("heartbeat")
  /\ heard' = IF handler.authenticated THEN "renewed" ELSE "refused"
  /\ UNCHANGED <<clientVars, handler, closing, left, toClient, datagram>>

\* HeartbeatAction, which requires an authenticated client.
Heartbeat ==
  /\ Handle("heartbeat")
  /\ IF handler.authenticated
       THEN /\ left' = Started("connection", ConnectionTimeout)
            /\ heard' = "renewed"
       ELSE /\ heard' = "refused"
            /\ UNCHANGED left
  /\ UNCHANGED <<clientVars, handler, closing, toClient, datagram>>

\* GoodbyeAction requires an authenticated client too.
Goodbye ==
  /\ Handle("goodbye")
  /\ closing' = (closing \/ handler.authenticated)
  /\ UNCHANGED <<clientVars, handler, heard, left, toClient, datagram>>

\* JoinChannelAction with a right or a wrong room password.
JoinChannel ==
  /\ Handle("join")
  /\ handler.authenticated
  /\ \/ /\ handler' = [handler EXCEPT !.member = TRUE]
        /\ Answer("joined")
     \/ /\ Answer("notjoined")
        /\ UNCHANGED handler
  /\ UNCHANGED <<clientVars, closing, heard, left, datagram>>

\* A plausible bug: the token is looked up and stays.
TakeToken_MutantKeeps(h) == [h EXCEPT !.bound = TRUE]

\* What onMediaSocketTokenAuthentication makes of the handler: a token is taken once.
TakeToken(h) == [h EXCEPT !.token = FALSE, !.bound = TRUE]

\* MediaSocketHandler hands over the token; the datagram may come once more.
OnTokenAuthentication ==
  /\ datagram
  /\ IF Handled /\ handler.token
       THEN /\ handler' = TakeToken(handler)
            /\ Answer("mediaauthsuccess")
       ELSE UNCHANGED <<handler, toClient>>
  /\ datagram' \in BOOLEAN
  /\ UNCHANGED <<clientVars, closing, heard, left, toServer>>

DatagramLost ==
  /\ datagram
  /\ datagram' = FALSE
  /\ UNCHANGED <<clientVars, serverVars, left, toServer, toClient>>

OnAuthenticationTimeout ==
  /\ Expired("auth")
  /\ left' = Stopped({"auth"})
  /\ closing' = (closing \/ ~handler.authenticated)
  /\ UNCHANGED <<clientVars, handler, heard, wireVars>>

\* The timer is not a single shot: it runs again until the handler is deleted.
OnConnectionTimeout ==
  /\ Expired("connection")
  /\ left' = Started("connection", ConnectionTimeout)
  /\ closing' = TRUE
  /\ UNCHANGED <<clientVars, handler, heard, wireVars>>

\* The handler is deleted with its timers, its membership and its endpoint.
EndHandler ==
  /\ handler' = GoneHandler
  /\ left' = Stopped(ServerTimers)
  /\ closing' = FALSE

\* The queued disconnectFromHost runs.
DisconnectFromHost ==
  /\ closing
  /\ EndHandler
  /\ Answer("end")
  /\ toServer' = <<>>
  /\ UNCHANGED <<clientVars, heard, datagram>>

\* The client closed the connection.
OnClientClosed ==
  /\ Handle("end")
  /\ EndHandler
  /\ UNCHANGED <<clientVars, heard, toClient, datagram>>

\* Nothing can arrive at a handler that is gone.
Unheard ==
  /\ handler.state = "gone"
  /\ toServer # <<>>
  /\ toServer' = <<>>
  /\ UNCHANGED <<clientVars, serverVars, left, toClient, datagram>>
--------------------------------------------------------------------------------
Due(c) == c # <<>> /\ Head(c).left = 0
Older(c) == [i \in DOMAIN c |-> [c[i] EXCEPT !.left = @ - 1]]

Tick ==
  /\ \E t \in Timers : Running(t)
  /\ \A t \in Timers : ~Expired(t)
  /\ ~closing
  /\ ~Due(toServer)
  /\ ~Due(toClient)
  /\ left' = [t \in Timers |-> IF Running(t) THEN left[t] - 1 ELSE Off]
  /\ toServer' = Older(toServer)
  /\ toClient' = Older(toClient)
  /\ UNCHANGED <<clientVars, serverVars, datagram>>

ClientReceives ==
  OnAuthFinished \/ OnAuthRefused \/ OnMediaAuthSuccess \/ OnJoined \/ OnNotJoined \/ OnDisconnected

ServerReceives ==
  OnNewConnection \/ Authenticate \/ Heartbeat \/ Goodbye \/ JoinChannel \/ OnClientClosed \/ Unheard

TimersFire ==
  SendHeartbeat \/ OnMediaAuthTimeout \/ OnAuthenticationTimeout \/ OnConnectionTimeout

\* What the environment and the user decide.
Outside ==
  DeclineUpdate \/ AcceptUpdate \/ ConnectFails \/ SendAuthToken \/ OnTokenAuthentication \/ DatagramLost
    \/ CloseDialog \/ CloseWindow \/ Leave

SessionNext ==
  \/ StartsUp
  \/ ClientReceives
  \/ ServerReceives
  \/ TimersFire
  \/ FinishAuthentication
  \/ DisconnectFromHost
  \/ OnConnected
  \/ Outside
  \/ Tick

\* The event loops of both ends run, messages arrive within MaxLatency, name
\* resolution and connecting end, well or not, by the limits of the operating
\* system, and time passes.  No HTTP request of the start-up has to end, no
\* datagram has to arrive and no dialog has to be closed.
Fairness ==
  /\ WF_sessionVars(OnResolved)
  /\ WF_sessionVars(ClientReceives)
  /\ WF_sessionVars(ServerReceives)
  /\ WF_sessionVars(TimersFire)
  /\ WF_sessionVars(FinishAuthentication)
  /\ WF_sessionVars(DisconnectFromHost)
  /\ WF_sessionVars(OnConnected \/ ConnectFails)
  /\ WF_sessionVars(Tick)

SessionSpec == SessionInit /\ [][SessionNext]_sessionVars /\ Fairness
--------------------------------------------------------------------------------
Ends == {"error", "disconnected", "fallback"}

Message(what) == [what : what, left : 0..MaxLatency]

\* Every part of the state has its shape, and every timer that runs has a
\* time left that its interval allows.
SessionTypeOK ==
  /\ {alive, goodbye, timedOut, closing, datagram} \subseteq BOOLEAN
  /\ socket \in {"connecting", "connected", "unconnected"}
  /\ media \in [open : BOOLEAN, authenticated : BOOLEAN, authTimer : BOOLEAN, keepAlives : 0..1]
  /\ status \in Waits \cup Ends
       \cup {"offer", "connecting", "authenticating", "joining"}
  /\ gui \in {"startup", "dialog", "window", "closed"}
  /\ handler \in [state : {"none", "alive", "gone"}, authenticated : BOOLEAN,
                  token : BOOLEAN, bound : BOOLEAN, member : BOOLEAN]
  /\ heard \in {"none", "renewed", "refused"}
  /\ left \in [Timers -> -1..ConnectionTimeout + AuthTimeout + MediaTimeout + MaxCheck]
  /\ toServer \in Seq(Message(Requests))
  /\ toClient \in Seq(Message(Answers))

\* notify.mediaauthsuccess is handled without a test for the media socket
\* (networkclient.cpp:524): whenever it is the next message, the socket exists.
AckFindsSocket ==
  socket = "connected" /\ toClient # <<>> /\ Head(toClient).what = "mediaauthsuccess"
    => media.open

\* The server gives up on a client only if that client is gone or its last
\* heartbeat came before it was authenticated.
HealthyClientStays ==
  [][OnConnectionTimeout => ~alive \/ heard # "renewed"]_sessionVars

\* A client that is gone without a word is removed in the end.
DeadPeerRemoved == ~alive /\ Handled ~> ~Handled

\* From the lookup of the host name on the start-up comes to its join request or
\* shows how it ended, whether the name resolves, the socket connects, auth was
\* sent and answered, or a datagram ever arrives.  The HTTP requests before and
\* the answer to the join request after have no timeout in the code.
AuthenticationEnds ==
  status \in {"resolving", "connecting", "authenticating"}
    ~> status \in Ends \cup {"joining"} \/ ~alive

\* ts3videostartuplogic.cpp: "Do not wait longer than X seconds.. timeout."
TimeoutIsFinal == timedOut => status # "joining" /\ gui = "startup"
================================================================================
