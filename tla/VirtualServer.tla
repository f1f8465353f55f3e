---------------------------- MODULE VirtualServer ----------------------------
(***************************************************************************)
(* The conference server of src/projects/videoserver: the maps VirtualServer *)
(* keeps about clients and conferences, the request handlers of action/ that *)
(* change them, and the life of a ClientConnectionHandler from the accepted  *)
(* TCP connection to its destructor.                                         *)
(*                                                                           *)
(* The server is one thread that runs an event loop, so every handler is one *)
(* step.  What interleaves are the handlers of different connections, and    *)
(* the steps one handler only posts to the loop: the delayed                 *)
(* disconnectFromHost, deleteLater, and the continuation of the TeamSpeak 3  *)
(* check that QtAsync ran on another thread.                                 *)
(***************************************************************************)
EXTENDS Naturals, FiniteSets

CONSTANTS
  MaxClientId,      \* bound of _nextClientId in an instance
  MaxChannelId,     \* bound of _nextChannelId in an instance
  MaxPendingAuth,   \* bound of one client's auth requests in flight
  ConnectionLimit,  \* VirtualServerOptions::connectionLimit
  Addresses,        \* IP addresses of peers
  Ports,            \* UDP ports of media sockets
  NullAddress,      \* the default QHostAddress
  Seconds,          \* distinguishable time stamps in auth tokens
  Idents,           \* IDENT strings of channels
  NoIdent,          \* the empty IDENT
  Passwords,        \* channel passwords
  NoPassword,       \* the empty password
  VisibilityLevels, \* levels UpdateVisibilityLevel may be asked to set
  Requests,         \* names of the requests the clients of an instance send
  Reauthentication, \* TRUE: clients of an instance repeat a granted auth
  Observed,         \* kinds of messages an instance records in sent
  Ts3Enabled,       \* VirtualServerOptions::ts3Enabled
  Timers,           \* TRUE: connection and authentication timers may expire
  Readings,         \* network usage readings: TRUE exceeds a bandwidth limit
  MixedJoins        \* TRUE: a join request may name an id and an IDENT at once

VL_Default == 0
VL_Admin == 100
VL_NotVisible == 999

ClientId == 1..MaxClientId
ChannelId == 1..MaxChannelId
NoClient == 0
NoChannel == 0
Endpoint == Addresses \X Ports
NoEndpoint == <<NullAddress, NullAddress>>

ASSUME BoundsAssumption ==
  /\ MaxClientId \in Nat
  /\ MaxChannelId \in Nat
  /\ MaxPendingAuth \in Nat
  /\ ConnectionLimit \in Nat

ASSUME SentinelAssumption ==
  /\ NullAddress \notin Addresses
  /\ NoIdent \notin Idents
  /\ NoPassword \notin Passwords
  /\ VisibilityLevels \subseteq Nat
  /\ Reauthentication \in BOOLEAN
  /\ Ts3Enabled \in BOOLEAN
  /\ Timers \in BOOLEAN
  /\ Readings \subseteq BOOLEAN
  /\ MixedJoins \in BOOLEAN

VARIABLES
  up,               \* the server process has not crashed
  nextClientId,     \* _nextClientId
  sessions,         \* keys of _connections, and of _clients
  entity,           \* the ServerClientEntity of each key of _clients
  closed,           \* sessions in UnconnectedState, deleteLater pending
  doomed,           \* sessions with a disconnectFromHost queued
  pendingAuth,      \* TeamSpeak 3 checks in flight per client
  tokens,           \* _tokens
  bans,             \* bans.ini
  overBandwidth,    \* the last network usage exceeds a bandwidth limit
  nextChannelId,    \* _nextChannelId
  channels,         \* keys of _id2channel
  channel,          \* the ServerChannelEntity of each key of _id2channel
  ident2channel,    \* _ident2channel
  participants,     \* _participants
  client2channels,  \* _client2channels
  sender2receiver,  \* _sender2receiver
  recipients,       \* MediaSocketHandler::_recipients
  sent              \* messages the last step handed to QCorConnections

connectionVars == <<nextClientId, sessions, closed>>
channelVars == <<nextChannelId, channels, channel, ident2channel,
                 participants, client2channels>>
vars == <<up, connectionVars, entity, doomed, pendingAuth, tokens, bans,
          overBandwidth, channelVars, sender2receiver, recipients, sent>>

-----------------------------------------------------------------------------
(* Entities *)

(* Definitions named <X>_Mutant... are faulty variants of <X> that the properties *)
(* are tested against; no action uses them.                                  *)

\* Mutant: the media address starts as the address of the TCP peer.
NewClientEntity_MutantPeerAsMedia(address) ==
  [authenticated |-> FALSE, admin |-> FALSE, visibilityLevel |-> VL_Default,
   peer |-> address, media |-> <<address, NullAddress>>,
   videoEnabled |-> FALSE, audioInputEnabled |-> FALSE]

NewClientEntity(address) ==
  [authenticated |-> FALSE, admin |-> FALSE, visibilityLevel |-> VL_Default,
   peer |-> address, media |-> NoEndpoint,
   videoEnabled |-> FALSE, audioInputEnabled |-> FALSE]

NoEntity == NewClientEntity(NullAddress)

ClientEntity ==
  [authenticated : BOOLEAN, admin : BOOLEAN, visibilityLevel : Nat,
   peer : Addresses \cup {NullAddress}, media : Endpoint \cup {NoEndpoint},
   videoEnabled : BOOLEAN, audioInputEnabled : BOOLEAN]

NoChannelEntity == [ident |-> NoIdent, password |-> NoPassword]

ChannelEntity ==
  [ident : Idents \cup {NoIdent}, password : Passwords \cup {NoPassword}]

\* No code assigns visibilityLevelAllowed after the constructor.
VisibilityLevelAllowed(c) == VL_Default

IsAllowedToSee(c, other) ==
  VisibilityLevelAllowed(c) >= entity[other].visibilityLevel

-----------------------------------------------------------------------------
(* Siblings and notifications *)

SiblingClientIds(c) == UNION {participants[ch] : ch \in client2channels[c]}

VisibleSiblingClientIds(c) ==
  {p \in SiblingClientIds(c) :
     c \in sessions /\ p \in sessions /\ IsAllowedToSee(c, p)}

Connected == sessions \ closed

\* roster: the participants a join reply carries.
Message(kind, to, about) ==
  [kind |-> kind, to |-> to, about |-> about, roster |-> {}]

MessageKind ==
  {"authenticated", "joined", "error", "notify.kicked",
   "notify.mediaauthsuccess", "notify.clientdisconnected",
   "notify.clientjoinedchannel", "notify.clientvideoenabled",
   "notify.clientvideodisabled", "notify.clientaudioinputenabled",
   "notify.clientaudioinputdisabled"}

MessageType ==
  [kind : MessageKind, to : ClientId, about : ClientId,
   roster : SUBSET ClientId]

\* sendRequest and sendResponse drop what is meant for a closed socket.
Deliver(messages) ==
  {m \in messages : m.to \in Connected /\ m.kind \in Observed}

\* Mutant: the notification goes to every session.
BroadcastNotificationToSiblingClients_MutantEveryone(c, kind) ==
  Deliver({Message(kind, p, c) :
             p \in {q \in sessions \ {c} : IsAllowedToSee(q, c)}})

BroadcastNotificationToSiblingClients(c, kind) ==
  Deliver({Message(kind, p, c) :
             p \in {q \in SiblingClientIds(c) \ {c} :
                      q \in sessions /\ IsAllowedToSee(q, c)}})

-----------------------------------------------------------------------------
(* Media recipients *)

HasMedia(c) == c \in sessions /\ entity[c].media # NoEndpoint

Streams(c) ==
  HasMedia(c) /\ (entity[c].videoEnabled \/ entity[c].audioInputEnabled)

ReceiverEntities(ids) == {<<p, entity[p].media>> : p \in {q \in ids : HasMedia(q)}}

\* Mutant: the sender receives its own stream.
ConferenceReceivers_MutantEcho(c) == ReceiverEntities(VisibleSiblingClientIds(c))

ConferenceReceivers(c) == ReceiverEntities(VisibleSiblingClientIds(c) \ {c})

DirectReceivers(c) == ReceiverEntities(sender2receiver[c] \ {c})

\* Two streaming clients may share an endpoint: QHash order decides which of
\* them addr2sender keeps, so the table is any of these.
SenderTables ==
  {at \in [Endpoint -> ClientId \cup {NoClient}] :
     \A e \in Endpoint :
       LET senders == {c \in ClientId : Streams(c) /\ entity[c].media = e}
       IN  IF senders = {} THEN at[e] = NoClient ELSE at[e] \in senders}

\* sender.receivers is the conference part followed by the direct part.
MediaRecipients ==
  {[addr2sender |-> at,
    conference |-> [c \in ClientId |->
                      IF Streams(c) THEN ConferenceReceivers(c) ELSE {}],
    direct |-> [c \in ClientId |->
                  IF Streams(c) THEN DirectReceivers(c) ELSE {}],
    clientid2receiver |-> [c \in ClientId |->
                             IF Streams(c) THEN entity[c].media
                                           ELSE NoEndpoint]] :
     at \in SenderTables}

\* Mutant: the table is computed before the handler changes its inputs.
UpdateMediaRecipients_MutantEarly == recipients' \in MediaRecipients

UpdateMediaRecipients == recipients' \in MediaRecipients'

RecipientsType ==
  [addr2sender : [Endpoint -> ClientId \cup {NoClient}],
   conference : [ClientId -> SUBSET (ClientId \X Endpoint)],
   direct : [ClientId -> SUBSET (ClientId \X Endpoint)],
   clientid2receiver : [ClientId -> Endpoint \cup {NoEndpoint}]]

NoRecipients ==
  [addr2sender |-> [e \in Endpoint |-> NoClient],
   conference |-> [c \in ClientId |-> {}],
   direct |-> [c \in ClientId |-> {}],
   clientid2receiver |-> [c \in ClientId |-> NoEndpoint]]

-----------------------------------------------------------------------------
Init ==
  /\ up = TRUE
  /\ nextClientId = 0
  /\ sessions = {}
  /\ entity = [c \in ClientId |-> NoEntity]
  /\ closed = {}
  /\ doomed = {}
  /\ pendingAuth = [c \in ClientId |-> 0]
  /\ tokens = {}
  /\ bans = {}
  /\ overBandwidth = FALSE
  /\ nextChannelId = 0
  /\ channels = {}
  /\ channel = [ch \in ChannelId |-> NoChannelEntity]
  /\ ident2channel = [i \in Idents |-> NoChannel]
  /\ participants = [ch \in ChannelId |-> {}]
  /\ client2channels = [c \in ClientId |-> {}]
  /\ sender2receiver = [c \in ClientId |-> {}]
  /\ recipients = NoRecipients
  /\ sent = {}

-----------------------------------------------------------------------------
(* Connections *)

\* onNewConnection and the constructor of ClientConnectionHandler.
NewConnection(address) ==
  /\ up
  /\ nextClientId < MaxClientId
  /\ nextClientId' = nextClientId + 1
  /\ sessions' = sessions \cup {nextClientId + 1}
  /\ entity' = [entity EXCEPT ![nextClientId + 1] = NewClientEntity(address)]
  /\ sent' = {}
  /\ UNCHANGED <<up, closed, doomed, pendingAuth, tokens, bans, overBandwidth,
                 channelVars, sender2receiver, recipients>>

\* onStateChanged(UnconnectedState): the siblings this client may see are told,
\* then the handler asks to be deleted.
SocketUnconnected(c) ==
  /\ up
  /\ closed' = closed \cup {c}
  /\ sent' = Deliver({Message("notify.clientdisconnected", p, c) :
                         p \in VisibleSiblingClientIds(c) \ {c}})
  /\ UNCHANGED <<up, nextClientId, sessions, entity, doomed, pendingAuth,
                 tokens, bans, overBandwidth, channelVars, sender2receiver,
                 recipients>>

\* The peer closes the TCP connection, or the network drops it.
PeerDisconnects(c) == c \in Connected /\ SocketUnconnected(c)

\* Mutant: the disconnect waits for a pending TeamSpeak 3 check.
DisconnectFromHost_MutantWaits(c) ==
  c \in Connected \cap doomed /\ pendingAuth[c] = 0 /\ SocketUnconnected(c)

\* The queued disconnectFromHost runs.
DisconnectFromHost(c) == c \in Connected \cap doomed /\ SocketUnconnected(c)

\* Mutant: a channel is never deleted.
Emptied_MutantNever(c) == {}

\* Channels that lose their last participant when c leaves all of its channels.
Emptied(c) == {ch \in client2channels[c] : participants[ch] \ {c} = {}}

\* removeClientFromChannel for every channel of c.
RemoveClientFromChannels(c) ==
  /\ participants' = [ch \in ChannelId |->
                        IF ch \in client2channels[c]
                          THEN participants[ch] \ {c} ELSE participants[ch]]
  /\ client2channels' = [client2channels EXCEPT ![c] = {}]
  /\ channels' = channels \ Emptied(c)
  /\ channel' = [ch \in ChannelId |->
                   IF ch \in Emptied(c) THEN NoChannelEntity ELSE channel[ch]]
  /\ ident2channel' = [i \in Idents |->
                         IF \E ch \in Emptied(c) : channel[ch].ident = i
                           THEN NoChannel ELSE ident2channel[i]]
  /\ UNCHANGED nextChannelId

\* Mutant: only the relations the client sends in are erased.
RelationsWithout_MutantSenderOnly(c) == [sender2receiver EXCEPT ![c] = {}]

\* _sender2receiver without c as a sender and without c as a receiver.
RelationsWithout(c) ==
  [s \in ClientId |-> IF s = c THEN {} ELSE sender2receiver[s] \ {c}]

\* The destructor of ClientConnectionHandler.
DeleteHandler(c) ==
  /\ up
  /\ c \in closed
  /\ RemoveClientFromChannels(c)
  /\ sessions' = sessions \ {c}
  /\ closed' = closed \ {c}
  /\ doomed' = doomed \ {c}
  /\ entity' = [entity EXCEPT ![c] = NoEntity]
  /\ sender2receiver' = RelationsWithout(c)
  /\ UpdateMediaRecipients
  /\ sent' = {}
  /\ UNCHANGED <<up, nextClientId, pendingAuth, tokens, bans, overBandwidth>>

\* onConnectionTimeout and, for a client that is not authenticated,
\* onAuthenticationTimeout: an error request, then a queued disconnect.
Timeout(c) ==
  /\ up
  /\ Timers
  /\ c \in Connected
  /\ doomed' = doomed \cup {c}
  /\ sent' = Deliver({Message("error", c, c)})
  /\ UNCHANGED <<up, connectionVars, entity, pendingAuth, tokens, bans,
                 overBandwidth, channelVars, sender2receiver, recipients>>

-----------------------------------------------------------------------------
(* Requests: onNewIncomingRequest checks the flags of the action. *)

AdminRequests ==
  {"kickclient", "updatevisibilitylevel", "adddirectstreamingrelation",
   "removedirectstreamingrelation"}

\* Mutant: the flags of the action are not tested.
Request_MutantNoFlags(c, name) == up /\ name \in Requests /\ c \in Connected

\* A request that is refused is answered with an error and changes nothing.
Request(c, name) ==
  /\ up
  /\ name \in Requests
  /\ c \in Connected
  /\ name # "auth" => entity[c].authenticated
  /\ name \in AdminRequests => entity[c].admin

\* Mutant: only clients that are already authenticated count.
BelowLimit_MutantAuthenticated ==
  Cardinality({c \in sessions : entity[c].authenticated}) < ConnectionLimit

\* The connection of the request itself is counted, hence no strict test.
BelowLimit == Cardinality(sessions) <= ConnectionLimit

\* "credentials" stands for the version, user name and password checks.
Authentication(c, credentials) ==
  /\ Request(c, "auth")
  /\ Reauthentication \/ ~entity[c].authenticated
  /\ LET admitted == /\ BelowLimit
                     /\ ~overBandwidth
                     /\ entity[c].peer \notin bans
                     /\ credentials
     IN \/ /\ admitted
           /\ pendingAuth[c] < MaxPendingAuth
           /\ pendingAuth' = [pendingAuth EXCEPT ![c] = @ + 1]
           /\ UNCHANGED doomed
        \/ /\ ~admitted
           /\ doomed' = doomed \cup {c}
           /\ UNCHANGED pendingAuth
  /\ sent' = {}
  /\ UNCHANGED <<up, connectionVars, entity, tokens, bans, overBandwidth,
                 channelVars, sender2receiver, recipients>>

\* The TeamSpeak 3 check refused the client.  The error reply and the
\* disconnect use the connection, which the request keeps alive.
AuthenticationRefused(c) ==
  /\ up
  /\ Ts3Enabled
  /\ pendingAuth[c] > 0
  /\ pendingAuth' = [pendingAuth EXCEPT ![c] = @ - 1]
  /\ doomed' = IF c \in sessions THEN doomed \cup {c} ELSE doomed
  /\ sent' = {}
  /\ UNCHANGED <<up, connectionVars, entity, tokens, bans, overBandwidth,
                 channelVars, sender2receiver, recipients>>

\* The TeamSpeak 3 check succeeded; req.session is null after the destructor.
AuthenticationGranted(c, second) ==
  /\ up
  /\ pendingAuth[c] > 0
  /\ pendingAuth' = [pendingAuth EXCEPT ![c] = @ - 1]
  /\ \/ /\ c \in sessions
        /\ entity' = [entity EXCEPT ![c].authenticated = TRUE]
        /\ tokens' = tokens \cup {<<c, second>>}
        /\ sent' = Deliver({Message("authenticated", c, c)})
     \/ /\ c \notin sessions
        /\ sent' = {}
        /\ UNCHANGED <<entity, tokens>>
  /\ UNCHANGED <<up, connectionVars, doomed, bans, overBandwidth, channelVars,
                 sender2receiver, recipients>>

Goodbye(c) ==
  /\ Request(c, "goodbye")
  /\ doomed' = doomed \cup {c}
  /\ sent' = {}
  /\ UNCHANGED <<up, connectionVars, entity, pendingAuth, tokens, bans,
                 overBandwidth, channelVars, sender2receiver, recipients>>

\* What the four media handlers share.
SetMedia(c, newEntity, notification) ==
  /\ entity' = [entity EXCEPT ![c] = newEntity]
  /\ sent' = BroadcastNotificationToSiblingClients(c, notification)
  /\ UNCHANGED <<up, connectionVars, doomed, pendingAuth, tokens, bans,
                 overBandwidth, channelVars, sender2receiver>>
  /\ UpdateMediaRecipients

\* A resolution the server does not support is an error reply.
EnableVideo(c) ==
  /\ Request(c, "clientenablevideo")
  /\ SetMedia(c, [entity[c] EXCEPT !.videoEnabled = TRUE],
              "notify.clientvideoenabled")

DisableVideo(c) ==
  /\ Request(c, "clientdisablevideo")
  /\ SetMedia(c, [entity[c] EXCEPT !.videoEnabled = FALSE],
              "notify.clientvideodisabled")

EnableAudioInput(c) ==
  /\ Request(c, "clientenableaudioinput")
  /\ SetMedia(c, [entity[c] EXCEPT !.audioInputEnabled = TRUE],
              "notify.clientaudioinputenabled")

DisableAudioInput(c) ==
  /\ Request(c, "clientdisableaudioinput")
  /\ SetMedia(c, [entity[c] EXCEPT !.audioInputEnabled = FALSE],
              "notify.clientaudioinputdisabled")

-----------------------------------------------------------------------------
(* Channels *)

\* Mutant: the IDENT of a new channel is not recorded.
IdentsWith_MutantForgotten(newIdent, id) == ident2channel

\* _ident2channel after createChannel; the empty IDENT is not recorded.
IdentsWith(newIdent, id) ==
  [i \in Idents |-> IF i = newIdent THEN id ELSE ident2channel[i]]

NewChannelId == nextChannelId + 1

\* createChannel followed by addClientToChannel.
CreateAndJoin(c, newIdent, newPassword) ==
  LET id == NewChannelId
  IN  /\ nextChannelId < MaxChannelId
      /\ nextChannelId' = nextChannelId + 1
      /\ channels' = channels \cup {id}
      /\ channel' = [channel EXCEPT ![id] = [ident |-> newIdent,
                                             password |-> newPassword]]
      /\ ident2channel' = IdentsWith(newIdent, id)
      /\ participants' = [participants EXCEPT ![id] = @ \cup {c}]
      /\ client2channels' = [client2channels EXCEPT ![c] = @ \cup {id}]

\* Mutant: joining a channel leaves the ones joined before.
AddClientToChannel_MutantMoves(c, id) ==
  /\ participants' = [ch \in ChannelId |->
                        IF ch = id THEN participants[ch] \cup {c}
                                   ELSE participants[ch] \ {c}]
  /\ client2channels' = [client2channels EXCEPT ![c] = {id}]
  /\ UNCHANGED <<nextChannelId, channels, channel, ident2channel>>

AddClientToChannel(c, id) ==
  /\ participants' = [participants EXCEPT ![id] = @ \cup {c}]
  /\ client2channels' = [client2channels EXCEPT ![c] = @ \cup {id}]
  /\ UNCHANGED <<nextChannelId, channels, channel, ident2channel>>

CreateChannel(c, newPassword) ==
  /\ Request(c, "createchannel")
  /\ CreateAndJoin(c, NoIdent, newPassword)
  /\ sent' = {}
  /\ UNCHANGED <<up, connectionVars, entity, doomed, pendingAuth, tokens, bans,
                 overBandwidth, sender2receiver>>
  /\ UpdateMediaRecipients

\* The channelid and identifier parameters of a join request.
JoinTargets ==
  (ChannelId \X {NoIdent}) \cup ({NoChannel} \X Idents)
    \cup (IF MixedJoins THEN ChannelId \X Idents ELSE {})

\* An id of zero is looked up by IDENT.
Resolve(id, byIdent) ==
  IF id = NoChannel /\ byIdent \in Idents THEN ident2channel[byIdent] ELSE id

\* The reply carries the participants after the join that c may see.
JoinMessages(c, id) ==
  Deliver({[kind |-> "joined", to |-> c, about |-> c,
            roster |-> {p \in participants'[id] :
                          p \in sessions /\ IsAllowedToSee(c, p)}]})
    \cup BroadcastNotificationToSiblingClients(
           c, "notify.clientjoinedchannel")'

JoinChannel(c, id, byIdent, givenPassword) ==
  /\ Request(c, "joinchannel")
  /\ UNCHANGED <<up, connectionVars, entity, doomed, pendingAuth, tokens, bans,
                 overBandwidth, sender2receiver>>
  /\ LET target == Resolve(id, byIdent)
     IN \/ /\ target \in channels
           /\ \/ entity[c].admin
              \/ channel[target].password \in {NoPassword, givenPassword}
           /\ AddClientToChannel(c, target)
           /\ sent' = JoinMessages(c, target)
        \/ /\ target \notin channels
           /\ byIdent # NoIdent
           /\ CreateAndJoin(c, byIdent, givenPassword)
           /\ sent' = JoinMessages(c, NewChannelId)
  /\ UpdateMediaRecipients

-----------------------------------------------------------------------------
(* Administration *)

AdminAuth(c) ==
  /\ Request(c, "adminauth")
  /\ entity' = [entity EXCEPT ![c].admin = TRUE]
  /\ sent' = {}
  /\ UNCHANGED <<up, connectionVars, doomed, pendingAuth, tokens, bans,
                 overBandwidth, channelVars, sender2receiver, recipients>>

\* For an id without a session the handler answers through the null session
\* pointer it just tested: the process crashes.
KickClient(c, id, ban) ==
  /\ Request(c, "kickclient")
  /\ \/ /\ id \in sessions
        /\ sent' = Deliver({Message("notify.kicked", id, c)})
        /\ doomed' = doomed \cup {id}
        /\ bans' = IF ban THEN bans \cup {entity[id].media[1]} ELSE bans
        /\ UNCHANGED up
     \/ /\ id \notin sessions
        /\ up' = FALSE
        /\ sent' = {}
        /\ UNCHANGED <<doomed, bans>>
  /\ UNCHANGED <<connectionVars, entity, pendingAuth, tokens, overBandwidth,
                 channelVars, sender2receiver, recipients>>

UpdateVisibilityLevel(c, level) ==
  /\ Request(c, "updatevisibilitylevel")
  /\ entity' = [entity EXCEPT ![c].visibilityLevel = level]
  /\ sent' = {}
  /\ UNCHANGED <<up, connectionVars, doomed, pendingAuth, tokens, bans,
                 overBandwidth, channelVars, sender2receiver, recipients>>

AddDirectStreamingRelation(c, sender, receiver) ==
  /\ Request(c, "adddirectstreamingrelation")
  /\ {sender, receiver} \subseteq sessions
  /\ sender2receiver' = [sender2receiver EXCEPT ![sender] = @ \cup {receiver}]
  /\ sent' = {}
  /\ UNCHANGED <<up, connectionVars, entity, doomed, pendingAuth, tokens, bans,
                 overBandwidth, channelVars>>
  /\ UpdateMediaRecipients

RemoveDirectStreamingRelation(c, sender, receiver) ==
  /\ Request(c, "removedirectstreamingrelation")
  /\ sender2receiver' = [sender2receiver EXCEPT ![sender] = @ \ {receiver}]
  /\ sent' = {}
  /\ UNCHANGED <<up, connectionVars, entity, doomed, pendingAuth, tokens, bans,
                 overBandwidth, channelVars>>
  /\ UpdateMediaRecipients

-----------------------------------------------------------------------------
(* Signals of the media socket *)

\* An auth datagram with a token of _tokens arrives from an endpoint.
MediaSocketTokenAuthentication(token, endpoint) ==
  /\ up
  /\ token \in tokens
  /\ tokens' = tokens \ {token}
  /\ \/ /\ token[1] \in sessions
        /\ entity' = [entity EXCEPT ![token[1]].media = endpoint]
        /\ sent' = Deliver({Message("notify.mediaauthsuccess", token[1],
                                    token[1])})
        /\ UNCHANGED <<channelVars, sender2receiver, connectionVars>>
        /\ UpdateMediaRecipients
     \/ /\ token[1] \notin sessions
        /\ sent' = {}
        /\ UNCHANGED <<entity, channelVars, sender2receiver, connectionVars,
                       recipients>>
  /\ UNCHANGED <<up, doomed, pendingAuth, bans, overBandwidth>>

MediaSocketNetworkUsageUpdated(exceeded) ==
  /\ up
  /\ overBandwidth' = exceeded
  /\ sent' = {}
  /\ UNCHANGED <<up, connectionVars, entity, doomed, pendingAuth, tokens, bans,
                 channelVars, sender2receiver, recipients>>

-----------------------------------------------------------------------------
Next ==
  \/ \E a \in Addresses : NewConnection(a)
  \/ \E c \in ClientId :
       \/ PeerDisconnects(c)
       \/ DisconnectFromHost(c)
       \/ DeleteHandler(c)
       \/ Timeout(c)
       \/ \E credentials \in BOOLEAN : Authentication(c, credentials)
       \/ AuthenticationRefused(c)
       \/ \E second \in Seconds : AuthenticationGranted(c, second)
       \/ Goodbye(c)
       \/ EnableVideo(c)
       \/ DisableVideo(c)
       \/ EnableAudioInput(c)
       \/ DisableAudioInput(c)
       \/ \E pw \in Passwords \cup {NoPassword} : CreateChannel(c, pw)
       \/ \E t \in JoinTargets, pw \in Passwords \cup {NoPassword} :
            JoinChannel(c, t[1], t[2], pw)
       \/ AdminAuth(c)
       \/ \E id \in ClientId, ban \in BOOLEAN : KickClient(c, id, ban)
       \/ \E level \in VisibilityLevels : UpdateVisibilityLevel(c, level)
       \/ \E s, r \in ClientId :
            \/ AddDirectStreamingRelation(c, s, r)
            \/ RemoveDirectStreamingRelation(c, s, r)
  \/ \E token \in tokens, e \in Endpoint :
       MediaSocketTokenAuthentication(token, e)
  \/ \E exceeded \in Readings : MediaSocketNetworkUsageUpdated(exceeded)

\* The event loop runs what was posted to it; a queued disconnect completes
\* because TCP gives up on a peer that never acknowledges the last bytes.
EventLoop ==
  \A c \in ClientId : /\ WF_vars(DisconnectFromHost(c))
                      /\ WF_vars(DeleteHandler(c))

Spec == Init /\ [][Next]_vars
FairSpec == Spec /\ EventLoop
-----------------------------------------------------------------------------
(* Properties *)

\* The type invariant: every map of VirtualServer holds values of its type.
TypeOK ==
  /\ up \in BOOLEAN
  /\ nextClientId \in 0..MaxClientId
  /\ sessions \subseteq 1..nextClientId
  /\ entity \in [ClientId -> ClientEntity]
  /\ closed \subseteq sessions
  /\ doomed \subseteq sessions
  /\ pendingAuth \in [ClientId -> Nat]
  /\ tokens \subseteq ClientId \X Seconds
  /\ bans \subseteq Addresses \cup {NullAddress}
  /\ overBandwidth \in BOOLEAN
  /\ nextChannelId \in 0..MaxChannelId
  /\ channels \subseteq 1..nextChannelId
  /\ channel \in [ChannelId -> ChannelEntity]
  /\ ident2channel \in [Idents -> ChannelId \cup {NoChannel}]
  /\ participants \in [ChannelId -> SUBSET ClientId]
  /\ client2channels \in [ClientId -> SUBSET ChannelId]
  /\ sender2receiver \in [ClientId -> SUBSET ClientId]
  /\ recipients \in RecipientsType
  /\ sent \subseteq MessageType

\* _participants and _client2channels are inverse relations, a channel exists
\* exactly as long as it has a participant, and _ident2channel never names a
\* deleted channel or one with another IDENT: joins of some clients, deferred
\* deletions of others and the reuse of an IDENT keep the four maps aligned.
MembershipConsistent ==
  /\ \A c \in ClientId, ch \in ChannelId :
       c \in participants[ch] <=> ch \in client2channels[c]
  /\ \A ch \in ChannelId : ch \in channels <=> participants[ch] # {}
  /\ \A i \in Idents : ident2channel[i] # NoChannel =>
       /\ ident2channel[i] \in channels
       /\ channel[ident2channel[i]].ident = i

\* A client that has not passed authentication is no participant, has no
\* admin rights, streams nothing and is bound to no media endpoint, whatever
\* requests, tokens and late continuations arrive in whatever order.
OnlyAuthenticatedAct ==
  \A c \in ClientId :
    (~entity[c].authenticated) =>
      /\ client2channels[c] = {}
      /\ ~entity[c].admin
      /\ ~entity[c].videoEnabled /\ ~entity[c].audioInputEnabled
      /\ entity[c].media = NoEndpoint

\* The destructor leaves no trace of a client: ids kept by the channels, the
\* direct streaming relations and the recipients table are ids of sessions.
NoGhosts ==
  /\ \A ch \in ChannelId : participants[ch] \subseteq sessions
  /\ \A s \in ClientId : sender2receiver[s] # {} =>
       s \in sessions /\ sender2receiver[s] \subseteq sessions
  /\ \A e \in Endpoint : recipients.addr2sender[e] \in sessions \cup {NoClient}
  /\ \A s \in ClientId :
       \A r \in recipients.conference[s] \cup recipients.direct[s] :
         r[1] \in sessions

\* Sessions that are authenticated or were let through to the TeamSpeak 3
\* check.
Admitted == {c \in sessions : entity[c].authenticated \/ pendingAuth[c] > 0}

\* The number of clients that got past admission never exceeds the connection
\* limit, although the limit is tested when a request arrives and the client
\* becomes authenticated only when an asynchronous check ends.
AdmissionLimit == Cardinality(Admitted) <= ConnectionLimit

\* The table agrees with the memberships, endpoints, stream flags, levels and
\* direct relations of this very moment.
RoutingCurrent == recipients \in MediaRecipients

\* Every handler that changes what the media socket's table is computed from
\* also refreshes the table: a step ends with a current table, unless it is a
\* change of a visibility level, or finds the table outdated by such a change
\* and leaves it alone.
RoutingRefreshed ==
  [][\/ RoutingCurrent'
     \/ \E c \in sessions' :
          entity'[c].visibilityLevel # entity[c].visibilityLevel
     \/ ~RoutingCurrent /\ UNCHANGED recipients]_vars

\* A datagram is forwarded only on behalf of a live streaming client that owns
\* the endpoint, and only to the current endpoints of other clients that share
\* a conference with it or were directly related to it by an administrator.
RoutingSound ==
  \A e \in Endpoint :
    LET s == recipients.addr2sender[e]
    IN  s # NoClient =>
          /\ Streams(s) /\ entity[s].media = e
          /\ \A r \in recipients.conference[s] :
               r[1] \in SiblingClientIds(s) \ {s} /\ entity[r[1]].media = r[2]
          /\ \A r \in recipients.direct[s] :
               r[1] \in sender2receiver[s] \ {s} /\ entity[r[1]].media = r[2]

\* IDENT strings name conferences: at most one existing channel has a given
\* IDENT, and a join by IDENT finds it.
IdentResolves ==
  \A ch \in channels :
    channel[ch].ident # NoIdent => ident2channel[channel[ch].ident] = ch

\* A client that was kicked, said goodbye, failed to authenticate or timed out
\* is eventually gone from every map (unless the server crashes first).
DoomedLeave == \A c \in ClientId : c \in doomed ~> (c \notin sessions \/ ~up)

\* A step never gives a message to a client about a conference both share
\* unless sender and receiver were siblings when it began or ended: nobody
\* learns of the clients of a foreign conference.
NotifiesSiblingsOnly ==
  [][\A m \in sent' :
       m.kind \in MessageKind \ {"notify.kicked"} /\ m.to # m.about =>
         m.to \in SiblingClientIds(m.about) \cup SiblingClientIds(m.about)']_vars

\* Answering a request never brings the server down; the handler of kickclient
\* has an "Unknown client" reply for ids without a session.
ServerSurvives == up

\* The rooms the channel maps stand for.
Rooms ==
  [ch \in channels |-> [label |-> channel[ch], members |-> participants[ch]]]

Conference ==
  INSTANCE Conferences
  WITH Client <- ClientId, Room <- ChannelId, Label <- ChannelEntity,
       present <- sessions, rooms <- Rooms, used <- 1..nextChannelId

\* The channel maps together behave as one table of rooms: a membership only
\* ends by leaving the server, which ends all of a client's memberships in one
\* step; a room goes with its last member, and its id, IDENT and password are
\* never changed under its participants nor given to another one.
ConferencesSpec == Conference!Spec

=============================================================================
