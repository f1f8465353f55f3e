------------------------- MODULE VirtualServerProofs -------------------------
(***************************************************************************)
(* Machine-checked proofs about VirtualServer, for every value of its        *)
(* constants that satisfies BoundsAssumption and SentinelAssumption: type    *)
(* correctness; the safety invariants in every reachable state; what a step  *)
(* does to the recipients table and whom it notifies; the refinement of      *)
(* Conferences.  None of the safety invariants is inductive alone:           *)
(*   - MembershipConsistent needs the types of the channel ids;              *)
(*   - OnlyAuthenticatedAct needs that a token in _tokens of a live session  *)
(*     was issued to an authenticated client;                                *)
(*   - NoGhosts follows from MembershipConsistent, OnlyAuthenticatedAct and  *)
(*     the fact that a deleted client leaves no entity and no relation;      *)
(*   - AdmissionLimit needs that an id not yet handed out has no check in    *)
(*     flight;                                                               *)
(*   - RoutingSound needs that the receivers in the table are live.          *)
(* SafetyInv is their conjunction with these facts.                          *)
(***************************************************************************)
EXTENDS VirtualServer, FiniteSetTheorems, TLAPS

\* What TypeOK says about the maps, without the recipients table and sent.
MapsType ==
  /\ up \in BOOLEAN
  /\ nextClientId \in 0..MaxClientId
  /\ sessions \subseteq 1..nextClientId
  /\ entity \in [ClientId -> ClientEntity]
  /\ closed \subseteq sessions
  /\ doomed \subseteq sessions
  /\ pendingAuth \in [ClientId -> Nat]
  /\ tokens \subseteq ClientId \X Seconds
  /\ bans \subseteq Addresses \cup {NullAddress}
  /\ overBandwidth \in BOOLEAN
  /\ nextChannelId \in 0..MaxChannelId
  /\ channels \subseteq 1..nextChannelId
  /\ channel \in [ChannelId -> ChannelEntity]
  /\ ident2channel \in [Idents -> ChannelId \cup {NoChannel}]
  /\ participants \in [ChannelId -> SUBSET ClientId]
  /\ client2channels \in [ClientId -> SUBSET ChannelId]
  /\ sender2receiver \in [ClientId -> SUBSET ClientId]

LEMMA TypeOKSplits ==
  TypeOK <=> /\ MapsType
             /\ recipients \in RecipientsType
             /\ sent \subseteq MessageType
  BY DEF TypeOK, MapsType

\* Session ids are client ids.
LEMMA SessionIds == ASSUME MapsType PROVE sessions \subseteq ClientId
<1>1. nextClientId \in 0..MaxClientId /\ sessions \subseteq 1..nextClientId
  BY DEF MapsType
<1>2. 1..nextClientId \subseteq 1..MaxClientId
  BY <1>1, BoundsAssumption
<1> QED BY <1>1, <1>2 DEF ClientId

\* The receivers among a set of clients are clients with an endpoint.
LEMMA ReceiversType ==
  ASSUME MapsType, NEW ids \in SUBSET ClientId
  PROVE  ReceiverEntities(ids) \subseteq ClientId \X Endpoint
<1> SUFFICES ASSUME NEW p \in ids, HasMedia(p)
             PROVE  entity[p].media \in Endpoint
  BY DEF ReceiverEntities
<1> QED BY DEF HasMedia, MapsType, ClientEntity

LEMMA ConferenceReceiversType ==
  ASSUME MapsType, NEW c \in ClientId
  PROVE  ConferenceReceivers(c) \subseteq ClientId \X Endpoint
<1>1. VisibleSiblingClientIds(c) \ {c} \in SUBSET ClientId
  BY SessionIds DEF VisibleSiblingClientIds
<1> QED BY <1>1, ReceiversType DEF ConferenceReceivers

LEMMA DirectReceiversType ==
  ASSUME MapsType, NEW c \in ClientId
  PROVE  DirectReceivers(c) \subseteq ClientId \X Endpoint
<1>1. sender2receiver[c] \ {c} \in SUBSET ClientId
  BY DEF MapsType
<1> QED BY <1>1, ReceiversType DEF DirectReceivers

\* Every table computed from a well-typed state is well-typed.
LEMMA MediaRecipientsType ==
  MapsType => MediaRecipients \subseteq RecipientsType
<1> SUFFICES ASSUME MapsType, NEW t \in MediaRecipients
             PROVE  t \in RecipientsType
  OBVIOUS
<1>1. PICK at \in SenderTables :
        t = [addr2sender |-> at,
             conference |-> [c \in ClientId |->
                IF Streams(c) THEN ConferenceReceivers(c) ELSE {}],
             direct |-> [c \in ClientId |->
                IF Streams(c) THEN DirectReceivers(c) ELSE {}],
             clientid2receiver |-> [c \in ClientId |->
                IF Streams(c) THEN entity[c].media ELSE NoEndpoint]]
  BY DEF MediaRecipients
<1>2. at \in [Endpoint -> ClientId \cup {NoClient}]
  BY <1>1 DEF SenderTables
<1>3. \A c \in ClientId : entity[c].media \in Endpoint \cup {NoEndpoint}
  BY DEF MapsType, ClientEntity
<1>4. \A c \in ClientId :
        /\ ConferenceReceivers(c) \subseteq ClientId \X Endpoint
        /\ DirectReceivers(c) \subseteq ClientId \X Endpoint
  BY ConferenceReceiversType, DirectReceiversType
<1> QED BY <1>1, <1>2, <1>3, <1>4 DEF RecipientsType


LEMMA RefreshType ==
  MapsType' /\ UpdateMediaRecipients => recipients' \in RecipientsType
<1>1. (MapsType => MediaRecipients \subseteq RecipientsType)'
  BY MediaRecipientsType, PTL
<1> QED BY <1>1 DEF UpdateMediaRecipients, RecipientsType

-----------------------------------------------------------------------------
(* Type correctness *)

\* What is delivered about clients is well-typed.
LEMMA BroadcastType ==
  ASSUME MapsType, NEW c \in ClientId, NEW kind \in MessageKind
  PROVE  BroadcastNotificationToSiblingClients(c, kind) \subseteq MessageType
<1>1. \A m \in BroadcastNotificationToSiblingClients(c, kind) :
        \E p \in sessions : m = Message(kind, p, c)
  BY DEF BroadcastNotificationToSiblingClients, Deliver
<1> QED BY <1>1, SessionIds DEF Message, MessageType

LEMMA DeliverOneType ==
  ASSUME NEW kind \in MessageKind, NEW to \in ClientId, NEW about \in ClientId
  PROVE  Deliver({Message(kind, to, about)}) \subseteq MessageType
BY DEF Deliver, Message, MessageType

LEMMA InitType == Init => TypeOK
<1> SUFFICES ASSUME Init PROVE TypeOK
  OBVIOUS
<1>1. NoEntity \in ClientEntity
  BY DEF NoEntity, NewClientEntity, ClientEntity, NoEndpoint, VL_Default
<1>2. NoChannelEntity \in ChannelEntity
  BY DEF NoChannelEntity, ChannelEntity
<1>3. NoRecipients \in RecipientsType
  BY DEF NoRecipients, RecipientsType
<1>4. 0 \in 0..MaxClientId /\ 0 \in 0..MaxChannelId /\ 0 \in Nat
  BY BoundsAssumption
<1>5. MapsType
  BY <1>1, <1>2, <1>4 DEF Init, MapsType
<1> QED BY <1>3, <1>5 DEF Init, TypeOK, MapsType

LEMMA RequestType ==
  ASSUME MapsType, NEW c, NEW name, Request(c, name)
  PROVE  c \in sessions /\ c \in ClientId
BY SessionIds DEF Request, Connected

\* CreateAndJoin, AddClientToChannel and RemoveClientFromChannels keep the
\* types of the channel maps.
LEMMA ChannelMapsType ==
  ASSUME MapsType, NEW c \in ClientId, UNCHANGED <<up, connectionVars, entity,
           doomed, pendingAuth, tokens, bans, overBandwidth, sender2receiver>>,
         \/ \E i \in Idents \cup {NoIdent}, pw \in Passwords \cup {NoPassword} :
              CreateAndJoin(c, i, pw)
         \/ \E id \in ChannelId : AddClientToChannel(c, id)
  PROVE  MapsType'
<1>1. CASE \E i \in Idents \cup {NoIdent}, pw \in Passwords \cup {NoPassword} :
             CreateAndJoin(c, i, pw)
  <2>1. PICK i \in Idents \cup {NoIdent}, pw \in Passwords \cup {NoPassword} :
          CreateAndJoin(c, i, pw)
    BY <1>1
  <2>2. /\ NewChannelId \in ChannelId
        /\ nextChannelId' \in 0..MaxChannelId
        /\ channels' \subseteq 1..nextChannelId'
    BY <2>1, BoundsAssumption
    DEF CreateAndJoin, NewChannelId, MapsType, ChannelId
  <2>3. [ident |-> i, password |-> pw] \in ChannelEntity
    BY DEF ChannelEntity
  <2>4. channel' \in [ChannelId -> ChannelEntity]
    BY <2>1, <2>2, <2>3 DEF CreateAndJoin, MapsType
  <2>5. ident2channel' \in [Idents -> ChannelId \cup {NoChannel}]
    BY <2>1, <2>2 DEF CreateAndJoin, IdentsWith, MapsType
  <2>6. /\ participants' \in [ChannelId -> SUBSET ClientId]
        /\ client2channels' \in [ClientId -> SUBSET ChannelId]
    BY <2>1, <2>2 DEF CreateAndJoin, MapsType
  <2> QED BY <2>2, <2>4, <2>5, <2>6 DEF MapsType, connectionVars
<1>2. CASE \E id \in ChannelId : AddClientToChannel(c, id)
  BY <1>2 DEF AddClientToChannel, MapsType, connectionVars
<1> QED BY <1>1, <1>2

LEMMA DeleteHandlerType ==
  ASSUME MapsType, NEW c \in ClientId, DeleteHandler(c)
  PROVE  MapsType'
<1>1. /\ participants' \in [ChannelId -> SUBSET ClientId]
      /\ client2channels' \in [ClientId -> SUBSET ChannelId]
      /\ ident2channel' \in [Idents -> ChannelId \cup {NoChannel}]
      /\ channels' \subseteq channels
      /\ nextChannelId' = nextChannelId
  BY DEF DeleteHandler, RemoveClientFromChannels, MapsType
<1>2. channel' \in [ChannelId -> ChannelEntity]
  <2>1. NoChannelEntity \in ChannelEntity
    BY DEF NoChannelEntity, ChannelEntity
  <2> QED BY <2>1 DEF DeleteHandler, RemoveClientFromChannels, MapsType
<1>3. entity' \in [ClientId -> ClientEntity]
  <2>1. NoEntity \in ClientEntity
    BY DEF NoEntity, NewClientEntity, ClientEntity, VL_Default
  <2> QED BY <2>1 DEF DeleteHandler, MapsType
<1>4. sender2receiver' \in [ClientId -> SUBSET ClientId]
  BY DEF DeleteHandler, RelationsWithout, MapsType
<1> QED BY <1>1, <1>2, <1>3, <1>4 DEF DeleteHandler, MapsType

LEMMA SetMediaType ==
  ASSUME MapsType, NEW c \in ClientId, NEW e \in ClientEntity,
         NEW kind \in MessageKind, SetMedia(c, e, kind)
  PROVE  TypeOK'
<1>1. MapsType'
  BY DEF SetMedia, MapsType, connectionVars, channelVars
<1>2. recipients' \in RecipientsType
  BY <1>1, RefreshType DEF SetMedia
<1>3. sent' \subseteq MessageType
  BY BroadcastType DEF SetMedia
<1> QED BY <1>1, <1>2, <1>3 DEF TypeOK, MapsType

LEMMA JoinChannelType ==
  ASSUME MapsType, NEW c \in ClientId, NEW t \in JoinTargets,
         NEW pw \in Passwords \cup {NoPassword}, JoinChannel(c, t[1], t[2], pw)
  PROVE  TypeOK'
<1> DEFINE target == Resolve(t[1], t[2])
<1>1. t[2] \in Idents \cup {NoIdent}
  BY DEF JoinTargets
<1>2. /\ UNCHANGED <<up, connectionVars, entity, doomed, pendingAuth, tokens,
                     bans, overBandwidth, sender2receiver>>
      /\ UpdateMediaRecipients
      /\ \/ /\ target \in channels
            /\ AddClientToChannel(c, target)
            /\ sent' = JoinMessages(c, target)
         \/ /\ CreateAndJoin(c, t[2], pw)
            /\ sent' = JoinMessages(c, NewChannelId)
  BY DEF JoinChannel
<1>3. channels \subseteq ChannelId
  <2>1. channels \subseteq 1..nextChannelId /\ nextChannelId \in 0..MaxChannelId
    BY DEF MapsType
  <2> QED BY <2>1, BoundsAssumption DEF ChannelId
<1>4. MapsType'
  BY <1>1, <1>2, <1>3, ChannelMapsType
<1>5. recipients' \in RecipientsType
  BY <1>2, <1>4, RefreshType
<1>6. sent' \subseteq MessageType
  <2>1. PICK id \in ChannelId : sent' = JoinMessages(c, id)
    <3>1. CASE target \in channels /\ sent' = JoinMessages(c, target)
      BY <3>1, <1>3
    <3>2. CASE CreateAndJoin(c, t[2], pw) /\ sent' = JoinMessages(c, NewChannelId)
      <4>1. NewChannelId \in ChannelId
        BY <3>2, BoundsAssumption DEF CreateAndJoin, NewChannelId, MapsType, ChannelId
      <4> QED BY <3>2, <4>1
    <3> QED BY <1>2, <3>1, <3>2
  <2>2. sessions' \subseteq ClientId /\ sessions' = sessions /\ closed' = closed
    BY <1>2, SessionIds DEF connectionVars
  <2>3. BroadcastNotificationToSiblingClients(
          c, "notify.clientjoinedchannel")' \subseteq MessageType
    <3>1. \A m \in BroadcastNotificationToSiblingClients(
                     c, "notify.clientjoinedchannel")' :
            \E p \in sessions' : m = Message("notify.clientjoinedchannel", p, c)
      BY DEF BroadcastNotificationToSiblingClients, Deliver
    <3> QED BY <3>1, <2>2 DEF Message, MessageType, MessageKind
  <2>4. \A r \in SUBSET ClientId :
          [kind |-> "joined", to |-> c, about |-> c, roster |-> r] \in MessageType
    BY DEF MessageType, MessageKind
  <2>5. {p \in participants'[id] : p \in sessions /\ IsAllowedToSee(c, p)}
          \in SUBSET ClientId
    BY SessionIds
  <2> QED BY <2>1, <2>3, <2>4, <2>5 DEF JoinMessages, Deliver
<1> QED BY <1>4, <1>5, <1>6 DEF TypeOK, MapsType

\* Counting a TeamSpeak 3 check in or out keeps the counters natural.
LEMMA PendingAuthType ==
  ASSUME MapsType, NEW c \in ClientId
  PROVE  /\ [pendingAuth EXCEPT ![c] = @ + 1] \in [ClientId -> Nat]
         /\ pendingAuth[c] > 0 =>
              [pendingAuth EXCEPT ![c] = @ - 1] \in [ClientId -> Nat]
<1>1. pendingAuth \in [ClientId -> Nat] /\ pendingAuth[c] \in Nat
  BY DEF MapsType
<1>2. /\ pendingAuth[c] + 1 \in Nat
      /\ pendingAuth[c] > 0 => pendingAuth[c] - 1 \in Nat
  BY <1>1
<1> QED BY <1>1, <1>2

\* Each update of one field of an entity gives an entity.
LEMMA EntityUpdates ==
  ASSUME NEW x \in ClientEntity
  PROVE  /\ \A b \in BOOLEAN :
              /\ [x EXCEPT !.authenticated = b] \in ClientEntity
              /\ [x EXCEPT !.admin = b] \in ClientEntity
              /\ [x EXCEPT !.videoEnabled = b] \in ClientEntity
              /\ [x EXCEPT !.audioInputEnabled = b] \in ClientEntity
         /\ \A n \in Nat : [x EXCEPT !.visibilityLevel = n] \in ClientEntity
         /\ \A e \in Endpoint : [x EXCEPT !.media = e] \in ClientEntity
BY DEF ClientEntity

LEMMA NextType == TypeOK /\ [Next]_vars => TypeOK'
<1> SUFFICES ASSUME TypeOK, [Next]_vars PROVE TypeOK'
  OBVIOUS
<1>0. MapsType /\ recipients \in RecipientsType /\ sent \subseteq MessageType
  BY TypeOKSplits
<1> USE <1>0
<1>1. ASSUME NEW a \in Addresses, NewConnection(a) PROVE TypeOK'
  <2>1. nextClientId + 1 \in ClientId /\ nextClientId' \in 0..MaxClientId
    BY <1>1, BoundsAssumption DEF NewConnection, MapsType, ClientId
  <2>2. sessions' \subseteq 1..nextClientId' /\ closed' \subseteq sessions'
                                         /\ doomed' \subseteq sessions'
    <3>1. 1..nextClientId' = (1..nextClientId) \cup {nextClientId + 1}
      BY <1>1 DEF NewConnection, MapsType
    <3> QED BY <1>1, <3>1 DEF NewConnection, MapsType
  <2>3. NewClientEntity(a) \in ClientEntity
    BY DEF NewClientEntity, ClientEntity, VL_Default
  <2>4. entity' \in [ClientId -> ClientEntity]
    BY <1>1, <2>1, <2>3 DEF NewConnection, MapsType
  <2>5. MapsType'
    BY <1>1, <2>1, <2>2, <2>4 DEF NewConnection, MapsType, channelVars
  <2> QED BY <1>1, <2>5 DEF NewConnection, TypeOK, MapsType
<1>2. ASSUME NEW c \in ClientId, SocketUnconnected(c), c \in sessions
      PROVE  TypeOK'
  <2>1. MapsType'
    BY <1>2 DEF SocketUnconnected, MapsType, channelVars
  <2>2. sent' \subseteq MessageType
    <3>1. \A m \in sent' : \E p \in sessions :
             m = Message("notify.clientdisconnected", p, c)
      BY <1>2 DEF SocketUnconnected, Deliver, VisibleSiblingClientIds
    <3> QED BY <3>1, SessionIds DEF Message, MessageType, MessageKind
  <2> QED BY <1>2, <2>1, <2>2 DEF SocketUnconnected, TypeOK, MapsType
<1>3. ASSUME NEW c \in ClientId, DeleteHandler(c) PROVE TypeOK'
  <2>1. MapsType'
    BY <1>3, DeleteHandlerType
  <2>2. recipients' \in RecipientsType
    BY <1>3, <2>1, RefreshType DEF DeleteHandler
  <2> QED BY <1>3, <2>1, <2>2 DEF DeleteHandler, TypeOK, MapsType
<1>4. ASSUME NEW c \in ClientId, Timeout(c) PROVE TypeOK'
  <2>1. MapsType'
    BY <1>4 DEF Timeout, MapsType, Connected, connectionVars, channelVars
  <2>2. sent' \subseteq MessageType
    BY <1>4, DeliverOneType DEF Timeout, MessageKind
  <2> QED BY <1>4, <2>1, <2>2 DEF Timeout, TypeOK, MapsType
<1>5. ASSUME NEW c \in ClientId, NEW b \in BOOLEAN, Authentication(c, b)
      PROVE  TypeOK'
  <2>1. c \in sessions
    BY <1>5, RequestType DEF Authentication
  <2>2. doomed' \subseteq sessions
    BY <1>5, <2>1 DEF Authentication, MapsType
  <2>3. pendingAuth' \in [ClientId -> Nat]
    BY <1>5, PendingAuthType DEF Authentication, MapsType
  <2> QED
    BY <1>5, <2>2, <2>3
    DEF Authentication, TypeOK, MapsType, connectionVars, channelVars
<1>6. ASSUME NEW c \in ClientId, AuthenticationRefused(c) PROVE TypeOK'
  <2>1. doomed' \subseteq sessions /\ pendingAuth' \in [ClientId -> Nat]
    BY <1>6, PendingAuthType DEF AuthenticationRefused, MapsType
  <2> QED
    BY <1>6, <2>1
    DEF AuthenticationRefused, TypeOK, MapsType, connectionVars, channelVars
<1>7. ASSUME NEW c \in ClientId, NEW second \in Seconds,
             AuthenticationGranted(c, second)
      PROVE  TypeOK'
  <2>0. entity[c] \in ClientEntity
    BY DEF MapsType
  <2>1. pendingAuth' \in [ClientId -> Nat]
    BY <1>7, PendingAuthType DEF AuthenticationGranted
  <2>3. entity' \in [ClientId -> ClientEntity]
    <3>1. [entity[c] EXCEPT !.authenticated = TRUE] \in ClientEntity
      BY <2>0, EntityUpdates
    <3> QED BY <1>7, <3>1 DEF AuthenticationGranted, MapsType
  <2>4. tokens' \subseteq ClientId \X Seconds
    BY <1>7 DEF AuthenticationGranted, MapsType
  <2>2. sent' \subseteq MessageType
    BY <1>7, DeliverOneType DEF AuthenticationGranted, MessageKind
  <2> QED
    BY <1>7, <2>1, <2>2, <2>3, <2>4
    DEF AuthenticationGranted, TypeOK, MapsType, connectionVars, channelVars
<1>8. ASSUME NEW c \in ClientId, Goodbye(c) PROVE TypeOK'
  BY <1>8, RequestType
  DEF Goodbye, TypeOK, MapsType, connectionVars, channelVars
<1>9. ASSUME NEW c \in ClientId,
             \/ EnableVideo(c) \/ DisableVideo(c)
             \/ EnableAudioInput(c) \/ DisableAudioInput(c)
      PROVE  TypeOK'
  <2>1. PICK e \in ClientEntity, kind \in MessageKind : SetMedia(c, e, kind)
    <3>1. entity[c] \in ClientEntity
      BY DEF MapsType
    <3>2. \A v \in BOOLEAN :
            /\ [entity[c] EXCEPT !.videoEnabled = v] \in ClientEntity
            /\ [entity[c] EXCEPT !.audioInputEnabled = v] \in ClientEntity
      BY <3>1 DEF ClientEntity
    <3> QED
      BY <1>9, <3>2 DEF EnableVideo, DisableVideo, EnableAudioInput,
                        DisableAudioInput, MessageKind
  <2> QED BY <2>1, SetMediaType
<1>10. ASSUME NEW c \in ClientId, NEW pw \in Passwords \cup {NoPassword},
              CreateChannel(c, pw)
       PROVE  TypeOK'
  <2>1. MapsType'
    BY <1>10, ChannelMapsType DEF CreateChannel
  <2>2. recipients' \in RecipientsType
    BY <1>10, <2>1, RefreshType DEF CreateChannel
  <2> QED BY <1>10, <2>1, <2>2 DEF CreateChannel, TypeOK, MapsType
<1>11. ASSUME NEW c \in ClientId, NEW t \in JoinTargets,
              NEW pw \in Passwords \cup {NoPassword},
              JoinChannel(c, t[1], t[2], pw)
       PROVE  TypeOK'
  BY <1>11, JoinChannelType
<1>12. ASSUME NEW c \in ClientId,
              \/ AdminAuth(c)
              \/ \E level \in VisibilityLevels : UpdateVisibilityLevel(c, level)
       PROVE  TypeOK'
  <2>0. entity[c] \in ClientEntity
    BY DEF MapsType
  <2>1. entity' \in [ClientId -> ClientEntity]
    <3>1. [entity[c] EXCEPT !.admin = TRUE] \in ClientEntity
      BY <2>0, EntityUpdates
    <3>2. \A level \in VisibilityLevels :
            [entity[c] EXCEPT !.visibilityLevel = level] \in ClientEntity
      BY <2>0, EntityUpdates, SentinelAssumption
    <3> QED
      BY <1>12, <3>1, <3>2 DEF AdminAuth, UpdateVisibilityLevel, MapsType
  <2> QED
    BY <1>12, <2>1 DEF AdminAuth, UpdateVisibilityLevel, TypeOK, MapsType,
                       connectionVars, channelVars
<1>13. ASSUME NEW c \in ClientId, NEW id \in ClientId, NEW ban \in BOOLEAN,
              KickClient(c, id, ban)
       PROVE  TypeOK'
  <2>1. up' \in BOOLEAN /\ doomed' \subseteq sessions
    BY <1>13 DEF KickClient, MapsType
  <2>2. bans' \subseteq Addresses \cup {NullAddress}
    <3>1. entity[id].media[1] \in Addresses \cup {NullAddress}
      BY DEF MapsType, ClientEntity, Endpoint, NoEndpoint
    <3> QED BY <1>13, <3>1 DEF KickClient, MapsType
  <2>3. sent' \subseteq MessageType
    BY <1>13, DeliverOneType DEF KickClient, MessageKind
  <2> QED
    BY <1>13, <2>1, <2>2, <2>3
    DEF KickClient, TypeOK, MapsType, connectionVars, channelVars
<1>14. ASSUME NEW c \in ClientId, NEW s \in ClientId, NEW r \in ClientId,
              \/ AddDirectStreamingRelation(c, s, r)
              \/ RemoveDirectStreamingRelation(c, s, r)
       PROVE  TypeOK'
  <2>0. sender2receiver' \in [ClientId -> SUBSET ClientId]
    BY <1>14 DEF AddDirectStreamingRelation, RemoveDirectStreamingRelation,
                 MapsType
  <2>1. MapsType'
    BY <1>14, <2>0
    DEF AddDirectStreamingRelation, RemoveDirectStreamingRelation,
        MapsType, connectionVars, channelVars
  <2>2. recipients' \in RecipientsType /\ sent' = {}
    BY <1>14, <2>1, RefreshType
    DEF AddDirectStreamingRelation, RemoveDirectStreamingRelation
  <2> QED BY <2>1, <2>2 DEF TypeOK, MapsType
<1>15. ASSUME NEW token \in tokens, NEW e \in Endpoint,
              MediaSocketTokenAuthentication(token, e)
       PROVE  TypeOK'
  <2>1. token[1] \in ClientId /\ entity[token[1]] \in ClientEntity
    BY DEF MapsType
  <2>2. entity' \in [ClientId -> ClientEntity]
    BY <1>15, <2>1, EntityUpdates DEF MediaSocketTokenAuthentication, MapsType
  <2>3. MapsType'
    BY <1>15, <2>2 DEF MediaSocketTokenAuthentication, MapsType,
                       connectionVars, channelVars
  <2>4. recipients' \in RecipientsType
    BY <1>15, <2>3, RefreshType DEF MediaSocketTokenAuthentication
  <2>5. sent' \subseteq MessageType
    BY <1>15, <2>1, DeliverOneType
    DEF MediaSocketTokenAuthentication, MessageKind
  <2> QED BY <2>3, <2>4, <2>5 DEF TypeOK, MapsType
<1>16. ASSUME NEW x \in Readings, MediaSocketNetworkUsageUpdated(x)
       PROVE  TypeOK'
  BY <1>16, SentinelAssumption DEF MediaSocketNetworkUsageUpdated, TypeOK,
     MapsType, connectionVars, channelVars
<1>17. CASE UNCHANGED vars
  BY <1>17 DEF vars, TypeOK, MapsType, connectionVars, channelVars
<1> QED
  BY <1>1, <1>2, <1>3, <1>4, <1>5, <1>6, <1>7, <1>8, <1>9, <1>10, <1>11,
     <1>12, <1>13, <1>14, <1>15, <1>16, <1>17
  DEF Next, PeerDisconnects, DisconnectFromHost, Connected

\* Every reachable state is well-typed, for any number of clients, channels
\* and requests.
THEOREM TypeCorrect == Spec => []TypeOK
<1>1. Init => TypeOK
  BY InitType
<1>2. TypeOK /\ [Next]_vars => TypeOK'
  BY NextType
<1> QED BY <1>1, <1>2, PTL DEF Spec

-----------------------------------------------------------------------------
(* The parts of the inductive invariant *)

\* A client that is not connected has no entity and takes part in no relation.
GoneLeaveNothing ==
  \A c \in ClientId \ sessions :
    /\ entity[c] = NoEntity
    /\ sender2receiver[c] = {}
    /\ \A s \in ClientId : c \notin sender2receiver[s]

\* Nothing refers to an id that was not handed out yet.
FreshIdsUnused ==
  /\ \A c \in ClientId : c > nextClientId => pendingAuth[c] = 0
  /\ \A t \in tokens : t[1] <= nextClientId

\* A token of a live session was issued when it became authenticated.
TokensAuthenticated ==
  \A t \in tokens : t[1] \in sessions => entity[t[1]].authenticated

\* The recipients table names live clients.
RecipientsLive ==
  /\ \A e \in Endpoint : recipients.addr2sender[e] \in sessions \cup {NoClient}
  /\ \A s \in ClientId :
       \A r \in recipients.conference[s] \cup recipients.direct[s] :
         r[1] \in sessions

SafetyInv ==
  /\ TypeOK
  /\ MembershipConsistent
  /\ OnlyAuthenticatedAct
  /\ GoneLeaveNothing
  /\ FreshIdsUnused
  /\ TokensAuthenticated
  /\ RecipientsLive
  /\ RoutingSound
  /\ AdmissionLimit

-----------------------------------------------------------------------------
(* Memberships *)

\* Only joins and the destructor change the channel maps, and only an
\* authenticated session joins.
LEMMA ChannelSteps ==
  ASSUME TypeOK, [Next]_vars
  PROVE  \/ UNCHANGED channelVars
         \/ \E c \in sessions :
              /\ entity[c].authenticated
              /\ UNCHANGED <<connectionVars, entity>>
              /\ \/ \E i, pw : CreateAndJoin(c, i, pw)
                 \/ \E ch \in channels : AddClientToChannel(c, ch)
         \/ \E c \in sessions :
              /\ RemoveClientFromChannels(c)
              /\ sessions' = sessions \ {c}
              /\ entity' = [entity EXCEPT ![c] = NoEntity]
<1>1. ASSUME NEW c \in ClientId, NEW pw, CreateChannel(c, pw)
      PROVE  /\ c \in sessions
             /\ entity[c].authenticated
             /\ UNCHANGED <<connectionVars, entity>>
             /\ \E i, p : CreateAndJoin(c, i, p)
  BY <1>1 DEF CreateChannel, Request, Connected
<1>2. ASSUME NEW c \in ClientId, NEW id, NEW i, NEW pw,
             JoinChannel(c, id, i, pw)
      PROVE  /\ c \in sessions
             /\ entity[c].authenticated
             /\ UNCHANGED <<connectionVars, entity>>
             /\ \/ \E ii, p : CreateAndJoin(c, ii, p)
                \/ \E ch \in channels : AddClientToChannel(c, ch)
  BY <1>2 DEF JoinChannel, Request, Connected
<1>3. ASSUME NEW c \in ClientId, DeleteHandler(c)
      PROVE  /\ c \in sessions
             /\ RemoveClientFromChannels(c)
             /\ sessions' = sessions \ {c}
             /\ entity' = [entity EXCEPT ![c] = NoEntity]
  BY <1>3 DEF DeleteHandler, TypeOK
<1>4. ASSUME NEW c \in ClientId,
             \/ PeerDisconnects(c) \/ DisconnectFromHost(c) \/ Timeout(c)
             \/ \E b \in BOOLEAN : Authentication(c, b)
             \/ AuthenticationRefused(c)
             \/ \E second \in Seconds : AuthenticationGranted(c, second)
             \/ Goodbye(c)
      PROVE  UNCHANGED channelVars
  BY <1>4 DEF PeerDisconnects, DisconnectFromHost, SocketUnconnected, Timeout,
     Authentication, AuthenticationRefused, AuthenticationGranted, Goodbye
<1>5. ASSUME NEW c \in ClientId,
             \/ EnableVideo(c) \/ DisableVideo(c)
             \/ EnableAudioInput(c) \/ DisableAudioInput(c)
             \/ AdminAuth(c)
             \/ \E id \in ClientId, ban \in BOOLEAN : KickClient(c, id, ban)
             \/ \E level \in VisibilityLevels : UpdateVisibilityLevel(c, level)
             \/ \E s, r \in ClientId :
                  \/ AddDirectStreamingRelation(c, s, r)
                  \/ RemoveDirectStreamingRelation(c, s, r)
      PROVE  UNCHANGED channelVars
  BY <1>5 DEF EnableVideo, DisableVideo, EnableAudioInput, DisableAudioInput,
     SetMedia, AdminAuth, KickClient, UpdateVisibilityLevel,
     AddDirectStreamingRelation, RemoveDirectStreamingRelation
<1>6. ASSUME \/ \E a \in Addresses : NewConnection(a)
             \/ \E token \in tokens, e \in Endpoint :
                  MediaSocketTokenAuthentication(token, e)
             \/ \E x \in Readings : MediaSocketNetworkUsageUpdated(x)
             \/ UNCHANGED vars
      PROVE  UNCHANGED channelVars
  BY <1>6 DEF NewConnection, MediaSocketTokenAuthentication,
     MediaSocketNetworkUsageUpdated, vars
<1> QED BY <1>1, <1>2, <1>3, <1>4, <1>5, <1>6 DEF Next

LEMMA MembershipStep ==
  ASSUME TypeOK, MembershipConsistent, [Next]_vars
  PROVE  MembershipConsistent'
<1>0. MapsType /\ sessions \subseteq ClientId
  BY TypeOKSplits, SessionIds
<1>1. CASE UNCHANGED channelVars
  BY <1>1 DEF channelVars, MembershipConsistent
<1>2. ASSUME NEW c \in ClientId, NEW i, NEW pw, CreateAndJoin(c, i, pw)
      PROVE  MembershipConsistent'
  <2> DEFINE id == NewChannelId
  <2>1. id \in ChannelId /\ id \notin channels
    BY <1>0, <1>2, BoundsAssumption
    DEF CreateAndJoin, NewChannelId, MapsType, ChannelId
  <2>2. participants[id] = {} /\ \A x \in ClientId : id \notin client2channels[x]
    BY <2>1 DEF MembershipConsistent
  <2> QED BY <1>0, <1>2, <2>1, <2>2
          DEF CreateAndJoin, IdentsWith, MapsType, MembershipConsistent,
              NoChannel, ChannelId
<1>3. ASSUME NEW c \in ClientId, NEW ch \in channels, AddClientToChannel(c, ch)
      PROVE  MembershipConsistent'
  BY <1>0, <1>3 DEF AddClientToChannel, MapsType, MembershipConsistent
<1>4. ASSUME NEW c \in ClientId, RemoveClientFromChannels(c)
      PROVE  MembershipConsistent'
  <2>1. \A x \in ClientId, ch \in ChannelId :
          (x \in participants[ch] <=> ch \in client2channels[x])'
    BY <1>0, <1>4 DEF RemoveClientFromChannels, MapsType, MembershipConsistent
  <2>2. \A ch \in ChannelId : (ch \in channels <=> participants[ch] # {})'
    BY <1>0, <1>4
    DEF RemoveClientFromChannels, Emptied, MapsType, MembershipConsistent
  <2>3. \A i \in Idents : ident2channel'[i] # NoChannel =>
          /\ ident2channel'[i] \in channels'
          /\ channel'[ident2channel'[i]].ident = i
    BY <1>0, <1>4
    DEF RemoveClientFromChannels, Emptied, MapsType, MembershipConsistent
  <2> QED BY <2>1, <2>2, <2>3 DEF MembershipConsistent
<1> QED BY <1>0, <1>1, <1>2, <1>3, <1>4, ChannelSteps

-----------------------------------------------------------------------------
(* Authorization, and what deleted and future clients leave in the maps *)

IdentityInv ==
  /\ OnlyAuthenticatedAct
  /\ GoneLeaveNothing
  /\ FreshIdsUnused
  /\ TokensAuthenticated

\* Steps that change none of the maps IdentityInv speaks about, or only take
\* checks and tokens away.
LEMMA IdentityFrame ==
  ASSUME IdentityInv, UNCHANGED <<sessions, nextClientId, entity,
           client2channels, sender2receiver>>,
         tokens' \subseteq tokens,
         \A c \in ClientId : pendingAuth[c] = 0 => pendingAuth'[c] = 0
  PROVE  IdentityInv'
BY DEF IdentityInv, OnlyAuthenticatedAct, GoneLeaveNothing, FreshIdsUnused,
       TokensAuthenticated

\* A session that is authenticated may change its media flags, rights and
\* channels.
LEMMA IdentityOfAuthenticated ==
  ASSUME TypeOK, IdentityInv, NEW c \in sessions, entity[c].authenticated,
         NEW e, entity' = [entity EXCEPT ![c] = e], e.authenticated,
         UNCHANGED <<sessions, nextClientId, pendingAuth, tokens,
                     sender2receiver>>,
         \A x \in ClientId \ {c} : client2channels'[x] = client2channels[x]
  PROVE  IdentityInv'
<1>1. c \in ClientId /\ entity \in [ClientId -> ClientEntity]
  BY TypeOKSplits, SessionIds DEF TypeOK
<1>2. OnlyAuthenticatedAct'
  BY <1>1 DEF IdentityInv, OnlyAuthenticatedAct
<1>3. GoneLeaveNothing' /\ TokensAuthenticated'
  BY <1>1 DEF IdentityInv, GoneLeaveNothing, TokensAuthenticated, TypeOK
<1>4. FreshIdsUnused'
  BY DEF IdentityInv, FreshIdsUnused
<1> QED BY <1>2, <1>3, <1>4 DEF IdentityInv

LEMMA IdentityOfNewConnection ==
  ASSUME TypeOK, IdentityInv, NEW a \in Addresses, NewConnection(a)
  PROVE  IdentityInv'
<1> DEFINE n == nextClientId + 1
<1>1. /\ n \in ClientId /\ nextClientId \in Nat /\ n \notin sessions
      /\ nextClientId < MaxClientId /\ nextClientId' = n
  BY BoundsAssumption DEF NewConnection, TypeOK, ClientId
<1>2. /\ \A c \in ClientId \ {n} : entity'[c] = entity[c]
      /\ entity'[n] = NewClientEntity(a)
      /\ sessions' = sessions \cup {n}
  BY <1>1 DEF NewConnection, TypeOK
<1>3. entity[n] = NoEntity
  BY <1>1 DEF IdentityInv, GoneLeaveNothing
<1>4. OnlyAuthenticatedAct'
  <2>1. client2channels[n] = {}
    BY <1>1, <1>3
    DEF IdentityInv, OnlyAuthenticatedAct, NoEntity, NewClientEntity
  <2>2. UNCHANGED client2channels
    BY DEF NewConnection, channelVars
  <2> QED BY <1>2, <2>1, <2>2
          DEF IdentityInv, OnlyAuthenticatedAct, NewClientEntity
<1>5. GoneLeaveNothing'
  BY <1>2 DEF NewConnection, IdentityInv, GoneLeaveNothing
<1>6. FreshIdsUnused'
  <2>1. \A c \in ClientId : c > n => c > nextClientId
    BY <1>1 DEF ClientId
  <2>2. \A t \in tokens : t[1] <= n
    <3>1. \A t \in tokens : t[1] \in Nat /\ t[1] <= nextClientId
      BY DEF IdentityInv, FreshIdsUnused, TypeOK, ClientId
    <3> QED BY <1>1, <3>1
  <2> QED BY <1>1, <2>1, <2>2 DEF NewConnection, IdentityInv, FreshIdsUnused
<1>7. TokensAuthenticated'
  <2>1. \A t \in tokens : t[1] \in ClientId \ {n}
    BY <1>1 DEF IdentityInv, FreshIdsUnused, TypeOK, ClientId
  <2> QED BY <1>2, <2>1 DEF NewConnection, IdentityInv, TokensAuthenticated
<1> QED BY <1>4, <1>5, <1>6, <1>7 DEF IdentityInv

LEMMA IdentityOfDeleteHandler ==
  ASSUME TypeOK, IdentityInv, NEW c \in ClientId, DeleteHandler(c)
  PROVE  IdentityInv'
<1>1. /\ entity' = [entity EXCEPT ![c] = NoEntity]
      /\ sessions' = sessions \ {c}
      /\ client2channels' = [client2channels EXCEPT ![c] = {}]
      /\ sender2receiver' = RelationsWithout(c)
      /\ UNCHANGED <<nextClientId, pendingAuth, tokens>>
  BY DEF DeleteHandler, RemoveClientFromChannels
<1>2. OnlyAuthenticatedAct'
  BY <1>1 DEF IdentityInv, OnlyAuthenticatedAct, NoEntity, NewClientEntity,
              TypeOK
<1>3. GoneLeaveNothing'
  BY <1>1 DEF IdentityInv, GoneLeaveNothing, RelationsWithout, TypeOK
<1>4. FreshIdsUnused' /\ TokensAuthenticated'
  BY <1>1 DEF IdentityInv, FreshIdsUnused, TokensAuthenticated, TypeOK
<1> QED BY <1>2, <1>3, <1>4 DEF IdentityInv

LEMMA IdentityOfGranted ==
  ASSUME TypeOK, IdentityInv, NEW c \in ClientId, NEW second \in Seconds,
         AuthenticationGranted(c, second)
  PROVE  IdentityInv'
<1>1. /\ UNCHANGED <<sessions, nextClientId, client2channels, sender2receiver>>
      /\ pendingAuth[c] > 0
      /\ pendingAuth' = [pendingAuth EXCEPT ![c] = @ - 1]
  BY DEF AuthenticationGranted, connectionVars, channelVars
<1>2. \A x \in ClientId : pendingAuth[x] = 0 => pendingAuth'[x] = 0
  BY <1>1 DEF TypeOK
<1>3. CASE c \notin sessions
  BY <1>1, <1>2, <1>3, IdentityFrame DEF AuthenticationGranted
<1>4. CASE c \in sessions
  <2>1. /\ entity' = [entity EXCEPT ![c].authenticated = TRUE]
        /\ tokens' = tokens \cup {<<c, second>>}
    BY <1>4 DEF AuthenticationGranted
  <2>2. /\ \A x \in ClientId \ {c} : entity'[x] = entity[x]
        /\ entity'[c].authenticated
    BY <2>1 DEF TypeOK, ClientEntity
  <2>3. OnlyAuthenticatedAct'
    BY <1>1, <2>2 DEF IdentityInv, OnlyAuthenticatedAct
  <2>4. GoneLeaveNothing'
    BY <1>1, <1>4, <2>2 DEF IdentityInv, GoneLeaveNothing
  <2>5. FreshIdsUnused'
    <3>1. c <= nextClientId
      BY <1>4, BoundsAssumption DEF TypeOK
    <3> QED BY <1>1, <1>2, <2>1, <3>1 DEF IdentityInv, FreshIdsUnused
  <2>6. TokensAuthenticated'
    <3>1. \A t \in tokens : t[1] \in ClientId
      BY DEF TypeOK
    <3> QED BY <1>1, <2>1, <2>2, <3>1 DEF IdentityInv, TokensAuthenticated
  <2> QED BY <2>3, <2>4, <2>5, <2>6 DEF IdentityInv
<1> QED BY <1>3, <1>4

LEMMA IdentityStep ==
  ASSUME TypeOK, IdentityInv, [Next]_vars PROVE IdentityInv'
<1>0. /\ entity \in [ClientId -> ClientEntity]
      /\ sessions \subseteq ClientId
      /\ client2channels \in [ClientId -> SUBSET ChannelId]
  BY TypeOKSplits, SessionIds DEF TypeOK
<1>1. ASSUME NEW a \in Addresses, NewConnection(a) PROVE IdentityInv'
  BY <1>1, IdentityOfNewConnection
<1>2. ASSUME NEW c \in ClientId,
             PeerDisconnects(c) \/ DisconnectFromHost(c) \/ Timeout(c)
             \/ Goodbye(c)
             \/ \E id \in ClientId, ban \in BOOLEAN : KickClient(c, id, ban)
      PROVE  IdentityInv'
  BY <1>2, IdentityFrame DEF PeerDisconnects, DisconnectFromHost,
     SocketUnconnected, Timeout, Goodbye, KickClient, connectionVars,
     channelVars
<1>3. ASSUME NEW c \in ClientId, DeleteHandler(c) PROVE IdentityInv'
  BY <1>3, IdentityOfDeleteHandler
<1>4. ASSUME NEW c \in ClientId, NEW b \in BOOLEAN, Authentication(c, b)
      PROVE  IdentityInv'
  <2>1. /\ c \in sessions
        /\ UNCHANGED <<sessions, nextClientId, entity, client2channels,
                       sender2receiver, tokens>>
        /\ \A x \in ClientId : x # c => pendingAuth'[x] = pendingAuth[x]
    BY <1>4
    DEF Authentication, Request, Connected, connectionVars, channelVars, TypeOK
  <2>2. c <= nextClientId
    BY <2>1, BoundsAssumption DEF TypeOK
  <2>3. FreshIdsUnused'
    BY <2>1, <2>2, <1>0 DEF IdentityInv, FreshIdsUnused, TypeOK, ClientId
  <2> QED BY <2>1, <2>3 DEF IdentityInv, OnlyAuthenticatedAct,
             GoneLeaveNothing, TokensAuthenticated
<1>5. ASSUME NEW c \in ClientId, AuthenticationRefused(c) PROVE IdentityInv'
  <2>1. \A x \in ClientId : pendingAuth[x] = 0 => pendingAuth'[x] = 0
    BY <1>5 DEF AuthenticationRefused, TypeOK
  <2> QED BY <1>5, <2>1, IdentityFrame
          DEF AuthenticationRefused, connectionVars, channelVars
<1>6. ASSUME NEW c \in ClientId, NEW second \in Seconds,
             AuthenticationGranted(c, second)
      PROVE  IdentityInv'
  BY <1>6, IdentityOfGranted
<1>7. ASSUME NEW c \in ClientId,
             \/ EnableVideo(c) \/ DisableVideo(c)
             \/ EnableAudioInput(c) \/ DisableAudioInput(c)
             \/ AdminAuth(c)
             \/ \E level \in VisibilityLevels : UpdateVisibilityLevel(c, level)
      PROVE  IdentityInv'
  <2>1. c \in sessions /\ entity[c].authenticated
    BY <1>7 DEF EnableVideo, DisableVideo, EnableAudioInput, DisableAudioInput,
       AdminAuth, UpdateVisibilityLevel, Request, Connected
  <2>2. UNCHANGED <<sessions, nextClientId, pendingAuth, tokens,
                    sender2receiver, client2channels>>
    BY <1>7 DEF EnableVideo, DisableVideo, EnableAudioInput, DisableAudioInput,
       SetMedia, AdminAuth, UpdateVisibilityLevel, connectionVars, channelVars
  <2>3. \E e : entity' = [entity EXCEPT ![c] = e] /\ e.authenticated
    <3>1. entity[c] \in ClientEntity
      BY <1>0
    <3>2. /\ \A b : [entity[c] EXCEPT !.videoEnabled = b].authenticated
          /\ \A b : [entity[c] EXCEPT !.audioInputEnabled = b].authenticated
          /\ \A b : [entity[c] EXCEPT !.admin = b].authenticated
          /\ \A n : [entity[c] EXCEPT !.visibilityLevel = n].authenticated
      BY <2>1, <3>1 DEF ClientEntity
    <3>3. CASE EnableVideo(c) \/ DisableVideo(c)
      <4>1. PICK b \in BOOLEAN :
              entity' = [entity EXCEPT ![c] =
                           [entity[c] EXCEPT !.videoEnabled = b]]
        BY <3>3 DEF EnableVideo, DisableVideo, SetMedia
      <4> QED BY <3>2, <4>1
    <3>4. CASE EnableAudioInput(c) \/ DisableAudioInput(c)
      <4>1. PICK b \in BOOLEAN :
              entity' = [entity EXCEPT ![c] =
                           [entity[c] EXCEPT !.audioInputEnabled = b]]
        BY <3>4 DEF EnableAudioInput, DisableAudioInput, SetMedia
      <4> QED BY <3>2, <4>1
    <3>5. CASE AdminAuth(c)
      <4>1. entity' = [entity EXCEPT ![c] = [entity[c] EXCEPT !.admin = TRUE]]
        BY <1>0, <3>5 DEF AdminAuth
      <4> QED BY <3>2, <4>1
    <3>6. CASE \E level \in VisibilityLevels : UpdateVisibilityLevel(c, level)
      <4>1. PICK level \in VisibilityLevels :
              entity' = [entity EXCEPT ![c] =
                           [entity[c] EXCEPT !.visibilityLevel = level]]
        BY <1>0, <3>6 DEF UpdateVisibilityLevel
      <4> QED BY <3>2, <4>1
    <3> QED BY <1>7, <3>3, <3>4, <3>5, <3>6
  <2> QED BY <2>1, <2>2, <2>3, IdentityOfAuthenticated
<1>8. ASSUME NEW c \in ClientId,
             \/ \E pw \in Passwords \cup {NoPassword} : CreateChannel(c, pw)
             \/ \E t \in JoinTargets, pw \in Passwords \cup {NoPassword} :
                  JoinChannel(c, t[1], t[2], pw)
      PROVE  IdentityInv'
  <2>1. c \in sessions /\ entity[c].authenticated
    BY <1>8 DEF CreateChannel, JoinChannel, Request, Connected
  <2>2. UNCHANGED <<sessions, nextClientId, pendingAuth, tokens, entity,
                    sender2receiver>>
    BY <1>8 DEF CreateChannel, JoinChannel, connectionVars
  <2>3. \A x \in ClientId \ {c} : client2channels'[x] = client2channels[x]
    BY <1>0, <1>8
    DEF CreateChannel, JoinChannel, CreateAndJoin, AddClientToChannel
  <2>4. entity' = [entity EXCEPT ![c] = entity[c]]
    BY <1>0, <2>2
  <2> QED BY <2>1, <2>2, <2>3, <2>4, IdentityOfAuthenticated
<1>9. ASSUME NEW c \in ClientId, NEW s \in ClientId, NEW r \in ClientId,
             \/ AddDirectStreamingRelation(c, s, r)
             \/ RemoveDirectStreamingRelation(c, s, r)
      PROVE  IdentityInv'
  <2>1. UNCHANGED <<sessions, nextClientId, entity, client2channels,
                    pendingAuth, tokens>>
    BY <1>9 DEF AddDirectStreamingRelation, RemoveDirectStreamingRelation,
                connectionVars, channelVars
  <2>2. GoneLeaveNothing'
    BY <1>9, <2>1
    DEF AddDirectStreamingRelation, RemoveDirectStreamingRelation,
        IdentityInv, GoneLeaveNothing, TypeOK
  <2> QED BY <2>1, <2>2 DEF IdentityInv, OnlyAuthenticatedAct, FreshIdsUnused,
             TokensAuthenticated
<1>10. ASSUME NEW token \in tokens, NEW e \in Endpoint,
              MediaSocketTokenAuthentication(token, e)
       PROVE  IdentityInv'
  <2>1. /\ UNCHANGED <<sessions, nextClientId, client2channels,
                       sender2receiver, pendingAuth>>
        /\ tokens' \subseteq tokens
    BY <1>10
    DEF MediaSocketTokenAuthentication, connectionVars, channelVars
  <2>2. CASE token[1] \notin sessions
    BY <1>10, <2>1, <2>2, IdentityFrame DEF MediaSocketTokenAuthentication
  <2>3. CASE token[1] \in sessions
    <3> DEFINE x == [entity[token[1]] EXCEPT !.media = e]
    <3>1. entity[token[1]] \in ClientEntity /\ entity[token[1]].authenticated
      BY <1>0, <2>3 DEF IdentityInv, TokensAuthenticated
    <3>2. entity' = [entity EXCEPT ![token[1]] = x]
      BY <1>0, <1>10, <2>3 DEF MediaSocketTokenAuthentication
    <3>3. x.authenticated
      BY <3>1 DEF ClientEntity
    <3>4. OnlyAuthenticatedAct' /\ GoneLeaveNothing' /\ TokensAuthenticated'
      BY <1>0, <2>1, <2>3, <3>1, <3>2, <3>3
      DEF IdentityInv, OnlyAuthenticatedAct, GoneLeaveNothing,
          TokensAuthenticated
    <3> QED BY <2>1, <3>4 DEF IdentityInv, FreshIdsUnused
  <2> QED BY <2>2, <2>3
<1>11. CASE (\E x \in Readings : MediaSocketNetworkUsageUpdated(x))
              \/ UNCHANGED vars
  BY <1>11, IdentityFrame DEF MediaSocketNetworkUsageUpdated, vars,
     connectionVars, channelVars
<1> QED
  BY <1>1, <1>2, <1>3, <1>4, <1>5, <1>6, <1>7, <1>8, <1>9, <1>10, <1>11
  DEF Next

-----------------------------------------------------------------------------
(* Routing *)

\* A table computed from the maps is sound and names only live clients.
LEMMA CurrentIsSound ==
  MapsType /\ GoneLeaveNothing /\ recipients \in MediaRecipients =>
    RecipientsLive /\ RoutingSound
<1> SUFFICES ASSUME MapsType, GoneLeaveNothing, recipients \in MediaRecipients
             PROVE  RecipientsLive /\ RoutingSound
  OBVIOUS
<1>1. PICK at \in SenderTables :
        recipients =
          [addr2sender |-> at,
           conference |-> [c \in ClientId |->
              IF Streams(c) THEN ConferenceReceivers(c) ELSE {}],
           direct |-> [c \in ClientId |->
              IF Streams(c) THEN DirectReceivers(c) ELSE {}],
           clientid2receiver |-> [c \in ClientId |->
              IF Streams(c) THEN entity[c].media ELSE NoEndpoint]]
  BY DEF MediaRecipients
<1>2. ASSUME NEW e \in Endpoint, at[e] # NoClient
      PROVE  at[e] \in ClientId /\ Streams(at[e]) /\ entity[at[e]].media = e
  BY <1>1, <1>2 DEF SenderTables
<1>3. \A s \in ClientId : \A r \in recipients.conference[s] :
        /\ r[1] \in SiblingClientIds(s) \ {s}
        /\ r[1] \in sessions
        /\ entity[r[1]].media = r[2]
  BY <1>1 DEF ConferenceReceivers, ReceiverEntities, HasMedia,
     VisibleSiblingClientIds
<1>4. \A s \in ClientId : \A r \in recipients.direct[s] :
        /\ r[1] \in sender2receiver[s] \ {s}
        /\ r[1] \in sessions
        /\ entity[r[1]].media = r[2]
  BY <1>1 DEF DirectReceivers, ReceiverEntities, HasMedia
<1>5. RecipientsLive
  BY <1>1, <1>2, <1>3, <1>4 DEF RecipientsLive, Streams, HasMedia
<1>6. RoutingSound
  BY <1>1, <1>2, <1>3, <1>4 DEF RoutingSound
<1> QED BY <1>5, <1>6

\* Steps that keep the table and everything it was computed from, as far as
\* live clients are concerned.
LEMMA RoutingFrame ==
  ASSUME TypeOK, RecipientsLive, RoutingSound,
         UNCHANGED <<recipients, participants, client2channels,
                     sender2receiver>>,
         sessions \subseteq sessions',
         \A c \in sessions :
           /\ entity'[c].media = entity[c].media
           /\ entity'[c].videoEnabled = entity[c].videoEnabled
           /\ entity'[c].audioInputEnabled = entity[c].audioInputEnabled
  PROVE  RecipientsLive' /\ RoutingSound'
<1>0. sessions \subseteq ClientId
  BY TypeOKSplits, SessionIds
<1>1. RecipientsLive'
  BY DEF RecipientsLive
<1>2. ASSUME NEW e \in Endpoint, NEW s, s = recipients.addr2sender[e],
             s # NoClient
      PROVE  /\ Streams(s)' /\ entity'[s].media = e
             /\ \A r \in recipients.conference[s] :
                  /\ r[1] \in (SiblingClientIds(s) \ {s})'
                  /\ entity'[r[1]].media = r[2]
             /\ \A r \in recipients.direct[s] :
                  /\ r[1] \in sender2receiver[s] \ {s}
                  /\ entity'[r[1]].media = r[2]
  <2>1. s \in sessions
    BY <1>2 DEF RecipientsLive
  <2>2. /\ Streams(s) /\ entity[s].media = e
        /\ \A r \in recipients.conference[s] :
             r[1] \in SiblingClientIds(s) \ {s} /\ entity[r[1]].media = r[2]
        /\ \A r \in recipients.direct[s] :
             r[1] \in sender2receiver[s] \ {s} /\ entity[r[1]].media = r[2]
    BY <1>2 DEF RoutingSound
  <2>3. Streams(s)' /\ entity'[s].media = e
    BY <2>1, <2>2 DEF Streams, HasMedia
  <2>4. \A r \in recipients.conference[s] \cup recipients.direct[s] :
          r[1] \in sessions
    BY <1>0, <2>1 DEF RecipientsLive
  <2> QED BY <2>2, <2>3, <2>4 DEF SiblingClientIds
<1>3. RoutingSound'
  BY <1>2 DEF RoutingSound
<1> QED BY <1>1, <1>3

\* Every handler that changes what the table depends on refreshes it.
LEMMA RoutingStep ==
  ASSUME TypeOK, TypeOK', GoneLeaveNothing', RecipientsLive, RoutingSound,
         [Next]_vars
  PROVE  RecipientsLive' /\ RoutingSound'
<1>0. /\ entity \in [ClientId -> ClientEntity]
      /\ sessions \subseteq 1..nextClientId
      /\ sessions \subseteq ClientId
      /\ nextClientId \in Nat
  BY TypeOKSplits, SessionIds DEF TypeOK
<1>1. ASSUME UpdateMediaRecipients PROVE RecipientsLive' /\ RoutingSound'
  <2>1. (MapsType /\ GoneLeaveNothing /\ recipients \in MediaRecipients =>
           RecipientsLive /\ RoutingSound)'
    BY CurrentIsSound, PTL
  <2>2. MapsType'
    BY DEF TypeOK, MapsType
  <2> QED BY <1>1, <2>1, <2>2 DEF UpdateMediaRecipients
<1>2. ASSUME NEW a \in Addresses, NewConnection(a)
      PROVE  RecipientsLive' /\ RoutingSound'
  <2>1. nextClientId + 1 \notin sessions
    BY <1>0
  <2> QED BY <1>0, <1>2, <2>1, RoutingFrame DEF NewConnection, channelVars
<1>3. ASSUME NEW c \in ClientId,
             \/ PeerDisconnects(c) \/ DisconnectFromHost(c) \/ Timeout(c)
             \/ \E b \in BOOLEAN : Authentication(c, b)
             \/ AuthenticationRefused(c) \/ Goodbye(c)
             \/ \E id \in ClientId, ban \in BOOLEAN : KickClient(c, id, ban)
      PROVE  RecipientsLive' /\ RoutingSound'
  BY <1>3, RoutingFrame DEF PeerDisconnects, DisconnectFromHost,
     SocketUnconnected, Timeout, Authentication, AuthenticationRefused,
     Goodbye, KickClient, connectionVars, channelVars
<1>4. ASSUME NEW c \in ClientId,
             \/ \E second \in Seconds : AuthenticationGranted(c, second)
             \/ AdminAuth(c)
             \/ \E level \in VisibilityLevels : UpdateVisibilityLevel(c, level)
      PROVE  RecipientsLive' /\ RoutingSound'
  <2>1. UNCHANGED <<recipients, participants, client2channels,
                    sender2receiver, sessions>>
    BY <1>4 DEF AuthenticationGranted, AdminAuth, UpdateVisibilityLevel,
       connectionVars, channelVars
  <2>2. ASSUME NEW x \in sessions
        PROVE  /\ entity'[x].media = entity[x].media
               /\ entity'[x].videoEnabled = entity[x].videoEnabled
               /\ entity'[x].audioInputEnabled = entity[x].audioInputEnabled
    <3>1. entity[x] \in ClientEntity /\ entity[c] \in ClientEntity
      BY <1>0
    <3>2. CASE \E second \in Seconds : AuthenticationGranted(c, second)
      BY <1>0, <3>1, <3>2 DEF AuthenticationGranted, ClientEntity
    <3>3. CASE AdminAuth(c)
      BY <1>0, <3>1, <3>3 DEF AdminAuth, ClientEntity
    <3>4. CASE \E level \in VisibilityLevels : UpdateVisibilityLevel(c, level)
      BY <1>0, <3>1, <3>4 DEF UpdateVisibilityLevel, ClientEntity
    <3> QED BY <1>4, <3>2, <3>3, <3>4
  <2> QED BY <2>1, <2>2, RoutingFrame
<1>5. ASSUME NEW c \in ClientId,
             \/ DeleteHandler(c)
             \/ EnableVideo(c) \/ DisableVideo(c)
             \/ EnableAudioInput(c) \/ DisableAudioInput(c)
             \/ \E pw \in Passwords \cup {NoPassword} : CreateChannel(c, pw)
             \/ \E t \in JoinTargets, pw \in Passwords \cup {NoPassword} :
                  JoinChannel(c, t[1], t[2], pw)
             \/ \E s, r \in ClientId :
                  \/ AddDirectStreamingRelation(c, s, r)
                  \/ RemoveDirectStreamingRelation(c, s, r)
      PROVE  UpdateMediaRecipients
  BY <1>5 DEF DeleteHandler, EnableVideo, DisableVideo, EnableAudioInput,
     DisableAudioInput, SetMedia, CreateChannel, JoinChannel,
     AddDirectStreamingRelation, RemoveDirectStreamingRelation
<1>6. ASSUME NEW token \in tokens, NEW e \in Endpoint,
             MediaSocketTokenAuthentication(token, e)
      PROVE  RecipientsLive' /\ RoutingSound'
  <2>1. CASE UpdateMediaRecipients
    BY <1>1, <2>1
  <2>2. CASE UNCHANGED <<entity, channelVars, sender2receiver,
                         connectionVars, recipients>>
    BY <2>2, RoutingFrame DEF channelVars, connectionVars
  <2> QED BY <1>6, <2>1, <2>2 DEF MediaSocketTokenAuthentication
<1>7. CASE (\E x \in Readings : MediaSocketNetworkUsageUpdated(x))
             \/ UNCHANGED vars
  BY <1>7, RoutingFrame
  DEF MediaSocketNetworkUsageUpdated, vars, channelVars, connectionVars
<1> QED
  BY <1>1, <1>2, <1>3, <1>4, <1>5, <1>6, <1>7 DEF Next

-----------------------------------------------------------------------------
(* Admission *)

LEMMA FiniteSessions ==
  ASSUME TypeOK PROVE IsFiniteSet(sessions)
<1>1. nextClientId \in Nat /\ sessions \subseteq 1..nextClientId
  BY BoundsAssumption DEF TypeOK
<1>2. IsFiniteSet(1..nextClientId)
  BY <1>1, FS_Interval
<1> QED BY <1>1, <1>2, FS_Subset

\* A step that lets nobody new through keeps the limit.
LEMMA AdmissionFrame ==
  ASSUME TypeOK, AdmissionLimit, Admitted' \subseteq Admitted
  PROVE  AdmissionLimit'
<1>1. IsFiniteSet(Admitted)
  BY FiniteSessions, FS_Subset DEF Admitted
<1>2. /\ Cardinality(Admitted') \in Nat /\ Cardinality(Admitted) \in Nat
      /\ Cardinality(Admitted') <= Cardinality(Admitted)
  BY <1>1, FS_Subset, FS_CardinalityType
<1> QED BY <1>2, BoundsAssumption DEF AdmissionLimit

LEMMA AdmissionStep ==
  ASSUME TypeOK, IdentityInv, AdmissionLimit, [Next]_vars
  PROVE  AdmissionLimit'
<1>0. /\ entity \in [ClientId -> ClientEntity]
      /\ pendingAuth \in [ClientId -> Nat]
      /\ sessions \subseteq 1..nextClientId
      /\ sessions \subseteq ClientId
      /\ nextClientId \in Nat
  BY TypeOKSplits, SessionIds DEF TypeOK
<1>1. ASSUME NEW a \in Addresses, NewConnection(a) PROVE AdmissionLimit'
  <2>1. nextClientId + 1 \in ClientId /\ pendingAuth[nextClientId + 1] = 0
    BY <1>0, <1>1, BoundsAssumption
    DEF NewConnection, ClientId, IdentityInv, FreshIdsUnused
  <2>2. ~entity'[nextClientId + 1].authenticated
    BY <1>0, <1>1, <2>1 DEF NewConnection, NewClientEntity
  <2>3. \A c \in sessions : entity'[c] = entity[c]
    BY <1>0, <1>1 DEF NewConnection
  <2>4. Admitted' \subseteq Admitted
    BY <1>1, <2>1, <2>2, <2>3 DEF NewConnection, Admitted
  <2> QED BY <2>4, AdmissionFrame
<1>2. ASSUME NEW c \in ClientId, NEW b \in BOOLEAN, Authentication(c, b)
      PROVE  AdmissionLimit'
  <2>1. CASE UNCHANGED pendingAuth
    <3>1. Admitted' \subseteq Admitted
      BY <1>2, <2>1 DEF Authentication, Admitted, connectionVars
    <3> QED BY <3>1, AdmissionFrame
  <2>2. CASE BelowLimit
    <3>1. Admitted' \subseteq sessions
      BY <1>2 DEF Authentication, Admitted, connectionVars
    <3>2. /\ Cardinality(Admitted') <= Cardinality(sessions)
          /\ Cardinality(sessions) <= ConnectionLimit
          /\ Cardinality(Admitted') \in Nat /\ Cardinality(sessions) \in Nat
      BY <2>2, <3>1, FiniteSessions, FS_Subset, FS_CardinalityType
      DEF BelowLimit
    <3> QED BY <3>2, BoundsAssumption DEF AdmissionLimit
  <2> QED BY <1>2, <2>1, <2>2 DEF Authentication
<1>3. ASSUME NEW c \in ClientId, DeleteHandler(c) PROVE AdmissionLimit'
  <2>1. Admitted' \subseteq Admitted
    BY <1>0, <1>3 DEF DeleteHandler, Admitted
  <2> QED BY <2>1, AdmissionFrame
<1>4. ASSUME NEW c \in ClientId, AuthenticationRefused(c) PROVE AdmissionLimit'
  <2>1. \A x \in ClientId : pendingAuth'[x] > 0 => pendingAuth[x] > 0
    BY <1>0, <1>4 DEF AuthenticationRefused
  <2>2. Admitted' \subseteq Admitted
    BY <1>0, <1>4, <2>1 DEF AuthenticationRefused, Admitted, connectionVars
  <2> QED BY <2>2, AdmissionFrame
<1>5. ASSUME NEW c \in ClientId, NEW second \in Seconds,
             AuthenticationGranted(c, second)
      PROVE  AdmissionLimit'
  <2>1. /\ pendingAuth[c] > 0
        /\ \A x \in ClientId : pendingAuth'[x] > 0 => pendingAuth[x] > 0
    BY <1>0, <1>5 DEF AuthenticationGranted
  <2>2. \A x \in ClientId \ {c} : entity'[x] = entity[x]
    BY <1>0, <1>5 DEF AuthenticationGranted
  <2>3. Admitted' \subseteq Admitted
    BY <1>0, <1>5, <2>1, <2>2
    DEF AuthenticationGranted, Admitted, connectionVars
  <2> QED BY <2>3, AdmissionFrame
<1>6. ASSUME UNCHANGED <<sessions, pendingAuth>>,
             \A x \in sessions :
               entity'[x].authenticated = entity[x].authenticated
      PROVE  AdmissionLimit'
  <2>1. Admitted' \subseteq Admitted
    BY <1>6 DEF Admitted
  <2> QED BY <2>1, AdmissionFrame
<1>7. ASSUME NEW c \in ClientId,
             \/ PeerDisconnects(c) \/ DisconnectFromHost(c) \/ Timeout(c)
             \/ Goodbye(c)
             \/ \E pw \in Passwords \cup {NoPassword} : CreateChannel(c, pw)
             \/ \E t \in JoinTargets, pw \in Passwords \cup {NoPassword} :
                  JoinChannel(c, t[1], t[2], pw)
             \/ \E id \in ClientId, ban \in BOOLEAN : KickClient(c, id, ban)
             \/ \E s, r \in ClientId :
                  \/ AddDirectStreamingRelation(c, s, r)
                  \/ RemoveDirectStreamingRelation(c, s, r)
      PROVE  AdmissionLimit'
  <2>1. UNCHANGED <<sessions, pendingAuth, entity>>
    BY <1>7 DEF PeerDisconnects, DisconnectFromHost, SocketUnconnected,
       Timeout, Goodbye, CreateChannel, JoinChannel, KickClient,
       AddDirectStreamingRelation, RemoveDirectStreamingRelation,
       connectionVars
  <2> QED BY <2>1, <1>6
<1>8. ASSUME NEW c \in ClientId,
             \/ EnableVideo(c) \/ DisableVideo(c)
             \/ EnableAudioInput(c) \/ DisableAudioInput(c)
             \/ AdminAuth(c)
             \/ \E level \in VisibilityLevels : UpdateVisibilityLevel(c, level)
      PROVE  AdmissionLimit'
  <2>1. UNCHANGED <<sessions, pendingAuth>>
    BY <1>8 DEF EnableVideo, DisableVideo, EnableAudioInput, DisableAudioInput,
       SetMedia, AdminAuth, UpdateVisibilityLevel, connectionVars
  <2>2. entity[c] \in ClientEntity
    BY <1>0
  <2>3. \A x \in sessions : entity'[x].authenticated = entity[x].authenticated
    <3>1. CASE EnableVideo(c) \/ DisableVideo(c)
      BY <1>0, <2>2, <3>1 DEF EnableVideo, DisableVideo, SetMedia, ClientEntity
    <3>2. CASE EnableAudioInput(c) \/ DisableAudioInput(c)
      BY <1>0, <2>2, <3>2
      DEF EnableAudioInput, DisableAudioInput, SetMedia, ClientEntity
    <3>3. CASE AdminAuth(c)
      BY <1>0, <2>2, <3>3 DEF AdminAuth, ClientEntity
    <3>4. CASE \E level \in VisibilityLevels : UpdateVisibilityLevel(c, level)
      BY <1>0, <2>2, <3>4 DEF UpdateVisibilityLevel, ClientEntity
    <3> QED BY <1>8, <3>1, <3>2, <3>3, <3>4
  <2> QED BY <2>1, <2>3, <1>6
<1>9. ASSUME NEW token \in tokens, NEW e \in Endpoint,
             MediaSocketTokenAuthentication(token, e)
      PROVE  AdmissionLimit'
  <2>1. UNCHANGED <<sessions, pendingAuth>>
    BY <1>9 DEF MediaSocketTokenAuthentication, connectionVars
  <2>2. entity[token[1]] \in ClientEntity
    BY <1>0 DEF TypeOK
  <2>3. \A x \in sessions : entity'[x].authenticated = entity[x].authenticated
    BY <1>0, <1>9, <2>2 DEF MediaSocketTokenAuthentication, ClientEntity
  <2> QED BY <2>1, <2>3, <1>6
<1>10. CASE (\E x \in Readings : MediaSocketNetworkUsageUpdated(x))
              \/ UNCHANGED vars
  BY <1>10, <1>6 DEF MediaSocketNetworkUsageUpdated, vars, connectionVars
<1> QED
  BY <1>1, <1>2, <1>3, <1>4, <1>5, <1>7, <1>8, <1>9, <1>10 DEF Next

-----------------------------------------------------------------------------
(* The inductive invariant and its consequences *)

LEMMA InitSafety == Init => SafetyInv
<1> SUFFICES ASSUME Init PROVE SafetyInv
  OBVIOUS
<1>1. TypeOK
  BY InitType
<1>2. MembershipConsistent /\ IdentityInv
  BY DEF Init, MembershipConsistent, IdentityInv, OnlyAuthenticatedAct,
     GoneLeaveNothing, FreshIdsUnused, TokensAuthenticated, NoEntity,
     NewClientEntity, ChannelId, ClientId
<1>3. RecipientsLive /\ RoutingSound
  BY DEF Init, NoRecipients, RecipientsLive, RoutingSound
<1>4. AdmissionLimit
  <2>1. Admitted = {}
    BY DEF Init, Admitted
  <2> QED BY <2>1, FS_EmptySet, BoundsAssumption DEF AdmissionLimit
<1> QED BY <1>1, <1>2, <1>3, <1>4 DEF SafetyInv, IdentityInv

LEMMA SafetyIsInductive == Spec => []SafetyInv
<1>1. SafetyInv /\ [Next]_vars => SafetyInv'
  <2> SUFFICES ASSUME SafetyInv, [Next]_vars PROVE SafetyInv'
    OBVIOUS
  <2>1. TypeOK'
    BY NextType DEF SafetyInv
  <2>2. MembershipConsistent'
    BY MembershipStep DEF SafetyInv
  <2>3. IdentityInv'
    BY IdentityStep DEF SafetyInv, IdentityInv
  <2>4. RecipientsLive' /\ RoutingSound'
    BY <2>1, <2>3, RoutingStep DEF SafetyInv, IdentityInv
  <2>5. AdmissionLimit'
    BY AdmissionStep DEF SafetyInv, IdentityInv
  <2> QED BY <2>1, <2>2, <2>3, <2>4, <2>5 DEF SafetyInv, IdentityInv
<1> QED BY <1>1, InitSafety, PTL DEF Spec

\* The channel maps stay aligned through joins, deferred deletions and the
\* reuse of IDENT strings, for any number of clients and channels.
THEOREM MembershipTheorem == Spec => []MembershipConsistent
<1>1. SafetyInv => MembershipConsistent
  BY DEF SafetyInv
<1> QED BY <1>1, SafetyIsInductive, PTL

\* No sequence of requests, late continuations and media tokens lets a client
\* that has not passed authentication take part.
THEOREM AuthorizationTheorem == Spec => []OnlyAuthenticatedAct
<1>1. SafetyInv => OnlyAuthenticatedAct
  BY DEF SafetyInv
<1> QED BY <1>1, SafetyIsInductive, PTL

\* The destructor of a connection handler leaves no trace of its client.
THEOREM NoGhostsTheorem == Spec => []NoGhosts
<1>1. SafetyInv => NoGhosts
  <2> SUFFICES ASSUME SafetyInv PROVE NoGhosts
    OBVIOUS
  <2>1. ASSUME NEW ch \in ChannelId, NEW c \in participants[ch]
        PROVE  c \in sessions
    <3>1. c \in ClientId /\ client2channels[c] # {}
      BY DEF SafetyInv, TypeOK, MembershipConsistent
    <3>2. entity[c].authenticated
      BY <3>1 DEF SafetyInv, OnlyAuthenticatedAct
    <3> QED BY <3>1, <3>2
            DEF SafetyInv, GoneLeaveNothing, NoEntity, NewClientEntity
  <2>2. \A s \in ClientId : sender2receiver[s] # {} =>
          s \in sessions /\ sender2receiver[s] \subseteq sessions
    BY DEF SafetyInv, GoneLeaveNothing, TypeOK
  <2> QED BY <2>1, <2>2 DEF NoGhosts, SafetyInv, RecipientsLive
<1> QED BY <1>1, SafetyIsInductive, PTL

\* Testing the limit when the request arrives is enough: the clients that got
\* past it never outnumber it, whatever checks are in flight.
THEOREM AdmissionTheorem == Spec => []AdmissionLimit
<1>1. SafetyInv => AdmissionLimit
  BY DEF SafetyInv
<1> QED BY <1>1, SafetyIsInductive, PTL

\* What the media socket forwards, it forwards for a live sender to the current
\* endpoints of its siblings and direct receivers.
THEOREM RoutingTheorem == Spec => []RoutingSound
<1>1. SafetyInv => RoutingSound
  BY DEF SafetyInv
<1> QED BY <1>1, SafetyIsInductive, PTL

-----------------------------------------------------------------------------
(* Refreshing the table *)

\* The table depends on nothing else than the memberships, the relations and
\* what is known of the sessions with a media endpoint.
LEMMA TablesFrame ==
  ASSUME UNCHANGED <<participants, client2channels, sender2receiver>>,
         sessions \subseteq sessions',
         \A c \in sessions :
           /\ entity'[c].media = entity[c].media
           /\ entity'[c].videoEnabled = entity[c].videoEnabled
           /\ entity'[c].audioInputEnabled = entity[c].audioInputEnabled
           /\ entity'[c].visibilityLevel = entity[c].visibilityLevel,
         \A c \in sessions' \ sessions : entity'[c].media = NoEndpoint
  PROVE  MediaRecipients' = MediaRecipients
<1>1. \A c : HasMedia(c)' <=> HasMedia(c)
  BY DEF HasMedia
<1>2. \A c : HasMedia(c) => c \in sessions
  BY DEF HasMedia
<1>3. \A c : Streams(c)' <=> Streams(c)
  BY <1>1, <1>2 DEF Streams
<1>4. ASSUME NEW c, Streams(c)
      PROVE  ConferenceReceivers(c)' = ConferenceReceivers(c)
  <2>1. c \in sessions /\ c \in sessions'
    BY <1>2, <1>4 DEF Streams
  <2>2. \A p : HasMedia(p) =>
          (p \in VisibleSiblingClientIds(c) <=> p \in VisibleSiblingClientIds(c)')
    BY <1>2, <2>1
    DEF VisibleSiblingClientIds, SiblingClientIds, IsAllowedToSee,
        VisibilityLevelAllowed
  <2>3. {q \in VisibleSiblingClientIds(c) \ {c} : HasMedia(q)} =
          {q \in VisibleSiblingClientIds(c)' \ {c} : HasMedia(q)'}
    BY <1>1, <2>2
  <2> QED BY <1>2, <2>3 DEF ConferenceReceivers, ReceiverEntities
<1>5. ASSUME NEW c
      PROVE  DirectReceivers(c)' = DirectReceivers(c)
  <2>1. {q \in sender2receiver[c] \ {c} : HasMedia(q)} =
          {q \in sender2receiver'[c] \ {c} : HasMedia(q)'}
    BY <1>1
  <2> QED BY <1>2, <2>1 DEF DirectReceivers, ReceiverEntities
<1>6. \A c \in ClientId, e \in Endpoint :
        (Streams(c)' /\ entity'[c].media = e) <=> (Streams(c) /\ entity[c].media = e)
  BY <1>2, <1>3 DEF Streams
<1>7. SenderTables' = SenderTables
  BY <1>6 DEF SenderTables
<1>8. /\ [c \in ClientId |-> IF Streams(c)' THEN ConferenceReceivers(c)' ELSE {}] =
         [c \in ClientId |-> IF Streams(c) THEN ConferenceReceivers(c) ELSE {}]
      /\ [c \in ClientId |-> IF Streams(c)' THEN DirectReceivers(c)' ELSE {}] =
         [c \in ClientId |-> IF Streams(c) THEN DirectReceivers(c) ELSE {}]
  BY <1>3, <1>4, <1>5
<1>9. [c \in ClientId |-> IF Streams(c)' THEN entity'[c].media ELSE NoEndpoint] =
      [c \in ClientId |-> IF Streams(c) THEN entity[c].media ELSE NoEndpoint]
  BY <1>2, <1>3 DEF Streams
<1> QED
  BY <1>7, <1>8, <1>9 DEF MediaRecipients

\* What a step does to the table, apart from a change of a visibility level.
LEMMA RefreshStep ==
  ASSUME TypeOK, [Next]_vars
  PROVE  \/ RoutingCurrent'
         \/ \E c \in sessions' :
              entity'[c].visibilityLevel # entity[c].visibilityLevel
         \/ ~RoutingCurrent /\ UNCHANGED recipients
<1> DEFINE Refreshed ==
       \/ RoutingCurrent'
       \/ \E c \in sessions' :
            entity'[c].visibilityLevel # entity[c].visibilityLevel
       \/ ~RoutingCurrent /\ UNCHANGED recipients
<1>0. /\ entity \in [ClientId -> ClientEntity]
      /\ sessions \subseteq ClientId
      /\ sessions \subseteq 1..nextClientId
      /\ nextClientId \in Nat
  BY TypeOKSplits, SessionIds DEF TypeOK
<1>1. ASSUME UpdateMediaRecipients PROVE Refreshed
  BY <1>1 DEF UpdateMediaRecipients, RoutingCurrent
<1>2. ASSUME MediaRecipients' = MediaRecipients, UNCHANGED recipients
      PROVE  Refreshed
  BY <1>2 DEF RoutingCurrent
<1> HIDE DEF Refreshed
<1>3. ASSUME UNCHANGED <<sessions, entity, participants, client2channels,
                         sender2receiver, recipients>>
      PROVE  Refreshed
  BY <1>2, <1>3, TablesFrame
<1>4. ASSUME NEW a \in Addresses, NewConnection(a)
      PROVE  Refreshed
  <2>1. nextClientId + 1 \notin sessions /\ nextClientId + 1 \in ClientId
    BY <1>0, <1>4, BoundsAssumption DEF NewConnection, ClientId
  <2>2. \A c \in sessions' \ sessions : entity'[c].media = NoEndpoint
    BY <1>0, <1>4, <2>1 DEF NewConnection, NewClientEntity
  <2>3. \A c \in sessions : entity'[c] = entity[c]
    BY <1>0, <1>4, <2>1 DEF NewConnection
  <2> QED BY <1>2, <1>4, <2>2, <2>3, TablesFrame DEF NewConnection, channelVars
<1>5. ASSUME NEW c \in ClientId,
             \/ PeerDisconnects(c) \/ DisconnectFromHost(c) \/ Timeout(c)
             \/ \E b \in BOOLEAN : Authentication(c, b)
             \/ AuthenticationRefused(c) \/ Goodbye(c)
             \/ \E id \in ClientId, ban \in BOOLEAN : KickClient(c, id, ban)
      PROVE  Refreshed
  BY <1>3, <1>5 DEF PeerDisconnects, DisconnectFromHost,
     SocketUnconnected, Timeout, Authentication, AuthenticationRefused,
     Goodbye, KickClient, connectionVars, channelVars
<1>6. ASSUME NEW c \in ClientId,
             \/ \E second \in Seconds : AuthenticationGranted(c, second)
             \/ AdminAuth(c)
             \/ \E level \in VisibilityLevels : UpdateVisibilityLevel(c, level)
      PROVE  Refreshed
  <2>1. UNCHANGED <<recipients, participants, client2channels,
                    sender2receiver, sessions>>
    BY <1>6 DEF AuthenticationGranted, AdminAuth, UpdateVisibilityLevel,
       connectionVars, channelVars
  <2>2. ASSUME NEW x \in sessions
        PROVE  /\ entity'[x].media = entity[x].media
               /\ entity'[x].videoEnabled = entity[x].videoEnabled
               /\ entity'[x].audioInputEnabled = entity[x].audioInputEnabled
    <3>1. entity[x] \in ClientEntity /\ entity[c] \in ClientEntity
      BY <1>0
    <3>2. CASE \E second \in Seconds : AuthenticationGranted(c, second)
      BY <1>0, <3>1, <3>2 DEF AuthenticationGranted, ClientEntity
    <3>3. CASE AdminAuth(c)
      BY <1>0, <3>1, <3>3 DEF AdminAuth, ClientEntity
    <3>4. CASE \E level \in VisibilityLevels : UpdateVisibilityLevel(c, level)
      BY <1>0, <3>1, <3>4 DEF UpdateVisibilityLevel, ClientEntity
    <3> QED BY <1>6, <3>2, <3>3, <3>4
  <2>3. CASE \A x \in sessions : entity'[x].visibilityLevel = entity[x].visibilityLevel
    BY <1>2, <2>1, <2>2, <2>3, TablesFrame
  <2>4. CASE \E x \in sessions : entity'[x].visibilityLevel # entity[x].visibilityLevel
    BY <2>1, <2>4 DEF Refreshed
  <2> QED BY <2>3, <2>4
<1>7. ASSUME NEW c \in ClientId,
             \/ DeleteHandler(c)
             \/ EnableVideo(c) \/ DisableVideo(c)
             \/ EnableAudioInput(c) \/ DisableAudioInput(c)
             \/ \E pw \in Passwords \cup {NoPassword} : CreateChannel(c, pw)
             \/ \E t \in JoinTargets, pw \in Passwords \cup {NoPassword} :
                  JoinChannel(c, t[1], t[2], pw)
             \/ \E s, r \in ClientId :
                  \/ AddDirectStreamingRelation(c, s, r)
                  \/ RemoveDirectStreamingRelation(c, s, r)
      PROVE  Refreshed
  BY <1>1, <1>7 DEF DeleteHandler, EnableVideo, DisableVideo, EnableAudioInput,
     DisableAudioInput, SetMedia, CreateChannel, JoinChannel,
     AddDirectStreamingRelation, RemoveDirectStreamingRelation
<1>8. ASSUME NEW token \in tokens, NEW e \in Endpoint,
             MediaSocketTokenAuthentication(token, e)
      PROVE  Refreshed
  BY <1>1, <1>3, <1>8 DEF MediaSocketTokenAuthentication, channelVars, connectionVars
<1>9. ASSUME \/ \E x \in Readings : MediaSocketNetworkUsageUpdated(x)
             \/ UNCHANGED vars
      PROVE  Refreshed
  BY <1>3, <1>9
  DEF MediaSocketNetworkUsageUpdated, vars, channelVars, connectionVars
<1>10. Refreshed
  BY <1>4, <1>5, <1>6, <1>7, <1>8, <1>9 DEF Next
<1> QED BY <1>10 DEF Refreshed

\* No other request changes the level of a client that stays.
LEMMA LevelStep ==
  ASSUME "updatevisibilitylevel" \notin Requests, SafetyInv, [Next]_vars
  PROVE  \A x \in sessions' :
           entity'[x].visibilityLevel = entity[x].visibilityLevel
<1> DEFINE Kept == \A x \in sessions' :
                     entity'[x].visibilityLevel = entity[x].visibilityLevel
<1>0. /\ entity \in [ClientId -> ClientEntity]
      /\ sessions \subseteq ClientId
      /\ sessions \subseteq 1..nextClientId
      /\ nextClientId \in Nat
  BY TypeOKSplits, SessionIds DEF TypeOK, SafetyInv
<1>1. ASSUME UNCHANGED entity PROVE Kept
  BY <1>1
<1>2. ASSUME NEW a \in Addresses, NewConnection(a)
      PROVE  Kept
  <2>1. nextClientId + 1 \notin sessions /\ nextClientId + 1 \in ClientId
    BY <1>0, <1>2, BoundsAssumption DEF NewConnection, ClientId
  <2>2. entity[nextClientId + 1] = NoEntity
    BY <2>1 DEF SafetyInv, GoneLeaveNothing
  <2> QED BY <1>0, <1>2, <2>1, <2>2 DEF NewConnection, NewClientEntity, NoEntity
<1>3. ASSUME NEW c \in ClientId,
             \/ PeerDisconnects(c) \/ DisconnectFromHost(c) \/ Timeout(c)
             \/ \E b \in BOOLEAN : Authentication(c, b)
             \/ AuthenticationRefused(c) \/ Goodbye(c)
             \/ \E id \in ClientId, ban \in BOOLEAN : KickClient(c, id, ban)
             \/ \E pw \in Passwords \cup {NoPassword} : CreateChannel(c, pw)
             \/ \E t \in JoinTargets, pw \in Passwords \cup {NoPassword} :
                  JoinChannel(c, t[1], t[2], pw)
             \/ \E s, r \in ClientId :
                  \/ AddDirectStreamingRelation(c, s, r)
                  \/ RemoveDirectStreamingRelation(c, s, r)
      PROVE  Kept
  BY <1>1, <1>3 DEF PeerDisconnects, DisconnectFromHost,
     SocketUnconnected, Timeout, Authentication, AuthenticationRefused,
     Goodbye, KickClient, CreateChannel, JoinChannel,
     AddDirectStreamingRelation, RemoveDirectStreamingRelation
<1>4. ASSUME NEW c \in ClientId, DeleteHandler(c)
      PROVE  Kept
  BY <1>0, <1>4 DEF DeleteHandler
<1>5. ASSUME NEW c \in ClientId,
             \/ \E second \in Seconds : AuthenticationGranted(c, second)
             \/ AdminAuth(c)
             \/ EnableVideo(c) \/ DisableVideo(c)
             \/ EnableAudioInput(c) \/ DisableAudioInput(c)
      PROVE  Kept
  <2>1. sessions' = sessions /\ entity[c] \in ClientEntity
    BY <1>0, <1>5 DEF AuthenticationGranted, AdminAuth, EnableVideo, DisableVideo,
       EnableAudioInput, DisableAudioInput, SetMedia, connectionVars
  <2>2. ASSUME NEW x \in sessions
        PROVE  entity'[x].visibilityLevel = entity[x].visibilityLevel
    <3>1. entity[x] \in ClientEntity
      BY <1>0
    <3>2. CASE \E second \in Seconds : AuthenticationGranted(c, second)
      BY <1>0, <2>1, <3>1, <3>2 DEF AuthenticationGranted, ClientEntity
    <3>3. CASE AdminAuth(c)
      BY <1>0, <2>1, <3>1, <3>3 DEF AdminAuth, ClientEntity
    <3>4. CASE EnableVideo(c) \/ DisableVideo(c)
      BY <1>0, <2>1, <3>1, <3>4 DEF EnableVideo, DisableVideo, SetMedia, ClientEntity
    <3>5. CASE EnableAudioInput(c) \/ DisableAudioInput(c)
      BY <1>0, <2>1, <3>1, <3>5 DEF EnableAudioInput, DisableAudioInput, SetMedia, ClientEntity
    <3> QED BY <1>5, <3>2, <3>3, <3>4, <3>5
  <2> QED BY <2>1, <2>2
<1>6. ASSUME NEW c \in ClientId, NEW level, UpdateVisibilityLevel(c, level)
      PROVE  FALSE
  BY <1>6 DEF UpdateVisibilityLevel, Request
<1>7. ASSUME NEW token \in tokens, NEW e \in Endpoint,
             MediaSocketTokenAuthentication(token, e)
      PROVE  Kept
  <2>1. token[1] \in ClientId /\ sessions' = sessions
    BY <1>7 DEF SafetyInv, TypeOK, MediaSocketTokenAuthentication, connectionVars
  <2>2. \A x \in sessions : entity[x] \in ClientEntity
    BY <1>0
  <2> QED BY <1>0, <1>7, <2>1, <2>2 DEF MediaSocketTokenAuthentication, ClientEntity
<1>8. ASSUME \/ \E x \in Readings : MediaSocketNetworkUsageUpdated(x)
             \/ UNCHANGED vars
      PROVE  Kept
  BY <1>1, <1>8 DEF MediaSocketNetworkUsageUpdated, vars
<1> HIDE DEF Kept
<1>9. Kept
  BY <1>2, <1>3, <1>4, <1>5, <1>6, <1>7, <1>8 DEF Next
<1> QED BY <1>9 DEF Kept

\* Every handler that changes what the media socket's table is computed from
\* refreshes the table, with the change of a visibility level as the only
\* exception.
THEOREM RefreshTheorem == Spec => RoutingRefreshed
<1> DEFINE Refreshed ==
       \/ RoutingCurrent'
       \/ \E c \in sessions' :
            entity'[c].visibilityLevel # entity[c].visibilityLevel
       \/ ~RoutingCurrent /\ UNCHANGED recipients
<1>1. TypeOK /\ [Next]_vars => [Refreshed]_vars
  BY RefreshStep
<1> HIDE DEF Refreshed
<1>2. Spec => [][Refreshed]_vars
  BY <1>1, TypeCorrect, PTL DEF Spec
<1> QED BY <1>2 DEF RoutingRefreshed, Refreshed

\* So where no client asks for another visibility level, what is forwarded is
\* at every moment what the maps say.
THEOREM CurrentTheorem ==
  ASSUME "updatevisibilitylevel" \notin Requests
  PROVE  Spec => []RoutingCurrent
<1>1. Init => RoutingCurrent
  <2> SUFFICES ASSUME Init PROVE recipients \in MediaRecipients
    BY DEF RoutingCurrent
  <2>1. \A c : ~Streams(c)
    BY DEF Init, Streams, HasMedia
  <2>2. [e \in Endpoint |-> NoClient] \in SenderTables
    BY <2>1 DEF SenderTables
  <2> QED BY <2>1, <2>2 DEF Init, NoRecipients, MediaRecipients
<1>2. SafetyInv /\ RoutingCurrent /\ [Next]_vars => RoutingCurrent'
  BY LevelStep, RefreshStep DEF SafetyInv
<1> QED BY <1>1, <1>2, SafetyIsInductive, PTL DEF Spec

-----------------------------------------------------------------------------
(* Notifications *)

\* A message that stays between siblings, or tells a client of itself, or of
\* being kicked.
Proper(m) ==
  m.kind \in MessageKind \ {"notify.kicked"} /\ m.to # m.about =>
    m.to \in SiblingClientIds(m.about) \cup SiblingClientIds(m.about)'

LEMMA BroadcastProper ==
  ASSUME NEW c, NEW kind, NEW m \in BroadcastNotificationToSiblingClients(c, kind)
  PROVE  m.to \in SiblingClientIds(c) /\ m.about = c
BY DEF BroadcastNotificationToSiblingClients, Deliver, Message

LEMMA BroadcastProperAfter ==
  ASSUME NEW c, NEW kind, NEW m \in BroadcastNotificationToSiblingClients(c, kind)'
  PROVE  m.to \in SiblingClientIds(c)' /\ m.about = c
BY DEF BroadcastNotificationToSiblingClients, Deliver, Message

\* A reply is about the client it goes to.
LEMMA ReplyProper ==
  ASSUME NEW c, NEW kind, NEW m \in Deliver({Message(kind, c, c)})
  PROVE  m.to = c /\ m.about = c
BY DEF Deliver, Message

LEMMA NotifyStep ==
  ASSUME Next
  PROVE  \A m \in sent' : Proper(m)
<1> DEFINE AllProper == \A m \in sent' : Proper(m)
<1>1. ASSUME sent' = {} PROVE AllProper
  BY <1>1
<1>2. ASSUME NEW c, NEW kind, sent' = Deliver({Message(kind, c, c)})
      PROVE  AllProper
  BY <1>2, ReplyProper DEF Proper
<1>3. ASSUME NEW c, SocketUnconnected(c)
      PROVE  AllProper
  BY <1>3 DEF SocketUnconnected, Deliver, Message, VisibleSiblingClientIds, Proper
<1>4. ASSUME NEW c, NEW e, NEW kind, SetMedia(c, e, kind)
      PROVE  AllProper
  BY <1>4, BroadcastProper DEF SetMedia, Proper
<1>5. ASSUME NEW c, NEW t, NEW pw, JoinChannel(c, t[1], t[2], pw)
      PROVE  AllProper
  <2>1. ASSUME NEW id, NEW m \in JoinMessages(c, id)
        PROVE  Proper(m)
    <3>1. CASE m \in BroadcastNotificationToSiblingClients(c, "notify.clientjoinedchannel")'
      BY <3>1, BroadcastProperAfter DEF Proper
    <3>2. CASE m.to = c /\ m.about = c
      BY <3>2 DEF Proper
    <3> QED BY <2>1, <3>1, <3>2 DEF JoinMessages, Deliver
  <2>2. \E id : sent' = JoinMessages(c, id)
    BY <1>5 DEF JoinChannel
  <2> QED BY <2>1, <2>2
<1>6. ASSUME NEW c, NEW id, NEW ban, KickClient(c, id, ban)
      PROVE  AllProper
  BY <1>6 DEF KickClient, Deliver, Message, Proper
<1> HIDE DEF AllProper
<1>7. ASSUME NEW c \in ClientId,
             \/ DeleteHandler(c)
             \/ \E b \in BOOLEAN : Authentication(c, b)
             \/ AuthenticationRefused(c) \/ Goodbye(c) \/ AdminAuth(c)
             \/ \E pw \in Passwords \cup {NoPassword} : CreateChannel(c, pw)
             \/ \E level \in VisibilityLevels : UpdateVisibilityLevel(c, level)
             \/ \E s, r \in ClientId :
                  \/ AddDirectStreamingRelation(c, s, r)
                  \/ RemoveDirectStreamingRelation(c, s, r)
      PROVE  AllProper
  BY <1>1, <1>7 DEF DeleteHandler, Authentication, AuthenticationRefused, Goodbye,
     AdminAuth, CreateChannel, UpdateVisibilityLevel, AddDirectStreamingRelation,
     RemoveDirectStreamingRelation
<1>8. ASSUME NEW c \in ClientId,
             \/ PeerDisconnects(c) \/ DisconnectFromHost(c) \/ Timeout(c)
             \/ \E second \in Seconds : AuthenticationGranted(c, second)
      PROVE  AllProper
  BY <1>1, <1>2, <1>3, <1>8 DEF PeerDisconnects, DisconnectFromHost, Timeout,
     AuthenticationGranted
<1>9. ASSUME NEW c \in ClientId,
             \/ EnableVideo(c) \/ DisableVideo(c)
             \/ EnableAudioInput(c) \/ DisableAudioInput(c)
      PROVE  AllProper
  BY <1>4, <1>9 DEF EnableVideo, DisableVideo, EnableAudioInput, DisableAudioInput
<1>10. ASSUME NEW token, NEW e, MediaSocketTokenAuthentication(token, e)
       PROVE  AllProper
  BY <1>1, <1>2, <1>10 DEF MediaSocketTokenAuthentication
<1>11. ASSUME \/ \E a \in Addresses : NewConnection(a)
              \/ \E x \in Readings : MediaSocketNetworkUsageUpdated(x)
       PROVE  AllProper
  BY <1>1, <1>11 DEF NewConnection, MediaSocketNetworkUsageUpdated
<1>12. AllProper
  BY <1>5, <1>6, <1>7, <1>8, <1>9, <1>10, <1>11 DEF Next
<1> QED BY <1>12 DEF AllProper

\* Nobody learns of the clients of a foreign conference: whatever a handler
\* sends about another client goes to one that is or was its sibling.
THEOREM SiblingsTheorem == Spec => NotifiesSiblingsOnly
<1> DEFINE Kept == \A m \in sent' : Proper(m)
<1>1. [Next]_vars => [Kept]_vars
  BY NotifyStep
<1> HIDE DEF Kept
<1>2. Spec => [][Kept]_vars
  BY <1>1, PTL DEF Spec
<1> QED BY <1>2 DEF NotifiesSiblingsOnly, Kept, Proper

-----------------------------------------------------------------------------
(* Rooms: the channel maps implement the table of rooms of Conferences, and    *)
(* IDENT strings name conferences.  Both rest on SafetyInv and on ChannelSteps. *)

LEMMA RoomsDomain ==
  /\ DOMAIN Rooms = channels
  /\ \A ch \in channels :
       Rooms[ch] = [label |-> channel[ch], members |-> participants[ch]]
BY DEF Rooms

\* The first room of an id is opened by its first member.
LEMMA OpenStep ==
  ASSUME TypeOK, TypeOK', MembershipConsistent, NEW c \in sessions, NEW i,
         NEW pw, CreateAndJoin(c, i, pw), UNCHANGED connectionVars
  PROVE  Conference!Next
<1> DEFINE id == NewChannelId
<1> DEFINE label == channel'[id]
<1>1. /\ id \in ChannelId /\ id = nextChannelId + 1 /\ nextChannelId \in Nat
      /\ nextChannelId' = id
  BY BoundsAssumption DEF CreateAndJoin, NewChannelId, TypeOK, ChannelId
<1>2. c \in ClientId /\ label \in ChannelEntity
  BY <1>1, TypeOKSplits, SessionIds DEF TypeOK
<1>3. id \notin 1..nextChannelId /\ 1..nextChannelId' = 1..nextChannelId \cup {id}
  BY <1>1
<1>4. id \notin channels /\ participants[id] = {}
  BY <1>1, <1>3 DEF MembershipConsistent, TypeOK
<1>5. channels' = channels \cup {id}
  BY DEF CreateAndJoin
<1>6. participants'[id] = {c}
  BY <1>1, <1>4 DEF CreateAndJoin, TypeOK
<1>7. \A ch \in channels :
        channel'[ch] = channel[ch] /\ participants'[ch] = participants[ch]
  BY <1>1, <1>4 DEF CreateAndJoin, TypeOK
<1>8. Rooms' = [x \in DOMAIN Rooms \cup {id} |->
                  IF x = id THEN [label |-> label, members |-> {c}]
                            ELSE Rooms[x]]
  BY <1>4, <1>5, <1>6, <1>7 DEF Rooms
<1>9. UNCHANGED sessions
  BY DEF connectionVars
<1>10. Conference!Open(c, id, label)
  BY <1>3, <1>8, <1>9 DEF Conference!Open
<1> QED BY <1>1, <1>2, <1>10 DEF Conference!Next

LEMMA EnterStep ==
  ASSUME TypeOK, NEW c \in sessions, NEW id \in channels,
         AddClientToChannel(c, id), UNCHANGED connectionVars
  PROVE  Conference!Next
<1>1. c \in ClientId /\ id \in ChannelId
  BY TypeOKSplits, SessionIds, BoundsAssumption DEF TypeOK, ChannelId
<1>2. Rooms' = [Rooms EXCEPT ![id] = [label |-> Rooms[id].label,
                                         members |-> Rooms[id].members \cup {c}]]
  <2>1. participants' = [participants EXCEPT ![id] = @ \cup {c}]
    BY DEF AddClientToChannel
  <2>2. UNCHANGED <<channels, channel>>
    BY DEF AddClientToChannel
  <2>3. /\ participants'[id] = participants[id] \cup {c}
        /\ \A ch \in channels \ {id} : participants'[ch] = participants[ch]
    BY <1>1, <2>1 DEF TypeOK
  <2> QED BY <2>2, <2>3 DEF Rooms
<1>3. UNCHANGED <<sessions, nextChannelId>>
  BY DEF connectionVars, AddClientToChannel
<1>4. Conference!Enter(c, id)
  BY <1>2, <1>3, RoomsDomain DEF Conference!Enter
<1> QED BY <1>1, <1>4 DEF Conference!Next

LEMMA LeaveStep ==
  ASSUME TypeOK, MembershipConsistent, NEW c \in sessions,
         RemoveClientFromChannels(c), sessions' = sessions \ {c}
  PROVE  Conference!Next
<1>1. c \in ClientId /\ channels \subseteq ChannelId
  BY TypeOKSplits, SessionIds, BoundsAssumption DEF TypeOK, ChannelId
<1>2. \A ch \in channels : participants[ch] # {}
  BY <1>1 DEF MembershipConsistent
<1>3. channels' = {ch \in channels : participants[ch] \ {c} # {}}
  <2>1. channels' = channels \ Emptied(c)
    BY DEF RemoveClientFromChannels
  <2>2. \A ch \in channels : ch \in Emptied(c) <=> participants[ch] \ {c} = {}
    BY <1>1, <1>2 DEF Emptied, MembershipConsistent
  <2> QED BY <2>1, <2>2
<1>4. \A ch \in channels' : channel'[ch] = channel[ch]
  BY <1>1 DEF RemoveClientFromChannels, TypeOK
<1>5. \A ch \in channels : participants'[ch] = participants[ch] \ {c}
  BY <1>1 DEF RemoveClientFromChannels, MembershipConsistent, TypeOK
<1>6. Rooms' = Conference!Without(c)
  BY <1>3, <1>4, <1>5 DEF Rooms, Conference!Without
<1>7. UNCHANGED nextChannelId
  BY DEF RemoveClientFromChannels
<1>8. Conference!Leave(c)
  BY <1>6, <1>7 DEF Conference!Leave
<1> QED BY <1>1, <1>8 DEF Conference!Next

\* A step changes the set of sessions only by a connection or the destructor.
LEMMA SessionSteps ==
  ASSUME TypeOK, [Next]_vars, sessions' # sessions
  PROVE  \/ \E c \in ClientId \ sessions :
              sessions' = sessions \cup {c} /\ UNCHANGED channelVars
         \/ \E c \in sessions :
              RemoveClientFromChannels(c) /\ sessions' = sessions \ {c}
<1>1. ASSUME NEW a \in Addresses, NewConnection(a)
      PROVE  \E c \in ClientId \ sessions :
               sessions' = sessions \cup {c} /\ UNCHANGED channelVars
  <2>1. nextClientId + 1 \in ClientId \ sessions
    BY <1>1, BoundsAssumption DEF NewConnection, TypeOK, ClientId
  <2> QED BY <1>1, <2>1 DEF NewConnection
<1>2. ASSUME NEW c \in ClientId, DeleteHandler(c)
      PROVE  /\ c \in sessions
             /\ RemoveClientFromChannels(c)
             /\ sessions' = sessions \ {c}
  BY <1>2 DEF DeleteHandler, TypeOK
<1>3. ASSUME NEW c \in ClientId,
             \/ PeerDisconnects(c) \/ DisconnectFromHost(c) \/ Timeout(c)
             \/ \E b \in BOOLEAN : Authentication(c, b)
             \/ AuthenticationRefused(c)
             \/ \E second \in Seconds : AuthenticationGranted(c, second)
             \/ Goodbye(c)
             \/ EnableVideo(c) \/ DisableVideo(c)
             \/ EnableAudioInput(c) \/ DisableAudioInput(c)
      PROVE  UNCHANGED sessions
  BY <1>3 DEF PeerDisconnects, DisconnectFromHost, SocketUnconnected, Timeout,
     Authentication, AuthenticationRefused, AuthenticationGranted, Goodbye,
     EnableVideo, DisableVideo, EnableAudioInput, DisableAudioInput, SetMedia,
     connectionVars
<1>4. ASSUME NEW c \in ClientId,
             \/ \E pw \in Passwords \cup {NoPassword} : CreateChannel(c, pw)
             \/ \E t \in JoinTargets, pw \in Passwords \cup {NoPassword} :
                  JoinChannel(c, t[1], t[2], pw)
             \/ AdminAuth(c)
             \/ \E id \in ClientId, ban \in BOOLEAN : KickClient(c, id, ban)
             \/ \E level \in VisibilityLevels : UpdateVisibilityLevel(c, level)
             \/ \E s, r \in ClientId :
                  \/ AddDirectStreamingRelation(c, s, r)
                  \/ RemoveDirectStreamingRelation(c, s, r)
      PROVE  UNCHANGED sessions
  BY <1>4 DEF CreateChannel, JoinChannel, AdminAuth, KickClient,
     UpdateVisibilityLevel, AddDirectStreamingRelation,
     RemoveDirectStreamingRelation, connectionVars
<1>5. ASSUME \/ \E token \in tokens, e \in Endpoint :
                  MediaSocketTokenAuthentication(token, e)
             \/ \E x \in Readings : MediaSocketNetworkUsageUpdated(x)
             \/ UNCHANGED vars
      PROVE  UNCHANGED sessions
  BY <1>5 DEF MediaSocketTokenAuthentication, MediaSocketNetworkUsageUpdated,
     vars, connectionVars
<1> QED BY <1>1, <1>2, <1>3, <1>4, <1>5 DEF Next

\* The detailed step maps to a step of the table or to a stutter.
LEMMA RoomStep ==
  ASSUME SafetyInv, [Next]_vars
  PROVE  Conference!Next \/ UNCHANGED Conference!roomVars
<1>0. TypeOK /\ TypeOK' /\ MembershipConsistent
  BY NextType DEF SafetyInv
<1>1. CASE sessions' # sessions
  <2>1. ASSUME NEW c \in ClientId \ sessions,
               sessions' = sessions \cup {c}, UNCHANGED channelVars
        PROVE  Conference!Next
    <3>1. Conference!Come(c)
      BY <2>1 DEF Conference!Come, channelVars, Rooms
    <3> QED BY <3>1 DEF Conference!Next
  <2>2. ASSUME NEW c \in sessions, RemoveClientFromChannels(c),
               sessions' = sessions \ {c}
        PROVE  Conference!Next
    BY <1>0, <2>2, LeaveStep
  <2> QED BY <1>0, <1>1, <2>1, <2>2, SessionSteps
<1>2. CASE sessions' = sessions /\ UNCHANGED channelVars
  BY <1>2 DEF channelVars, Rooms, Conference!roomVars
<1>3. ASSUME NEW c \in sessions, UNCHANGED connectionVars,
             \/ \E i, pw : CreateAndJoin(c, i, pw)
             \/ \E ch \in channels : AddClientToChannel(c, ch)
      PROVE  Conference!Next
  BY <1>0, <1>3, OpenStep, EnterStep
<1>4. ASSUME NEW c \in sessions, RemoveClientFromChannels(c),
             sessions' = sessions \ {c}
      PROVE  Conference!Next
  BY <1>0, <1>4, LeaveStep
<1> QED BY <1>0, <1>1, <1>2, <1>3, <1>4, ChannelSteps

\* The maps of the server implement the table of rooms: what a handler does to
\* any of them is one step of the table, or none.
THEOREM RoomsTheorem == Spec => ConferencesSpec
<1>1. Init => Conference!Init
  <2> SUFFICES ASSUME Init PROVE Conference!Init
    OBVIOUS
  <2>1. Rooms = [r \in {} |-> {}]
    BY DEF Init, Rooms
  <2>2. 1..nextChannelId = {}
    BY DEF Init
  <2> QED BY <2>1, <2>2 DEF Init, Conference!Init
<1>2. SafetyInv /\ [Next]_vars => [Conference!Next]_Conference!roomVars
  BY RoomStep
<1> QED BY <1>1, <1>2, SafetyIsInductive, PTL
        DEF Spec, ConferencesSpec, Conference!Spec

-----------------------------------------------------------------------------
(* IDENT strings *)

\* A join by IDENT alone creates a conference only if none has that IDENT; with
\* a stale id beside it the handler does not look.
UnmixedCreation(i) ==
  i \in Idents => \A ch \in channels : channel[ch].ident # i

LEMMA IdentOfCreation ==
  ASSUME TypeOK, MembershipConsistent, IdentResolves, NEW c,
         NEW i \in Idents \cup {NoIdent}, NEW pw,
         CreateAndJoin(c, i, pw), UnmixedCreation(i)
  PROVE  IdentResolves'
<1> DEFINE id == NewChannelId
<1>1. /\ id \in ChannelId /\ id \notin channels /\ id # NoChannel
      /\ channels \subseteq ChannelId
  BY BoundsAssumption
  DEF CreateAndJoin, NewChannelId, TypeOK, ChannelId, NoChannel
<1>2. channels' = channels \cup {id}
  BY DEF CreateAndJoin
<1>3. /\ channel'[id].ident = i
      /\ \A ch \in channels : channel'[ch] = channel[ch]
  BY <1>1 DEF CreateAndJoin, TypeOK
<1>4. \A ch \in channels : channel[ch].ident \in Idents \cup {NoIdent}
  BY <1>1 DEF TypeOK, ChannelEntity
<1>6. \A x \in Idents : ident2channel'[x] = IF x = i THEN id ELSE ident2channel[x]
  BY DEF CreateAndJoin, IdentsWith
<1>7. \A ch \in channels : channel[ch].ident # NoIdent =>
        channel[ch].ident # i /\ ident2channel[channel[ch].ident] = ch
  BY <1>4 DEF IdentResolves, UnmixedCreation
<1>8. ASSUME NEW ch \in channels, channel'[ch].ident # NoIdent
      PROVE  ident2channel'[channel'[ch].ident] = ch
  BY <1>3, <1>4, <1>6, <1>7, <1>8
<1> QED BY <1>2, <1>3, <1>6, <1>8 DEF IdentResolves

\* Joins that name an id or an IDENT, but not both, create conferences for IDENT
\* strings that no conference has.
LEMMA UnmixedJoins ==
  ASSUME ~MixedJoins, TypeOK, MembershipConsistent, IdentResolves,
         NEW c \in ClientId, NEW t \in JoinTargets, NEW pw,
         JoinChannel(c, t[1], t[2], pw)
  PROVE  \/ \E ch \in channels : AddClientToChannel(c, ch)
         \/ \E i \in Idents : \E p : CreateAndJoin(c, i, p) /\ UnmixedCreation(i)
<1>1. \/ \E ch \in channels : AddClientToChannel(c, ch)
      \/ /\ Resolve(t[1], t[2]) \notin channels
         /\ t[2] # NoIdent
         /\ CreateAndJoin(c, t[2], pw)
  BY DEF JoinChannel
<1>2. CASE \E ch \in channels : AddClientToChannel(c, ch)
  BY <1>2
<1>3. CASE /\ Resolve(t[1], t[2]) \notin channels
           /\ t[2] # NoIdent
           /\ CreateAndJoin(c, t[2], pw)
  <2>1. t \in (ChannelId \X {NoIdent}) \cup ({NoChannel} \X Idents)
    BY DEF JoinTargets
  <2>2. t[1] = NoChannel /\ t[2] \in Idents
    BY <1>3, <2>1
  <2>3. ident2channel[t[2]] \notin channels
    BY <1>3, <2>2 DEF Resolve
  <2>4. \A ch \in channels : channel[ch].ident # t[2]
    BY <2>2, <2>3, SentinelAssumption DEF IdentResolves
  <2> QED BY <1>3, <2>2, <2>4 DEF UnmixedCreation
<1> QED BY <1>1, <1>2, <1>3

\* What a step of a server without mixed joins does to the channel maps.
LEMMA UnmixedSteps ==
  ASSUME ~MixedJoins, TypeOK, MembershipConsistent, IdentResolves, [Next]_vars
  PROVE  \/ UNCHANGED channelVars
         \/ \E c \in ClientId, i \in Idents \cup {NoIdent} : \E pw :
              CreateAndJoin(c, i, pw) /\ UnmixedCreation(i)
         \/ \E c \in ClientId, ch \in channels : AddClientToChannel(c, ch)
         \/ \E c \in ClientId : RemoveClientFromChannels(c)
<1>1. ASSUME NEW c \in ClientId, NEW pw, CreateChannel(c, pw)
      PROVE  CreateAndJoin(c, NoIdent, pw) /\ UnmixedCreation(NoIdent)
  BY <1>1, SentinelAssumption DEF CreateChannel, UnmixedCreation
<1>2. ASSUME NEW c \in ClientId, NEW t \in JoinTargets, NEW pw,
             JoinChannel(c, t[1], t[2], pw)
      PROVE  \/ \E ch \in channels : AddClientToChannel(c, ch)
             \/ \E i \in Idents : \E p : CreateAndJoin(c, i, p) /\ UnmixedCreation(i)
  BY <1>2, UnmixedJoins
<1>3. ASSUME NEW c \in ClientId, DeleteHandler(c)
      PROVE  RemoveClientFromChannels(c)
  BY <1>3 DEF DeleteHandler
<1>4. ASSUME NEW c \in ClientId,
             \/ PeerDisconnects(c) \/ DisconnectFromHost(c) \/ Timeout(c)
             \/ \E b \in BOOLEAN : Authentication(c, b)
             \/ AuthenticationRefused(c)
             \/ \E second \in Seconds : AuthenticationGranted(c, second)
             \/ Goodbye(c)
      PROVE  UNCHANGED channelVars
  BY <1>4 DEF PeerDisconnects, DisconnectFromHost, SocketUnconnected, Timeout,
     Authentication, AuthenticationRefused, AuthenticationGranted, Goodbye
<1>5. ASSUME NEW c \in ClientId,
             \/ EnableVideo(c) \/ DisableVideo(c)
             \/ EnableAudioInput(c) \/ DisableAudioInput(c)
             \/ AdminAuth(c)
             \/ \E id \in ClientId, ban \in BOOLEAN : KickClient(c, id, ban)
             \/ \E level \in VisibilityLevels : UpdateVisibilityLevel(c, level)
             \/ \E s, r \in ClientId :
                  \/ AddDirectStreamingRelation(c, s, r)
                  \/ RemoveDirectStreamingRelation(c, s, r)
      PROVE  UNCHANGED channelVars
  BY <1>5 DEF EnableVideo, DisableVideo, EnableAudioInput, DisableAudioInput,
     SetMedia, AdminAuth, KickClient, UpdateVisibilityLevel,
     AddDirectStreamingRelation, RemoveDirectStreamingRelation
<1>6. ASSUME \/ \E a \in Addresses : NewConnection(a)
             \/ \E token \in tokens, e \in Endpoint :
                  MediaSocketTokenAuthentication(token, e)
             \/ \E x \in Readings : MediaSocketNetworkUsageUpdated(x)
             \/ UNCHANGED vars
      PROVE  UNCHANGED channelVars
  BY <1>6 DEF NewConnection, MediaSocketTokenAuthentication,
     MediaSocketNetworkUsageUpdated, vars
<1> QED BY <1>1, <1>2, <1>3, <1>4, <1>5, <1>6 DEF Next

LEMMA IdentStep ==
  ASSUME ~MixedJoins, TypeOK, MembershipConsistent, IdentResolves, [Next]_vars
  PROVE  IdentResolves'
<1>0. channels \subseteq ChannelId
  BY BoundsAssumption DEF TypeOK, ChannelId
<1>1. CASE UNCHANGED channelVars
  BY <1>1 DEF channelVars, IdentResolves
<1>2. ASSUME NEW c \in ClientId, NEW i \in Idents \cup {NoIdent}, NEW pw,
             CreateAndJoin(c, i, pw), UnmixedCreation(i)
      PROVE  IdentResolves'
  BY <1>2, IdentOfCreation
<1>3. ASSUME NEW c \in ClientId, NEW ch \in channels, AddClientToChannel(c, ch)
      PROVE  IdentResolves'
  BY <1>3 DEF AddClientToChannel, IdentResolves
<1>4. ASSUME NEW c \in ClientId, RemoveClientFromChannels(c)
      PROVE  IdentResolves'
  <2>1. /\ channels' = channels \ Emptied(c)
        /\ Emptied(c) \subseteq channels
        /\ \A ch \in channels' : channel'[ch] = channel[ch]
    BY <1>0, <1>4
    DEF RemoveClientFromChannels, Emptied, MembershipConsistent, TypeOK
  <2>2. ASSUME NEW ch \in channels', channel[ch].ident # NoIdent
        PROVE  ident2channel'[channel[ch].ident] = ch
    <3>1. channel[ch].ident \in Idents /\ ident2channel[channel[ch].ident] = ch
      BY <1>0, <2>1, <2>2 DEF TypeOK, ChannelEntity, IdentResolves
    <3>2. \A e \in Emptied(c) : channel[e].ident # channel[ch].ident
      BY <2>1, <2>2, <3>1 DEF IdentResolves
    <3> QED BY <1>4, <3>1, <3>2 DEF RemoveClientFromChannels
  <2> QED BY <2>1, <2>2 DEF IdentResolves
<1> QED BY <1>1, <1>2, <1>3, <1>4, UnmixedSteps

\* As long as no join names an id and an IDENT at once, no two conferences have
\* the same IDENT and a join by IDENT finds the one that has it.
THEOREM IdentTheorem == ASSUME ~MixedJoins PROVE Spec => []IdentResolves
<1>1. Init => IdentResolves
  BY DEF Init, IdentResolves
<1>2. SafetyInv /\ IdentResolves /\ [Next]_vars => IdentResolves'
  BY IdentStep DEF SafetyInv
<1> QED BY <1>1, <1>2, SafetyIsInductive, PTL DEF Spec

=============================================================================
