---------------------------- MODULE CorConnection ----------------------------
(***************************************************************************)
(* QCorConnection of src/projects/libqtcorprotocol: the two ends of one COR  *)
(* connection over TCP.  Both ends send requests and answer the requests of  *)
(* the other; a frame goes through the send queue of its end, and requests   *)
(* are matched with responses by correlation id.                             *)
(*                                                                           *)
(* Each end is an object of one event loop.  Its slots onCurrentSendItemDone *)
(* and disconnectFromHost are invoked as posted events, in the order posted. *)
(* The parser is abstract here: it hands over whole frames.  An object is    *)
(* connected once, as by NetworkClient and QCorServer.                       *)
(***************************************************************************)
EXTENDS Naturals, FiniteSets, Sequences

CONSTANTS
  Ends,             \* the two ends of the connection
  Servers,          \* the end whose owner may disconnect on purpose
  MaxCorrelationId, \* bound of nextCorrelationId in an instance
  Breaks            \* TRUE: the network may break the connection

ASSUME EndsAssumption ==
  \A p \in Ends : \E q \in Ends \ {p} : Ends = {p, q}

ASSUME CorBoundsAssumption ==
  /\ Servers \subseteq Ends
  /\ MaxCorrelationId \in Nat
  /\ Breaks \in BOOLEAN

VARIABLES
  state,              \* QAbstractSocket::state of each end
  nextCorrelationId,  \* nextCorrelationId
  sendQueue,          \* sendQueue
  sendQueueCurrent,   \* sendQueueCurrent
  posted,             \* slots invoked with Qt::QueuedConnection, oldest first
  replies,            \* keys of replies: own requests that wait for a response
  owed,               \* requests handed to the owner and not yet answered
  wire                \* frames written by an end and not read by the other

sendVars == <<sendQueue, sendQueueCurrent, posted>>
corVars == <<state, nextCorrelationId, sendVars, replies, owed, wire>>

Other(p) == CHOOSE q \in Ends : q # p

SocketState == {"connected", "closing", "unconnected"}
CorrelationId == 1..MaxCorrelationId
Frame == [type : {"request", "response"}, id : CorrelationId]
RequestFrame(id) == [type |-> "request", id |-> id]
ResponseFrame(id) == [type |-> "response", id |-> id]
NoFrame == [type |-> "none", id |-> 0]
Slot == {"onCurrentSendItemDone", "disconnectFromHost"}

Connected(p) == state[p] = "connected"

CorInit ==
  /\ state = [p \in Ends |-> "connected"]
  /\ nextCorrelationId = [p \in Ends |-> 0]
  /\ sendQueue = [p \in Ends |-> <<>>]
  /\ sendQueueCurrent = [p \in Ends |-> NoFrame]
  /\ posted = [p \in Ends |-> <<>>]
  /\ replies = [p \in Ends |-> {}]
  /\ owed = [p \in Ends |-> {}]
  /\ wire = [p \in Ends |-> <<>>]

-----------------------------------------------------------------------------
(* Sending *)

\* What is written to a connection whose other end is gone is lost.
Write(p, f) ==
  wire' = IF state[Other(p)] = "unconnected" THEN wire
          ELSE [wire EXCEPT ![p] = Append(@, f)]

Pumps(p, queue, current) ==
  Connected(p) /\ current = NoFrame /\ queue # <<>>

\* doNextSendItem, called with the queue, the current item and the posted
\* events its caller leaves: the oldest frame is written unless another one
\* was written since the event loop last ran.  The caller may post more slots.
DoNextSendItem(p, queue, current, events, more) ==
  IF Pumps(p, queue, current)
  THEN /\ sendQueue' = [sendQueue EXCEPT ![p] = Tail(queue)]
       /\ sendQueueCurrent' = [sendQueueCurrent EXCEPT ![p] = Head(queue)]
       /\ Write(p, Head(queue))
       /\ posted' = [posted EXCEPT ![p] =
                       events \o <<"onCurrentSendItemDone">> \o more]
  ELSE /\ sendQueue' = [sendQueue EXCEPT ![p] = queue]
       /\ sendQueueCurrent' = [sendQueueCurrent EXCEPT ![p] = current]
       /\ posted' = [posted EXCEPT ![p] = events \o more]
       /\ UNCHANGED wire

\* Mutant: a frame overtakes the ones that wait.
Enqueue_MutantFront(p, f, more) ==
  DoNextSendItem(p, <<f>> \o sendQueue[p], sendQueueCurrent[p], posted[p], more)

Enqueue(p, f, more) ==
  DoNextSendItem(p, Append(sendQueue[p], f), sendQueueCurrent[p], posted[p], more)

\* Mutant: the counter is incremented after its use.
NewCorrelationId_MutantPostIncrement(p) == nextCorrelationId[p]

NewCorrelationId(p) == nextCorrelationId[p] + 1

\* A request of the owner, and the slots it invokes in the same handler.
Request(p, more) ==
  /\ Connected(p)
  /\ nextCorrelationId[p] < MaxCorrelationId
  /\ nextCorrelationId' = [nextCorrelationId EXCEPT ![p] = @ + 1]
  /\ replies' = [replies EXCEPT ![p] = @ \cup {NewCorrelationId(p)}]
  /\ Enqueue(p, RequestFrame(NewCorrelationId(p)), more)
  /\ UNCHANGED <<state, owed>>

SendRequest(p) == Request(p, <<>>)

\* Only the server disconnects on purpose.  Its pending disconnects are bounded
\* by one: a second one does nothing.
MayDisconnect(p) ==
  p \in Servers /\ \A i \in DOMAIN posted[p] : posted[p][i] # "disconnectFromHost"

\* An owner that gives the connection up tells the other end why, then has the
\* event loop call disconnectFromHost: notify.kicked, and error on a timeout.
SendLastRequest(p) ==
  /\ MayDisconnect(p)
  /\ Request(p, <<"disconnectFromHost">>)

\* The owner answers a request, at once or after an asynchronous operation,
\* and may give the connection up with its answer (a refused auth, goodbye);
\* an answer after the end of the connection is dropped.
SendResponse(p, id) ==
  /\ id \in owed[p]
  /\ owed' = [owed EXCEPT ![p] = @ \ {id}]
  /\ \/ Connected(p) /\ Enqueue(p, ResponseFrame(id), <<>>)
     \/ /\ Connected(p) /\ MayDisconnect(p)
        /\ Enqueue(p, ResponseFrame(id), <<"disconnectFromHost">>)
     \/ ~Connected(p) /\ UNCHANGED <<sendVars, wire>>
  /\ UNCHANGED <<state, nextCorrelationId, replies>>

-----------------------------------------------------------------------------
(* The event loop *)

\* Mutant: the item is released and the queue not looked at.
OnCurrentSendItemDone_MutantStops(p) ==
  /\ posted[p] # <<>> /\ Head(posted[p]) = "onCurrentSendItemDone"
  /\ sendQueueCurrent' = [sendQueueCurrent EXCEPT ![p] = NoFrame]
  /\ posted' = [posted EXCEPT ![p] = Tail(@)]
  /\ UNCHANGED <<state, nextCorrelationId, sendQueue, replies, owed, wire>>

OnCurrentSendItemDone(p) ==
  /\ posted[p] # <<>> /\ Head(posted[p]) = "onCurrentSendItemDone"
  /\ DoNextSendItem(p, sendQueue[p], NoFrame, Tail(posted[p]), <<>>)
  /\ UNCHANGED <<state, nextCorrelationId, replies, owed>>

\* QTcpSocket closes when what was written is flushed.
DisconnectFromHost(p) ==
  /\ posted[p] # <<>> /\ Head(posted[p]) = "disconnectFromHost"
  /\ posted' = [posted EXCEPT ![p] = Tail(@)]
  /\ state' = [state EXCEPT ![p] = IF Connected(p) THEN "closing" ELSE @]
  /\ UNCHANGED <<nextCorrelationId, sendQueue, sendQueueCurrent, replies,
                 owed, wire>>

-----------------------------------------------------------------------------
(* Receiving *)

\* Mutant: every frame is taken for the response to a request of this end.
OnParserFrameEnd_MutantAnyType(p, f) ==
  /\ replies' = [replies EXCEPT ![p] = @ \ {f.id}]
  /\ owed' = IF f.type = "request" THEN [owed EXCEPT ![p] = @ \cup {f.id}]
             ELSE owed

\* onParserFrameEnd hands a request to the owner and a response to its reply.
OnParserFrameEnd(p, f) ==
  CASE f.type = "request" ->
         owed' = [owed EXCEPT ![p] = @ \cup {f.id}] /\ UNCHANGED replies
    [] f.type = "response" ->
         replies' = [replies EXCEPT ![p] = @ \ {f.id}] /\ UNCHANGED owed

OnSocketReadyRead(p) ==
  /\ state[p] # "unconnected"
  /\ wire[Other(p)] # <<>>
  /\ wire' = [wire EXCEPT ![Other(p)] = Tail(@)]
  /\ OnParserFrameEnd(p, Head(wire[Other(p)]))
  /\ UNCHANGED <<state, nextCorrelationId, sendVars>>

-----------------------------------------------------------------------------
(* The end of the connection *)

\* What is on its way to an end that is gone is lost.  The queues of the end
\* stay as they are, and so do its replies.
Unconnect(S) ==
  /\ state' = [p \in Ends |-> IF p \in S THEN "unconnected" ELSE state[p]]
  /\ wire' = [p \in Ends |-> IF Other(p) \in S THEN <<>> ELSE wire[p]]
  /\ UNCHANGED <<nextCorrelationId, sendVars, replies, owed>>

\* An end that closes is done, or finds that the other one closed before.
Closed(p) ==
  \/ state[p] = "closing" /\ Unconnect({p})
  \/ Connected(p) /\ ~Connected(Other(p)) /\ wire[Other(p)] = <<>>
     /\ Unconnect({p})

\* The network breaks the connection, or an owner deletes its end: one end may
\* notice before the other.
Broken(S) ==
  /\ Breaks
  /\ \E p \in S : state[p] # "unconnected"
  /\ Unconnect(S)

-----------------------------------------------------------------------------
EventLoop(p) ==
  \/ OnCurrentSendItemDone(p)
  \/ DisconnectFromHost(p)
  \/ OnSocketReadyRead(p)
  \/ Closed(p)

Answer(p) == \E id \in CorrelationId : SendResponse(p, id)

CorNext ==
  \/ \E p \in Ends :
       SendRequest(p) \/ SendLastRequest(p) \/ Answer(p) \/ EventLoop(p)
  \/ \E S \in SUBSET Ends : Broken(S)

CorSpec == CorInit /\ [][CorNext]_corVars

\* The event loops go round, and owners answer the requests they were handed.
CorFairSpec ==
  /\ CorSpec
  /\ \A p \in Ends :
       /\ WF_corVars(OnCurrentSendItemDone(p) \/ DisconnectFromHost(p))
       /\ WF_corVars(OnSocketReadyRead(p))
       /\ WF_corVars(Answer(p))

-----------------------------------------------------------------------------
(* Properties *)

FramesOf(s) == {s[i] : i \in DOMAIN s}

CorTypeOK ==
  /\ state \in [Ends -> SocketState]
  /\ nextCorrelationId \in [Ends -> 0..MaxCorrelationId]
  /\ sendQueue \in [Ends -> Seq(Frame)]
  /\ sendQueueCurrent \in [Ends -> Frame \cup {NoFrame}]
  /\ posted \in [Ends -> Seq(Slot)]
  /\ replies \in [Ends -> SUBSET CorrelationId]
  /\ owed \in [Ends -> SUBSET CorrelationId]
  /\ wire \in [Ends -> Seq(Frame)]

\* The send queue never sleeps on a frame: while an item is current, the event
\* that releases it is posted, and nothing waits without a current item.
SendQueueAwake ==
  \A p \in Ends :
    /\ sendQueueCurrent[p] # NoFrame =>
         "onCurrentSendItemDone" \in FramesOf(posted[p])
    /\ Connected(p) /\ sendQueue[p] # <<>> => sendQueueCurrent[p] # NoFrame

\* Where the answer to a request of p is: the request waits or travels, the
\* other end's owner works on it, or the response waits or travels.
Places(p, id) ==
  {place \in {"request", "owed", "response"} :
     CASE place = "request" ->
            RequestFrame(id) \in FramesOf(sendQueue[p] \o wire[p])
       [] place = "owed" -> id \in owed[Other(p)]
       [] place = "response" ->
            ResponseFrame(id) \in
              FramesOf(sendQueue[Other(p)] \o wire[Other(p)])}

\* While both ends are connected, a reply waits exactly as long as its request
\* or the response is in one place: none is lost, none is answered twice, and
\* requests of the two ends with the same correlation id are not mixed up.
RepliesAccountedFor ==
  (\A p \in Ends : Connected(p)) =>
    \A p \in Ends, id \in CorrelationId :
      Cardinality(Places(p, id)) = IF id \in replies[p] THEN 1 ELSE 0

\* What an end posts and the other has not taken: nothing waits for an end that
\* is gone, and a queue is never written once its end is not connected.
InFlight ==
  [p \in Ends |->
     IF state[Other(p)] = "unconnected" THEN <<>>
     ELSE wire[p] \o (IF Connected(p) THEN sendQueue[p] ELSE <<>>)]

CutEnds ==
  {p \in Ends : ~Connected(p) \/ state[Other(p)] = "unconnected"}

\* The connection is a channel: frames arrive in the order they were sent, each
\* once, and the end of the connection only loses the last ones.
Channel == INSTANCE FrameChannel WITH line <- InFlight, cut <- CutEnds

ChannelSpec == Channel!Spec

\* A reply finishes, unless the connection ends: "The returning QCorReply*
\* emits it's finished() signal, as soon as the remote host responds."
RepliesFinish ==
  \A p \in Ends, id \in CorrelationId :
    id \in replies[p] ~>
      (id \notin replies[p] \/ \E q \in Ends : ~Connected(q))

=============================================================================
