-------------------------- MODULE CorConnectionProofs --------------------------
(***************************************************************************)
(* The two ends of a COR connection, for any number of requests and any break *)
(* of the connection: type correctness; the send queue of an end never sleeps *)
(* on a frame; the ends implement FrameChannel; every reply of a connection   *)
(* that lasts is accounted for.                                               *)
(***************************************************************************)
EXTENDS CorConnection, SequenceTheorems, FiniteSetTheorems, TLAPS

LEMMA OtherEnd ==
  ASSUME NEW p \in Ends
  PROVE  /\ Other(p) \in Ends /\ Other(p) # p
         /\ Ends = {p, Other(p)}
         /\ Other(Other(p)) = p
<1>1. PICK q \in Ends \ {p} : Ends = {p, q}
  BY EndsAssumption
<1>2. Other(p) = q
  BY <1>1 DEF Other
<1>3. Other(q) = p
  BY <1>1 DEF Other
<1> QED BY <1>1, <1>2, <1>3

LEMMA FramesAreFrames ==
  /\ \A id \in CorrelationId : RequestFrame(id) \in Frame /\ ResponseFrame(id) \in Frame
  /\ NoFrame \notin Frame
BY DEF Frame, NoFrame, RequestFrame, ResponseFrame

\* What doNextSendItem leaves in the state, posted slots in their order.
LEMMA SendTypes ==
  ASSUME CorTypeOK, NEW p \in Ends,
         NEW queue \in Seq(Frame), NEW current \in Frame \cup {NoFrame},
         NEW events \in Seq(Slot), NEW more \in Seq(Slot),
         DoNextSendItem(p, queue, current, events, more)
  PROVE  /\ sendQueue' \in [Ends -> Seq(Frame)]
         /\ sendQueueCurrent' \in [Ends -> Frame \cup {NoFrame}]
         /\ posted' \in [Ends -> Seq(Slot)]
         /\ wire' \in [Ends -> Seq(Frame)]
<1>1. CASE Pumps(p, queue, current)
  <2>1. Head(queue) \in Frame /\ Tail(queue) \in Seq(Frame)
    BY <1>1 DEF Pumps
  <2>2. events \o <<"onCurrentSendItemDone">> \o more \in Seq(Slot)
    BY DEF Slot
  <2>3. wire' \in [Ends -> Seq(Frame)]
    <3>1. wire \in [Ends -> Seq(Frame)] /\ wire[p] \in Seq(Frame)
      BY DEF CorTypeOK
    <3>2. Append(wire[p], Head(queue)) \in Seq(Frame)
      BY <2>1, <3>1
    <3>3. wire' = wire \/ wire' = [wire EXCEPT ![p] = Append(@, Head(queue))]
      BY <1>1 DEF DoNextSendItem, Write
    <3> QED BY <3>1, <3>2, <3>3
  <2>4. sendQueue' \in [Ends -> Seq(Frame)]
    BY <1>1, <2>1 DEF DoNextSendItem, CorTypeOK
  <2>5. sendQueueCurrent' \in [Ends -> Frame \cup {NoFrame}]
    BY <1>1, <2>1 DEF DoNextSendItem, CorTypeOK
  <2> DEFINE slots == events \o <<"onCurrentSendItemDone">> \o more
  <2>6. posted' = [posted EXCEPT ![p] = slots]
    BY <1>1 DEF DoNextSendItem
  <2>7. slots \in Seq(Slot)
    BY <2>2
  <2> HIDE DEF slots
  <2>8. posted' \in [Ends -> Seq(Slot)]
    BY <2>6, <2>7 DEF CorTypeOK
  <2> QED BY <2>3, <2>4, <2>5, <2>8
<1>2. CASE ~Pumps(p, queue, current)
  <2>1. events \o more \in Seq(Slot)
    OBVIOUS
  <2> QED BY <1>2, <2>1 DEF DoNextSendItem, CorTypeOK
<1> QED BY <1>1, <1>2

LEMMA MoreSlots ==
  ASSUME NEW more \in {<<>>, <<"disconnectFromHost">>}
  PROVE  more \in Seq(Slot)
<1>1. <<>> \in Seq(Slot) /\ <<"disconnectFromHost">> \in Seq(Slot)
  BY DEF Slot
<1> QED BY <1>1

LEMMA EnqueueTypes ==
  ASSUME CorTypeOK, NEW p \in Ends, NEW f \in Frame,
         NEW more \in {<<>>, <<"disconnectFromHost">>}, Enqueue(p, f, more)
  PROVE  /\ sendQueue' \in [Ends -> Seq(Frame)]
         /\ sendQueueCurrent' \in [Ends -> Frame \cup {NoFrame}]
         /\ posted' \in [Ends -> Seq(Slot)]
         /\ wire' \in [Ends -> Seq(Frame)]
<1>1. /\ Append(sendQueue[p], f) \in Seq(Frame) /\ posted[p] \in Seq(Slot)
      /\ sendQueueCurrent[p] \in Frame \cup {NoFrame}
  BY DEF CorTypeOK
<1> QED BY <1>1, MoreSlots, SendTypes DEF Enqueue

\* The slots of the event loop and the requests and answers of the owner, with
\* the slots the owner may invoke behind them.
LEMMA StepsByKind ==
  ASSUME CorNext
  PROVE  \/ \E p \in Ends, more \in {<<>>, <<"disconnectFromHost">>} : Request(p, more)
         \/ \E p \in Ends, id \in CorrelationId : SendResponse(p, id)
         \/ \E p \in Ends : \/ OnCurrentSendItemDone(p)
                            \/ DisconnectFromHost(p)
                            \/ OnSocketReadyRead(p)
         \/ \E S \in SUBSET Ends : Unconnect(S)
BY DEF CorNext, SendRequest, SendLastRequest, Answer, EventLoop, Closed, Broken

LEMMA RequestTypes ==
  ASSUME CorTypeOK, NEW p \in Ends,
         NEW more \in {<<>>, <<"disconnectFromHost">>}, Request(p, more)
  PROVE  CorTypeOK' /\ NewCorrelationId(p) \in CorrelationId
<1>1. NewCorrelationId(p) \in CorrelationId
  BY CorBoundsAssumption DEF CorTypeOK, Request, NewCorrelationId, CorrelationId
<1>2. /\ sendQueue' \in [Ends -> Seq(Frame)]
      /\ sendQueueCurrent' \in [Ends -> Frame \cup {NoFrame}]
      /\ posted' \in [Ends -> Seq(Slot)]
      /\ wire' \in [Ends -> Seq(Frame)]
  BY <1>1, EnqueueTypes, FramesAreFrames DEF Request
<1>3. nextCorrelationId' \in [Ends -> 0..MaxCorrelationId]
  BY CorBoundsAssumption DEF CorTypeOK, Request
<1>4. replies' \in [Ends -> SUBSET CorrelationId]
  BY <1>1 DEF CorTypeOK, Request
<1> QED BY <1>1, <1>2, <1>3, <1>4 DEF CorTypeOK, Request

LEMMA ResponseTypes ==
  ASSUME CorTypeOK, NEW p \in Ends, NEW id \in CorrelationId, SendResponse(p, id)
  PROVE  CorTypeOK'
<1>1. owed' \in [Ends -> SUBSET CorrelationId]
  BY DEF CorTypeOK, SendResponse
<1>2. CASE UNCHANGED <<sendVars, wire>>
  BY <1>1, <1>2 DEF CorTypeOK, SendResponse, sendVars
<1>3. ASSUME NEW more \in {<<>>, <<"disconnectFromHost">>},
             Enqueue(p, ResponseFrame(id), more)
      PROVE  CorTypeOK'
  <2>1. /\ sendQueue' \in [Ends -> Seq(Frame)]
        /\ sendQueueCurrent' \in [Ends -> Frame \cup {NoFrame}]
        /\ posted' \in [Ends -> Seq(Slot)]
        /\ wire' \in [Ends -> Seq(Frame)]
    BY <1>3, EnqueueTypes, FramesAreFrames
  <2> QED BY <1>1, <2>1 DEF CorTypeOK, SendResponse
<1> QED BY <1>2, <1>3 DEF SendResponse

LEMMA ReadTypes ==
  ASSUME CorTypeOK, NEW p \in Ends, OnSocketReadyRead(p)
  PROVE  CorTypeOK' /\ Head(wire[Other(p)]) \in Frame
<1>1. /\ Other(p) \in Ends /\ wire[Other(p)] \in Seq(Frame)
      /\ wire[Other(p)] # <<>>
  BY OtherEnd DEF CorTypeOK, OnSocketReadyRead
<1>2. /\ Head(wire[Other(p)]) \in Frame
      /\ Tail(wire[Other(p)]) \in Seq(Frame)
  BY <1>1
<1>3. wire' \in [Ends -> Seq(Frame)]
  BY <1>1, <1>2 DEF CorTypeOK, OnSocketReadyRead
<1>4. /\ replies' \in [Ends -> SUBSET CorrelationId]
      /\ owed' \in [Ends -> SUBSET CorrelationId]
  <2> DEFINE f == Head(wire[Other(p)])
  <2>1. f.type \in {"request", "response"} /\ f.id \in CorrelationId
    BY <1>2 DEF Frame
  <2>2. \/ f.type = "request" /\ owed' = [owed EXCEPT ![p] = @ \cup {f.id}]
             /\ UNCHANGED replies
        \/ f.type = "response" /\ replies' = [replies EXCEPT ![p] = @ \ {f.id}]
             /\ UNCHANGED owed
    BY <2>1 DEF OnSocketReadyRead, OnParserFrameEnd
  <2> QED BY <2>1, <2>2 DEF CorTypeOK
<1> QED BY <1>2, <1>3, <1>4 DEF CorTypeOK, OnSocketReadyRead, sendVars

LEMMA TypesKept ==
  ASSUME CorTypeOK, [CorNext]_corVars
  PROVE  CorTypeOK'
<1>1. ASSUME NEW p \in Ends, OnCurrentSendItemDone(p)
      PROVE  CorTypeOK'
  <2>1. sendQueue[p] \in Seq(Frame) /\ Tail(posted[p]) \in Seq(Slot) /\ <<>> \in Seq(Slot)
    BY <1>1 DEF CorTypeOK, OnCurrentSendItemDone
  <2> QED BY <1>1, <2>1, SendTypes DEF CorTypeOK, OnCurrentSendItemDone
<1>2. ASSUME NEW p \in Ends, DisconnectFromHost(p)
      PROVE  CorTypeOK'
  <2>1. Tail(posted[p]) \in Seq(Slot)
    BY <1>2 DEF CorTypeOK, DisconnectFromHost
  <2> QED BY <1>2, <2>1 DEF CorTypeOK, DisconnectFromHost, SocketState
<1>3. ASSUME NEW S \in SUBSET Ends, Unconnect(S)
      PROVE  CorTypeOK'
  BY <1>3 DEF CorTypeOK, Unconnect, sendVars, SocketState
<1>4. CASE UNCHANGED corVars
  BY <1>4 DEF CorTypeOK, corVars, sendVars
<1> QED BY <1>1, <1>2, <1>3, <1>4, StepsByKind, RequestTypes, ResponseTypes, ReadTypes

\* The state of both ends, their queues and what is on its way keeps its shape.
THEOREM CorTypesTheorem == CorSpec => []CorTypeOK
<1>1. CorInit => CorTypeOK
  BY CorBoundsAssumption DEF CorInit, CorTypeOK, SocketState
<1>2. CorTypeOK /\ [CorNext]_corVars => CorTypeOK'
  BY TypesKept
<1> QED BY <1>1, <1>2, PTL DEF CorSpec

(* The send queue *)

AwakeAt(p) ==
  /\ sendQueueCurrent[p] # NoFrame => "onCurrentSendItemDone" \in FramesOf(posted[p])
  /\ Connected(p) /\ sendQueue[p] # <<>> => sendQueueCurrent[p] # NoFrame

LEMMA ConcatFrames ==
  ASSUME NEW S, NEW s \in Seq(S), NEW t \in Seq(S)
  PROVE  FramesOf(s \o t) = FramesOf(s) \cup FramesOf(t)
<1>1. /\ Len(s) \in Nat /\ Len(t) \in Nat
      /\ DOMAIN (s \o t) = 1..(Len(s) + Len(t))
      /\ DOMAIN s = 1..Len(s) /\ DOMAIN t = 1..Len(t)
      /\ \A i \in DOMAIN s : (s \o t)[i] = s[i]
      /\ \A i \in DOMAIN t : (s \o t)[Len(s) + i] = t[i]
  OBVIOUS
<1>2. \A i \in DOMAIN (s \o t) : i \in DOMAIN s \/ i - Len(s) \in DOMAIN t
  BY <1>1
<1>3. FramesOf(s \o t) \subseteq FramesOf(s) \cup FramesOf(t)
  BY <1>1, <1>2 DEF FramesOf
<1>4. FramesOf(s) \subseteq FramesOf(s \o t)
  BY <1>1 DEF FramesOf
<1>5. \A i \in DOMAIN t : Len(s) + i \in DOMAIN (s \o t)
  BY <1>1
<1>6. FramesOf(t) \subseteq FramesOf(s \o t)
  BY <1>1, <1>5 DEF FramesOf
<1> QED BY <1>3, <1>4, <1>6

\* doNextSendItem wakes its queue, whatever it is called with, if the release
\* of the current item is among the events it leaves.
LEMMA SendAwakes ==
  ASSUME CorTypeOK, NEW p \in Ends, UNCHANGED state,
         NEW queue \in Seq(Frame), NEW current \in Frame \cup {NoFrame},
         NEW events \in Seq(Slot), NEW more \in Seq(Slot),
         current # NoFrame => "onCurrentSendItemDone" \in FramesOf(events),
         DoNextSendItem(p, queue, current, events, more)
  PROVE  AwakeAt(p)'
<1>1. CASE Pumps(p, queue, current)
  <2>1. /\ posted'[p] = events \o <<"onCurrentSendItemDone">> \o more
        /\ sendQueueCurrent'[p] = Head(queue)
    BY <1>1 DEF DoNextSendItem, CorTypeOK
  <2>2. Head(queue) # NoFrame
    BY <1>1, FramesAreFrames DEF Pumps
  <2>3. "onCurrentSendItemDone" \in FramesOf(posted'[p])
    <3>1. /\ <<"onCurrentSendItemDone">> \in Seq(Slot)
          /\ events \o <<"onCurrentSendItemDone">> \in Seq(Slot)
          /\ "onCurrentSendItemDone" \in FramesOf(<<"onCurrentSendItemDone">>)
      BY DEF Slot, FramesOf
    <3>2. "onCurrentSendItemDone" \in FramesOf(events \o <<"onCurrentSendItemDone">>)
      <4> DEFINE release == <<"onCurrentSendItemDone">>
      <4>1. release \in Seq(Slot) /\ "onCurrentSendItemDone" \in FramesOf(release)
        BY <3>1
      <4> HIDE DEF release
      <4>2. "onCurrentSendItemDone" \in FramesOf(events \o release)
        BY <4>1, ConcatFrames
      <4> QED BY <4>2 DEF release
    <3> DEFINE released == events \o <<"onCurrentSendItemDone">>
    <3>3. "onCurrentSendItemDone" \in FramesOf(released) /\ released \in Seq(Slot)
      BY <3>1, <3>2
    <3>4. posted'[p] = released \o more
      BY <2>1
    <3> HIDE DEF released
    <3> QED BY <3>3, <3>4, ConcatFrames
  <2> QED BY <2>1, <2>2, <2>3 DEF AwakeAt, FramesOf
<1>2. CASE ~Pumps(p, queue, current)
  <2>1. /\ posted'[p] = events \o more
        /\ sendQueueCurrent'[p] = current /\ sendQueue'[p] = queue
    BY <1>2 DEF DoNextSendItem, CorTypeOK
  <2>2. current # NoFrame => "onCurrentSendItemDone" \in FramesOf(posted'[p])
    BY <2>1, ConcatFrames
  <2> QED BY <1>2, <2>1, <2>2 DEF AwakeAt, FramesOf, Pumps, Connected
<1> QED BY <1>1, <1>2

LEMMA TailKeeps ==
  ASSUME NEW s \in Seq(Slot), s # <<>>, NEW slot \in FramesOf(s), slot # Head(s)
  PROVE  slot \in FramesOf(Tail(s))
<1>1. PICK i \in DOMAIN s : s[i] = slot
  BY DEF FramesOf
<1>2. i # 1 /\ i \in 1..Len(s)
  BY <1>1
<1>3. i - 1 \in DOMAIN Tail(s) /\ Tail(s)[i - 1] = s[i]
  BY <1>2
<1> QED BY <1>1, <1>3 DEF FramesOf

LEMMA SendLeavesOthers ==
  ASSUME CorTypeOK, NEW p \in Ends, NEW queue, NEW current, NEW events, NEW more,
         DoNextSendItem(p, queue, current, events, more)
  PROVE  \A q \in Ends \ {p} : /\ sendQueue'[q] = sendQueue[q]
                               /\ sendQueueCurrent'[q] = sendQueueCurrent[q]
                               /\ posted'[q] = posted[q]
                               /\ wire'[q] = wire[q]
BY DEF DoNextSendItem, Write, CorTypeOK

LEMMA EnqueueAwakes ==
  ASSUME CorTypeOK, SendQueueAwake, NEW p \in Ends, NEW f \in Frame, UNCHANGED state,
         NEW more \in {<<>>, <<"disconnectFromHost">>}, Enqueue(p, f, more)
  PROVE  SendQueueAwake'
<1>1. /\ Append(sendQueue[p], f) \in Seq(Frame) /\ posted[p] \in Seq(Slot)
      /\ sendQueueCurrent[p] \in Frame \cup {NoFrame}
  BY DEF CorTypeOK
<1>2. more \in Seq(Slot)
  BY MoreSlots
<1>3. AwakeAt(p)'
  BY <1>1, <1>2, SendAwakes DEF Enqueue, SendQueueAwake
<1>4. \A q \in Ends \ {p} : AwakeAt(q)'
  BY SendLeavesOthers DEF Enqueue, SendQueueAwake, AwakeAt, FramesOf, Connected
<1> QED BY <1>3, <1>4 DEF SendQueueAwake, AwakeAt

LEMMA AwakeKept ==
  ASSUME CorTypeOK, SendQueueAwake, [CorNext]_corVars
  PROVE  SendQueueAwake'
<1>1. ASSUME NEW p \in Ends, NEW more \in {<<>>, <<"disconnectFromHost">>},
             Request(p, more)
      PROVE  SendQueueAwake'
  BY <1>1, EnqueueAwakes, RequestTypes, FramesAreFrames DEF Request
<1>2. ASSUME NEW p \in Ends, NEW id \in CorrelationId, SendResponse(p, id)
      PROVE  SendQueueAwake'
  <2>1. CASE UNCHANGED <<sendVars, wire>>
    BY <1>2, <2>1 DEF SendResponse, sendVars, SendQueueAwake, Connected, FramesOf
  <2>2. CASE \E more \in {<<>>, <<"disconnectFromHost">>} :
               Enqueue(p, ResponseFrame(id), more)
    BY <1>2, <2>2, EnqueueAwakes, FramesAreFrames DEF SendResponse
  <2> QED BY <1>2, <2>1, <2>2 DEF SendResponse
<1>3. ASSUME NEW p \in Ends, OnCurrentSendItemDone(p)
      PROVE  SendQueueAwake'
  <2>1. /\ sendQueue[p] \in Seq(Frame) /\ Tail(posted[p]) \in Seq(Slot)
        /\ <<>> \in Seq(Slot)
    BY <1>3 DEF CorTypeOK, OnCurrentSendItemDone
  <2>2. AwakeAt(p)'
    BY <1>3, <2>1, SendAwakes DEF OnCurrentSendItemDone
  <2>3. \A q \in Ends \ {p} : AwakeAt(q)'
    BY <1>3, SendLeavesOthers
       DEF OnCurrentSendItemDone, SendQueueAwake, AwakeAt, FramesOf, Connected
  <2> QED BY <2>2, <2>3 DEF SendQueueAwake, AwakeAt
<1>4. ASSUME NEW p \in Ends, DisconnectFromHost(p)
      PROVE  SendQueueAwake'
  <2>1. /\ posted[p] \in Seq(Slot) /\ posted[p] # <<>>
        /\ Head(posted[p]) = "disconnectFromHost"
        /\ posted'[p] = Tail(posted[p])
    BY <1>4 DEF DisconnectFromHost, CorTypeOK
  <2>3. "onCurrentSendItemDone" \in FramesOf(posted[p])
          => "onCurrentSendItemDone" \in FramesOf(posted'[p])
    BY <2>1, TailKeeps
  <2>4. AwakeAt(p)'
    BY <1>4, <2>3 DEF DisconnectFromHost, SendQueueAwake, AwakeAt, FramesOf,
       Connected, CorTypeOK
  <2>5. \A q \in Ends \ {p} : AwakeAt(q)'
    BY <1>4 DEF DisconnectFromHost, SendQueueAwake, AwakeAt, FramesOf, Connected,
       CorTypeOK
  <2> QED BY <2>4, <2>5 DEF SendQueueAwake, AwakeAt
<1>5. ASSUME NEW p \in Ends, OnSocketReadyRead(p)
      PROVE  SendQueueAwake'
  BY <1>5 DEF OnSocketReadyRead, sendVars, SendQueueAwake, Connected, FramesOf
<1>6. ASSUME NEW S \in SUBSET Ends, Unconnect(S)
      PROVE  SendQueueAwake'
  BY <1>6 DEF Unconnect, sendVars, SendQueueAwake, Connected, FramesOf
<1>7. CASE UNCHANGED corVars
  BY <1>7 DEF corVars, sendVars, SendQueueAwake, Connected, FramesOf
<1> QED BY <1>1, <1>2, <1>3, <1>4, <1>5, <1>6, <1>7, StepsByKind

\* The send queue of an end never sleeps on a frame: while an item is current its
\* release is posted to the event loop, and nothing waits without a current item,
\* however requests, answers, slots and breaks follow each other
\* (qcorconnection.cpp, doNextSendItem and onCurrentSendItemDone).
THEOREM AwakeQueueTheorem == CorSpec => []SendQueueAwake
<1>1. CorInit => SendQueueAwake
  BY DEF CorInit, SendQueueAwake
<1>2. CorTypeOK /\ SendQueueAwake /\ [CorNext]_corVars => SendQueueAwake'
  BY AwakeKept
<1> QED BY <1>1, <1>2, CorTypesTheorem, PTL DEF CorSpec

-----------------------------------------------------------------------------
(* The refinement and the replies rest on what each step does to InFlight, the *)
(* frames of an end that the other has not taken.                             *)

(* Sequences of frames *)

\* A frame that moves from the queue to the wire stays where it was on its way.
LEMMA ShiftHead ==
  ASSUME NEW w \in Seq(Frame), NEW q \in Seq(Frame), q # <<>>
  PROVE  Append(w, Head(q)) \o Tail(q) = w \o q
<1>1. /\ Append(w, Head(q)) \o Tail(q) \in Seq(Frame)
      /\ w \o q \in Seq(Frame)
      /\ Len(Append(w, Head(q)) \o Tail(q)) = Len(w \o q)
      /\ Len(w \o q) \in Nat
  OBVIOUS
<1>2. \A i \in 1..Len(w \o q) : (Append(w, Head(q)) \o Tail(q))[i] = (w \o q)[i]
  OBVIOUS
<1> HIDE DEF Frame
<1> QED BY <1>1, <1>2, SeqEqual

LEMMA ConcatAppend ==
  ASSUME NEW w \in Seq(Frame), NEW q \in Seq(Frame), NEW f \in Frame
  PROVE  w \o Append(q, f) = Append(w \o q, f)
<1>1. /\ w \o Append(q, f) \in Seq(Frame)
      /\ Append(w \o q, f) \in Seq(Frame)
      /\ Len(w \o Append(q, f)) = Len(Append(w \o q, f))
  OBVIOUS
<1>2. \A i \in 1..Len(w \o Append(q, f)) : (w \o Append(q, f))[i] = Append(w \o q, f)[i]
  OBVIOUS
<1> QED BY <1>1, <1>2, SeqEqual

LEMMA ConcatTail ==
  ASSUME NEW w \in Seq(Frame), NEW q \in Seq(Frame), w # <<>>
  PROVE  /\ Tail(w) \o q = Tail(w \o q)
         /\ Tail(w \o q) = SubSeq(w \o q, 2, Len(w \o q))
         /\ Head(w \o q) = Head(w)
         /\ w \o q \in Seq(Frame) /\ w \o q # <<>>
         /\ 1 \in 1..Len(w \o q)
<1>1. /\ w \o q \in Seq(Frame) /\ w \o q # <<>>
      /\ Len(w \o q) = Len(w) + Len(q) /\ Len(w) \in Nat \ {0} /\ Len(q) \in Nat
      /\ Head(w \o q) = Head(w)
  OBVIOUS
<1>2. Tail(w \o q) = SubSeq(w \o q, 2, Len(w \o q))
  BY <1>1, TailIsSubSeq
<1>3. /\ Tail(w) \o q \in Seq(Frame) /\ Tail(w \o q) \in Seq(Frame)
      /\ Len(Tail(w) \o q) = Len(Tail(w \o q))
  BY <1>1
<1>4. \A i \in 1..Len(Tail(w) \o q) : (Tail(w) \o q)[i] = Tail(w \o q)[i]
  BY <1>1
<1>5. Tail(w) \o q = Tail(w \o q)
  BY <1>3, <1>4, SeqEqual
<1> QED BY <1>1, <1>2, <1>5

LEMMA ConcatPrefix ==
  ASSUME NEW w \in Seq(Frame), NEW q \in Seq(Frame)
  PROVE  /\ w \o <<>> = w
         /\ Len(w) \in 0..Len(w \o q)
         /\ w = SubSeq(w \o q, 1, Len(w))
         /\ <<>> = SubSeq(w \o q, 1, 0)
         /\ w \o q = SubSeq(w \o q, 1, Len(w \o q))
<1>1. /\ w \o q \in Seq(Frame) /\ Len(w) \in Nat /\ Len(q) \in Nat
      /\ Len(w \o q) = Len(w) + Len(q)
  OBVIOUS
<1>2. /\ SubSeq(w \o q, 1, Len(w)) \in Seq(Frame)
      /\ Len(SubSeq(w \o q, 1, Len(w))) = Len(w)
      /\ \A i \in 1..Len(w) : SubSeq(w \o q, 1, Len(w))[i] = w[i]
  BY <1>1
<1>3. w = SubSeq(w \o q, 1, Len(w))
  BY <1>2, SeqEqual
<1> QED BY <1>1, <1>3, ConcatEmptySeq, SubSeqEmpty, SubSeqFull

(* What is on its way *)

LEMMA Lines ==
  ASSUME CorTypeOK
  PROVE  /\ InFlight \in [Ends -> Seq(Frame)]
         /\ CutEnds \subseteq Ends
BY DEF InFlight, CorTypeOK, CutEnds

LEMMA LineOf ==
  ASSUME CorTypeOK, NEW p \in Ends
  PROVE  /\ state[Other(p)] = "unconnected" => InFlight[p] = <<>>
         /\ state[Other(p)] # "unconnected" /\ Connected(p)
              => InFlight[p] = wire[p] \o sendQueue[p]
         /\ state[Other(p)] # "unconnected" /\ ~Connected(p) => InFlight[p] = wire[p]
<1>1. wire[p] \in Seq(Frame)
  BY DEF CorTypeOK
<1> QED BY <1>1, ConcatEmptySeq DEF InFlight

\* doNextSendItem posts what it was called with beyond the old queue.
LEMMA SendLine ==
  ASSUME CorTypeOK, CorTypeOK', NEW p \in Ends, UNCHANGED state,
         NEW queue \in Seq(Frame), NEW current, NEW events, NEW more,
         DoNextSendItem(p, queue, current, events, more)
  PROVE  /\ \A r \in Ends \ {p} : InFlight'[r] = InFlight[r]
         /\ state[Other(p)] # "unconnected" /\ Connected(p)
              => InFlight'[p] = wire[p] \o queue
         /\ state[Other(p)] = "unconnected" \/ ~Connected(p)
              => InFlight'[p] = InFlight[p]
         /\ CutEnds' = CutEnds
<1>1. CutEnds' = CutEnds
  BY DEF CutEnds, Connected
<1>2. \A r \in Ends \ {p} : InFlight'[r] = InFlight[r]
  BY SendLeavesOthers DEF InFlight, Connected
<1>3. ASSUME state[Other(p)] # "unconnected", Connected(p)
      PROVE  InFlight'[p] = wire[p] \o queue
  <2>1. InFlight'[p] = wire'[p] \o sendQueue'[p]
    BY <1>3 DEF InFlight, Connected
  <2>2. CASE Pumps(p, queue, current)
    <3>1. /\ wire'[p] = Append(wire[p], Head(queue)) /\ sendQueue'[p] = Tail(queue)
          /\ queue # <<>> /\ wire[p] \in Seq(Frame)
      BY <1>3, <2>2 DEF DoNextSendItem, Write, Pumps, CorTypeOK
    <3> QED BY <2>1, <3>1, ShiftHead
  <2>3. CASE ~Pumps(p, queue, current)
    BY <2>1, <2>3 DEF DoNextSendItem, CorTypeOK
  <2> QED BY <2>2, <2>3
<1>4. CASE state[Other(p)] = "unconnected"
  BY <1>1, <1>2, <1>4 DEF InFlight
<1>5. ASSUME state[Other(p)] # "unconnected", ~Connected(p)
      PROVE  InFlight'[p] = InFlight[p]
  BY <1>5 DEF InFlight, Connected, DoNextSendItem, Pumps
<1> QED BY <1>1, <1>2, <1>3, <1>4, <1>5 DEF InFlight

LEMMA EnqueueStep ==
  ASSUME CorTypeOK, CorTypeOK', NEW p \in Ends, NEW f \in Frame, NEW more,
         UNCHANGED state, Connected(p), Enqueue(p, f, more)
  PROVE  \/ Channel!Post(p, f)
         \/ state[Other(p)] = "unconnected" /\ UNCHANGED <<InFlight, CutEnds>>
<1>1. /\ sendQueue[p] \in Seq(Frame) /\ wire[p] \in Seq(Frame)
      /\ Append(sendQueue[p], f) \in Seq(Frame)
  BY DEF CorTypeOK
<1>2. /\ \A r \in Ends \ {p} : InFlight'[r] = InFlight[r]
      /\ state[Other(p)] # "unconnected"
           => InFlight'[p] = wire[p] \o Append(sendQueue[p], f)
      /\ state[Other(p)] = "unconnected" => InFlight'[p] = InFlight[p]
      /\ CutEnds' = CutEnds
  BY <1>1, SendLine DEF Enqueue
<1>3. InFlight \in [Ends -> Seq(Frame)] /\ InFlight' \in [Ends -> Seq(Frame)]
  BY Lines DEF InFlight, CorTypeOK
<1>4. CASE state[Other(p)] = "unconnected"
  BY <1>2, <1>3, <1>4
<1>5. CASE state[Other(p)] # "unconnected"
  <2>1. InFlight'[p] = Append(InFlight[p], f)
    BY <1>1, <1>2, <1>5, LineOf, ConcatAppend
  <2>2. p \notin CutEnds
    BY <1>5 DEF CutEnds
  <2> QED BY <1>2, <1>3, <2>1, <2>2 DEF Channel!Post
<1> QED BY <1>4, <1>5

LEMMA DoneStep ==
  ASSUME CorTypeOK, CorTypeOK', NEW p \in Ends, OnCurrentSendItemDone(p)
  PROVE  UNCHANGED <<InFlight, CutEnds>>
<1>1. sendQueue[p] \in Seq(Frame) /\ UNCHANGED state
  BY DEF CorTypeOK, OnCurrentSendItemDone
<1>2. /\ \A r \in Ends : InFlight'[r] = InFlight[r]
      /\ CutEnds' = CutEnds
  BY <1>1, SendLine, LineOf DEF OnCurrentSendItemDone
<1>3. InFlight \in [Ends -> Seq(Frame)] /\ InFlight' \in [Ends -> Seq(Frame)]
  BY Lines DEF InFlight, CorTypeOK
<1> QED BY <1>2, <1>3

LEMMA ReadStep ==
  ASSUME CorTypeOK, CorTypeOK', NEW p \in Ends, OnSocketReadyRead(p)
  PROVE  /\ Channel!Take(Other(p), 1)
         /\ InFlight[Other(p)] # <<>>
         /\ Head(InFlight[Other(p)]) = Head(wire[Other(p)])
         /\ InFlight'[Other(p)] = Tail(InFlight[Other(p)])
<1> DEFINE q == Other(p)
<1>1. /\ q \in Ends /\ Other(q) = p /\ q # p
      /\ state[p] # "unconnected" /\ wire[q] # <<>>
      /\ wire' = [wire EXCEPT ![q] = Tail(@)]
      /\ UNCHANGED <<state, sendQueue>>
      /\ wire \in [Ends -> Seq(Frame)] /\ sendQueue[q] \in Seq(Frame)
      /\ <<>> \in Seq(Frame)
  BY OtherEnd DEF OnSocketReadyRead, sendVars, CorTypeOK
<1> DEFINE rest == IF Connected(q) THEN sendQueue[q] ELSE <<>>
<1>2. InFlight[q] = wire[q] \o rest /\ InFlight'[q] = Tail(wire[q]) \o rest
  BY <1>1 DEF InFlight, Connected
<1>3. rest \in Seq(Frame) /\ wire[q] \in Seq(Frame)
  BY <1>1
<1> HIDE DEF rest
<1>4. /\ InFlight'[q] = SubSeq(InFlight[q], 1 + 1, Len(InFlight[q]))
      /\ InFlight'[q] = Tail(InFlight[q])
      /\ Head(InFlight[q]) = Head(wire[q]) /\ InFlight[q] # <<>>
      /\ 1 \in 1..Len(InFlight[q])
  BY <1>1, <1>2, <1>3, ConcatTail
<1>5. \A r \in Ends \ {q} : InFlight'[r] = InFlight[r]
  BY <1>1 DEF InFlight, Connected
<1>6. CutEnds' = CutEnds
  BY <1>1 DEF CutEnds, Connected
<1>7. InFlight \in [Ends -> Seq(Frame)] /\ InFlight' \in [Ends -> Seq(Frame)]
  BY Lines DEF InFlight, CorTypeOK
<1> QED BY <1>1, <1>4, <1>5, <1>6, <1>7 DEF Channel!Take

\* An end that stops sending keeps what it wrote and loses its queue; an end
\* that is gone loses what is on its way to it too.
LEMMA CutStep ==
  ASSUME CorTypeOK, CorTypeOK', NEW S \in SUBSET Ends,
         CutEnds' = CutEnds \cup S,
         \A r \in Ends \ S : InFlight'[r] = InFlight[r],
         \A r \in S : \/ InFlight'[r] \in {<<>>, InFlight[r]}
                      \/ InFlight'[r] = wire[r] /\ state[Other(r)] # "unconnected"
  PROVE  Channel!Cut(S)
<1>1. InFlight \in [Ends -> Seq(Frame)] /\ InFlight' \in [Ends -> Seq(Frame)]
  BY Lines DEF InFlight, CorTypeOK
<1>2. ASSUME NEW r \in S
      PROVE  \E k \in 0..Len(InFlight[r]) : InFlight'[r] = SubSeq(InFlight[r], 1, k)
  <2>1. /\ InFlight[r] \in Seq(Frame) /\ wire[r] \in Seq(Frame)
        /\ sendQueue[r] \in Seq(Frame) /\ <<>> \in Seq(Frame)
        /\ Len(InFlight[r]) \in Nat
    BY <1>1 DEF CorTypeOK
  <2>2. CASE InFlight'[r] = <<>>
    BY <2>1, <2>2, SubSeqEmpty
  <2>3. CASE InFlight'[r] = InFlight[r]
    BY <2>1, <2>3, SubSeqFull
  <2>4. CASE InFlight'[r] = wire[r] /\ state[Other(r)] # "unconnected"
    <3> DEFINE rest == IF Connected(r) THEN sendQueue[r] ELSE <<>>
    <3>1. InFlight[r] = wire[r] \o rest /\ rest \in Seq(Frame)
      BY <2>1, <2>4 DEF InFlight
    <3>2. /\ Len(wire[r]) \in 0..Len(InFlight[r])
          /\ wire[r] = SubSeq(InFlight[r], 1, Len(wire[r]))
      <4> HIDE DEF rest
      <4> QED BY <2>1, <3>1, ConcatPrefix
    <3> QED BY <2>4, <3>2
  <2> QED BY <2>2, <2>3, <2>4
<1>3. InFlight' = [r \in Ends |-> InFlight'[r]]
  BY <1>1
<1> QED BY <1>2, <1>3 DEF Channel!Cut

LEMMA DisconnectStep ==
  ASSUME CorTypeOK, CorTypeOK', NEW p \in Ends, DisconnectFromHost(p)
  PROVE  Channel!Next \/ UNCHANGED <<InFlight, CutEnds>>
<1>1. UNCHANGED <<sendQueue, wire>>
  BY DEF DisconnectFromHost
<1>2. CASE ~Connected(p)
  <2>1. state' = state
    BY <1>2 DEF DisconnectFromHost, CorTypeOK
  <2> QED BY <1>1, <2>1 DEF InFlight, CutEnds, Connected
<1>3. CASE Connected(p)
  <2>1. state' = [state EXCEPT ![p] = "closing"] /\ state \in [Ends -> SocketState]
    BY <1>3 DEF DisconnectFromHost, CorTypeOK
  <2>2. /\ \A r \in Ends : state'[r] = "unconnected" <=> state[r] = "unconnected"
        /\ \A r \in Ends : Connected(r)' <=> Connected(r) /\ r # p
    BY <1>3, <2>1 DEF Connected
  <2>3. CutEnds' = CutEnds \cup {p}
    BY <2>2, OtherEnd DEF CutEnds
  <2>4. \A r \in Ends \ {p} : InFlight'[r] = InFlight[r]
    BY <1>1, <2>2, OtherEnd DEF InFlight
  <2>5. InFlight'[p] = IF state[Other(p)] = "unconnected" THEN <<>> ELSE wire[p]
    <3>1. wire[p] \in Seq(Frame)
      BY DEF CorTypeOK
    <3> QED BY <1>1, <2>2, <3>1, OtherEnd, ConcatEmptySeq DEF InFlight
  <2>6. Channel!Cut({p})
    BY <2>3, <2>4, <2>5, CutStep
  <2> QED BY <2>6 DEF Channel!Next
<1> QED BY <1>2, <1>3

LEMMA UnconnectStep ==
  ASSUME CorTypeOK, CorTypeOK', NEW S \in SUBSET Ends, Unconnect(S)
  PROVE  Channel!Next
<1> DEFINE T == {r \in Ends : r \in S \/ Other(r) \in S}
<1>1. /\ UNCHANGED sendQueue
      /\ \A r \in Ends : state'[r] = IF r \in S THEN "unconnected" ELSE state[r]
      /\ \A r \in Ends : wire'[r] = IF Other(r) \in S THEN <<>> ELSE wire[r]
      /\ \A r \in Ends : Other(r) \in Ends
  BY OtherEnd DEF Unconnect, sendVars
<1>2. \A r \in Ends : Connected(r)' <=> Connected(r) /\ r \notin S
  BY <1>1 DEF Connected
<1>3. CutEnds' = CutEnds \cup T
  BY <1>1, <1>2 DEF CutEnds
<1>4. \A r \in Ends \ T : InFlight'[r] = InFlight[r]
  BY <1>1, <1>2 DEF InFlight
<1>5. ASSUME NEW r \in T
      PROVE  InFlight'[r] = IF Other(r) \in S \/ state[Other(r)] = "unconnected"
                            THEN <<>> ELSE wire[r]
  <2>1. wire[r] \in Seq(Frame)
    BY DEF CorTypeOK
  <2> QED BY <1>1, <1>2, <2>1, ConcatEmptySeq DEF InFlight
<1>6. T \in SUBSET Ends
  OBVIOUS
<1>7. Channel!Cut(T)
  BY <1>3, <1>4, <1>5, <1>6, CutStep
<1> QED BY <1>6, <1>7 DEF Channel!Next

LEMMA ChannelStep ==
  ASSUME CorTypeOK, [CorNext]_corVars
  PROVE  [Channel!Next]_Channel!channelVars
<1> USE DEF Channel!channelVars
<1>1. CorTypeOK'
  BY TypesKept
<1>2. ASSUME NEW p \in Ends, NEW f \in Frame, Channel!Post(p, f)
      PROVE  Channel!Next
  BY <1>2 DEF Channel!Next
<1>3. ASSUME NEW p \in Ends, NEW more \in {<<>>, <<"disconnectFromHost">>},
             Request(p, more)
      PROVE  Channel!Next \/ UNCHANGED <<InFlight, CutEnds>>
  <2>1. RequestFrame(NewCorrelationId(p)) \in Frame
    BY <1>3, RequestTypes, FramesAreFrames
  <2> QED BY <1>1, <1>2, <1>3, <2>1, EnqueueStep DEF Request
<1>4. ASSUME NEW p \in Ends, NEW id \in CorrelationId, SendResponse(p, id)
      PROVE  Channel!Next \/ UNCHANGED <<InFlight, CutEnds>>
  <2>1. CASE UNCHANGED <<sendVars, wire>>
    BY <1>4, <2>1 DEF SendResponse, sendVars, InFlight, CutEnds, Connected
  <2>2. CASE Connected(p) /\ \E more : Enqueue(p, ResponseFrame(id), more)
    BY <1>1, <1>2, <1>4, <2>2, EnqueueStep, FramesAreFrames DEF SendResponse
  <2> QED BY <1>4, <2>1, <2>2 DEF SendResponse
<1>5. ASSUME NEW p \in Ends, OnSocketReadyRead(p)
      PROVE  Channel!Next
  BY <1>1, <1>5, ReadStep, OtherEnd DEF Channel!Next, Channel!Take
<1>6. CASE UNCHANGED corVars
  BY <1>6 DEF corVars, sendVars, InFlight, CutEnds, Connected
<1> QED BY <1>1, <1>3, <1>4, <1>5, <1>6, DoneStep, DisconnectStep, UnconnectStep,
        StepsByKind

\* The connection is a channel: frames arrive in the order they were sent, each
\* once, and the end of the connection only loses the last ones, for any number
\* of frames and any turn of the two event loops (qcorconnection.cpp).
THEOREM ChannelTheorem == CorSpec => ChannelSpec
<1>1. CorInit => Channel!Init
  <2> SUFFICES ASSUME CorInit PROVE Channel!Init
    OBVIOUS
  <2>1. \A p \in Ends : state[Other(p)] = "connected" /\ Connected(p)
    BY OtherEnd DEF CorInit, Connected
  <2>2. \A p \in Ends : wire[p] \o sendQueue[p] = <<>>
    BY DEF CorInit
  <2>3. InFlight = [p \in Ends |-> <<>>]
    BY <2>1, <2>2 DEF InFlight
  <2>4. CutEnds = {}
    BY <2>1 DEF CutEnds
  <2> QED BY <2>3, <2>4 DEF Channel!Init
<1>2. CorTypeOK /\ [CorNext]_corVars => [Channel!Next]_Channel!channelVars
  BY ChannelStep
<1> QED BY <1>1, <1>2, CorTypesTheorem, PTL DEF CorSpec, ChannelSpec, Channel!Spec

(* Replies *)

\* While both ends are connected, what is on its way is what is in the queue and
\* on the wire.
BothConnected == \A p \in Ends : Connected(p)

\* The three places of the answer to a request of p.
Asked(p, id) == RequestFrame(id) \in FramesOf(InFlight[p])
Working(p, id) == id \in owed[Other(p)]
Answered(p, id) == ResponseFrame(id) \in FramesOf(InFlight[Other(p)])

NoneTwice(s) == \A i, j \in DOMAIN s : s[i] = s[j] => i = j

\* The reply of an id waits for one of the places; ids to come wait for none.
Accounted(p, id) ==
  /\ id \in replies[p] <=> Asked(p, id) \/ Working(p, id) \/ Answered(p, id)
  /\ ~(Asked(p, id) /\ Working(p, id))
  /\ ~(Asked(p, id) /\ Answered(p, id))
  /\ ~(Working(p, id) /\ Answered(p, id))
  /\ id > nextCorrelationId[p] => id \notin replies[p]

\* Without the second conjunct a frame that is read could leave a copy behind.
RepliesInv ==
  BothConnected =>
    \A p \in Ends :
      /\ \A id \in CorrelationId : Accounted(p, id)
      /\ NoneTwice(InFlight[p])

LEMMA AppendFrame ==
  ASSUME NEW s \in Seq(Frame), NEW f \in Frame
  PROVE  /\ FramesOf(Append(s, f)) = FramesOf(s) \cup {f}
         /\ NoneTwice(s) /\ f \notin FramesOf(s) => NoneTwice(Append(s, f))
<1>1. /\ Len(s) \in Nat /\ DOMAIN s = 1..Len(s)
      /\ DOMAIN Append(s, f) = 1..(Len(s) + 1)
      /\ \A i \in DOMAIN s : Append(s, f)[i] = s[i]
      /\ Append(s, f)[Len(s) + 1] = f
  OBVIOUS
<1>2. \A i \in DOMAIN Append(s, f) : i \in DOMAIN s \/ i = Len(s) + 1
  BY <1>1
<1>3. DOMAIN s \subseteq DOMAIN Append(s, f) /\ Len(s) + 1 \in DOMAIN Append(s, f)
  BY <1>1
<1>4. FramesOf(Append(s, f)) = FramesOf(s) \cup {f}
  BY <1>1, <1>2, <1>3 DEF FramesOf
<1>5. NoneTwice(s) /\ f \notin FramesOf(s) => NoneTwice(Append(s, f))
  BY <1>1, <1>2 DEF NoneTwice, FramesOf
<1> QED BY <1>4, <1>5

LEMMA TailFrames ==
  ASSUME NEW s \in Seq(Frame), s # <<>>
  PROVE  /\ FramesOf(s) = FramesOf(Tail(s)) \cup {Head(s)}
         /\ NoneTwice(s) => NoneTwice(Tail(s)) /\ Head(s) \notin FramesOf(Tail(s))
<1>1. /\ Len(s) \in Nat /\ DOMAIN s = 1..Len(s) /\ 1 \in DOMAIN s
      /\ DOMAIN Tail(s) = 1..(Len(s) - 1) /\ Head(s) = s[1]
      /\ \A i \in DOMAIN Tail(s) : Tail(s)[i] = s[i + 1]
  OBVIOUS
<1>2. /\ \A i \in DOMAIN Tail(s) : i \in Nat /\ i + 1 \in DOMAIN s /\ i + 1 # 1
      /\ \A i \in DOMAIN s : i = 1 \/ (i - 1 \in DOMAIN Tail(s) /\ (i - 1) + 1 = i)
  BY <1>1
<1>3. FramesOf(s) \subseteq FramesOf(Tail(s)) \cup {Head(s)}
  <2>1. ASSUME NEW i \in DOMAIN s, i # 1
        PROVE  s[i] \in FramesOf(Tail(s))
    <3>1. i - 1 \in DOMAIN Tail(s) /\ Tail(s)[i - 1] = s[i]
      BY <1>1, <1>2, <2>1
    <3> QED BY <3>1 DEF FramesOf
  <2> QED BY <1>1, <2>1 DEF FramesOf
<1>4. FramesOf(Tail(s)) \cup {Head(s)} \subseteq FramesOf(s)
  BY <1>1, <1>2 DEF FramesOf
<1>5. NoneTwice(s) => Head(s) \notin FramesOf(Tail(s))
  BY <1>1, <1>2 DEF NoneTwice, FramesOf
<1>6. ASSUME NoneTwice(s), NEW i \in DOMAIN Tail(s), NEW j \in DOMAIN Tail(s),
             Tail(s)[i] = Tail(s)[j]
      PROVE  i = j
  <2>1. i + 1 = j + 1
    BY <1>1, <1>2, <1>6 DEF NoneTwice
  <2> QED BY <1>2, <2>1
<1> QED BY <1>3, <1>4, <1>5, <1>6 DEF NoneTwice

LEMMA FramesDiffer ==
  ASSUME NEW i, NEW j
  PROVE  /\ RequestFrame(i) # ResponseFrame(j)
         /\ RequestFrame(i) = RequestFrame(j) => i = j
         /\ ResponseFrame(i) = ResponseFrame(j) => i = j
<1>1. RequestFrame(i).type = "request" /\ RequestFrame(j).type = "request"
      /\ ResponseFrame(i).type = "response" /\ ResponseFrame(j).type = "response"
      /\ RequestFrame(i).id = i /\ RequestFrame(j).id = j
      /\ ResponseFrame(i).id = i /\ ResponseFrame(j).id = j
  BY DEF RequestFrame, ResponseFrame
<1> QED BY <1>1

LEMMA PlacesNow ==
  ASSUME NEW p, NEW id
  PROVE  /\ Asked(p, id) <=> RequestFrame(id) \in FramesOf(InFlight[p])
         /\ Working(p, id) <=> id \in owed[Other(p)]
         /\ Answered(p, id) <=> ResponseFrame(id) \in FramesOf(InFlight[Other(p)])
BY DEF Asked, Working, Answered

LEMMA PlacesThen ==
  ASSUME NEW p, NEW id
  PROVE  /\ Asked(p, id)' <=> RequestFrame(id) \in FramesOf(InFlight'[p])
         /\ Working(p, id)' <=> id \in owed'[Other(p)]
         /\ Answered(p, id)' <=> ResponseFrame(id) \in FramesOf(InFlight'[Other(p)])
BY DEF Asked, Working, Answered, FramesOf, RequestFrame, ResponseFrame, Other

\* A connected end posts a frame, as EnqueueStep says.
LEMMA PostFrames ==
  ASSUME CorTypeOK, CorTypeOK', BothConnected, NEW p \in Ends, NEW f \in Frame,
         NEW more, UNCHANGED state, Enqueue(p, f, more)
  PROVE  /\ InFlight[p] \in Seq(Frame)
         /\ InFlight'[p] = Append(InFlight[p], f)
         /\ InFlight'[Other(p)] = InFlight[Other(p)]
<1>1. Other(p) \in Ends \ {p} /\ Connected(p) /\ state[Other(p)] # "unconnected"
  BY OtherEnd DEF BothConnected, Connected
<1>2. Channel!Post(p, f)
  BY <1>1, EnqueueStep
<1> QED BY <1>1, <1>2, Lines DEF Channel!Post

LEMMA RequestAccounted ==
  ASSUME CorTypeOK, RepliesInv, BothConnected, NEW p \in Ends,
         NEW more \in {<<>>, <<"disconnectFromHost">>}, Request(p, more)
  PROVE  RepliesInv'
<1> DEFINE q == Other(p)
<1> DEFINE new == NewCorrelationId(p)
<1>1. /\ CorTypeOK' /\ new \in CorrelationId /\ RequestFrame(new) \in Frame
      /\ q \in Ends /\ q # p /\ Other(q) = p /\ Ends = {p, q}
  BY RequestTypes, FramesAreFrames, OtherEnd
<1>2. /\ nextCorrelationId[p] \in Nat /\ new = nextCorrelationId[p] + 1
      /\ nextCorrelationId'[p] = new /\ nextCorrelationId'[q] = nextCorrelationId[q]
      /\ replies'[p] = replies[p] \cup {new} /\ replies'[q] = replies[q]
      /\ owed' = owed /\ state' = state
  BY <1>1 DEF Request, NewCorrelationId, CorTypeOK
<1>3. /\ InFlight[p] \in Seq(Frame)
      /\ InFlight'[p] = Append(InFlight[p], RequestFrame(new))
      /\ InFlight'[q] = InFlight[q]
  BY <1>1, <1>2, PostFrames DEF Request
<1>4. /\ FramesOf(InFlight'[p]) = FramesOf(InFlight[p]) \cup {RequestFrame(new)}
      /\ FramesOf(InFlight'[q]) = FramesOf(InFlight[q])
  BY <1>1, <1>3, AppendFrame
<1>5. /\ \A id \in CorrelationId : Accounted(p, id) /\ Accounted(q, id)
      /\ NoneTwice(InFlight[p]) /\ NoneTwice(InFlight[q])
  BY <1>1 DEF RepliesInv
<1>6. ~Asked(p, new) /\ ~Working(p, new) /\ ~Answered(p, new)
  BY <1>1, <1>2, <1>5 DEF Accounted
<1>7. NoneTwice(InFlight[p])' /\ NoneTwice(InFlight[q])'
  BY <1>1, <1>3, <1>5, <1>6, AppendFrame DEF Asked, NoneTwice
<1>8. ASSUME NEW id \in CorrelationId
      PROVE  Accounted(p, id)' /\ Accounted(q, id)'
  <2>1. /\ Asked(p, id)' <=> Asked(p, id) \/ id = new
        /\ Working(p, id)' <=> Working(p, id)
        /\ Answered(p, id)' <=> Answered(p, id)
        /\ Asked(q, id)' <=> Asked(q, id)
        /\ Working(q, id)' <=> Working(q, id)
        /\ Answered(q, id)' <=> Answered(q, id)
    BY <1>1, <1>2, <1>4, FramesDiffer, PlacesNow, PlacesThen
  <2>2. id \in Nat /\ (id > new => id > nextCorrelationId[p] /\ id # new)
    BY <1>2 DEF CorrelationId
  <2> QED BY <1>2, <1>5, <1>6, <2>1, <2>2 DEF Accounted
<1> QED BY <1>1, <1>7, <1>8 DEF RepliesInv, NoneTwice

LEMMA ResponseAccounted ==
  ASSUME CorTypeOK, RepliesInv, BothConnected, NEW p \in Ends,
         NEW id \in CorrelationId, SendResponse(p, id)
  PROVE  RepliesInv'
<1> DEFINE q == Other(p)
<1>1. /\ CorTypeOK' /\ ResponseFrame(id) \in Frame
      /\ q \in Ends /\ q # p /\ Other(q) = p /\ Ends = {p, q}
  BY ResponseTypes, FramesAreFrames, OtherEnd
<1>2. /\ UNCHANGED <<state, nextCorrelationId, replies>> /\ id \in owed[p]
      /\ owed'[p] = owed[p] \ {id} /\ owed'[q] = owed[q]
      /\ \E more : Enqueue(p, ResponseFrame(id), more)
  BY <1>1 DEF SendResponse, CorTypeOK, BothConnected
<1>3. /\ InFlight[p] \in Seq(Frame)
      /\ InFlight'[p] = Append(InFlight[p], ResponseFrame(id))
      /\ InFlight'[q] = InFlight[q]
  BY <1>1, <1>2, PostFrames
<1>4. /\ FramesOf(InFlight'[p]) = FramesOf(InFlight[p]) \cup {ResponseFrame(id)}
      /\ FramesOf(InFlight'[q]) = FramesOf(InFlight[q])
  BY <1>1, <1>3, AppendFrame
<1>5. /\ \A k \in CorrelationId : Accounted(p, k) /\ Accounted(q, k)
      /\ NoneTwice(InFlight[p]) /\ NoneTwice(InFlight[q])
  BY <1>1 DEF RepliesInv
<1>6. Working(q, id) /\ ~Answered(q, id)
  BY <1>1, <1>2, <1>5 DEF Accounted, Working
<1>7. NoneTwice(InFlight[p])' /\ NoneTwice(InFlight[q])'
  BY <1>1, <1>3, <1>5, <1>6, AppendFrame DEF Answered, NoneTwice
<1>8. ASSUME NEW k \in CorrelationId
      PROVE  Accounted(p, k)' /\ Accounted(q, k)'
  <2>1. /\ Asked(p, k)' <=> Asked(p, k)
        /\ Working(p, k)' <=> Working(p, k)
        /\ Answered(p, k)' <=> Answered(p, k)
        /\ Asked(q, k)' <=> Asked(q, k)
        /\ Working(q, k)' <=> Working(q, k) /\ k # id
        /\ Answered(q, k)' <=> Answered(q, k) \/ k = id
    BY <1>1, <1>2, <1>4, FramesDiffer, PlacesNow, PlacesThen
  <2> QED BY <1>2, <1>5, <1>6, <2>1 DEF Accounted
<1> QED BY <1>1, <1>7, <1>8 DEF RepliesInv, NoneTwice

LEMMA ReadAccounted ==
  ASSUME CorTypeOK, RepliesInv, BothConnected, NEW p \in Ends, OnSocketReadyRead(p)
  PROVE  RepliesInv'
<1> DEFINE q == Other(p)
<1> DEFINE f == Head(wire[q])
<1>1. /\ CorTypeOK' /\ f \in Frame
      /\ q \in Ends /\ q # p /\ Other(q) = p /\ Ends = {p, q}
  BY ReadTypes, OtherEnd
<1>2. PICK id \in CorrelationId :
        \/ f = RequestFrame(id) /\ owed' = [owed EXCEPT ![p] = @ \cup {id}]
             /\ UNCHANGED replies
        \/ f = ResponseFrame(id) /\ replies' = [replies EXCEPT ![p] = @ \ {id}]
             /\ UNCHANGED owed
  <2>1. f = [type |-> f.type, id |-> f.id] /\ f.type \in {"request", "response"}
        /\ f.id \in CorrelationId
    BY <1>1 DEF Frame
  <2>2. \/ f.type = "request" /\ owed' = [owed EXCEPT ![p] = @ \cup {f.id}]
             /\ UNCHANGED replies
        \/ f.type = "response" /\ replies' = [replies EXCEPT ![p] = @ \ {f.id}]
             /\ UNCHANGED owed
    BY <2>1 DEF OnSocketReadyRead, OnParserFrameEnd
  <2> QED BY <2>1, <2>2 DEF RequestFrame, ResponseFrame
<1>3. /\ InFlight[q] \in Seq(Frame) /\ InFlight[q] # <<>> /\ f = Head(InFlight[q])
      /\ InFlight'[q] = Tail(InFlight[q]) /\ InFlight'[p] = InFlight[p]
      /\ UNCHANGED <<state, nextCorrelationId>>
  BY <1>1, ReadStep, Lines DEF Channel!Take, OnSocketReadyRead
<1>4. /\ \A k \in CorrelationId : Accounted(p, k) /\ Accounted(q, k)
      /\ NoneTwice(InFlight[p]) /\ NoneTwice(InFlight[q])
  BY <1>1 DEF RepliesInv
<1>5. /\ FramesOf(InFlight[q]) = FramesOf(InFlight'[q]) \cup {f}
      /\ f \notin FramesOf(InFlight'[q])
      /\ FramesOf(InFlight'[p]) = FramesOf(InFlight[p])
      /\ NoneTwice(InFlight'[q]) /\ NoneTwice(InFlight'[p])
  BY <1>1, <1>3, <1>4, TailFrames
<1> HIDE DEF f
<1>6. CASE f = RequestFrame(id) /\ owed' = [owed EXCEPT ![p] = @ \cup {id}]
             /\ UNCHANGED replies
  <2>1. owed'[p] = owed[p] \cup {id} /\ owed'[q] = owed[q]
    BY <1>1, <1>6 DEF CorTypeOK
  <2>2. Asked(q, id) /\ ~Working(q, id)
    BY <1>4, <1>5, <1>6 DEF Asked, Accounted
  <2>3. ASSUME NEW k \in CorrelationId
        PROVE  Accounted(p, k)' /\ Accounted(q, k)'
    <3>1. /\ Asked(p, k)' <=> Asked(p, k)
          /\ Working(p, k)' <=> Working(p, k)
          /\ Answered(p, k)' <=> Answered(p, k)
          /\ Asked(q, k)' <=> Asked(q, k) /\ k # id
          /\ Working(q, k)' <=> Working(q, k) \/ k = id
          /\ Answered(q, k)' <=> Answered(q, k)
      BY <1>1, <1>5, <1>6, <2>1, FramesDiffer, PlacesNow, PlacesThen
    <3> QED BY <1>3, <1>4, <1>6, <2>2, <3>1 DEF Accounted
  <2> QED BY <1>1, <1>5, <2>3 DEF RepliesInv, NoneTwice
<1>7. CASE f = ResponseFrame(id) /\ replies' = [replies EXCEPT ![p] = @ \ {id}]
             /\ UNCHANGED owed
  <2>1. replies'[p] = replies[p] \ {id} /\ replies'[q] = replies[q]
    BY <1>1, <1>7 DEF CorTypeOK
  <2>2. Answered(p, id) /\ ~Asked(p, id) /\ ~Working(p, id)
    BY <1>4, <1>5, <1>7 DEF Answered, Accounted
  <2>3. ASSUME NEW k \in CorrelationId
        PROVE  Accounted(p, k)' /\ Accounted(q, k)'
    <3>1. /\ Asked(p, k)' <=> Asked(p, k)
          /\ Working(p, k)' <=> Working(p, k)
          /\ Answered(p, k)' <=> Answered(p, k) /\ k # id
          /\ Asked(q, k)' <=> Asked(q, k)
          /\ Working(q, k)' <=> Working(q, k)
          /\ Answered(q, k)' <=> Answered(q, k)
      BY <1>1, <1>5, <1>7, FramesDiffer, PlacesNow, PlacesThen
    <3> QED BY <1>3, <1>4, <2>1, <2>2, <3>1 DEF Accounted
  <2> QED BY <1>1, <1>5, <2>3 DEF RepliesInv, NoneTwice
<1> QED BY <1>2, <1>6, <1>7

LEMMA RepliesKept ==
  ASSUME CorTypeOK, RepliesInv, [CorNext]_corVars
  PROVE  RepliesInv'
<1>1. CASE ~BothConnected'
  BY <1>1 DEF RepliesInv
<1>2. CASE BothConnected'
  <2>1. BothConnected
    <3>1. \A p \in Ends : Connected(p)' => Connected(p)
      BY StepsByKind DEF Connected, CorTypeOK, Request, SendResponse,
         OnCurrentSendItemDone, DisconnectFromHost, OnSocketReadyRead, Unconnect,
         corVars
    <3> QED BY <1>2, <3>1 DEF BothConnected
  <2>2. ASSUME UNCHANGED <<nextCorrelationId, replies, owed, InFlight>>
        PROVE  RepliesInv'
    BY <2>1, <2>2 DEF RepliesInv, Accounted, Asked, Working, Answered, NoneTwice, FramesOf
  <2>3. ASSUME NEW p \in Ends, OnCurrentSendItemDone(p)
        PROVE  RepliesInv'
    BY <2>2, <2>3, TypesKept, DoneStep DEF OnCurrentSendItemDone
  <2>4. ASSUME NEW p \in Ends, DisconnectFromHost(p)
        PROVE  FALSE
    BY <1>2, <2>4 DEF DisconnectFromHost, BothConnected, Connected, CorTypeOK
  <2>5. ASSUME NEW S \in SUBSET Ends, Unconnect(S)
        PROVE  RepliesInv'
    <3>1. S = {}
      BY <1>2, <2>5 DEF Unconnect, BothConnected, Connected
    <3>2. UNCHANGED <<state, wire, sendQueue>>
      BY <2>5, <3>1 DEF Unconnect, CorTypeOK, sendVars
    <3>3. UNCHANGED InFlight
      BY <3>2 DEF InFlight, Connected
    <3> QED BY <2>2, <2>5, <3>3 DEF Unconnect
  <2>6. CASE UNCHANGED corVars
    BY <2>2, <2>6 DEF corVars, sendVars, InFlight, Connected
  <2> QED BY <2>1, <2>3, <2>4, <2>5, <2>6, StepsByKind, RequestAccounted,
          ResponseAccounted, ReadAccounted
<1> QED BY <1>1, <1>2

\* While both ends are connected, a reply waits exactly as long as its request or
\* the response is in one place: none is lost, none is answered twice, and
\* requests of the two ends with one correlation id are not mixed up, for any
\* number of requests (qcorconnection.cpp, sendRequest and onParserFrameEnd).
THEOREM RepliesTheorem == CorSpec => []RepliesAccountedFor
<1>1. CorInit => RepliesInv
  <2> SUFFICES ASSUME CorInit PROVE RepliesInv
    OBVIOUS
  <2>1. \A p \in Ends : Other(p) \in Ends
    BY OtherEnd
  <2>2. \A p \in Ends : state[Other(p)] # "unconnected" /\ InFlight[p] = <<>>
    BY <2>1 DEF CorInit, InFlight
  <2>3. \A p \in Ends, id \in CorrelationId :
          ~Asked(p, id) /\ ~Working(p, id) /\ ~Answered(p, id) /\ id \notin replies[p]
    BY <2>1, <2>2 DEF CorInit, Asked, Working, Answered, FramesOf
  <2> QED BY <2>2, <2>3 DEF RepliesInv, Accounted, NoneTwice
<1>2. CorTypeOK /\ RepliesInv /\ [CorNext]_corVars => RepliesInv'
  BY RepliesKept
<1>3. CorTypeOK /\ RepliesInv => RepliesAccountedFor
  <2> SUFFICES ASSUME CorTypeOK, RepliesInv, BothConnected,
                      NEW p \in Ends, NEW id \in CorrelationId
               PROVE  Cardinality(Places(p, id)) = IF id \in replies[p] THEN 1 ELSE 0
    BY DEF RepliesAccountedFor, BothConnected
  <2>1. ASSUME NEW r \in Ends
        PROVE  FramesOf(sendQueue[r] \o wire[r]) = FramesOf(InFlight[r])
    <3>1. sendQueue[r] \in Seq(Frame) /\ wire[r] \in Seq(Frame)
      BY DEF CorTypeOK
    <3>2. InFlight[r] = wire[r] \o sendQueue[r]
      BY LineOf, OtherEnd DEF BothConnected, Connected
    <3>3. /\ FramesOf(sendQueue[r] \o wire[r]) =
               FramesOf(sendQueue[r]) \cup FramesOf(wire[r])
          /\ FramesOf(wire[r] \o sendQueue[r]) =
               FramesOf(wire[r]) \cup FramesOf(sendQueue[r])
      BY <3>1, ConcatFrames
    <3> QED BY <3>2, <3>3
  <2>2. /\ "request" \in Places(p, id) <=> Asked(p, id)
        /\ "owed" \in Places(p, id) <=> Working(p, id)
        /\ "response" \in Places(p, id) <=> Answered(p, id)
        /\ Places(p, id) \subseteq {"request", "owed", "response"}
    BY <2>1, OtherEnd DEF Places, Asked, Working, Answered
  <2>3. Accounted(p, id)
    BY DEF RepliesInv
  <2>4. CASE id \notin replies[p]
    <3>1. Places(p, id) = {}
      BY <2>2, <2>3, <2>4 DEF Accounted
    <3> QED BY <2>4, <3>1, FS_EmptySet
  <2>5. CASE id \in replies[p]
    <3>1. \E place \in {"request", "owed", "response"} : Places(p, id) = {place}
      BY <2>2, <2>3, <2>5 DEF Accounted
    <3> QED BY <2>5, <3>1, FS_Singleton
  <2> QED BY <2>4, <2>5
<1> QED BY <1>1, <1>2, <1>3, CorTypesTheorem, PTL DEF CorSpec
================================================================================
