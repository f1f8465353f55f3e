-------------------------- MODULE CodingThreadsProofs --------------------------
(***************************************************************************)
(* Type correctness of the coding threads, that none of them sleeps over an   *)
(* item, and that frames of different streams of a sender never meet in one    *)
(* decoder, for every number of senders and resets and every capacity of the  *)
(* queues.  The steps are taken by who makes them: the GUI thread, the loop    *)
(* both threads share, the encoding thread, the decoding thread.              *)
(***************************************************************************)
EXTENDS CodingThreads, TLAPS

Places == {"stopped", "entering", "testing", "taking", "waiting", "preparing",
           "recovering", "clearing", "encoding", "decoding"}

\* The bounds of the queues: an image that is enqueued is in its place at the
\* end, and no more than Capacity are kept.
LEMMA EnqueueBounded ==
  ASSUME NEW q \in Seq({"image"}), Len(q) <= Capacity
  PROVE  /\ Enqueue(q, "image") \in Seq({"image"})
         /\ Len(Enqueue(q, "image")) <= Capacity
<1> DEFINE longer == Append(q, "image")
<1>1. longer \in Seq({"image"}) /\ Len(longer) = Len(q) + 1 /\ Len(q) \in Nat
  OBVIOUS
<1>2. Tail(longer) \in Seq({"image"}) /\ Len(Tail(longer)) = Len(q)
  BY <1>1
<1>3. Capacity \in Nat
  BY CodingThreadsAssumption
<1> QED BY <1>1, <1>2, <1>3 DEF Enqueue

\* A thread that is woken sleeps no more; the others stay where they are.
LEMMA WakeAllWakes ==
  ASSUME pc \in [Threads -> Places], NEW t \in Threads, WakeAll(t)
  PROVE  /\ pc' \in [Threads -> Places]
         /\ pc'[t] # "waiting"
         /\ \A u \in Threads : pc'[u] = "waiting" => pc[u] = "waiting"
BY DEF WakeAll, Places

(* The steps *)

\* What the GUI thread does.
OwnerStep ==
  \/ EnqueueImage
  \/ Received
  \/ \E goal \in {"restart", "reset", "delete"} : Stop(goal)
  \/ \E t \in Threads : StopWakes(t) \/ Join(t)

\* What the loop does that both threads share.
LoopStep == \E t \in Threads : Enter(t) \/ TestStopFlag(t) \/ WaitForItem(t)

LEMMA StepsByActor ==
  ASSUME CodingNext
  PROVE  OwnerStep \/ LoopStep \/ Encoder \/ TakeItem \/ Decode \/ FrameTimePasses
BY DEF CodingNext, OwnerStep, LoopStep, Loop

(* No thread sleeps over an item *)

LEMMA EnqueueKeepsAwake ==
  ASSUME CodingTypeOK, SleepsOnEmptyQueue, NEW t \in Threads, NEW q,
         WakeAll(t), queue' = [queue EXCEPT ![t] = q]
  PROVE  SleepsOnEmptyQueue'
<1>1. \A u \in Threads : pc'[u] = "waiting" => u # t /\ pc[u] = "waiting"
  BY WakeAllWakes DEF CodingTypeOK, Places
<1>2. \A u \in Threads \ {t} : queue'[u] = queue[u]
  BY DEF CodingTypeOK
<1> QED BY <1>1, <1>2 DEF SleepsOnEmptyQueue

LEMMA OwnerKeepsAwake ==
  ASSUME CodingTypeOK, SleepsOnEmptyQueue, OwnerStep
  PROVE  SleepsOnEmptyQueue'
<1>1. CASE EnqueueImage
  BY <1>1, EnqueueKeepsAwake DEF EnqueueImage, Threads
<1>2. ASSUME NEW s \in Senders, NEW null, EnqueueItem(s, null)
      PROVE  SleepsOnEmptyQueue'
  BY <1>2, EnqueueKeepsAwake DEF EnqueueItem, Threads
<1>3. ASSUME NEW t \in Threads, WakeAll(t), UNCHANGED queue
      PROVE  SleepsOnEmptyQueue'
  BY <1>3, WakeAllWakes DEF SleepsOnEmptyQueue, CodingTypeOK, Places
<1>4. CASE Received
  BY <1>2, <1>3, <1>4 DEF Received, EnqueueRecovery, EnqueueFrame,
     ResetVideoDecoderOfClient, Threads
<1>5. CASE \E goal \in {"restart", "reset", "delete"} : Stop(goal)
  BY <1>5 DEF Stop, SleepsOnEmptyQueue
<1>6. ASSUME NEW t \in Threads, StopWakes(t)
      PROVE  SleepsOnEmptyQueue'
  BY <1>3, <1>6 DEF StopWakes
<1>7. ASSUME NEW t \in Threads, Join(t)
      PROVE  SleepsOnEmptyQueue'
  <2>1. /\ UNCHANGED queue
        /\ \A u \in Threads : pc'[u] \in {pc[u], "entering"}
    BY <1>7 DEF Join, Joined, CodingTypeOK, Threads, Encoding, Decoding
  <2> QED BY <2>1 DEF SleepsOnEmptyQueue
<1> QED BY <1>1, <1>4, <1>5, <1>6, <1>7 DEF OwnerStep

LEMMA ThreadsKeepAwake ==
  ASSUME CodingTypeOK, SleepsOnEmptyQueue,
         LoopStep \/ Encoder \/ TakeItem \/ Decode
  PROVE  SleepsOnEmptyQueue'
<1>1. CASE LoopStep
  BY <1>1 DEF LoopStep, Enter, TestStopFlag, WaitForItem, SleepsOnEmptyQueue,
     CodingTypeOK
<1>2. CASE Encoder
  BY <1>2 DEF Encoder, TakeImage, PrepareEncoder, TestRecoveryFlag,
     ClearRecoveryFlag, Encode, SleepsOnEmptyQueue, CodingTypeOK, Threads,
     Encoding, Decoding
<1>3. CASE TakeItem \/ Decode
  BY <1>3 DEF TakeItem, Decode, SleepsOnEmptyQueue, CodingTypeOK, Threads,
     Encoding, Decoding
<1> QED BY <1>1, <1>2, <1>3

(* Types *)

USE DEF Threads, Encoding, Decoding

\* The parts of the state that a step of the GUI thread, of the common loop, or
\* of one thread's work may change keep their types.
LEMMA OwnerKeepsTypes ==
  ASSUME CodingTypeOK, OwnerStep
  PROVE  CodingTypeOK'
<1>1. CASE EnqueueImage
  <2>1. pc' \in [Threads -> Places]
    BY <1>1, WakeAllWakes DEF EnqueueImage, CodingTypeOK, Places
  <2>2. /\ DOMAIN queue' = Threads
        /\ queue'[Encoding] = Enqueue(queue[Encoding], "image")
        /\ queue'[Decoding] = queue[Decoding]
    BY <1>1 DEF EnqueueImage, CodingTypeOK
  <2>3. /\ queue'[Encoding] \in Seq({"image"})
        /\ Len(queue'[Encoding]) <= Capacity
    BY <2>2, EnqueueBounded DEF CodingTypeOK
  <2> QED BY <1>1, <2>1, <2>2, <2>3 DEF EnqueueImage, CodingTypeOK, Places,
        encoderVars, decoderVars
<1>2. ASSUME NEW s \in Senders, NEW null \in BOOLEAN, EnqueueItem(s, null)
      PROVE  /\ pc' \in [Threads -> Places]
             /\ DOMAIN queue' = Threads
             /\ queue'[Encoding] = queue[Encoding]
             /\ queue'[Decoding] \in Seq(Item)
  <2>1. pc' \in [Threads -> Places]
    BY <1>2, WakeAllWakes DEF EnqueueItem, CodingTypeOK, Places
  <2>2. [sender |-> s, stream |-> stream[s], null |-> null] \in Item
    BY DEF CodingTypeOK, Item
  <2>3. /\ DOMAIN queue' = Threads
        /\ queue'[Encoding] = queue[Encoding]
        /\ queue'[Decoding] = Append(queue[Decoding],
             [sender |-> s, stream |-> stream[s], null |-> null])
    BY <1>2 DEF EnqueueItem, CodingTypeOK
  <2> QED BY <2>1, <2>2, <2>3 DEF CodingTypeOK
<1>3. ASSUME NEW s \in Senders, EnqueueFrame(s)
      PROVE  CodingTypeOK'
  BY <1>2, <1>3 DEF EnqueueFrame, CodingTypeOK, Places, encoderVars, decoderVars
<1>4. ASSUME NEW s \in Senders, ResetVideoDecoderOfClient(s)
      PROVE  CodingTypeOK'
  <2>1. stream[s] + 1 \in 0..MaxResets
    BY <1>4, CodingThreadsAssumption DEF ResetVideoDecoderOfClient, CodingTypeOK
  <2> QED BY <1>2, <1>4, <2>1 DEF ResetVideoDecoderOfClient, CodingTypeOK, Places,
        encoderVars
<1>5. CASE EnqueueRecovery
  <2>1. pc' \in [Threads -> Places]
    BY <1>5, WakeAllWakes DEF EnqueueRecovery, CodingTypeOK, Places
  <2> QED BY <1>5, <2>1 DEF EnqueueRecovery, CodingTypeOK, Places, decoderVars
<1>6. CASE \E goal \in {"restart", "reset", "delete"} : Stop(goal)
  BY <1>6 DEF Stop, CodingTypeOK, encoderVars, decoderVars
<1>7. ASSUME NEW t \in Threads, StopWakes(t)
      PROVE  CodingTypeOK'
  <2>1. pc' \in [Threads -> Places]
    BY <1>7, WakeAllWakes DEF StopWakes, CodingTypeOK, Places
  <2> QED BY <1>7, <2>1 DEF StopWakes, CodingTypeOK, Places, encoderVars,
        decoderVars
<1>8. ASSUME NEW t \in Threads, Join(t)
      PROVE  CodingTypeOK'
  <2>1. /\ owner' \in [at : {"idle", "stopping", "joining", "gone"},
                        thread : Threads,
                        goal : {"none", "restart", "reset", "delete"}]
        /\ pc' \in [Threads -> Places]
        /\ stopFlag' \in [Threads -> BOOLEAN]
    <3>1. CASE owner' \in {Idle, Gone}
      <4>1. pc' \in [Threads -> Places] /\ stopFlag' \in [Threads -> BOOLEAN]
        BY <1>8 DEF Join, Joined, CodingTypeOK, Places
      <4> QED BY <3>1, <4>1 DEF Idle, Gone
    <3>2. CASE /\ owner' = [owner EXCEPT !.at = "stopping", !.thread = Decoding]
               /\ stopFlag' = [stopFlag EXCEPT ![Decoding] = TRUE]
               /\ UNCHANGED pc
      <4>1. owner' = [at |-> "stopping", thread |-> Decoding, goal |-> owner.goal]
        BY <3>2 DEF CodingTypeOK
      <4> QED BY <3>2, <4>1 DEF CodingTypeOK, Places
    <3> QED BY <1>8, <3>1, <3>2 DEF Join, Joined
  <2> QED BY <1>8, <2>1 DEF Join, CodingTypeOK, Places, encoderVars, decoderVars
<1> QED BY <1>1, <1>3, <1>4, <1>5, <1>6, <1>7, <1>8 DEF OwnerStep, Received

LEMMA LoopKeepsTypes ==
  ASSUME CodingTypeOK, LoopStep
  PROVE  CodingTypeOK'
<1>1. ASSUME NEW t \in Threads, Enter(t)
      PROVE  CodingTypeOK'
  BY <1>1 DEF Enter, CodingTypeOK, decoderVars
<1>2. ASSUME NEW t \in Threads, TestStopFlag(t)
      PROVE  CodingTypeOK'
  <2>1. pc' \in [Threads -> Places]
    BY <1>2 DEF TestStopFlag, CodingTypeOK, Places
  <2>2. encoder' \in {NoEncoder, "NORMAL", "KEY"}
    BY <1>2 DEF TestStopFlag, CodingTypeOK
  <2>3. decoder' \in [Senders -> 0..NoDecoder]
    BY <1>2, CodingThreadsAssumption DEF TestStopFlag, CodingTypeOK, NoDecoder
  <2> QED BY <1>2, <2>1, <2>2, <2>3 DEF TestStopFlag, CodingTypeOK, Places
<1>3. ASSUME NEW t \in Threads, WaitForItem(t)
      PROVE  CodingTypeOK'
  BY <1>3 DEF WaitForItem, CodingTypeOK, encoderVars, decoderVars
<1> QED BY <1>1, <1>2, <1>3 DEF LoopStep

LEMMA EncoderKeepsTypes ==
  ASSUME CodingTypeOK, Encoder \/ FrameTimePasses
  PROVE  CodingTypeOK'
<1>1. CASE TakeImage
  <2>1. /\ DOMAIN queue' = Threads
        /\ queue'[Encoding] = Tail(queue[Encoding])
        /\ queue'[Decoding] = queue[Decoding]
        /\ queue[Encoding] # <<>>
    BY <1>1 DEF TakeImage, CodingTypeOK
  <2>2. /\ queue'[Encoding] \in Seq({"image"})
        /\ Len(queue'[Encoding]) <= Capacity
    BY <2>1, CodingThreadsAssumption DEF CodingTypeOK
  <2> QED BY <1>1, <2>1, <2>2 DEF TakeImage, CodingTypeOK, decoderVars
<1>2. CASE PrepareEncoder
  <2>1. /\ pc' \in [Threads -> Places]
        /\ stopFlag' \in [Threads -> BOOLEAN]
        /\ encoder' \in {NoEncoder, "NORMAL", "KEY"}
    <3>1. pc' \in {[pc EXCEPT ![Encoding] = "recovering"],
                  [pc EXCEPT ![Encoding] = "testing"]}
      BY <1>2 DEF PrepareEncoder
    <3>2. stopFlag' \in {stopFlag, [stopFlag EXCEPT ![Encoding] = TRUE]}
      BY <1>2 DEF PrepareEncoder
    <3>3. encoder' \in {encoder, "NORMAL"}
      BY <1>2 DEF PrepareEncoder
    <3>4. pc' \in [Threads -> Places]
      BY <3>1 DEF CodingTypeOK, Places
    <3>5. stopFlag' \in [Threads -> BOOLEAN]
      <4>1. stopFlag \in [Threads -> BOOLEAN]
        BY DEF CodingTypeOK
      <4>2. [stopFlag EXCEPT ![Encoding] = TRUE] \in [Threads -> BOOLEAN]
        BY <4>1
      <4> QED BY <3>2, <4>1, <4>2
    <3>6. encoder' \in {NoEncoder, "NORMAL", "KEY"}
      BY <3>3 DEF CodingTypeOK
    <3> QED BY <3>4, <3>5, <3>6
  <2> QED BY <1>2, <2>1 DEF PrepareEncoder, CodingTypeOK, Places, decoderVars
<1>3. CASE TestRecoveryFlag \/ ClearRecoveryFlag \/ Encode
  BY <1>3 DEF TestRecoveryFlag, ClearRecoveryFlag, Encode, CodingTypeOK,
     decoderVars
<1>4. CASE FrameTimePasses
  BY <1>4 DEF FrameTimePasses, CodingTypeOK, threadVars, decoderVars
<1> QED BY <1>1, <1>2, <1>3, <1>4 DEF Encoder

LEMMA DecoderKeepsTypes ==
  ASSUME CodingTypeOK, TakeItem \/ Decode
  PROVE  CodingTypeOK'
<1>1. CASE TakeItem
  <2>1. /\ DOMAIN queue' = Threads
        /\ queue'[Decoding] = Tail(queue[Decoding])
        /\ queue'[Encoding] = queue[Encoding]
        /\ queue[Decoding] # <<>>
        /\ current' = Head(queue[Decoding])
    BY <1>1 DEF TakeItem, CodingTypeOK
  <2>2. queue'[Decoding] \in Seq(Item) /\ current' \in Item
    BY <2>1 DEF CodingTypeOK
  <2> QED BY <1>1, <2>1, <2>2 DEF TakeItem, CodingTypeOK, encoderVars
<1>2. CASE Decode
  <2>1. decoder' \in [Senders -> 0..NoDecoder]
    <3>1. 0..MaxResets \subseteq 0..NoDecoder /\ NoDecoder \in 0..NoDecoder
      BY CodingThreadsAssumption DEF NoDecoder
    <3>2. current.stream \in 0..NoDecoder
      BY <3>1, CodingThreadsAssumption DEF CodingTypeOK, Item, NoItem
    <3>3. current.null \in BOOLEAN
      <4>1. current \in Item => current.null \in BOOLEAN
        BY DEF Item
      <4>2. NoItem.null = TRUE
        BY DEF NoItem
      <4> QED BY <4>1, <4>2 DEF CodingTypeOK
    <3>4. current.sender \in Senders => Decoder(current) \in 0..NoDecoder
      <4>1. CASE current.null
        BY <3>1, <4>1 DEF Decoder
      <4>2. ASSUME current.sender \in Senders, ~current.null
            PROVE  Decoder(current) \in {current.stream, decoder[current.sender]}
        BY <4>2 DEF Decoder
      <4> QED BY <3>2, <3>3, <4>1, <4>2 DEF CodingTypeOK
    <3> QED BY <1>2, <3>4 DEF Decode, CodingTypeOK
  <2> QED BY <1>2, <2>1 DEF Decode, CodingTypeOK, encoderVars
<1> QED BY <1>1, <1>2

(* The theorems *)

CodingInv == CodingTypeOK /\ SleepsOnEmptyQueue

LEMMA CodingInvInit ==
  ASSUME CodingInit
  PROVE  CodingInv
<1>1. decoder \in [Senders -> 0..NoDecoder] /\ stream \in [Senders -> 0..MaxResets]
  BY CodingThreadsAssumption DEF CodingInit, NoDecoder
<1>2. Len(queue[Encoding]) <= Capacity
  BY CodingThreadsAssumption DEF CodingInit
<1>3. owner \in [at : {"idle", "stopping", "joining", "gone"}, thread : Threads,
                goal : {"none", "restart", "reset", "delete"}]
  BY DEF CodingInit, Idle
<1>4. /\ DOMAIN queue = Threads
      /\ \A t \in Threads : queue[t] = <<>>
  BY DEF CodingInit
<1>5. /\ queue[Encoding] \in Seq({"image"})
      /\ queue[Decoding] \in Seq(Item)
  <2>1. \A S : <<>> \in Seq(S)
    OBVIOUS
  <2> QED BY <1>4, <2>1
<1>6. pc \in [Threads -> Places] /\ stopFlag \in [Threads -> BOOLEAN]
  BY DEF CodingInit, Places
<1>7. CodingTypeOK
  BY <1>1, <1>2, <1>3, <1>4, <1>5, <1>6 DEF CodingInit, CodingTypeOK, Places
<1> QED BY <1>4, <1>7 DEF CodingInv, SleepsOnEmptyQueue

LEMMA CodingInvStep ==
  ASSUME CodingInv, [CodingNext]_codingVars
  PROVE  CodingInv'
<1> USE DEF CodingInv
<1>1. CASE OwnerStep
  BY <1>1, OwnerKeepsTypes, OwnerKeepsAwake
<1>2. CASE LoopStep
  BY <1>2, LoopKeepsTypes, ThreadsKeepAwake
<1>3. CASE Encoder
  BY <1>3, EncoderKeepsTypes, ThreadsKeepAwake
<1>4. CASE TakeItem \/ Decode
  BY <1>4, DecoderKeepsTypes, ThreadsKeepAwake
<1>5. CASE FrameTimePasses
  BY <1>5, EncoderKeepsTypes DEF FrameTimePasses, threadVars, SleepsOnEmptyQueue
<1>6. CASE UNCHANGED codingVars
  BY <1>6 DEF codingVars, threadVars, encoderVars, decoderVars, CodingTypeOK,
     SleepsOnEmptyQueue
<1> QED BY <1>1, <1>2, <1>3, <1>4, <1>5, <1>6, StepsByActor

\* Every reachable state of the threads is well-typed; the queue of images is
\* never longer than its capacity.
THEOREM CodingTypesTheorem == CodingSpec => []CodingTypeOK
<1>1. CodingInit => CodingInv
  BY CodingInvInit
<1>2. CodingInv /\ [CodingNext]_codingVars => CodingInv'
  BY CodingInvStep
<1>3. CodingInv => CodingTypeOK
  BY DEF CodingInv
<1> QED BY <1>1, <1>2, <1>3, PTL DEF CodingSpec

\* No item is left to a thread that sleeps: whoever enqueues wakes the thread,
\* and a thread goes to sleep only with the mutex held and an empty queue.
THEOREM AwakeTheorem == CodingSpec => []SleepsOnEmptyQueue
<1>1. CodingInit => CodingInv
  BY CodingInvInit
<1>2. CodingInv /\ [CodingNext]_codingVars => CodingInv'
  BY CodingInvStep
<1>3. CodingInv => SleepsOnEmptyQueue
  BY DEF CodingInv
<1> QED BY <1>1, <1>2, <1>3, PTL DEF CodingSpec

-----------------------------------------------------------------------------
(* Streams.  The inductive invariant is about the work of the decoding thread, *)
(* the item it works on and its queue: whatever lies between two streams,      *)
(* there is a null frame among it.                                            *)

\* The work in its order: position 0 is the item in hand, the others the queue.
At(i) == IF i = 0 THEN current ELSE queue[Decoding][i]
Busy == pc[Decoding] = "decoding"
Work == {i \in 0..Len(queue[Decoding]) : i = 0 => Busy}

\* The item at i makes the thread delete the decoder of s.
Resets(i, s) == At(i).sender = s /\ At(i).null

\* Between two items of different streams lies a reset, the first one included.
ItemsApart(s) ==
  \A i, j \in Work :
    i < j /\ At(i).sender = s /\ At(j).sender = s /\ At(i).stream # At(j).stream
      => \E k \in Work : i <= k /\ k < j /\ Resets(k, s)

\* So it does between an item and one that is enqueued from now on,
LastApart(s) ==
  \A i \in Work : At(i).sender = s /\ At(i).stream # stream[s]
    => \E k \in Work : i <= k /\ Resets(k, s)

\* between the stream of the decoder there is and an item,
DecoderApart(s) ==
  decoder[s] # NoDecoder =>
    \A j \in Work : At(j).sender = s /\ At(j).stream # decoder[s]
      => \E k \in Work : k < j /\ Resets(k, s)

\* and between that stream and what is enqueued from now on.
DecoderLastApart(s) ==
  decoder[s] # NoDecoder /\ decoder[s] # stream[s] => \E k \in Work : Resets(k, s)

StreamsApart ==
  \A s \in Senders :
    ItemsApart(s) /\ LastApart(s) /\ DecoderApart(s) /\ DecoderLastApart(s)

(* A step that touches neither the decoders nor their work *)

LEMMA IdleKeepsApart ==
  ASSUME StreamsApart, UNCHANGED <<decoder, current, stream>>,
         queue'[Decoding] = queue[Decoding], Busy' = Busy
  PROVE  StreamsApart'
<1>1. /\ Work' = Work
      /\ \A i \in Work : At(i)' = At(i)
  BY DEF Work, At
<1>2. \A i \in Work : \A s : Resets(i, s)' = Resets(i, s)
  BY <1>1 DEF Resets
<1> QED BY <1>1, <1>2 DEF StreamsApart, ItemsApart, LastApart, DecoderApart,
      DecoderLastApart

\* Nobody but the decoding thread begins or ends the work on an item.
LEMMA OthersLeaveWork ==
  ASSUME CodingTypeOK,
         \/ EnqueueImage \/ EnqueueRecovery
         \/ \E goal \in {"restart", "reset", "delete"} : Stop(goal)
         \/ \E t \in Threads : StopWakes(t) \/ Join(t) \/ Enter(t) \/ WaitForItem(t)
         \/ Encoder \/ FrameTimePasses
  PROVE  /\ UNCHANGED <<decoder, current, stream>>
         /\ queue'[Decoding] = queue[Decoding]
         /\ Busy' = Busy
<1> USE DEF Threads, Encoding, Decoding, decoderVars
<1>1. CASE EnqueueImage \/ EnqueueRecovery
  BY <1>1 DEF EnqueueImage, EnqueueRecovery, WakeAll, Busy, CodingTypeOK
<1>2. CASE \E goal \in {"restart", "reset", "delete"} : Stop(goal)
  BY <1>2 DEF Stop, Busy
<1>3. ASSUME NEW t \in Threads, StopWakes(t) \/ Join(t)
      PROVE  /\ UNCHANGED <<decoder, current, stream, queue>>
             /\ Busy' = Busy
  BY <1>3 DEF StopWakes, Join, Joined, WakeAll, Busy, CodingTypeOK
<1>4. ASSUME NEW t \in Threads, Enter(t) \/ WaitForItem(t)
      PROVE  /\ UNCHANGED <<decoder, current, stream, queue>>
             /\ Busy' = Busy
  BY <1>4 DEF Enter, WaitForItem, Busy, CodingTypeOK
<1>5. CASE Encoder
  BY <1>5 DEF Encoder, TakeImage, PrepareEncoder, TestRecoveryFlag,
     ClearRecoveryFlag, Encode, Busy, CodingTypeOK
<1>6. CASE FrameTimePasses
  BY <1>6 DEF FrameTimePasses, threadVars, Busy
<1> QED BY <1>1, <1>2, <1>3, <1>4, <1>5, <1>6

(* The steps that do *)

LEMMA AppendKeepsApart ==
  ASSUME CodingTypeOK, StreamsApart, NEW s \in Senders, NEW item \in Item,
         item.sender = s, item.stream = stream[s],
         queue'[Decoding] = Append(queue[Decoding], item),
         UNCHANGED <<decoder, current>>, Busy' = Busy,
         \A r \in Senders : r # s \/ ~item.null => stream'[r] = stream[r]
  PROVE  StreamsApart'
<1>1. PICK n \in Nat : queue[Decoding] \in Seq(Item) /\ n = Len(queue[Decoding])
  BY DEF CodingTypeOK
<1>2. /\ Len(queue'[Decoding]) = n + 1
      /\ queue'[Decoding][n + 1] = item
      /\ \A i \in 1..n : queue'[Decoding][i] = queue[Decoding][i]
  BY <1>1
<1>3. /\ Work' = Work \cup {n + 1}
      /\ n + 1 \notin Work
      /\ \A i \in Work : i \in Nat /\ i < n + 1
  BY <1>1, <1>2 DEF Work
<1>4. \A i \in Work : At(i)' = At(i)
  BY <1>1, <1>2 DEF At, Work
<1>5. At(n + 1)' = item
  BY <1>1, <1>2 DEF At
<1>6. \A i \in Work : \A r : Resets(i, r) => i \in Work' /\ Resets(i, r)'
  BY <1>3, <1>4 DEF Resets
<1>7. item.null => n + 1 \in Work' /\ Resets(n + 1, s)'
  BY <1>3, <1>5 DEF Resets
<1>8. ASSUME NEW r \in Senders
      PROVE  ItemsApart(r)'
  <2>1. ASSUME NEW i \in Work', NEW j \in Work', i < j, At(i)'.sender = r,
               At(j)'.sender = r, At(i)'.stream # At(j)'.stream
        PROVE  \E k \in Work' : i <= k /\ k < j /\ Resets(k, r)'
    <3>1. i \in Work /\ At(i)' = At(i)
      BY <1>1, <1>3, <1>4, <2>1
    <3>2. CASE j \in Work
      <4>1. PICK k \in Work : i <= k /\ k < j /\ Resets(k, r)
        BY <1>4, <2>1, <3>1, <3>2 DEF StreamsApart, ItemsApart
      <4> QED BY <1>6, <4>1
    <3>3. CASE j = n + 1
      <4>1. At(i).stream # stream[r]
        BY <1>5, <2>1, <3>1, <3>3
      <4>2. PICK k \in Work : i <= k /\ Resets(k, r)
        BY <2>1, <3>1, <4>1 DEF StreamsApart, LastApart
      <4> QED BY <1>3, <1>6, <3>3, <4>2
    <3> QED BY <1>3, <3>2, <3>3
  <2> QED BY <2>1 DEF ItemsApart
<1>9. ASSUME NEW r \in Senders
      PROVE  LastApart(r)'
  <2>1. ASSUME NEW i \in Work', At(i)'.sender = r, At(i)'.stream # stream'[r]
        PROVE  \E k \in Work' : i <= k /\ Resets(k, r)'
    <3>1. CASE r = s /\ item.null
      BY <1>1, <1>3, <1>7, <3>1
    <3>2. CASE r # s \/ ~item.null
      <4>1. i \in Work /\ At(i)' = At(i) /\ At(i).stream # stream[r]
        BY <1>3, <1>4, <1>5, <2>1, <3>2
      <4>2. PICK k \in Work : i <= k /\ Resets(k, r)
        BY <2>1, <4>1 DEF StreamsApart, LastApart
      <4> QED BY <1>6, <4>2
    <3> QED BY <3>1, <3>2
  <2> QED BY <2>1 DEF LastApart
<1>10. ASSUME NEW r \in Senders
       PROVE  DecoderApart(r)'
  <2>1. ASSUME NEW j \in Work', decoder[r] # NoDecoder, At(j)'.sender = r,
               At(j)'.stream # decoder[r]
        PROVE  \E k \in Work' : k < j /\ Resets(k, r)'
    <3>1. CASE j \in Work
      <4>1. PICK k \in Work : k < j /\ Resets(k, r)
        BY <1>4, <2>1, <3>1 DEF StreamsApart, DecoderApart
      <4> QED BY <1>6, <4>1
    <3>2. CASE j = n + 1
      <4>1. decoder[r] # stream[r]
        BY <1>5, <2>1, <3>2
      <4>2. PICK k \in Work : Resets(k, r)
        BY <2>1, <4>1 DEF StreamsApart, DecoderLastApart
      <4> QED BY <1>3, <1>6, <3>2, <4>2
    <3> QED BY <1>3, <3>1, <3>2
  <2> QED BY <2>1 DEF DecoderApart
<1>11. ASSUME NEW r \in Senders
       PROVE  DecoderLastApart(r)'
  <2>1. ASSUME decoder[r] # NoDecoder, decoder[r] # stream'[r]
        PROVE  \E k \in Work' : Resets(k, r)'
    <3>1. CASE r = s /\ item.null
      BY <1>7, <3>1
    <3>2. CASE r # s \/ ~item.null
      <4>1. PICK k \in Work : Resets(k, r)
        BY <2>1, <3>2 DEF StreamsApart, DecoderLastApart
      <4> QED BY <1>6, <4>1
    <3> QED BY <3>1, <3>2
  <2> QED BY <2>1 DEF DecoderLastApart
<1> QED BY <1>8, <1>9, <1>10, <1>11 DEF StreamsApart

LEMMA EnqueueKeepsApart ==
  ASSUME CodingTypeOK, StreamsApart, NEW s \in Senders,
         EnqueueFrame(s) \/ ResetVideoDecoderOfClient(s)
  PROVE  StreamsApart'
<1> USE DEF Threads, Encoding, Decoding
<1> DEFINE item(b) == [sender |-> s, stream |-> stream[s], null |-> b]
<1>1. ASSUME NEW b \in BOOLEAN
      PROVE  /\ item(b) \in Item /\ item(b).sender = s
             /\ item(b).stream = stream[s] /\ item(b).null = b
  BY DEF CodingTypeOK, Item
<1>2. ASSUME NEW b \in BOOLEAN, EnqueueItem(s, b)
      PROVE  queue'[Decoding] = Append(queue[Decoding], item(b))
  BY <1>2 DEF EnqueueItem, CodingTypeOK
<1>3. /\ UNCHANGED <<decoder, current>>
      /\ Busy' = Busy
  BY DEF EnqueueFrame, ResetVideoDecoderOfClient, EnqueueItem, WakeAll, Busy,
     CodingTypeOK, decoderVars
<1>4. CASE EnqueueFrame(s)
  <2>1. queue'[Decoding] = Append(queue[Decoding], item(FALSE)) /\ stream' = stream
    BY <1>2, <1>4 DEF EnqueueFrame, decoderVars
  <2> HIDE DEF item
  <2> QED BY <1>1, <1>3, <2>1, AppendKeepsApart
<1>5. CASE ResetVideoDecoderOfClient(s)
  <2>1. queue'[Decoding] = Append(queue[Decoding], item(TRUE))
    BY <1>2, <1>5 DEF ResetVideoDecoderOfClient
  <2>2. \A r \in Senders : r # s => stream'[r] = stream[r]
    BY <1>5 DEF ResetVideoDecoderOfClient, CodingTypeOK
  <2> HIDE DEF item
  <2> QED BY <1>1, <1>3, <2>1, <2>2, AppendKeepsApart
<1> QED BY <1>4, <1>5

\* Taking an item moves every position down by one.
LEMMA TakeItemKeepsApart ==
  ASSUME CodingTypeOK, StreamsApart, TakeItem
  PROVE  StreamsApart'
<1> USE DEF Threads, Encoding, Decoding
<1>1. /\ queue[Decoding] \in Seq(Item) /\ queue[Decoding] # <<>>
      /\ queue'[Decoding] = Tail(queue[Decoding])
      /\ current' = Head(queue[Decoding])
      /\ UNCHANGED <<decoder, stream>>
      /\ ~Busy /\ Busy'
  BY DEF TakeItem, CodingTypeOK, Busy
<1>2. /\ Work \subseteq Nat
      /\ \A i \in Work' : i \in Nat /\ i + 1 \in Work
      /\ \A i \in Work : i - 1 \in Work'
  BY <1>1 DEF Work
<1>3. \A i \in Work' : At(i)' = At(i + 1)
  BY <1>1 DEF Work, At
<1>4. \A i \in Work' : \A s : Resets(i, s)' = Resets(i + 1, s)
  BY <1>3 DEF Resets
<1>5. ASSUME NEW s \in Senders
      PROVE  ItemsApart(s)'
  <2>1. ASSUME NEW i \in Work', NEW j \in Work', i < j, At(i)'.sender = s,
               At(j)'.sender = s, At(i)'.stream # At(j)'.stream
        PROVE  \E k \in Work' : i <= k /\ k < j /\ Resets(k, s)'
    <3>1. PICK k \in Work : i + 1 <= k /\ k < j + 1 /\ Resets(k, s)
      BY <1>2, <1>3, <2>1 DEF StreamsApart, ItemsApart
    <3>2. k - 1 \in Work' /\ i <= k - 1 /\ k - 1 < j /\ (k - 1) + 1 = k
      BY <1>2, <3>1
    <3> QED BY <1>4, <3>1, <3>2
  <2> QED BY <2>1 DEF ItemsApart
<1>6. ASSUME NEW s \in Senders
      PROVE  LastApart(s)'
  <2>1. ASSUME NEW i \in Work', At(i)'.sender = s, At(i)'.stream # stream[s]
        PROVE  \E k \in Work' : i <= k /\ Resets(k, s)'
    <3>1. PICK k \in Work : i + 1 <= k /\ Resets(k, s)
      BY <1>2, <1>3, <2>1 DEF StreamsApart, LastApart
    <3>2. k - 1 \in Work' /\ i <= k - 1 /\ (k - 1) + 1 = k
      BY <1>2, <3>1
    <3> QED BY <1>4, <3>1, <3>2
  <2> QED BY <1>1, <2>1 DEF LastApart
<1>7. ASSUME NEW s \in Senders
      PROVE  DecoderApart(s)'
  <2>1. ASSUME NEW j \in Work', decoder[s] # NoDecoder, At(j)'.sender = s,
               At(j)'.stream # decoder[s]
        PROVE  \E k \in Work' : k < j /\ Resets(k, s)'
    <3>1. PICK k \in Work : k < j + 1 /\ Resets(k, s)
      BY <1>2, <1>3, <2>1 DEF StreamsApart, DecoderApart
    <3>2. k - 1 \in Work' /\ k - 1 < j /\ (k - 1) + 1 = k
      BY <1>2, <3>1
    <3> QED BY <1>4, <3>1, <3>2
  <2> QED BY <1>1, <2>1 DEF DecoderApart
<1>8. ASSUME NEW s \in Senders
      PROVE  DecoderLastApart(s)'
  <2>1. ASSUME decoder[s] # NoDecoder, decoder[s] # stream[s]
        PROVE  \E k \in Work' : Resets(k, s)'
    <3>1. PICK k \in Work : Resets(k, s)
      BY <2>1 DEF StreamsApart, DecoderLastApart
    <3>2. k - 1 \in Work' /\ (k - 1) + 1 = k
      BY <1>2
    <3> QED BY <1>4, <3>1, <3>2
  <2> QED BY <1>1, <2>1 DEF DecoderLastApart
<1> QED BY <1>5, <1>6, <1>7, <1>8 DEF StreamsApart

\* The decoder that is there when a frame is decoded has that frame's stream:
\* nothing lies before the item in hand.
LEMMA DecodesItsStream ==
  ASSUME CodingTypeOK, StreamsApart, Busy, NEW s \in Senders, current.sender = s,
         decoder[s] # NoDecoder
  PROVE  decoder[s] = current.stream
<1>1. Len(queue[Decoding]) \in Nat
  BY DEF CodingTypeOK
<1>2. 0 \in Work /\ At(0) = current /\ \A k \in Work : ~(k < 0)
  BY <1>1 DEF Work, At
<1> QED BY <1>2 DEF StreamsApart, DecoderApart

LEMMA DecodeKeepsApart ==
  ASSUME CodingTypeOK, StreamsApart, Decode
  PROVE  StreamsApart'
<1> USE DEF Threads, Encoding, Decoding
<1>1. /\ Busy /\ ~Busy'
      /\ UNCHANGED <<queue, stream>>
      /\ decoder' = [decoder EXCEPT ![current.sender] = Decoder(current)]
  BY DEF Decode, Busy, CodingTypeOK
<1>2. /\ Work = Work' \cup {0}
      /\ \A i \in Work' : i \in Nat /\ 0 < i
  BY <1>1 DEF Work, CodingTypeOK
<1>3. At(0) = current /\ \A i \in Work' : At(i)' = At(i)
  BY <1>1, <1>2 DEF At
<1>4. \A i \in Work' : \A s : Resets(i, s)' = Resets(i, s)
  BY <1>3 DEF Resets
<1>5. ASSUME NEW s \in Senders
      PROVE  ItemsApart(s)'
  <2>1. ASSUME NEW i \in Work', NEW j \in Work', i < j, At(i)'.sender = s,
               At(j)'.sender = s, At(i)'.stream # At(j)'.stream
        PROVE  \E k \in Work' : i <= k /\ k < j /\ Resets(k, s)'
    <3>1. PICK k \in Work : i <= k /\ k < j /\ Resets(k, s)
      BY <1>2, <1>3, <2>1 DEF StreamsApart, ItemsApart
    <3>2. k \in Work'
      BY <1>2, <3>1
    <3> QED BY <1>4, <3>1, <3>2
  <2> QED BY <2>1 DEF ItemsApart
<1>6. ASSUME NEW s \in Senders
      PROVE  LastApart(s)'
  <2>1. ASSUME NEW i \in Work', At(i)'.sender = s, At(i)'.stream # stream[s]
        PROVE  \E k \in Work' : i <= k /\ Resets(k, s)'
    <3>1. PICK k \in Work : i <= k /\ Resets(k, s)
      BY <1>2, <1>3, <2>1 DEF StreamsApart, LastApart
    <3>2. k \in Work'
      BY <1>2, <3>1
    <3> QED BY <1>4, <3>1, <3>2
  <2> QED BY <1>1, <2>1 DEF LastApart
<1>7. ASSUME NEW s \in Senders, decoder'[s] # NoDecoder
      PROVE  /\ ~Resets(0, s)
             /\ decoder'[s] = decoder[s] \/ (current.sender = s /\ decoder'[s] = current.stream)
  <2>1. CASE current.sender # s
    BY <1>1, <1>3, <2>1 DEF Resets, CodingTypeOK
  <2>2. CASE current.sender = s
    <3>1. decoder'[s] = Decoder(current)
      BY <1>1, <2>2 DEF CodingTypeOK
    <3>2. ~current.null
      BY <1>7, <3>1 DEF Decoder
    <3>3. Decoder(current) \in {decoder[s], current.stream}
      BY <2>2, <3>2 DEF Decoder
    <3> QED BY <1>3, <2>2, <3>1, <3>2, <3>3 DEF Resets
  <2> QED BY <2>1, <2>2
<1>8. ASSUME NEW s \in Senders, decoder'[s] # NoDecoder, NEW k \in Work, Resets(k, s)
      PROVE  k \in Work' /\ Resets(k, s)'
  BY <1>2, <1>4, <1>7, <1>8
<1>9. ASSUME NEW s \in Senders
      PROVE  DecoderApart(s)'
  <2>1. ASSUME NEW j \in Work', decoder'[s] # NoDecoder, At(j)'.sender = s,
               At(j)'.stream # decoder'[s]
        PROVE  \E k \in Work' : k < j /\ Resets(k, s)'
    <3>1. \E k \in Work : k < j /\ Resets(k, s)
      <4>1. CASE decoder'[s] = decoder[s]
        BY <1>2, <1>3, <2>1, <4>1 DEF StreamsApart, DecoderApart
      <4>2. CASE current.sender = s /\ decoder'[s] = current.stream
        BY <1>2, <1>3, <2>1, <4>2 DEF StreamsApart, ItemsApart
      <4> QED BY <1>7, <2>1, <4>1, <4>2
    <3> QED BY <1>8, <2>1, <3>1
  <2> QED BY <2>1 DEF DecoderApart
<1>10. ASSUME NEW s \in Senders
       PROVE  DecoderLastApart(s)'
  <2>1. ASSUME decoder'[s] # NoDecoder, decoder'[s] # stream[s]
        PROVE  \E k \in Work' : Resets(k, s)'
    <3>1. \E k \in Work : Resets(k, s)
      <4>1. CASE decoder'[s] = decoder[s]
        BY <2>1, <4>1 DEF StreamsApart, DecoderLastApart
      <4>2. CASE current.sender = s /\ decoder'[s] = current.stream
        BY <1>2, <1>3, <2>1, <4>2 DEF StreamsApart, LastApart
      <4> QED BY <1>7, <2>1, <4>1, <4>2
    <3> QED BY <1>8, <2>1, <3>1
  <2> QED BY <1>1, <2>1 DEF DecoderLastApart
<1> QED BY <1>5, <1>6, <1>9, <1>10 DEF StreamsApart

\* A thread that ends deletes its decoders; the work stays.
LEMMA TestStopFlagKeepsApart ==
  ASSUME CodingTypeOK, StreamsApart, NEW t \in Threads, TestStopFlag(t)
  PROVE  StreamsApart'
<1> USE DEF Threads, Encoding, Decoding
<1>1. /\ UNCHANGED <<queue, current, stream>>
      /\ Busy' = Busy
  BY DEF TestStopFlag, Busy, CodingTypeOK
<1>2. /\ Work' = Work
      /\ \A i \in Work : At(i)' = At(i)
  BY <1>1 DEF Work, At
<1>3. \A i \in Work : \A s : Resets(i, s)' = Resets(i, s)
  BY <1>2 DEF Resets
<1>4. \A s \in Senders : decoder'[s] \in {decoder[s], NoDecoder}
  BY DEF TestStopFlag
<1>5. ASSUME NEW s \in Senders
      PROVE  ItemsApart(s)' /\ LastApart(s)'
  BY <1>1, <1>2, <1>3 DEF StreamsApart, ItemsApart, LastApart
<1>6. ASSUME NEW s \in Senders
      PROVE  DecoderApart(s)' /\ DecoderLastApart(s)'
  BY <1>1, <1>2, <1>3, <1>4 DEF StreamsApart, DecoderApart, DecoderLastApart
<1> QED BY <1>5, <1>6 DEF StreamsApart

(* The theorem *)

StreamInv == CodingInv /\ StreamsApart

LEMMA StreamInvInit ==
  ASSUME CodingInit
  PROVE  StreamInv
<1>1. Work = {}
  BY DEF CodingInit, Work, Busy, Threads, Encoding, Decoding
<1>2. \A s \in Senders : decoder[s] = NoDecoder
  BY DEF CodingInit
<1> QED BY <1>1, <1>2, CodingInvInit DEF StreamInv, StreamsApart, ItemsApart,
      LastApart, DecoderApart, DecoderLastApart

LEMMA StreamInvStep ==
  ASSUME StreamInv, [CodingNext]_codingVars
  PROVE  StreamInv'
<1> USE DEF StreamInv, CodingInv
<1>1. CodingInv'
  BY CodingInvStep
<1>2. CASE \/ EnqueueImage \/ EnqueueRecovery
           \/ \E goal \in {"restart", "reset", "delete"} : Stop(goal)
           \/ \E t \in Threads : StopWakes(t) \/ Join(t) \/ Enter(t) \/ WaitForItem(t)
           \/ Encoder \/ FrameTimePasses
  BY <1>1, <1>2, OthersLeaveWork, IdleKeepsApart
<1>3. CASE \E s \in Senders : EnqueueFrame(s) \/ ResetVideoDecoderOfClient(s)
  BY <1>1, <1>3, EnqueueKeepsApart
<1>4. CASE \E t \in Threads : TestStopFlag(t)
  BY <1>1, <1>4, TestStopFlagKeepsApart
<1>5. CASE TakeItem
  BY <1>1, <1>5, TakeItemKeepsApart
<1>6. CASE Decode
  BY <1>1, <1>6, DecodeKeepsApart
<1>7. CASE UNCHANGED codingVars
  <2>1. UNCHANGED <<pc, queue, decoder, current, stream>>
    BY <1>7 DEF codingVars, threadVars, decoderVars
  <2> QED BY <1>1, <2>1, IdleKeepsApart DEF Busy
<1> QED BY <1>2, <1>3, <1>4, <1>5, <1>6, <1>7, StepsByActor
      DEF OwnerStep, Received, LoopStep

\* What OneStreamPerDecoder says of a step.
OneStreamStep ==
  \A s \in Senders :
    (pc[Decoding] = "decoding" /\ current.sender = s /\ ~current.null
       /\ pc'[Decoding] = "testing")
    => decoder'[s] = current.stream

\* Only Decode ends the work on an item, and it uses the decoder there is, which
\* has the stream of the item, or creates one for it.
LEMMA StreamInvStreams ==
  ASSUME StreamInv, [CodingNext]_codingVars
  PROVE  OneStreamStep
<1> USE DEF StreamInv, CodingInv
<1> SUFFICES ASSUME NEW s \in Senders, Busy, current.sender = s, ~current.null,
                    pc'[Decoding] = "testing"
             PROVE  decoder'[s] = current.stream
  BY DEF OneStreamStep, Busy
<1>1. ~Busy'
  BY DEF Busy
<1>2. Decode
  <2>1. CASE \/ EnqueueImage \/ EnqueueRecovery
             \/ \E goal \in {"restart", "reset", "delete"} : Stop(goal)
             \/ \E t \in Threads : StopWakes(t) \/ Join(t) \/ Enter(t) \/ WaitForItem(t)
             \/ Encoder \/ FrameTimePasses
    BY <1>1, <2>1, OthersLeaveWork
  <2>2. CASE \E r \in Senders : EnqueueFrame(r) \/ ResetVideoDecoderOfClient(r)
    BY <1>1, <2>2 DEF EnqueueFrame, ResetVideoDecoderOfClient, EnqueueItem, WakeAll,
       Busy, CodingTypeOK, Threads
  <2>3. CASE \E t \in Threads : TestStopFlag(t)
    BY <1>1, <2>3 DEF TestStopFlag, Busy, CodingTypeOK
  <2>4. CASE TakeItem
    BY <2>4 DEF TakeItem, Busy
  <2>5. CASE UNCHANGED codingVars
    BY <1>1, <2>5 DEF codingVars, threadVars, Busy
  <2> QED BY <2>1, <2>2, <2>3, <2>4, <2>5, StepsByActor
        DEF OwnerStep, Received, LoopStep
<1>3. decoder'[s] = Decoder(current)
  BY <1>2 DEF Decode, CodingTypeOK
<1>4. CASE decoder[s] = NoDecoder
  BY <1>3, <1>4 DEF Decoder
<1>5. CASE decoder[s] # NoDecoder
  BY <1>3, <1>5, DecodesItsStream DEF Decoder
<1> QED BY <1>4, <1>5

\* However a sender switches his video on and off and frames are enqueued
\* meanwhile, a decoder only ever sees frames of one stream.
THEOREM StreamsTheorem == CodingSpec => OneStreamPerDecoder
<1>1. CodingInit => StreamInv
  BY StreamInvInit
<1>2. StreamInv /\ [CodingNext]_codingVars => StreamInv' /\ [OneStreamStep]_codingVars
  BY StreamInvStep, StreamInvStreams
<1>3. [][OneStreamStep]_codingVars <=> OneStreamPerDecoder
  BY DEF OneStreamPerDecoder, OneStreamStep
<1> QED BY <1>1, <1>2, <1>3, PTL DEF CodingSpec
================================================================================
