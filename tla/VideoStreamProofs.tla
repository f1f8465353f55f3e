--------------------------- MODULE VideoStreamProofs ---------------------------
(***************************************************************************)
(* Theorems of VideoStream: its variables have their types, and in particular *)
(* the buffers of a decoder stay within their limit; a viewer whose picture   *)
(* is broken waits for a key frame; and the VP8 decoder gets the frames of    *)
(* one encoder in their order.  The order is not a matter of the decoder      *)
(* alone: it rests on how far a datagram may be behind the newest frame when  *)
(* it comes in, so the invariant says where every datagram under way stands.  *)
(***************************************************************************)
EXTENDS VideoStream, FiniteSetTheorems, TLAPS

-----------------------------------------------------------------------------
(* Finite sets *)

\* A nonempty finite set of numbers has a least one, and Min returns it.
LEMMA MinElement ==
  ASSUME NEW D, IsFiniteSet(D), D \subseteq Nat, D # {}
  PROVE  Min(D) \in D
<1> DEFINE Below(x) == {y \in D : y < x}
           Belows == {Below(x) : x \in D}
<1>1. IsWellFoundedOn(StrictSubsetOrdering(D), FiniteSubsetsOf(D))
  BY FS_StrictSubsetOrderingWellFounded
<1>2. Belows \subseteq FiniteSubsetsOf(D)
  BY FS_Subset DEF FiniteSubsetsOf
<1>3. Belows # {}
  OBVIOUS
<1>4. PICK B \in Belows : \A C \in Belows : <<C, B>> \notin StrictSubsetOrdering(D)
  <2> HIDE DEF Belows
  <2> QED
    BY <1>1, <1>2, <1>3, WFMin
<1>5. PICK x \in D : B = Below(x)
  OBVIOUS
<1>6. \A y \in D : x <= y
  <2> SUFFICES ASSUME NEW y \in D, y < x PROVE FALSE
    OBVIOUS
  <2>1. Below(y) \subseteq Below(x) /\ Below(y) # Below(x)
    <3>1. y \in Below(x) /\ y \notin Below(y)
      OBVIOUS
    <3>2. ASSUME NEW z \in D, z < y PROVE z < x
      BY <3>2
    <3> QED
      BY <3>1, <3>2, Zenon
  <2>2. Below(y) \subseteq D /\ Below(x) \subseteq D /\ Below(y) \in Belows
    OBVIOUS
  <2>3. <<Below(y), Below(x)>> \in StrictSubsetOrdering(D)
    <3> HIDE DEF Below
    <3> QED
      BY <2>1, <2>2 DEF StrictSubsetOrdering
  <2> QED
    BY <2>2, <2>3, <1>4, <1>5
<1> HIDE DEF Below, Belows
<1> QED
  BY <1>6 DEF Min

\* A finite set has at most one element when all its elements are the same.
LEMMA AtMostOne ==
  ASSUME NEW E, IsFiniteSet(E)
  PROVE  Cardinality(E) <= 1 <=> \A a, b \in E : a = b
<1>1. Cardinality(E) \in Nat
  BY FS_CardinalityType
<1>2. Cardinality(E) = 0 <=> E = {}
  BY FS_EmptySet
<1>3. Cardinality(E) = 1 <=> \E x : E = {x}
  BY FS_Singleton
<1>4. ASSUME \A a, b \in E : a = b PROVE E = {} \/ \E x : E = {x}
  <2>1. ASSUME NEW x \in E PROVE E = {x}
    BY <1>4
  <2> QED
    BY <2>1
<1>5. ASSUME E = {} \/ \E x : E = {x} PROVE \A a, b \in E : a = b
  BY <1>5
<1>6. Cardinality(E) <= 1 <=> Cardinality(E) = 0 \/ Cardinality(E) = 1
  BY <1>1
<1> QED
  BY <1>2, <1>3, <1>4, <1>5, <1>6

\* Lone says OneEncoder without counting.
Lone(E) == \A a, b \in E : a = b

LEMMA OneEncoderIsLone ==
  ASSUME VideoStreamAssumption, NEW E, E \subseteq 1..MaxEpochs
  PROVE  Cardinality(E) <= 1 <=> Lone(E)
<1>1. IsFiniteSet(1..MaxEpochs)
  BY FS_Interval DEF VideoStreamAssumption
<1>2. IsFiniteSet(E)
  BY <1>1, FS_Subset
<1> QED
  BY <1>2, AtMostOne DEF Lone

-----------------------------------------------------------------------------
(* What a datagram does to a decoder *)

\* Between two datagrams a decoder holds no complete frame: its record, whatever
\* its buffers are.
Idle(d) ==
  d \in [frame_buffers : {d.frame_buffers},
         complete_frames_queue : {{}},
         last_completed_frame_id : 0..MaxFrames,
         wait_for_frame_type : Types,
         received_key_frame_count : {0, 1}]

\* add leaves all but the buffers and the queue alone, and the queue holds the
\* frame of the datagram or nothing.
LEMMA AddLemma ==
  ASSUME VideoStreamAssumption, NEW d, Idle(d), NEW dg \in Datagram
  PROVE  LET a == Add(d, dg)
         IN  a \in [frame_buffers : {a.frame_buffers},
                    complete_frames_queue : {{}, {dg.frame}},
                    last_completed_frame_id : {d.last_completed_frame_id},
                    wait_for_frame_type : {d.wait_for_frame_type},
                    received_key_frame_count : {d.received_key_frame_count}]
<1> DEFINE parts == Received(d, dg) \cup {dg.index}
           complete == Cardinality(parts) = dg.count
           others == {f \in d.complete_frames_queue : f.time # dg.frame.time}
           buffers == CheckFrameBuffers(
               [id \in DOMAIN d.frame_buffers \cup {dg.frameId} |->
                  IF id = dg.frameId THEN parts ELSE d.frame_buffers[id]])
           queue == IF complete THEN CheckCompleteFramesQueue(others \cup {dg.frame})
                    ELSE d.complete_frames_queue
<1>1. CASE AlreadyProcessed(d, dg)
  BY <1>1 DEF Add, Idle
<1>2. CASE ~AlreadyProcessed(d, dg)
  <2>1. CheckCompleteFramesQueue({dg.frame}) = {dg.frame}
    <3>1. Cardinality({dg.frame}) = 1
      BY FS_Singleton
    <3> QED
      BY <3>1 DEF CheckCompleteFramesQueue, VideoStreamAssumption
  <2>2. queue \in {{}, {dg.frame}}
    <3>1. others \cup {dg.frame} = {dg.frame}
      BY DEF Idle
    <3>2. queue = IF complete THEN {dg.frame} ELSE {}
      BY <2>1, <3>1 DEF Idle
    <3> HIDE DEF complete, queue
    <3> QED
      BY <3>2
  <2>3. Add(d, dg) = [d EXCEPT !.frame_buffers = buffers,
                               !.complete_frames_queue = queue]
    BY <1>2 DEF Add
  <2> HIDE DEF buffers, queue
  <2> QED
    BY <2>2, <2>3 DEF Idle
<1> QED
  BY <1>1, <1>2

\* next, on a queue of at most one frame.
LEMMA NextLemma ==
  ASSUME VideoStreamAssumption,
         NEW a, NEW f \in Frame,
         a \in [frame_buffers : {a.frame_buffers},
                complete_frames_queue : {{}, {f}},
                last_completed_frame_id : 0..MaxFrames,
                wait_for_frame_type : Types,
                received_key_frame_count : {0, 1}]
  PROVE  LET d == Next(a).decoder
             last == a.last_completed_frame_id
         IN  /\ Idle(d)
             /\ d.frame_buffers = a.frame_buffers
             /\ \/ /\ Next(a).frame = NoFrame
                   /\ d.last_completed_frame_id = last
                   /\ d.wait_for_frame_type = a.wait_for_frame_type
                   /\ d.received_key_frame_count = a.received_key_frame_count
                \/ /\ Next(a).frame = NoFrame
                   /\ d.last_completed_frame_id = last
                   /\ d.wait_for_frame_type = "KEY"
                   /\ a.received_key_frame_count = 0
                   /\ d.received_key_frame_count = 0
                \/ /\ Next(a).frame = NoFrame
                   /\ ~Late(f.time, last)
                   /\ d.last_completed_frame_id = f.time
                   /\ a.wait_for_frame_type # "NORMAL"
                   /\ d.wait_for_frame_type = a.wait_for_frame_type
                   /\ a.received_key_frame_count = 1
                   /\ d.received_key_frame_count = 1
                \/ /\ Next(a).frame = f
                   /\ ~Late(f.time, last)
                   /\ d.last_completed_frame_id = f.time
                   /\ d.wait_for_frame_type = WaitAfter(a, f)
                   /\ d.received_key_frame_count = 1
                   /\ \/ f.type = "KEY"
                      \/ /\ a.received_key_frame_count = 1
                         /\ a.wait_for_frame_type = "NORMAL"
<1>1. CASE a.complete_frames_queue = {}
  BY <1>1 DEF Next, Idle
<1>2. CASE a.complete_frames_queue = {f}
  <2> DEFINE first == CHOOSE g \in a.complete_frames_queue :
                        \A h \in a.complete_frames_queue : g.time <= h.time
             rest == [a EXCEPT !.complete_frames_queue = @ \ {f}]
             skipped == [rest EXCEPT !.last_completed_frame_id = f.time]
             useless == a.received_key_frame_count = 0 /\ f.type # "KEY"
             late == ~useless /\ Late(f.time, a.last_completed_frame_id)
             unwanted == ~useless /\ ~late /\ f.type # "KEY"
                           /\ a.wait_for_frame_type # "NORMAL"
  <2>1. first = f
    BY <1>2 DEF Frame
  <2>2. /\ rest \in [frame_buffers : {a.frame_buffers},
                     complete_frames_queue : {{}},
                     last_completed_frame_id : {a.last_completed_frame_id},
                     wait_for_frame_type : {a.wait_for_frame_type},
                     received_key_frame_count : {a.received_key_frame_count}]
        /\ skipped \in [frame_buffers : {a.frame_buffers},
                        complete_frames_queue : {{}},
                        last_completed_frame_id : {f.time},
                        wait_for_frame_type : {a.wait_for_frame_type},
                        received_key_frame_count : {a.received_key_frame_count}]
    BY <1>2
  <2>3. WaitAfter(a, f) \in Types
    BY DEF WaitAfter, Types
  <2>4. Types = {"NORMAL", "KEY"} /\ f.time \in 0..MaxFrames
    BY DEF Types, Frame
  <2>5. Next(a) =
          CASE useless -> [decoder |-> [rest EXCEPT !.wait_for_frame_type = "KEY"],
                           frame |-> NoFrame]
            [] late -> [decoder |-> rest, frame |-> NoFrame]
            [] unwanted -> [decoder |-> skipped, frame |-> NoFrame]
            [] ~useless /\ ~late /\ ~unwanted ->
                 [decoder |-> [skipped EXCEPT
                                 !.wait_for_frame_type = WaitAfter(a, f),
                                 !.received_key_frame_count =
                                   IF f.type = "KEY" THEN 1 ELSE @],
                  frame |-> f]
    BY <1>2, <2>1 DEF Next
  <2> HIDE DEF first, rest, skipped
  <2>6. CASE useless
    <3>1. Next(a) = [decoder |-> [rest EXCEPT !.wait_for_frame_type = "KEY"],
                     frame |-> NoFrame]
      BY <2>5, <2>6
    <3> QED
      BY <3>1, <2>6, <2>2, <2>4 DEF Idle
  <2>7. CASE late
    <3>1. Next(a) = [decoder |-> rest, frame |-> NoFrame]
      BY <2>5, <2>7
    <3> QED
      BY <3>1, <2>7, <2>2, <2>4 DEF Idle
  <2>8. CASE unwanted
    <3>1. Next(a) = [decoder |-> skipped, frame |-> NoFrame]
      BY <2>5, <2>8
    <3> QED
      BY <3>1, <2>8, <2>2, <2>4 DEF Idle
  <2>9. CASE ~useless /\ ~late /\ ~unwanted
    <3>1. Next(a) = [decoder |-> [skipped EXCEPT
                                 !.wait_for_frame_type = WaitAfter(a, f),
                                 !.received_key_frame_count =
                                   IF f.type = "KEY" THEN 1 ELSE @],
                     frame |-> f]
      BY <2>5, <2>9
    <3> DEFINE d == Next(a).decoder
    <3>2. d \in [frame_buffers : {a.frame_buffers},
                 complete_frames_queue : {{}},
                 last_completed_frame_id : {f.time},
                 wait_for_frame_type : {WaitAfter(a, f)},
                 received_key_frame_count :
                   {IF f.type = "KEY" THEN 1 ELSE a.received_key_frame_count}]
      <4> DEFINE wait == WaitAfter(a, f)
                 count == IF f.type = "KEY" THEN 1
                          ELSE skipped.received_key_frame_count
                 handed == [skipped EXCEPT !.wait_for_frame_type = wait,
                                           !.received_key_frame_count = count]
      <4>1. d = handed
        BY <3>1
      <4>2. count = IF f.type = "KEY" THEN 1 ELSE a.received_key_frame_count
        BY <2>2
      <4>3. handed \in [frame_buffers : {a.frame_buffers},
                        complete_frames_queue : {{}},
                        last_completed_frame_id : {f.time},
                        wait_for_frame_type : {wait},
                        received_key_frame_count : {count}]
        <5> HIDE DEF wait, count
        <5> QED
          BY <2>2
      <4> HIDE DEF count, handed, d
      <4> QED
        BY <4>1, <4>2, <4>3
    <3>3. Next(a).frame = f
      BY <3>1
    <3>4. /\ ~Late(f.time, a.last_completed_frame_id)
          /\ \/ f.type = "KEY"
             \/ /\ a.received_key_frame_count = 1
                /\ a.wait_for_frame_type = "NORMAL"
      BY <2>9
    <3>5. Idle(d)
      BY <3>2, <3>4, <2>3, <2>4 DEF Idle
    <3>6. /\ d.frame_buffers = a.frame_buffers
          /\ d.last_completed_frame_id = f.time
          /\ d.wait_for_frame_type = WaitAfter(a, f)
          /\ d.received_key_frame_count = 1
      BY <3>2, <3>4
    <3> HIDE DEF d
    <3> QED
      BY <3>3, <3>4, <3>5, <3>6 DEF d
  <2> QED
    BY <2>6, <2>7, <2>8, <2>9
<1> QED
  BY <1>1, <1>2

-----------------------------------------------------------------------------
(* The buffers of a decoder *)

Bounded(d) ==
  /\ IsFiniteSet(DOMAIN d.frame_buffers)
  /\ DOMAIN d.frame_buffers \subseteq Nat
  /\ Cardinality(DOMAIN d.frame_buffers) <= MaximumDistinctFrames

\* One buffer too many is one eviction: the least id is an id of the map.
LEMMA EvictionLemma ==
  ASSUME VideoStreamAssumption,
         NEW B, IsFiniteSet(DOMAIN B), DOMAIN B \subseteq Nat,
         Cardinality(DOMAIN B) <= MaximumDistinctFrames + 1
  PROVE  LET C == CheckFrameBuffers(B)
         IN  /\ IsFiniteSet(DOMAIN C)
             /\ DOMAIN C \subseteq Nat
             /\ Cardinality(DOMAIN C) <= MaximumDistinctFrames
<1> DEFINE D == DOMAIN B
           rest == D \ {Min(D)}
<1>1. MaximumDistinctFrames \in Nat \ {0} /\ Cardinality(D) \in Nat
  BY FS_CardinalityType DEF VideoStreamAssumption
<1>2. CASE Cardinality(D) <= MaximumDistinctFrames
  BY <1>2 DEF CheckFrameBuffers
<1>3. CASE ~(Cardinality(D) <= MaximumDistinctFrames)
  <2>1. D # {}
    BY <1>1, <1>3, FS_EmptySet
  <2>2. Min(D) \in D
    BY <2>1, MinElement
  <2>3. IsFiniteSet(rest) /\ Cardinality(rest) = Cardinality(D) - 1
    BY <2>2, FS_RemoveElement
  <2>4. DOMAIN CheckFrameBuffers(B) = rest
    BY <1>3 DEF CheckFrameBuffers, Restrict
  <2> HIDE DEF rest
  <2>5. rest \subseteq Nat
    BY DEF rest
  <2> QED
    BY <1>1, <1>3, <2>3, <2>4, <2>5
<1> QED
  BY <1>2, <1>3

LEMMA AddBounded ==
  ASSUME VideoStreamAssumption, NEW d, Idle(d), Bounded(d), NEW dg \in Datagram
  PROVE  Bounded(Add(d, dg))
<1> DEFINE parts == Received(d, dg) \cup {dg.index}
           D == DOMAIN d.frame_buffers
           B == [id \in D \cup {dg.frameId} |->
                   IF id = dg.frameId THEN parts ELSE d.frame_buffers[id]]
           queue == IF Cardinality(parts) = dg.count
                    THEN CheckCompleteFramesQueue(
                           {f \in d.complete_frames_queue :
                              f.time # dg.frame.time} \cup {dg.frame})
                    ELSE d.complete_frames_queue
<1>1. CASE AlreadyProcessed(d, dg)
  BY <1>1 DEF Add
<1>2. CASE ~AlreadyProcessed(d, dg)
  <2>1. DOMAIN B = D \cup {dg.frameId}
    OBVIOUS
  <2>2. dg.frameId \in Nat
    BY DEF Datagram
  <2>3. IsFiniteSet(D) /\ D \subseteq Nat /\ Cardinality(D) <= MaximumDistinctFrames
    BY DEF Bounded
  <2>4. Cardinality(D) \in Nat /\ MaximumDistinctFrames \in Nat
    BY <2>3, FS_CardinalityType DEF VideoStreamAssumption
  <2>5. /\ IsFiniteSet(D \cup {dg.frameId})
        /\ Cardinality(D \cup {dg.frameId}) <= MaximumDistinctFrames + 1
    <3>1. /\ IsFiniteSet(D \cup {dg.frameId})
          /\ Cardinality(D \cup {dg.frameId}) =
               IF dg.frameId \in D THEN Cardinality(D) ELSE Cardinality(D) + 1
      BY <2>3, FS_AddElement
    <3> HIDE DEF D
    <3> QED
      BY <3>1, <2>3, <2>4
  <2>6. DOMAIN B \subseteq Nat
    BY <2>1, <2>2, <2>3
  <2>7. Add(d, dg) = [d EXCEPT !.frame_buffers = CheckFrameBuffers(B),
                               !.complete_frames_queue = queue]
    BY <1>2 DEF Add
  <2> HIDE DEF B, queue
  <2>8. Add(d, dg).frame_buffers = CheckFrameBuffers(B)
    BY <2>7 DEF Idle
  <2>9. /\ IsFiniteSet(DOMAIN CheckFrameBuffers(B))
        /\ DOMAIN CheckFrameBuffers(B) \subseteq Nat
        /\ Cardinality(DOMAIN CheckFrameBuffers(B)) <= MaximumDistinctFrames
    <3> HIDE DEF D
    <3> QED
      BY <2>1, <2>5, <2>6, EvictionLemma
  <2> QED
    BY <2>8, <2>9 DEF Bounded
<1> QED
  BY <1>1, <1>2

-----------------------------------------------------------------------------
(* The inductive invariant *)

last == decoder.last_completed_frame_id

\* How many frames were sent after the frame of a datagram.
Behind(dg) == nextFrameId - 1 - dg.frameId

Typed ==
  /\ encoder \in [on : BOOLEAN, epoch : 1..MaxEpochs, time : 0..MaxFrames]
  /\ keyRequested \in BOOLEAN
  /\ nextFrameId \in 1..(MaxFrames + 1)
  /\ network \subseteq Datagram
  /\ recovery \in BOOLEAN
  /\ mayRequest \in BOOLEAN
  /\ notices \in Nat
  /\ Idle(decoder)
  /\ shown \in Frame \cup {NoFrame}
  /\ intact \in BOOLEAN
  /\ epochs \subseteq 1..encoder.epoch

\* Datagrams under way are at most MaxDelay frames behind, and the numbers of
\* the datagrams and of the frames of one encoder go in step.
Numbered ==
  /\ encoder.time < nextFrameId
  /\ \A dg \in network :
       /\ Behind(dg) \in 0..MaxDelay
       /\ dg.frame.epoch <= encoder.epoch
       /\ dg.frame.epoch = encoder.epoch =>
            dg.frame.time + Behind(dg) = encoder.time
       /\ \A other \in network : other.frame.epoch = dg.frame.epoch =>
            other.frame.time - dg.frame.time = other.frameId - dg.frameId

\* A decoder that counted frames of one encoder only is not ahead of what its
\* sender had sent when he sent it.
NotAhead ==
  Lone(epochs) =>
    /\ encoder.epoch \in epochs => last <= encoder.time
    /\ \A dg \in network :
         dg.frame.epoch \in epochs => last <= dg.frame.time + Behind(dg)
    /\ shown # NoFrame => shown.epoch \in epochs /\ shown.time <= last

\* What the decoder counts and waits for is what the picture needs.
PictureKnown ==
  /\ decoder.received_key_frame_count = 0 <=> shown = NoFrame
  /\ shown # NoFrame /\ Lone(epochs) =>
       IF intact THEN decoder.wait_for_frame_type = "NORMAL" => last = shown.time
       ELSE decoder.wait_for_frame_type = "KEY"

VideoInv ==
  /\ Typed
  /\ Numbered
  /\ NotAhead
  /\ PictureKnown

LEMMA VideoInitInv ==
  ASSUME VideoStreamAssumption, VideoInit
  PROVE  VideoInv /\ Bounded(decoder)
<1> USE DEF VideoInit, VideoStreamAssumption
<1>1. Idle(decoder)
  BY DEF Idle, NewDecoder, Types
<1>2. Typed
  <2>1. encoder \in [on : BOOLEAN, epoch : 1..MaxEpochs, time : 0..MaxFrames]
    OBVIOUS
  <2>2. nextFrameId \in 1..(MaxFrames + 1)
    OBVIOUS
  <2>3. /\ keyRequested \in BOOLEAN /\ recovery \in BOOLEAN
        /\ mayRequest \in BOOLEAN /\ intact \in BOOLEAN
    OBVIOUS
  <2>4. network \subseteq Datagram /\ epochs \subseteq 1..encoder.epoch
    OBVIOUS
  <2>5. notices \in Nat /\ shown \in Frame \cup {NoFrame}
    OBVIOUS
  <2> QED
    BY <1>1, <2>1, <2>2, <2>3, <2>4, <2>5 DEF Typed
<1>3. Numbered /\ NotAhead
  BY DEF Numbered, NotAhead
<1>4. PictureKnown
  BY DEF PictureKnown, NewDecoder
<1>5. Bounded(decoder)
  <2>1. DOMAIN decoder.frame_buffers = {}
    BY DEF NewDecoder
  <2>2. Cardinality({}) = 0 /\ IsFiniteSet({})
    BY FS_EmptySet
  <2> QED
    BY <2>1, <2>2 DEF Bounded
<1> QED
  BY <1>2, <1>3, <1>4, <1>5 DEF VideoInv
-----------------------------------------------------------------------------
(* The sender's steps *)

LEMMA EncodedTyped ==
  ASSUME VideoStreamAssumption, VideoInv, NEW count \in Counts,
         OnVideoFrameEncoded(count)
  PROVE  Typed'
<1> USE DEF VideoInv, Typed, VideoStreamAssumption
<1>1. /\ encoder' = [on |-> encoder.on, epoch |-> encoder.epoch,
                     time |-> encoder.time + 1]
      /\ nextFrameId' = nextFrameId + 1
      /\ nextFrameId <= MaxFrames
      /\ encoder.time < nextFrameId
  BY DEF OnVideoFrameEncoded, Numbered
<1>2. encoder' \in [on : BOOLEAN, epoch : 1..MaxEpochs, time : 0..MaxFrames]
  BY <1>1
<1>3. nextFrameId' \in 1..(MaxFrames + 1)
  BY <1>1
<1>4. network' \subseteq Datagram
  <2> DEFINE f == [epoch |-> encoder.epoch, time |-> encoder.time + 1,
                   type |-> IF keyRequested THEN "KEY" ELSE "NORMAL"]
  <2>1. f \in Frame
    BY <1>1 DEF Frame, Types
  <2>2. network' = StillUnderWay \cup Split(f, count)
    BY DEF OnVideoFrameEncoded
  <2>3. StillUnderWay \subseteq Datagram
    BY DEF StillUnderWay
  <2>4. nextFrameId \in 1..MaxFrames
    BY <1>1
  <2> HIDE DEF f
  <2>5. Split(f, count) \subseteq Datagram
    BY <2>1, <2>4 DEF Split, Datagram
  <2> QED
    BY <2>2, <2>3, <2>5
<1>5. epochs' \subseteq 1..encoder'.epoch
  BY <1>1 DEF OnVideoFrameEncoded, receiverVars
<1>6. Idle(decoder)' /\ (shown \in Frame \cup {NoFrame})'
  BY DEF OnVideoFrameEncoded, receiverVars, pictureVars, Idle
<1> QED
  BY <1>2, <1>3, <1>4, <1>5, <1>6
  DEF OnVideoFrameEncoded, receiverVars, pictureVars

\* Every datagram under way after a frame was sent is an old one, one frame
\* further behind, or one of the new frame.
LEMMA EncodedDatagrams ==
  ASSUME VideoStreamAssumption, VideoInv, NEW count \in Counts,
         OnVideoFrameEncoded(count), NEW dg \in network'
  PROVE  \/ /\ dg \in network
            /\ nextFrameId - dg.frameId <= MaxDelay
            /\ Behind(dg)' = Behind(dg) + 1
         \/ /\ dg.frameId = nextFrameId
            /\ dg.frame.epoch = encoder.epoch
            /\ dg.frame.time = encoder.time + 1
            /\ Behind(dg)' = 0
<1> DEFINE f == [epoch |-> encoder.epoch, time |-> encoder.time + 1,
                 type |-> IF keyRequested THEN "KEY" ELSE "NORMAL"]
<1>1. dg \in StillUnderWay \/ dg \in Split(f, count)
  BY DEF OnVideoFrameEncoded
<1>2. nextFrameId' = nextFrameId + 1 /\ nextFrameId \in Nat
  BY DEF OnVideoFrameEncoded, VideoInv, Typed, VideoStreamAssumption
<1>3. Behind(dg)' = nextFrameId' - 1 - dg.frameId
  BY DEF Behind
<1>4. CASE dg \in StillUnderWay
  <2>1. dg \in network /\ nextFrameId - dg.frameId <= MaxDelay
    BY <1>4 DEF StillUnderWay
  <2>2. dg.frameId \in Nat
    BY <2>1 DEF VideoInv, Typed, Datagram, VideoStreamAssumption
  <2> QED
    BY <1>2, <1>3, <2>1, <2>2 DEF Behind
<1>5. CASE dg \in Split(f, count)
  <2>1. dg.frameId = nextFrameId /\ dg.frame = f
    BY <1>5 DEF Split
  <2> QED
    BY <1>2, <1>3, <2>1
<1> QED
  BY <1>1, <1>4, <1>5

LEMMA EncodedInv ==
  ASSUME VideoStreamAssumption, VideoInv, NEW count \in Counts,
         OnVideoFrameEncoded(count)
  PROVE  VideoInv'
<1>1. /\ encoder'.epoch = encoder.epoch /\ encoder'.time = encoder.time + 1
      /\ nextFrameId' = nextFrameId + 1
      /\ UNCHANGED <<decoder, shown, intact, epochs>>
  BY DEF OnVideoFrameEncoded, receiverVars, pictureVars, VideoInv, Typed
<1>2. /\ encoder.epoch \in Nat /\ encoder.time \in Nat /\ nextFrameId \in Nat
      /\ MaxDelay \in Nat /\ last \in Nat
  BY DEF VideoInv, Typed, VideoStreamAssumption, Idle, last
<1>3. \A dg \in network \cup network' :
        dg.frameId \in Nat /\ dg.frame.epoch \in Nat /\ dg.frame.time \in Nat
  BY EncodedTyped DEF VideoInv, Typed, Datagram, Frame, VideoStreamAssumption
<1>4. Numbered'
  <2>1. encoder'.time < nextFrameId'
    BY <1>1, <1>2 DEF VideoInv, Numbered
  <2>2. ASSUME NEW dg \in network'
        PROVE  /\ Behind(dg)' \in 0..MaxDelay
               /\ dg.frame.epoch <= encoder'.epoch
               /\ dg.frame.epoch = encoder'.epoch =>
                    dg.frame.time + Behind(dg)' = encoder'.time
    <3>1. CASE dg \in network /\ nextFrameId - dg.frameId <= MaxDelay
                 /\ Behind(dg)' = Behind(dg) + 1
      BY <3>1, <1>1, <1>2, <1>3 DEF VideoInv, Numbered, Behind
    <3>2. CASE dg.frame.epoch = encoder.epoch
                 /\ dg.frame.time = encoder.time + 1 /\ Behind(dg)' = 0
      BY <3>2, <1>1, <1>2, <1>3
    <3> QED
      BY <3>1, <3>2, EncodedDatagrams
  <2>3. ASSUME NEW dg \in network', NEW other \in network',
               other.frame.epoch = dg.frame.epoch
        PROVE  other.frame.time - dg.frame.time = other.frameId - dg.frameId
    <3>1. \A x \in network :
            /\ x.frame.epoch = encoder.epoch =>
                 x.frame.time + (nextFrameId - 1 - x.frameId) = encoder.time
            /\ \A y \in network : y.frame.epoch = x.frame.epoch =>
                 y.frame.time - x.frame.time = y.frameId - x.frameId
      BY DEF VideoInv, Numbered, Behind
    <3>2. \A x \in network' :
            \/ x \in network
            \/ /\ x.frameId = nextFrameId
               /\ x.frame.epoch = encoder.epoch
               /\ x.frame.time = encoder.time + 1
      BY EncodedDatagrams
    <3> QED
      BY <2>3, <3>1, <3>2, <1>2, <1>3
  <2> QED
    BY <2>1, <2>2, <2>3 DEF Numbered
<1>5. NotAhead'
  <2> SUFFICES ASSUME Lone(epochs)
               PROVE  /\ encoder'.epoch \in epochs => last <= encoder'.time
                      /\ \A dg \in network' : dg.frame.epoch \in epochs =>
                           last <= dg.frame.time + Behind(dg)'
                      /\ shown # NoFrame =>
                           shown.epoch \in epochs /\ shown.time <= last
    BY <1>1 DEF NotAhead, last
  <2>1. /\ encoder.epoch \in epochs => last <= encoder.time
        /\ \A dg \in network :
             dg.frame.epoch \in epochs => last <= dg.frame.time + Behind(dg)
        /\ shown # NoFrame => shown.epoch \in epochs /\ shown.time <= last
    BY DEF VideoInv, NotAhead
  <2>2. ASSUME NEW dg \in network', dg.frame.epoch \in epochs
        PROVE  last <= dg.frame.time + Behind(dg)'
    <3>1. CASE dg \in network /\ Behind(dg)' = Behind(dg) + 1
      BY <3>1, <2>1, <2>2, <1>2, <1>3 DEF Behind
    <3>2. CASE dg.frame.epoch = encoder.epoch
                 /\ dg.frame.time = encoder.time + 1 /\ Behind(dg)' = 0
      BY <3>2, <2>1, <2>2, <1>2, <1>3
    <3> QED
      BY <3>1, <3>2, EncodedDatagrams
  <2> QED
    BY <2>1, <2>2, <1>1, <1>2
<1>6. PictureKnown'
  BY <1>1 DEF VideoInv, PictureKnown, last
<1> QED
  BY <1>4, <1>5, <1>6, EncodedTyped DEF VideoInv

LEMMA EnableInv ==
  ASSUME VideoStreamAssumption, VideoInv, EnableVideoStream
  PROVE  VideoInv'
<1>1. /\ encoder' = [on |-> TRUE, epoch |-> encoder.epoch + 1, time |-> 0]
      /\ encoder.epoch < MaxEpochs
      /\ notices' = notices + 1
      /\ UNCHANGED <<keyRequested, nextFrameId, network, recovery, decoder,
                     mayRequest, shown, intact, epochs>>
  BY DEF EnableVideoStream, receiverVars, pictureVars
<1>2. Typed'
  <2>1. encoder' \in [on : BOOLEAN, epoch : 1..MaxEpochs, time : 0..MaxFrames]
    BY <1>1 DEF VideoInv, Typed, VideoStreamAssumption
  <2>2. epochs' \subseteq 1..encoder'.epoch
    BY <1>1 DEF VideoInv, Typed, VideoStreamAssumption
  <2>3. Idle(decoder')
    BY <1>1 DEF VideoInv, Typed
  <2> QED
    BY <1>1, <2>1, <2>2, <2>3 DEF VideoInv, Typed
<1>3. encoder'.epoch = encoder.epoch + 1 /\ encoder'.time = 0
  BY <1>1
<1>4. /\ encoder.epoch \in Nat /\ nextFrameId \in Nat /\ encoder.time \in Nat
      /\ \A dg \in network : dg.frame.epoch \in Nat
      /\ \A e \in epochs : e <= encoder.epoch
  BY DEF VideoInv, Typed, VideoStreamAssumption, Datagram, Frame
<1>5. Numbered'
  <2>1. \A dg \in network : dg.frame.epoch <= encoder.epoch
    BY DEF VideoInv, Numbered
  <2>2. \A dg \in network : dg.frame.epoch # encoder'.epoch
                              /\ dg.frame.epoch <= encoder'.epoch
    BY <1>3, <1>4, <2>1
  <2>3. encoder'.time < nextFrameId
    BY <1>3, <1>4 DEF VideoInv, Numbered
  <2> QED
    BY <1>1, <2>2, <2>3 DEF VideoInv, Numbered, Behind
<1>6. NotAhead'
  <2>1. encoder'.epoch \notin epochs
    BY <1>3, <1>4
  <2> QED
    BY <1>1, <2>1 DEF VideoInv, NotAhead, last, Behind
<1>7. PictureKnown'
  BY <1>1 DEF VideoInv, PictureKnown, last
<1> QED
  BY <1>2, <1>5, <1>6, <1>7 DEF VideoInv
-----------------------------------------------------------------------------
(* The receiver's steps *)

\* What add and next make of a datagram that may arrive: nothing is handed over
\* and nothing counted, or the frame of the datagram is counted as done with,
\* without or with being handed over.
LEMMA NextOfDatagram ==
  ASSUME VideoStreamAssumption, VideoInv, NEW dg \in network, NEW next,
         next = Next(Add(decoder, dg))
  PROVE  /\ Idle(next.decoder)
         /\ dg.frame \in Frame /\ dg.frame # NoFrame
         /\ ~Late(dg.frame.time, last) => dg.frame.time # last
         /\ \/ /\ next.frame = NoFrame
               /\ next.decoder.last_completed_frame_id = last
               /\ next.decoder.wait_for_frame_type = decoder.wait_for_frame_type
               /\ next.decoder.received_key_frame_count
                    = decoder.received_key_frame_count
            \/ /\ next.frame = NoFrame
               /\ next.decoder.last_completed_frame_id = last
               /\ decoder.received_key_frame_count = 0
               /\ next.decoder.received_key_frame_count = 0
            \/ /\ next.frame = NoFrame
               /\ ~Late(dg.frame.time, last)
               /\ next.decoder.last_completed_frame_id = dg.frame.time
               /\ decoder.wait_for_frame_type # "NORMAL"
               /\ next.decoder.wait_for_frame_type = decoder.wait_for_frame_type
               /\ decoder.received_key_frame_count = 1
               /\ next.decoder.received_key_frame_count = 1
            \/ /\ next.frame = dg.frame
               /\ ~Late(dg.frame.time, last)
               /\ next.decoder.last_completed_frame_id = dg.frame.time
               /\ next.decoder.wait_for_frame_type =
                    IF dg.frame.type = "KEY" \/ dg.frame.time = last + 1
                    THEN "NORMAL" ELSE "KEY"
               /\ next.decoder.received_key_frame_count = 1
               /\ \/ dg.frame.type = "KEY"
                  \/ /\ decoder.received_key_frame_count = 1
                     /\ decoder.wait_for_frame_type = "NORMAL"
<1> DEFINE a == Add(decoder, dg)
           f == dg.frame
<1>1. Idle(decoder) /\ dg \in Datagram
  BY DEF VideoInv, Typed
<1>2. f \in Frame
  BY <1>1 DEF Datagram
<1>3. a \in [frame_buffers : {a.frame_buffers},
             complete_frames_queue : {{}, {f}},
             last_completed_frame_id : {decoder.last_completed_frame_id},
             wait_for_frame_type : {decoder.wait_for_frame_type},
             received_key_frame_count : {decoder.received_key_frame_count}]
  BY <1>1, AddLemma
<1> HIDE DEF a, f
<1>4. /\ a.last_completed_frame_id = last
      /\ a.wait_for_frame_type = decoder.wait_for_frame_type
      /\ a.received_key_frame_count = decoder.received_key_frame_count
      /\ a \in [frame_buffers : {a.frame_buffers},
                complete_frames_queue : {{}, {f}},
                last_completed_frame_id : 0..MaxFrames,
                wait_for_frame_type : Types,
                received_key_frame_count : {0, 1}]
  BY <1>1, <1>3 DEF Idle, last
<1>5. next = Next(a)
  BY DEF a
<1>6. /\ Idle(next.decoder)
      /\ \/ /\ next.frame = NoFrame
            /\ next.decoder.last_completed_frame_id = last
            /\ next.decoder.wait_for_frame_type = a.wait_for_frame_type
            /\ next.decoder.received_key_frame_count = a.received_key_frame_count
         \/ /\ next.frame = NoFrame
            /\ next.decoder.last_completed_frame_id = last
            /\ a.received_key_frame_count = 0
            /\ next.decoder.received_key_frame_count = 0
         \/ /\ next.frame = NoFrame
            /\ ~Late(f.time, last)
            /\ next.decoder.last_completed_frame_id = f.time
            /\ a.wait_for_frame_type # "NORMAL"
            /\ next.decoder.wait_for_frame_type = a.wait_for_frame_type
            /\ a.received_key_frame_count = 1
            /\ next.decoder.received_key_frame_count = 1
         \/ /\ next.frame = f
            /\ ~Late(f.time, last)
            /\ next.decoder.last_completed_frame_id = f.time
            /\ next.decoder.wait_for_frame_type = WaitAfter(a, f)
            /\ next.decoder.received_key_frame_count = 1
            /\ \/ f.type = "KEY"
               \/ /\ a.received_key_frame_count = 1
                  /\ a.wait_for_frame_type = "NORMAL"
  BY <1>2, <1>4, <1>5, NextLemma
<1>7. f # NoFrame
  BY <1>2 DEF Frame, NoFrame, VideoStreamAssumption
<1>8. ~Late(f.time, last) => f.time # last
  BY <1>1, <1>2 DEF Late, Idle, last, Frame, VideoStreamAssumption
<1>9. WaitAfter(a, f) = IF f.type = "KEY" \/ f.time = last + 1
                        THEN "NORMAL" ELSE "KEY"
  BY <1>4 DEF WaitAfter
<1> HIDE DEF last
<1> QED
  BY <1>2, <1>4, <1>6, <1>7, <1>8, <1>9 DEF f

\* The whole step of a datagram: the decoder takes nothing over, or it counts
\* the frame of the datagram as done with, without or with showing it.
LEMMA DatagramStep ==
  ASSUME VideoStreamAssumption, VideoInv,
         NEW dg \in network, OnVideoDatagram(dg)
  PROVE  /\ Idle(decoder')
         /\ \/ /\ UNCHANGED <<shown, intact, epochs>>
               /\ last' = last
               /\ decoder'.wait_for_frame_type = decoder.wait_for_frame_type
               /\ decoder'.received_key_frame_count
                    = decoder.received_key_frame_count
            \/ /\ UNCHANGED <<shown, intact, epochs>>
               /\ last' = last
               /\ decoder.received_key_frame_count = 0
               /\ decoder'.received_key_frame_count = 0
            \/ /\ UNCHANGED <<shown, intact>>
               /\ ~Late(dg.frame.time, last)
               /\ epochs' = epochs \cup {dg.frame.epoch}
               /\ last' = dg.frame.time
               /\ decoder.wait_for_frame_type # "NORMAL"
               /\ decoder'.wait_for_frame_type = decoder.wait_for_frame_type
               /\ decoder.received_key_frame_count = 1
               /\ decoder'.received_key_frame_count = 1
            \/ /\ Show(dg.frame)
               /\ ~Late(dg.frame.time, last)
               /\ epochs' = epochs \cup {dg.frame.epoch}
               /\ last' = dg.frame.time
               /\ decoder'.wait_for_frame_type =
                    IF dg.frame.type = "KEY" \/ dg.frame.time = last + 1
                    THEN "NORMAL" ELSE "KEY"
               /\ decoder'.received_key_frame_count = 1
               /\ \/ dg.frame.type = "KEY"
                  \/ /\ decoder.received_key_frame_count = 1
                     /\ decoder.wait_for_frame_type = "NORMAL"
<1> DEFINE next == Next(Add(decoder, dg))
<1>1. /\ decoder' = next.decoder
      /\ IF next.frame = NoFrame THEN UNCHANGED pictureVars ELSE Show(next.frame)
      /\ epochs' = IF next.decoder.last_completed_frame_id = last THEN epochs
                   ELSE epochs \cup {dg.frame.epoch}
  BY DEF OnVideoDatagram, last
<1>2. last' = next.decoder.last_completed_frame_id
  BY <1>1 DEF last
<1> HIDE DEF next, last
<1>3. next = Next(Add(decoder, dg))
  BY DEF next
<1> QED
  BY <1>1, <1>2, <1>3, NextOfDatagram DEF pictureVars

LEMMA DatagramBounded ==
  ASSUME VideoStreamAssumption, VideoInv, Bounded(decoder),
         NEW dg \in network, OnVideoDatagram(dg)
  PROVE  Bounded(decoder')
<1> DEFINE a == Add(decoder, dg)
<1>1. Idle(decoder) /\ dg \in Datagram /\ dg.frame \in Frame
  BY DEF VideoInv, Typed, Datagram
<1>2. Bounded(a)
  BY <1>1, AddBounded
<1>3. a \in [frame_buffers : {a.frame_buffers},
             complete_frames_queue : {{}, {dg.frame}},
             last_completed_frame_id : {decoder.last_completed_frame_id},
             wait_for_frame_type : {decoder.wait_for_frame_type},
             received_key_frame_count : {decoder.received_key_frame_count}]
  BY <1>1, AddLemma
<1>4. decoder' = Next(a).decoder
  BY DEF OnVideoDatagram
<1> HIDE DEF a
<1>5. a \in [frame_buffers : {a.frame_buffers},
             complete_frames_queue : {{}, {dg.frame}},
             last_completed_frame_id : 0..MaxFrames,
             wait_for_frame_type : Types,
             received_key_frame_count : {0, 1}]
  BY <1>1, <1>3 DEF Idle
<1>6. Next(a).decoder.frame_buffers = a.frame_buffers
  BY <1>1, <1>5, NextLemma
<1> QED
  BY <1>2, <1>4, <1>6 DEF Bounded

\* A frame that is not late is newer than all the decoder counted, if they are
\* frames of its encoder.
LEMMA NotLateIsNewer ==
  ASSUME VideoStreamAssumption, VideoInv,
         NEW dg \in network, ~Late(dg.frame.time, last),
         Lone(epochs \cup {dg.frame.epoch})
  PROVE  /\ Lone(epochs)
         /\ \A e \in epochs : e = dg.frame.epoch
         /\ epochs # {} => dg.frame.time > last
<1>1. Lone(epochs) /\ \A e \in epochs : e = dg.frame.epoch
  BY DEF Lone
<1>2. ASSUME epochs # {} PROVE dg.frame.time > last
  <2>1. dg.frame.epoch \in epochs
    BY <1>1, <1>2
  <2>2. last <= dg.frame.time + Behind(dg)
    BY <1>1, <2>1 DEF VideoInv, NotAhead
  <2>3. Behind(dg) \in 0..MaxDelay
    BY DEF VideoInv, Numbered
  <2>4. dg.frame.time \in Nat /\ last \in Nat
    BY DEF VideoInv, Typed, Datagram, Frame, Idle, last, VideoStreamAssumption
  <2>5. MaxDelay \in Nat /\ MaxDelay < Window /\ Window \in Nat
    BY DEF VideoStreamAssumption
  <2> HIDE DEF last, Behind
  <2> QED
    BY <2>2, <2>3, <2>4, <2>5 DEF Late
<1> QED
  BY <1>1, <1>2
\* A datagram that counts its frame as done with moves the decoder forward
\* within what the sender of the frame had sent.
LEMMA CountedStep ==
  ASSUME VideoStreamAssumption, VideoInv,
         NEW dg \in network, ~Late(dg.frame.time, last),
         UNCHANGED <<encoder, nextFrameId, network>>,
         last' = dg.frame.time,
         epochs' = epochs \cup {dg.frame.epoch},
         Lone(epochs')
  PROVE  /\ encoder'.epoch \in epochs' => last' <= encoder'.time
         /\ \A other \in network' : other.frame.epoch \in epochs' =>
              last' <= other.frame.time + Behind(other)'
         /\ shown # NoFrame => shown.epoch = dg.frame.epoch
                                 /\ shown.time < dg.frame.time
<1>1. /\ Lone(epochs) /\ \A e \in epochs : e = dg.frame.epoch
      /\ epochs # {} => dg.frame.time > last
  BY NotLateIsNewer
<1>2. \A e \in epochs' : e = dg.frame.epoch
  BY <1>1
<1>3. \A x \in network : /\ x.frame.time \in Nat /\ x.frameId \in Nat
                         /\ Behind(x) \in Nat
  BY DEF VideoInv, Numbered, Typed, Datagram, Frame, VideoStreamAssumption
<1>4. encoder.time \in Nat /\ nextFrameId \in Nat /\ last \in Nat
  BY DEF VideoInv, Typed, VideoStreamAssumption, Idle, last
<1>5. ASSUME encoder.epoch \in epochs' PROVE dg.frame.time <= encoder.time
  <2>1. dg.frame.time + Behind(dg) = encoder.time
    BY <1>2, <1>5 DEF VideoInv, Numbered
  <2> QED
    BY <2>1, <1>3, <1>4
<1>6. ASSUME NEW other \in network, other.frame.epoch \in epochs'
      PROVE  dg.frame.time <= other.frame.time + Behind(other)
  <2>1. other.frame.time - dg.frame.time = other.frameId - dg.frameId
    BY <1>2, <1>6 DEF VideoInv, Numbered
  <2>2. nextFrameId - 1 - dg.frameId \in Nat
    BY <1>3 DEF Behind
  <2> QED
    BY <2>1, <2>2, <1>3, <1>4 DEF Behind
<1>7. ASSUME shown # NoFrame
      PROVE  shown.epoch = dg.frame.epoch /\ shown.time < dg.frame.time
  <2>1. shown.epoch \in epochs /\ shown.time <= last
    BY <1>1, <1>7 DEF VideoInv, NotAhead
  <2>2. shown.time \in Nat
    BY <1>7 DEF VideoInv, Typed, Frame, VideoStreamAssumption
  <2> HIDE DEF last
  <2> QED
    BY <2>1, <2>2, <1>1, <1>3, <1>4
<1> QED
  BY <1>5, <1>6, <1>7 DEF Behind

LEMMA DatagramInv ==
  ASSUME VideoStreamAssumption, VideoInv,
         NEW dg \in network, OnVideoDatagram(dg)
  PROVE  VideoInv'
<1> DEFINE f == dg.frame
<1>1. UNCHANGED <<encoder, keyRequested, nextFrameId, network, notices>>
  BY DEF OnVideoDatagram, senderVars
<1>2. f \in Frame /\ f.epoch <= encoder.epoch
  BY DEF VideoInv, Typed, Numbered, Datagram
<1>3. /\ Idle(decoder')
      /\ UNCHANGED <<shown, epochs>> \/ epochs' = epochs \cup {f.epoch}
      /\ UNCHANGED <<shown, intact>> \/ Show(f)
  BY DatagramStep
<1>4. Typed'
  <2>1. encoder' \in [on : BOOLEAN, epoch : 1..MaxEpochs, time : 0..MaxFrames]
    BY <1>1 DEF VideoInv, Typed
  <2>2. recovery' \in BOOLEAN /\ mayRequest' \in BOOLEAN
    BY DEF OnVideoDatagram, RequestRecovery, VideoInv, Typed
  <2>3. shown' \in Frame \cup {NoFrame} /\ intact' \in BOOLEAN
    BY <1>2, <1>3 DEF Show, VideoInv, Typed
  <2>4. epochs' \subseteq 1..encoder'.epoch
    <3>1. f.epoch \in 1..encoder.epoch
      BY <1>2 DEF Frame, VideoStreamAssumption, VideoInv, Typed
    <3>2. epochs \subseteq 1..encoder.epoch
      BY DEF VideoInv, Typed
    <3>3. epochs' = epochs \/ epochs' = epochs \cup {f.epoch}
      BY DatagramStep
    <3> QED
      BY <3>1, <3>2, <3>3, <1>1
  <2> QED
    BY <1>1, <1>3, <2>1, <2>2, <2>3, <2>4 DEF VideoInv, Typed
<1>5. Numbered'
  BY <1>1 DEF VideoInv, Numbered, Behind
<1>6. \/ /\ UNCHANGED <<shown, intact, epochs>> /\ last' = last
         /\ \/ /\ decoder'.wait_for_frame_type = decoder.wait_for_frame_type
               /\ decoder'.received_key_frame_count
                    = decoder.received_key_frame_count
            \/ /\ decoder.received_key_frame_count = 0
               /\ decoder'.received_key_frame_count = 0
      \/ /\ ~Late(f.time, last)
         /\ epochs' = epochs \cup {f.epoch} /\ last' = f.time
         /\ decoder'.received_key_frame_count = 1
         /\ \/ /\ UNCHANGED <<shown, intact>>
               /\ decoder.received_key_frame_count = 1
               /\ decoder.wait_for_frame_type # "NORMAL"
               /\ decoder'.wait_for_frame_type = decoder.wait_for_frame_type
            \/ /\ Show(f)
               /\ decoder'.wait_for_frame_type =
                    IF f.type = "KEY" \/ f.time = last + 1
                    THEN "NORMAL" ELSE "KEY"
               /\ \/ f.type = "KEY"
                  \/ /\ decoder.received_key_frame_count = 1
                     /\ decoder.wait_for_frame_type = "NORMAL"
  BY DatagramStep
<1>7. CASE /\ UNCHANGED <<shown, intact, epochs>> /\ last' = last
           /\ \/ /\ decoder'.wait_for_frame_type = decoder.wait_for_frame_type
                 /\ decoder'.received_key_frame_count
                      = decoder.received_key_frame_count
              \/ /\ decoder.received_key_frame_count = 0
                 /\ decoder'.received_key_frame_count = 0
  <2>1. NotAhead'
    <3> HIDE DEF last
    <3> QED
      BY <1>1, <1>7 DEF VideoInv, NotAhead, Behind
  <2>2. PictureKnown'
    <3> HIDE DEF last
    <3> QED
      BY <1>7 DEF VideoInv, PictureKnown
  <2> QED
    BY <1>4, <1>5, <2>1, <2>2 DEF VideoInv
<1>8. CASE /\ ~Late(f.time, last)
           /\ epochs' = epochs \cup {f.epoch} /\ last' = f.time
           /\ decoder'.received_key_frame_count = 1
           /\ \/ /\ UNCHANGED <<shown, intact>>
                 /\ decoder.received_key_frame_count = 1
                 /\ decoder.wait_for_frame_type # "NORMAL"
                 /\ decoder'.wait_for_frame_type = decoder.wait_for_frame_type
              \/ /\ Show(f)
                 /\ decoder'.wait_for_frame_type =
                      IF f.type = "KEY" \/ f.time = last + 1
                      THEN "NORMAL" ELSE "KEY"
                 /\ \/ f.type = "KEY"
                    \/ /\ decoder.received_key_frame_count = 1
                       /\ decoder.wait_for_frame_type = "NORMAL"
  <2>1. ASSUME Lone(epochs')
        PROVE  /\ encoder'.epoch \in epochs' => last' <= encoder'.time
               /\ \A other \in network' : other.frame.epoch \in epochs' =>
                    last' <= other.frame.time + Behind(other)'
               /\ shown # NoFrame => shown.epoch = f.epoch /\ shown.time < f.time
    BY <1>1, <1>8, <2>1, CountedStep
  <2>2. f.epoch \in epochs' /\ f.time \in Nat
    BY <1>2, <1>8 DEF Frame, VideoStreamAssumption
  <2>3. shown' = shown \/ shown' = f
    BY <1>8 DEF Show
  <2>4. ASSUME Lone(epochs'), shown' # NoFrame
        PROVE  shown'.epoch \in epochs' /\ shown'.time <= last'
    <3>1. CASE shown' = f
      BY <3>1, <2>2, <1>8
    <3>2. CASE shown' = shown
      <4>1. shown.epoch = f.epoch /\ shown.time < f.time
        BY <3>2, <2>1, <2>4
      <4>2. shown.time \in Nat
        BY <3>2, <2>4 DEF VideoInv, Typed, Frame, VideoStreamAssumption
      <4> QED
        BY <3>2, <4>1, <4>2, <2>2, <1>8
    <3> QED
      BY <3>1, <3>2, <2>3
  <2>5. NotAhead'
    BY <2>1, <2>4 DEF NotAhead
  <2>6. decoder'.received_key_frame_count = 0 <=> shown' = NoFrame
    <3>1. f # NoFrame
      BY <1>2 DEF Frame, NoFrame, VideoStreamAssumption
    <3>2. decoder.received_key_frame_count = 0 <=> shown = NoFrame
      BY DEF VideoInv, PictureKnown
    <3>3. decoder'.received_key_frame_count # 0
      BY <1>8
    <3>4. CASE shown' = shown /\ decoder.received_key_frame_count = 1
      BY <3>2, <3>3, <3>4
    <3>5. CASE shown' = f
      BY <3>1, <3>3, <3>5
    <3> QED
      BY <1>8, <3>4, <3>5 DEF Show
  <2>7. ASSUME shown' # NoFrame, Lone(epochs')
        PROVE  IF intact' THEN decoder'.wait_for_frame_type = "NORMAL" =>
                                 last' = shown'.time
               ELSE decoder'.wait_for_frame_type = "KEY"
    <3>0. Lone(epochs)
      BY <1>8, <2>7 DEF Lone
    <3>1. ASSUME shown # NoFrame
          PROVE  IF intact THEN decoder.wait_for_frame_type = "NORMAL" =>
                                  last = shown.time
                 ELSE decoder.wait_for_frame_type = "KEY"
      BY <3>0, <3>1 DEF VideoInv, PictureKnown
    <3>2. CASE /\ UNCHANGED <<shown, intact>>
               /\ decoder.wait_for_frame_type # "NORMAL"
               /\ decoder'.wait_for_frame_type = decoder.wait_for_frame_type
      BY <3>1, <3>2, <2>7
    <3>3. CASE /\ Show(f)
               /\ decoder'.wait_for_frame_type =
                    IF f.type = "KEY" \/ f.time = last + 1
                    THEN "NORMAL" ELSE "KEY"
               /\ \/ f.type = "KEY"
                  \/ /\ decoder.received_key_frame_count = 1
                     /\ decoder.wait_for_frame_type = "NORMAL"
      <4>1. CASE f.type = "KEY"
        BY <3>3, <4>1, <1>8 DEF Show
      <4>2. CASE f.type # "KEY"
        <5>1. shown # NoFrame /\ decoder.wait_for_frame_type = "NORMAL"
          BY <3>3, <4>2 DEF VideoInv, PictureKnown
        <5>2. intact /\ last = shown.time
          BY <5>1, <3>1
        <5>3. shown.epoch = f.epoch
          BY <5>1, <2>1, <2>7
        <5>4. intact' <=> f.time = shown.time + 1
          BY <3>3, <4>2, <5>2, <5>3 DEF Show
        <5>5. last' = shown'.time
          BY <3>3, <1>8 DEF Show
        <5> HIDE DEF last, f
        <5>6. CASE f.time = last + 1
          BY <5>5, <5>4, <5>2, <5>6
        <5>7. CASE f.time # last + 1
          BY <3>3, <5>4, <5>2, <5>7, <4>2
        <5> QED
          BY <5>6, <5>7
      <4> QED
        BY <4>1, <4>2
    <3> QED
      BY <1>8, <3>2, <3>3
  <2>8. PictureKnown'
    BY <2>6, <2>7 DEF PictureKnown
  <2> QED
    BY <1>4, <1>5, <2>5, <2>8 DEF VideoInv
<1> QED
  BY <1>6, <1>7, <1>8

LEMMA ResetInv ==
  ASSUME VideoStreamAssumption, VideoInv, ResetVideoDecoderOfClient
  PROVE  VideoInv' /\ Bounded(decoder')
<1>1. /\ UNCHANGED <<encoder, keyRequested, nextFrameId, network, recovery,
                     mayRequest>>
      /\ notices > 0 /\ notices' = notices - 1
      /\ decoder' = NewDecoder
      /\ shown' = NoFrame /\ intact' = FALSE /\ epochs' = {}
  BY DEF ResetVideoDecoderOfClient, Dropped, senderVars
<1>2. Idle(decoder')
  BY <1>1 DEF Idle, NewDecoder, Types, VideoStreamAssumption
<1>3. Typed'
  <2>1. notices' \in Nat
    BY <1>1 DEF VideoInv, Typed
  <2>2. epochs' \subseteq 1..encoder'.epoch
    BY <1>1
  <2> QED
    BY <1>1, <1>2, <2>1, <2>2 DEF VideoInv, Typed
<1>4. Numbered' /\ NotAhead'
  BY <1>1 DEF VideoInv, Numbered, NotAhead, Behind
<1>5. PictureKnown'
  BY <1>1 DEF PictureKnown, NewDecoder
<1>6. Bounded(decoder')
  <2>1. DOMAIN decoder'.frame_buffers = {}
    BY <1>1 DEF NewDecoder
  <2>2. Cardinality({}) = 0 /\ IsFiniteSet({})
    BY FS_EmptySet
  <2> QED
    BY <2>1, <2>2 DEF Bounded, VideoStreamAssumption
<1> QED
  BY <1>3, <1>4, <1>5, <1>6 DEF VideoInv
-----------------------------------------------------------------------------
(* The theorems *)

\* The steps that touch neither the numbers nor the decoder.
LEMMA QuietInv ==
  ASSUME VideoStreamAssumption, VideoInv,
         \/ DisableVideoStream
         \/ OnRecoveryDatagram
         \/ RecoveryDatagramLost
         \/ SecondPasses
         \/ UNCHANGED videoVars
  PROVE  VideoInv' /\ UNCHANGED <<decoder, shown>>
<1>1. /\ encoder' \in [on : BOOLEAN, epoch : 1..MaxEpochs, time : 0..MaxFrames]
      /\ encoder'.epoch = encoder.epoch
      /\ encoder'.time = encoder.time
  <2>1. encoder \in [on : BOOLEAN, epoch : 1..MaxEpochs, time : 0..MaxFrames]
    BY DEF VideoInv, Typed
  <2>2. encoder' = encoder \/ encoder' = [encoder EXCEPT !.on = FALSE]
    BY DEF DisableVideoStream, OnRecoveryDatagram, RecoveryDatagramLost,
           SecondPasses, videoVars, senderVars
  <2> QED
    BY <2>1, <2>2
<1>2. UNCHANGED <<nextFrameId, network, decoder, shown, intact, epochs>>
  BY DEF DisableVideoStream, OnRecoveryDatagram, RecoveryDatagramLost,
         SecondPasses, videoVars, senderVars, receiverVars, pictureVars
<1>3. /\ keyRequested' \in BOOLEAN /\ recovery' \in BOOLEAN
      /\ mayRequest' \in BOOLEAN /\ notices' \in Nat
  <2>1. /\ keyRequested' = keyRequested \/ keyRequested' = TRUE
        /\ recovery' = recovery \/ recovery' = FALSE
        /\ mayRequest' = mayRequest \/ mayRequest' = TRUE
        /\ notices' = notices \/ notices' = notices + 1
    BY DEF DisableVideoStream, OnRecoveryDatagram, RecoveryDatagramLost,
           SecondPasses, videoVars, senderVars, receiverVars
  <2>2. notices \in Nat
    BY DEF VideoInv, Typed
  <2>3. notices' \in Nat
    BY <2>1, <2>2
  <2>4. /\ keyRequested \in {TRUE, FALSE} /\ recovery \in {TRUE, FALSE}
        /\ mayRequest \in {TRUE, FALSE}
    BY Zenon DEF VideoInv, Typed
  <2>5. /\ keyRequested' \in {TRUE, FALSE} /\ recovery' \in {TRUE, FALSE}
        /\ mayRequest' \in {TRUE, FALSE}
    BY <2>1, <2>4, Zenon
  <2> QED
    BY <2>3, <2>5
<1>4. Typed'
  BY <1>1, <1>2, <1>3 DEF VideoInv, Typed
<1>5. Numbered'
  BY <1>1, <1>2 DEF VideoInv, Numbered, Behind
<1>6. NotAhead'
  BY <1>1, <1>2 DEF VideoInv, NotAhead, Behind, last
<1>7. PictureKnown'
  BY <1>2 DEF VideoInv, PictureKnown, last
<1> QED
  BY <1>2, <1>4, <1>5, <1>6, <1>7 DEF VideoInv

LEMMA VideoStep ==
  ASSUME VideoStreamAssumption, VideoInv, [VideoNext]_videoVars
  PROVE  VideoInv'
<1>1. ASSUME NEW count \in Counts, OnVideoFrameEncoded(count) PROVE VideoInv'
  BY <1>1, EncodedInv
<1>2. CASE EnableVideoStream
  BY <1>2, EnableInv
<1>3. CASE \/ DisableVideoStream \/ OnRecoveryDatagram \/ RecoveryDatagramLost
           \/ SecondPasses \/ UNCHANGED videoVars
  BY <1>3, QuietInv
<1>4. ASSUME NEW dg \in network, OnVideoDatagram(dg) PROVE VideoInv'
  BY <1>4, DatagramInv
<1>5. CASE ResetVideoDecoderOfClient
  BY <1>5, ResetInv
<1> QED
  BY <1>1, <1>2, <1>3, <1>4, <1>5 DEF VideoNext

LEMMA BoundedStep ==
  ASSUME VideoStreamAssumption, VideoInv, Bounded(decoder), [VideoNext]_videoVars
  PROVE  Bounded(decoder')
<1>1. ASSUME NEW count \in Counts, OnVideoFrameEncoded(count)
      PROVE  Bounded(decoder')
  BY <1>1 DEF OnVideoFrameEncoded, receiverVars
<1>2. CASE EnableVideoStream
  BY <1>2 DEF EnableVideoStream, receiverVars
<1>3. CASE \/ DisableVideoStream \/ OnRecoveryDatagram \/ RecoveryDatagramLost
           \/ SecondPasses \/ UNCHANGED videoVars
  <2>1. decoder' = decoder
    BY <1>3, QuietInv
  <2> QED
    BY <2>1
<1>4. ASSUME NEW dg \in network, OnVideoDatagram(dg) PROVE Bounded(decoder')
  BY <1>4, DatagramBounded
<1>5. CASE ResetVideoDecoderOfClient
  BY <1>5, ResetInv
<1> QED
  BY <1>1, <1>2, <1>3, <1>4, <1>5 DEF VideoNext

LEMMA VideoInvariant == VideoSpec => [](VideoInv /\ Bounded(decoder))
<1> USE VideoStreamAssumption
<1>1. VideoInit => VideoInv /\ Bounded(decoder)
  BY VideoInitInv
<1>2. VideoInv /\ Bounded(decoder) /\ [VideoNext]_videoVars
        => (VideoInv /\ Bounded(decoder))'
  BY VideoStep, BoundedStep
<1> QED
  BY <1>1, <1>2, PTL DEF VideoSpec

\* The variables have their types; the frame buffers of a decoder stay within
\* _maximum_distinct_frames whatever the network delivers, and next leaves no
\* complete frame behind that a later datagram would have to push out.
THEOREM VideoTypeTheorem == VideoSpec => []VideoTypeOK
<1>1. VideoInv /\ Bounded(decoder) => VideoTypeOK
  <2> SUFFICES ASSUME VideoInv, Bounded(decoder) PROVE VideoTypeOK
    OBVIOUS
  <2>1. encoder.epoch \in Nat /\ encoder.epoch <= MaxEpochs /\ MaxEpochs \in Nat
    BY VideoStreamAssumption DEF VideoInv, Typed, VideoStreamAssumption
  <2>2. epochs \subseteq 1..MaxEpochs
    BY <2>1 DEF VideoInv, Typed
  <2>3. /\ encoder.on \in BOOLEAN
        /\ encoder.epoch \in 1..MaxEpochs /\ encoder.time \in 0..MaxFrames
    BY DEF VideoInv, Typed
  <2>4. /\ decoder.complete_frames_queue \subseteq Frame
        /\ decoder.last_completed_frame_id \in 0..MaxFrames
        /\ decoder.wait_for_frame_type \in Types
        /\ decoder.received_key_frame_count \in {0, 1}
    BY DEF VideoInv, Typed, Idle
  <2>5. Cardinality(DOMAIN decoder.frame_buffers) <= MaximumDistinctFrames
    BY DEF Bounded
  <2> QED
    BY <2>2, <2>3, <2>4, <2>5 DEF VideoTypeOK, VideoInv, Typed
<1> QED
  BY <1>1, VideoInvariant, PTL

\* A viewer who sees a broken picture waits for a key frame, and so asks for
\* one, while his decoder counted frames of one encoder only.
THEOREM BrokenPictureTheorem == VideoSpec => []BrokenPictureAsksForKey
<1>1. VideoInv => BrokenPictureAsksForKey
  <2> SUFFICES ASSUME VideoInv, shown # NoFrame, ~intact, OneEncoder
               PROVE  decoder.wait_for_frame_type = "KEY"
    BY DEF BrokenPictureAsksForKey
  <2>1. epochs \subseteq 1..MaxEpochs
    BY VideoStreamAssumption DEF VideoInv, Typed, VideoStreamAssumption
  <2>2. Lone(epochs)
    BY <2>1, VideoStreamAssumption, OneEncoderIsLone DEF OneEncoder
  <2> QED
    BY <2>2 DEF VideoInv, PictureKnown
<1> QED
  BY <1>1, VideoInvariant, PTL

\* A frame that a datagram would hand over is newer than the last one shown, if
\* both are frames of the one encoder the decoder counted.
LEMMA HandedOverIsNewer ==
  ASSUME VideoStreamAssumption, VideoInv, shown # NoFrame,
         NEW dg \in network, ~Late(dg.frame.time, last),
         Lone(epochs \cup {dg.frame.epoch})
  PROVE  dg.frame.time > shown.time
<1>1. Lone(epochs) /\ (epochs # {} => dg.frame.time > last)
  BY NotLateIsNewer
<1>2. shown.epoch \in epochs /\ shown.time <= last
  BY <1>1 DEF VideoInv, NotAhead
<1>3. shown.time \in Nat /\ dg.frame.time \in Nat /\ last \in Nat
  BY DEF VideoInv, Typed, Datagram, Frame, Idle, last, VideoStreamAssumption
<1> HIDE DEF last
<1> QED
  BY <1>1, <1>2, <1>3

\* The VP8 decoder begins with a key frame and gets the frames of one encoder
\* in their order and none twice, not even at once: whichever datagram comes
\* next, however the network delayed, repeated and reordered it, what next hands
\* over is newer than what it handed over last.  No datagram is further behind
\* than MaxDelay frames, fewer than the ids the decoder takes for late.
THEOREM OrderTheorem == VideoSpec => []FramesInOrder
<1>1. VideoInv => FramesInOrder
  <2> SUFFICES ASSUME VideoInv, NEW dg \in network, NEW next,
                      next = Next(Add(decoder, dg)), next.frame # NoFrame
               PROVE  IF shown = NoFrame THEN next.frame.type = "KEY"
                      ELSE Cardinality(epochs \cup {next.frame.epoch}) <= 1 =>
                             next.frame.time > shown.time
    BY DEF FramesInOrder
  <2>1. /\ next.frame = dg.frame
        /\ ~Late(dg.frame.time, last)
        /\ dg.frame.type = "KEY" \/ decoder.received_key_frame_count = 1
    BY VideoStreamAssumption, NextOfDatagram
  <2>2. CASE shown = NoFrame
    BY <2>1, <2>2 DEF VideoInv, PictureKnown
  <2>3. CASE shown # NoFrame
    <3> SUFFICES ASSUME Cardinality(epochs \cup {dg.frame.epoch}) <= 1
                 PROVE  dg.frame.time > shown.time
      BY <2>1, <2>3
    <3>1. epochs \cup {dg.frame.epoch} \subseteq 1..MaxEpochs
      <4>1. dg.frame.epoch \in 1..MaxEpochs
        BY DEF VideoInv, Typed, Datagram, Frame
      <4>2. epochs \subseteq 1..MaxEpochs
        BY VideoStreamAssumption DEF VideoInv, Typed, VideoStreamAssumption
      <4> QED
        BY <4>1, <4>2
    <3>2. Lone(epochs \cup {dg.frame.epoch})
      BY <3>1, VideoStreamAssumption, OneEncoderIsLone
    <3> QED
      BY <2>1, <2>3, <3>2, VideoStreamAssumption, HandedOverIsNewer
  <2> QED
    BY <2>2, <2>3
<1> QED
  BY <1>1, VideoInvariant, PTL
================================================================================
