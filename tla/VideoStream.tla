------------------------------ MODULE VideoStream ------------------------------
(***************************************************************************)
(* The video of one client as another one receives it: VP8Encoder numbers the *)
(* frames, MediaSocket of the sender splits each into datagrams, the server   *)
(* forwards them as they are, UDP loses, repeats and reorders them, and       *)
(* VideoFrameUdpDecoder of the receiver puts frames together, hands them to   *)
(* the VP8 decoder and asks for a key frame when its picture needs one.       *)
(* Whenever the sender switches his video, a notification over TCP, which     *)
(* nothing orders with the datagrams, makes the receiver drop its decoders.   *)
(***************************************************************************)
EXTENDS Integers, Sequences, FiniteSetsExt, Functions

CONSTANTS
  Counts,                 \* datagrams a frame may need
  MaximumDistinctFrames,  \* _maximum_distinct_frames, 16 in the code
  Window,                 \* how far behind a frame is late, 256 in the code
  MaxDelay,               \* frames sent while a datagram is on its way, at most
  MaxFrames,              \* bound of the frames encoded in an instance
  MaxEpochs               \* bound of the encoders created in an instance

ASSUME VideoStreamAssumption ==
  /\ Counts \subseteq Nat \ {0}
  /\ MaximumDistinctFrames \in Nat \ {0}
  /\ Window \in Nat \ {0}
  /\ MaxDelay \in 0..(Window - 1)
  /\ MaxFrames \in Nat
  /\ MaxEpochs \in Nat \ {0}

VARIABLES
  encoder,      \* the sender's encoder: on, which one it is, its last frame
  keyRequested, \* _recoveryFlag of the encoding thread
  nextFrameId,  \* __nextVideoFrameId
  network,      \* datagrams sent: each may arrive never, once or often
  recovery,     \* a recovery datagram of the receiver is on its way
  notices,      \* clientvideoenabled and clientvideodisabled on their way
  decoder,      \* VideoFrameUdpDecoder of the sender at the receiver
  mayRequest,   \* more than a second passed since the last recovery request
  shown,        \* the frame last handed to the VP8 decoder since its reset
  intact,       \* its picture rests on a key frame and all frames behind it
  epochs        \* encoders whose frames the decoder counted since its reset

senderVars == <<encoder, keyRequested, nextFrameId>>
pictureVars == <<shown, intact>>
receiverVars == <<decoder, mayRequest, pictureVars, epochs>>
videoVars == <<senderVars, network, recovery, notices, receiverVars>>

Types == {"NORMAL", "KEY"}
Frame == [epoch : 1..MaxEpochs, time : 1..MaxFrames, type : Types]
NoFrame == [epoch |-> 0, time |-> 0, type |-> "NORMAL"]
Datagram == [frameId : 1..MaxFrames, index : Nat, count : Counts, frame : Frame]

-----------------------------------------------------------------------------
(* The receiver's VideoFrameUdpDecoder *)

\* A decoder is created with the first datagram of the sender: none is as good
\* as a new one.
NewDecoder == [frame_buffers |-> <<>>, complete_frames_queue |-> {},
               last_completed_frame_id |-> 0, wait_for_frame_type |-> "NORMAL",
               received_key_frame_count |-> 0]

\* Mutant: the frame counted last is not late.
Late_MutantStrict(id, last) == id < last /\ last - id < Window

\* An id as old as that belongs to what is done with; one that is much older
\* to a sender that started anew.
Late(id, last) == id <= last /\ last - id < Window

\* Mutant: no buffer is evicted.
CheckFrameBuffers_MutantNever(buffers) == buffers

\* The frame buffers with the greatest ids are kept: an evicted buffer may be
\* the one that was just written.
CheckFrameBuffers(buffers) ==
  IF Cardinality(DOMAIN buffers) <= MaximumDistinctFrames THEN buffers
  ELSE Restrict(buffers, DOMAIN buffers \ {Min(DOMAIN buffers)})

CheckCompleteFramesQueue(frames) ==
  IF Cardinality(frames) <= MaximumDistinctFrames THEN frames
  ELSE frames \ {CHOOSE f \in frames : \A g \in frames : f.time <= g.time}

\* The indexes received of a datagram's frame so far.
Received(d, dg) ==
  IF dg.frameId \in DOMAIN d.frame_buffers THEN d.frame_buffers[dg.frameId]
  ELSE {}

AlreadyProcessed(d, dg) ==
  \/ Late(dg.frameId, d.last_completed_frame_id)
  \/ dg.index \in Received(d, dg)

\* add: a complete frame goes to the queue, in which a frame replaces one of
\* the same time; its buffer stays until it is evicted.
Add(d, dg) ==
  LET parts == Received(d, dg) \cup {dg.index}
      complete == Cardinality(parts) = dg.count
      others == {f \in d.complete_frames_queue : f.time # dg.frame.time}
  IN  IF AlreadyProcessed(d, dg) THEN d
      ELSE [d EXCEPT
             !.frame_buffers = CheckFrameBuffers(
               [id \in DOMAIN @ \cup {dg.frameId} |->
                  IF id = dg.frameId THEN parts ELSE @[id]]),
             !.complete_frames_queue =
               IF complete THEN CheckCompleteFramesQueue(others \cup {dg.frame})
               ELSE @]

\* Mutant: a missing frame is not noticed.
WaitAfter_MutantNormal(d, f) == "NORMAL"

\* What the decoder waits for after it handed over a frame: a key frame when
\* the frame is not the one behind the last.
WaitAfter(d, f) ==
  IF f.type = "KEY" \/ f.time = d.last_completed_frame_id + 1 THEN "NORMAL"
  ELSE "KEY"

\* next: the frame handed over, if any, and the decoder behind it.  Without a
\* key frame all others are useless, a late frame is dropped, and while a key
\* frame is waited for another frame is dropped and counts as done with.
Next(d) ==
  LET f == CHOOSE g \in d.complete_frames_queue :
             \A h \in d.complete_frames_queue : g.time <= h.time
      useless == d.received_key_frame_count = 0 /\ f.type # "KEY"
      late == ~useless /\ Late(f.time, d.last_completed_frame_id)
      unwanted == ~useless /\ ~late /\ f.type # "KEY"
                    /\ d.wait_for_frame_type # "NORMAL"
      rest == [d EXCEPT !.complete_frames_queue = @ \ {f}]
      skipped == [rest EXCEPT !.last_completed_frame_id = f.time]
  IN  IF d.complete_frames_queue = {} THEN [decoder |-> d, frame |-> NoFrame]
      ELSE CASE useless ->
                  [decoder |-> [rest EXCEPT !.wait_for_frame_type = "KEY"],
                   frame |-> NoFrame]
             [] late -> [decoder |-> rest, frame |-> NoFrame]
             [] unwanted -> [decoder |-> skipped, frame |-> NoFrame]
             [] ~useless /\ ~late /\ ~unwanted ->
                  [decoder |-> [skipped EXCEPT
                                  !.wait_for_frame_type = WaitAfter(d, f),
                                  !.received_key_frame_count =
                                    IF f.type = "KEY" THEN 1 ELSE @],
                   frame |-> f]

-----------------------------------------------------------------------------
VideoInit ==
  /\ encoder = [on |-> TRUE, epoch |-> 1, time |-> 0]
  /\ keyRequested = FALSE
  /\ nextFrameId = 1
  /\ network = {}
  /\ recovery = FALSE
  /\ notices = 0
  /\ decoder = NewDecoder
  /\ mayRequest = TRUE
  /\ shown = NoFrame
  /\ intact = FALSE
  /\ epochs = {}

-----------------------------------------------------------------------------
(* The sender *)

\* VideoFrameDatagram::split of a frame into that many datagrams.
Split(f, count) ==
  {[frameId |-> nextFrameId, index |-> i, count |-> count, frame |-> f] :
     i \in 0..(count - 1)}

\* The network loses what it did not deliver by then.
StillUnderWay == {dg \in network : nextFrameId - dg.frameId <= MaxDelay}

\* An image is encoded, and the frame gets the next id and is sent.
OnVideoFrameEncoded(count) ==
  /\ encoder.on
  /\ nextFrameId <= MaxFrames
  /\ encoder' = [encoder EXCEPT !.time = @ + 1]
  /\ network' = StillUnderWay \cup
       Split([epoch |-> encoder.epoch, time |-> encoder.time + 1,
              type |-> IF keyRequested THEN "KEY" ELSE "NORMAL"], count)
  /\ keyRequested' = FALSE
  /\ nextFrameId' = nextFrameId + 1
  /\ UNCHANGED <<recovery, notices, receiverVars>>

\* enableVideoStream: the thread starts again and creates a new encoder, which
\* counts from one; the ids of the datagrams go on.
EnableVideoStream ==
  /\ encoder.epoch < MaxEpochs
  /\ encoder' = [on |-> TRUE, epoch |-> encoder.epoch + 1, time |-> 0]
  /\ notices' = notices + 1
  /\ UNCHANGED <<keyRequested, nextFrameId, network, recovery, receiverVars>>

DisableVideoStream ==
  /\ encoder.on
  /\ encoder' = [encoder EXCEPT !.on = FALSE]
  /\ notices' = notices + 1
  /\ UNCHANGED <<keyRequested, nextFrameId, network, recovery, receiverVars>>

\* A recovery datagram, which may come again, reaches the sender.
OnRecoveryDatagram ==
  /\ recovery
  /\ keyRequested' = TRUE
  /\ UNCHANGED <<encoder, nextFrameId, network, recovery, notices, receiverVars>>

RecoveryDatagramLost ==
  /\ recovery
  /\ recovery' = FALSE
  /\ UNCHANGED <<senderVars, network, notices, receiverVars>>

-----------------------------------------------------------------------------
(* The receiver *)

\* A decoder that waits asks for a key frame, once a second.
RequestRecovery(waits) ==
  /\ recovery' = (recovery \/ (waits /\ mayRequest))
  /\ mayRequest' = (mayRequest /\ ~waits)

\* A frame is handed to the VP8 decoder.
Show(f) ==
  /\ shown' = f
  /\ intact' = \/ f.type = "KEY"
               \/ intact /\ f.epoch = shown.epoch /\ f.time = shown.time + 1

\* onReadyRead with a video datagram.
OnVideoDatagram(dg) ==
  /\ dg \in network
  /\ LET next == Next(Add(decoder, dg))
     IN  /\ decoder' = next.decoder
         /\ IF next.frame = NoFrame THEN UNCHANGED pictureVars
            ELSE Show(next.frame)
         /\ epochs' = IF next.decoder.last_completed_frame_id
                           = decoder.last_completed_frame_id THEN epochs
                      ELSE epochs \cup {dg.frame.epoch}
         /\ RequestRecovery(next.decoder.wait_for_frame_type # "NORMAL")
  /\ UNCHANGED <<senderVars, network, notices>>

\* Mutant: the decoder of the datagrams stays.
Dropped_MutantKept == decoder

Dropped == NewDecoder

\* resetVideoDecoderOfClient, for a notification that the sender switched.
ResetVideoDecoderOfClient ==
  /\ notices > 0
  /\ notices' = notices - 1
  /\ decoder' = Dropped
  /\ shown' = NoFrame
  /\ intact' = FALSE
  /\ epochs' = {}
  /\ UNCHANGED <<senderVars, network, recovery, mayRequest>>

SecondPasses ==
  /\ ~mayRequest
  /\ mayRequest' = TRUE
  /\ UNCHANGED <<senderVars, network, recovery, notices, decoder, pictureVars,
                 epochs>>

VideoNext ==
  \/ \E count \in Counts : OnVideoFrameEncoded(count)
  \/ EnableVideoStream
  \/ DisableVideoStream
  \/ OnRecoveryDatagram
  \/ RecoveryDatagramLost
  \/ \E dg \in network : OnVideoDatagram(dg)
  \/ ResetVideoDecoderOfClient
  \/ SecondPasses

VideoSpec == VideoInit /\ [][VideoNext]_videoVars

-----------------------------------------------------------------------------
(* Properties *)

VideoTypeOK ==
  /\ encoder.on \in BOOLEAN
  /\ encoder.epoch \in 1..MaxEpochs /\ encoder.time \in 0..MaxFrames
  /\ keyRequested \in BOOLEAN
  /\ nextFrameId \in 1..(MaxFrames + 1)
  /\ network \subseteq Datagram
  /\ recovery \in BOOLEAN /\ mayRequest \in BOOLEAN
  /\ notices \in Nat
  /\ Cardinality(DOMAIN decoder.frame_buffers) <= MaximumDistinctFrames
  /\ decoder.complete_frames_queue \subseteq Frame
  /\ decoder.last_completed_frame_id \in 0..MaxFrames
  /\ decoder.wait_for_frame_type \in Types
  /\ decoder.received_key_frame_count \in {0, 1}
  /\ shown \in Frame \cup {NoFrame}
  /\ intact \in BOOLEAN
  /\ epochs \subseteq 1..MaxEpochs

\* No frame of an encoder the sender no longer uses met frames of another.
OneEncoder == Cardinality(epochs) <= 1

\* A viewer who sees a broken picture waits for a key frame, as long as its
\* decoder did not count frames of two encoders.
BrokenPictureAsksForKey ==
  shown # NoFrame /\ ~intact /\ OneEncoder => decoder.wait_for_frame_type = "KEY"

\* Though frames may complete in any order and datagrams repeat, the VP8 decoder
\* begins with a key frame and gets the frames of one encoder in their order,
\* none of them twice: said of what next would hand over for any datagram that
\* may come, because a frame that is handed over again at once changes nothing.
FramesInOrder ==
  \A dg \in network :
    LET f == Next(Add(decoder, dg)).frame
    IN  f # NoFrame =>
          IF shown = NoFrame THEN f.type = "KEY"
          ELSE Cardinality(epochs \cup {f.epoch}) <= 1 => f.time > shown.time

=============================================================================
