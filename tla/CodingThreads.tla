----------------------------- MODULE CodingThreads -----------------------------
(***************************************************************************)
(* The video coding threads of MediaSocket (VideoEncodingThread and           *)
(* VideoDecodingThread of libclient) and the GUI thread that owns them.  A    *)
(* thread takes items from a queue guarded by a mutex and a wait condition    *)
(* and leaves its loop when its stop flag is set; the owner enqueues, asks    *)
(* for key frames, starts, stops and joins.                                   *)
(*                                                                           *)
(* What a thread does with the mutex held is one action: a wait releases the  *)
(* mutex and sleeps at once.  Flags are atomic integers read and written      *)
(* without the mutex, so every access of one is an action of its own.         *)
(***************************************************************************)
EXTENDS Naturals, Sequences, FiniteSets

CONSTANTS
  Senders,      \* remote clients whose video is decoded
  Capacity,     \* images the encoding thread's queue holds
  MaxDecodes,   \* bound of the decoding thread's queue in an instance
  MaxResets     \* bound of the resets of one sender's decoder in an instance

ASSUME CodingThreadsAssumption ==
  /\ Capacity \in Nat \ {0}
  /\ MaxDecodes \in Nat
  /\ MaxResets \in Nat

Encoding == "encoding"
Decoding == "decoding"
Threads == {Encoding, Decoding}

VARIABLES
  owner,         \* where the GUI thread is: the thread it stops, how far, why
  pc,            \* where each thread is
  stopFlag,      \* _stopFlag
  queue,         \* _queue
  recoveryFlag,  \* _recoveryFlag of the encoding thread
  encoder,       \* the encoder and what its next frame is requested to be
  frameTimeOver, \* the time of a frame passed since the last one was encoded
  decoder,       \* of each sender, the stream its decoder was created for
  current,       \* the item the decoding thread works on
  stream,        \* of each sender, how often its decoder was reset
  keyAsked       \* a key frame was asked for and none was encoded since

threadVars == <<pc, stopFlag, queue>>
encoderVars == <<recoveryFlag, encoder, frameTimeOver, keyAsked>>
decoderVars == <<decoder, current, stream>>
codingVars == <<owner, threadVars, encoderVars, decoderVars>>

Idle == [at |-> "idle", thread |-> Encoding, goal |-> "none"]
Gone == [at |-> "gone", thread |-> Encoding, goal |-> "delete"]
OwnerIdle == owner = Idle

\* QThread::isRunning.
IsRunning(t) == pc[t] # "stopped"

NoEncoder == "none"
NoDecoder == MaxResets + 1

\* An item of the decoding thread: a frame of a stream, or the null frame.
Item == [sender : Senders, stream : 0..MaxResets, null : BOOLEAN]
NoItem == [sender |-> "none", stream |-> 0, null |-> TRUE]

CodingInit ==
  /\ owner = Idle
  /\ pc = [t \in Threads |-> IF t = Decoding THEN "entering" ELSE "stopped"]
  /\ stopFlag = [t \in Threads |-> FALSE]
  /\ queue = [t \in Threads |-> <<>>]
  /\ recoveryFlag = FALSE
  /\ encoder = NoEncoder
  /\ frameTimeOver = FALSE
  /\ decoder = [s \in Senders |-> NoDecoder]
  /\ current = NoItem
  /\ stream = [s \in Senders |-> 0]
  /\ keyAsked = FALSE

-----------------------------------------------------------------------------
(* The GUI thread *)

\* Mutant: the thread is not woken.
WakeAll_MutantSilent(t) == UNCHANGED pc

\* wakeAll moves a sleeping thread back to the test of its flag.
WakeAll(t) == pc' = [pc EXCEPT ![t] = IF @ = "waiting" THEN "testing" ELSE @]

\* Mutant: the queue grows.
Enqueue_MutantUnbounded(q, item) == Append(q, item)

\* The oldest images beyond the capacity are dropped.
Enqueue(q, item) ==
  LET longer == Append(q, item)
  IN  IF Len(longer) > Capacity THEN Tail(longer) ELSE longer

\* sendVideoFrame of the camera: an image when the encoding thread runs.
EnqueueImage ==
  /\ OwnerIdle
  /\ IsRunning(Encoding)
  /\ queue' = [queue EXCEPT ![Encoding] = Enqueue(@, "image")]
  /\ WakeAll(Encoding)
  /\ UNCHANGED <<owner, stopFlag, encoderVars, decoderVars>>

\* A recovery datagram arrived: the flag is set without the mutex.
EnqueueRecovery ==
  /\ OwnerIdle
  /\ recoveryFlag' = TRUE
  /\ keyAsked' = TRUE
  /\ WakeAll(Encoding)
  /\ UNCHANGED <<owner, stopFlag, queue, encoder, frameTimeOver, decoderVars>>

EnqueueItem(s, null) ==
  /\ OwnerIdle
  /\ Len(queue[Decoding]) < MaxDecodes
  /\ queue' = [queue EXCEPT ![Decoding] =
                 Append(@, [sender |-> s, stream |-> stream[s], null |-> null])]
  /\ WakeAll(Decoding)

\* A frame of a sender is complete.
EnqueueFrame(s) ==
  /\ EnqueueItem(s, FALSE)
  /\ UNCHANGED <<owner, stopFlag, encoderVars, decoderVars>>

\* resetVideoDecoderOfClient: frames enqueued later belong to another stream.
ResetVideoDecoderOfClient(s) ==
  /\ stream[s] < MaxResets
  /\ EnqueueItem(s, TRUE)
  /\ stream' = [stream EXCEPT ![s] = @ + 1]
  /\ UNCHANGED <<owner, stopFlag, encoderVars, decoder, current>>

\* initVideoEncoder ("restart"), resetVideoEncoder ("reset") and the destructor
\* ("delete") begin with stop, which sets the flag ...
Stop(goal) ==
  /\ OwnerIdle
  /\ owner' = [at |-> "stopping", thread |-> Encoding, goal |-> goal]
  /\ stopFlag' = [stopFlag EXCEPT ![Encoding] = TRUE]
  /\ UNCHANGED <<pc, queue, encoderVars, decoderVars>>

\* ... and then wakes the thread,
StopWakes(t) ==
  /\ owner.at = "stopping" /\ owner.thread = t
  /\ owner' = [owner EXCEPT !.at = "joining"]
  /\ WakeAll(t)
  /\ UNCHANGED <<stopFlag, queue, encoderVars, decoderVars>>

\* QThread::start: the thread runs from now on and enters run later.
Joined(goal, t) ==
  \/ /\ goal = "reset"
     /\ owner' = Idle
     /\ UNCHANGED <<pc, stopFlag>>
  \/ /\ goal = "restart"
     /\ owner' = Idle
     /\ pc' = [pc EXCEPT ![Encoding] = "entering"]
     /\ UNCHANGED stopFlag
  \/ /\ goal = "delete" /\ t = Encoding
     /\ owner' = [owner EXCEPT !.at = "stopping", !.thread = Decoding]
     /\ stopFlag' = [stopFlag EXCEPT ![Decoding] = TRUE]
     /\ UNCHANGED pc
  \/ /\ goal = "delete" /\ t = Decoding
     /\ owner' = Gone
     /\ UNCHANGED <<pc, stopFlag>>

\* ... and wait returns when the thread is not running.
Join(t) ==
  /\ owner.at = "joining" /\ owner.thread = t
  /\ ~IsRunning(t)
  /\ Joined(owner.goal, t)
  /\ UNCHANGED <<queue, encoderVars, decoderVars>>

-----------------------------------------------------------------------------
(* The loop of a thread *)

\* run: the stop flag is reset before the first test of it.
Enter(t) ==
  /\ pc[t] = "entering"
  /\ stopFlag' = [stopFlag EXCEPT ![t] = FALSE]
  /\ pc' = [pc EXCEPT ![t] = "testing"]
  /\ frameTimeOver' = (frameTimeOver /\ t # Encoding)
  /\ UNCHANGED <<owner, queue, recoveryFlag, encoder, keyAsked, decoderVars>>

\* The end of run deletes the coders of the thread.
TestStopFlag(t) ==
  /\ pc[t] = "testing"
  /\ pc' = [pc EXCEPT ![t] = IF stopFlag[t] THEN "stopped" ELSE "taking"]
  /\ encoder' = IF stopFlag[t] /\ t = Encoding THEN NoEncoder ELSE encoder
  /\ decoder' = IF stopFlag[t] /\ t = Decoding
                THEN [s \in Senders |-> NoDecoder] ELSE decoder
  /\ UNCHANGED <<owner, stopFlag, queue, recoveryFlag, frameTimeOver, keyAsked,
                 current, stream>>

\* With the mutex held: an empty queue puts the thread to sleep.
WaitForItem(t) ==
  /\ pc[t] = "taking"
  /\ queue[t] = <<>>
  /\ pc' = [pc EXCEPT ![t] = "waiting"]
  /\ UNCHANGED <<owner, stopFlag, queue, encoderVars, decoderVars>>

-----------------------------------------------------------------------------
(* The encoding thread *)

\* Mutant: the next image is taken without a test of the flag.
TakeImage_MutantInnerLoop ==
  /\ pc[Encoding] = "taking"
  /\ queue[Encoding] # <<>>
  /\ queue' = [queue EXCEPT ![Encoding] = Tail(@)]
  /\ pc' = [pc EXCEPT ![Encoding] = IF frameTimeOver THEN "preparing" ELSE @]
  /\ frameTimeOver' = FALSE
  /\ UNCHANGED <<owner, stopFlag, recoveryFlag, encoder, keyAsked, decoderVars>>

\* An image that comes before the time of a frame is over is dropped.
TakeImage ==
  /\ pc[Encoding] = "taking"
  /\ queue[Encoding] # <<>>
  /\ queue' = [queue EXCEPT ![Encoding] = Tail(@)]
  /\ pc' = [pc EXCEPT ![Encoding] = IF frameTimeOver THEN "preparing"
                                    ELSE "testing"]
  /\ frameTimeOver' = FALSE
  /\ UNCHANGED <<owner, stopFlag, recoveryFlag, encoder, keyAsked, decoderVars>>

\* A missing encoder, or one of another size, is created; the thread stops
\* itself when that fails.
PrepareEncoder ==
  /\ pc[Encoding] = "preparing"
  /\ \/ encoder # NoEncoder /\ pc' = [pc EXCEPT ![Encoding] = "recovering"]
        /\ UNCHANGED <<stopFlag, encoder>>
     \/ encoder' = "NORMAL" /\ pc' = [pc EXCEPT ![Encoding] = "recovering"]
        /\ UNCHANGED stopFlag
     \/ encoder' = "NORMAL" /\ pc' = [pc EXCEPT ![Encoding] = "testing"]
        /\ stopFlag' = [stopFlag EXCEPT ![Encoding] = TRUE]
  /\ UNCHANGED <<owner, queue, recoveryFlag, frameTimeOver, keyAsked,
                 decoderVars>>

\* Mutant: the request is forgotten.
TestRecoveryFlag_MutantForgets ==
  /\ pc[Encoding] = "recovering"
  /\ pc' = [pc EXCEPT ![Encoding] = IF recoveryFlag THEN "clearing"
                                    ELSE "encoding"]
  /\ UNCHANGED <<owner, stopFlag, queue, recoveryFlag, encoder, frameTimeOver,
                 keyAsked, decoderVars>>

\* A requested recovery makes the next frame a key frame ...
TestRecoveryFlag ==
  /\ pc[Encoding] = "recovering"
  /\ encoder' = IF recoveryFlag THEN "KEY" ELSE encoder
  /\ pc' = [pc EXCEPT ![Encoding] = IF recoveryFlag THEN "clearing"
                                    ELSE "encoding"]
  /\ UNCHANGED <<owner, stopFlag, queue, recoveryFlag, frameTimeOver, keyAsked,
                 decoderVars>>

\* ... and clears the flag before that frame is encoded.
ClearRecoveryFlag ==
  /\ pc[Encoding] = "clearing"
  /\ recoveryFlag' = FALSE
  /\ pc' = [pc EXCEPT ![Encoding] = "encoding"]
  /\ UNCHANGED <<owner, stopFlag, queue, encoder, frameTimeOver, keyAsked,
                 decoderVars>>

\* VP8Encoder::encode: the frame has the requested type, the next is NORMAL.
Encode ==
  /\ pc[Encoding] = "encoding"
  /\ encoder' = "NORMAL"
  /\ keyAsked' = (keyAsked /\ encoder # "KEY")
  /\ pc' = [pc EXCEPT ![Encoding] = "testing"]
  /\ UNCHANGED <<owner, stopFlag, queue, recoveryFlag, frameTimeOver,
                 decoderVars>>

FrameTimePasses ==
  /\ ~frameTimeOver
  /\ frameTimeOver' = TRUE
  /\ UNCHANGED <<owner, threadVars, recoveryFlag, encoder, keyAsked, decoderVars>>

-----------------------------------------------------------------------------
(* The decoding thread *)

TakeItem ==
  /\ pc[Decoding] = "taking"
  /\ queue[Decoding] # <<>>
  /\ current' = Head(queue[Decoding])
  /\ queue' = [queue EXCEPT ![Decoding] = Tail(@)]
  /\ pc' = [pc EXCEPT ![Decoding] = "decoding"]
  /\ UNCHANGED <<owner, stopFlag, encoderVars, decoder, stream>>

\* Mutant: the null frame is taken for a frame without data.
Decoder_MutantKeepsOnNull(item) ==
  IF decoder[item.sender] # NoDecoder THEN decoder[item.sender] ELSE item.stream

\* The null frame deletes the decoder; a frame creates a missing one.
Decoder(item) ==
  CASE item.null -> NoDecoder
    [] ~item.null /\ decoder[item.sender] = NoDecoder -> item.stream
    [] OTHER -> decoder[item.sender]

Decode ==
  /\ pc[Decoding] = "decoding"
  /\ decoder' = [decoder EXCEPT ![current.sender] = Decoder(current)]
  /\ current' = NoItem
  /\ pc' = [pc EXCEPT ![Decoding] = "testing"]
  /\ UNCHANGED <<owner, stopFlag, queue, encoderVars, stream>>

-----------------------------------------------------------------------------
Encoder == TakeImage \/ PrepareEncoder \/ TestRecoveryFlag \/ ClearRecoveryFlag
           \/ Encode

Loop(t) ==
  \/ Enter(t) \/ TestStopFlag(t) \/ WaitForItem(t)
  \/ t = Encoding /\ Encoder
  \/ t = Decoding /\ (TakeItem \/ Decode)

Received ==
  \/ EnqueueRecovery
  \/ \E s \in Senders : EnqueueFrame(s) \/ ResetVideoDecoderOfClient(s)

CodingNext ==
  \/ EnqueueImage
  \/ Received
  \/ \E goal \in {"restart", "reset", "delete"} : Stop(goal)
  \/ \E t \in Threads : StopWakes(t) \/ Join(t) \/ Loop(t)
  \/ FrameTimePasses

CodingSpec == CodingInit /\ [][CodingNext]_codingVars

\* The scheduler runs every thread, time passes and the camera delivers.
CodingFairSpec ==
  /\ CodingSpec
  /\ \A t \in Threads : WF_codingVars(Loop(t)) /\ WF_codingVars(StopWakes(t))
  /\ WF_codingVars(FrameTimePasses)
  /\ WF_codingVars(EnqueueImage)

-----------------------------------------------------------------------------
(* Properties *)

CodingTypeOK ==
  /\ owner \in [at : {"idle", "stopping", "joining", "gone"}, thread : Threads,
                goal : {"none", "restart", "reset", "delete"}]
  /\ pc \in [Threads -> {"stopped", "entering", "testing", "taking", "waiting",
                         "preparing", "recovering", "clearing", "encoding",
                         "decoding"}]
  /\ stopFlag \in [Threads -> BOOLEAN]
  /\ DOMAIN queue = Threads
  /\ queue[Encoding] \in Seq({"image"}) /\ Len(queue[Encoding]) <= Capacity
  /\ queue[Decoding] \in Seq(Item)
  /\ recoveryFlag \in BOOLEAN
  /\ encoder \in {NoEncoder, "NORMAL", "KEY"}
  /\ frameTimeOver \in BOOLEAN
  /\ decoder \in [Senders -> 0..NoDecoder]
  /\ current \in Item \cup {NoItem}
  /\ stream \in [Senders -> 0..MaxResets]
  /\ keyAsked \in BOOLEAN

\* A thread sleeps only on an empty queue: no item is left to a thread that
\* nobody wakes.
SleepsOnEmptyQueue ==
  \A t \in Threads : pc[t] = "waiting" => queue[t] = <<>>

\* Frames of different streams of a sender never meet in one decoder.
OneStreamPerDecoder ==
  [][\A s \in Senders :
       (pc[Decoding] = "decoding" /\ current.sender = s /\ ~current.null
          /\ pc'[Decoding] = "testing")
       => decoder'[s] = current.stream]_codingVars

\* The windows in which stop is not noticed: the thread has yet to enter run,
\* which resets the flag, or it tested the flag and finds its queue empty.
StopWindow(t) ==
  \/ pc[t] \in {"entering", "waiting"}
  \/ pc[t] = "taking" /\ queue[t] = <<>>

\* Outside of these windows a stopped thread ends, so wait returns.
StopEndsThread ==
  \A t \in Threads :
    (owner.at = "joining" /\ owner.thread = t /\ stopFlag[t] /\ ~StopWindow(t))
    ~> ~IsRunning(t)

\* While the camera delivers and nobody stops the thread, a key frame that was
\* asked for is encoded.
KeyFrameFollows ==
  (keyAsked /\ IsRunning(Encoding)) ~>
    (~keyAsked \/ ~OwnerIdle \/ ~IsRunning(Encoding) \/ stopFlag[Encoding])
=============================================================================
