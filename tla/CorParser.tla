------------------------------- MODULE CorParser -------------------------------
(***************************************************************************)
(* cor_parser_parse of src/projects/libcorprotocol and the callbacks of       *)
(* QCorConnection: one direction of a COR connection as TCP sees it.  Frames  *)
(* are serialised byte by byte, big-endian; TCP hands over the bytes in order *)
(* and in segments of any length; the parser keeps its state between the      *)
(* segments and the connection keeps the bytes the parser did not take.       *)
(***************************************************************************)
EXTENDS Naturals, Sequences, SequencesExt

CONSTANTS
  FrameTypes,      \* types a sender writes: 0 for a request, 1 for a response
  CorrelationIds,  \* correlation ids a sender writes
  Bodies,          \* bodies a sender writes, sequences of bytes
  FlagBytes,       \* what the flags, which nothing initialises, may hold
  MaxFrames        \* bound of the frames written in an instance

\* What a field of four bytes can hold.
FitsIn32Bits(n) == n \in Nat /\ n \div 65536 < 65536

ASSUME CorParserAssumption ==
  /\ FrameTypes \subseteq {0, 1}
  /\ \A id \in CorrelationIds : FitsIn32Bits(id)
  /\ Bodies \subseteq Seq(0..255)
  /\ \A body \in Bodies : FitsIn32Bits(Len(body))
  /\ FlagBytes \subseteq 0..255
  /\ MaxFrames \in Nat

VARIABLES
  written,    \* frames the sender wrote
  stream,     \* bytes on their way
  buffer,     \* QCorConnectionPrivate::buffer
  parser,     \* cor_parser: state, request_body_bytes_read and request
  frame,      \* QCorConnectionPrivate::frame
  delivered,  \* frames handed over by onParserFrameEnd
  broken      \* the connection ended

readerVars == <<buffer, parser, frame, delivered>>
parserVars == <<written, stream, readerVars, broken>>

CorFrame == [type : FrameTypes, correlationId : CorrelationIds, data : Bodies]

-----------------------------------------------------------------------------
(* Bytes *)

\* What the last bytes of a number of up to four bytes count.
Weight == <<16777216, 65536, 256, 1>>

\* The bytes of a number in network byte order.
Bytes(n, size) == [i \in 1..size |-> (n \div Weight[4 - size + i]) % 256]

\* Mutant: the bytes are taken in the order of the host.
FromBytes_MutantHostOrder(bytes) ==
  LET value[k \in 0..Len(bytes)] ==
        IF k = 0 THEN 0 ELSE value[k - 1] * 256 + Reverse(bytes)[k]
  IN  value[Len(bytes)]

\* ntohs and ntohl: the value of the first k bytes, for every k.
FromBytes(bytes) ==
  LET value[k \in 0..Len(bytes)] ==
        IF k = 0 THEN 0 ELSE value[k - 1] * 256 + bytes[k]
  IN  value[Len(bytes)]

\* The fields of the header in their order, and the sizes of their types.
Fields == <<"version", "type", "flags", "correlation_id", "length">>

FieldSize(field) ==
  CASE field \in {"version", "type"} -> 2
    [] field = "flags" -> 1
    [] field \in {"correlation_id", "length"} -> 4

\* A frame as doNextSendItem writes it; version is 1.
Serialized(f, flags) ==
  Bytes(1, 2) \o Bytes(f.type, 2) \o Bytes(flags, 1)
    \o Bytes(f.correlationId, 4) \o Bytes(Len(f.data), 4) \o f.data

-----------------------------------------------------------------------------
(* The parser.  A parse is in progress as a record of the parser, the frame  *)
(* under construction, the frames handed over, the unread data, and whether  *)
(* the loop left for want of data.                                           *)

NoRequest == [type |-> 0, correlation_id |-> 0, length |-> 0]
NoFrame == [type |-> 0, correlationId |-> 0, data |-> <<>>]

\* cor_parser_init: state 0 is s_none, i the i-th field of the header, and the
\* state behind the last field s_body_data.
NewParser == [state |-> 0, request_body_bytes_read |-> 0, request |-> NoRequest]
BodyState == Len(Fields) + 1

\* s_none: a request is allocated and onParserFrameBegin starts a new frame.
BeginFrame(c) ==
  [c EXCEPT !.parser.state = 1, !.frame = NoFrame]

\* Fields of 2, 4 and 8 bytes are stored; the flags, of one byte, are skipped.
StoreField(request, field, bytes) ==
  IF field \in DOMAIN request THEN [request EXCEPT ![field] = FromBytes(bytes)]
  ELSE request

\* The field is taken whole or not at all.  At the end of the header the frame
\* gets its type and correlation id.
ParseField(c) ==
  LET field == Fields[c.parser.state]
      size == FieldSize(field)
      request == StoreField(c.parser.request, field, SubSeq(c.data, 1, size))
  IN  IF Len(c.data) < size THEN [c EXCEPT !.starved = TRUE]
      ELSE [c EXCEPT
             !.parser.state = @ + 1,
             !.parser.request = request,
             !.frame = IF c.parser.state + 1 < BodyState THEN @
                       ELSE [@ EXCEPT !.type = request.type,
                               !.correlationId = request.correlation_id],
             !.data = SubSeq(@, size + 1, Len(@))]

\* Mutant: the bytes read of the body are not reset for the next frame.
EndFrame_MutantKeepsCount(c) ==
  IF c.parser.request_body_bytes_read = c.parser.request.length
  THEN [c EXCEPT !.parser.state = 0, !.parser.request = NoRequest,
                 !.frame = NoFrame, !.handed = Append(@, c.frame)]
  ELSE c

\* onParserFrameEnd hands the frame over and the parser starts anew.
EndFrame(c) ==
  IF c.parser.request_body_bytes_read = c.parser.request.length
  THEN [c EXCEPT !.parser = NewParser, !.frame = NoFrame,
                 !.handed = Append(@, c.frame)]
  ELSE c

BodyChunk(c) ==
  LET left == c.parser.request.length - c.parser.request_body_bytes_read
  IN  IF Len(c.data) > left THEN left ELSE Len(c.data)

ParseBody(c) ==
  LET len == BodyChunk(c)
  IN  EndFrame([c EXCEPT
        !.parser.request_body_bytes_read = @ + len,
        !.frame.data = @ \o SubSeq(c.data, 1, len),
        !.data = SubSeq(@, len + 1, Len(@))])

\* The loop ends with the data: what is left to do without data, as the end of
\* a frame with an empty body, waits for the next byte.
Finished(c) == c.starved \/ c.data = <<>>

Pass(c) ==
  CASE Finished(c) -> c
    [] ~Finished(c) /\ c.parser.state = 0 -> BeginFrame(c)
    [] ~Finished(c) /\ c.parser.state \in DOMAIN Fields -> ParseField(c)
    [] ~Finished(c) /\ c.parser.state = BodyState -> ParseBody(c)

\* A pass takes a byte, unless it begins a frame or ends an empty body: the loop
\* is over after three passes a byte, and two (LoopEnds in CorParserProofs).
MaxPasses(c) == 3 * Len(c.data) + 2

\* The while loop: what it has made of c after k passes, and at its end.
Parse(c) ==
  LET after[k \in 0..MaxPasses(c)] == IF k = 0 THEN c ELSE Pass(after[k - 1])
  IN  after[MaxPasses(c)]

-----------------------------------------------------------------------------
(* The connection *)

ParserInit ==
  /\ written = <<>>
  /\ stream = <<>>
  /\ buffer = <<>>
  /\ parser = NewParser
  /\ frame = NoFrame
  /\ delivered = <<>>
  /\ broken = FALSE

WriteFrame(f, flags) ==
  /\ ~broken
  /\ Len(written) < MaxFrames
  /\ written' = Append(written, f)
  /\ stream' = stream \o Serialized(f, flags)
  /\ UNCHANGED <<readerVars, broken>>

\* Mutant: the data the parser did not take is dropped.
Rest_MutantDropped(c) == <<>>

\* The buffer keeps the data behind what the parser read.
Rest(c) == c.data

\* onSocketReadyRead with a segment of n bytes.
OnSocketReadyRead(n) ==
  /\ ~broken
  /\ n \in 1..Len(stream)
  /\ LET c == Parse([parser |-> parser, frame |-> frame, handed |-> <<>>,
                     data |-> buffer \o SubSeq(stream, 1, n),
                     starved |-> FALSE])
     IN  /\ parser' = c.parser
         /\ frame' = c.frame
         /\ buffer' = Rest(c)
         /\ delivered' = delivered \o c.handed
  /\ stream' = SubSeq(stream, n + 1, Len(stream))
  /\ UNCHANGED <<written, broken>>

\* The connection ends: what was on its way is lost, a frame may stay partial.
Disconnected ==
  /\ ~broken
  /\ broken' = TRUE
  /\ stream' = <<>>
  /\ UNCHANGED <<written, readerVars>>

ParserNext ==
  \/ \E f \in CorFrame, flags \in FlagBytes : WriteFrame(f, flags)
  \/ \E n \in 1..Len(stream) : OnSocketReadyRead(n)
  \/ Disconnected

ParserSpec == ParserInit /\ [][ParserNext]_parserVars

-----------------------------------------------------------------------------
(* Properties *)

ParserTypeOK ==
  /\ written \in Seq(CorFrame)
  /\ stream \in Seq(0..255)
  /\ buffer \in Seq(0..255)
  /\ parser.state \in 0..BodyState
  /\ parser.request_body_bytes_read \in Nat
  /\ \A field \in DOMAIN NoRequest : parser.request[field] \in Nat
  /\ delivered \in Seq(CorFrame)
  /\ broken \in BOOLEAN

\* The parser is never behind its data: once all bytes arrived, every frame is
\* handed over, except that a frame with an empty body waits for one byte more;
\* and no more than an incomplete field stays in the buffer.
NothingHeldBack ==
  /\ Len(buffer) < 4
  /\ ~broken /\ stream = <<>> =>
       \/ delivered = written
       \/ /\ delivered = Front(written)
          /\ Last(written).data = <<>>

\* However TCP cuts the bytes, the connection is a channel of whole frames, as
\* CorConnection assumes: each is handed over once, unchanged, in order.
Outstanding ==
  IF broken THEN <<>>
  ELSE IF IsPrefix(delivered, written)
  THEN SubSeq(written, Len(delivered) + 1, Len(written))
  ELSE delivered

Channel == INSTANCE FrameChannel WITH
  Ends <- {"sender"}, Frame <- CorFrame,
  line <- [p \in {"sender"} |-> Outstanding],
  cut <- IF broken THEN {"sender"} ELSE {}

ParserChannelSpec == Channel!Spec
=============================================================================
