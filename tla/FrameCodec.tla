----------------------------- MODULE FrameCodec -----------------------------
(***************************************************************************)
(* The frame codecs (codec/frame): one peer writes messages through a      *)
(* codec, the bytes travel on a stream, and the other peer's read loop     *)
(* calls the codec's HandleRead again and again, which hands each frame to *)
(* the next handler.  Except for the delimiter codec that handler reads    *)
(* the frame from the stream itself, through a LimitReader.                *)
(*                                                                         *)
(* A byte is a number below Base; Base stands for 256.                     *)
(***************************************************************************)
EXTENDS Integers, SequencesExt

CONSTANTS
  Base,
  Codecs,    \* codecs with their parameters
  Bodies,    \* messages that are written
  MaxWrites  \* (bound)

Bytes == 0 .. Base - 1

\* The numbers of two, four and eight bytes are those below
Base2 == Base * Base
Base4 == Base2 * Base2
Base8 == Base4 * Base4

\* An int64 has eight bytes, and what is too large for it becomes negative.
IntLimit == Base8 \div 2
Int64(n) == ((n + IntLimit) % (2 * IntLimit)) - IntLimit
Ints == -IntLimit .. IntLimit - 1

\* What the constructors assert of their parameters.
LengthFieldCodec ==
  {c \in [kind : {"lengthField"}, little : BOOLEAN, width : {1, 2, 4, 8}, offset : Nat,
          adjust : Ints, strip : Nat, max : Ints, prepend : Ints, includes : BOOLEAN] :
     c.max > 0 /\ c.offset <= c.max - c.width}
VarintLengthFieldCodec == [kind : {"varint"}, max : Nat \ {0}]
DelimiterCodec ==
  [kind : {"delimiter"}, max : Nat \ {0}, delimiter : Seq(Bytes) \ {<<>>}, strip : {0, 1}]
FixedLengthCodec == [kind : {"fixed"}, length : Nat \ {0}]

ASSUME CodecAssumption ==
  /\ Base \in Nat /\ Base % 2 = 0 /\ Base > 2 /\ MaxWrites \in Nat /\ Bodies \subseteq Seq(Bytes)
  /\ Codecs \subseteq LengthFieldCodec \cup VarintLengthFieldCodec \cup DelimiterCodec
                    \cup FixedLengthCodec

VARIABLES
  codec,    \* the codec both peers use
  stream,   \* bytes that were written and not read yet
  phase,    \* "header": HandleRead runs; "body": the next handler reads a frame
  buf,      \* bytes HandleRead has read
  frame,    \* bytes the next handler has got of the frame
  skip,     \* bytes of the frame that are stripped before it gets more
  left,     \* bytes of the frame that are still on the stream
  sent,     \* history: the messages that were written
  received, \* history: the frames the next handler has got
  spoiled   \* history: a peer did what the codec does not stand

vars == <<codec, stream, phase, buf, frame, skip, left, sent, received, spoiled>>

Init ==
  /\ codec \in Codecs
  /\ stream = <<>> /\ phase = "header" /\ buf = <<>> /\ frame = <<>>
  /\ skip = 0 /\ left = 0 /\ sent = <<>> /\ received = <<>> /\ spoiled = FALSE

-----------------------------------------------------------------------------
(* Encoding.                                                               *)

\* packFieldLength; the high bytes are cut off.
Digits2(n) == <<(n \div Base) % Base, n % Base>>
Digits4(n) == Digits2(n \div Base2) \o Digits2(n % Base2)
Digits8(n) == Digits4(n \div Base4) \o Digits4(n % Base4)
Digits(width, n) ==
  CASE width = 1 -> <<n % Base>>
    [] width = 2 -> Digits2(n)
    [] width = 4 -> Digits4(n)
    [] width = 8 -> Digits8(n)
Pack(c, n) == IF c.little THEN Reverse(Digits(c.width, n)) ELSE Digits(c.width, n)

\* unpackFieldLength; eight bytes may be a negative number.
Value2(d) == d[1] * Base + d[2]
Value4(d) == Value2(SubSeq(d, 1, 2)) * Base2 + Value2(SubSeq(d, 3, 4))
Value8(d) == Value4(SubSeq(d, 1, 4)) * Base4 + Value4(SubSeq(d, 5, 8))
Value(d) ==
  CASE Len(d) = 1 -> d[1]
    [] Len(d) = 2 -> Value2(d)
    [] Len(d) = 4 -> Value4(d)
    [] Len(d) = 8 -> Int64(Value8(d))
Unpack(c, bs) == Value(IF c.little THEN Reverse(bs) ELSE bs)

\* binary.PutUvarint and ReadUvarint: half of the values of a byte are digits, the
\* others the same digits with more to come.
Half == Base \div 2
PutUvarint[n \in Nat] ==
  IF n < Half THEN <<n>> ELSE <<(n % Half) + Half>> \o PutUvarint[n \div Half]
Uvarint[bs \in Seq(Bytes)] ==
  IF bs = <<>> THEN 0 ELSE (Head(bs) % Half) + Half * Uvarint[Tail(bs)]

\* The length field counts adjustment and, if it includes it, itself.
FieldValue(c, b) == Len(b) + c.prepend + IF c.includes THEN c.width ELSE 0

\* The bytes HandleWrite passes on.  What lies before a length field is put
\* there by another handler.
WriteLengthField(c, b) == [i \in 1 .. c.offset |-> 0] \o Pack(c, FieldValue(c, b)) \o b
WriteVarint(b) == PutUvarint[Len(b)] \o b
WriteDelimited(c, b) == b \o c.delimiter

Encode(c, b) ==
  CASE c.kind = "lengthField" -> WriteLengthField(c, b)
    [] c.kind = "varint" -> WriteVarint(b)
    [] c.kind = "delimiter" -> WriteDelimited(c, b)
    [] c.kind = "fixed" -> b

\* What the peer's next handler should get of it.
Decoded(c, b) ==
  CASE c.kind = "lengthField" -> SubSeq(Encode(c, b), c.strip + 1, Len(Encode(c, b)))
    [] c.kind = "delimiter" -> IF c.strip > 0 THEN b ELSE b \o c.delimiter
    [] OTHER -> b

EndsWith(bs, d) == Len(bs) >= Len(d) /\ SubSeq(bs, Len(bs) - Len(d) + 1, Len(bs)) = d

\* The numbers that have room in the length field.
FieldLimit(c) ==
  CASE c.width = 1 -> Base
    [] c.width = 2 -> Base2
    [] c.width = 4 -> Base4
    [] c.width = 8 -> IntLimit

\* Messages the codec can carry: the length has room in its field, the frame is
\* not too large, the delimiter is not met before the end.
Fits(c, b) ==
  LET bs == Encode(c, b) IN
  CASE c.kind = "lengthField" ->
         /\ FieldValue(c, b) >= 0 /\ FieldValue(c, b) < FieldLimit(c)
         /\ c.strip <= Len(bs) /\ Len(bs) <= c.max
         /\ c.prepend + c.adjust + (IF c.includes THEN c.width ELSE 0) = 0
    [] c.kind = "varint" -> TRUE
    [] c.kind = "delimiter" ->
         /\ Len(bs) <= c.max
         /\ \A i \in 1 .. Len(bs) - 1 : ~EndsWith(SubSeq(bs, 1, i), c.delimiter)
    [] c.kind = "fixed" -> Len(b) = c.length

\* HandleWrite.  The varint codec alone refuses messages.
Write ==
  /\ Len(sent) < MaxWrites
  /\ \E b \in Bodies :
       /\ codec.kind = "varint" => Len(b) <= codec.max
       /\ stream' = stream \o Encode(codec, b)
       /\ sent' = Append(sent, b)
       /\ spoiled' = (spoiled \/ ~Fits(codec, b))
  /\ UNCHANGED <<codec, phase, buf, frame, skip, left, received>>

-----------------------------------------------------------------------------
(* Decoding.                                                               *)

\* HandleRead takes a byte of the stream; bs is what it has now.
Take(bs) ==
  /\ phase = "header" /\ stream # <<>>
  /\ bs = Append(buf, Head(stream)) /\ stream' = Tail(stream)

More(bs) == buf' = bs /\ UNCHANGED <<phase, frame, skip, left, received, spoiled>>

\* HandleRead panics, and is called again for what follows on the stream.
Refuse ==
  /\ buf' = <<>> /\ spoiled' = TRUE
  /\ UNCHANGED <<phase, frame, skip, left, received>>

\* HandleRead passes on a frame of which f was read, n bytes are to be
\* stripped and m are on the stream.
Post(f, n, m) ==
  /\ buf' = <<>> /\ phase' = "body" /\ frame' = f /\ skip' = n /\ left' = m
  /\ UNCHANGED <<received, spoiled>>

\* Mutant: the adjusted length is compared without the header.
MutantReadLengthField ==
  /\ codec.kind = "lengthField"
  /\ \E bs \in {Append(buf, b) : b \in Bytes} :
       LET end == codec.offset + codec.width
           field == Unpack(codec, SubSeq(bs, codec.offset + 1, end))
           length == Int64(field + codec.adjust + end)
       IN
       /\ Take(bs)
       /\ IF Len(bs) < end THEN More(bs)
          ELSE IF \/ field < 0 \/ length < end
                  \/ length - end > codec.max \/ codec.strip > length THEN Refuse
          ELSE Post(SubSeq(bs, codec.strip + 1, end),
                    IF codec.strip > end THEN codec.strip - end ELSE 0, length - end)
  /\ UNCHANGED <<codec, sent>>

ReadLengthField ==
  /\ codec.kind = "lengthField"
  /\ \E bs \in {Append(buf, b) : b \in Bytes} :
       LET end == codec.offset + codec.width
           field == Unpack(codec, SubSeq(bs, codec.offset + 1, end))
           length == Int64(field + codec.adjust + end)
       IN
       /\ Take(bs)
       /\ IF Len(bs) < end THEN More(bs)
          ELSE IF \/ field < 0 \/ length < end
                  \/ length > codec.max \/ codec.strip > length THEN Refuse
          ELSE Post(SubSeq(bs, codec.strip + 1, end),
                    IF codec.strip > end THEN codec.strip - end ELSE 0, length - end)
  /\ UNCHANGED <<codec, sent>>

ReadVarint ==
  /\ codec.kind = "varint"
  /\ \E bs \in {Append(buf, b) : b \in Bytes} :
       /\ Take(bs)
       /\ IF Last(bs) >= Half THEN More(bs)
          ELSE IF Uvarint[bs] > codec.max THEN Refuse
          ELSE Post(<<>>, 0, Uvarint[bs])
  /\ UNCHANGED <<codec, sent>>

\* Mutant: a delimiter that is all there is is not found.
MutantReadDelimited ==
  /\ codec.kind = "delimiter"
  /\ \E bs \in {Append(buf, b) : b \in Bytes} :
       /\ Take(bs)
       /\ IF EndsWith(bs, codec.delimiter) /\ Len(bs) > Len(codec.delimiter)
          THEN Post(IF codec.strip > 0 THEN SubSeq(bs, 1, Len(bs) - Len(codec.delimiter)) ELSE bs,
                    0, 0)
          ELSE IF Len(bs) < codec.max THEN More(bs) ELSE Refuse
  /\ UNCHANGED <<codec, sent>>

\* The frame is complete when it is passed on.
ReadDelimited ==
  /\ codec.kind = "delimiter"
  /\ \E bs \in {Append(buf, b) : b \in Bytes} :
       /\ Take(bs)
       /\ IF EndsWith(bs, codec.delimiter)
          THEN Post(IF codec.strip > 0 THEN SubSeq(bs, 1, Len(bs) - Len(codec.delimiter)) ELSE bs,
                    0, 0)
          ELSE IF Len(bs) < codec.max THEN More(bs) ELSE Refuse
  /\ UNCHANGED <<codec, sent>>

ReadFixed ==
  /\ codec.kind = "fixed" /\ phase = "header" /\ stream # <<>>
  /\ Post(<<>>, 0, codec.length)
  /\ UNCHANGED <<codec, stream, sent>>

\* Mutant: only bytes of the header are stripped.
MutantReadFrame ==
  /\ phase = "body" /\ left > 0 /\ stream # <<>>
  /\ stream' = Tail(stream) /\ left' = left - 1
  /\ frame' = Append(frame, Head(stream)) /\ skip' = 0
  /\ UNCHANGED <<codec, phase, buf, sent, received, spoiled>>

\* Stripping, or the next handler, reads a byte of the frame.
ReadFrame ==
  /\ phase = "body" /\ left > 0 /\ stream # <<>>
  /\ stream' = Tail(stream) /\ left' = left - 1
  /\ IF skip > 0 THEN skip' = skip - 1 /\ UNCHANGED frame
                 ELSE frame' = Append(frame, Head(stream)) /\ UNCHANGED skip
  /\ UNCHANGED <<codec, phase, buf, sent, received, spoiled>>

EndFrame ==
  /\ phase = "body" /\ left = 0
  /\ received' = Append(received, frame)
  /\ phase' = "header" /\ frame' = <<>> /\ skip' = 0
  /\ UNCHANGED <<codec, stream, buf, left, sent, spoiled>>

\* Mutant: the rest of the frame is read with the next one.
MutantLeaveFrame ==
  /\ buf # <<>> \/ left > 0
  /\ phase' = "header" /\ buf' = <<>> /\ spoiled' = TRUE
  /\ UNCHANGED <<codec, stream, frame, skip, left, sent, received>>

\* The next handler returns before the end of the frame, or a read of the
\* transport fails, as with a deadline that expires.
LeaveFrame ==
  /\ buf # <<>> \/ left > 0
  /\ phase' = "header" /\ buf' = <<>> /\ frame' = <<>> /\ skip' = 0 /\ left' = 0
  /\ spoiled' = TRUE
  /\ UNCHANGED <<codec, stream, sent, received>>

-----------------------------------------------------------------------------
Read == ReadLengthField \/ ReadVarint \/ ReadDelimited \/ ReadFixed \/ ReadFrame \/ EndFrame

Next ==
  \/ Write \/ LeaveFrame
  \/ ReadLengthField \/ ReadVarint \/ ReadDelimited \/ ReadFixed \/ ReadFrame \/ EndFrame

Spec == Init /\ [][Next]_vars

\* The read loop goes on, and handlers read frames to the end.
Fairness == WF_vars(Read)

-----------------------------------------------------------------------------
TypeOK ==
  /\ codec \in Codecs /\ phase \in {"header", "body"} /\ spoiled \in BOOLEAN
  /\ stream \in Seq(Bytes) /\ buf \in Seq(Bytes) /\ frame \in Seq(Bytes)
  /\ sent \in Seq(Bodies) /\ received \in Seq(Seq(Bytes))
  /\ skip \in 0 .. left /\ left \in Nat
  /\ phase = "header" => frame = <<>> /\ left = 0
  /\ phase = "body" => buf = <<>>

\* What the next handler should get.
Frames == [i \in DOMAIN sent |-> Decoded(codec, sent[i])]

\* Frames arrive as they were written, in order, whatever their lengths and
\* contents are and however they lie on the stream, as long as messages fit
\* and handlers read what they get (codec/frame).
FramesArrive == spoiled \/ IsPrefix(received, Frames)

\* No handler gets a frame larger than the codec's maximum, whatever bytes the
\* codec takes for a header (maxFrameLength, length).
FramesAreBounded ==
  phase = "body" =>
    Len(frame) + left <= IF codec.kind = "fixed" THEN codec.length ELSE codec.max

\* Every frame arrives: no header, strip or delimiter leaves the codec waiting
\* for bytes that do not belong to its frame (codec/frame).
AllArrive == <>[](spoiled \/ received = Frames)
=============================================================================
