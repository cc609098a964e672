---------------------------- MODULE StdBusCodec ----------------------------
(***************************************************************************)
(* Standard Bus on the wire: the CRCs, the MS/TP frame, tagged values, the *)
(* attribute service inside a frame, and the client's search for a frame   *)
(* in what has come in.  A byte is 0..255, a message a sequence of bytes.  *)
(***************************************************************************)
EXTENDS Registry, FiniteSetsExt

CONSTANTS
    PreambleScanLimit,  \* stray bytes skipped in search of a frame
    MaxPayloadLen       \* the longest payload the client waits for

-----------------------------------------------------------------------------
(* CRCs, on bytes and words as the sets of their bits *)

Bits == [b \in 0..255 |-> {i \in 0..7 : (b \div 2^i) % 2 = 1}]
Number(bits) ==
    LET upto[k \in 0..16] ==
            IF k = 0 THEN 0 ELSE 2 * upto[k - 1] + (IF 16 - k \in bits THEN 1 ELSE 0)
    IN  upto[16]
Odd(S) == Cardinality(S) % 2 = 1

\* x ^ x << 1 ^ .. ^ x << 7, of which bits 1 to 7 and 8 stay
HeaderStep(crc, b) ==
    LET x == SymDiff(crc, Bits[b])
        spread(i) == Odd({k \in 0..7 : i - k \in x})
    IN  {i \in 1..7 : spread(i)} \cup {i \in {0} : spread(8)}
HeaderCrc8(data) ==
    LET upto[k \in 0..Len(data)] == IF k = 0 THEN 0..7 ELSE HeaderStep(upto[k - 1], data[k])
    IN  Number((0..7) \ upto[Len(data)])

DataStep(crc, b) ==
    LET low == {i \in crc : i < 8} IN
    LET x == SymDiff(low, Bits[b])
        nibble == {i \in x : i < 4}
        terms == <<{i - 8 : i \in crc \ low}, {i + 8 : i \in x}, {i + 3 : i \in x},
                   {i + 12 : i \in x}, {i - 4 : i \in x \ nibble}, nibble,
                   {i + 7 : i \in nibble}>>
    IN  {i \in 0..15 : Odd({k \in DOMAIN terms : i \in terms[k]})}
DataCrc16(data) ==
    LET upto[k \in 0..Len(data)] == IF k = 0 THEN 0..15 ELSE DataStep(upto[k - 1], data[k])
    IN  Number((0..15) \ upto[Len(data)])

DataCrc16Le(data) == Reverse(Bytes(DataCrc16(data), 2))

-----------------------------------------------------------------------------
(* Tagged values *)

Tag == [U8 |-> 1, U16 |-> 3, U32 |-> 5, S32 |-> 6, FLOAT |-> 8, STRING |-> 9,
        PACKED |-> 15, S16 |-> 134]

\* Numbers past what TLC's own integers hold are not considered.
Fits(type, n) ==
    /\ type = "U8" => n \in 0..255
    /\ type \in {"U16", "PACKED"} => n \in 0..65535
    /\ type = "U32" => n >= 0

\* S16 is not a type of the wire.
Encodable(type, v) ==
    IF type = "STRING" THEN IsText(v) /\ Ascii(v.text) /\ Len(v.text) <= 255
    ELSE type # "S16" /\ ~IsText(v) /\ (type = "FLOAT" \/ Fits(type, Trunc(v)))

EncodeValue(type, v) ==
    CASE type = "STRING" -> <<Tag.STRING, Len(v.text)>> \o v.text
      [] type = "FLOAT" -> <<Tag.FLOAT>> \o FloatBytes(v.num)
      [] type = "U8" -> <<Tag.U8, Trunc(v)>>
      [] type = "U16" -> <<Tag.U16>> \o Bytes(Trunc(v), 2)
      [] type = "PACKED" -> <<Tag.PACKED, 1>> \o Bytes(Trunc(v), 2)
      [] OTHER -> <<Tag[type]>> \o Bytes(Trunc(v), 4)

Width == [tag \in {Tag.U8, Tag.U16, Tag.U32, Tag.S32, Tag.FLOAT} |->
            IF tag = Tag.U8 THEN 1 ELSE IF tag = Tag.U16 THEN 2 ELSE 4]

\* The bytes of a value after its tag and length: too few of them are an error.
Body(buf) ==
    IF buf[1] \in DOMAIN Width THEN SubSeq(buf, 2, 1 + Width[buf[1]])
    ELSE SubSeq(buf, 3, 2 + (IF buf[1] = Tag.PACKED THEN 2 ELSE 1) * buf[2])
Decodable(buf) ==
    /\ buf # <<>>
    /\ \/ buf[1] \in DOMAIN Width /\ Len(buf) > Width[buf[1]]
       \/ /\ buf[1] \in {Tag.STRING, Tag.PACKED} /\ Len(buf) >= 2
          /\ Len(buf) >= 2 + (IF buf[1] = Tag.PACKED THEN 2 ELSE 1) * buf[2]

DecodeValue(buf) ==
    CASE buf[1] = Tag.STRING -> Text(Stripped(Body(buf)))
      [] buf[1] = Tag.FLOAT -> Num(FloatOf(Body(buf)))
      [] buf[1] = Tag.S32 -> Num(Twos(Body(buf)) * One)
      [] OTHER -> Num(Unsigned(Body(buf)) * One)

-----------------------------------------------------------------------------
(* The attribute service *)

EncodeReadRequest(id, instance) == <<1, 3, 1, id \div 1000, id % 1000, instance>>
EncodeWriteRequest(id, type, v, instance) ==
    <<1, 4, id \div 1000, id % 1000, instance>> \o EncodeValue(type, v)

\* What a payload says: an error, or a read or write, asked or answered.
Selector(kind, request, at, value) ==
    [kind |-> kind, request |-> request, id |-> at[1] * 1000 + at[2],
     instance |-> at[3], value |-> value]
Bad == [kind |-> "bad"]
DecodePayload(p) ==
    LET asked == p[1] = 1
        rest == IF p[2] = 3 THEN SubSeq(p, 7, Len(p)) ELSE SubSeq(p, 6, Len(p))
    IN  IF Len(p) < 2 \/ p[1] \notin {1, 2} THEN Bad
        ELSE IF ~asked /\ p[2] >= 128
             THEN IF Len(p) = 2 THEN [kind |-> "error", code |-> p[2]] ELSE Bad
        ELSE IF p[2] = 3 /\ Len(p) >= 6 /\ p[3] = 1
             THEN IF asked THEN Selector("read", TRUE, SubSeq(p, 4, 6), NA)
                  ELSE IF Decodable(rest)
                       THEN Selector("read", FALSE, SubSeq(p, 4, 6), DecodeValue(rest))
                  ELSE Bad
        ELSE IF p[2] = 4 /\ Len(p) >= 6 /\ Decodable(rest)
             THEN Selector("write", asked, SubSeq(p, 3, 5), DecodeValue(rest))
        ELSE Bad

\* NO_SUCH_OBJECT, NO_SUCH_ATTRIBUTE and NO_SUCH_INSTANCE have errors of their own.
ErrorFor(code) ==
    CASE code = 129 -> "no such object"
      [] code = 131 -> "no such attribute"
      [] code = 132 -> "no such instance"
      [] OTHER -> "protocol"

-----------------------------------------------------------------------------
(* Frames *)

Preamble == <<85, 255>>
AddrToMac(addr) == 15 + addr
Header(type, dst, src, n) == <<type, dst, src>> \o Bytes(n, 2)

EncodeFrame(type, dst, src, payload) ==
    LET header == Header(type, dst, src, Len(payload))
    IN  Preamble \o header \o <<HeaderCrc8(header)>> \o payload
          \o (IF payload = <<>> THEN <<>> ELSE DataCrc16Le(payload))

\* Mutant: the header is taken on trust.
FrameSoundUnchecked(buf) ==
    LET n == Unsigned(SubSeq(buf, 6, 7))
    IN  /\ SubSeq(buf, 1, 2) = Preamble
        /\ n > 0 => /\ Len(buf) >= 8 + n + 2
                    /\ SubSeq(buf, 9 + n, 10 + n) = DataCrc16Le(SubSeq(buf, 9, 8 + n))

\* decode_frame raises on anything else.
FrameSound(buf) ==
    LET n == Unsigned(SubSeq(buf, 6, 7))
    IN  /\ Len(buf) >= 8
        /\ SubSeq(buf, 1, 2) = Preamble
        /\ buf[8] = HeaderCrc8(SubSeq(buf, 3, 7))
        /\ n > 0 => /\ Len(buf) >= 8 + n + 2
                    /\ SubSeq(buf, 9 + n, 10 + n) = DataCrc16Le(SubSeq(buf, 9, 8 + n))
FramePayload(buf) == SubSeq(buf, 9, 8 + Unsigned(SubSeq(buf, 6, 7)))

\* The search for 55 FF, byte by byte; a 55 that no FF follows is dropped with
\* the byte after it.
Stops(line, i) ==
    i - 1 > PreambleScanLimit \/ i >= Len(line) \/ SubSeq(line, i, i + 1) = Preamble
Skipped(line, i) ==
    IF Stops(line, i) THEN i ELSE IF line[i] = 85 THEN i + 2 ELSE i + 1
Found(line) ==
    LET at[k \in 0..Len(line)] == IF k = 0 THEN 1 ELSE Skipped(line, at[k - 1])
        i == at[Len(line)]
    IN  IF i - 1 > PreambleScanLimit THEN [how |-> "frame", next |-> i]
        ELSE IF i >= Len(line) THEN [how |-> "timeout", next |-> Len(line) + 1]
        ELSE [how |-> "found", next |-> i + 2]

\* _read_frame: what it ends with and what is left.  It waits for the payload
\* the header announces before anything is checked; on a timeout whatever it had
\* taken is gone.
ReadFrame(line) ==
    LET at == Found(line)
        header == SubSeq(line, at.next, at.next + 5)
        n == Unsigned(SubSeq(header, 4, 5))
        end == at.next + 5 + (IF n = 0 THEN 0 ELSE n + 2)
        after(i) == SubSeq(line, i, Len(line))
    IN  IF at.how = "frame" THEN [how |-> "frame", frame |-> <<>>, line |-> after(at.next)]
        ELSE IF at.how = "timeout" \/ Len(line) < at.next + 5
             THEN [how |-> "timeout", frame |-> <<>>, line |-> <<>>]
        ELSE IF n > MaxPayloadLen
             THEN [how |-> "frame", frame |-> <<>>, line |-> after(at.next + 6)]
        ELSE IF Len(line) < end THEN [how |-> "timeout", frame |-> <<>>, line |-> <<>>]
        ELSE LET raw == Preamble \o SubSeq(line, at.next, end)
             IN  IF FrameSound(raw) /\ DecodePayload(FramePayload(raw)) # Bad
                 THEN [how |-> "ok", frame |-> raw, line |-> after(end + 1)]
                 ELSE [how |-> "frame", frame |-> <<>>, line |-> after(end + 1)]
=============================================================================
