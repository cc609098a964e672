---------------------------- MODULE ModbusCodec ----------------------------
(***************************************************************************)
(* Values in Modbus registers, the operations a parameter becomes, and the *)
(* errors anymodbus reports them with.  A register is 0..65535.            *)
(***************************************************************************)
EXTENDS Registry

\* The high word comes first, the high byte of a word too.
Words(bytes) ==
    [i \in 1..Len(bytes) \div 2 |-> 256 * bytes[2 * i - 1] + bytes[2 * i]]
BytesOf(words) == [i \in 1..2 * Len(words) |-> Bytes(words[(i + 1) \div 2], 2)[2 - (i % 2)]]

\* A text takes what registers its spec says.
Registers == [FLOAT |-> 2, S32 |-> 2, U32 |-> 2, U16 |-> 1, S16 |-> 1, U8 |-> 1, PACKED |-> 1]
EncodingFor(spec) == IF spec.count = 0 THEN 8 ELSE spec.count

\* Registers that cannot be read as the type: too few or too many, a text that
\* is not ASCII.
DecodableWords(words, type) ==
    IF type = "STRING" THEN Ascii(BytesOf(words)) ELSE Len(words) = Registers[type]

DecodeWords(words, type) ==
    CASE type = "STRING" -> Text(Stripped(BytesOf(words)))
      [] type = "FLOAT" -> Num(FloatOf(BytesOf(words)))
      [] type = "U8" -> Num((words[1] % 256) * One)
      [] type \in {"S16", "S32"} -> Num(Twos(BytesOf(words)) * One)
      [] OTHER -> Num(Unsigned(BytesOf(words)) * One)

\* What encode_value_to_words comes to: registers, an error of the library's, or
\* an error of the struct module that nobody catches.  Values of 8 and 16 bits
\* without a sign wrap.
Encoding(how, words) == [how |-> how, words |-> words]
EncodeValueToWords(v, type, count) ==
    LET octets == 2 * count
        padded == [i \in 1..octets |-> IF i <= Len(v.text) THEN v.text[i] ELSE 0]
        n == Trunc(v)
    IN  IF (type = "STRING") # IsText(v) THEN Encoding("refused", <<>>)
        ELSE
        CASE type = "STRING" ->
                IF ~Ascii(v.text) THEN Encoding("raw", <<>>)
                ELSE IF Len(v.text) > octets THEN Encoding("refused", <<>>)
                ELSE Encoding("ok", Words(padded))
          [] type = "FLOAT" -> Encoding("ok", Words(FloatBytes(v.num)))
          [] type = "U8" -> Encoding("ok", <<n % 256>>)
          [] type \in {"U16", "PACKED"} -> Encoding("ok", <<n % 65536>>)
          [] type = "S16" /\ ~(-32768 <= n /\ n <= 32767) -> Encoding("raw", <<>>)
          [] type = "U32" /\ n < 0 -> Encoding("raw", <<>>)
          [] OTHER -> Encoding("ok", Words(Bytes(n, octets)))

\* Engineering units to counts and back; round() goes to the even one of two.
Round(n, d) ==
    LET down == n \div d
        twice == 2 * (n % d)
    IN  IF twice < d \/ (twice = d /\ down % 2 = 0) THEN down ELSE down + 1

\* Mutant: a scaled value is cut off instead of rounded.
ScaledDownCut(v, scale) ==
    IF scale = One \/ IsText(v) THEN v ELSE Num((v.num \div scale) * One)

ScaledDown(v, scale) ==
    IF scale = One \/ IsText(v) THEN v ELSE Num(Round(v.num, scale) * One)
ScaledUp(v, scale) ==
    IF scale = One \/ IsText(v) THEN v ELSE Num((v.num \div One) * scale)

\* A ModbusOp: its values are <<>> for a read.
ReadOp(address, count) == [fn |-> "read", address |-> address, count |-> count, values |-> <<>>]
WriteOp(address, words) ==
    [fn |-> IF Len(words) = 1 THEN "write_register" ELSE "write_registers",
     address |-> address, count |-> Len(words), values |-> words]

\* remap_modbus_exception, and the client's own timeout
Remapped ==
    [IllegalFunction |-> "illegal function", UnsupportedFunction |-> "illegal function",
     IllegalDataAddress |-> "illegal address", IllegalDataValue |-> "illegal value",
     SlaveDeviceFailure |-> "failure", SlaveDeviceBusy |-> "failure",
     FrameTimeout |-> "timeout", TimeoutError |-> "timeout",
     BusClosed |-> "connection", ConnectionLost |-> "connection",
     CRC |-> "frame", Frame |-> "frame", Configuration |-> "configuration",
     UnexpectedResponse |-> "protocol", Modbus |-> "modbus"]
=============================================================================
