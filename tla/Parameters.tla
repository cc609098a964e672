----------------------------- MODULE Parameters -----------------------------
(***************************************************************************)
(* One device, one Controller and the parameters read and written through  *)
(* it: the way of a value from the device's memory over the wire into a    *)
(* Reading and back.  A call is one the session has let through to the     *)
(* protocol client (module StdBusPort); an answer that comes at all comes  *)
(* in time, behind what noise there is and with bits of it flipped.        *)
(***************************************************************************)
EXTENDS StdBusCodec, ModbusCodec

CONSTANTS
    Plant,      \* installations by name: protocol, family, rows, memory, ..
    Damage,     \* what may come of an answer: stray bytes ahead of it, bits flipped
    NONE,       \* no request, no result
    MaxCalls    \* bound

VARIABLES
    link,       \* the installation
    registry,   \* the session's registry
    places,     \* the decimal places last identified
    held,       \* the device's memory: <<id, instance>> to its value on the wire
    request,    \* the call under way
    line,       \* Standard Bus: bytes that have come in
    answer,     \* what the device made of the request
    result,     \* of the last call
    calls       \* bound

-----------------------------------------------------------------------------
(***************************************************************************)
(* What is assumed of the constants.                                       *)
(***************************************************************************)
Word == 0..65535
Int16 == {n \in Int : -32768 <= n /\ n <= 32767}
Int32 == {n \in Int : -2147483647 - 1 <= n /\ n <= 2147483647}
Span(type) ==
    CASE type = "U8" -> 0..255
      [] type \in {"U16", "PACKED"} -> Word
      [] type = "S16" -> Int16
      [] type = "U32" -> {n \in Int32 : n >= 0}
      [] OTHER -> Int32

\* What a parameter of a type can hold: an ASCII text that a frame or eight
\* registers have room for, a number of the type's width.
Room(plant) ==
    IF plant.proto # "std" THEN 16
    ELSE IF MaxPayloadLen <= 263 THEN MaxPayloadLen - 8 ELSE 255
Holds(type, v, room) ==
    CASE type = "STRING" -> /\ IsText(v) /\ v = Text(v.text)
                            /\ v.text \in Seq(0..127) /\ Len(v.text) <= room
      [] type = "FLOAT" -> ~IsText(v) /\ v = Num(v.num) /\ v.num \in Int32
      [] OTHER -> /\ ~IsText(v) /\ v = Num(v.num) /\ v.num \in Int
                  /\ v.num % One = 0 /\ v.num \div One \in Span(type)
Settings(plant, cell) ==
    {plant.memory[cell]} \cup
        (IF cell \in DOMAIN plant.panel THEN plant.panel[cell] ELSE {})

\* The names a row is found by, and the name a public one stands for.
SpecFor(plant, row) == Renamed(BuildSpec(row), Overrides(plant.family))
Bears(plant, row) == {SpecFor(plant, row).name} \cup SpecFor(plant, row).aliases
Public(name) == IF name \in DOMAIN Aliases THEN Aliases[name] ELSE name
LoadableRows(plant) == {plant.rows[i] : i \in {j \in DOMAIN plant.rows : Loadable(plant.rows[j])}}
Refers(plant, ref, row) ==
    IF "id" \in DOMAIN ref THEN row.id = ref.id ELSE ref.name \in Bears(plant, row)

\* A row whose name the overrides give to another that is there
Displaced(plant, row) ==
    \E other \in LoadableRows(plant) :
        /\ other.id # row.id /\ other.id \in DOMAIN Overrides(plant.family)
        /\ Overrides(plant.family)[other.id] = SpecFor(plant, row).name

ASSUME BoundAssumption ==
    /\ NA \notin Nat /\ MaxCalls \in Nat /\ PreambleScanLimit \in Nat
    /\ MaxPayloadLen \in Nat /\ MaxPayloadLen >= 11

ASSUME DamageAssumption ==
    \A damage \in Damage : damage.noise \in Seq(0..255) /\ damage.flips \subseteq Nat

\* The rows say what rows can say; what follows another register's decimal places
\* is not written, nor is register 0; floats have no scale; Standard Bus knows no scales and no 16-bit
\* numbers with a sign; a row that is an alias by its own name is the one the alias
\* is for, one that is what an alias stands for keeps its name, a name given away is
\* given to a row that is there.
RowAssumption(plant, row) ==
    /\ row.id \in Nat /\ row.max \in 0..255
    /\ row.addr = NA \/ row.addr \in Nat
    /\ row.addr = 0 => row.rwes = "R"
    /\ row.scale = NA \/ row.scale \in 1..One
    /\ row.decimal # NA => row.scale = NA /\ row.rwes = "R"
    /\ DataTypeMap[row.type] = "FLOAT" => row.scale = NA /\ row.decimal = NA
    /\ row.range # NA =>
         /\ ParseRange(row.range) # NA
         /\ \A printed \in {row.range.lo, row.range.hi} :
              printed.digits \in Seq(0..9) /\ printed.frac \in 0..One - 1
         /\ row.range.hi.neg => row.range.hi.commas \/ Len(row.range.hi.digits) <= 3
    /\ plant.proto = "std" =>
         /\ row.id \div 1000 <= 255 /\ row.id % 1000 <= 255
         /\ row.scale = NA /\ row.decimal = NA /\ DataTypeMap[row.type] # "S16"
    /\ CanonicalName(row) \in DOMAIN Aliases =>
         SpecFor(plant, row).name = Aliases[CanonicalName(row)]
    /\ CanonicalName(row) \in {Aliases[a] : a \in DOMAIN Aliases} =>
         SpecFor(plant, row).name = CanonicalName(row)
    /\ \A id \in DOMAIN Overrides(plant.family) :
         Overrides(plant.family)[id] = SpecFor(plant, row).name =>
            \E other \in LoadableRows(plant) : other.id = id
ASSUME RowsAssumption ==
    \A l \in DOMAIN Plant :
        /\ Plant[l].rows = [i \in 1..Len(Plant[l].rows) |-> Plant[l].rows[i]]
        /\ Len(Plant[l].rows) \in Nat
        /\ \A row \in LoadableRows(Plant[l]) : RowAssumption(Plant[l], row)

\* The device holds parameters of its rows, what their types can hold, at the start
\* and when somebody sets them; over Modbus it has every parameter with an address,
\* each at registers of its own.
ASSUME MemoryAssumption ==
    \A l \in DOMAIN Plant : LET plant == Plant[l] IN
        /\ \A cell \in DOMAIN plant.memory :
             /\ cell \in Nat \X (0..255)
             /\ \E row \in LoadableRows(plant) : row.id = cell[1]
             /\ \A row \in LoadableRows(plant), v \in Settings(plant, cell) :
                  row.id = cell[1] => Holds(DataTypeMap[row.type], v, Room(plant))
        /\ DOMAIN plant.panel \subseteq DOMAIN plant.memory
        /\ plant.proto # "std" =>
             \A row, other \in LoadableRows(plant) :
                /\ row.addr # NA => <<row.id, 1>> \in DOMAIN plant.memory
                /\ row.addr # NA /\ row.addr = other.addr
                     /\ RegisterCountFor(DataTypeMap[row.type])
                          = RegisterCountFor(DataTypeMap[other.type]) => row.id = other.id

\* What is asked for by name is one parameter; numbers written are those of a
\* value's own range, texts have room in a frame.  The register that is read to
\* identify a device is the one all decimal places follow, of four settings.
RequestAssumption(plant, q) ==
    /\ q.kind \in {"read", "write", "identify"} /\ q.instance \in 0..255
    /\ "id" \notin DOMAIN q.ref =>
         \A row, other \in LoadableRows(plant) :
            /\ Bears(plant, row) \cap {q.ref.name, Public(q.ref.name)} # {}
            /\ Bears(plant, other) \cap {q.ref.name, Public(q.ref.name)} # {}
            /\ ~Displaced(plant, row) /\ ~Displaced(plant, other)
            => row.id = other.id
    /\ q.kind = "write" =>
         IF IsText(q.value)
         THEN /\ q.value = Text(q.value.text) /\ q.value.text \in Seq(0..255)
              /\ plant.proto = "std" => Len(q.value.text) <= MaxPayloadLen - 8
         ELSE q.value = Num(q.value.num) /\ q.value.num \in Int32
    /\ q.kind = "identify" /\ plant.proto # "std" =>
         \A row \in LoadableRows(plant) : Refers(plant, q.ref, row) =>
            /\ row.addr # NA /\ row.scale = NA /\ row.decimal = NA /\ row.rwes = "R"
            /\ DataTypeMap[row.type] = "U16"
            /\ \A v \in Settings(plant, <<row.id, 1>>) : v.num \div One \in 0..3
            /\ \A other \in LoadableRows(plant) : other.decimal \in {NA, row.id}
ASSUME RequestsAssumption ==
    \A l \in DOMAIN Plant : \A q \in Plant[l].requests : RequestAssumption(Plant[l], q)

-----------------------------------------------------------------------------
vars == <<link, registry, places, held, request, line, answer, result, calls>>

Rows == Plant[link].rows
Std == Plant[link].proto = "std"

-----------------------------------------------------------------------------
(***************************************************************************)
(* What the documentation of the device, the rows, says of a parameter.    *)
(***************************************************************************)
Ids == {Rows[i].id : i \in {j \in DOMAIN Rows : Loadable(Rows[j])}}
Documented(id) ==
    Rows[CHOOSE i \in DOMAIN Rows :
           /\ Rows[i].id = id /\ Loadable(Rows[i])
           /\ \A j \in 1..i - 1 : ~(Rows[j].id = id /\ Loadable(Rows[j]))]
TypeOf(id) == DataTypeMap[Documented(id).type]
Addressed(id) == Documented(id).addr # NA
Documents(id, v) ==
    LET range == Documented(id).range IN
    IsText(v) \/ range = NA \/ v.num \in Printed(range.lo)..Printed(range.hi)

\* The decimal places of some parameters are a parameter of their own.
TrueScale(id, memory) ==
    LET decimal == Documented(id).decimal
    IN  IF decimal = NA THEN Scale(Documented(id))
        ELSE ScaleOf(memory[<<decimal, 1>>].num \div One)
Meant(cell, memory) ==
    LET v == memory[cell]
    IN  IF IsText(v) THEN Text(Stripped(v.text))
        ELSE IF TypeOf(cell[1]) = "FLOAT" THEN v
        ELSE Num((v.num \div One) * TrueScale(cell[1], memory))

\* What is asked for: a public name is one parameter's, others are the rows'.
Asked(ref) ==
    IF "id" \in DOMAIN ref THEN {ref.id} \cap Ids
    ELSE LET name == Public(ref.name)
             promoted == {id \in Ids : /\ Plant[link].family = "pm"
                                       /\ id \in DOMAIN NameOverrides
                                       /\ NameOverrides[id] = name}
         IN  IF promoted # {} THEN promoted
             ELSE {id \in Ids : CanonicalName(Documented(id)) = name}

-----------------------------------------------------------------------------
(***************************************************************************)
(* The device.  Its CRCs are those of the standard, bit by bit.            *)
(***************************************************************************)
Shifted(crc, poly) ==
    LET down == {i - 1 : i \in crc \ {0}}
    IN  IF 0 \in crc THEN SymDiff(down, poly) ELSE down
Divided(poly) ==
    [byte \in SUBSET (0..7) |->
        LET bit[k \in 0..8] == IF k = 0 THEN byte ELSE Shifted(bit[k - 1], poly)
        IN  bit[8]]
Divided8 == Divided({7, 0})
Divided16 == Divided({15, 10, 3})
CrcStep(divided, crc, b) ==
    SymDiff({i - 8 : i \in crc \ (0..7)}, divided[SymDiff(crc \cap 0..7, Bits[b])])
Crc(divided, ones, bytes) ==
    LET upto[k \in 0..Len(bytes)] ==
            IF k = 0 THEN ones ELSE CrcStep(divided, upto[k - 1], bytes[k])
    IN  Number(ones \ upto[Len(bytes)])
Crc8(bytes) == Crc(Divided8, 0..7, bytes)
Crc16(bytes) == Crc(Divided16, 0..15, bytes)

DeviceFrame(payload) ==
    LET header == <<6, 0, 16>> \o Bytes(Len(payload), 2)
        crc == Crc16(payload)
    IN  <<85, 255>> \o header \o <<Crc8(header)>> \o payload
          \o <<crc % 256, crc \div 256>>

\* A request that is not whole is not heard.
Heard(frame) ==
    LET n == Len(frame)
        crc == Crc16(SubSeq(frame, 9, n - 2))
    IN  /\ SubSeq(frame, 1, 4) = <<85, 255, 5, 16>>
        /\ frame[8] = Crc8(SubSeq(frame, 3, 7))
        /\ SubSeq(frame, n - 1, n) = <<crc % 256, crc \div 256>>

Octets == [U8 |-> 1, U16 |-> 2, S16 |-> 2, PACKED |-> 2, U32 |-> 4, S32 |-> 4, FLOAT |-> 4]
Raw(type, v) ==
    CASE type = "STRING" -> v.text
      [] type = "FLOAT" -> FloatBytes(v.num)
      [] OTHER -> Bytes(v.num \div One, Octets[type])
FromRaw(type, bytes) ==
    CASE type = "STRING" -> Text(bytes)
      [] type = "FLOAT" -> Num(FloatOf(bytes))
      [] type \in {"S16", "S32"} -> Num(Twos(bytes) * One)
      [] OTHER -> Num(Unsigned(bytes) * One)

Prefix(type, n) == CASE type = "STRING" -> <<n>> [] type = "PACKED" -> <<1>> [] OTHER -> <<>>
Tagged(type, v) ==
    LET raw == Raw(type, v) IN <<Tag[type]>> \o Prefix(type, Len(raw)) \o raw
Untagged(type, bytes) ==
    FromRaw(type, SubSeq(bytes, 2 + Len(Prefix(type, 0)), Len(bytes)))

\* A parameter as the device has it in registers; an 8-bit one shares its
\* register with whatever is in the high byte.
InWords(id, v) ==
    LET count == RegisterCountFor(TypeOf(id))
        raw == Raw(TypeOf(id), v)
        padded == [i \in 1..2 * count |-> IF i <= Len(raw) THEN raw[i] ELSE 0]
    IN  IF TypeOf(id) = "U8" THEN {<<high * 256 + raw[1]>> : high \in {0, 1}}
        ELSE {Words(padded)}
FromWords(id, words) ==
    FromRaw(TypeOf(id), IF TypeOf(id) = "U8" THEN <<words[1] % 256>> ELSE BytesOf(words))
Block(id) ==
    LET addr == Documented(id).addr IN addr..addr + RegisterCountFor(TypeOf(id)) - 1
Mapped == {id \in Ids : Addressed(id)}

\* What the device makes of a request: the cell it concerns, if it is there,
\* what it says, its memory after.
Reply(cell, says, memory) == [cell |-> cell, says |-> says, memory |-> memory]

\* On Standard Bus: the parameter, a write answered by the value now held, or an
\* error, the class, the member or the instance not being there.
StdReplies(p) ==
    LET at == IF p[2] = 3 THEN 3 ELSE 2
        selector == SubSeq(p, at + 1, at + 3)
        cell == <<1000 * selector[1] + selector[2], selector[3]>>
        type == TypeOf(cell[1])
    IN  IF cell \notin DOMAIN held
        THEN {Reply(cell, DeviceFrame(<<2, code>>), held) : code \in {129, 131, 132, 133}}
        ELSE IF p[2] = 3
        THEN {Reply(cell, DeviceFrame(<<2, 3, 1>> \o selector \o Tagged(type, held[cell])),
                    held)}
        ELSE LET stored == [held EXCEPT ![cell] = Untagged(type, SubSeq(p, 6, Len(p)))]
             IN  {Reply(cell, DeviceFrame(<<2, 4>> \o selector \o Tagged(type, stored[cell])),
                        stored),
                  Reply(cell, DeviceFrame(<<2, 133>>), held)}

\* On Modbus: the registers of one parameter; registers of none are an illegal
\* address or read as zeros, and what is only read is not written.  Any exchange
\* may end in an exception.
Excepted(cell, exc, memory) == Reply(cell, [exception |-> exc], memory)
Registered(cell, words, memory) == Reply(cell, [words |-> words], memory)
\* A register as some read of other registers finds it: zero when it is none's
WordsAt(a) ==
    UNION {{words[a - Documented(id).addr + 1] : words \in InWords(id, held[<<id, 1>>])} :
             id \in {i \in Mapped : a \in Block(i) /\ <<i, 1>> \in DOMAIN held}}
Stray(op) ==
    [i \in 1..op.count |->
       LET words == WordsAt(op.address + i - 1)
       IN  CHOOSE w \in words \cup {0} : words # {} => w \in words]
ModbusReplies(op) ==
    LET block == op.address..op.address + op.count - 1
        cells == {cell \in DOMAIN held : cell[1] \in Mapped /\ cell[2] = 1
                                         /\ Block(cell[1]) = block}
    IN  {Excepted(NONE, exc, held) : exc \in DOMAIN Remapped}
          \cup IF op.fn = "read"
               THEN IF cells = {} THEN {Registered(NONE, Stray(op), held)}
                    ELSE UNION {{Registered(cell, words, held) :
                                   words \in InWords(cell[1], held[cell])} : cell \in cells}
               ELSE UNION {LET stored == [held EXCEPT ![cell] = FromWords(cell[1], op.values)]
                           IN  {Registered(cell, <<>>, stored),
                                Excepted(cell, "FrameTimeout", stored)} :
                             cell \in {c \in cells : Documented(c[1]).rwes # "R"}}

FlippedIn(frame, bits) ==
    [i \in DOMAIN frame |->
       Number(SymDiff(Bits[frame[i]], {f % 8 : f \in {b \in bits : b \div 8 = i - 1}}))]

-----------------------------------------------------------------------------
(***************************************************************************)
(* The commands' encoders.                                                 *)
(***************************************************************************)
Writes(q) == q.kind = "write"
SpecOf(q) == Resolve(registry, q.ref)

\* _resolve and the checks of a write.  Instance 0 stands for the default one
\* here, though it is sent as it is.
Admitted(q) ==
    /\ Known(registry, q.ref)
    /\ LET spec == SpecOf(q)
       IN  /\ ValidInstance(spec, IF q.instance = 0 THEN spec.instance ELSE q.instance)
           /\ Writes(q) => Writable(spec) /\ ValidValue(spec, q.value)

\* The registers a value becomes, scaled.
InRegisters(q) ==
    EncodeValueToWords(ScaledDown(q.value, SpecOf(q).scale), SpecOf(q).type,
                       EncodingFor(SpecOf(q)))

\* On Standard Bus a text parameter wants a text; on Modbus only the default
\* instance has an address.  Anything else is an error of the library's.
Accepted(q) ==
    /\ Admitted(q)
    /\ IF Std THEN Writes(q) /\ SpecOf(q).type = "STRING" => IsText(q.value)
       ELSE /\ q.instance = SpecOf(q).instance
            /\ Writes(q) => InRegisters(q).how # "refused"

\* A bare TypeError or ValueError
Raises(q) ==
    /\ Accepted(q) /\ Writes(q)
    /\ IF Std THEN ~Encodable(SpecOf(q).type, q.value) ELSE InRegisters(q).how = "raw"

\* What goes out: a frame to address 1, an operation.
Encoded(q) ==
    LET spec == SpecOf(q) IN
    IF Std
    THEN EncodeFrame(5, AddrToMac(1), 0,
                     IF Writes(q) THEN EncodeWriteRequest(spec.id, spec.type, q.value, q.instance)
                     ELSE EncodeReadRequest(spec.id, q.instance))
    ELSE IF Writes(q) THEN WriteOp(spec.addr, InRegisters(q).words)
         ELSE ReadOp(spec.addr, EncodingFor(spec))

Unanswered == [cell |-> NONE, says |-> <<>>, meant |-> NONE, scale |-> NONE, junk |-> <<>>,
               whole |-> FALSE]

Failed(q, how) == [q |-> q, how |-> how]
\* reading_from_entry
Reading(q, id, instance, v, kind) ==
    [q |-> q, how |-> "ok", id |-> id, instance |-> instance, value |-> v,
     unit |-> IF IsText(v) THEN NA ELSE ResolveUnit(kind, Plant[link].asserted)]

Call(q) ==
    /\ request = NONE /\ calls < MaxCalls
    /\ calls' = calls + 1
    /\ answer' = Unanswered
    /\ UNCHANGED <<link, registry, places, held, line>>

Refuse(q) ==
    /\ Call(q) /\ ~Accepted(q)
    /\ result' = Failed(q, "refused")
    /\ UNCHANGED request

Raise(q) ==
    /\ Call(q) /\ Raises(q)
    /\ result' = Failed(q, "raised")
    /\ UNCHANGED request

Send(q) ==
    /\ Call(q) /\ Accepted(q) /\ ~Raises(q)
    /\ request' = [q |-> q, wire |-> Encoded(q)]
    /\ result' = NONE

-----------------------------------------------------------------------------
(***************************************************************************)
(* The wire.                                                               *)
(***************************************************************************)
Waiting == request # NONE /\ answer = Unanswered

\* The answer comes in, after some noise and with some bits flipped; with it is
\* noted what the device's memory meant then, and at which scale.
Answers(reply, junk, whole) ==
    /\ held' = reply.memory
    /\ answer' = IF reply.cell \in DOMAIN held
                 THEN [cell |-> reply.cell, says |-> reply.says, junk |-> junk, whole |-> whole,
                       meant |-> Meant(reply.cell, reply.memory),
                       scale |-> TrueScale(reply.cell[1], reply.memory)]
                 ELSE [Unanswered EXCEPT !.cell = reply.cell, !.says = reply.says,
                                         !.junk = junk, !.whole = whole]
    /\ UNCHANGED <<link, registry, places, request, result, calls>>

AnswerStdBus ==
    /\ Waiting /\ Std /\ Heard(request.wire)
    /\ \E reply \in StdReplies(SubSeq(request.wire, 9, Len(request.wire) - 2)),
          damage \in Damage :
         LET noise == damage.noise
             frame == FlippedIn(reply.says, damage.flips)
         IN  /\ line' = line \o noise \o frame
             /\ Answers(reply, line \o noise, frame = reply.says)

AnswerModbus ==
    /\ Waiting /\ ~Std
    /\ \E reply \in ModbusReplies(request.wire) : Answers(reply, <<>>, TRUE)
    /\ UNCHANGED line

Ends(r) ==
    /\ result' = r
    /\ request' = NONE
    /\ UNCHANGED <<link, held, answer, calls>>

\* What a Standard Bus call comes to: the parameter and the instance are those
\* of the reply.
StdResult(q, says) ==
    IF says.kind = "error" THEN Failed(q, ErrorFor(says.code))
    ELSE IF \/ says.request
            \/ (says.kind = "write") # Writes(q)
            \/ says.id \notin DOMAIN registry.by_id
         THEN Failed(q, "protocol")
    ELSE Reading(q, says.id, says.instance, says.value, registry.by_id[says.id].kind)

\* The client takes a frame, the command what is in it.  A timeout takes the
\* line's bytes with it.
ReceiveStdBus ==
    /\ request # NONE /\ Std
    /\ \E got \in {ReadFrame(line)} :
         /\ line' = got.line
         /\ Ends(IF got.how # "ok" THEN Failed(request.q, got.how)
                 ELSE StdResult(request.q, DecodePayload(FramePayload(got.frame))))
    /\ UNCHANGED <<registry, places>>

\* What a Modbus call comes to: the command asks the registry again what it had
\* asked for; a write hands back what it was given.
ModbusResult(q) ==
    LET spec == SpecOf(q)
        words == answer.says.words
    IN  IF "exception" \in DOMAIN answer.says
        THEN Failed(q, Remapped[answer.says.exception])
        ELSE IF Writes(q) THEN Reading(q, spec.id, q.instance, q.value, spec.kind)
        ELSE IF ~DecodableWords(words, spec.type) THEN Failed(q, "protocol")
        ELSE Reading(q, spec.id, q.instance,
                     ScaledUp(DecodeWords(words, spec.type), spec.scale), spec.kind)

ReceiveModbus ==
    /\ request # NONE /\ ~Std /\ answer # Unanswered
    /\ Ends(ModbusResult(request.q))
    /\ UNCHANGED line
    /\ IF request.q.kind = "identify" /\ result'.how = "ok"
       THEN /\ places' = result'.value.num \div One
            /\ registry' = WithDecimalPlaces(
                             RegistryOf(Plant[link].family, Rows), result'.id, places')
       ELSE UNCHANGED <<registry, places>>

\* Somebody sets a parameter at the front panel.
SetAtPanel ==
    /\ answer = Unanswered
    /\ \E cell \in DOMAIN Plant[link].panel : \E v \in Plant[link].panel[cell] :
         held[cell] # v /\ held' = [held EXCEPT ![cell] = v]
    /\ UNCHANGED <<link, registry, places, request, line, answer, result, calls>>

Init ==
    /\ link \in DOMAIN Plant
    /\ registry = RegistryOf(Plant[link].family, Rows)
    /\ places = 0
    /\ held = Plant[link].memory
    /\ request = NONE /\ line = <<>> /\ answer = Unanswered
    /\ result = NONE /\ calls = 0

Next ==
    \/ \E q \in Plant[link].requests : Refuse(q) \/ Raise(q) \/ Send(q)
    \/ AnswerStdBus \/ AnswerModbus \/ ReceiveStdBus \/ ReceiveModbus
    \/ SetAtPanel

Spec == Init /\ [][Next]_vars
-----------------------------------------------------------------------------
(***************************************************************************)
(* Properties.                                                             *)
(***************************************************************************)
\* The types; the line is empty or holds what a damaged frame left; the lookups
\* of a registry by id and by name agree.
TypeOK ==
    /\ link \in DOMAIN Plant /\ places \in 0..3 /\ calls \in 0..MaxCalls
    /\ DOMAIN held = DOMAIN Plant[link].memory
    /\ \A i \in DOMAIN line : line[i] \in 0..255
    /\ DOMAIN registry.by_id = Ids
    /\ \A name \in DOMAIN registry.by_name :
         registry.by_name[name] = registry.by_id[registry.by_name[name].id]

Succeeded == result # NONE /\ result.how = "ok"

\* A successful read is of the parameter and instance asked for, public names
\* meaning what they are documented to mean, and says what the device's memory
\* meant when it answered, in the device's units, whatever its type and scale.
TrueReading ==
    /\ {result.id} = Asked(result.q.ref)
    /\ result.instance = result.q.instance
    /\ answer.cell = <<result.id, result.instance>>
    /\ result.value = answer.meant
    /\ IsText(result.value) \/
         result.unit = CASE Documented(result.id).kind = "temperature" -> Plant[link].asserted
                         [] Documented(result.id).kind = "percent" -> "%"
                         [] OTHER -> NA

\* Every such reading is true, but for a parameter without a Modbus address read
\* over Modbus, and for one whose decimal places were changed since identify.
ReadIsTrue ==
    Succeeded /\ ~Writes(result.q) /\ (Std \/ Addressed(result.id)) =>
        \/ TrueReading
        \/ Documented(result.id).decimal # NA /\ answer.scale # ScaleOf(places)

\* What the device holds is what was asked for, cut off or rounded to what the
\* parameter can hold.
Kept(id, asked, meant, scale) ==
    LET diff == asked.num - meant.num
    IN  IF IsText(asked) THEN meant = Text(Stripped(asked.text))
        ELSE IF TypeOf(id) = "FLOAT" THEN diff = 0
        ELSE IF scale = One THEN diff \in 1 - One..One - 1
        ELSE 2 * diff \in -scale..scale
\* Counts too large for 8 or 16 bits wrap on Modbus.
Wraps(id, asked, scale) ==
    LET count == Trunc(ScaledDown(asked, scale))
    IN  ~Std /\ \/ TypeOf(id) = "U8" /\ count \notin 0..255
                \/ TypeOf(id) \in {"U16", "PACKED"} /\ count \notin Word

\* A call the documentation allows: refusing it before anything is sent is unjustified.
Unjustified(q) ==
    /\ Asked(q.ref) # {}
    /\ \A id \in Asked(q.ref) :
         /\ q.instance \in 1..Documented(id).max
         /\ Writes(q) =>
              /\ Documented(id).rwes # "R"
              /\ Documents(id, q.value)
              /\ IsText(q.value) <=> TypeOf(id) = "STRING"
              /\ IsText(q.value) => Std \/ Len(q.value.text) <= 16

\* The upper end of a range, printed with more than three digits and no commas
Misread(id) ==
    LET range == Documented(id).range
    IN  range # NA /\ ~range.hi.commas /\ Len(range.hi.digits) > 3

\* A loop other than the first, over Modbus.  protocol-modbus.md has it that "callers
\* pass `instance=N` and the variant computes the right address"; the code computes
\* none, and refuses (commands/parameters.py:217).
LaterLoop(q) == ~Std /\ q.instance # 1

\* A value for which a parameter's type has no room
NoRoom(id, v) ==
    IF IsText(v) THEN ~Ascii(v.text) \/ Len(v.text) > 255
    ELSE Trunc(ScaledDown(v, Scale(Documented(id)))) \notin Span(TypeOf(id))

\* Nothing is sent that a parameter's documentation rules out.  Nothing it allows is
\* refused, but where a range is misread and for each later loop over Modbus; a bare
\* error is raised only for what it rules out or the parameter's type has no room for.
\* A write that is acknowledged has left in the device what was asked for, but for
\* values that wrap.
WriteIsKept ==
    /\ request # NONE /\ Writes(request.q) =>
         \A id \in Asked(request.q.ref) :
            Documented(id).rwes # "R" /\ Documents(id, request.q.value)
    /\ result # NONE /\ result.how = "refused" =>
         \/ ~Unjustified(result.q)
         \/ LaterLoop(result.q)
         \/ \E id \in Asked(result.q.ref) : Misread(id)
    /\ result # NONE /\ result.how = "raised" =>
         \/ ~Unjustified(result.q)
         \/ \E id \in Asked(result.q.ref) : NoRoom(id, result.q.value)
    /\ Succeeded /\ Writes(result.q) =>
         /\ {result.id} = Asked(result.q.ref)
         /\ answer.cell = <<result.id, result.q.instance>>
         /\ \/ Kept(result.id, result.q.value, answer.meant, answer.scale)
            \/ Wraps(result.id, result.q.value, answer.scale)

\* Noise the search for a frame gets over: no preamble of its own and, though
\* the comments promise otherwise, no 55 for its last byte.
Passable(junk) ==
    /\ Len(junk) <= PreambleScanLimit
    /\ junk # <<>> => Last(junk) # 85
    /\ \A i \in 1..Len(junk) - 1 : SubSeq(junk, i, i + 1) # Preamble

\* An intact answer behind passable noise is always taken.
IntactIsTaken ==
    Std /\ result # NONE /\ result.how \in {"timeout", "frame"} =>
        ~(answer # Unanswered /\ answer.whole /\ Passable(answer.junk))

\* Nothing else is taken for an answer, no damaged one and no noise: the call ends
\* with what the device says, its value or its error.
NothingElseIsTaken ==
    Std /\ result # NONE /\ result.how \notin {"refused", "raised", "timeout", "frame"} =>
        /\ answer # Unanswered /\ answer.whole
        /\ result = StdResult(result.q, DecodePayload(FramePayload(answer.says)))

\* A call on Standard Bus ends with the device's answer or with none.
IntactOrNothing == IntactIsTaken /\ NothingElseIsTaken

-----------------------------------------------------------------------------
(***************************************************************************)
(* What the repository says of this code and the code does not keep.       *)
(***************************************************************************)

\* protocol-modbus.md: "a parameter read against `setpoint` returns the same
\* `Reading` whether the session opened in Std Bus or Modbus", the Modbus
\* selector being populated for every registry row.
SameOnModbus ==
    ~Std /\ Succeeded /\ ~Writes(result.q) => answer.cell = <<result.id, 1>>
=============================================================================
