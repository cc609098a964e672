------------------------------ MODULE Registry ------------------------------
(***************************************************************************)
(* The parameter registry: the rows of a bundled JSON file turned into     *)
(* specs, indexed by id and by name, and the checks made against them      *)
(* before a request is sent.                                               *)
(*                                                                         *)
(* Numbers are in thousandths: 1500 is 1.5.  A number printed in a row's   *)
(* range is its sign, its digits before the point, whether those are       *)
(* grouped by commas, and the thousandths after the point.                 *)
(***************************************************************************)
EXTENDS Integers, Sequences, SequencesExt, TLC

CONSTANT NA     \* "N/A", null, an empty field, a text without a range

DataTypeMap ==
    [label \in {"IEEE Float", "signed 32-bit", "signed 16-bit", "unsigned 32-bit",
                "unsigned 16-bit", "2 - unsigned 16 bit", "unsigned 8-bit", "Short String",
                "Enumeration", "Wide Enumeration"} |->
       CASE label = "IEEE Float" -> "FLOAT"
         [] label = "signed 32-bit" -> "S32"
         [] label = "signed 16-bit" -> "S16"
         [] label = "unsigned 32-bit" -> "U32"
         [] label = "unsigned 8-bit" -> "U8"
         [] label = "Short String" -> "STRING"
         [] label \in {"Enumeration", "Wide Enumeration"} -> "PACKED"
         [] OTHER -> "U16"]
RwesNormalise ==
    [access \in {"R", "W", "RW", "R/W", "RWE", "RWES"} |->
       IF access = "R/W" THEN "RW" ELSE access]
UnitKind == {"temperature", "percent", "dimensionless", "enumeration", "string"}

One == 1000
Num(n) == [num |-> n]
Text(bytes) == [text |-> bytes]
IsText(v) == "text" \in DOMAIN v

-----------------------------------------------------------------------------
(* Values and their bytes *)

\* Big-endian, two's complement
Bytes(n, k) == [i \in 1..k |-> (n \div 256^(k - i)) % 256]
Unsigned(bytes) ==
    LET upto[k \in 0..Len(bytes)] == IF k = 0 THEN 0 ELSE 256 * upto[k - 1] + bytes[k]
    IN  upto[Len(bytes)]
Twos(bytes) ==
    LET n == Unsigned([bytes EXCEPT ![1] = @ % 128])
    IN  IF bytes[1] < 128 THEN n
        ELSE IF Len(bytes) = 2 THEN n - 32768 ELSE (n - 2147483647) - 1

\* Python's int()
Trunc(v) == IF v.num >= 0 THEN v.num \div One ELSE -((-v.num) \div One)

\* The bytes of a number as an IEEE float: any one-to-one code will do.
FloatBytes(n) == Bytes(n, 4)
FloatOf(bytes) == Twos(bytes)

\* The NULs a text is padded with
Stripped(bytes) ==
    LET last == CHOOSE n \in 0..Len(bytes) :
                  /\ n > 0 => bytes[n] # 0
                  /\ \A i \in n + 1 .. Len(bytes) : bytes[i] = 0
    IN  SubSeq(bytes, 1, last)

\* What str.encode("ascii") takes
Ascii(bytes) == \A i \in DOMAIN bytes : bytes[i] < 128

-----------------------------------------------------------------------------
(* Rows to specs *)

\* Placeholders, rows typed by their members and rows without access are skipped.
Loadable(row) == row.type \in DOMAIN DataTypeMap /\ row.rwes \in DOMAIN RwesNormalise

CoerceInt(field) == IF field = NA THEN 0 ELSE field
Scale(row) == IF row.scale = NA THEN One ELSE row.scale
RegisterCountFor(type) ==
    CASE type \in {"FLOAT", "S32", "U32"} -> 2
      [] type = "STRING" -> 8
      [] OTHER -> 1

\* The label of a row is its class and its own name; the class is dropped.
CanonicalName(row) == IF row.canonical # NA THEN row.canonical ELSE row.label[2]

Whole(digits) ==
    LET upto[k \in 0..Len(digits)] == IF k = 0 THEN 0 ELSE 10 * upto[k - 1] + digits[k]
    IN  upto[Len(digits)] * One
Signed(printed, n) == IF printed.neg THEN -n ELSE n
Printed(printed) == Signed(printed, Whole(printed.digits) + printed.frac)

\* The lower end is followed by a separator, so the pattern is made to find all
\* of it; of an upper end without commas it takes at most three digits.
LowerEnd(printed) == Printed(printed)
UpperEnd(printed) ==
    IF printed.commas \/ Len(printed.digits) <= 3 THEN Printed(printed)
    ELSE Signed(printed, Whole(SubSeq(printed.digits, 1, 3)))

ParseRange(range) ==
    IF range = NA THEN NA
    ELSE [lo |-> LowerEnd(range.lo), hi |-> UpperEnd(range.hi)]

BuildSpec(row) ==
    LET type == DataTypeMap[row.type]
    IN  [id |-> row.id, name |-> CanonicalName(row), aliases |-> {}, type |-> type,
         kind |-> row.kind, rwes |-> RwesNormalise[row.rwes],
         instance |-> 1, max |-> row.max, addr |-> CoerceInt(row.addr),
         count |-> RegisterCountFor(type), range |-> ParseRange(row.range),
         scale |-> Scale(row), decimal |-> row.decimal]

\* The first row of an id wins: the second map repeats ids for other instances.
WithRow(specs, row) ==
    IF ~Loadable(row) \/ \E i \in DOMAIN specs : specs[i].id = row.id
    THEN specs ELSE Append(specs, BuildSpec(row))
LoadParameters(rows) ==
    LET upto[k \in 0..Len(rows)] == IF k = 0 THEN <<>> ELSE WithRow(upto[k - 1], rows[k])
    IN  upto[Len(rows)]

-----------------------------------------------------------------------------
(* ParameterRegistry *)

Aliases ==
    [pv |-> "process_value", process_val |-> "process_value",
     sp |-> "setpoint", set_point |-> "setpoint", out |-> "output", out_pct |-> "output",
     fw |-> "firmware_id", firmware |-> "firmware_id",
     hw |-> "hardware_id", hardware |-> "hardware_id",
     part |-> "part_number", model |-> "part_number"]

NameOverrides ==
    [id \in {1001, 1002, 1009, 1011, 3005, 4001, 7001, 7011, 17050} |->
       CASE id = 1001 -> "hardware_id" [] id = 1002 -> "firmware_id"
         [] id = 1009 -> "part_number" [] id = 1011 -> "device_name"
         [] id = 3005 -> "units" [] id = 4001 -> "process_value"
         [] id = 7001 -> "setpoint" [] id = 7011 -> "fixed_power"
         [] OTHER -> "display_units"]

\* A promoted row keeps the name it had as an alias.
Renamed(spec, overrides) ==
    LET name == IF spec.id \in DOMAIN overrides THEN overrides[spec.id] ELSE spec.name
    IN  [spec EXCEPT !.name = name,
                     !.aliases = {a \in DOMAIN Aliases : Aliases[a] = name}
                                   \cup ({spec.name} \ {name})]

\* Mutant: names go to whichever row comes last.
OwnedAny(spec, overrides) == TRUE

\* A name given to one row is not taken by another that happens to have it.
Owned(spec, overrides) ==
    \A id \in DOMAIN overrides : overrides[id] = spec.name => id = spec.id

\* Names replace what an earlier row left under them, aliases do not.
Indexed(index, spec, overrides) ==
    [specs |-> Append(index.specs, spec),
     by_id |-> [id \in {spec.id} \cup DOMAIN index.by_id |->
                  IF id = spec.id THEN spec ELSE index.by_id[id]],
     by_name |-> IF ~Owned(spec, overrides) THEN index.by_name
                 ELSE [name \in {spec.name} \cup spec.aliases \cup DOMAIN index.by_name |->
                         IF name # spec.name /\ name \in DOMAIN index.by_name
                         THEN index.by_name[name] ELSE spec]]

NewRegistry(specs, overrides) ==
    LET upto[k \in 0..Len(specs)] ==
            IF k = 0 THEN [specs |-> <<>>, by_id |-> <<>>, by_name |-> <<>>]
            ELSE Indexed(upto[k - 1], Renamed(specs[k], overrides), overrides)
    IN  upto[Len(specs)]

\* Overrides name PM parameters; the other families' rows carry their names.
Overrides(family) == IF family = "pm" THEN NameOverrides ELSE <<>>
RegistryOf(family, rows) == NewRegistry(LoadParameters(rows), Overrides(family))

\* A parameter is asked for by id or by name.
ById(id) == [id |-> id]
Named(name) == [name |-> name]
Known(registry, ref) ==
    IF "id" \in DOMAIN ref THEN ref.id \in DOMAIN registry.by_id
    ELSE ref.name \in DOMAIN registry.by_name
Resolve(registry, ref) ==
    IF "id" \in DOMAIN ref THEN registry.by_id[ref.id] ELSE registry.by_name[ref.name]

\* 10 ** -places
ScaleOf(places) == One \div 10 ^ places

\* Mutant: lookups by name keep the scale they had.
WithDecimalPlacesById(registry, register, places) ==
    LET rescaled(spec) ==
            IF spec.decimal = register THEN [spec EXCEPT !.scale = ScaleOf(places)] ELSE spec
    IN  [specs |-> [i \in DOMAIN registry.specs |-> rescaled(registry.specs[i])],
         by_id |-> [id \in DOMAIN registry.by_id |-> rescaled(registry.by_id[id])],
         by_name |-> registry.by_name]

WithDecimalPlaces(registry, register, places) ==
    LET rescaled(spec) ==
            IF spec.decimal = register THEN [spec EXCEPT !.scale = ScaleOf(places)] ELSE spec
    IN  [specs |-> [i \in DOMAIN registry.specs |-> rescaled(registry.specs[i])],
         by_id |-> [id \in DOMAIN registry.by_id |-> rescaled(registry.by_id[id])],
         by_name |-> [name \in DOMAIN registry.by_name |-> rescaled(registry.by_name[name])]]

ValidInstance(spec, instance) == instance \in 1..spec.max
Writable(spec) == spec.rwes # "R"
ValidValue(spec, v) ==
    ~IsText(v) /\ spec.range # NA => v.num \in spec.range.lo..spec.range.hi

-----------------------------------------------------------------------------
(* Units *)

\* The scale of temperatures is what the caller or the device asserted.
ResolveUnit(kind, asserted) ==
    CASE kind = "temperature" -> asserted
      [] kind = "percent" -> "%"
      [] OTHER -> NA
=============================================================================
