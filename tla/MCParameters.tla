---------------------------- MODULE MCParameters ----------------------------
(***************************************************************************)
(* Parameters with rows of the bundled files: an EZ-ZONE PM on either      *)
(* protocol, a Series SD and an F4P.                                       *)
(***************************************************************************)
EXTENDS Parameters

No(n) == [num |-> n * 1000]
Digits(neg, digits, commas) == [neg |-> neg, digits |-> digits, frac |-> 0, commas |-> commas]
Between(lo, hi) == [lo |-> lo, hi |-> hi]
Small(d) == Digits(FALSE, <<d>>, FALSE)
Row(id, label, type, rwes, range, addr, max, kind) ==
    [id |-> id, label |-> label, canonical |-> NA, type |-> type, rwes |-> rwes,
     range |-> range, addr |-> addr, max |-> max, kind |-> kind, scale |-> NA, decimal |-> NA]
Bare(id, name, type, rwes, range, kind, scale, decimal) ==
    [Row(id, <<"", "">>, type, rwes, range, id, 1, kind)
        EXCEPT !.canonical = name, !.scale = scale, !.decimal = decimal]

Degrees == Between(Digits(TRUE, <<1, 9, 9, 9>>, TRUE), Digits(FALSE, <<9, 9, 9, 9>>, TRUE))
Percent == Between(Digits(TRUE, <<1, 0, 0>>, FALSE), Digits(FALSE, <<1, 0, 0>>, FALSE))
PmRows == <<
    Row(1001, <<"Diagnostic", "hardware_id">>, "signed 32-bit", "R", NA, 0, 1, "dimensionless"),
    Row(1009, <<"Diagnostic", "part_number">>, "Short String", "R", NA, NA, 1, "string"),
    Row(1011, <<"Diagnostic", "device_name">>, "Short String", "R/W", NA, NA, 1, "string"),
    Row(3005, <<"Display", "units">>, "Enumeration", "RWES", NA, 1838, 1, "enumeration"),
    Row(3028, <<"Global", "display_pairs">>, "unsigned 8-bit", "RWES",
        Between(Small(1), Digits(FALSE, <<1, 0>>, FALSE)), NA, 1, "dimensionless"),
    Row(4001, <<"Analog Input", "analog_input_value">>, "IEEE Float", "R", Degrees, 360, 2,
        "temperature"),
    Row(4042, <<"Analog Input", "units">>, "Wide Enumeration", "RWES", NA, 442, 42, "enumeration"),
    Row(4001, <<"Analog Input", "analog_input_value">>, "IEEE Float", "R", Degrees, 440, 2,
        "temperature"),
    Row(7001, <<"Control Loop", "set_point">>, "IEEE Float", "RWES", Degrees, 2160, 2,
        "temperature"),
    Row(8033, <<"Control Loop", "output_power">>, "IEEE Float", "R", Percent, 1908, 2, "percent"),
    Row(9001, <<"Alarm", "placeholder">>, NA, "RWES", NA, NA, 1, "dimensionless"),
    Row(31026, <<"Timer", "minutes">>, "unsigned 8-bit", "RWES",
        Between(Small(0), Digits(FALSE, <<5, 9>>, FALSE)), 4620, 1, "dimensionless"),
    Row(31045, <<"Timer", "signal_time">>, "unsigned 16-bit", "RWES",
        Between(Small(1), Digits(FALSE, <<3, 6, 0, 0>>, FALSE)), 4658, 1, "dimensionless")>>
SdRows == <<
    Bare(18, "units", "unsigned 16-bit", "RWE", NA, "enumeration", NA, NA),
    Bare(20, "process_value", "signed 32-bit", "R", NA, "temperature", 1, NA),
    Bare(26, "output_power", "signed 16-bit", "RW", Percent, "percent", 10, NA),
    Bare(27, "setpoint", "signed 32-bit", "RWE", NA, "temperature", 1, NA)>>
F4pRows == <<
    Bare(100, "process_value", "signed 16-bit", "R", NA, "temperature", NA, 606),
    Bare(606, "input_1_decimal", "unsigned 16-bit", "R", NA, "enumeration", NA, NA)>>

PmMemory ==
    <<1001, 1>> :> No(28) @@ <<1009, 1>> :> Text(<<80, 77, 51>>) @@
    <<1011, 1>> :> Text(<<79>>) @@ <<3005, 1>> :> No(30) @@ <<3028, 1>> :> No(3) @@
    <<4001, 1>> :> Num(-72500) @@ <<4001, 2>> :> Num(21000) @@ <<4042, 1>> :> No(1540) @@
    <<7001, 1>> :> Num(75000) @@ <<8033, 1>> :> Num(12500) @@
    <<31026, 1>> :> No(5) @@ <<31045, 1>> :> No(10)

Read(ref, instance) == [kind |-> "read", ref |-> ref, instance |-> instance, value |-> NONE]
Write(ref, v) == [kind |-> "write", ref |-> ref, instance |-> 1, value |-> v]
PmRequests ==
    {Read(Named("pv"), 1), Read(Named("pv"), 2), Read(Named("pv"), 3), Read(Named("set_point"), 0),
     Read(Named("units"), 1), Read(Named("model"), 1), Read(Named("out"), 1),
     Read(Named("output_power"), 1), Read(Named("minutes"), 1), Read(ById(1001), 1),
     Read(ById(9001), 1), Read(ById(8033), 2),
     Write(Named("sp"), Num(-25500)), Write(Named("sp"), No(20000)), Write(Named("pv"), No(1)),
     Write(Named("sp"), Text(<<49>>)), Write(Named("device_name"), Text(<<79, 86, 0>>)),
     Write(Named("device_name"), Text(<<200>>)), Write(Named("device_name"), No(1)),
     Write(Named("units"), No(15)), Write(Named("units"), No(65551)),
     Write(Named("minutes"), Num(7900)), Write(Named("display_pairs"), No(4)),
     Write(Named("signal_time"), No(400)), Write(Named("signal_time"), No(3600))}
SdRequests ==
    {Read(Named("pv"), 1), Read(Named("pv"), 0), Read(ById(26), 1), Write(Named("sp"), Num(62960)),
     Write(ById(26), Num(-50005)), Write(ById(26), Num(50018)), Write(ById(26), No(200)),
     Write(Named("units"), No(1)), Write(ById(18), No(-1))}
F4pRequests ==
    {Read(Named("pv"), 1), Read(ById(100), 1), Write(Named("pv"), No(1)),
     [Read(Named("input_1_decimal"), 1) EXCEPT !.kind = "identify"]}

Pm(proto, panel) ==
    [proto |-> proto, family |-> "pm", asserted |-> "F", rows |-> PmRows, memory |-> PmMemory,
     requests |-> PmRequests, panel |-> panel]
MCPlant ==
    "pm_std" :> Pm("std", <<>>) @@
    "pm_mod" :> Pm("mod", <<7001, 1>> :> {Num(75000), Num(80250)}) @@
    "sd" :> [proto |-> "mod", family |-> "sd", asserted |-> "C", rows |-> SdRows,
             memory |-> <<18, 1>> :> No(1) @@ <<20, 1>> :> No(-72500) @@ <<26, 1>> :> No(-550) @@
                        <<27, 1>> :> No(75000),
             requests |-> SdRequests, panel |-> <<20, 1>> :> {No(-72500), No(1)}] @@
    "f4p" :> [proto |-> "mod", family |-> "f4p", asserted |-> NA, rows |-> F4pRows,
              memory |-> <<100, 1>> :> No(-725) @@ <<606, 1>> :> No(1),
              requests |-> F4pRequests,
              panel |-> <<100, 1>> :> {No(-725), No(32000)} @@ <<606, 1>> :> {No(0), No(1), No(3)}]

\* Noise with and without a 55, and ending in one
MCNoise == {<<7, 85, 7>>, <<7, 85>>, <<85, 85, 0>>}
\* One bit of the header, the length, the CRCs, the payload, or two
MCFlips ==
    {{b} : b \in {3, 15, 33, 48, 51, 55, 64, 103, 127, 150}}
      \cup {{48, 57}, {64, 65}, {80, 96}}
\* Either, neither, or both at once: a preamble damaged, a length, a payload
MCDamage ==
    [noise : {<<>>}, flips : {{}} \cup MCFlips]
      \cup [noise : MCNoise, flips : {{}, {3}, {48}, {103}}]
=============================================================================
