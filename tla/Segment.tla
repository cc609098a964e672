------------------------------ MODULE Segment ------------------------------
(***************************************************************************)
(* Serial ports and the devices plugged into them: who holds a port's      *)
(* handle, what the devices are set to, and what one exchange over a       *)
(* handle may bring.                                                       *)
(***************************************************************************)
EXTENDS Integers, Sequences, FiniteSets

CONSTANTS
    Port,       \* serial ports
    Device,     \* devices
    Plugged,    \* the port of each device
    Make,       \* what is fixed about each device, see Makes
    Settings,   \* what the devices may be set to at first
    NONE,       \* no reply, no call, no controller
    MaxLine     \* bound: frames still to come on one handle

Proto == {"std", "mod"}
Family == {"ez", "sd", "f4p"}
Makes == [family : Family, modbus : BOOLEAN, unit : {"C", "F"}, decimals : 0..3]
Framing == [baud : Nat, parity : {"N", "E"}]

\* What a device is set to: the protocol it speaks, the baud rate and parity of
\* its Modbus side (Standard Bus is 38400 8-N-1) and its two addresses.
Setting == [proto : Proto, baud : Nat, parity : {"N", "E"}, std : Nat, mod : Nat]

\* Only EZ-ZONEs speak Standard Bus, and only a unit with the stack Modbus.
ASSUME SegmentAssumption ==
    /\ Plugged \in [Device -> Port]
    /\ Make \in [Device -> Makes]
    /\ Settings \subseteq [Device -> Setting]
    /\ \A s \in Settings, d \in Device :
           IF s[d].proto = "std" THEN Make[d].family = "ez" ELSE Make[d].modbus
    /\ MaxLine \in Nat

VARIABLES
    running,    \* what each device goes by
    eeprom,     \* what each device has stored
    wire        \* per port: its holder, frames to come, whether an exchange was given up

\* nobody; a call under way; a Controller its caller has; a transport nobody can
\* close any more
Holder == {"free", "call", "user", "lost"}

Stdbus == [baud |-> 38400, parity |-> "N"]
FactoryFor(proto) ==
    IF proto = "std" THEN Stdbus ELSE [baud |-> 9600, parity |-> "E"]

\* Where a device answers: protocol, framing and address.
Place(s) ==
    IF s.proto = "std"
    THEN [proto |-> "std", framing |-> Stdbus, addr |-> s.std]
    ELSE [proto |-> "mod", framing |-> [baud |-> s.baud, parity |-> s.parity],
          addr |-> s.mod]
Hearing(p, place) ==
    {d \in Device : Plugged[d] = p /\ Place(running[d]) = place}

SegmentInit ==
    /\ running \in Settings
    /\ eeprom = running
    /\ wire = [p \in Port |->
                 [holder |-> "free", line |-> <<>>, gave |-> FALSE, blame |-> NONE]]

InRange(proto, addr) == addr \in IF proto = "std" THEN 1..16 ELSE 1..247

\* The identity strategies: the parameters each reads, in order.
EzReads(query) ==
    <<"part_number", "hardware_id", "firmware_id", "serial_number">>
        \o IF query THEN <<"protocol">> ELSE <<>>
SdReads == <<"software_id", "software_version", "software_build",
             "serial_number_high", "serial_number_low", "units">>
F4pReads == <<"model_code", "serial_number_high", "serial_number_low",
              "software_id", "input_1_decimal", "units">>
Reads(profile, query) ==
    CASE profile = "ez" -> EzReads(query)
      [] profile = "sd" -> SdReads
      [] OTHER -> F4pReads

Text == {"part_number", "serial_number", "text"}

\* A reply says which device made it, what it holds and where it was asked.  The
\* texts have no Modbus address in the registry and are read from register 0 on,
\* where there is some text or other; a register a device of another family
\* happens to have holds some number.
Answer(d, place, profile, param) ==
    [who |-> d, to |-> place,
     param |-> IF place.proto = "mod" /\ param \in Text THEN "text"
               ELSE IF Make[d].family = profile THEN param ELSE "other"]
Echo(d, place) == [who |-> d, to |-> place, param |-> "echo"]

\* What an exchange may come to: the reply it ends with, NONE when it is given
\* up, and the frames to come then.  On Standard Bus the first frame that is
\* there is the reply; anymodbus drains the line and matches its slave.
Outcomes(p, proto, sent) ==
    LET late == wire[p].line \o sent
        kept == IF Len(late) < MaxLine THEN Len(late) ELSE MaxLine
    IN  IF proto = "mod"
        THEN {[reply |-> NONE, line |-> <<>>]}
               \cup {[reply |-> sent[i], line |-> <<>>] : i \in DOMAIN sent}
        ELSE {[reply |-> NONE, line |-> SubSeq(late, 1, kept)]}
               \cup IF late = <<>> THEN {}
                    ELSE {[reply |-> Head(late), line |-> Tail(late)]}

\* No answer, or that of a device that hears.
Sent(p, place, profile, param) ==
    {<<>>} \cup {<<Answer(d, place, profile, param)>> : d \in Hearing(p, place)}

Exchanged(p, e) ==
    [wire EXCEPT ![p].line = e.line,
                 ![p].gave = @ \/ e.reply = NONE]
Taken(p) ==
    [wire EXCEPT ![p] = [holder |-> "call", line |-> <<>>, gave |-> FALSE, blame |-> NONE]]
Freed(p) ==
    [wire EXCEPT ![p] = [holder |-> "free", line |-> <<>>, gave |-> FALSE, blame |-> NONE]]
HandedOver(p) == [wire EXCEPT ![p].holder = "user"]
\* Nobody is left who could close it; from where in the call it happened.
LostAt(p, point) ==
    [wire EXCEPT ![p] = [holder |-> "lost", line |-> <<>>, gave |-> FALSE, blame |-> point]]

(***************************************************************************)
(* The devices.                                                            *)
(***************************************************************************)
\* A stored setting comes into force, at once or with a power cycle; a unit
\* without the Modbus stack stays on Standard Bus.
TakesEffect(d) ==
    LET s == [eeprom[d] EXCEPT !.proto = IF Make[d].modbus THEN @ ELSE "std"]
    IN  /\ running[d] # s
        /\ running' = [running EXCEPT ![d] = s]
        /\ UNCHANGED <<eeprom, wire>>
=============================================================================
