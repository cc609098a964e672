------------------------------ MODULE Opening ------------------------------
(***************************************************************************)
(* The calls that open a port themselves: open_device with the AUTO        *)
(* detector, Controller.identify under the three profiles, find_devices,   *)
(* and the maintenance helpers, which write a communication setting and    *)
(* reopen the device at it.                                                *)
(*                                                                         *)
(* One program makes the calls one after another; exchanges are lost or    *)
(* answered late, opens fail, and any await may be cancelled.              *)
(***************************************************************************)
EXTENDS Segment

CONSTANTS
    Calls,      \* the calls considered, see Shapes
    MaxCalls    \* bound: calls made

Maintenance == {"change_baud", "change_modbus_address", "change_stdbus_address",
                "change_protocol_mode"}

\* The calls and their arguments.  The maintenance helpers know the EZ-ZONE only.
Shapes ==
    [kind : {"open_device"}, port : Port, profile : Family, proto : Proto \cup {"auto"},
     framing : Framing, addr : Int, identify : BOOLEAN]
    \cup [kind : {"identify"}, port : Port]
    \cup [kind : Maintenance \ {"change_protocol_mode"}, port : Port, profile : {"ez"},
          proto : Proto \cup {"auto"}, framing : Framing, addr : Int, target : Int,
          confirm : BOOLEAN]
    \cup [kind : {"change_protocol_mode"}, port : Port, profile : {"ez"},
          proto : Proto \cup {"auto"}, framing : Framing, addr : Int, target : Proto,
          confirm : BOOLEAN]
    \cup [kind : {"find_devices"}, ports : Seq(Port), bauds : Seq(Nat),
          plan : Seq([proto : Proto, profile : Family]), addrs : Seq(Int) \ {<<>>},
          prune : BOOLEAN]

ASSUME OpeningAssumption ==
    /\ NONE \notin Port /\ NONE \notin Calls
    /\ Calls \subseteq Shapes
    /\ MaxCalls \in Nat

VARIABLES
    op,         \* the call under way, NONE between calls
    pc,         \* where it is, see Points
    phase,      \* a maintenance call: before ("change") or after the write
    at,         \* port, place and profile of the transport in use
    got,        \* what the reads of the identify under way gave
    turn,       \* a scan: the combination and the address it is at
    rows,       \* a scan: its rows
    dead,       \* a scan: the ports that would not open
    told,       \* history: the settings written and what was known then
    result,     \* how the last call ended
    session,    \* per port: the Controller its caller has, or NoSession
    calls       \* history, for the bound

callVars == <<op, pc, phase, at, got, turn, rows, dead, told>>
vars == <<running, eeprom, wire, callVars, result, session, calls>>

\* idle; open() for a probe, and the probe; open(); the identify of open_device,
\* of a caller, of the SKU gate, of _verify; the write; the delay after it; a
\* scan between two combinations, in open(), at an address
Points == {"idle", "open_std", "probe_std", "open_mod", "probe_mod", "open",
           "identify", "again", "gate", "verify", "write", "sleep",
           "next", "open_combo", "probe"}
Reading == {"identify", "again", "gate", "verify", "probe"}
NoTransport == {"idle", "open_std", "open_mod", "open", "sleep", "next", "open_combo"}
Ways == {"none", "ok", "refused", "error", "raw", "cancelled"}

Nowhere == [port |-> NONE, proto |-> NONE, framing |-> Stdbus, addr |-> 0,
            profile |-> NONE]
At(o, proto, framing, addr) ==
    [port |-> o.port, proto |-> proto, framing |-> framing, addr |-> addr,
     profile |-> o.profile]
PlaceOf(a) == [proto |-> a.proto, framing |-> a.framing, addr |-> a.addr]

\* How a call ended, whether some exchange on its last transport was given up,
\* and where the replies of its last identify came from.
NoResult == [op |-> NONE, how |-> "none", late |-> FALSE, to |-> {}]

NewSession(a) ==
    [at |-> a, health |-> "none", who |-> NONE, unitRead |-> FALSE,
     unit |-> IF a.profile = "sd" THEN "F" ELSE NONE, decimals |-> 0]
NoSession == NewSession(Nowhere)
FirstTurn == [round |-> 1, addr |-> 1]

Init ==
    /\ SegmentInit
    /\ op = NONE /\ pc = "idle" /\ phase = "change" /\ at = Nowhere
    /\ got = <<>> /\ turn = FirstTurn /\ rows = <<>> /\ dead = {} /\ told = {}
    /\ result = NoResult
    /\ session = [p \in Port |-> NoSession]
    /\ calls = 0

-----------------------------------------------------------------------------
(* identify *)

\* A text is kept where a text is asked for, a number where a number is.
Kept(param, reply) ==
    IF reply = NONE THEN NONE
    ELSE IF param \in Text <=> reply.param \in Text THEN reply ELSE NONE

\* Mutant: any number in register 0 is an F4P.
IsModelAny(reply) == reply # NONE

IsModel(reply) == reply # NONE /\ reply.param = "model_code"

\* The strategies read on whatever is missing, F4P's only past its model code.
Complete(profile, query, g) ==
    \/ Len(g) = Len(Reads(profile, query))
    \/ profile = "f4p" /\ g # <<>> /\ ~IsModel(g[1])

EzHealth(g) ==
    IF g[1] = NONE THEN "failed"
    ELSE IF g[2] = NONE \/ g[3] = NONE THEN "partial" ELSE "ok"
SdHealth(g) ==
    IF g[1] = NONE THEN "failed" ELSE IF g[2] = NONE THEN "partial" ELSE "ok"
\* Mutant: the decimals and the unit are taken for granted.
F4pHealthHasty(g) ==
    IF ~IsModel(g[1]) THEN "failed" ELSE IF g[4] = NONE THEN "partial" ELSE "ok"

F4pHealth(g) ==
    IF ~IsModel(g[1]) THEN "failed"
    ELSE IF g[4] = NONE \/ g[5] = NONE \/ g[6] = NONE THEN "partial" ELSE "ok"
Health(profile, g) ==
    CASE profile = "ez" -> EzHealth(g)
      [] profile = "sd" -> SdHealth(g)
      [] OTHER -> F4pHealth(g)

\* Any code but 1 means Fahrenheit.
UnitOf(reply) == IF reply.param = "units" THEN Make[reply.who].unit ELSE "F"

\* The device that answered, NONE when none did or several.
Answerer(g) ==
    IF g[1] # NONE /\ \A i \in DOMAIN g : g[i] # NONE => g[i].who = g[1].who
    THEN g[1].who ELSE NONE

\* identify leaves its mark on the session: scale and unit where they answered.
Identified(s, g) ==
    LET profile == s.at.profile
        last == IF profile # "ez" /\ Len(g) = 6 THEN g[6] ELSE NONE
    IN  [s EXCEPT !.health = Health(profile, g),
                  !.who = Answerer(g),
                  !.unitRead = last # NONE,
                  !.unit = IF last = NONE THEN @ ELSE UnitOf(last),
                  !.decimals = IF profile = "f4p" /\ Len(g) = 6 /\ g[5] # NONE
                               THEN Make[g[5].who].decimals ELSE @]

-----------------------------------------------------------------------------
(* How calls begin and end *)

Begin(o) ==
    /\ op = NONE /\ calls < MaxCalls
    /\ calls' = calls + 1
    /\ op' = o
    /\ rows' = <<>> /\ dead' = {} /\ told' = {} /\ phase' = "change" /\ got' = <<>>
    /\ turn' = FirstTurn
    /\ result' = NoResult
    /\ UNCHANGED <<running, eeprom, wire, session>>

Ends(how, replies) ==
    /\ op' = NONE /\ pc' = "idle" /\ at' = Nowhere /\ got' = <<>> /\ phase' = "change"
    /\ turn' = FirstTurn
    /\ result' = [op |-> op, how |-> how, late |-> at # Nowhere /\ wire[at.port].gave,
                  to |-> {replies[i].to : i \in {j \in DOMAIN replies : replies[j] # NONE}}]
    /\ UNCHANGED <<running, eeprom, rows, told, calls>>

\* Mutant: no finally clause closes the transport.
UnwoundNot ==
    IF pc \in NoTransport \cup {"again"} THEN wire ELSE LostAt(at.port, pc)

\* What becomes of the transport of a call that is left by an error: a with
\* block or a finally clause closes it, but open_device's identify has neither.
Unwound ==
    CASE pc \in NoTransport \cup {"again"} -> wire
      [] pc = "identify" -> LostAt(at.port, pc)
      [] OTHER -> Freed(at.port)

Fails(how) ==
    /\ Ends(how, <<>>)
    /\ wire' = Unwound
    /\ UNCHANGED <<session, dead>>

-----------------------------------------------------------------------------
(* open_device and detect_protocol *)

FirstOpen(proto) == IF proto = "auto" THEN "open_std" ELSE "open"

CallOpen(o) ==
    /\ o.kind = "open_device"
    /\ Begin(o)
    /\ at' = At(o, IF o.proto = "auto" THEN "std" ELSE o.proto, o.framing, o.addr)
    /\ pc' = FirstOpen(o.proto)

CallIdentify(o) ==
    /\ o.kind = "identify"
    /\ session[o.port] # NoSession
    /\ Begin(o)
    /\ at' = session[o.port].at
    /\ pc' = "again"

CallClose(p) ==
    /\ op = NONE /\ wire[p].holder = "user"
    /\ wire' = Freed(p)
    /\ session' = [session EXCEPT ![p] = NoSession]
    /\ UNCHANGED <<running, eeprom, callVars, result, calls>>

\* Returned: the caller has the Controller.
Returns(s) ==
    /\ Ends("ok", got)
    /\ wire' = HandedOver(at.port)
    /\ session' = [session EXCEPT ![at.port] = s]
    /\ UNCHANGED dead

\* transport.open(): the port may be taken by another handle, or fail.
Opens(p) == wire[p].holder = "free" /\ wire' = Taken(p)

Step(point) ==
    /\ pc' = point
    /\ UNCHANGED <<running, eeprom, op, phase, turn, rows, dead, told, result, session,
                   calls>>

Open ==
    /\ pc = "open"
    /\ Opens(at.port)
    /\ Step("identify")
    /\ UNCHANGED <<at, got>>

OpenFails ==
    /\ pc = "open"
    /\ Fails(IF at.proto = "std" THEN "error" ELSE "raw")

\* _try_stdbus: a port that does not open, an address out of range and a probe
\* without a frame all lead on to Modbus.
TryStdbus ==
    /\ pc = "open_std" /\ InRange("std", at.addr)
    /\ Opens(at.port)
    /\ Step("probe_std")
    /\ UNCHANGED <<at, got>>

NotStdbus(w) ==
    /\ wire' = w
    /\ Step("open_mod")
    /\ at' = [at EXCEPT !.proto = "mod"]
    /\ UNCHANGED got

SkipStdbus == pc = "open_std" /\ NotStdbus(wire)

\* _try_modbus: what its open raises is no WatlowError and ends the call.
TryModbus ==
    /\ pc = "open_mod" /\ InRange("mod", at.addr)
    /\ Opens(at.port)
    /\ Step("probe_mod")
    /\ UNCHANGED <<at, got>>

SkipModbus ==
    /\ pc = "open_mod"
    /\ Fails(IF InRange("mod", at.addr) THEN "raw" ELSE "error")

\* A frame of any kind confirms the protocol.
ProbeOutcomes ==
    Outcomes(at.port, at.proto, <<>>) \cup
    UNION {Outcomes(at.port, at.proto, s) :
             s \in Sent(at.port, PlaceOf(at), at.profile, "hardware_id")}

Probed ==
    /\ pc \in {"probe_std", "probe_mod"}
    /\ \E e \in ProbeOutcomes : e.reply # NONE /\ wire' = Exchanged(at.port, e)
    /\ Step("identify")
    /\ UNCHANGED <<at, got>>

ProbeFails ==
    /\ pc \in {"probe_std", "probe_mod"}
    /\ \E e \in ProbeOutcomes : e.reply = NONE
    /\ \/ pc = "probe_std" /\ NotStdbus(Freed(at.port))
       \/ pc = "probe_mod" /\ Fails("error")

-----------------------------------------------------------------------------
(* The reads of an identify *)

Query == pc = "probe"
Param == Reads(at.profile, Query)[Len(got) + 1]
ReadOutcomes ==
    UNION {Outcomes(at.port, at.proto, s) :
             s \in Sent(at.port, PlaceOf(at), at.profile, Param)}
Asking == pc \in Reading /\ ~Complete(at.profile, Query, got)

\* open_device(identify=False)
NotAsked == pc = "identify" /\ op.kind = "open_device" /\ ~op.identify

\* A read that fails in any way is a missing field.
Read ==
    /\ Asking /\ ~NotAsked /\ InRange(at.proto, at.addr)
    /\ \E e \in ReadOutcomes :
         /\ pc = "verify" /\ got = <<>> => e.reply # NONE
         /\ got' = Append(got, Kept(Param, e.reply))
         /\ wire' = Exchanged(at.port, e)
    /\ Step(pc)
    /\ UNCHANGED at

\* identify(strict=True): the first read's error is raised.
StrictRead ==
    /\ pc = "verify" /\ got = <<>> /\ InRange(at.proto, at.addr)
    /\ \E e \in ReadOutcomes : e.reply = NONE
    /\ Fails("error")

\* An address out of range is a configuration error, which no read swallows.
BadAddress ==
    /\ Asking /\ ~NotAsked /\ pc # "probe" /\ ~InRange(at.proto, at.addr)
    /\ Fails("error")

Done == pc \in Reading /\ (NotAsked \/ Complete(at.profile, Query, got))

OpenReturns ==
    /\ Done /\ pc = "identify" /\ op.kind = "open_device"
    /\ Returns(IF op.identify THEN Identified(NewSession(at), got) ELSE NewSession(at))

IdentifyReturns ==
    /\ Done /\ pc = "again"
    /\ Returns(Identified(session[at.port], got))

-----------------------------------------------------------------------------
(* maintenance *)

TargetOk(o) ==
    CASE o.kind = "change_baud" -> o.target \in {9600, 19200, 38400} /\ o.proto = "mod"
      [] o.kind = "change_modbus_address" -> InRange("mod", o.target)
      [] o.kind = "change_stdbus_address" -> InRange("std", o.target)
      [] OTHER -> o.target \in Proto

Refuse(o) ==
    /\ o.kind \in Maintenance /\ ~(o.confirm /\ TargetOk(o))
    /\ op = NONE /\ calls < MaxCalls
    /\ calls' = calls + 1
    /\ result' = [NoResult EXCEPT !.op = o, !.how = "refused"]
    /\ told' = {} /\ rows' = <<>> /\ dead' = {}
    /\ UNCHANGED <<running, eeprom, wire, op, pc, phase, at, got, turn, session>>

CallMaintenance(o) ==
    /\ o.kind \in Maintenance /\ o.confirm /\ TargetOk(o)
    /\ Begin(o)
    /\ at' = At(o, IF o.proto = "auto" THEN "std" ELSE o.proto, o.framing, o.addr)
    /\ pc' = FirstOpen(o.proto)

\* Where the device is to answer after each change.
NewBaud(o) == At(o, "mod", [o.framing EXCEPT !.baud = o.target], o.addr)
NewModbusAddress(o) == At(o, "mod", o.framing, o.target)
NewStdbusAddress(o) == At(o, "std", o.framing, o.target)
NewProtocol(o) == At(o, o.target, FactoryFor(o.target), o.addr)
NewPlace(o) ==
    CASE o.kind = "change_baud" -> NewBaud(o)
      [] o.kind = "change_modbus_address" -> NewModbusAddress(o)
      [] o.kind = "change_stdbus_address" -> NewStdbusAddress(o)
      [] OTHER -> NewProtocol(o)

\* The parameter written: 17002, 17007, 17001 or 17009.
Field(o) ==
    CASE o.kind = "change_baud" -> "baud"
      [] o.kind = "change_modbus_address" -> "mod"
      [] o.kind = "change_stdbus_address" -> "std"
      [] OTHER -> "proto"

\* Mutant: the reopened device is written to once more.
OpenedForChangeAgain ==
    /\ Done /\ pc = "identify" /\ op.kind \in Maintenance
    /\ got' = <<>>
    /\ Step(IF op.kind = "change_protocol_mode" THEN "gate" ELSE "write")
    /\ UNCHANGED <<at, wire>>

OpenedForChange ==
    /\ Done /\ pc = "identify" /\ op.kind \in Maintenance
    /\ got' = <<>>
    /\ Step(IF phase = "verify" THEN "verify"
            ELSE IF op.kind = "change_protocol_mode" THEN "gate" ELSE "write")
    /\ UNCHANGED <<at, wire>>

\* Mutant: the gate only asks whether the device is there.
SkuSupportsAny(o, g) == EzHealth(g) # "failed"

\* _check_sku_supports_protocol: a part number that decodes must list Modbus;
\* one that does not decode lets the write through.
SkuSupports(o, g) ==
    /\ EzHealth(g) # "failed"
    /\ o.target = "mod" /\ g[1].param = "part_number" => Make[g[1].who].modbus

Gate ==
    /\ Done /\ pc = "gate"
    /\ IF SkuSupports(op, got)
       THEN Step("write") /\ UNCHANGED <<at, got, wire>>
       ELSE Fails("refused")

\* The write reaches the devices that hear it, whatever comes of its reply; the
\* setting is stored and comes into force when the device sees fit.
Store(reached) ==
    /\ eeprom' = [d \in Device |->
                    IF d \in reached THEN [eeprom[d] EXCEPT ![Field(op)] = op.target]
                    ELSE eeprom[d]]
    /\ told' = {[who |-> d, gave |-> wire[at.port].gave,
                 alone |-> /\ Hearing(at.port, PlaceOf(at)) = {d}
                           /\ \A i \in DOMAIN got : got[i] # NONE => got[i].who = d] :
                   d \in reached}

\* Mutant: the reply to the write is not looked at.
AcknowledgedAny(e) == TRUE

Acknowledged(e) == e.reply # NONE /\ e.reply.param = "echo"

Write ==
    /\ pc = "write"
    /\ \E reached \in SUBSET {d \in Hearing(at.port, PlaceOf(at)) : Make[d].family = "ez"} :
       \E e \in UNION {Outcomes(at.port, at.proto, s) :
                         s \in {<<>>} \cup {<<Echo(d, PlaceOf(at))>> : d \in reached}} :
         /\ Store(reached)
         /\ wire' = Freed(at.port)
         /\ IF Acknowledged(e)
            THEN pc' = "sleep" /\ UNCHANGED <<op, at, phase, result>>
            ELSE /\ op' = NONE /\ pc' = "idle" /\ at' = Nowhere /\ phase' = "change"
                 /\ result' = [NoResult EXCEPT !.op = op, !.how = "error"]
    /\ got' = <<>>
    /\ UNCHANGED <<running, turn, rows, dead, session, calls>>

\* The delay is over: reopen the device where it should be by now.
Reopen ==
    /\ pc = "sleep"
    /\ pc' = "open" /\ phase' = "verify" /\ at' = NewPlace(op)
    /\ UNCHANGED <<running, eeprom, wire, op, got, turn, rows, dead, told, result, session,
                   calls>>

Verified ==
    /\ Done /\ pc = "verify"
    /\ Ends("ok", got)
    /\ wire' = Freed(at.port)
    /\ UNCHANGED <<session, dead>>

-----------------------------------------------------------------------------
(* find_devices *)

CallScan(o) ==
    /\ o.kind = "find_devices"
    /\ Begin(o)
    /\ at' = Nowhere
    /\ pc' = "next"

\* The loops over ports, bauds and the plan, and what round t of them is about.
Rounds(o) == Len(o.ports) * Len(o.bauds) * Len(o.plan)
Combo(o, t) ==
    [port |-> o.ports[((t - 1) \div (Len(o.bauds) * Len(o.plan))) + 1],
     baud |-> o.bauds[(((t - 1) \div Len(o.plan)) % Len(o.bauds)) + 1],
     entry |-> o.plan[((t - 1) % Len(o.plan)) + 1]]
\* A baud the profile never has, in the default sweep.
Pruned(o, c) == o.prune /\ c.entry.profile = "f4p" /\ c.baud \notin {9600, 19200}
\* _build_settings: the factory framing, at the baud of the sweep.
Parity(c) ==
    IF c.entry.profile = "ez" THEN FactoryFor(c.entry.proto).parity ELSE "N"
ComboAt(o) ==
    LET c == Combo(o, turn.round)
    IN  [port |-> c.port, proto |-> c.entry.proto, profile |-> c.entry.profile,
         framing |-> [baud |-> c.baud, parity |-> Parity(c)], addr |-> o.addrs[1]]

Row(a, ok, replies) ==
    [at |-> a, ok |-> ok, replies |-> replies, gave |-> wire[a.port].gave]
\* Mutant: a port that would not open gives one row.
NoRowsOne(a) == <<Row(a, FALSE, {})>>
NoRows(a) == [i \in 1..Len(op.addrs) |-> Row([a EXCEPT !.addr = op.addrs[i]], FALSE, {})]

More == turn.round <= Rounds(op)
NextRound == [round |-> turn.round + 1, addr |-> 1]

Prune ==
    /\ pc = "next" /\ More /\ Pruned(op, Combo(op, turn.round))
    /\ turn' = NextRound
    /\ UNCHANGED <<running, eeprom, wire, op, pc, phase, at, got, rows, dead, told, result,
                   session, calls>>

Planned == pc = "next" /\ More /\ ~Pruned(op, Combo(op, turn.round))

NextCombo ==
    /\ Planned /\ Combo(op, turn.round).port \notin dead
    /\ at' = ComboAt(op)
    /\ Step("open_combo")
    /\ UNCHANGED <<wire, got>>

DeadPort ==
    /\ Planned /\ Combo(op, turn.round).port \in dead
    /\ rows' = rows \o NoRows(ComboAt(op))
    /\ turn' = NextRound
    /\ UNCHANGED <<running, eeprom, wire, op, pc, phase, at, got, dead, told, result,
                   session, calls>>

ScanEnds ==
    /\ pc = "next" /\ ~More
    /\ Ends("ok", <<>>)
    /\ UNCHANGED <<wire, session, dead>>

OpenCombo ==
    /\ pc = "open_combo"
    /\ Opens(at.port)
    /\ Step("probe")
    /\ UNCHANGED <<at, got>>

\* A connection error condemns the port, another transport error only the
\* combination; on Modbus what open raises is neither and ends the scan.
ComboFails ==
    /\ pc = "open_combo"
    /\ \/ /\ at.proto = "std"
          /\ rows' = rows \o NoRows(at)
          /\ dead' \in {dead, dead \cup {at.port}}
          /\ pc' = "next" /\ turn' = NextRound
          /\ UNCHANGED <<running, eeprom, wire, op, phase, at, got, told, result,
                         session, calls>>
       \/ at.proto = "mod" /\ Fails("raw")

\* After a row: the next address, or the transport is closed.
RowDone(row, w) ==
    /\ rows' = Append(rows, row)
    /\ got' = <<>>
    /\ IF turn.addr < Len(op.addrs)
       THEN /\ turn' = [turn EXCEPT !.addr = @ + 1]
            /\ at' = [at EXCEPT !.addr = op.addrs[turn.addr + 1]]
            /\ pc' = "probe" /\ wire' = w
       ELSE /\ turn' = NextRound
            /\ at' = at /\ pc' = "next" /\ wire' = Freed(at.port)
    /\ UNCHANGED <<running, eeprom, op, phase, dead, told, result, session, calls>>

SkipAddress ==
    /\ pc = "probe" /\ ~InRange(at.proto, at.addr)
    /\ RowDone(Row(at, FALSE, {}), wire)

\* A row is a device's when it has a part number or a hardware id.
Identity(profile, g) ==
    CASE profile = "ez" -> {g[i] : i \in 1..2} \ {NONE}
      [] profile = "sd" -> {g[1]} \ {NONE}
      [] OTHER -> IF IsModel(g[1]) THEN {g[1]} ELSE {}

ProbeEnds ==
    /\ Done /\ pc = "probe"
    /\ LET found == Identity(at.profile, got)
       IN  RowDone(Row(at, found # {}, found), wire)

\* The budget of the whole identify runs out.
Expires ==
    /\ pc = "probe" /\ Asking /\ InRange(at.proto, at.addr)
    /\ \E e \in ReadOutcomes :
         /\ e.reply = NONE
         /\ RowDone(Row(at, FALSE, {}), Exchanged(at.port, e))

-----------------------------------------------------------------------------
\* Every await may be cancelled: an open, an exchange, the delay.
Cancel ==
    /\ op # NONE /\ pc # "next" /\ ~Done
    /\ IF pc = "again"
       THEN /\ \E e \in ReadOutcomes : e.reply = NONE /\ wire' = Exchanged(at.port, e)
            /\ Ends("cancelled", <<>>)
            /\ UNCHANGED <<session, dead>>
       ELSE Fails("cancelled")

Call(o) ==
    CallOpen(o) \/ CallIdentify(o) \/ CallMaintenance(o) \/ Refuse(o) \/ CallScan(o)

OpenNext ==
    \/ \E p \in Port : CallClose(p)
    \/ Open \/ OpenFails \/ TryStdbus \/ SkipStdbus \/ TryModbus \/ SkipModbus
    \/ Probed \/ ProbeFails \/ Read \/ StrictRead \/ BadAddress
    \/ OpenReturns \/ IdentifyReturns \/ Cancel

MaintenanceNext == OpenedForChange \/ Gate \/ Write \/ Reopen \/ Verified

ScanNext ==
    \/ Prune \/ NextCombo \/ DeadPort \/ ScanEnds \/ OpenCombo \/ ComboFails
    \/ SkipAddress \/ ProbeEnds \/ Expires

Environment ==
    /\ \E d \in Device : TakesEffect(d)
    /\ UNCHANGED <<callVars, result, session, calls>>

Next ==
    \/ \E o \in Calls : Call(o)
    \/ OpenNext \/ MaintenanceNext \/ ScanNext \/ Environment

Spec == Init /\ [][Next]_vars

-----------------------------------------------------------------------------
(* Properties *)

Asked == IF op # NONE THEN op ELSE result.op

\* Types of the variables of the calls, with what each point of a call implies.
TypeOK ==
    /\ running \in [Device -> Setting] /\ eeprom \in [Device -> Setting]
    /\ \A p \in Port : wire[p].holder \in Holder /\ wire[p].gave \in BOOLEAN
                       /\ Len(wire[p].line) <= MaxLine
    /\ pc \in Points /\ (pc = "idle" <=> op = NONE)
    /\ phase \in {"change", "verify"}
    /\ pc \in {"gate", "write", "sleep"} => phase = "change"
    /\ Len(got) <= 6 /\ (got # <<>> => pc \in Reading \cup {"write"})
    /\ dead \subseteq Port /\ result.how \in Ways
    /\ calls \in 0..MaxCalls

\* A transport is open for as long as a call works on it or its caller has the
\* Controller: detection, discovery and maintenance close what they opened,
\* however they end.  Only open_device's own identify can leave one behind
\* (factory.py:178, :208): there is no handler around it.
HandedOrClosed ==
    \A p \in Port :
        /\ wire[p].holder = "call" <=>
               op # NONE /\ at.port = p /\ pc \notin NoTransport \cup {"again"}
        /\ wire[p].holder = "user" <=> session[p] # NoSession
        /\ wire[p].holder = "lost" => wire[p].blame = "identify"

\* find_devices gives one row per port, baud, protocol and address in the order
\* of its arguments, whichever ports are dead, combinations fail, addresses are
\* out of range or budgets run out (discovery.py:200-206).
InPlan(o) == {t \in 1..Rounds(o) : ~Pruned(o, Combo(o, t))}
Before(o, t) == Cardinality({s \in InPlan(o) : s < t})
RowOf(o, t, a) == Before(o, t) * Len(o.addrs) + a
IsRow(row, c, addr) ==
    /\ row.at.port = c.port /\ row.at.framing.baud = c.baud
    /\ row.at.proto = c.entry.proto /\ row.at.addr = addr
RowsInOrder ==
    Asked # NONE /\ Asked.kind = "find_devices" =>
        /\ \A t \in InPlan(Asked), a \in DOMAIN Asked.addrs :
               RowOf(Asked, t, a) <= Len(rows) =>
                   IsRow(rows[RowOf(Asked, t, a)], Combo(Asked, t), Asked.addrs[a])
        /\ Len(rows) <= Cardinality(InPlan(Asked)) * Len(Asked.addrs)
        /\ op = NONE /\ result.how = "ok" =>
               Len(rows) = Cardinality(InPlan(Asked)) * Len(Asked.addrs)

\* A row of a scan names a device only on replies to questions asked at the
\* row's own address, unless some exchange on the same handle had been given up:
\* nothing drains the line between two addresses.  And no device of another
\* family is ever reported as an F4P (profile.py:371-373).
RowsTrue ==
    \A i \in DOMAIN rows : rows[i].ok =>
        /\ ~rows[i].gave => \A r \in rows[i].replies : r.to = PlaceOf(rows[i].at)
        /\ rows[i].at.profile = "f4p" =>
               \A r \in rows[i].replies : Make[r.who].family = "f4p"

\* A maintenance helper that returns has stored its setting in a device and, if
\* nothing timed out, has heard a device where one so set is to answer; one that
\* refuses has stored nothing.  (One that fails may have done either.  After a
\* late reply the strict identify may return a device it knows nothing of: a
\* reply of another type is no part number, and not an error, profile.py:208.)
VerifiedIsTrue ==
    op = NONE /\ result.op # NONE /\ result.op.kind \in Maintenance =>
        /\ result.how = "ok" =>
               /\ \E t \in told : eeprom[t.who][Field(result.op)] = result.op.target
               /\ result.to \subseteq {PlaceOf(NewPlace(result.op))}
               /\ result.to = {} => result.late
        /\ result.how = "refused" => told = {}

\* change_protocol_mode never switches a unit that has no Modbus to Modbus when
\* the unit is alone at its address, gave all the gate's answers and gave them in
\* time.  (After an exchange was given up the gate may read a serial number for a
\* part number, which does not decode and so does not refuse.)
GateHolds ==
    Asked # NONE /\ Asked.kind = "change_protocol_mode" =>
        \A t \in told :
            Asked.target = "mod" /\ ~Make[t.who].modbus => t.gave \/ ~t.alone

\* Readings carry the right scale and unit: a Controller identified by the answers
\* of one device has, if it is an F4P whose health is OK, those of the device; one
\* of an SD has the device's unit if the unit register answered (if not, its
\* health is OK all the same).
ScaleIsTrue ==
    \A p \in Port :
        LET s == session[p]
        IN  s.who # NONE /\ s.health = "ok"
              /\ s.at.profile = Make[s.who].family =>
                /\ s.at.profile = "f4p" => /\ s.decimals = Make[s.who].decimals
                                           /\ s.unit = Make[s.who].unit
                /\ s.at.profile = "sd" /\ s.unitRead => s.unit = Make[s.who].unit
=============================================================================
