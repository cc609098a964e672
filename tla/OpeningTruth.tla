--------------------------- MODULE OpeningTruth ---------------------------
(***************************************************************************)
(* What the calls say is true, proved for any ports, devices, settings,    *)
(* calls and number of calls: the rows of a scan, the return and the       *)
(* refusal of a maintenance helper, the gate of change_protocol_mode, the  *)
(* scale of an identified Controller.                                      *)
(***************************************************************************)
EXTENDS OpeningProofs, FiniteSetTheorems

Here(place) == {r \in Genuine : r.to = place}
Spoken == {r \in Genuine : r.to.proto = "std"}

\* Frames come late on Standard Bus only: anymodbus drains the line.
LinesInv == \A p \in Port : wire[p].line \in Seq(Spoken)
SpokenInv ==
    at.proto = "std" => \A i \in DOMAIN got : got[i] # NONE => got[i] \in Spoken

\* What the reads of the identify under way brought, when none was given up or
\* the line is drained: the answers of devices that hear.
AnswersInv ==
    pc \in Reading \cup {"write"} /\ (~wire[at.port].gave \/ at.proto = "mod") =>
        \A i \in DOMAIN got : got[i] # NONE =>
            got[i] = Answer(got[i].who, PlaceOf(at), at.profile,
                            Reads(at.profile, Query)[i])

\* A maintenance helper asks one place only over each transport it opens.
HereInv ==
    op # NONE /\ op.kind \in Maintenance /\ Working =>
        /\ wire[at.port].line \in Seq(Here(PlaceOf(at)))
        /\ \A i \in DOMAIN got : got[i] # NONE => got[i].to = PlaceOf(at)

\* The strict identify's first read was answered, and kept unless it was late;
\* what the gate let through is still there when the write is made.
GivenInv ==
    /\ pc = "verify" /\ ~wire[at.port].gave /\ got # <<>> => got[1] # NONE
    /\ pc = "write" /\ op.kind = "change_protocol_mode" =>
          got # <<>> /\ SkuSupports(op, got)

\* From the acknowledged write on the setting is stored, and not before.
ToldInv ==
    op # NONE =>
        IF phase = "verify" \/ pc = "sleep"
        THEN \E t \in told : eeprom[t.who][Field(op)] = op.target
        ELSE told = {}
VerifyInv == phase = "verify" => at = NewPlace(op)

\* A caller's identify works on the caller's Controller.
AgainInv == pc = "again" => session[at.port].at = at

\* A scan has the rows of the rounds before, and is at its round and address.
ScanInv ==
    op # NONE /\ op.kind = "find_devices" =>
        /\ Len(rows) = RowOf(op, turn.round, turn.addr) - 1
        /\ pc # "next" =>
              IsRow([at |-> at], Combo(op, turn.round), op.addrs[turn.addr])

TruthInv == LinesInv /\ SpokenInv /\ AnswersInv /\ HereInv /\ GivenInv /\ ToldInv
            /\ VerifyInv /\ AgainInv

-----------------------------------------------------------------------------
(***************************************************************************)
(* Which steps change what                                                 *)
(***************************************************************************)

\* The gate lets the write through.
Passed ==
    /\ pc = "gate" /\ pc' = "write" /\ Done /\ SkuSupports(op, got)
    /\ UNCHANGED <<got, at, wire, op, phase, told, running, eeprom, result, session>>

\* The replies of an identify are kept for as long as it goes on.
LEMMA WhoReads ==
    ASSUME Sound, [Next]_vars
    PROVE  got' = <<>> \/ Read \/ Passed \/ UNCHANGED <<got, at, wire, op, pc>>
<1>0. /\ got # <<>> => pc \in Reading \cup {"write"}
      /\ op = NONE => pc = "idle"
      /\ Failed \/ Over => got' = <<>>
      BY FailedIsOver DEF Sound, TypesInv, GotInv, CallInv, Over
<1>1. CASE UNCHANGED got /\ pc \notin Reading \cup {"write"}
      BY <1>0, <1>1
<1>2. CASE Next /\ OpenNext
  <2>1. ASSUME NEW p \in Port, CallClose(p)  PROVE got' = <<>>
        BY <1>0, <2>1 DEF CallClose, callVars, Reading
  <2>2. CASE Open \/ TryStdbus \/ TryModbus \/ SkipStdbus \/ Probed
        BY <1>1, <2>2 DEF Open, TryStdbus, TryModbus, SkipStdbus, Probed, NotStdbus,
                          Reading
  <2>3. CASE OpenFails \/ SkipModbus \/ StrictRead \/ BadAddress
        BY <1>0, <1>2, <2>3, WhatFails
  <2>4. CASE ProbeFails
    <3>1. pc \in {"probe_std", "probe_mod"} /\ (Failed \/ UNCHANGED got)
          BY <1>2, <2>4, WhatFails DEF ProbeFails, NotStdbus
    <3> QED  BY <1>0, <1>1, <3>1 DEF Reading
  <2>5. CASE OpenReturns \/ IdentifyReturns
        BY <1>0, <2>5, EndsAreOver DEF OpenReturns, IdentifyReturns, Returns
  <2>6. CASE Cancel
    <3>1. CASE pc = "again"
          BY <1>0, <2>6, <3>1, EndsAreOver DEF Cancel
    <3> QED  BY <1>0, <1>2, <2>6, <3>1, WhatFails
  <2> QED  BY <1>2, <2>1, <2>2, <2>3, <2>4, <2>5, <2>6 DEF OpenNext
<1>3. CASE Next /\ MaintenanceNext
  <2>1. CASE OpenedForChange \/ Write
        BY <2>1 DEF OpenedForChange, Write
  <2>2. CASE Gate
    <3>1. CASE Failed
          BY <1>0, <3>1
    <3>2. CASE ~Failed
      <4>1. Done /\ pc = "gate"
            BY <2>2 DEF Gate
      <4>2. SkuSupports(op, got) /\ Step("write") /\ UNCHANGED <<at, got, wire>>
            BY <1>3, <2>2, <3>2, WhatFails
      <4> QED  BY <4>1, <4>2 DEF Passed, Step
    <3> QED  BY <3>1, <3>2
  <2>3. CASE Reopen
        BY <1>1, <2>3 DEF Reopen, Reading
  <2>4. CASE Verified
        BY <1>0, <2>4, EndsAreOver DEF Verified
  <2> QED  BY <1>3, <2>1, <2>2, <2>3, <2>4 DEF MaintenanceNext
<1>4. CASE Next /\ ScanNext
  <2>1. CASE Prune \/ DeadPort
        BY <1>1, <2>1 DEF Prune, DeadPort, Planned, Reading
  <2>2. CASE NextCombo \/ OpenCombo
        BY <1>1, <2>2 DEF NextCombo, OpenCombo, Planned, Reading
  <2>3. CASE ScanEnds
        BY <1>0, <2>3, EndsAreOver DEF ScanEnds
  <2>4. CASE ComboFails
    <3>1. pc = "open_combo" /\ (UNCHANGED got \/ Failed)
          BY <2>4 DEF ComboFails, Failed, Ways
    <3> QED  BY <1>0, <1>1, <3>1 DEF Reading
  <2>5. CASE SkipAddress \/ ProbeEnds \/ Expires
        BY <2>5 DEF SkipAddress, ProbeEnds, Expires, RowDone
  <2> QED  BY <1>4, <2>1, <2>2, <2>3, <2>4, <2>5 DEF ScanNext
<1>5. ASSUME NEW o \in Calls, Call(o)  PROVE got' = <<>>
  <2>1. CASE Refuse(o)
        BY <1>0, <2>1 DEF Refuse, Reading
  <2>2. CASE ~Refuse(o)
        BY <1>5, <2>2 DEF Call, CallOpen, CallIdentify, CallMaintenance, CallScan, Begin
  <2> QED  BY <2>1, <2>2
<1>6. CASE UNCHANGED vars \/ Environment
      BY <1>6 DEF vars, Environment, TakesEffect, callVars
<1> QED  BY <1>2, <1>3, <1>4, <1>5, <1>6 DEF Next

\* What becomes of the lines.
Exchanges ==
    \/ pc \in {"probe_std", "probe_mod"} /\ \E e \in ProbeOutcomes : wire' = Exchanged(at.port, e)
    \/ Asking /\ \E e \in ReadOutcomes : wire' = Exchanged(at.port, e)

Clears == \A p \in Port : wire'[p].line \in {wire[p].line, <<>>}

LEMMA WhoExchanges ==
    ASSUME Sound, [Next]_vars
    PROVE  Exchanges \/ Clears
<1>0. /\ op = NONE <=> pc = "idle"
      /\ wire \in [Port -> Handle]
      BY DEF Sound, TypesInv, CallInv, WireInv
<1>1. ASSUME NEW p, wire' = wire \/ wire' = Taken(p) \/ wire' = Freed(p)
                    \/ wire' = LostAt(p, pc) \/ wire' = HandedOver(p)
      PROVE  Clears
  <2>1. CASE wire' = wire
        BY <2>1 DEF Clears
  <2>2. CASE wire' = HandedOver(p)
        BY <1>0, <2>2 DEF HandedOver, Handle, Clears
  <2>3. CASE wire' = Taken(p) \/ wire' = Freed(p) \/ wire' = LostAt(p, pc)
    <3>1. PICK holder, blame :
             wire' = [wire EXCEPT ![p] = [holder |-> holder, line |-> <<>>, gave |-> FALSE,
                                          blame |-> blame]]
          BY <2>3 DEF Taken, Freed, LostAt
    <3> QED  BY <1>0, <3>1 DEF Clears
  <2> QED  BY <1>1, <2>1, <2>2, <2>3
<1>2. Failed => Clears
  <2> SUFFICES ASSUME Failed  PROVE Clears
      OBVIOUS
  <2>1. wire' = Unwound
        BY FailsDoes DEF Failed
  <2>2. Unwound \in {wire, LostAt(at.port, pc), Freed(at.port)}
        BY DEF Unwound
  <2> QED  BY <1>1, <2>1, <2>2
<1>3. CASE Next /\ OpenNext
  <2>1. ASSUME NEW p \in Port, CallClose(p)  PROVE Clears
        BY <1>1, <2>1 DEF CallClose
  <2>2. CASE Open \/ TryStdbus \/ TryModbus \/ SkipStdbus
        BY <1>1, <2>2 DEF Open, TryStdbus, TryModbus, SkipStdbus, Opens, NotStdbus
  <2>3. CASE OpenFails \/ SkipModbus \/ StrictRead \/ BadAddress
        BY <1>2, <1>3, <2>3, WhatFails
  <2>4. CASE Probed
        BY <2>4 DEF Probed, Exchanges
  <2>5. CASE ProbeFails
        BY <1>1, <1>2, <1>3, <2>5, WhatFails DEF NotStdbus
  <2>6. CASE Read
        BY <2>6 DEF Read, Exchanges
  <2>7. CASE OpenReturns \/ IdentifyReturns
        BY <1>1, <2>7 DEF OpenReturns, IdentifyReturns, Returns
  <2>8. CASE Cancel
    <3>1. CASE pc = "again"
          BY <2>8, <3>1 DEF Cancel, Exchanges, Asking, Done, Reading
    <3> QED  BY <1>2, <1>3, <2>8, <3>1, WhatFails
  <2> QED  BY <1>3, <2>1, <2>2, <2>3, <2>4, <2>5, <2>6, <2>7, <2>8 DEF OpenNext
<1>4. CASE Next /\ MaintenanceNext
  <2>1. CASE OpenedForChange \/ Reopen \/ Write \/ Verified
        BY <1>1, <2>1 DEF OpenedForChange, Reopen, Write, Verified
  <2>2. CASE Gate
        BY <1>1, <1>2, <1>4, <2>2, WhatFails
  <2> QED  BY <1>4, <2>1, <2>2 DEF MaintenanceNext
<1>5. CASE Next /\ ScanNext
  <2>1. CASE Prune \/ NextCombo \/ DeadPort \/ ScanEnds \/ OpenCombo
        BY <1>1, <2>1 DEF Prune, NextCombo, DeadPort, ScanEnds, OpenCombo, Opens
  <2>2. CASE ComboFails
    <3>1. wire' = wire \/ Failed
          BY <2>2 DEF ComboFails, Failed, Ways
    <3> QED  BY <1>1, <1>2, <3>1
  <2>3. CASE SkipAddress \/ ProbeEnds
        BY <1>1, <2>3 DEF SkipAddress, ProbeEnds, RowDone
  <2>4. CASE Expires
    <3>1. Asking /\ \E e \in ReadOutcomes :
             wire' = Exchanged(at.port, e) \/ wire' = Freed(at.port)
          BY <2>4 DEF Expires, RowDone
    <3> QED  BY <1>1, <3>1 DEF Exchanges
  <2> QED  BY <1>5, <2>1, <2>2, <2>3, <2>4 DEF ScanNext
<1>6. ASSUME NEW o \in Calls, Call(o)  PROVE wire' = wire
      BY <1>6 DEF Call, CallOpen, CallIdentify, CallMaintenance, Refuse, CallScan, Begin
<1>7. CASE UNCHANGED vars \/ Environment
      BY <1>1, <1>7 DEF vars, Environment, TakesEffect
<1> QED  BY <1>1, <1>3, <1>4, <1>5, <1>6, <1>7 DEF Next

-----------------------------------------------------------------------------
(***************************************************************************)
(* Late frames                                                             *)
(***************************************************************************)

\* What an exchange brings comes from where all that was to come came from, if
\* what is asked there now does too; on Modbus nothing is to come after it.
LEMMA BringsOf ==
    ASSUME Sound, NEW p \in Port, NEW place \in Location, NEW profile \in Family,
           NEW param \in Parameter, param = "model_code" => profile = "f4p",
           NEW s \in Sent(p, place, profile, param) \cup {<<>>}, NEW proto,
           NEW e \in Outcomes(p, proto, s), NEW S, Here(place) \subseteq S,
           wire[p].line \in Seq(S)
    PROVE  e.line \in Seq(S) /\ e.reply \in S \cup {NONE}
<1>1. s \in Seq(Here(place)) /\ Len(s) <= 1
  <2>1. CASE s = <<>>
        BY <2>1
  <2>2. CASE s \in Sent(p, place, profile, param)
        BY <2>2, SentIs DEF Sound, TypesInv, Here
  <2> QED  BY <2>1, <2>2
<1>2. s \in Seq(S)
  <2>1. \A i \in 1..Len(s) : s[i] \in S
        BY <1>1
  <2> QED  BY <1>1, <2>1
<1>3. Len(wire[p].line) <= MaxLine
      BY DEF Sound, TypesInv, WireInv
<1> QED  BY <1>1, <1>2, <1>3, OutcomesOf

LEMMA Drained ==
    ASSUME NEW p, NEW sent, NEW e \in Outcomes(p, "mod", sent)
    PROVE  e.line = <<>>
BY DEF Outcomes

\* The exchanges that are made, and what they bring.
Asks(e, param) ==
    /\ param \in Parameter /\ (param = "model_code" => at.profile = "f4p")
    /\ \E s \in Sent(at.port, PlaceOf(at), at.profile, param) \cup {<<>>} :
           e \in Outcomes(at.port, at.proto, s)

LEMMA ExchangesAsk ==
    ASSUME Sound, Exchanges
    PROVE  /\ at \in Spot /\ PlaceOf(at) \in Location
           /\ \E e, param : Asks(e, param) /\ wire' = Exchanged(at.port, e)
<1>1. CASE pc \in {"probe_std", "probe_mod"}
  <2>1. ~Asking
        BY <1>1 DEF Asking, Reading
  <2>2. PICK e \in ProbeOutcomes : wire' = Exchanged(at.port, e)
        BY <2>1 DEF Exchanges
  <2>3. PICK s \in Sent(at.port, PlaceOf(at), at.profile, "hardware_id") \cup {<<>>} :
           e \in Outcomes(at.port, at.proto, s)
        BY DEF ProbeOutcomes
  <2>4. "hardware_id" \in Parameter /\ "hardware_id" # "model_code"
        BY DEF Parameter
  <2>5. Asks(e, "hardware_id")
        BY <2>3, <2>4 DEF Asks
  <2>6. at \in Spot
        BY <1>1 DEF Sound, TypesInv, AtInv
  <2>7. PlaceOf(at) \in Location
        BY <2>6 DEF Spot, Location, PlaceOf
  <2> QED  BY <2>2, <2>5, <2>6, <2>7
<1>2. CASE pc \notin {"probe_std", "probe_mod"}
  <2>1. Asking
        BY <1>2 DEF Exchanges
  <2>2. PICK e \in ReadOutcomes : wire' = Exchanged(at.port, e)
        BY <1>2 DEF Exchanges
  <2>3. PICK s \in Sent(at.port, PlaceOf(at), at.profile, Param) :
           e \in Outcomes(at.port, at.proto, s)
        BY DEF ReadOutcomes
  <2>4. Asks(e, Param)
        BY <2>1, <2>3, AskedFor DEF Asks, Sound
  <2> QED  BY <2>1, <2>2, <2>4, AskedFor DEF Sound
<1> QED  BY <1>1, <1>2

LEMMA AskedBrings ==
    ASSUME Sound, at \in Spot, PlaceOf(at) \in Location, NEW param, NEW e, Asks(e, param)
    PROVE  /\ Brings(e, at.port, at.proto, PlaceOf(at), at.profile, param)
           /\ \A S : Here(PlaceOf(at)) \subseteq S /\ wire[at.port].line \in Seq(S) =>
                        e.line \in Seq(S) /\ e.reply \in S \cup {NONE}
           /\ at.proto = "mod" => e.line = <<>>
<1>1. /\ param \in Parameter /\ (param = "model_code" => at.profile = "f4p")
      /\ at.port \in Port /\ at.profile \in Family
      BY DEF Asks, Spot
<1>2. PICK s \in Sent(at.port, PlaceOf(at), at.profile, param) \cup {<<>>} :
         e \in Outcomes(at.port, at.proto, s)
      BY DEF Asks
<1>3. Brings(e, at.port, at.proto, PlaceOf(at), at.profile, param)
      BY <1>1, <1>2, ExchangeBrings DEF Sound
<1>4. ASSUME NEW S, Here(PlaceOf(at)) \subseteq S, wire[at.port].line \in Seq(S)
      PROVE  e.line \in Seq(S) /\ e.reply \in S \cup {NONE}
      BY <1>1, <1>2, <1>4, BringsOf
<1>5. at.proto = "mod" => e.line = <<>>
      BY <1>2, Drained
<1> QED  BY <1>3, <1>4, <1>5

\* An exchange on p changes p's line, and no other's.
LEMMA LineOf ==
    ASSUME Sound, at \in Spot, PlaceOf(at) \in Location, NEW param, NEW e, Asks(e, param),
           wire' = Exchanged(at.port, e)
    PROVE  /\ wire'[at.port].line = e.line
           /\ wire'[at.port].gave <=> wire[at.port].gave \/ e.reply = NONE
           /\ \A p \in Port : p # at.port => wire'[p] = wire[p]
<1>1. at.port \in Port
      BY DEF Spot
<1>2. Brings(e, at.port, at.proto, PlaceOf(at), at.profile, param)
      BY AskedBrings
<1> QED  BY <1>1, <1>2, Exchange DEF Sound, Brings

LEMMA LinesKept ==
    ASSUME Sound, LinesInv, [Next]_vars
    PROVE  LinesInv'
<1>1. CASE Clears
  <2>1. ASSUME NEW p \in Port  PROVE wire'[p].line \in Seq(Spoken)
    <3>1. wire[p].line \in Seq(Spoken) /\ <<>> \in Seq(Spoken)
          BY DEF LinesInv
    <3> QED  BY <1>1, <3>1 DEF Clears
  <2> QED  BY <2>1 DEF LinesInv
<1>2. CASE Exchanges
  <2>1. at \in Spot /\ PlaceOf(at) \in Location /\ at.port \in Port
        BY <1>2, ExchangesAsk DEF Spot
  <2>2. PICK e, param : Asks(e, param) /\ wire' = Exchanged(at.port, e)
        BY <1>2, ExchangesAsk
  <2>3. e.line \in Seq(Spoken)
    <3>1. CASE at.proto = "mod"
      <4>1. e.line = <<>>
            BY <2>1, <2>2, <3>1, AskedBrings
      <4> QED  BY <4>1
    <3>2. CASE at.proto = "std"
      <4>1. Here(PlaceOf(at)) \subseteq Spoken
            BY <3>2 DEF Here, Spoken, PlaceOf
      <4>2. wire[at.port].line \in Seq(Spoken)
            BY <2>1 DEF LinesInv
      <4> QED  BY <2>1, <2>2, <4>1, <4>2, AskedBrings
    <3> QED  BY <2>1, <3>1, <3>2 DEF Spot, Proto
  <2>4. ASSUME NEW p \in Port  PROVE wire'[p].line \in Seq(Spoken)
    <3>1. CASE p = at.port
          BY <2>1, <2>2, <2>3, <3>1, LineOf
    <3>2. CASE p # at.port
          BY <2>1, <2>2, <3>2, LineOf DEF LinesInv
    <3> QED  BY <3>1, <3>2
  <2> QED  BY <2>4 DEF LinesInv
<1> QED  BY <1>1, <1>2, WhoExchanges

-----------------------------------------------------------------------------
(***************************************************************************)
(* The replies of an identify                                              *)
(***************************************************************************)

\* A read adds to the replies, at the end, what its exchange brought.
LEMMA ReadGives ==
    ASSUME Sound, Read
    PROVE  /\ at \in Spot /\ PlaceOf(at) \in Location /\ pc \in Reading
           /\ UNCHANGED <<at, pc, op, phase, Query>>
           /\ \E e : /\ Asks(e, Param) /\ wire' = Exchanged(at.port, e)
                     /\ pc = "verify" /\ got = <<>> => e.reply # NONE
                     /\ \A i \in DOMAIN got' :
                           \/ i \in DOMAIN got /\ got'[i] = got[i]
                           \/ i = Len(got) + 1 /\ got'[i] = Kept(Param, e.reply)
<1>1. Asking /\ UNCHANGED <<at, pc, op, phase>>
      BY DEF Read, Step
<1>2. PICK e \in ReadOutcomes :
         /\ pc = "verify" /\ got = <<>> => e.reply # NONE
         /\ got' = Append(got, Kept(Param, e.reply))
         /\ wire' = Exchanged(at.port, e)
      BY DEF Read
<1>3. PICK s \in Sent(at.port, PlaceOf(at), at.profile, Param) :
         e \in Outcomes(at.port, at.proto, s)
      BY DEF ReadOutcomes
<1>4. Asks(e, Param)
      BY <1>1, <1>3, AskedFor DEF Asks, Sound
<1>5. \A i \in DOMAIN got' :
         \/ i \in DOMAIN got /\ got'[i] = got[i]
         \/ i = Len(got) + 1 /\ got'[i] = Kept(Param, e.reply)
  <2> DEFINE S == Genuine \cup {NONE}
             x == Kept(Param, e.reply)
  <2>1. got \in Seq(S) /\ got' = Append(got, x)
        BY <1>2 DEF Sound, TypesInv, GotInv
  <2> HIDE DEF S, x
  <2>2. \A i \in DOMAIN got' : \/ i \in DOMAIN got /\ got'[i] = got[i]
                               \/ i = Len(got) + 1 /\ got'[i] = x
        BY <2>1
  <2> QED  BY <2>2 DEF x
<1>6. Query' = Query
      BY <1>1 DEF Query
<1> QED  BY <1>1, <1>2, <1>4, <1>5, <1>6, AskedFor DEF Sound, Asking

LEMMA SpokenKept ==
    ASSUME Sound, LinesInv, SpokenInv, [Next]_vars
    PROVE  SpokenInv'
<1>1. CASE got' = <<>>
      BY <1>1 DEF SpokenInv
<1>2. CASE Passed \/ UNCHANGED <<got, at, wire, op, pc>>
      BY <1>2 DEF SpokenInv, Passed
<1>3. CASE Read
  <2>1. /\ at \in Spot /\ PlaceOf(at) \in Location /\ at' = at
        BY <1>3, ReadGives
  <2>2. PICK e : /\ Asks(e, Param)
                 /\ \A i \in DOMAIN got' :
                       \/ i \in DOMAIN got /\ got'[i] = got[i]
                       \/ i = Len(got) + 1 /\ got'[i] = Kept(Param, e.reply)
        BY <1>3, ReadGives
  <2>3. ASSUME at.proto = "std"  PROVE e.reply \in Spoken \cup {NONE}
    <3>1. Here(PlaceOf(at)) \subseteq Spoken
          BY <2>3 DEF Here, Spoken, PlaceOf
    <3>2. wire[at.port].line \in Seq(Spoken)
          BY <2>1 DEF LinesInv, Spot
    <3> QED  BY <2>1, <2>2, <3>1, <3>2, AskedBrings
  <2> QED  BY <2>1, <2>2, <2>3, KeptIs DEF SpokenInv
<1> QED  BY <1>1, <1>2, <1>3, WhoReads

LEMMA AnswersKept ==
    ASSUME Sound, AnswersInv, [Next]_vars
    PROVE  AnswersInv'
<1>1. CASE got' = <<>>
      BY <1>1 DEF AnswersInv
<1>2. CASE UNCHANGED <<got, at, wire, op, pc>>
      BY <1>2 DEF AnswersInv, Query
<1>3. CASE Passed
  <2>1. pc \in Reading /\ Query' = Query /\ UNCHANGED <<got, at, wire>>
        BY <1>3 DEF Passed, Reading, Query
  <2> QED  BY <2>1 DEF AnswersInv
<1>4. CASE Read
  <2>1. /\ at \in Spot /\ PlaceOf(at) \in Location /\ pc \in Reading
        /\ UNCHANGED <<at, pc, op, Query>>
        BY <1>4, ReadGives
  <2>2. PICK e : /\ Asks(e, Param) /\ wire' = Exchanged(at.port, e)
                 /\ \A i \in DOMAIN got' :
                       \/ i \in DOMAIN got /\ got'[i] = got[i]
                       \/ i = Len(got) + 1 /\ got'[i] = Kept(Param, e.reply)
        BY <1>4, ReadGives
  <2>3. wire'[at.port].gave <=> wire[at.port].gave \/ e.reply = NONE
        BY <2>1, <2>2, LineOf
  <2>4. ASSUME ~wire'[at.port].gave \/ at.proto = "mod",
               NEW i \in DOMAIN got', got'[i] # NONE
        PROVE  got'[i] = Answer(got'[i].who, PlaceOf(at), at.profile,
                                Reads(at.profile, Query)[i])
    <3>1. ~wire[at.port].gave \/ at.proto = "mod"
          BY <2>3, <2>4
    <3>2. CASE i \in DOMAIN got /\ got'[i] = got[i]
      <4>1. got[i] # NONE
            BY <2>4, <3>2
      <4>2. got[i] = Answer(got[i].who, PlaceOf(at), at.profile,
                            Reads(at.profile, Query)[i])
            BY <2>1, <3>1, <3>2, <4>1 DEF AnswersInv
      <4> QED  BY <3>2, <4>2
    <3>3. CASE i = Len(got) + 1 /\ got'[i] = Kept(Param, e.reply)
      <4>1. got'[i] = e.reply
            BY <2>4, <3>3, KeptIs
      <4>2. wire[at.port].line = <<>> \/ at.proto = "mod"
            BY <2>1, <3>1 DEF Sound, TypesInv, WireInv, Spot
      <4>3. e.reply = Answer(e.reply.who, PlaceOf(at), at.profile, Param)
            BY <2>1, <2>2, <2>4, <4>1, <4>2, AskedBrings DEF Brings
      <4> QED  BY <3>3, <4>1, <4>3 DEF Param
    <3> QED  BY <2>2, <2>4, <3>2, <3>3
  <2>5. PlaceOf(at)' = PlaceOf(at)
        BY <2>1
  <2> QED  BY <2>1, <2>4, <2>5 DEF AnswersInv
<1> QED  BY <1>1, <1>2, <1>3, <1>4, WhoReads

\* A text is asked for first, and answered with one.
LEMMA PartNumber ==
    ASSUME at.profile = "ez"
    PROVE  Reads(at.profile, Query)[1] = "part_number"
<1>1. Reads(at.profile, Query) = EzReads(Query)
      BY DEF Reads
<1> DEFINE four == <<"part_number", "hardware_id", "firmware_id", "serial_number">>
           last == IF Query THEN <<"protocol">> ELSE <<>>
<1>2. EzReads(Query) = four \o last
      BY DEF EzReads
<1>3. four \in Seq(Parameter) /\ Len(four) = 4 /\ four[1] = "part_number"
      BY DEF Parameter
<1>4. last \in Seq(Parameter)
  <2>1. CASE Query
    <3>1. "protocol" \in Parameter
          BY DEF Parameter
    <3> QED  BY <2>1, <3>1
  <2>2. CASE ~Query
        BY <2>2
  <2> QED  BY <2>1, <2>2
<1> HIDE DEF four, last
<1>5. (four \o last)[1] = four[1]
      BY <1>3, <1>4
<1> QED  BY <1>1, <1>2, <1>3, <1>5

LEMMA GivenKept ==
    ASSUME Sound, GivenInv, AnswersInv, [Next]_vars
    PROVE  GivenInv'
<1>1. CASE got' = <<>> /\ ~(pc' = "write" /\ op'.kind = "change_protocol_mode")
      BY <1>1 DEF GivenInv
<1>2. CASE UNCHANGED <<got, at, wire, op, pc>>
      BY <1>2 DEF GivenInv, SkuSupports
<1>3. CASE Passed
  <2>1. ~NotAsked
        BY <1>3 DEF Passed, NotAsked
  <2>2. got # <<>>
        BY <1>3, <2>1, Completed DEF Passed, Sound
  <2> QED  BY <1>3, <2>2 DEF GivenInv, Passed, SkuSupports
<1>4. CASE Read
  <2>1. /\ at \in Spot /\ PlaceOf(at) \in Location /\ pc \in Reading
        /\ UNCHANGED <<at, pc, op, Query>> /\ pc # "write"
        BY <1>4, ReadGives DEF Reading
  <2>2. PICK e : /\ Asks(e, Param) /\ wire' = Exchanged(at.port, e)
                 /\ pc = "verify" /\ got = <<>> => e.reply # NONE
                 /\ \A i \in DOMAIN got' :
                       \/ i \in DOMAIN got /\ got'[i] = got[i]
                       \/ i = Len(got) + 1 /\ got'[i] = Kept(Param, e.reply)
        BY <1>4, ReadGives
  <2>3. wire'[at.port].gave <=> wire[at.port].gave \/ e.reply = NONE
        BY <2>1, <2>2, LineOf
  <2>4. ASSUME pc = "verify", ~wire'[at.port].gave, got' # <<>>  PROVE got'[1] # NONE
    <3>1. ~wire[at.port].gave /\ e.reply # NONE
          BY <2>3, <2>4
    <3>2. got \in Seq(Genuine \cup {NONE}) /\ got' \in Seq(Genuine \cup {NONE})
      <4>1. GotInv'
            BY GotKept DEF Sound
      <4> QED  BY <4>1 DEF Sound, TypesInv, GotInv
    <3>3. 1 \in DOMAIN got'
      <4> DEFINE S == Genuine \cup {NONE}
      <4>1. got' \in Seq(S) /\ got' # <<>>
            BY <2>4, <3>2
      <4> HIDE DEF S
      <4> QED  BY <4>1
    <3>4. CASE 1 \in DOMAIN got /\ got'[1] = got[1]
      <4>1. got # <<>>
            BY <3>4
      <4> QED  BY <2>4, <3>1, <3>4, <4>1 DEF GivenInv
    <3>5. CASE 1 = Len(got) + 1 /\ got'[1] = Kept(Param, e.reply)
      <4>1. wire[at.port].line = <<>>
            BY <2>1, <3>1 DEF Sound, TypesInv, WireInv, Spot
      <4>2. /\ e.reply = Answer(e.reply.who, PlaceOf(at), at.profile, Param)
            /\ e.reply \in Genuine
            BY <2>1, <2>2, <3>1, <4>1, AskedBrings DEF Brings
      <4>3. at.profile = "ez"
            BY <2>4, WhereItIs DEF Sound, TypesInv, AtInv
      <4>4. Param = "part_number"
            BY <2>1, <3>5, <4>3, PartNumber DEF Param
      <4>5. e.reply.to = PlaceOf(at)
            BY <4>2 DEF Answer
      <4>6. e.reply.param \in Text
        <5>1. CASE at.proto = "mod"
              BY <4>2, <4>4, <5>1 DEF Answer, PlaceOf, Text
        <5>2. CASE at.proto = "std"
          <6>1. Make[e.reply.who].family = "ez"
                BY <4>2, <4>5, <5>2 DEF Genuine, PlaceOf
          <6> QED  BY <4>2, <4>3, <4>4, <5>2, <6>1 DEF Answer, PlaceOf, Text
        <5> QED  BY <2>1, <5>1, <5>2 DEF Spot, Proto
      <4> QED  BY <3>1, <3>5, <4>4, <4>6 DEF Kept, Text
    <3> QED  BY <2>2, <3>3, <3>4, <3>5
  <2> QED  BY <2>1, <2>4 DEF GivenInv
<1>5. ASSUME got' = <<>>, pc' = "write"  PROVE op'.kind # "change_protocol_mode"
  <2>1. CASE OpenedForChange
        BY <1>5, <2>1 DEF OpenedForChange, Step
  <2>2. CASE Gate
    <3>1. ~Failed
          BY <1>5, FailsDoes DEF Failed
    <3>2. ~NotAsked /\ Done
          BY <2>2 DEF Gate, NotAsked
    <3>3. UNCHANGED got
          BY <2>2, <3>1, WhatFails DEF Gate, Next, MaintenanceNext
    <3> QED  BY <1>5, <3>2, <3>3, Completed DEF Sound
  <2>3. CASE UNCHANGED <<op, pc, got>>
        BY <1>5, <2>3 DEF GivenInv
  <2>4. OpenedForChange \/ Gate \/ UNCHANGED <<op, pc, got>>
    <3>1. CASE Next /\ OpenNext
      <4>1. CASE \E p \in Port : CallClose(p)
            BY <4>1 DEF CallClose, callVars
      <4>2. CASE Read
            BY <1>5, <4>2 DEF Read, Step, Asking, Reading
      <4>3. CASE Open \/ TryStdbus \/ TryModbus \/ SkipStdbus \/ Probed
            BY <1>5, <4>3 DEF Open, TryStdbus, TryModbus, SkipStdbus, Probed, NotStdbus,
                              Step
      <4>4. CASE OpenFails \/ SkipModbus \/ StrictRead \/ BadAddress
            BY <1>5, <3>1, <4>4, WhatFails, FailedIsOver DEF Over
      <4>5. CASE ProbeFails
            BY <1>5, <3>1, <4>5, WhatFails, FailedIsOver DEF Over, NotStdbus, Step
      <4>6. CASE OpenReturns \/ IdentifyReturns
            BY <1>5, <4>6 DEF OpenReturns, IdentifyReturns, Returns, Ends
      <4>7. CASE Cancel
            BY <1>5, <4>7 DEF Cancel, Fails, Ends
      <4> QED  BY <3>1, <4>1, <4>2, <4>3, <4>4, <4>5, <4>6, <4>7 DEF OpenNext
    <3>2. CASE MaintenanceNext
          BY <1>5, <3>2 DEF MaintenanceNext, Write, Reopen, Verified, Ends
    <3>3. CASE ScanNext
      <4>1. CASE Prune \/ DeadPort
            BY <4>1 DEF Prune, DeadPort
      <4>2. CASE NextCombo \/ OpenCombo
            BY <1>5, <4>2 DEF NextCombo, OpenCombo, Step
      <4>3. CASE ScanEnds \/ ComboFails
            BY <1>5, <4>3 DEF ScanEnds, ComboFails, Fails, Ends
      <4>4. CASE SkipAddress \/ ProbeEnds \/ Expires
            BY <1>5, <4>4 DEF SkipAddress, ProbeEnds, Expires, RowDone
      <4> QED  BY <3>3, <4>1, <4>2, <4>3, <4>4 DEF ScanNext
    <3>4. ASSUME NEW o \in Calls, Call(o)  PROVE pc' # "write" \/ UNCHANGED <<op, pc, got>>
          BY <3>4 DEF Call, CallOpen, CallIdentify, CallMaintenance, Refuse, CallScan,
                      FirstOpen
    <3>5. CASE UNCHANGED vars \/ Environment
          BY <3>5 DEF vars, Environment, callVars
    <3> QED  BY <1>5, <3>1, <3>2, <3>3, <3>4, <3>5 DEF Next
  <2> QED  BY <2>1, <2>2, <2>3, <2>4
<1> QED  BY <1>1, <1>2, <1>3, <1>4, <1>5, WhoReads

-----------------------------------------------------------------------------
(***************************************************************************)
(* Maintenance                                                             *)
(***************************************************************************)

\* How a call that is still under way got there: it began, wrote, reopened its
\* device, or went on over the same transport or to another.
WentOn ==
    /\ UNCHANGED <<op, phase, told, eeprom>>
    /\ pc' = "sleep" => pc = "sleep"
    /\ at' = at \/ pc \in {"open_std", "probe_std", "next", "probe"}
Began ==
    \E o \in Calls : /\ op' = o /\ phase' = "change" /\ told' = {} /\ op = NONE
                     /\ pc' \in {"open_std", "open", "again", "next"}
Wrote == Write /\ UNCHANGED <<op, phase, at>> /\ pc' = "sleep"

LEMMA WhoGoesOn ==
    ASSUME Sound, [Next]_vars, op' # NONE
    PROVE  WentOn \/ Began \/ Wrote \/ Reopen
<1>0. ~Over /\ ~Failed
      BY FailedIsOver DEF Over
<1>1. CASE Next /\ OpenNext
  <2>1. CASE \E p \in Port : CallClose(p)
        BY <2>1 DEF CallClose, callVars, WentOn
  <2>2. CASE Open \/ TryStdbus \/ TryModbus \/ SkipStdbus \/ Probed \/ Read
        BY <2>2 DEF Open, TryStdbus, TryModbus, SkipStdbus, Probed, NotStdbus, Read,
                    Step, WentOn, Asking, Reading
  <2>3. CASE OpenFails \/ SkipModbus \/ StrictRead \/ BadAddress
        BY <1>0, <1>1, <2>3, WhatFails
  <2>4. CASE ProbeFails
    <3>1. pc = "probe_std" /\ NotStdbus(Freed(at.port))
          BY <1>0, <2>4, WhatFails DEF ProbeFails, Failed, Ways
    <3> QED  BY <3>1 DEF NotStdbus, Step, WentOn
  <2>5. CASE OpenReturns \/ IdentifyReturns
        BY <1>0, <2>5, EndsAreOver DEF OpenReturns, IdentifyReturns, Returns
  <2>6. CASE Cancel
        BY <1>0, <1>1, <2>6, WhatFails, EndsAreOver DEF Cancel
  <2> QED  BY <1>1, <2>1, <2>2, <2>3, <2>4, <2>5, <2>6 DEF OpenNext
<1>2. CASE Next /\ MaintenanceNext
  <2>1. CASE OpenedForChange
        BY <2>1 DEF OpenedForChange, Step, WentOn
  <2>2. CASE Gate
        BY <1>0, <1>2, <2>2, WhatFails DEF Step, WentOn
  <2>3. CASE Write
    <3>1. pc' = "sleep" /\ UNCHANGED <<op, phase, at>>
          BY <2>3 DEF Write
    <3> QED  BY <2>3, <3>1 DEF Wrote
  <2>4. CASE Verified
        BY <1>0, <2>4, EndsAreOver DEF Verified
  <2> QED  BY <1>2, <2>1, <2>2, <2>3, <2>4 DEF MaintenanceNext
<1>3. CASE Next /\ ScanNext
  <2>1. CASE Prune \/ DeadPort
        BY <2>1 DEF Prune, DeadPort, WentOn
  <2>2. CASE NextCombo \/ OpenCombo
        BY <2>2 DEF NextCombo, Planned, OpenCombo, Step, WentOn
  <2>3. CASE ScanEnds
        BY <1>0, <2>3, EndsAreOver DEF ScanEnds
  <2>4. CASE ComboFails
        BY <1>0, <2>4 DEF ComboFails, Failed, Ways, WentOn
  <2>5. CASE SkipAddress \/ ProbeEnds \/ Expires
        BY <2>5 DEF SkipAddress, ProbeEnds, Expires, RowDone, WentOn
  <2> QED  BY <1>3, <2>1, <2>2, <2>3, <2>4, <2>5 DEF ScanNext
<1>4. ASSUME NEW o \in Calls, Call(o)  PROVE WentOn \/ Began
  <2>1. CASE Refuse(o)
        BY <2>1 DEF Refuse
  <2>2. CASE ~Refuse(o)
    <3>1. /\ op' = o /\ phase' = "change" /\ told' = {} /\ op = NONE
          BY <1>4, <2>2 DEF Call, CallOpen, CallIdentify, CallMaintenance, CallScan, Begin
    <3>2. pc' \in {"open_std", "open", "again", "next"}
          BY <1>4, <2>2 DEF Call, CallOpen, CallIdentify, CallMaintenance, CallScan,
                            FirstOpen
    <3> QED  BY <3>1, <3>2 DEF Began
  <2> QED  BY <2>1, <2>2
<1>5. CASE UNCHANGED vars \/ Environment
      BY <1>5 DEF vars, Environment, TakesEffect, callVars, WentOn
<1> QED  BY <1>1, <1>2, <1>3, <1>4, <1>5 DEF Next

\* Only an echo of a device the write reached acknowledges it.
LEMMA WriteStores ==
    ASSUME Sound, Write
    PROVE  /\ at \in Spot /\ op \in Calls /\ op.kind \in Maintenance
           /\ \E reached \in SUBSET {d \in Hearing(at.port, PlaceOf(at)) :
                                       Make[d].family = "ez"} :
                /\ Store(reached)
                /\ pc' = "sleep" => reached # {}
                /\ \A d \in reached : d \in Device /\ eeprom'[d][Field(op)] = op.target
<1>1. pc = "write" /\ at \in Spot
      BY DEF Write, Sound, TypesInv, AtInv
<1>2. op \in Calls /\ op.kind \in Maintenance /\ TargetOk(op)
      BY <1>1, WhereItIs DEF Sound, TypesInv, CallInv
<1>3. PICK reached \in SUBSET {d \in Hearing(at.port, PlaceOf(at)) :
                                 Make[d].family = "ez"} :
         \E e \in UNION {Outcomes(at.port, at.proto, s) :
                           s \in {<<>>} \cup {<<Echo(d, PlaceOf(at))>> : d \in reached}} :
           /\ Store(reached)
           /\ pc' = "sleep" => Acknowledged(e)
      BY DEF Write
<1>4. at.port \in Port
      BY <1>1 DEF Spot
<1>5. ASSUME reached = {}  PROVE pc' # "sleep"
  <2>0. PICK e \in Outcomes(at.port, at.proto, <<>>) : pc' = "sleep" => Acknowledged(e)
        BY <1>3, <1>5
  <2>2. /\ wire[at.port].line \in Seq(Genuine)
        /\ Len(wire[at.port].line) <= MaxLine
        BY <1>4 DEF Sound, TypesInv, WireInv, Handle
  <2>3. <<>> \in Seq(Genuine) /\ Len(<<>>) <= 1
        OBVIOUS
  <2>4. e.reply \in Genuine \cup {NONE}
        BY <1>4, <2>2, <2>3, OutcomesOf
  <2> QED  BY <2>0, <2>4 DEF Acknowledged, Genuine, Parameter
<1>6. ASSUME NEW d \in reached
      PROVE  d \in Device /\ eeprom'[d][Field(op)] = op.target
  <2>1. d \in Device
        BY <1>3 DEF Hearing
  <2>2. eeprom[d] \in Setting
        BY <2>1 DEF Sound, TypesInv, DevicesInv
  <2>3. eeprom'[d] = [eeprom[d] EXCEPT ![Field(op)] = op.target]
        BY <1>3, <2>1 DEF Store
  <2> QED  BY <1>2, <2>1, <2>2, <2>3, StoredSetting
<1> QED  BY <1>1, <1>2, <1>3, <1>5, <1>6

LEMMA ToldKept ==
    ASSUME Sound, ToldInv, [Next]_vars
    PROVE  ToldInv'
<1>1. CASE op' = NONE
      BY <1>1 DEF ToldInv
<1>2. CASE op' # NONE
  <2>1. CASE WentOn
    <3>1. pc = "sleep" => pc' = "sleep" \/ phase' = "verify" \/ UNCHANGED <<pc>>
      <4>1. ASSUME pc = "sleep"  PROVE UNCHANGED pc \/ Reopen
        <5>1. \A o \in Calls : ~Call(o)
              BY <1>2, <4>1 DEF Sound, TypesInv, CallInv, Call, CallOpen, CallIdentify,
                                CallMaintenance, Refuse, CallScan, Begin
        <5>2. CASE OpenNext
          <6>1. \A p \in Port : ~CallClose(p)
                BY <4>1 DEF Sound, TypesInv, CallInv, CallClose
          <6>2. ~Done /\ ~Asking
                BY <4>1 DEF Done, Asking, Reading
          <6>3. ~Cancel
                BY <1>2, <4>1 DEF Cancel, Fails, Ends
          <6> QED  BY <4>1, <5>2, <6>1, <6>2, <6>3
                   DEF OpenNext, Open, OpenFails, TryStdbus, SkipStdbus, TryModbus,
                       SkipModbus, Probed, ProbeFails, Read, StrictRead, BadAddress,
                       OpenReturns, IdentifyReturns
        <5>3. CASE MaintenanceNext
              BY <4>1, <5>3 DEF MaintenanceNext, OpenedForChange, Gate, Write, Verified
        <5>4. CASE ScanNext
              BY <4>1, <5>4 DEF ScanNext, Prune, NextCombo, DeadPort, ScanEnds, OpenCombo,
                                ComboFails, SkipAddress, ProbeEnds, Expires, Planned
        <5>5. CASE UNCHANGED vars \/ Environment
              BY <5>5 DEF vars, Environment, callVars
        <5> QED  BY <5>1, <5>2, <5>3, <5>4, <5>5 DEF Next
      <4> QED  BY <4>1 DEF Reopen
    <3>2. (phase' = "verify" \/ pc' = "sleep") <=> (phase = "verify" \/ pc = "sleep")
          BY <2>1, <3>1 DEF WentOn
    <3> QED  BY <1>2, <2>1, <3>2 DEF WentOn, ToldInv, Field
  <2>2. CASE Began
        BY <2>2 DEF Began, ToldInv
  <2>3. CASE Wrote
    <3>1. Write /\ UNCHANGED <<op, phase>> /\ pc' = "sleep"
          BY <2>3 DEF Wrote
    <3>2. PICK reached \in SUBSET {d \in Hearing(at.port, PlaceOf(at)) :
                                     Make[d].family = "ez"} :
             /\ Store(reached) /\ reached # {}
             /\ \A d \in reached : d \in Device /\ eeprom'[d][Field(op)] = op.target
          BY <3>1, WriteStores
    <3>3. PICK d \in reached : TRUE
          BY <3>2
    <3>4. \E t \in told' : t.who = d
      <4> DEFINE entry(x) ==
            [who |-> x, gave |-> wire[at.port].gave,
             alone |-> /\ Hearing(at.port, PlaceOf(at)) = {x}
                       /\ \A i \in DOMAIN got : got[i] # NONE => got[i].who = x]
      <4>1. told' = {entry(x) : x \in reached}
            BY <3>2 DEF Store
      <4>2. entry(d).who = d
            OBVIOUS
      <4> HIDE DEF entry
      <4> QED  BY <3>3, <4>1, <4>2
    <3>5. PICK t \in told' : t.who = d
          BY <3>4
    <3>6. eeprom'[t.who][Field(op)] = op.target
          BY <3>2, <3>3, <3>5
    <3> QED  BY <3>1, <3>5, <3>6 DEF ToldInv, Field
  <2>4. CASE Reopen
        BY <1>2, <2>4 DEF Reopen, ToldInv, Field
  <2> QED  BY <1>2, <2>1, <2>2, <2>3, <2>4, WhoGoesOn
<1> QED  BY <1>1, <1>2

LEMMA VerifyKept ==
    ASSUME Sound, VerifyInv, [Next]_vars
    PROVE  VerifyInv'
<1>1. CASE op' = NONE
      BY <1>1, CallKept DEF Sound, CallAtInv, CallInv, VerifyInv
<1>2. CASE op' # NONE
  <2>1. CASE WentOn
    <3>1. phase = "verify" => at' = at /\ op' = op
          BY <2>1 DEF WentOn, Sound, TypesInv, CallInv
    <3> QED  BY <2>1, <3>1 DEF WentOn, VerifyInv
  <2>2. CASE Began
        BY <2>2 DEF Began, VerifyInv
  <2>3. CASE Wrote
        BY <2>3 DEF Wrote, VerifyInv
  <2>4. CASE Reopen
        BY <2>4 DEF Reopen, VerifyInv
  <2> QED  BY <1>2, <2>1, <2>2, <2>3, <2>4, WhoGoesOn
<1> QED  BY <1>1, <1>2

LEMMA NothingHere ==
    ASSUME got' = <<>>, wire'[at'.port].line = <<>>
    PROVE  HereInv'
BY DEF HereInv

LEMMA HereKept ==
    ASSUME Sound, HereInv, [Next]_vars
    PROVE  HereInv'
<1> SUFFICES ASSUME op' # NONE, op'.kind \in Maintenance, Working'
             PROVE  HereInv'
    BY DEF HereInv
<1>0. /\ wire \in [Port -> Handle]
      /\ pc \notin {"idle", "next"} => at.port \in Port
      /\ got # <<>> => pc \in Reading \cup {"write"}
      /\ pc = "idle" <=> op = NONE
      BY DEF Sound, TypesInv, WireInv, AtInv, GotInv, CallInv, Spot
<1>1. op = op' => pc \notin {"next", "open_combo", "probe", "again"}
      BY WhereItIs DEF Sound, TypesInv, Maintenance
<1>2. CASE UNCHANGED <<wire, at, op>> /\ Working /\ got' \in {got, <<>>}
      BY <1>2 DEF HereInv
<1>3. CASE wire' = Taken(at.port) /\ at' = at /\ got' = <<>> /\ at.port \in Port
  <2>1. wire'[at.port].line = <<>>
        BY <1>0, <1>3 DEF Taken
  <2> QED  BY <1>3, <2>1, NothingHere
<1>4. CASE Read
  <2>1. /\ at \in Spot /\ PlaceOf(at) \in Location /\ pc \in Reading
        /\ UNCHANGED <<at, pc, op>> /\ Working
        BY <1>4, ReadGives DEF Working
  <2>2. PICK e : /\ Asks(e, Param) /\ wire' = Exchanged(at.port, e)
                 /\ \A i \in DOMAIN got' :
                       \/ i \in DOMAIN got /\ got'[i] = got[i]
                       \/ i = Len(got) + 1 /\ got'[i] = Kept(Param, e.reply)
        BY <1>4, ReadGives
  <2>3. /\ wire[at.port].line \in Seq(Here(PlaceOf(at)))
        /\ \A i \in DOMAIN got : got[i] # NONE => got[i].to = PlaceOf(at)
        BY <2>1 DEF HereInv
  <2>4. /\ e.line \in Seq(Here(PlaceOf(at)))
        /\ e.reply \in Here(PlaceOf(at)) \cup {NONE}
        BY <2>1, <2>2, <2>3, AskedBrings
  <2>5. wire'[at.port].line = e.line
        BY <2>1, <2>2, LineOf
  <2>6. ASSUME NEW i \in DOMAIN got', got'[i] # NONE  PROVE got'[i].to = PlaceOf(at)
        BY <2>2, <2>3, <2>4, <2>6, KeptIs DEF Here
  <2>7. PlaceOf(at)' = PlaceOf(at) /\ at'.port = at.port
        BY <2>1
  <2> QED  BY <2>4, <2>5, <2>6, <2>7 DEF HereInv
<1>5. CASE Probed
  <2>1. /\ pc \in {"probe_std", "probe_mod"} /\ UNCHANGED <<at, op, got>> /\ got = <<>>
        BY <1>0, <1>5 DEF Probed, Step, Reading
  <2>2. Exchanges /\ Working
        BY <1>5, <2>1 DEF Probed, Exchanges, Working, NoTransport
  <2>3. PICK e, param : Asks(e, param) /\ wire' = Exchanged(at.port, e)
        BY <2>2, ExchangesAsk
  <2>4. at \in Spot /\ PlaceOf(at) \in Location
        BY <2>2, ExchangesAsk
  <2>5. e.line \in Seq(Here(PlaceOf(at))) /\ wire'[at.port].line = e.line
    <3>1. wire[at.port].line \in Seq(Here(PlaceOf(at)))
          BY <2>1, <2>2 DEF HereInv
    <3> QED  BY <2>3, <2>4, <3>1, AskedBrings, LineOf
  <2>6. PlaceOf(at)' = PlaceOf(at) /\ at'.port = at.port
        BY <2>1
  <2> QED  BY <2>1, <2>5, <2>6 DEF HereInv
<1>6. CASE Next /\ OpenNext
  <2>0. ~Over /\ ~Failed
        BY FailedIsOver DEF Over
  <2>1. ASSUME NEW p \in Port  PROVE ~CallClose(p)
        BY DEF CallClose, callVars
  <2>2. CASE Open \/ TryStdbus \/ TryModbus
    <3>1. /\ wire' = Taken(at.port) /\ at' = at /\ got' = got
          /\ pc \in {"open", "open_std", "open_mod"}
          BY <2>2 DEF Open, TryStdbus, TryModbus, Opens
    <3> QED  BY <1>0, <1>3, <3>1 DEF Reading
  <2>3. CASE OpenFails \/ SkipModbus \/ StrictRead \/ BadAddress
        BY <1>6, <2>0, <2>3, WhatFails
  <2>4. CASE SkipStdbus \/ ProbeFails
    <3>1. \E w : NotStdbus(w)
          BY <1>6, <2>0, <2>4, WhatFails DEF SkipStdbus
    <3> QED  BY <3>1 DEF NotStdbus, Step, Working, NoTransport
  <2>5. CASE OpenReturns \/ IdentifyReturns
        BY <2>0, <2>5, EndsAreOver DEF OpenReturns, IdentifyReturns, Returns
  <2>6. CASE Cancel
        BY <1>6, <2>0, <2>6, WhatFails, EndsAreOver DEF Cancel
  <2> QED  BY <1>4, <1>5, <1>6, <2>1, <2>2, <2>3, <2>4, <2>5, <2>6 DEF OpenNext
<1>7. CASE Next /\ MaintenanceNext
  <2>0. ~Over /\ ~Failed
        BY FailedIsOver DEF Over
  <2>1. CASE OpenedForChange
        BY <1>2, <2>1 DEF OpenedForChange, Step, Working, NoTransport
  <2>2. CASE Gate
    <3>1. UNCHANGED <<wire, at, op, got>> /\ pc = "gate"
          BY <1>7, <2>0, <2>2, WhatFails DEF Gate, Step
    <3> QED  BY <1>2, <3>1 DEF Working, NoTransport
  <2>3. CASE Write
        BY <2>3 DEF Write, Working, NoTransport
  <2>4. CASE Reopen
        BY <2>4 DEF Reopen, Working, NoTransport
  <2>5. CASE Verified
        BY <2>0, <2>5, EndsAreOver DEF Verified
  <2> QED  BY <1>7, <2>1, <2>2, <2>3, <2>4, <2>5 DEF MaintenanceNext
<1>8. CASE Next /\ ScanNext
  <2>0. pc \in {"next", "open_combo", "probe"}
        BY <1>8 DEF ScanNext, Prune, NextCombo, DeadPort, ScanEnds, OpenCombo, ComboFails,
                    SkipAddress, ProbeEnds, Expires, Planned
  <2>1. op' \in {op, NONE}
        BY <1>8 DEF ScanNext, Prune, NextCombo, DeadPort, ScanEnds, OpenCombo, ComboFails,
                    SkipAddress, ProbeEnds, Expires, Step, RowDone, Fails, Ends
  <2> QED  BY <1>1, <2>0, <2>1
<1>9. ASSUME NEW o \in Calls, Call(o)  PROVE ~Working'
  <2>1. CASE Refuse(o)
        BY <2>1 DEF Refuse
  <2>2. CASE CallIdentify(o) \/ CallScan(o) \/ CallOpen(o) \/ CallMaintenance(o)
    <3>1. pc' \in {"open_std", "open", "again", "next"}
          BY <2>2 DEF CallOpen, CallIdentify, CallMaintenance, CallScan, FirstOpen
    <3> QED  BY <3>1 DEF Working, NoTransport
  <2> QED  BY <1>9, <2>1, <2>2 DEF Call
<1>10. CASE UNCHANGED vars \/ Environment
  <2>1. UNCHANGED <<wire, at, op, got, pc>>
        BY <1>10 DEF vars, Environment, TakesEffect, callVars
  <2> QED  BY <1>2, <2>1 DEF Working
<1> QED  BY <1>6, <1>7, <1>8, <1>9, <1>10 DEF Next

LEMMA AgainKept ==
    ASSUME Sound, AgainInv, [Next]_vars
    PROVE  AgainInv'
<1> SUFFICES ASSUME pc' = "again"  PROVE session'[at'.port].at = at'
    BY DEF AgainInv
<1>1. CASE UNCHANGED <<at, pc, session>>
      BY <1>1 DEF AgainInv
<1>2. ~Over /\ ~Failed
      BY FailedIsOver DEF Over
<1>3. CASE Next /\ OpenNext
  <2>1. ASSUME NEW p \in Port  PROVE ~CallClose(p)
    <3> SUFFICES ASSUME CallClose(p)  PROVE FALSE
        OBVIOUS
    <3>1. op = NONE /\ pc = "again"
          BY DEF CallClose, callVars
    <3> QED  BY <3>1 DEF Sound, TypesInv, CallInv
  <2>2. CASE Open \/ TryStdbus \/ TryModbus \/ SkipStdbus \/ Probed
        BY <2>2 DEF Open, TryStdbus, TryModbus, SkipStdbus, Probed, NotStdbus, Step
  <2>3. CASE OpenFails \/ SkipModbus \/ StrictRead \/ BadAddress
        BY <1>2, <1>3, <2>3, WhatFails
  <2>4. CASE ProbeFails
        BY <1>2, <1>3, <2>4, WhatFails DEF NotStdbus, Step
  <2>5. CASE Read
        BY <1>1, <2>5 DEF Read, Step
  <2>6. CASE OpenReturns \/ IdentifyReturns
        BY <1>2, <2>6, EndsAreOver DEF OpenReturns, IdentifyReturns, Returns
  <2>7. CASE Cancel
        BY <1>2, <1>3, <2>7, WhatFails, EndsAreOver DEF Cancel
  <2> QED  BY <1>3, <2>1, <2>2, <2>3, <2>4, <2>5, <2>6, <2>7 DEF OpenNext
<1>4. CASE MaintenanceNext
  <2>1. CASE Gate
        BY <2>1 DEF Gate, Step, Fails, Ends
  <2>2. CASE OpenedForChange \/ Write \/ Reopen \/ Verified
        BY <2>2 DEF OpenedForChange, Write, Reopen, Verified, Step, Ends
  <2> QED  BY <1>4, <2>1, <2>2 DEF MaintenanceNext
<1>5. CASE ScanNext
  <2>1. CASE Prune \/ DeadPort \/ NextCombo \/ OpenCombo
        BY <2>1 DEF Prune, DeadPort, NextCombo, OpenCombo, Planned, Step
  <2>2. CASE ScanEnds \/ ComboFails
        BY <2>2 DEF ScanEnds, ComboFails, Fails, Ends
  <2>3. CASE SkipAddress \/ ProbeEnds \/ Expires
        BY <2>3 DEF SkipAddress, ProbeEnds, Expires, RowDone
  <2> QED  BY <1>5, <2>1, <2>2, <2>3 DEF ScanNext
<1>6. ASSUME NEW o \in Calls, Call(o)  PROVE session'[at'.port].at = at'
  <2>1. CASE CallIdentify(o)
    <3>1. /\ session[o.port] # NoSession /\ at' = session[o.port].at /\ session' = session
          /\ o.kind = "identify"
          BY <2>1 DEF CallIdentify, Begin
    <3>2. o.port \in Port
          BY <3>1, CallPort
    <3>3. session[o.port].at.port = o.port
          BY <3>1, <3>2 DEF Sound, HInv, Shape
    <3> QED  BY <3>1, <3>3
  <2>2. CASE Refuse(o)
        BY <1>1, <2>2 DEF Refuse
  <2>3. CASE CallOpen(o) \/ CallMaintenance(o) \/ CallScan(o)
        BY <2>3 DEF CallOpen, CallMaintenance, CallScan, FirstOpen
  <2> QED  BY <1>6, <2>1, <2>2, <2>3 DEF Call
<1>7. CASE UNCHANGED vars \/ Environment
      BY <1>1, <1>7 DEF vars, Environment, callVars
<1> QED  BY <1>3, <1>4, <1>5, <1>6, <1>7 DEF Next

-----------------------------------------------------------------------------
LEMMA InitTruth ==
    ASSUME Init
    PROVE  TruthInv
<1>1. \A p \in Port : wire[p].line = <<>>
      BY DEF Init, SegmentInit
<1>2. op = NONE /\ pc = "idle" /\ phase = "change" /\ at = Nowhere /\ got = <<>>
      BY DEF Init
<1>3. LinesInv
  <2>1. <<>> \in Seq(Spoken)
        OBVIOUS
  <2> QED  BY <1>1, <2>1 DEF LinesInv
<1>4. SpokenInv /\ AnswersInv /\ HereInv /\ GivenInv /\ ToldInv /\ VerifyInv
      /\ AgainInv
      BY <1>2 DEF SpokenInv, AnswersInv, HereInv, GivenInv, ToldInv, VerifyInv, AgainInv
<1> QED  BY <1>3, <1>4 DEF TruthInv

LEMMA TruthAlways == Spec => [](Sound /\ TruthInv)
<1>1. Init => TruthInv
      BY InitTruth
<1>2. Sound /\ TruthInv /\ [Next]_vars => TruthInv'
      BY LinesKept, SpokenKept, AnswersKept, HereKept, GivenKept, ToldKept, VerifyKept,
         AgainKept DEF TruthInv
<1>3. Spec => []Sound
      BY SoundAlways
<1> QED  BY <1>1, <1>2, <1>3, PTL DEF Spec

-----------------------------------------------------------------------------
(***************************************************************************)
(* Maintenance: the return, the refusal and the gate                       *)
(***************************************************************************)

\* How the record of a call that ends comes about.
EndsOf(how) ==
    \/ how # "ok" /\ (how = "refused" => told' = {})
    \/ op # NONE /\ op.kind \notin Maintenance
    \/ Verified

LEMMA HowCallsEnd ==
    ASSUME Sound, TruthInv, [Next]_vars, op' = NONE
    PROVE  \/ UNCHANGED <<op, result, told, eeprom>>
           \/ EndsOf(result'.how) /\ result'.op = op
           \/ op = NONE /\ result'.how = "refused" /\ told' = {}
<1>0. Failed => EndsOf(result'.how) /\ result'.op = op
  <2> SUFFICES ASSUME Failed  PROVE EndsOf(result'.how) /\ result'.op = op
      OBVIOUS
  <2>1. PICK how \in Ways \ {"ok"} : Fails(how) /\ (how = "refused" => pc = "gate")
        BY DEF Failed
  <2>2. result'.how = how /\ result'.op = op /\ told' = told
        BY <2>1, FailsDoes
  <2>3. pc = "gate" => told = {}
        BY DEF TruthInv, ToldInv, Sound, TypesInv, CallInv
  <2> QED  BY <2>1, <2>2, <2>3 DEF EndsOf
<1>1. CASE Next /\ OpenNext
  <2>1. CASE \E p \in Port : CallClose(p)
        BY <2>1 DEF CallClose, callVars
  <2>2. CASE Open \/ TryStdbus \/ TryModbus \/ SkipStdbus \/ Probed \/ Read
    <3>1. UNCHANGED op /\ pc \notin {"idle"}
          BY <2>2 DEF Open, TryStdbus, TryModbus, SkipStdbus, Probed, NotStdbus, Read,
                      Step, Asking, Reading
    <3> QED  BY <3>1 DEF Sound, TypesInv, CallInv
  <2>3. CASE OpenFails \/ SkipModbus \/ StrictRead \/ BadAddress
        BY <1>0, <1>1, <2>3, WhatFails
  <2>4. CASE ProbeFails
    <3>1. Failed \/ (UNCHANGED op /\ pc # "idle")
          BY <1>1, <2>4, WhatFails DEF ProbeFails, NotStdbus, Step
    <3> QED  BY <1>0, <3>1 DEF Sound, TypesInv, CallInv
  <2>5. CASE OpenReturns
    <3>1. op.kind = "open_device" /\ Ends("ok", got) /\ pc = "identify"
          BY <2>5 DEF OpenReturns, Returns
    <3> QED  BY <3>1, EndsAreOver DEF EndsOf, Maintenance, Sound, TypesInv, CallInv
  <2>6. CASE IdentifyReturns
    <3>1. pc = "again" /\ Ends("ok", got)
          BY <2>6 DEF IdentifyReturns, Returns
    <3>2. op.kind = "identify" /\ op # NONE
          BY <3>1, WhereItIs DEF Sound, TypesInv
    <3> QED  BY <3>1, <3>2, EndsAreOver DEF EndsOf, Maintenance
  <2>7. CASE Cancel
    <3>1. CASE pc = "again"
          BY <2>7, <3>1, EndsAreOver DEF Cancel, EndsOf
    <3> QED  BY <1>0, <1>1, <2>7, <3>1, WhatFails
  <2> QED  BY <1>1, <2>1, <2>2, <2>3, <2>4, <2>5, <2>6, <2>7 DEF OpenNext
<1>2. CASE Next /\ MaintenanceNext
  <2>1. CASE OpenedForChange \/ Reopen
    <3>1. UNCHANGED op /\ pc # "idle"
          BY <2>1 DEF OpenedForChange, Reopen, Step
    <3> QED  BY <3>1 DEF Sound, TypesInv, CallInv
  <2>2. CASE Gate
    <3>1. Failed \/ (UNCHANGED op /\ pc # "idle")
          BY <1>2, <2>2, WhatFails DEF Gate, Step
    <3> QED  BY <1>0, <3>1 DEF Sound, TypesInv, CallInv
  <2>3. CASE Write
    <3>1. \/ UNCHANGED op /\ pc # "idle"
          \/ result' = [NoResult EXCEPT !.op = op, !.how = "error"]
          BY <2>3 DEF Write
    <3> QED  BY <3>1 DEF Sound, TypesInv, CallInv, EndsOf, NoResult
  <2>4. CASE Verified
        BY <2>4, EndsAreOver DEF Verified, EndsOf
  <2> QED  BY <1>2, <2>1, <2>2, <2>3, <2>4 DEF MaintenanceNext
<1>3. CASE Next /\ ScanNext
  <2>0. /\ pc \in {"next", "open_combo", "probe"}
        /\ op # NONE /\ op.kind \notin Maintenance
    <3>1. pc \in {"next", "open_combo", "probe"}
          BY <1>3 DEF ScanNext, Prune, NextCombo, DeadPort, ScanEnds, OpenCombo,
                      ComboFails, SkipAddress, ProbeEnds, Expires, Planned
    <3> QED  BY <3>1, WhereItIs DEF Sound, TypesInv, Maintenance
  <2>1. UNCHANGED op \/ result'.op = op
    <3>1. CASE Prune \/ DeadPort \/ NextCombo \/ OpenCombo
          BY <3>1 DEF Prune, DeadPort, NextCombo, OpenCombo, Step
    <3>2. CASE ScanEnds
          BY <3>2, EndsAreOver DEF ScanEnds
    <3>3. CASE ComboFails
          BY <3>3, FailsDoes DEF ComboFails
    <3>4. CASE SkipAddress \/ ProbeEnds \/ Expires
          BY <3>4 DEF SkipAddress, ProbeEnds, Expires, RowDone
    <3> QED  BY <1>3, <3>1, <3>2, <3>3, <3>4 DEF ScanNext
  <2> QED  BY <2>0, <2>1 DEF EndsOf
<1>4. ASSUME NEW o \in Calls, Call(o)
      PROVE  op = NONE /\ result'.how = "refused" /\ told' = {}
  <2>1. CASE Refuse(o)
        BY <2>1 DEF Refuse, NoResult
  <2>2. CASE ~Refuse(o)
    <3>1. op' = o
          BY <1>4, <2>2 DEF Call, CallOpen, CallIdentify, CallMaintenance, CallScan, Begin
    <3> QED  BY <3>1, OpeningAssumption
  <2> QED  BY <2>1, <2>2
<1>5. CASE UNCHANGED vars \/ Environment
      BY <1>5 DEF vars, Environment, TakesEffect, callVars
<1> QED  BY <1>1, <1>2, <1>3, <1>4, <1>5 DEF Next

\* A maintenance helper that returns has stored its setting in a device and, if
\* nothing timed out, has heard one where a device so set answers; one that
\* refuses has stored nothing (maintenance.py:504-528).
THEOREM WhatIsVerified == Spec => []VerifiedIsTrue
<1>1. Init => VerifiedIsTrue
      BY DEF Init, NoResult, VerifiedIsTrue
<1>2. ASSUME Sound, TruthInv, VerifiedIsTrue, [Next]_vars  PROVE VerifiedIsTrue'
  <2> SUFFICES ASSUME op' = NONE, result'.op # NONE, result'.op.kind \in Maintenance
               PROVE  VerifiedIsTrue'
      BY DEF VerifiedIsTrue
  <2>1. CASE UNCHANGED <<op, result, told, eeprom>>
        BY <1>2, <2>1 DEF VerifiedIsTrue, Field, NewPlace, NewBaud, NewModbusAddress,
                          NewStdbusAddress, NewProtocol
  <2>2. CASE result'.how # "ok" /\ (result'.how = "refused" => told' = {})
        BY <2>2 DEF VerifiedIsTrue
  <2>3. CASE Verified /\ result'.op = op
    <3>1. /\ Done /\ pc = "verify" /\ UNCHANGED <<told, eeprom>>
          /\ result' = [op |-> op, how |-> "ok",
                        late |-> at # Nowhere /\ wire[at.port].gave,
                        to |-> {got[i].to : i \in {j \in DOMAIN got : got[j] # NONE}}]
          BY <2>3 DEF Verified, Ends
    <3>2. /\ phase = "verify" /\ op # NONE /\ op.kind \in Maintenance /\ at \in Spot
          /\ at = NewPlace(op)
          BY <1>2, <3>1 DEF Sound, TypesInv, CallInv, AtInv, TruthInv, VerifyInv
    <3>3. got # <<>> /\ 1 \in DOMAIN got
          BY <1>2, <3>1, Completed DEF NotAsked, Sound
    <3>4. \E t \in told : eeprom[t.who][Field(op)] = op.target
          BY <1>2, <3>2 DEF TruthInv, ToldInv
    <3>5. \A i \in DOMAIN got : got[i] # NONE => got[i].to = PlaceOf(at)
          BY <1>2, <3>1, <3>2 DEF TruthInv, HereInv, Working, NoTransport
    <3>6. result'.to \subseteq {PlaceOf(NewPlace(op))}
          BY <3>1, <3>2, <3>5
    <3>7. result'.to = {} => result'.late
      <4> SUFFICES ASSUME result'.to = {}  PROVE result'.late
          OBVIOUS
      <4>1. got[1] = NONE
            BY <3>1, <3>3
      <4>2. wire[at.port].gave
        <5>1. at.port \in Port
              BY <3>2 DEF Spot
        <5>2. wire[at.port].gave \in BOOLEAN
              BY <1>2, <5>1 DEF Sound, TypesInv, WireInv, Handle
        <5> QED  BY <1>2, <3>1, <3>3, <4>1, <5>2 DEF TruthInv, GivenInv
      <4>3. at # Nowhere
            BY <3>2, OpeningAssumption DEF Spot, Nowhere
      <4> QED  BY <3>1, <4>2, <4>3
    <3> HIDE DEF Field, NewPlace, PlaceOf
    <3>8. result'.op = op /\ result'.how = "ok"
          BY <3>1
    <3>9. \E t \in told' : eeprom'[t.who][Field(op)] = op.target
          BY <3>1, <3>4
    <3> QED  BY <3>6, <3>7, <3>8, <3>9
             DEF VerifiedIsTrue, Field, NewPlace, PlaceOf, NewBaud, NewModbusAddress,
                 NewStdbusAddress, NewProtocol, At
  <2> QED  BY <1>2, <2>1, <2>2, <2>3, HowCallsEnd DEF EndsOf
<1> QED  BY <1>1, <1>2, TruthAlways, PTL DEF Spec

\* What was asked is known until the next call, and told as long.
LEMMA AskedStays ==
    ASSUME Sound, TruthInv, [Next]_vars
    PROVE  told' = {} \/ Write \/ (told' = told /\ Asked' = Asked)
<1>1. CASE op' # NONE /\ WentOn
  <2>1. op # NONE
        BY <1>1 DEF WentOn
  <2> QED  BY <1>1, <2>1 DEF WentOn, Asked
<1>2. CASE Began
      BY <1>2 DEF Began
<1>3. CASE Wrote
      BY <1>3 DEF Wrote
<1>4. CASE Reopen
  <2>1. op # NONE
        BY <1>4 DEF Reopen, Sound, TypesInv, CallInv
  <2> QED  BY <1>4, <2>1 DEF Reopen, Asked
<1>5. CASE op' = NONE
  <2>1. CASE UNCHANGED <<op, result, told, eeprom>>
        BY <2>1 DEF Asked
  <2>2. CASE result'.op = op /\ op # NONE
    <3>1. Asked' = Asked
          BY <1>5, <2>2 DEF Asked
    <3> QED  BY <3>1, WhoTells
  <2>3. CASE op = NONE
    <3>1. \/ \E o \in Calls : Call(o)
          \/ UNCHANGED <<told, result, op>>
      <4>1. pc = "idle"
            BY <2>3 DEF Sound, TypesInv, CallInv
      <4>2. CASE OpenNext
        <5>1. \E p \in Port : CallClose(p)
              BY <2>3, <4>1, <4>2
                 DEF OpenNext, Open, OpenFails, TryStdbus, SkipStdbus, TryModbus,
                     SkipModbus, Probed, ProbeFails, Read, StrictRead, BadAddress,
                     OpenReturns, IdentifyReturns, Cancel, Asking, Done, Reading
        <5> QED  BY <5>1 DEF CallClose, callVars
      <4>3. CASE MaintenanceNext
            BY <4>1, <4>3 DEF MaintenanceNext, OpenedForChange, Gate, Write, Reopen,
                              Verified
      <4>4. CASE ScanNext
            BY <4>1, <4>4 DEF ScanNext, Prune, NextCombo, DeadPort, ScanEnds, OpenCombo,
                              ComboFails, SkipAddress, ProbeEnds, Expires, Planned
      <4>5. CASE UNCHANGED vars \/ Environment
            BY <4>5 DEF vars, Environment, callVars
      <4> QED  BY <4>2, <4>3, <4>4, <4>5 DEF Next
    <3>2. ASSUME NEW o \in Calls, Call(o)  PROVE told' = {}
          BY <3>2 DEF Call, CallOpen, CallIdentify, CallMaintenance, Refuse, CallScan,
                      Begin
    <3> QED  BY <3>1, <3>2 DEF Asked
  <2> QED  BY <1>5, <2>1, <2>2, <2>3, HowCallsEnd
<1> QED  BY <1>1, <1>2, <1>3, <1>4, <1>5, WhoGoesOn

\* A unit that is alone at its address, and was heard in time, answers on
\* Standard Bus with its part number if it has no Modbus.
LEMMA GateWasRight ==
    ASSUME Sound, TruthInv, pc = "write", op.kind = "change_protocol_mode",
           ~wire[at.port].gave, op.target = "mod",
           NEW d \in Hearing(at.port, PlaceOf(at)), Make[d].family = "ez",
           \A i \in DOMAIN got : got[i] # NONE => got[i].who = d
    PROVE  Make[d].modbus
<1> SUFFICES ASSUME ~Make[d].modbus  PROVE FALSE
    OBVIOUS
<1>1. at \in Spot /\ at.profile = "ez" /\ got # <<>> /\ SkuSupports(op, got)
      BY WhereItIs DEF Sound, TypesInv, AtInv, TruthInv, GivenInv
<1>2. 1 \in DOMAIN got /\ got[1] # NONE
  <2> DEFINE S == Genuine \cup {NONE}
  <2>1. got \in Seq(S) /\ got # <<>>
        BY <1>1 DEF Sound, TypesInv, GotInv
  <2> HIDE DEF S
  <2>2. 1 \in DOMAIN got
        BY <2>1
  <2> QED  BY <1>1, <2>2 DEF SkuSupports, EzHealth
<1>3. got[1].who = d
      BY <1>2
<1>4. got[1] = Answer(d, PlaceOf(at), at.profile, Reads(at.profile, Query)[1])
      BY <1>2, <1>3 DEF TruthInv, AnswersInv
<1>5. Reads(at.profile, Query)[1] = "part_number"
      BY <1>1, PartNumber
<1>6. at.proto = "std"
  <2>1. d \in Device /\ Place(running[d]) = PlaceOf(at)
        BY DEF Hearing
  <2>2. running[d].proto = "std"
        BY <2>1 DEF Sound, TypesInv, DevicesInv
  <2>3. Place(running[d]).proto = "std"
        BY <2>2 DEF Place
  <2> QED  BY <2>1, <2>3 DEF PlaceOf
<1>7. got[1].param = "part_number"
      BY <1>1, <1>4, <1>5, <1>6 DEF Answer, PlaceOf
<1> QED  BY <1>1, <1>3, <1>7 DEF SkuSupports

\* change_protocol_mode never switches a unit that has no Modbus to Modbus when
\* the unit is alone at its address and answered the gate in time
\* (maintenance.py:441-501).
THEOREM GateNeverErrs == Spec => []GateHolds
<1>1. Init => GateHolds
      BY DEF Init, GateHolds
<1>2. ASSUME Sound, TruthInv, GateHolds, [Next]_vars  PROVE GateHolds'
  <2>1. CASE told' = {}
        BY <2>1 DEF GateHolds
  <2>2. CASE told' = told /\ Asked' = Asked
        BY <1>2, <2>2 DEF GateHolds
  <2>3. CASE Write
    <3>1. PICK reached \in SUBSET {d \in Hearing(at.port, PlaceOf(at)) :
                                     Make[d].family = "ez"} : Store(reached)
          BY <1>2, <2>3, WriteStores
    <3>2. pc = "write" /\ op # NONE
          BY <1>2, <2>3 DEF Write, Sound, TypesInv, CallInv
    <3>3. Asked' = op
          BY <2>3, <3>2 DEF Write, Asked, NoResult
    <3>4. ASSUME op.kind = "change_protocol_mode", op.target = "mod", NEW t \in told',
                 ~Make[t.who].modbus, ~t.gave
          PROVE  ~t.alone
      <4>1. PICK d \in reached :
               t = [who |-> d, gave |-> wire[at.port].gave,
                    alone |-> /\ Hearing(at.port, PlaceOf(at)) = {d}
                              /\ \A i \in DOMAIN got : got[i] # NONE => got[i].who = d]
            BY <3>1, <3>4 DEF Store
      <4>2. ASSUME \A i \in DOMAIN got : got[i] # NONE => got[i].who = d
            PROVE  Make[d].modbus
            BY <1>2, <3>1, <3>2, <3>4, <4>1, <4>2, GateWasRight
      <4>3. t.who = d
            BY <4>1
      <4>4. t.alone => \A i \in DOMAIN got : got[i] # NONE => got[i].who = d
            BY <4>1
      <4> QED  BY <3>4, <4>2, <4>3, <4>4
    <3> QED  BY <3>3, <3>4 DEF GateHolds
  <2> QED  BY <1>2, <2>1, <2>2, <2>3, AskedStays
<1> QED  BY <1>1, <1>2, TruthAlways, PTL DEF Spec

-----------------------------------------------------------------------------
(***************************************************************************)
(* Scale and unit                                                          *)
(***************************************************************************)

\* A device that is no EZ-ZONE answers on Modbus, so when asked.
LEMMA AnsweredWhenAsked ==
    ASSUME Sound, TruthInv, pc \in Reading, NEW i \in DOMAIN got, got[i] # NONE,
           Make[got[i].who].family # "ez"
    PROVE  got[i] = Answer(got[i].who, PlaceOf(at), at.profile,
                           Reads(at.profile, Query)[i])
           /\ at.proto = "mod"
<1>1. at \in Spot
      BY DEF Sound, TypesInv, AtInv, Reading
<1>2. at.proto = "mod"
  <2>1. SUFFICES ASSUME at.proto = "std"  PROVE FALSE
        BY <1>1 DEF Spot, Proto
  <2>2. got[i] \in Spoken
        BY <2>1 DEF TruthInv, SpokenInv
  <2> QED  BY <2>2 DEF Spoken, Genuine
<1> QED  BY <1>2 DEF TruthInv, AnswersInv

\* The readings of a session carry the scale and unit of the device it names.
Scaled(s) ==
    s.who # NONE /\ s.health = "ok" /\ s.at.profile = Make[s.who].family =>
       /\ s.at.profile = "f4p" => /\ s.decimals = Make[s.who].decimals
                                  /\ s.unit = Make[s.who].unit
       /\ s.at.profile = "sd" /\ s.unitRead => s.unit = Make[s.who].unit

LEMMA IdentifiedScaled ==
    ASSUME Sound, TruthInv, Done, ~NotAsked, pc \in {"identify", "again"},
           NEW s \in Sessions, s.at = at
    PROVE  Scaled(Identified(s, got))
<1> DEFINE t == Identified(s, got)
           last == IF at.profile # "ez" /\ Len(got) = 6 THEN got[6] ELSE NONE
           decimals == IF at.profile = "f4p" /\ Len(got) = 6 /\ got[5] # NONE
                       THEN Make[got[5].who].decimals ELSE s.decimals
           unit == IF last = NONE THEN s.unit ELSE UnitOf(last)
<1>1. /\ t.at = at /\ t.health = Health(at.profile, got) /\ t.who = Answerer(got)
      /\ t.unitRead = (last # NONE) /\ t.unit = unit /\ t.decimals = decimals
      BY DEF Identified, Sessions
<1>2. got # <<>> /\ 1 \in DOMAIN got /\ at \in Spot
      BY Completed DEF Sound
<1>3. Len(got) \in Nat /\ DOMAIN got = 1..Len(got)
      BY DEF Sound, TypesInv, GotInv
<1>4. ASSUME t.who # NONE, Make[t.who].family = at.profile, at.profile # "ez",
             Len(got) = 6, got[6] # NONE
      PROVE  unit = Make[t.who].unit
  <2>1. 6 \in DOMAIN got
        BY <1>3, <1>4
  <2>2. got[6].who = t.who
        BY <1>1, <1>4, <2>1 DEF Answerer
  <2>3. got[6] = Answer(t.who, PlaceOf(at), at.profile, Reads(at.profile, Query)[6])
        BY <1>4, <2>1, <2>2, AnsweredWhenAsked DEF Reading
  <2>4. Reads(at.profile, Query)[6] = "units"
    <3>1. CASE at.profile = "sd"
          BY <3>1 DEF Reads, SdReads
    <3>2. CASE at.profile = "f4p"
          BY <3>2 DEF Reads, F4pReads
    <3> QED  BY <1>2, <1>4, <3>1, <3>2 DEF Spot, Family
  <2>5. got[6].param = "units"
        BY <1>4, <2>3, <2>4 DEF Answer, Text
  <2>6. last = got[6]
        BY <1>4
  <2> QED  BY <1>4, <2>2, <2>5, <2>6 DEF UnitOf
<1>5. ASSUME t.who # NONE, t.health = "ok", Make[t.who].family = at.profile,
             at.profile = "f4p"
      PROVE  decimals = Make[t.who].decimals /\ unit = Make[t.who].unit
  <2>1. IsModel(got[1]) /\ got[5] # NONE /\ got[6] # NONE
        BY <1>1, <1>5 DEF Health, F4pHealth
  <2>2. Len(got) = Len(Reads(at.profile, Query))
        BY <2>1 DEF Done, Complete
  <2>3. Len(got) = 6
        BY <1>5, <2>2 DEF Reads, F4pReads
  <2>4. 5 \in DOMAIN got
        BY <1>3, <2>3
  <2>5. got[5].who = t.who
        BY <1>1, <1>5, <2>1, <2>4 DEF Answerer
  <2>6. decimals = Make[t.who].decimals
        BY <1>5, <2>1, <2>3, <2>5
  <2> QED  BY <1>4, <1>5, <2>1, <2>3, <2>6
<1>6. ASSUME t.who # NONE, t.unitRead, Make[t.who].family = at.profile,
             at.profile = "sd"
      PROVE  unit = Make[t.who].unit
  <2>1. last # NONE
        BY <1>1, <1>6
  <2>2. Len(got) = 6 /\ got[6] # NONE
        BY <2>1
  <2> QED  BY <1>4, <1>6, <2>2
<1> HIDE DEF t, last, decimals, unit
<1>7. Scaled(t)
      BY <1>1, <1>5, <1>6 DEF Scaled
<1> QED  BY <1>7 DEF t

\* A Controller identified by the answers of one device has, if it is an F4P
\* whose health is OK, its scale and unit, and if it is an SD whose unit
\* register answered, its unit (profile.py:284-288, :404-431).
THEOREM ScaleStaysTrue == Spec => []ScaleIsTrue
<1>0. ScaleIsTrue <=> \A p \in Port : Scaled(session[p])
      BY DEF ScaleIsTrue, Scaled
<1>1. Init => ScaleIsTrue
  <2> SUFFICES ASSUME Init  PROVE \A p \in Port : session[p].who = NONE
      BY DEF ScaleIsTrue
  <2> QED  BY DEF Init, NoSession, NewSession
<1>2. ASSUME Sound, TruthInv, ScaleIsTrue, [Next]_vars  PROVE ScaleIsTrue'
  <2>1. session \in [Port -> Sessions] /\ \A p \in Port : Scaled(session[p])
        BY <1>0, <1>2 DEF Sound, TypesInv, SessionInv
  <2>2. ASSUME NEW q, NEW s, Scaled(s), session' = [session EXCEPT ![q] = s]
        PROVE  ScaleIsTrue'
    <3>1. \A p \in Port : session'[p] \in {s, session[p]}
          BY <2>1, <2>2
    <3>2. \A p \in Port : Scaled(session'[p])
          BY <2>1, <2>2, <3>1
    <3> QED  BY <3>2 DEF ScaleIsTrue, Scaled
  <2>3. CASE UNCHANGED session
        BY <1>2, <2>3 DEF ScaleIsTrue
  <2>4. ASSUME NEW p \in Port, CallClose(p)  PROVE ScaleIsTrue'
    <3>1. Scaled(NoSession) /\ session' = [session EXCEPT ![p] = NoSession]
          BY <2>4 DEF CallClose, Scaled, NoSession, NewSession
    <3> QED  BY <2>2, <3>1
  <2>5. CASE OpenReturns
    <3>1. /\ Done /\ pc = "identify" /\ op.kind = "open_device"
          /\ session' = [session EXCEPT ![at.port] =
               IF op.identify THEN Identified(NewSession(at), got) ELSE NewSession(at)]
          BY <2>5 DEF OpenReturns, Returns
    <3>2. at \in Spot
          BY <1>2, <3>1 DEF Sound, TypesInv, AtInv
    <3>3. NewSession(at) \in Sessions /\ NewSession(at).at = at
          BY <3>2, SessionIs
    <3>4. CASE op.identify
      <4>1. ~NotAsked
            BY <3>4 DEF NotAsked
      <4>2. Scaled(Identified(NewSession(at), got))
            BY <1>2, <3>1, <3>3, <4>1, IdentifiedScaled
      <4> QED  BY <2>2, <3>1, <3>4, <4>2
    <3>5. CASE ~op.identify
      <4>1. Scaled(NewSession(at))
            BY DEF Scaled, NewSession
      <4> QED  BY <2>2, <3>1, <3>5, <4>1
    <3> QED  BY <3>4, <3>5
  <2>6. CASE IdentifyReturns
    <3>1. /\ Done /\ pc = "again"
          /\ session' = [session EXCEPT ![at.port] = Identified(session[at.port], got)]
          BY <2>6 DEF IdentifyReturns, Returns
    <3>2. at \in Spot /\ ~NotAsked /\ session[at.port].at = at
          BY <1>2, <3>1 DEF Sound, TypesInv, AtInv, NotAsked, TruthInv, AgainInv
    <3>3. session[at.port] \in Sessions
          BY <2>1, <3>2 DEF Spot
    <3>4. Scaled(Identified(session[at.port], got))
          BY <1>2, <3>1, <3>2, <3>3, IdentifiedScaled
    <3> QED  BY <2>2, <3>1, <3>4
  <2> QED  BY <1>2, <2>3, <2>4, <2>5, <2>6, WhoHasSessions
<1> QED  BY <1>1, <1>2, TruthAlways, PTL DEF Spec

-----------------------------------------------------------------------------
(***************************************************************************)
(* Rows                                                                    *)
(***************************************************************************)

RowTrue(row) ==
    row.ok =>
        /\ ~row.gave => \A r \in row.replies : r.to = PlaceOf(row.at)
        /\ row.at.profile = "f4p" => \A r \in row.replies : Make[r.who].family = "f4p"

\* A scan's rows are those it had and one or, for a port or combination that did
\* not open, one of no device for every address.
LEMMA RowsGrow ==
    ASSUME Sound, [Next]_vars
    PROVE  \/ rows' \in {rows, <<>>}
           \/ /\ op \in Calls /\ op.kind = "find_devices"
              /\ \E a \in Spot : rows' = rows \o NoRows(a)
           \/ ProbeEnds
           \/ at \in Spot /\ rows' = Append(rows, Row(at, FALSE, {}))
<1>1. CASE Next /\ (OpenNext \/ MaintenanceNext)
      BY <1>1, NotOfScans DEF Over, Sound
<1>2. CASE ScanNext
  <2>0. pc \in {"next", "open_combo"} => op \in Calls /\ op.kind = "find_devices" /\ op # NONE
        BY WhereItIs DEF Sound, TypesInv, CallInv
  <2>1. CASE Prune \/ NextCombo \/ OpenCombo
        BY <2>1 DEF Prune, NextCombo, OpenCombo, Step
  <2>2. CASE DeadPort
    <3>1. pc = "next" /\ More /\ rows' = rows \o NoRows(ComboAt(op))
          BY <2>2 DEF DeadPort, Planned
    <3>2. ComboAt(op) \in Spot
          BY <2>0, <3>1, ComboSpot DEF Sound
    <3> QED  BY <2>0, <3>1, <3>2
  <2>3. CASE ScanEnds
        BY <2>3, EndsAreOver DEF ScanEnds, Over
  <2>4. CASE ComboFails
    <3>1. pc = "open_combo" /\ (rows' = rows \o NoRows(at) \/ Fails("raw"))
          BY <2>4 DEF ComboFails
    <3>2. at \in Spot
          BY <3>1 DEF Sound, TypesInv, AtInv
    <3> QED  BY <2>0, <3>1, <3>2, FailsDoes
  <2>5. CASE SkipAddress \/ Expires
        BY <2>5 DEF SkipAddress, Expires, RowDone, Sound, TypesInv, AtInv
  <2> QED  BY <1>2, <2>1, <2>2, <2>3, <2>4, <2>5 DEF ScanNext
<1>3. ASSUME NEW o \in Calls, Call(o)  PROVE rows' = <<>>
      BY <1>3 DEF Call, CallOpen, CallIdentify, CallMaintenance, Refuse, CallScan, Begin
<1>4. CASE UNCHANGED vars \/ Environment
      BY <1>4 DEF vars, Environment, callVars
<1> QED  BY <1>1, <1>2, <1>3, <1>4 DEF Next

\* A row of a scan names a device only on replies to questions asked at the
\* row's own address, unless some exchange on the same handle had been given up,
\* and no device of another family is ever reported as an F4P
\* (discovery.py:453-577, profile.py:371-373).
THEOREM RowsStayTrue == Spec => []RowsTrue
<1>0. RowsTrue <=> \A i \in DOMAIN rows : RowTrue(rows[i])
      BY DEF RowsTrue, RowTrue
<1>1. Init => RowsTrue
      BY DEF Init, RowsTrue
<1>2. ASSUME Sound, TruthInv, RowsTrue, [Next]_vars  PROVE RowsTrue'
  <2>0. rows \in Seq(RowSet) /\ \A i \in DOMAIN rows : RowTrue(rows[i])
        BY <1>0, <1>2 DEF Sound, TypesInv, TurnInv
  <2>1. ASSUME NEW more \in Seq(RowSet), \A i \in DOMAIN more : RowTrue(more[i]),
               rows' = rows \o more
        PROVE  RowsTrue'
    <3>1. \A i \in DOMAIN rows' : \/ i \in DOMAIN rows /\ rows'[i] = rows[i]
                                  \/ \E j \in DOMAIN more : rows'[i] = more[j]
      <4> HIDE DEF RowSet
      <4>1. \A i \in DOMAIN rows' : \/ i \in DOMAIN rows /\ rows'[i] = rows[i]
                                    \/ /\ i - Len(rows) \in DOMAIN more
                                       /\ rows'[i] = more[i - Len(rows)]
            BY <2>0, <2>1
      <4> QED  BY <4>1
    <3>2. \A i \in DOMAIN rows' : RowTrue(rows'[i])
          BY <2>0, <2>1, <3>1
    <3> QED  BY <3>2 DEF RowsTrue, RowTrue
  <2>2. ASSUME NEW row \in RowSet, RowTrue(row), rows' = Append(rows, row)
        PROVE  RowsTrue'
    <3>1. \A i \in DOMAIN rows' : \/ i \in DOMAIN rows /\ rows'[i] = rows[i]
                                  \/ rows'[i] = row
      <4> HIDE DEF RowSet
      <4> QED  BY <2>0, <2>2
    <3>2. \A i \in DOMAIN rows' : RowTrue(rows'[i])
          BY <2>0, <2>2, <3>1
    <3> QED  BY <3>2 DEF RowsTrue, RowTrue
  <2>3. CASE rows' \in {rows, <<>>}
        BY <1>2, <2>3 DEF RowsTrue
  <2>4. ASSUME op \in Calls, op.kind = "find_devices", NEW a \in Spot,
               rows' = rows \o NoRows(a)
        PROVE  RowsTrue'
    <3>1. /\ NoRows(a) \in Seq(RowSet) /\ Len(NoRows(a)) = Len(op.addrs)
          /\ \A i \in 1..Len(op.addrs) :
                NoRows(a)[i] = Row([a EXCEPT !.addr = op.addrs[i]], FALSE, {})
          BY <1>2, <2>4, NoRowsAre DEF Sound
    <3>2. \A i \in DOMAIN NoRows(a) : ~NoRows(a)[i].ok
      <4>1. \A b : ~Row(b, FALSE, {}).ok
            BY DEF Row
      <4>2. DOMAIN NoRows(a) = 1..Len(op.addrs)
        <5> HIDE DEF RowSet, NoRows
        <5> QED  BY <3>1
      <4> QED  BY <3>1, <4>1, <4>2
    <3> QED  BY <2>1, <2>4, <3>1, <3>2 DEF RowTrue
  <2>5. CASE at \in Spot /\ rows' = Append(rows, Row(at, FALSE, {}))
    <3>1. Row(at, FALSE, {}) \in RowSet
          BY <1>2, <2>5, RowIs DEF Sound
    <3>2. RowTrue(Row(at, FALSE, {}))
          BY DEF RowTrue, Row
    <3> HIDE DEF Row
    <3> QED  BY <2>2, <2>5, <3>1, <3>2
  <2>6. CASE ProbeEnds
    <3> DEFINE found == Identity(at.profile, got)
               row == Row(at, found # {}, found)
    <3>1. Done /\ pc = "probe" /\ rows' = Append(rows, row)
          BY <2>6 DEF ProbeEnds, RowDone
    <3>2. found \in SUBSET Genuine
          BY <1>2, <3>1, FoundAre DEF Sound
    <3>3. at \in Spot
          BY <1>2, <3>1 DEF Sound, TypesInv, AtInv
    <3>4. \A r \in found : \E i \in DOMAIN got : r = got[i] /\ got[i] # NONE
      <4>1. 1 \in DOMAIN got
            BY <1>2, <3>1, Completed DEF Sound, NotAsked
      <4>2. at.profile = "ez" => 2 \in DOMAIN got
        <5>1. at.profile = "ez" => Len(got) = Len(Reads(at.profile, Query))
              BY <3>1 DEF Done, Complete, NotAsked
        <5>2. Len(Reads(at.profile, Query)) \in 4..6
              BY <3>3, ReadsAre DEF Spot, Query
        <5>3. Len(got) \in Nat /\ DOMAIN got = 1..Len(got)
              BY <1>2 DEF Sound, TypesInv, GotInv
        <5>4. at.profile = "ez" => Len(got) \in 4..6
              BY <5>1, <5>2
        <5> QED  BY <5>3, <5>4
      <4>3. CASE at.profile = "ez"
        <5>1. found \subseteq {got[1], got[2]} \ {NONE}
              BY <4>3 DEF Identity
        <5> QED  BY <4>1, <4>2, <4>3, <5>1
      <4>4. CASE at.profile # "ez"
        <5>1. found \subseteq {got[1]} \ {NONE}
              BY <4>4 DEF Identity, IsModel
        <5> QED  BY <4>1, <5>1
      <4> QED  BY <4>3, <4>4
    <3>5. at.profile = "f4p" => \A r \in found : Make[r.who].family = "f4p"
      <4>1. at.profile = "f4p" => \A r \in found : r.param = "model_code"
            BY DEF Identity, IsModel
      <4> QED  BY <3>2, <4>1 DEF Genuine
    <3>6. ~wire[at.port].gave => \A r \in found : r.to = PlaceOf(at)
      <4>1. ~wire[at.port].gave =>
               \A i \in DOMAIN got : got[i] # NONE => got[i].to = PlaceOf(at)
            BY <1>2, <3>1 DEF TruthInv, AnswersInv, Reading, Answer
      <4> QED  BY <3>4, <4>1
    <3> HIDE DEF found
    <3>7. row \in RowSet
          BY <1>2, <3>2, <3>3, RowIs DEF Sound
    <3>8. RowTrue(row)
          BY <3>5, <3>6 DEF RowTrue, Row
    <3> HIDE DEF row
    <3> QED  BY <2>2, <3>1, <3>7, <3>8
  <2> QED  BY <1>2, <2>3, <2>4, <2>5, <2>6, RowsGrow
<1> QED  BY <1>1, <1>2, TruthAlways, PTL DEF Spec

-----------------------------------------------------------------------------
(***************************************************************************)
(* The order of the rows                                                   *)
(***************************************************************************)

\* How many rounds of the plan come before another.
LEMMA BeforeIs ==
    ASSUME NEW o \in Calls, o.kind = "find_devices"
    PROVE  /\ Cardinality(InPlan(o)) \in Nat
           /\ \A t \in Nat : Before(o, t) \in 0..Cardinality(InPlan(o))
           /\ \A s, t \in Nat : s <= t => Before(o, s) <= Before(o, t)
           /\ \A t \in InPlan(o) : Before(o, t + 1) = Before(o, t) + 1
           /\ \A t \in Nat \ InPlan(o) : Before(o, t + 1) = Before(o, t)
           /\ Before(o, 1) = 0
           /\ Before(o, Rounds(o) + 1) = Cardinality(InPlan(o))
<1> DEFINE below(t) == {s \in InPlan(o) : s < t}
<1>1. Rounds(o) \in Nat /\ InPlan(o) \subseteq 1..Rounds(o)
      BY RoundsAre DEF InPlan
<1>2. IsFiniteSet(InPlan(o))
  <2> DEFINE rounds == 1..Rounds(o)
  <2>1. IsFiniteSet(rounds)
        BY <1>1, FS_Interval
  <2>2. InPlan(o) \in SUBSET rounds
        BY <1>1
  <2> HIDE DEF rounds
  <2> QED  BY <2>1, <2>2, FS_Subset
<1>3. \A t : Before(o, t) = Cardinality(below(t))
      BY DEF Before
<1>4. \A t : below(t) \subseteq InPlan(o) /\ IsFiniteSet(below(t))
      BY <1>2, FS_Subset
<1>5. Cardinality(InPlan(o)) \in Nat /\ \A t : Before(o, t) \in Nat
      BY <1>2, <1>3, <1>4, FS_CardinalityType
<1>6. ASSUME NEW t  PROVE Before(o, t) <= Cardinality(InPlan(o))
  <2>1. below(t) \in SUBSET InPlan(o)
        BY <1>4
  <2> HIDE DEF below
  <2> QED  BY <1>2, <1>3, <2>1, FS_Subset
<1>7. ASSUME NEW s \in Nat, NEW t \in Nat, s <= t
      PROVE  Before(o, s) <= Before(o, t)
  <2>1. below(s) \subseteq below(t)
        BY <1>1, <1>7
  <2> HIDE DEF below
  <2> QED  BY <1>3, <1>4, <2>1, FS_Subset
<1>8. ASSUME NEW t \in InPlan(o)  PROVE Before(o, t + 1) = Before(o, t) + 1
  <2>1. below(t + 1) = below(t) \cup {t} /\ t \notin below(t)
        BY <1>1
  <2> HIDE DEF below
  <2> QED  BY <1>3, <1>4, <2>1, FS_AddElement
<1>9. ASSUME NEW t \in Nat \ InPlan(o)  PROVE Before(o, t + 1) = Before(o, t)
  <2>1. below(t + 1) = below(t)
        BY <1>1, <1>9
  <2> HIDE DEF below
  <2> QED  BY <1>3, <2>1
<1>10. below(1) = {} /\ below(Rounds(o) + 1) = InPlan(o)
      BY <1>1
<1> HIDE DEF below
<1>11. Before(o, 1) = 0 /\ Before(o, Rounds(o) + 1) = Cardinality(InPlan(o))
      BY <1>3, <1>10, FS_EmptySet
<1>12. \A t \in Nat : Before(o, t) \in 0..Cardinality(InPlan(o))
      BY <1>5, <1>6
<1> QED  BY <1>5, <1>7, <1>8, <1>9, <1>11, <1>12

\* A row is that of one round and one address.
LEMMA RowsApart ==
    ASSUME NEW o \in Calls, o.kind = "find_devices", NEW s \in InPlan(o),
           NEW t \in InPlan(o), NEW a \in 1..Len(o.addrs), NEW b \in 1..Len(o.addrs),
           RowOf(o, s, b) = RowOf(o, t, a)
    PROVE  s = t /\ a = b
<1> DEFINE n == Len(o.addrs)
           B(r) == Before(o, r)
<1>1. n \in Nat \ {0} /\ a \in 1..n /\ b \in 1..n
      BY RoundsAre
<1>2. InPlan(o) \subseteq Nat
      BY RoundsAre DEF InPlan
<1>3. ASSUME NEW x \in InPlan(o), NEW y \in InPlan(o), x < y
      PROVE  B(x) + 1 <= B(y) /\ B(x) \in Nat /\ B(y) \in Nat
  <2>1. x \in Nat /\ y \in Nat /\ x + 1 \in Nat /\ x + 1 <= y
        BY <1>2, <1>3
  <2>2. B(x + 1) = B(x) + 1 /\ B(x + 1) <= B(y) /\ B(x) \in Nat /\ B(y) \in Nat
        BY <2>1, BeforeIs
  <2> QED  BY <2>2
<1>4. B(s) * n + b = B(t) * n + a
      BY DEF RowOf
<1>5. B(s) \in Nat /\ B(t) \in Nat
      BY <1>2, BeforeIs
<1> HIDE DEF n, B
<1>6. ASSUME NEW x \in Nat, NEW y \in Nat, x + 1 <= y, NEW i \in 1..n, NEW j \in 1..n
      PROVE  x * n + i # y * n + j
  <2>1. (x + 1) * n <= y * n
        BY <1>1, <1>6
  <2>2. (x + 1) * n = x * n + n
        BY <1>1
  <2>3. x * n \in Nat /\ y * n \in Nat
        BY <1>1
  <2> QED  BY <1>1, <2>1, <2>2, <2>3
<1>7. ~(s < t) /\ ~(t < s)
  <2>1. s < t => B(s) * n + b # B(t) * n + a
        BY <1>1, <1>3, <1>6
  <2>2. t < s => B(t) * n + a # B(s) * n + b
        BY <1>1, <1>3, <1>6
  <2> QED  BY <1>4, <2>1, <2>2
<1>8. s = t
      BY <1>2, <1>7
<1>9. B(t) * n \in Nat
      BY <1>1, <1>5
<1> QED  BY <1>1, <1>4, <1>8, <1>9

\* What a scan does, and what is left of it when it is over.
LEMMA WhoScans ==
    ASSUME Sound, TruthInv, [Next]_vars, Asked' # NONE, Asked'.kind = "find_devices"
    PROVE  \/ \E o \in Calls : CallScan(o)
           \/ UNCHANGED <<rows, op, turn, pc, at, result>>
           \/ /\ op # NONE /\ op' = NONE /\ result'.op = op /\ UNCHANGED rows
              /\ result'.how # "ok" \/ ScanEnds
           \/ ScanNext /\ op # NONE /\ op' = op
<1>1. CASE UNCHANGED <<rows, op, turn, pc, at, result>>
      BY <1>1
<1>2. CASE op = NONE
  <2>1. pc = "idle"
        BY <1>2 DEF Sound, TypesInv, CallInv
  <2>2. CASE OpenNext
    <3>1. \E p \in Port : CallClose(p)
          BY <1>2, <2>1, <2>2
             DEF OpenNext, Open, OpenFails, TryStdbus, SkipStdbus, TryModbus,
                 SkipModbus, Probed, ProbeFails, Read, StrictRead, BadAddress,
                 OpenReturns, IdentifyReturns, Cancel, Asking, Done, Reading
    <3> QED  BY <1>1, <3>1 DEF CallClose, callVars
  <2>3. CASE MaintenanceNext
        BY <2>1, <2>3 DEF MaintenanceNext, OpenedForChange, Gate, Write, Reopen, Verified
  <2>4. CASE ScanNext
        BY <2>1, <2>4 DEF ScanNext, Prune, NextCombo, DeadPort, ScanEnds, OpenCombo,
                          ComboFails, SkipAddress, ProbeEnds, Expires, Planned
  <2>5. CASE UNCHANGED vars \/ Environment
        BY <1>1, <2>5 DEF vars, Environment, callVars
  <2>6. ASSUME NEW o \in Calls, Call(o)  PROVE CallScan(o)
    <3>1. CASE Refuse(o)
      <4>1. op' = NONE /\ result'.op = o /\ o.kind \in Maintenance
            BY <1>2, <3>1 DEF Refuse, NoResult
      <4> QED  BY <4>1 DEF Asked, Maintenance
    <3>2. CASE CallOpen(o) \/ CallIdentify(o) \/ CallMaintenance(o)
      <4>1. op' = o /\ o.kind # "find_devices" /\ o # NONE
            BY <3>2, OpeningAssumption
               DEF CallOpen, CallIdentify, CallMaintenance, Begin, Maintenance
      <4> QED  BY <4>1 DEF Asked
    <3> QED  BY <2>6, <3>1, <3>2 DEF Call
  <2> QED  BY <2>2, <2>3, <2>4, <2>5, <2>6 DEF Next
<1>3. CASE op # NONE /\ op.kind = "find_devices"
  <2>1. pc \in {"next", "open_combo", "probe"}
        BY <1>3 DEF Sound, TypesInv, CallInv, PointsOf
  <2>2. ASSUME Failed
        PROVE  op' = NONE /\ result'.op = op /\ UNCHANGED rows /\ result'.how # "ok"
        BY <2>2, FailsDoes DEF Failed
  <2>3. CASE Next /\ OpenNext
    <3>1. Read \/ Cancel \/ BadAddress
      <4>1. \A p \in Port : ~CallClose(p)
            BY <1>3 DEF CallClose
      <4> QED  BY <2>1, <2>3, <4>1
               DEF OpenNext, Open, OpenFails, TryStdbus, SkipStdbus, TryModbus,
                   SkipModbus, Probed, ProbeFails, StrictRead, OpenReturns,
                   IdentifyReturns
    <3>2. CASE Read
          BY <1>1, <3>2 DEF Read, Step
    <3>3. CASE Cancel \/ BadAddress
      <4>1. Failed
            BY <2>1, <2>3, <3>3, WhatFails
      <4> QED  BY <1>3, <2>2, <4>1
    <3> QED  BY <3>1, <3>2, <3>3
  <2>4. CASE MaintenanceNext
        BY <2>1, <2>4 DEF MaintenanceNext, OpenedForChange, Gate, Write, Reopen, Verified
  <2>5. CASE ScanNext
    <3>1. CASE Prune \/ DeadPort \/ NextCombo \/ OpenCombo
          BY <1>3, <2>5, <3>1 DEF Prune, DeadPort, NextCombo, OpenCombo, Step
    <3>2. CASE ScanEnds
          BY <1>3, <3>2, EndsAreOver DEF ScanEnds, Over
    <3>3. CASE ComboFails
      <4>1. UNCHANGED op \/ Fails("raw")
            BY <3>3 DEF ComboFails
      <4> QED  BY <1>3, <2>5, <4>1, FailsDoes
    <3>4. CASE SkipAddress \/ ProbeEnds \/ Expires
          BY <1>3, <2>5, <3>4 DEF SkipAddress, ProbeEnds, Expires, RowDone
    <3> QED  BY <2>5, <3>1, <3>2, <3>3, <3>4 DEF ScanNext
  <2>6. ASSUME NEW o \in Calls  PROVE ~Call(o)
        BY <1>3 DEF Call, CallOpen, CallIdentify, CallMaintenance, Refuse, CallScan, Begin
  <2>7. CASE UNCHANGED vars \/ Environment
        BY <1>1, <2>7 DEF vars, Environment, callVars
  <2> QED  BY <2>3, <2>4, <2>5, <2>6, <2>7 DEF Next
<1>4. CASE op # NONE /\ op.kind # "find_devices"
  <2>1. Asked' = op
    <3>1. CASE op' = NONE
      <4>1. result'.op = op
            BY <1>4, <3>1, HowCallsEnd
      <4> QED  BY <1>4, <3>1, <4>1 DEF Asked
    <3>2. CASE op' # NONE
          BY <1>4, <3>2, WhoGoesOn DEF WentOn, Began, Wrote, Reopen, Asked
    <3> QED  BY <3>1, <3>2
  <2> QED  BY <1>4, <2>1
<1> QED  BY <1>2, <1>3, <1>4

\* Rows are in their places.
Placed(o, r) ==
    \A t \in InPlan(o), a \in DOMAIN o.addrs :
        RowOf(o, t, a) <= Len(r) => IsRow(r[RowOf(o, t, a)], Combo(o, t), o.addrs[a])

\* One more row, the next in the order, is in its place ...
LEMMA RowPlaced ==
    ASSUME NEW o \in Calls, o.kind = "find_devices", NEW t \in InPlan(o),
           NEW a \in 1..Len(o.addrs), NEW r \in Seq(RowSet), Placed(o, r),
           Len(r) = RowOf(o, t, a) - 1,
           NEW row \in RowSet, IsRow(row, Combo(o, t), o.addrs[a])
    PROVE  Placed(o, Append(r, row)) /\ Len(Append(r, row)) = RowOf(o, t, a)
<1>1. /\ Len(Append(r, row)) = Len(r) + 1 /\ Len(r) \in Nat
      /\ \A i \in 1..Len(r) : Append(r, row)[i] = r[i]
      /\ Append(r, row)[Len(r) + 1] = row
  <2> HIDE DEF RowSet
  <2> QED  OBVIOUS
<1>2. \A s \in InPlan(o), b \in 1..Len(o.addrs) : RowOf(o, s, b) \in Nat \ {0}
  <2>1. InPlan(o) \subseteq Nat /\ Len(o.addrs) \in Nat
        BY RoundsAre DEF InPlan
  <2> TAKE s \in InPlan(o), b \in 1..Len(o.addrs)
  <2>2. Before(o, s) \in Nat
        BY <2>1, BeforeIs
  <2>3. Before(o, s) * Len(o.addrs) \in Nat
        BY <2>1, <2>2
  <2> QED  BY <2>1, <2>3 DEF RowOf
<1>3. RowOf(o, t, a) = Len(r) + 1
      BY <1>1, <1>2
<1>4. DOMAIN o.addrs = 1..Len(o.addrs)
      BY RoundsAre
<1>5. ASSUME NEW s \in InPlan(o), NEW b \in 1..Len(o.addrs),
             RowOf(o, s, b) <= Len(Append(r, row))
      PROVE  IsRow(Append(r, row)[RowOf(o, s, b)], Combo(o, s), o.addrs[b])
  <2> HIDE DEF RowOf, IsRow, RowSet
  <2>1. RowOf(o, s, b) \in 1..Len(r) \/ RowOf(o, s, b) = Len(r) + 1
        BY <1>1, <1>2, <1>5
  <2>2. CASE RowOf(o, s, b) \in 1..Len(r)
    <3>1. Append(r, row)[RowOf(o, s, b)] = r[RowOf(o, s, b)] /\ RowOf(o, s, b) <= Len(r)
          BY <1>1, <2>2
    <3>2. IsRow(r[RowOf(o, s, b)], Combo(o, s), o.addrs[b])
          BY <1>4, <3>1 DEF Placed
    <3> QED  BY <3>1, <3>2
  <2>3. CASE RowOf(o, s, b) = Len(r) + 1
    <3>1. RowOf(o, s, b) = RowOf(o, t, a)
          BY <1>3, <2>3
    <3>2. s = t /\ a = b
          BY <3>1, RowsApart
    <3> QED  BY <1>1, <2>3, <3>2
  <2> QED  BY <2>1, <2>2, <2>3
<1> QED  BY <1>1, <1>3, <1>4, <1>5 DEF Placed

\* ... and so are all the rows of a round that give no device.
LEMMA RowsPlaced ==
    ASSUME NEW o \in Calls, o.kind = "find_devices", NEW t \in InPlan(o),
           NEW r \in Seq(RowSet), Placed(o, r), Len(r) = RowOf(o, t, 1) - 1,
           NEW more \in Seq(RowSet), Len(more) = Len(o.addrs),
           \A a \in 1..Len(o.addrs) : IsRow(more[a], Combo(o, t), o.addrs[a])
    PROVE  /\ Placed(o, r \o more)
           /\ Len(r \o more) = RowOf(o, t, Len(o.addrs))
<1> DEFINE n == Len(o.addrs)
           B(s) == Before(o, s)
<1>1. /\ Len(r \o more) = Len(r) + n /\ Len(r) \in Nat /\ n \in Nat \ {0}
      /\ \A i \in 1..Len(r) : (r \o more)[i] = r[i]
      /\ \A a \in 1..n : (r \o more)[Len(r) + a] = more[a]
  <2>1. n \in Nat \ {0}
        BY RoundsAre
  <2> HIDE DEF RowSet
  <2> QED  BY <2>1
<1>2. InPlan(o) \subseteq Nat /\ DOMAIN o.addrs = 1..n
      BY RoundsAre DEF InPlan
<1>3. \A s \in InPlan(o) : B(s) \in Nat
      BY <1>2, BeforeIs
<1>4. \A s \in InPlan(o), b \in 1..n : RowOf(o, s, b) = B(s) * n + b
      BY DEF RowOf
<1>5. 1 \in 1..n /\ n \in 1..n
      BY <1>1
<1> HIDE DEF n, B
<1>6. \A s \in InPlan(o), b \in 1..n : B(s) * n \in Nat /\ RowOf(o, s, b) \in Nat \ {0}
  <2> TAKE s \in InPlan(o), b \in 1..n
  <2>1. B(s) \in Nat /\ n \in Nat /\ b \in Nat \ {0}
        BY <1>1, <1>3
  <2>2. B(s) * n \in Nat
        BY <2>1
  <2> QED  BY <1>4, <2>1, <2>2
<1>7. /\ Len(r) = B(t) * n
      /\ \A a \in 1..n : RowOf(o, t, a) = Len(r) + a
  <2>1. RowOf(o, t, 1) = B(t) * n + 1
        BY <1>4, <1>5
  <2>2. Len(r) = B(t) * n
        BY <1>1, <1>6, <2>1
  <2> QED  BY <1>4, <2>2
<1>8. ASSUME NEW s \in InPlan(o), NEW b \in 1..n, RowOf(o, s, b) <= Len(r \o more)
      PROVE  IsRow((r \o more)[RowOf(o, s, b)], Combo(o, s), o.addrs[b])
  <2> HIDE DEF RowOf, IsRow, RowSet
  <2>1. \/ RowOf(o, s, b) \in 1..Len(r)
        \/ \E a \in 1..n : RowOf(o, s, b) = Len(r) + a
    <3>1. RowOf(o, s, b) \in Nat \ {0} /\ RowOf(o, s, b) <= Len(r) + n
          BY <1>1, <1>6, <1>8
    <3> DEFINE m == RowOf(o, s, b)
    <3>2. CASE m <= Len(r)
          BY <1>1, <3>1, <3>2
    <3>3. CASE m > Len(r)
      <4>1. m - Len(r) \in 1..n /\ m = Len(r) + (m - Len(r))
            BY <1>1, <3>1, <3>3
      <4> QED  BY <4>1
    <3> QED  BY <1>1, <3>1, <3>2, <3>3
  <2>2. CASE RowOf(o, s, b) \in 1..Len(r)
    <3>1. (r \o more)[RowOf(o, s, b)] = r[RowOf(o, s, b)] /\ RowOf(o, s, b) <= Len(r)
          BY <1>1, <2>2
    <3>2. IsRow(r[RowOf(o, s, b)], Combo(o, s), o.addrs[b])
          BY <1>2, <3>1 DEF Placed
    <3> QED  BY <3>1, <3>2
  <2>3. ASSUME NEW a \in 1..n, RowOf(o, s, b) = Len(r) + a
        PROVE  IsRow((r \o more)[RowOf(o, s, b)], Combo(o, s), o.addrs[b])
    <3>1. RowOf(o, s, b) = RowOf(o, t, a)
          BY <1>7, <2>3
    <3>2. s = t /\ a = b
          BY <3>1, RowsApart DEF n
    <3>3. (r \o more)[RowOf(o, s, b)] = more[a]
          BY <1>1, <2>3
    <3>4. IsRow(more[a], Combo(o, t), o.addrs[a])
          BY DEF n
    <3> QED  BY <3>2, <3>3, <3>4
  <2> QED  BY <2>1, <2>2, <2>3
<1>9. Len(r \o more) = RowOf(o, t, n)
      BY <1>1, <1>5, <1>7
<1> QED  BY <1>2, <1>8, <1>9 DEF Placed, n

\* The places of the rows, round after round.
LEMMA RowsOf ==
    ASSUME NEW o \in Calls, o.kind = "find_devices"
    PROVE  /\ RowOf(o, 1, 1) = 1
           /\ RowOf(o, Rounds(o) + 1, 1) = Cardinality(InPlan(o)) * Len(o.addrs) + 1
           /\ \A t \in InPlan(o) : RowOf(o, t + 1, 1) = RowOf(o, t, Len(o.addrs)) + 1
           /\ \A t \in Nat \ InPlan(o) : RowOf(o, t + 1, 1) = RowOf(o, t, 1)
           /\ \A t \in InPlan(o), a \in 1..Len(o.addrs) :
                  /\ RowOf(o, t, a) \in Nat \ {0}
                  /\ RowOf(o, t, a) <= Cardinality(InPlan(o)) * Len(o.addrs)
                  /\ RowOf(o, t, a + 1) = RowOf(o, t, a) + 1
           /\ \A t \in Nat : RowOf(o, t, 1) <= Cardinality(InPlan(o)) * Len(o.addrs) + 1
<1> DEFINE n == Len(o.addrs)
           B(s) == Before(o, s)
           all == Cardinality(InPlan(o))
<1>1. n \in Nat \ {0} /\ InPlan(o) \subseteq Nat /\ all \in Nat
      BY RoundsAre, BeforeIs DEF InPlan
<1>2. /\ \A t \in Nat : B(t) \in Nat /\ B(t) <= all
      /\ \A t \in InPlan(o) : B(t + 1) = B(t) + 1
      /\ \A t \in Nat \ InPlan(o) : B(t + 1) = B(t)
      /\ B(1) = 0 /\ B(Rounds(o) + 1) = all
      BY BeforeIs
<1>3. \A t, a : RowOf(o, t, a) = B(t) * n + a
      BY DEF RowOf
<1> HIDE DEF n, B, all
<1>4. ASSUME NEW k \in Nat, NEW m \in Nat, k <= m
      PROVE  k * n \in Nat /\ m * n \in Nat /\ k * n <= m * n /\ (k + 1) * n = k * n + n
      BY <1>1, <1>4
<1>5. RowOf(o, 1, 1) = 1 /\ RowOf(o, Rounds(o) + 1, 1) = all * n + 1
      BY <1>1, <1>2, <1>3
<1>6. ASSUME NEW t \in InPlan(o)  PROVE RowOf(o, t + 1, 1) = RowOf(o, t, n) + 1
  <2>1. B(t) \in Nat /\ B(t + 1) = B(t) + 1
        BY <1>1, <1>2
  <2>2. (B(t) + 1) * n = B(t) * n + n /\ B(t) * n \in Nat
        BY <1>4, <2>1
  <2> QED  BY <1>1, <1>3, <2>1, <2>2
<1>7. \A t \in Nat \ InPlan(o) : RowOf(o, t + 1, 1) = RowOf(o, t, 1)
      BY <1>2, <1>3
<1>8. ASSUME NEW t \in InPlan(o), NEW a \in 1..n
      PROVE  /\ RowOf(o, t, a) \in Nat \ {0} /\ RowOf(o, t, a) <= all * n
             /\ RowOf(o, t, a + 1) = RowOf(o, t, a) + 1
  <2>1. /\ t \in Nat /\ t + 1 \in Nat /\ B(t) \in Nat /\ B(t + 1) = B(t) + 1
        /\ B(t + 1) <= all
        BY <1>1, <1>2
  <2>2. B(t) * n \in Nat /\ (B(t) + 1) * n = B(t) * n + n
        BY <1>4, <2>1
  <2>3. (B(t) + 1) * n <= all * n /\ all * n \in Nat
        BY <1>1, <1>4, <2>1
  <2>4. RowOf(o, t, a) = B(t) * n + a /\ RowOf(o, t, a + 1) = B(t) * n + (a + 1)
        BY <1>3
  <2> QED  BY <1>1, <2>2, <2>3, <2>4
<1>9. ASSUME NEW t \in Nat  PROVE RowOf(o, t, 1) <= all * n + 1
  <2>1. B(t) * n \in Nat /\ all * n \in Nat /\ B(t) * n <= all * n
        BY <1>1, <1>2, <1>4
  <2> QED  BY <1>3, <2>1
<1> QED  BY <1>5, <1>6, <1>7, <1>8, <1>9 DEF n, all

\* What a scan under way has.
LEMMA ScanHas ==
    ASSUME Sound, ScanInv, RowsInOrder, op # NONE, op.kind = "find_devices"
    PROVE  /\ op \in Calls /\ rows \in Seq(RowSet) /\ Placed(op, rows)
           /\ turn.round \in 1..(Rounds(op) + 1) /\ turn.addr \in 1..Len(op.addrs)
           /\ Rounds(op) \in Nat /\ Len(op.addrs) \in Nat \ {0}
           /\ Len(rows) = RowOf(op, turn.round, turn.addr) - 1
           /\ pc \in {"next", "open_combo"} => turn.addr = 1
           /\ pc # "next" =>
                  /\ turn.round \in InPlan(op) /\ at \in Spot
                  /\ IsRow([at |-> at], Combo(op, turn.round), op.addrs[turn.addr])
<1>1. op \in Calls /\ pc # "idle"
      BY DEF Sound, TypesInv, CallInv
<1>2. Rounds(op) \in Nat /\ Len(op.addrs) \in Nat \ {0}
      BY <1>1, RoundsAre
<1>3. /\ rows \in Seq(RowSet) /\ turn.round \in Nat \ {0} /\ turn.addr \in Nat \ {0}
      /\ turn.round <= Rounds(op) + 1 /\ turn.addr <= Len(op.addrs)
      /\ pc \in {"next", "open_combo"} => turn.addr = 1
      /\ pc # "next" => turn.round \in InPlan(op)
      BY DEF Sound, TypesInv, TurnInv
<1>4. turn.round \in 1..(Rounds(op) + 1) /\ turn.addr \in 1..Len(op.addrs)
      BY <1>2, <1>3
<1>5. Asked = op
      BY DEF Asked
<1>6. Placed(op, rows)
      BY <1>5 DEF RowsInOrder, Placed
<1>7. pc # "next" => at \in Spot
      BY <1>1 DEF Sound, TypesInv, AtInv
<1> QED  BY <1>1, <1>2, <1>3, <1>4, <1>6, <1>7 DEF ScanInv

\* A step that leaves the scan as it should be.
Scans ==
    /\ Placed(op, rows')
    /\ Len(rows') = RowOf(op, turn'.round, turn'.addr) - 1
    /\ pc' # "next" =>
          IsRow([at |-> at'], Combo(op, turn'.round), op.addrs[turn'.addr])

\* A row of the round and address the scan is at.
LEMMA RowDoneScans ==
    ASSUME Sound, ScanInv, RowsInOrder, op # NONE, op.kind = "find_devices",
           pc = "probe", NEW ok \in BOOLEAN, NEW replies \in SUBSET Genuine, NEW w,
           RowDone(Row(at, ok, replies), w)
    PROVE  Scans
<1> DEFINE row == Row(at, ok, replies)
           t == turn.round
           a == turn.addr
           n == Len(op.addrs)
<1>1. /\ op \in Calls /\ rows \in Seq(RowSet) /\ Placed(op, rows)
      /\ t \in InPlan(op) /\ t \in Nat /\ a \in 1..n /\ n \in Nat \ {0}
      /\ Len(rows) = RowOf(op, t, a) - 1 /\ at \in Spot
      /\ IsRow([at |-> at], Combo(op, t), op.addrs[a])
      BY ScanHas
<1>2. row \in RowSet
      BY <1>1, RowIs DEF Sound
<1>3. IsRow(row, Combo(op, t), op.addrs[a])
      BY <1>1 DEF IsRow, Row
<1>4. rows' = Append(rows, row)
      BY DEF RowDone
<1> HIDE DEF row
<1>5. Placed(op, rows') /\ Len(rows') = RowOf(op, t, a)
      BY <1>1, <1>2, <1>3, <1>4, RowPlaced
<1>6. turn \in [round : Nat \ {0}, addr : Nat \ {0}]
      BY DEF Sound, TypesInv, TurnInv
<1>7. CASE a < n
  <2>1. /\ turn' = [turn EXCEPT !.addr = @ + 1] /\ at' = [at EXCEPT !.addr = op.addrs[a + 1]]
        BY <1>7 DEF RowDone
  <2>2. turn'.round = t /\ turn'.addr = a + 1
        BY <1>6, <2>1
  <2>3. RowOf(op, t, a) \in Nat /\ RowOf(op, t, a + 1) = RowOf(op, t, a) + 1
        BY <1>1, RowsOf
  <2>4. IsRow([at |-> at'], Combo(op, t), op.addrs[a + 1])
        BY <1>1, <2>1 DEF IsRow, Spot
  <2> QED  BY <1>5, <2>2, <2>3, <2>4 DEF Scans
<1>8. CASE ~(a < n)
  <2>1. turn' = NextRound /\ pc' = "next"
        BY <1>8 DEF RowDone
  <2>2. turn'.round = t + 1 /\ turn'.addr = 1 /\ a = n
        BY <1>1, <1>8, <2>1 DEF NextRound
  <2>3. RowOf(op, t, n) \in Nat /\ RowOf(op, t + 1, 1) = RowOf(op, t, n) + 1
        BY <1>1, <2>2, RowsOf
  <2> QED  BY <1>5, <2>1, <2>2, <2>3 DEF Scans
<1> QED  BY <1>7, <1>8

\* The rows of a round that could not be made.
LEMMA NoRowsScan ==
    ASSUME Sound, ScanInv, RowsInOrder, op # NONE, op.kind = "find_devices",
           turn.round \in InPlan(op), turn.addr = 1, NEW a \in Spot,
           IsRow([at |-> a], Combo(op, turn.round), op.addrs[1]),
           rows' = rows \o NoRows(a), turn' = NextRound, pc' = "next"
    PROVE  Scans
<1> DEFINE t == turn.round
           n == Len(op.addrs)
<1>1. /\ op \in Calls /\ rows \in Seq(RowSet) /\ Placed(op, rows) /\ t \in Nat
      /\ n \in Nat \ {0} /\ Len(rows) = RowOf(op, t, 1) - 1
      BY ScanHas
<1>2. /\ NoRows(a) \in Seq(RowSet) /\ Len(NoRows(a)) = n
      /\ \A i \in 1..n : NoRows(a)[i] = Row([a EXCEPT !.addr = op.addrs[i]], FALSE, {})
      BY <1>1, NoRowsAre DEF Sound
<1>3. ASSUME NEW i \in 1..n
      PROVE  IsRow(NoRows(a)[i], Combo(op, t), op.addrs[i])
  <2>1. IsRow(Row([a EXCEPT !.addr = op.addrs[i]], FALSE, {}), Combo(op, t), op.addrs[i])
        BY DEF IsRow, Row, Spot
  <2> QED  BY <1>2, <2>1
<1>4. Placed(op, rows') /\ Len(rows') = RowOf(op, t, n)
  <2> HIDE DEF NoRows, RowSet, IsRow
  <2> QED  BY <1>1, <1>2, <1>3, RowsPlaced
<1>5. turn'.round = t + 1 /\ turn'.addr = 1
      BY DEF NextRound
<1>6. RowOf(op, t, n) \in Nat /\ RowOf(op, t + 1, 1) = RowOf(op, t, n) + 1
      BY <1>1, RowsOf
<1> QED  BY <1>4, <1>5, <1>6 DEF Scans

\* Where the first probe of a round goes.
LEMMA ComboRow ==
    ASSUME NEW o, o = op
    PROVE  IsRow([at |-> ComboAt(o)], Combo(o, turn.round), o.addrs[1])
BY DEF IsRow, ComboAt

LEMMA ScanGoesOn ==
    ASSUME Sound, ScanInv, RowsInOrder, ScanNext, op # NONE, op' = op,
           op.kind = "find_devices"
    PROVE  Scans
<1>1. CASE Prune
  <2>1. /\ pc = "next" /\ pc' = pc /\ rows' = rows /\ turn' = NextRound
        /\ Pruned(op, Combo(op, turn.round))
        BY <1>1 DEF Prune
  <2>2. turn.round \in Nat \ InPlan(op) /\ turn.addr = 1
        BY <2>1, ScanHas DEF InPlan
  <2>3. RowOf(op, turn.round + 1, 1) = RowOf(op, turn.round, 1)
        BY <2>2, ScanHas, RowsOf
  <2>4. turn'.round = turn.round + 1 /\ turn'.addr = 1
        BY <2>1 DEF NextRound
  <2> QED  BY <2>1, <2>2, <2>3, <2>4, ScanHas DEF Scans
<1>2. ASSUME Planned
      PROVE  pc = "next" /\ turn.round \in InPlan(op) /\ turn.addr = 1
      BY <1>2, ScanHas DEF Planned, More, InPlan
<1>3. CASE NextCombo
  <2>1. at' = ComboAt(op) /\ UNCHANGED <<rows, turn>> /\ turn.addr = 1
        BY <1>2, <1>3 DEF NextCombo, Step
  <2>2. IsRow([at |-> at'], Combo(op, turn.round), op.addrs[1])
        BY <2>1, ComboRow
  <2> QED  BY <2>1, <2>2, ScanHas DEF Scans
<1>4. CASE DeadPort
  <2>1. /\ rows' = rows \o NoRows(ComboAt(op)) /\ turn' = NextRound /\ pc' = pc /\ More
        /\ pc = "next" /\ turn.round \in InPlan(op) /\ turn.addr = 1
        BY <1>2, <1>4 DEF DeadPort, Planned
  <2>2. ComboAt(op) \in Spot
        BY <2>1, ComboSpot DEF Sound
  <2>3. IsRow([at |-> ComboAt(op)], Combo(op, turn.round), op.addrs[1])
        BY ComboRow
  <2> QED  BY <2>1, <2>2, <2>3, NoRowsScan
<1>5. CASE ScanEnds
  <2>1. op' = NONE
        BY <1>5 DEF ScanEnds, Ends
  <2> QED  BY <2>1
<1>6. CASE OpenCombo
  <2>1. pc = "open_combo" /\ UNCHANGED <<rows, turn, at>>
        BY <1>6 DEF OpenCombo, Step
  <2> QED  BY <2>1, ScanHas DEF Scans
<1>7. CASE ComboFails
  <2>1. ~Fails("raw")
        BY DEF Fails, Ends
  <2>2. /\ pc = "open_combo" /\ rows' = rows \o NoRows(at) /\ turn' = NextRound
        /\ pc' = "next"
        BY <1>7, <2>1 DEF ComboFails
  <2>3. /\ turn.round \in InPlan(op) /\ turn.addr = 1 /\ at \in Spot
        /\ IsRow([at |-> at], Combo(op, turn.round), op.addrs[1])
        BY <2>2, ScanHas
  <2> QED  BY <2>2, <2>3, NoRowsScan
<1>8. CASE SkipAddress \/ Expires
  <2>1. pc = "probe" /\ \E w : RowDone(Row(at, FALSE, {}), w)
        BY <1>8 DEF SkipAddress, Expires
  <2> HIDE DEF Row
  <2> QED  BY <2>1, RowDoneScans
<1>9. CASE ProbeEnds
  <2> DEFINE found == Identity(at.profile, got)
  <2>1. pc = "probe" /\ RowDone(Row(at, found # {}, found), wire) /\ Done
        BY <1>9 DEF ProbeEnds
  <2>2. found \in SUBSET Genuine
        BY <2>1, FoundAre DEF Sound
  <2> HIDE DEF found, Row
  <2> QED  BY <2>1, <2>2, RowDoneScans
<1> QED  BY <1>1, <1>3, <1>4, <1>5, <1>6, <1>7, <1>8, <1>9 DEF ScanNext

\* No more rows than the plan has.
LEMMA EnoughRows ==
    ASSUME NEW o \in Calls, o.kind = "find_devices", NEW t \in Nat,
           NEW a \in 1..Len(o.addrs), a = 1 \/ t \in InPlan(o), NEW r,
           Len(r) = RowOf(o, t, a) - 1
    PROVE  Len(r) <= Cardinality(InPlan(o)) * Len(o.addrs)
<1> DEFINE all == Cardinality(InPlan(o)) * Len(o.addrs)
<1>1. all \in Nat
  <2>1. Cardinality(InPlan(o)) \in Nat /\ Len(o.addrs) \in Nat
        BY BeforeIs, RoundsAre
  <2> QED  BY <2>1
<1>2. RowOf(o, t, a) \in Int
  <2>1. Before(o, t) \in Nat /\ Len(o.addrs) \in Nat
        BY BeforeIs, RoundsAre
  <2>2. Before(o, t) * Len(o.addrs) \in Nat
        BY <2>1
  <2> QED  BY <2>2 DEF RowOf
<1>3. RowOf(o, t, a) <= all + 1
  <2>1. CASE a = 1
        BY <2>1, RowsOf
  <2>2. CASE t \in InPlan(o)
    <3>1. RowOf(o, t, a) <= all
          BY <2>2, RowsOf
    <3> HIDE DEF all
    <3> QED  BY <1>1, <1>2, <3>1
  <2> QED  BY <2>1, <2>2
<1> HIDE DEF all
<1>4. Len(r) <= all
      BY <1>1, <1>2, <1>3
<1> QED  BY <1>4 DEF all

OrderInv == ScanInv /\ RowsInOrder

LEMMA OrderKept ==
    ASSUME Sound, TruthInv, Sound', OrderInv, [Next]_vars
    PROVE  OrderInv'
<1>1. CASE Asked' # NONE /\ Asked'.kind = "find_devices"
  <2>0. op' # NONE => Asked' = op'
        BY DEF Asked
  <2>1. ASSUME NEW o \in Calls, CallScan(o)  PROVE OrderInv'
    <3>1. /\ op' = o /\ rows' = <<>> /\ pc' = "next" /\ turn' = FirstTurn /\ o # NONE
          /\ o.kind = "find_devices"
          BY <2>1, OpeningAssumption DEF CallScan, Begin
    <3>2. RowOf(o, 1, 1) = 1 /\ Len(rows') = 0 /\ turn'.round = 1 /\ turn'.addr = 1
          BY <3>1, RowsOf DEF FirstTurn
    <3>3. ScanInv'
          BY <3>1, <3>2 DEF ScanInv
    <3>4. Cardinality(InPlan(o)) * Len(o.addrs) \in Nat
      <4>1. Cardinality(InPlan(o)) \in Nat /\ Len(o.addrs) \in Nat
            BY <3>1, BeforeIs, RoundsAre
      <4> QED  BY <4>1
    <3>5. ASSUME NEW t \in InPlan(o), NEW a \in DOMAIN o.addrs, RowOf(o, t, a) <= 0
          PROVE  FALSE
      <4>1. a \in 1..Len(o.addrs)
            BY <3>1, RoundsAre
      <4>2. RowOf(o, t, a) \in Nat \ {0}
            BY <3>1, <4>1, RowsOf
      <4> QED  BY <3>5, <4>2
    <3>6. Asked' = o /\ op' # NONE
          BY <2>0, <3>1
    <3>7. RowsInOrder'
          BY <3>2, <3>4, <3>5, <3>6 DEF RowsInOrder
    <3> QED  BY <3>3, <3>7 DEF OrderInv
  <2>2. CASE UNCHANGED <<rows, op, turn, pc, at, result>>
        BY <2>2 DEF OrderInv, ScanInv, RowsInOrder, Asked
  <2>3. CASE /\ op # NONE /\ op' = NONE /\ result'.op = op /\ UNCHANGED rows
             /\ result'.how # "ok" \/ ScanEnds
    <3>1. Asked' = op /\ Asked = op /\ op.kind = "find_devices"
          BY <1>1, <2>3 DEF Asked
    <3>2. ScanInv'
          BY <2>3 DEF ScanInv
    <3>3. /\ Placed(op, rows)
          /\ Len(rows) <= Cardinality(InPlan(op)) * Len(op.addrs)
          BY <2>3, <3>1 DEF OrderInv, RowsInOrder, Placed
    <3>4. CASE ScanEnds
      <4>1. pc = "next" /\ ~More
            BY <3>4 DEF ScanEnds
      <4>2. turn.round = Rounds(op) + 1 /\ turn.addr = 1 /\ op \in Calls
            BY <2>3, <3>1, <4>1, ScanHas DEF OrderInv, More
      <4>3. Len(rows) = RowOf(op, Rounds(op) + 1, 1) - 1
            BY <2>3, <3>1, <4>2 DEF OrderInv, ScanInv
      <4>4. Cardinality(InPlan(op)) * Len(op.addrs) \in Nat
        <5>1. Cardinality(InPlan(op)) \in Nat /\ Len(op.addrs) \in Nat
              BY <3>1, <4>2, BeforeIs, RoundsAre
        <5> QED  BY <5>1
      <4>5. RowOf(op, Rounds(op) + 1, 1) = Cardinality(InPlan(op)) * Len(op.addrs) + 1
            BY <3>1, <4>2, RowsOf
      <4>6. Len(rows) = Cardinality(InPlan(op)) * Len(op.addrs)
            BY <4>3, <4>4, <4>5
      <4> QED  BY <2>3, <3>1, <3>2, <3>3, <4>6 DEF OrderInv, RowsInOrder, Placed
    <3>5. CASE result'.how # "ok"
          BY <2>3, <3>1, <3>2, <3>3, <3>5 DEF OrderInv, RowsInOrder, Placed
    <3> QED  BY <2>3, <3>4, <3>5
  <2>4. CASE ScanNext /\ op # NONE /\ op' = op
    <3>1. op.kind = "find_devices" /\ op \in Calls /\ Asked' = op
          BY <1>1, <2>0, <2>4 DEF Sound, TypesInv, CallInv
    <3>2. Scans
          BY <2>4, <3>1, ScanGoesOn DEF OrderInv
    <3>3. ScanInv'
          BY <2>4, <3>2 DEF ScanInv, Scans
    <3>4. /\ turn'.round \in Nat \ {0} /\ turn'.addr \in Nat \ {0}
          /\ turn'.addr <= Len(op.addrs)
          /\ pc' \in {"next", "open_combo"} => turn'.addr = 1
          /\ pc' # "next" => turn'.round \in InPlan(op)
          BY <2>4, <3>1 DEF Sound, TypesInv, TurnInv
    <3>5. turn'.addr \in 1..Len(op.addrs) /\ (turn'.addr = 1 \/ turn'.round \in InPlan(op))
      <4>1. Len(op.addrs) \in Nat
            BY <3>1, RoundsAre
      <4> QED  BY <3>4, <4>1
    <3>6. Len(rows') <= Cardinality(InPlan(op)) * Len(op.addrs)
          BY <3>1, <3>2, <3>4, <3>5, EnoughRows DEF Scans
    <3>7. RowsInOrder'
          BY <2>4, <3>1, <3>2, <3>6 DEF RowsInOrder, Scans, Placed
    <3> QED  BY <3>3, <3>7 DEF OrderInv
  <2> QED  BY <1>1, <2>1, <2>2, <2>3, <2>4, WhoScans
<1>2. CASE ~(Asked' # NONE /\ Asked'.kind = "find_devices")
  <2>1. RowsInOrder'
        BY <1>2 DEF RowsInOrder
  <2>2. ScanInv'
        BY <1>2 DEF ScanInv, Asked
  <2> QED  BY <2>1, <2>2 DEF OrderInv
<1> QED  BY <1>1, <1>2

\* A scan gives a row for each address of each round of its plan, in the order of
\* find_devices' loops, each about its own port, baud, protocol and address, and
\* a scan that comes to its end has them all (discovery.py:235-289): whatever the
\* ports, bauds, plan and addresses, and however many of them fail.
THEOREM RowsComeInOrder == Spec => []RowsInOrder
<1>1. Init => OrderInv
      BY DEF Init, NoResult, OrderInv, ScanInv, RowsInOrder, Asked
<1>2. Sound /\ TruthInv /\ Sound' /\ OrderInv /\ [Next]_vars => OrderInv'
      BY OrderKept
<1>3. OrderInv => RowsInOrder
      BY DEF OrderInv
<1> QED  BY <1>1, <1>2, <1>3, TruthAlways, PTL DEF Spec
=============================================================================
