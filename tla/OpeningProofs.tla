--------------------------- MODULE OpeningProofs ---------------------------
(***************************************************************************)
(* Who holds the ports and what the variables are, proved for any ports,   *)
(* devices, settings, calls and number of calls: a call's transport is     *)
(* closed however the call ends, but for the one way out of open_device    *)
(* that closes nothing; and at each point of each call the transport in    *)
(* use, the replies kept, the rows and the settings are what they should.  *)
(***************************************************************************)
EXTENDS Opening, TLAPS

\* The call under way has a transport of its own in its hand.
Working == pc \notin NoTransport \cup {"again"}

\* Ports and sessions are records of their ports; the call under way knows its
\* port; an identify of a caller's works on the caller's transport.
Shape ==
    /\ DOMAIN wire = Port /\ DOMAIN session = Port
    /\ \A p \in Port : {"holder", "blame"} \subseteq DOMAIN wire[p]
    /\ \A p \in Port : "at" \in DOMAIN session[p] /\ "port" \in DOMAIN session[p].at
    /\ \A p \in Port : session[p] # NoSession => session[p].at.port = p
    /\ "port" \in DOMAIN at
    /\ pc = "idle" <=> op = NONE
    /\ pc = "again" => at.port \in Port /\ session[at.port] # NoSession

\* A port's holder says who works on it.
Held ==
    \A p \in Port :
        /\ wire[p].holder = "call" <=> Working /\ at.port = p
        /\ wire[p].holder = "user" <=> session[p] # NoSession
        /\ wire[p].holder = "lost" => wire[p].blame = "identify"

HInv == Shape /\ Held

\* What the steps do to the holders of the ports.
SameHolders ==
    /\ DOMAIN wire' = DOMAIN wire
    /\ \A p \in Port : /\ DOMAIN wire'[p] = DOMAIN wire[p]
                       /\ wire'[p].holder = wire[p].holder
                       /\ wire'[p].blame = wire[p].blame

-----------------------------------------------------------------------------
(***************************************************************************)
(* What the operators on wire do                                           *)
(***************************************************************************)

LEMMA ExchangedHolders ==
    ASSUME Shape, NEW e, NEW q, wire' = Exchanged(q, e)
    PROVE  SameHolders
<1>1. DOMAIN wire' = DOMAIN wire
      BY DEF Exchanged
<1>2. ASSUME NEW p \in Port
      PROVE  /\ DOMAIN wire'[p] = DOMAIN wire[p]
             /\ wire'[p].holder = wire[p].holder
             /\ wire'[p].blame = wire[p].blame
      BY DEF Exchanged, Shape
<1> QED  BY <1>1, <1>2 DEF SameHolders

LEMMA NewHolder ==
    ASSUME Shape, NEW q, NEW r, {"holder", "blame"} \subseteq DOMAIN r,
           wire' = [wire EXCEPT ![q] = r]
    PROVE  /\ DOMAIN wire' = Port
           /\ \A p \in Port : {"holder", "blame"} \subseteq DOMAIN wire'[p]
           /\ \A p \in Port : wire'[p] = IF p = q THEN r ELSE wire[p]
BY DEF Shape

\* Every call but a scan names its port.
LEMMA CallPort ==
    ASSUME NEW o \in Calls, o.kind # "find_devices"
    PROVE  o.port \in Port
BY OpeningAssumption DEF Shapes

\* No session of a transport is the one that stands for none.
LEMMA SomeSession ==
    ASSUME NEW s, s.at.port \in Port
    PROVE  s # NoSession
<1>1. NoSession.at.port = NONE
      BY DEF NoSession, NewSession, Nowhere
<1> QED  BY <1>1, OpeningAssumption

-----------------------------------------------------------------------------
(***************************************************************************)
(* The kinds of steps                                                      *)
(***************************************************************************)

\* A step that leaves holders and sessions, and a transport with its call.
LEMMA Quiet ==
    ASSUME HInv, SameHolders, session' = session, "port" \in DOMAIN at',
           pc' = "idle" <=> op' = NONE,
           Working' <=> Working, Working => at'.port = at.port,
           pc' = "again" => pc = "again" /\ at'.port = at.port
    PROVE  HInv'
<1>1. Shape'
      BY DEF HInv, Shape, SameHolders
<1>2. ASSUME NEW p \in Port
      PROVE  /\ wire'[p].holder = "call" <=> Working' /\ at'.port = p
             /\ wire'[p].holder = "user" <=> session'[p] # NoSession
             /\ wire'[p].holder = "lost" => wire'[p].blame = "identify"
      BY DEF HInv, Held, SameHolders
<1> QED  BY <1>1, <1>2 DEF HInv, Held

\* open(): a transport is taken by the call.
LEMMA Takes ==
    ASSUME HInv, ~Working, wire[at.port].holder = "free", wire' = Taken(at.port),
           session' = session, at'.port = at.port, "port" \in DOMAIN at',
           Working', op' # NONE
    PROVE  HInv'
<1> DEFINE r == [holder |-> "call", line |-> <<>>, gave |-> FALSE, blame |-> NONE]
<1>0. /\ {"holder", "blame"} \subseteq DOMAIN r /\ r.holder = "call"
      /\ wire' = [wire EXCEPT ![at.port] = r]
      BY DEF Taken
<1> HIDE DEF r
<1>1. /\ DOMAIN wire' = Port
      /\ \A p \in Port : {"holder", "blame"} \subseteq DOMAIN wire'[p]
      /\ \A p \in Port : wire'[p] = IF p = at.port THEN r ELSE wire[p]
      BY <1>0, NewHolder DEF HInv
<1>2. pc' \notin {"idle", "again"}
      BY DEF Working, NoTransport
<1>3. Shape'
      BY <1>1, <1>2 DEF HInv, Shape
<1>4. ASSUME NEW p \in Port
      PROVE  /\ wire'[p].holder = "call" <=> Working' /\ at'.port = p
             /\ wire'[p].holder = "user" <=> session'[p] # NoSession
             /\ wire'[p].holder = "lost" => wire'[p].blame = "identify"
  <2>1. CASE p = at.port
        BY <1>1, <1>0, <2>1 DEF HInv, Held
  <2>2. CASE p # at.port
        BY <1>1, <2>2 DEF HInv, Held
  <2> QED  BY <2>1, <2>2
<1> QED  BY <1>3, <1>4 DEF HInv, Held

\* The transport of the call is closed, or is left behind.
LEMMA LetsGo ==
    ASSUME HInv, Working, session' = session, "port" \in DOMAIN at',
           wire' = Freed(at.port) \/ wire' = LostAt(at.port, "identify"),
           ~Working', pc' # "again", pc' = "idle" <=> op' = NONE
    PROVE  HInv'
<1>1. PICK r : /\ wire' = [wire EXCEPT ![at.port] = r]
               /\ {"holder", "blame"} \subseteq DOMAIN r
               /\ r.holder = "free" \/ (r.holder = "lost" /\ r.blame = "identify")
  <2> DEFINE f == [holder |-> "free", line |-> <<>>, gave |-> FALSE, blame |-> NONE]
             l == [holder |-> "lost", line |-> <<>>, gave |-> FALSE,
                   blame |-> "identify"]
  <2>1. {"holder", "blame"} \subseteq DOMAIN f /\ f.holder = "free"
        OBVIOUS
  <2>2. /\ {"holder", "blame"} \subseteq DOMAIN l
        /\ l.holder = "lost" /\ l.blame = "identify"
        OBVIOUS
  <2>3. \/ wire' = [wire EXCEPT ![at.port] = f]
        \/ wire' = [wire EXCEPT ![at.port] = l]
        BY DEF Freed, LostAt
  <2> HIDE DEF f, l
  <2>4. CASE wire' = [wire EXCEPT ![at.port] = f]
        BY <2>4, <2>1
  <2>5. CASE wire' = [wire EXCEPT ![at.port] = l]
        BY <2>5, <2>2
  <2> QED  BY <2>4, <2>5, <2>3
<1>2. /\ DOMAIN wire' = Port
      /\ \A p \in Port : {"holder", "blame"} \subseteq DOMAIN wire'[p]
      /\ \A p \in Port : wire'[p] = IF p = at.port THEN r ELSE wire[p]
      BY <1>1, NewHolder DEF HInv
<1>3. Shape'
      BY <1>2 DEF HInv, Shape
<1>4. ASSUME NEW p \in Port
      PROVE  /\ wire'[p].holder = "call" <=> Working' /\ at'.port = p
             /\ wire'[p].holder = "user" <=> session'[p] # NoSession
             /\ wire'[p].holder = "lost" => wire'[p].blame = "identify"
  <2>1. CASE p = at.port
        BY <1>1, <1>2, <2>1 DEF HInv, Held
  <2>2. CASE p # at.port
        BY <1>1, <1>2, <2>2 DEF HInv, Held
  <2> QED  BY <2>1, <2>2
<1> QED  BY <1>3, <1>4 DEF HInv, Held

\* A call left by an error: a with block or finally clause closes its transport,
\* or there is none, or nothing guarded the identify of open_device.
LEMMA Failing ==
    ASSUME HInv, op # NONE, NEW how, Fails(how)
    PROVE  HInv'
<1>1. /\ op' = NONE /\ pc' = "idle" /\ at' = Nowhere /\ session' = session
      /\ wire' = Unwound
      BY DEF Fails, Ends
<1>2. "port" \in DOMAIN at' /\ ~Working'
      BY <1>1 DEF Nowhere, Working, NoTransport
<1>3. CASE Working
  <2>1. wire' = Freed(at.port) \/ wire' = LostAt(at.port, "identify")
        BY <1>1, <1>3 DEF Unwound, Working
  <2> QED  BY <1>1, <1>2, <1>3, <2>1, LetsGo
<1>4. CASE ~Working
  <2>1. pc \in NoTransport \cup {"again"} /\ pc # "identify"
        BY <1>4 DEF Working, NoTransport
  <2>2. wire' = wire
        BY <1>1, <2>1 DEF Unwound
  <2> QED  BY <1>1, <1>2, <1>4, <2>2, Quiet DEF SameHolders
<1> QED  BY <1>3, <1>4

\* The caller gets the Controller of the transport the call worked on, or that
\* it had given to the call.
LEMMA Returning ==
    ASSUME HInv, NEW s, Returns(s), op # NONE, Working \/ pc = "again",
           "at" \in DOMAIN s, "port" \in DOMAIN s.at, s.at.port = at.port
    PROVE  HInv'
<1>1. /\ op' = NONE /\ pc' = "idle" /\ at' = Nowhere
      /\ wire' = HandedOver(at.port)
      /\ session' = [session EXCEPT ![at.port] = s]
      BY DEF Returns, Ends
<1>2. "port" \in DOMAIN at' /\ ~Working' /\ pc' # "again"
      BY <1>1 DEF Nowhere, Working, NoTransport
<1>3. /\ DOMAIN wire' = Port
      /\ \A p \in Port : /\ DOMAIN wire'[p] = DOMAIN wire[p]
                         /\ wire'[p].blame = wire[p].blame
                         /\ wire'[p].holder = IF p = at.port THEN "user"
                                              ELSE wire[p].holder
      BY <1>1 DEF HInv, Shape, HandedOver
<1>4. /\ DOMAIN session' = Port
      /\ \A p \in Port : session'[p] = IF p = at.port THEN s ELSE session[p]
      BY <1>1 DEF HInv, Shape
<1>5. at.port \in Port => s # NoSession
      BY SomeSession
<1>6. Shape'
      BY <1>1, <1>2, <1>3, <1>4 DEF HInv, Shape
<1>7. ASSUME NEW p \in Port
      PROVE  /\ wire'[p].holder = "call" <=> Working' /\ at'.port = p
             /\ wire'[p].holder = "user" <=> session'[p] # NoSession
             /\ wire'[p].holder = "lost" => wire'[p].blame = "identify"
  <2>1. CASE p = at.port
        BY <1>2, <1>3, <1>4, <1>5, <2>1
  <2>2. CASE p # at.port
        BY <1>2, <1>3, <1>4, <2>2 DEF HInv, Held
  <2> QED  BY <2>1, <2>2
<1> QED  BY <1>6, <1>7 DEF HInv, Held

-----------------------------------------------------------------------------
(***************************************************************************)
(* Each step is of one of these kinds                                      *)
(***************************************************************************)

\* A call that begins has no transport of its own yet.
LEMMA Beginnings ==
    ASSUME HInv, NEW o \in Calls, Call(o)
    PROVE  HInv'
<1>1. CASE Refuse(o)
  <2>1. UNCHANGED <<wire, session, op, pc, at>>
        BY <1>1 DEF Refuse
  <2> QED  BY <2>1, Quiet DEF SameHolders, Working, HInv, Shape
<1>2. ASSUME Begin(o)
      PROVE  /\ pc = "idle" /\ op' = o /\ op' # NONE /\ wire' = wire
             /\ session' = session /\ ~Working
      BY <1>2, OpeningAssumption DEF Begin, HInv, Shape, Working, NoTransport
<1>3. CASE CallOpen(o) \/ CallMaintenance(o)
  <2>1. Begin(o) /\ "port" \in DOMAIN at' /\ pc' \in {"open_std", "open"}
        BY <1>3 DEF CallOpen, CallMaintenance, At, FirstOpen
  <2>2. ~Working' /\ pc' \notin {"idle", "again"}
        BY <2>1 DEF Working, NoTransport
  <2> QED  BY <1>2, <2>1, <2>2, Quiet DEF SameHolders
<1>4. CASE CallScan(o)
  <2>1. Begin(o) /\ "port" \in DOMAIN at' /\ pc' = "next"
        BY <1>4 DEF CallScan, Nowhere
  <2>2. ~Working' /\ pc' \notin {"idle", "again"}
        BY <2>1 DEF Working, NoTransport
  <2> QED  BY <1>2, <2>1, <2>2, Quiet DEF SameHolders
<1>5. CASE CallIdentify(o)
  <2>1. /\ Begin(o) /\ o.port \in Port /\ session[o.port] # NoSession
        /\ at' = session[o.port].at /\ pc' = "again"
        BY <1>5, CallPort DEF CallIdentify
  <2>2. at'.port = o.port /\ "port" \in DOMAIN at' /\ ~Working'
        BY <2>1 DEF HInv, Shape, Working
  <2>3. Shape'
        BY <1>2, <2>1, <2>2 DEF HInv, Shape
  <2>4. Held'
        BY <1>2, <2>1, <2>2 DEF HInv, Held
  <2> QED  BY <2>3, <2>4 DEF HInv
<1> QED  BY <1>1, <1>3, <1>4, <1>5 DEF Call

\* open_device, detect_protocol, identify, and the closing by the caller.
LEMMA OpenSteps ==
    ASSUME HInv, OpenNext
    PROVE  HInv'
<1>1. pc # "idle" => op # NONE
      BY DEF HInv, Shape
<1>2. ASSUME NEW point, Step(point)
      PROVE  op' = op /\ pc' = point /\ session' = session
      BY <1>2 DEF Step
<1>3. ASSUME NEW p \in Port, CallClose(p)
      PROVE  HInv'
  <2>1. /\ wire' = Freed(p) /\ wire[p].holder = "user"
        /\ session' = [session EXCEPT ![p] = NoSession]
        /\ UNCHANGED <<op, pc, at>>
        BY <1>3 DEF CallClose, callVars
  <2> DEFINE f == [holder |-> "free", line |-> <<>>, gave |-> FALSE, blame |-> NONE]
  <2>2. /\ {"holder", "blame"} \subseteq DOMAIN f /\ f.holder = "free"
        /\ wire' = [wire EXCEPT ![p] = f]
        BY <2>1 DEF Freed
  <2> HIDE DEF f
  <2>3. /\ DOMAIN wire' = Port
        /\ \A q \in Port : {"holder", "blame"} \subseteq DOMAIN wire'[q]
        /\ \A q \in Port : wire'[q] = IF q = p THEN f ELSE wire[q]
        BY <2>2, NewHolder DEF HInv
  <2>4. /\ DOMAIN session' = Port
        /\ \A q \in Port : session'[q] = IF q = p THEN NoSession ELSE session[q]
        BY <2>1 DEF HInv, Shape
  <2>5. "at" \in DOMAIN NoSession /\ "port" \in DOMAIN NoSession.at
        BY DEF NoSession, NewSession, Nowhere
  <2>6. op = NONE
        BY <1>3 DEF CallClose
  <2>7. pc = "idle" /\ Working' = FALSE /\ Working = FALSE
        BY <2>1, <2>6 DEF HInv, Shape, Working, NoTransport
  <2>8. Shape'
        BY <2>1, <2>3, <2>4, <2>5, <2>7 DEF HInv, Shape
  <2>9. Held'
        BY <2>1, <2>2, <2>3, <2>4, <2>7 DEF HInv, Held
  <2> QED  BY <2>8, <2>9 DEF HInv
<1>4. CASE Open \/ TryStdbus \/ TryModbus
  <2>1. /\ pc \in {"open", "open_std", "open_mod"}
        /\ pc' \in {"identify", "probe_std", "probe_mod"}
        /\ Opens(at.port) /\ at' = at /\ op' = op /\ session' = session
        BY <1>2, <1>4 DEF Open, TryStdbus, TryModbus
  <2>2. ~Working /\ Working' /\ op # NONE
        BY <1>1, <2>1 DEF Working, NoTransport
  <2> QED  BY <2>1, <2>2, Takes DEF Opens, HInv, Shape
<1>5. CASE OpenFails \/ SkipModbus \/ BadAddress \/ StrictRead
  <2>1. \E how : Fails(how)
        BY <1>5 DEF OpenFails, SkipModbus, BadAddress, StrictRead
  <2>2. pc # "idle"
        BY <1>5 DEF OpenFails, SkipModbus, BadAddress, StrictRead, Asking, Reading
  <2> QED  BY <1>1, <2>1, <2>2, Failing
<1>6. CASE SkipStdbus
  <2>1. /\ pc = "open_std" /\ pc' = "open_mod" /\ wire' = wire /\ session' = session
        /\ op' = op /\ at' = [at EXCEPT !.proto = "mod"]
        BY <1>2, <1>6 DEF SkipStdbus, NotStdbus
  <2>2. ~Working /\ ~Working' /\ "port" \in DOMAIN at' /\ op # NONE
        BY <1>1, <2>1 DEF Working, NoTransport, HInv, Shape
  <2> QED  BY <2>1, <2>2, Quiet DEF SameHolders
<1>7. CASE Probed
  <2>1. /\ pc \in {"probe_std", "probe_mod"} /\ pc' = "identify" /\ at' = at
        /\ session' = session /\ op' = op
        /\ \E e : wire' = Exchanged(at.port, e)
        BY <1>2, <1>7 DEF Probed
  <2>2. Working /\ Working' /\ op # NONE
        BY <1>1, <2>1 DEF Working, NoTransport
  <2>3. SameHolders
        BY <2>1, ExchangedHolders DEF HInv
  <2> QED  BY <2>1, <2>2, <2>3, Quiet DEF HInv, Shape
<1>8. CASE ProbeFails
  <2>1. /\ pc \in {"probe_std", "probe_mod"}
        /\ NotStdbus(Freed(at.port)) \/ Fails("error")
        BY <1>8 DEF ProbeFails
  <2>2. Working /\ op # NONE
        BY <1>1, <2>1 DEF Working, NoTransport
  <2>3. CASE NotStdbus(Freed(at.port))
    <3>1. /\ pc' = "open_mod" /\ wire' = Freed(at.port) /\ session' = session
          /\ op' = op /\ at' = [at EXCEPT !.proto = "mod"]
          BY <1>2, <2>3 DEF NotStdbus
    <3>2. ~Working' /\ "port" \in DOMAIN at'
          BY <3>1 DEF Working, NoTransport, HInv, Shape
    <3> QED  BY <2>2, <3>1, <3>2, LetsGo
  <2> QED  BY <2>1, <2>2, <2>3, Failing
<1>9. CASE Read
  <2>1. /\ pc \in Reading /\ pc' = pc /\ at' = at /\ session' = session /\ op' = op
        /\ \E e : wire' = Exchanged(at.port, e)
        BY <1>2, <1>9 DEF Read, Asking
  <2>2. SameHolders
        BY <2>1, ExchangedHolders DEF HInv
  <2> QED  BY <2>1, <2>2, Quiet DEF HInv, Shape, Working
<1>10. CASE OpenReturns
  <2>1. pc = "identify" /\ op # NONE /\ Working
        BY <1>1, <1>10 DEF OpenReturns, Working, NoTransport
  <2>2. /\ "at" \in DOMAIN NewSession(at) /\ NewSession(at).at = at
        /\ "at" \in DOMAIN Identified(NewSession(at), got)
        /\ Identified(NewSession(at), got).at = at
        /\ "port" \in DOMAIN at
        BY DEF NewSession, Identified, HInv, Shape
  <2>3. CASE op.identify
        BY <1>10, <2>1, <2>2, <2>3, Returning DEF OpenReturns
  <2>4. CASE ~op.identify
        BY <1>10, <2>1, <2>2, <2>4, Returning DEF OpenReturns
  <2> QED  BY <2>3, <2>4
<1>11. CASE IdentifyReturns
  <2>1. /\ pc = "again" /\ op # NONE /\ at.port \in Port
        /\ Returns(Identified(session[at.port], got))
        BY <1>1, <1>11 DEF IdentifyReturns, HInv, Shape
  <2>2. /\ "at" \in DOMAIN session[at.port] /\ "port" \in DOMAIN session[at.port].at
        /\ session[at.port].at.port = at.port
        BY <1>11, <2>1 DEF IdentifyReturns, HInv, Shape
  <2>3. /\ "at" \in DOMAIN Identified(session[at.port], got)
        /\ Identified(session[at.port], got).at = session[at.port].at
        BY <2>2 DEF Identified
  <2> QED  BY <1>11, <2>1, <2>2, <2>3, Returning DEF IdentifyReturns
<1>12. CASE Cancel
  <2>1. op # NONE
        BY <1>12 DEF Cancel
  <2>2. CASE pc = "again"
    <3>1. /\ op' = NONE /\ pc' = "idle" /\ at' = Nowhere /\ session' = session
          /\ \E e : wire' = Exchanged(at.port, e)
          BY <1>12, <2>2 DEF Cancel, Ends
    <3>2. ~Working /\ ~Working' /\ "port" \in DOMAIN at'
          BY <2>2, <3>1 DEF Working, NoTransport, Nowhere
    <3>3. SameHolders
          BY <3>1, ExchangedHolders DEF HInv
    <3> QED  BY <3>1, <3>2, <3>3, Quiet
  <2>3. CASE pc # "again"
        BY <1>12, <2>1, <2>3, Failing DEF Cancel
  <2> QED  BY <2>2, <2>3
<1> QED  BY <1>3, <1>4, <1>5, <1>6, <1>7, <1>8, <1>9, <1>10, <1>11, <1>12 DEF OpenNext

\* The maintenance calls: the write closes the transport it went over, and the
\* device is reopened on another.
LEMMA MaintenanceSteps ==
    ASSUME HInv, MaintenanceNext
    PROVE  HInv'
<1>1. pc # "idle" => op # NONE
      BY DEF HInv, Shape
<1>2. ASSUME NEW point, Step(point)
      PROVE  op' = op /\ pc' = point /\ session' = session
      BY <1>2 DEF Step
<1>3. CASE OpenedForChange
  <2>1. /\ pc = "identify" /\ pc' \in {"verify", "gate", "write"} /\ at' = at
        /\ wire' = wire /\ session' = session /\ op' = op
        BY <1>2, <1>3 DEF OpenedForChange
  <2>2. Working /\ Working' /\ op # NONE
        BY <1>1, <2>1 DEF Working, NoTransport
  <2> QED  BY <2>1, <2>2, Quiet DEF HInv, Shape, SameHolders
<1>4. CASE Gate
  <2>1. pc = "gate" /\ op # NONE
        BY <1>1, <1>4 DEF Gate
  <2>2. CASE Fails("refused")
        BY <2>1, <2>2, Failing
  <2>3. CASE ~Fails("refused")
    <3>1. /\ pc' = "write" /\ at' = at /\ wire' = wire /\ session' = session /\ op' = op
          BY <1>2, <1>4, <2>3 DEF Gate
    <3>2. Working /\ Working'
          BY <2>1, <3>1 DEF Working, NoTransport
    <3> QED  BY <2>1, <3>1, <3>2, Quiet DEF HInv, Shape, SameHolders
  <2> QED  BY <2>2, <2>3
<1>5. CASE Write
  <2>1. /\ pc = "write" /\ wire' = Freed(at.port) /\ session' = session
        /\ \/ pc' = "sleep" /\ op' = op /\ at' = at
           \/ op' = NONE /\ pc' = "idle" /\ at' = Nowhere
        BY <1>5 DEF Write
  <2>2. Working /\ ~Working' /\ op # NONE /\ pc' # "again"
        BY <1>1, <2>1 DEF Working, NoTransport
  <2>3. "port" \in DOMAIN at'
        BY <2>1 DEF HInv, Shape, Nowhere
  <2> QED  BY <2>1, <2>2, <2>3, LetsGo
<1>6. CASE Reopen
  <2>1. /\ pc = "sleep" /\ pc' = "open" /\ wire' = wire /\ session' = session
        /\ op' = op /\ at' = NewPlace(op)
        BY <1>6 DEF Reopen
  <2>2. "port" \in DOMAIN NewBaud(op) /\ "port" \in DOMAIN NewModbusAddress(op)
        BY DEF NewBaud, NewModbusAddress, At
  <2>3. "port" \in DOMAIN NewStdbusAddress(op) /\ "port" \in DOMAIN NewProtocol(op)
        BY DEF NewStdbusAddress, NewProtocol, At
  <2>4. "port" \in DOMAIN at'
        BY <2>1, <2>2, <2>3 DEF NewPlace
  <2>5. ~Working /\ ~Working' /\ op # NONE
        BY <1>1, <2>1 DEF Working, NoTransport
  <2> QED  BY <2>1, <2>4, <2>5, Quiet DEF SameHolders
<1>7. CASE Verified
  <2>1. /\ pc = "verify" /\ wire' = Freed(at.port) /\ session' = session
        /\ op' = NONE /\ pc' = "idle" /\ at' = Nowhere
        BY <1>7 DEF Verified, Ends
  <2>2. Working /\ ~Working' /\ "port" \in DOMAIN at'
        BY <2>1 DEF Working, NoTransport, Nowhere
  <2> QED  BY <2>1, <2>2, LetsGo
<1> QED  BY <1>3, <1>4, <1>5, <1>6, <1>7 DEF MaintenanceNext

\* A row of a scan is added: the transport goes on to the next address, or goes.
LEMMA RowAdded ==
    ASSUME HInv, op # NONE, pc = "probe", NEW row, NEW w, RowDone(row, w),
           w = wire \/ \E e : w = Exchanged(at.port, e)
    PROVE  HInv'
<1>1. session' = session /\ op' = op
      BY DEF RowDone
<1>2. Working
      BY DEF Working, NoTransport
<1>3. CASE pc' = "probe"
  <2>1. /\ wire' = w /\ "port" \in DOMAIN at' /\ at'.port = at.port
        BY <1>3 DEF RowDone, HInv, Shape
  <2>2. Working'
        BY <1>3 DEF Working, NoTransport
  <2>3. SameHolders
        BY <2>1, ExchangedHolders DEF HInv, SameHolders
  <2> QED  BY <1>1, <1>2, <1>3, <2>1, <2>2, <2>3, Quiet
<1>4. CASE pc' # "probe"
  <2>1. pc' = "next" /\ wire' = Freed(at.port) /\ at' = at
        BY <1>4 DEF RowDone
  <2>2. ~Working'
        BY <2>1 DEF Working, NoTransport
  <2> QED  BY <1>1, <1>2, <2>1, <2>2, LetsGo DEF HInv, Shape
<1> QED  BY <1>3, <1>4

LEMMA ScanSteps ==
    ASSUME HInv, ScanNext
    PROVE  HInv'
<1>1. pc # "idle" => op # NONE
      BY DEF HInv, Shape
<1>2. ASSUME NEW point, Step(point)
      PROVE  op' = op /\ pc' = point /\ session' = session
      BY <1>2 DEF Step
<1>3. CASE NextCombo
  <2>1. /\ pc = "next" /\ pc' = "open_combo" /\ wire' = wire /\ session' = session
        /\ op' = op /\ at' = ComboAt(op)
        BY <1>2, <1>3 DEF NextCombo, Planned
  <2>2. ~Working /\ ~Working' /\ "port" \in DOMAIN at' /\ op # NONE
        BY <1>1, <2>1 DEF Working, NoTransport, ComboAt
  <2> QED  BY <2>1, <2>2, Quiet DEF SameHolders
<1>4. CASE Prune \/ DeadPort
  <2>1. UNCHANGED <<wire, session, op, pc, at>>
        BY <1>4 DEF Prune, DeadPort
  <2> QED  BY <2>1, Quiet DEF SameHolders, Working, HInv, Shape
<1>5. CASE ScanEnds
  <2>1. /\ pc = "next" /\ op' = NONE /\ pc' = "idle" /\ at' = Nowhere
        /\ wire' = wire /\ session' = session
        BY <1>5 DEF ScanEnds, Ends
  <2>2. ~Working /\ ~Working' /\ "port" \in DOMAIN at'
        BY <2>1 DEF Working, NoTransport, Nowhere
  <2> QED  BY <2>1, <2>2, Quiet DEF SameHolders
<1>6. CASE OpenCombo
  <2>1. /\ pc = "open_combo" /\ pc' = "probe" /\ Opens(at.port) /\ at' = at
        /\ op' = op /\ session' = session
        BY <1>2, <1>6 DEF OpenCombo
  <2>2. ~Working /\ Working' /\ op # NONE
        BY <1>1, <2>1 DEF Working, NoTransport
  <2> QED  BY <2>1, <2>2, Takes DEF Opens, HInv, Shape
<1>7. CASE ComboFails
  <2>1. pc = "open_combo" /\ op # NONE
        BY <1>1, <1>7 DEF ComboFails
  <2>2. CASE Fails("raw")
        BY <2>1, <2>2, Failing
  <2>3. CASE ~Fails("raw")
    <3>1. /\ pc' = "next" /\ UNCHANGED <<wire, op, at, session>>
          BY <1>7, <2>3 DEF ComboFails
    <3>2. ~Working /\ ~Working'
          BY <2>1, <3>1 DEF Working, NoTransport
    <3> QED  BY <2>1, <3>1, <3>2, Quiet DEF SameHolders, HInv, Shape
  <2> QED  BY <2>2, <2>3
<1>8. CASE SkipAddress
  <2>1. pc = "probe" /\ RowDone(Row(at, FALSE, {}), wire)
        BY <1>8 DEF SkipAddress
  <2> HIDE DEF Row
  <2> QED  BY <1>1, <2>1, RowAdded
<1>9. CASE ProbeEnds
  <2>1. pc = "probe" /\ \E row : RowDone(row, wire)
        BY <1>9 DEF ProbeEnds
  <2> QED  BY <1>1, <2>1, RowAdded
<1>10. CASE Expires
  <2>1. pc = "probe" /\ \E row, e : RowDone(row, Exchanged(at.port, e))
        BY <1>10 DEF Expires
  <2> QED  BY <1>1, <2>1, RowAdded
<1> QED  BY <1>3, <1>4, <1>5, <1>6, <1>7, <1>8, <1>9, <1>10 DEF ScanNext

-----------------------------------------------------------------------------
(***************************************************************************)
(* The result                                                              *)
(***************************************************************************)

LEMMA HoldersAlways == Spec => []HInv
<1>1. Init => HInv
  <2> SUFFICES ASSUME Init PROVE HInv
      OBVIOUS
  <2>1. /\ DOMAIN wire = Port /\ DOMAIN session = Port
        /\ \A p \in Port : /\ {"holder", "blame"} \subseteq DOMAIN wire[p]
                           /\ wire[p].holder = "free"
                           /\ session[p] = NoSession
        BY DEF Init, SegmentInit
  <2>2. "at" \in DOMAIN NoSession /\ "port" \in DOMAIN NoSession.at
        BY DEF NoSession, NewSession, Nowhere
  <2>3. op = NONE /\ pc = "idle" /\ "port" \in DOMAIN at
        BY DEF Init, Nowhere
  <2>4. ~Working
        BY <2>3 DEF Working, NoTransport
  <2>5. Shape
        BY <2>1, <2>2, <2>3 DEF Shape
  <2>6. Held
        BY <2>1, <2>4 DEF Held
  <2> QED  BY <2>5, <2>6 DEF HInv
<1>2. HInv /\ [Next]_vars => HInv'
  <2> SUFFICES ASSUME HInv, [Next]_vars PROVE HInv'
      OBVIOUS
  <2>1. CASE UNCHANGED vars \/ Environment
    <3>1. UNCHANGED <<wire, session, op, pc, at>>
          BY <2>1 DEF vars, callVars, Environment, TakesEffect
    <3> QED  BY <3>1, Quiet DEF SameHolders, Working, HInv, Shape
  <2> QED  BY <2>1, Beginnings, OpenSteps, MaintenanceSteps, ScanSteps DEF Next
<1> QED  BY <1>1, <1>2, PTL DEF Spec

\* Detection, open_device, identify, the maintenance helpers and the scan close
\* each transport they open, or hand it to their caller in a Controller, however
\* they end; what stays open behind nobody comes from open_device's identify.
THEOREM AlwaysHandedOrClosed == Spec => []HandedOrClosed
<1>1. HInv => HandedOrClosed
  <2> SUFFICES ASSUME HInv PROVE HandedOrClosed
      OBVIOUS
  <2>1. Working <=> op # NONE /\ pc \notin NoTransport \cup {"again"}
        BY DEF HInv, Shape, Working, NoTransport
  <2> QED  BY <2>1 DEF HInv, Held, HandedOrClosed, Working
<1> QED  BY <1>1, HoldersAlways, PTL

-----------------------------------------------------------------------------
(***************************************************************************)
(* What the variables are                                                  *)
(***************************************************************************)

Location == [proto : Proto, framing : Framing, addr : Int]
Spot == [port : Port, proto : Proto, framing : Framing, addr : Int, profile : Family]
Parameter == {"part_number", "hardware_id", "firmware_id", "serial_number", "protocol",
              "software_id", "software_version", "software_build",
              "serial_number_high", "serial_number_low", "units", "model_code",
              "input_1_decimal", "text", "other"}

\* The replies devices make: a model code is an F4P's, on Standard Bus answer
\* EZ-ZONEs and on Modbus the devices that have it.
Genuine ==
    {r \in [who : Device, to : Location, param : Parameter] :
        /\ r.param = "model_code" => Make[r.who].family = "f4p"
        /\ IF r.to.proto = "std" THEN Make[r.who].family = "ez" ELSE Make[r.who].modbus}

Handle == [holder : Holder, line : Seq(Genuine), gave : BOOLEAN, blame : {"identify", NONE}]

\* A device speaks what it can, and only EZ-ZONEs are ever set to Standard Bus.
DevicesInv ==
    /\ running \in [Device -> Setting] /\ eeprom \in [Device -> Setting]
    /\ \A d \in Device :
           /\ IF running[d].proto = "std" THEN Make[d].family = "ez" ELSE Make[d].modbus
           /\ eeprom[d].proto = "std" => Make[d].family = "ez"

\* On a transport no exchange of which was given up nothing is still to come.
WireInv ==
    /\ wire \in [Port -> Handle]
    /\ \A p \in Port : /\ Len(wire[p].line) <= MaxLine
                       /\ ~wire[p].gave => wire[p].line = <<>>

OpenPoints == {"open_std", "probe_std", "open_mod", "probe_mod", "open", "identify"}
PointsOf(kind) ==
    CASE kind = "open_device" -> OpenPoints
      [] kind = "identify" -> {"again"}
      [] kind = "find_devices" -> {"next", "open_combo", "probe"}
      [] OTHER -> OpenPoints \cup {"gate", "verify", "write", "sleep"}

\* Where each kind of call can be, and with what.
CallInv ==
    /\ op \in Calls \cup {NONE} /\ pc \in Points
    /\ pc = "idle" <=> op = NONE
    /\ op # NONE => pc \in PointsOf(op.kind)
    /\ phase \in {"change", "verify"}
    /\ phase = "verify" => op # NONE /\ op.kind \in Maintenance
                           /\ pc \in {"open", "identify", "verify"}
    /\ pc = "verify" => phase = "verify"
    /\ pc = "gate" => op.kind = "change_protocol_mode"
    /\ op # NONE /\ op.kind \in Maintenance => op.confirm /\ TargetOk(op)
    /\ calls \in 0..MaxCalls

AtInv ==
    /\ at \in Spot \cup {Nowhere}
    /\ pc \notin {"idle", "next"} => at \in Spot
    /\ op # NONE /\ op.kind \in Maintenance => at.profile = "ez"

GotInv ==
    /\ got \in Seq(Genuine \cup {NONE})
    /\ got # <<>> => pc \in Reading \cup {"write"}
    /\ pc \in Reading \cup {"write"} => Len(got) <= Len(Reads(at.profile, Query))

Healths == {"none", "failed", "partial", "ok"}
Sessions == [at : Spot \cup {Nowhere}, health : Healths, who : Device \cup {NONE},
             unitRead : BOOLEAN, unit : {"C", "F", NONE}, decimals : 0..3]
ResultInv ==
    /\ result \in [op : Calls \cup {NONE}, how : Ways, late : BOOLEAN,
                   to : SUBSET Location]
    /\ told \subseteq [who : Device, gave : BOOLEAN, alone : BOOLEAN]
    /\ dead \subseteq Port
SessionInv ==
    /\ session \in [Port -> Sessions]
    /\ \A p \in Port : session[p] # NoSession => session[p].at \in Spot

RowSet == [at : Spot, ok : BOOLEAN, replies : SUBSET Genuine, gave : BOOLEAN]
TurnInv ==
    /\ turn \in [round : Nat \ {0}, addr : Nat \ {0}]
    /\ rows \in Seq(RowSet)
    /\ op # NONE /\ op.kind = "find_devices" =>
          /\ turn.round <= Rounds(op) + 1 /\ turn.addr <= Len(op.addrs)
          /\ pc \in {"next", "open_combo"} => turn.addr = 1
          /\ pc # "next" => turn.round \in InPlan(op)

TypesInv == DevicesInv /\ WireInv /\ CallInv /\ AtInv /\ GotInv /\ ResultInv
            /\ SessionInv /\ TurnInv
-----------------------------------------------------------------------------
(***************************************************************************)
(* What an exchange may bring                                              *)
(***************************************************************************)

\* The reply and the frames to come are among those that were there or sent; on
\* a silent line a reply is the answer just sent, and on Modbus it always is.
LEMMA OutcomesOf ==
    ASSUME NEW S, NEW p \in Port, NEW proto, NEW sent \in Seq(S), Len(sent) <= 1,
           wire[p].line \in Seq(S), Len(wire[p].line) <= MaxLine,
           NEW e \in Outcomes(p, proto, sent)
    PROVE  /\ e.line \in Seq(S) /\ Len(e.line) <= MaxLine
           /\ e.reply \in S \cup {NONE}
           /\ wire[p].line = <<>> \/ proto = "mod" =>
                 e.reply = NONE \/ (sent # <<>> /\ e.reply = sent[1])
           /\ wire[p].line = <<>> /\ e.reply # NONE => e.line = <<>>
<1> DEFINE late == wire[p].line \o sent
           kept == IF Len(late) < MaxLine THEN Len(late) ELSE MaxLine
<1>1. /\ late \in Seq(S) /\ Len(late) <= MaxLine + 1
      /\ Len(late) = Len(wire[p].line) + Len(sent)
      /\ MaxLine \in Nat
      BY SegmentAssumption
<1>2. <<>> \in Seq(S) /\ Len(<<>>) <= MaxLine
      BY <1>1
<1>3. CASE proto = "mod"
  <2>1. \/ e = [reply |-> NONE, line |-> <<>>]
        \/ \E i \in DOMAIN sent : e = [reply |-> sent[i], line |-> <<>>]
        BY <1>3 DEF Outcomes
  <2>2. CASE e = [reply |-> NONE, line |-> <<>>]
    <3>1. e.reply = NONE /\ e.line = <<>>
          BY <2>2
    <3> QED  BY <3>1, <1>2
  <2>3. ASSUME NEW i \in DOMAIN sent, e = [reply |-> sent[i], line |-> <<>>]
        PROVE  /\ e.line = <<>> /\ e.reply = sent[1] /\ e.reply \in S /\ sent # <<>>
    <3>1. i = 1 /\ sent # <<>> /\ sent[i] \in S
          OBVIOUS
    <3>2. e.reply = sent[i] /\ e.line = <<>>
          BY <2>3
    <3> QED  BY <3>1, <3>2
  <2> HIDE DEF late, kept
  <2>4. CASE \E i \in DOMAIN sent : e = [reply |-> sent[i], line |-> <<>>]
        BY <2>4, <2>3, <1>2
  <2> QED  BY <2>1, <2>2, <2>4
<1>4. CASE proto # "mod"
  <2>1. \/ e = [reply |-> NONE, line |-> SubSeq(late, 1, kept)]
        \/ late # <<>> /\ e = [reply |-> Head(late), line |-> Tail(late)]
        BY <1>4 DEF Outcomes
  <2>2. CASE e = [reply |-> NONE, line |-> SubSeq(late, 1, kept)]
    <3>1. kept \in Nat /\ kept <= Len(late) /\ kept <= MaxLine
          BY <1>1
    <3> HIDE DEF kept, late
    <3>2. SubSeq(late, 1, kept) \in Seq(S) /\ Len(SubSeq(late, 1, kept)) = kept
          BY <1>1, <3>1
    <3> QED  BY <2>2, <3>1, <3>2
  <2>3. CASE late # <<>> /\ e = [reply |-> Head(late), line |-> Tail(late)]
    <3>1. Head(late) \in S /\ Tail(late) \in Seq(S) /\ Len(Tail(late)) <= MaxLine
          BY <1>1, <2>3
    <3>2. ASSUME wire[p].line = <<>>
          PROVE  sent # <<>> /\ Head(late) = sent[1] /\ Tail(late) = <<>>
      <4>1. Len(sent) = 1 /\ late = sent
            BY <1>1, <2>3, <3>2
      <4>2. sent \in Seq(S) /\ Len(sent) = 1 /\ sent # <<>>
            BY <4>1, <2>3
      <4> HIDE DEF late
      <4>3. Head(sent) = sent[1]
            BY <4>2
      <4>4. Tail(sent) \in Seq(S) /\ Len(Tail(sent)) = 0
            BY <4>2, <4>3
      <4>5. Tail(sent) = <<>>
            BY <4>4
      <4> QED  BY <4>1, <4>2, <4>3, <4>5
    <3>3. e.reply = Head(late) /\ e.line = Tail(late)
          BY <2>3
    <3> HIDE DEF late, kept
    <3> QED  BY <3>1, <3>2, <3>3, <1>4
  <2> QED  BY <2>1, <2>2, <2>3
<1> QED  BY <1>3, <1>4

\* The parameters the strategies read; only F4P's asks for a model code.
LEMMA ReadsAre ==
    ASSUME NEW profile \in Family, NEW query \in BOOLEAN
    PROVE  /\ Reads(profile, query) \in Seq(Parameter)
           /\ Len(Reads(profile, query)) \in 4..6
           /\ \A i \in DOMAIN Reads(profile, query) :
                  Reads(profile, query)[i] = "model_code" => profile = "f4p"
<1> DEFINE four == <<"part_number", "hardware_id", "firmware_id", "serial_number">>
           last == IF query THEN <<"protocol">> ELSE <<>>
<1>1. CASE profile = "ez"
  <2>1. Reads(profile, query) = four \o last
        BY <1>1 DEF Reads, EzReads
  <2>2. /\ four \in Seq(Parameter \ {"model_code"}) /\ Len(four) = 4
        BY DEF Parameter
  <2>3. last \in Seq(Parameter \ {"model_code"}) /\ Len(last) \in 0..1
    <3>1. CASE query
      <4>1. "protocol" \in Parameter \ {"model_code"}
            BY DEF Parameter
      <4> QED  BY <3>1, <4>1
    <3>2. CASE ~query
          BY <3>2
    <3> QED  BY <3>1, <3>2
  <2> DEFINE some == Parameter \ {"model_code"}
             all == four \o last
  <2>4. four \in Seq(some) /\ last \in Seq(some)
        BY <2>2, <2>3
  <2> HIDE DEF four, last, some
  <2>5. all \in Seq(some) /\ Len(all) = Len(four) + Len(last)
        BY <2>4
  <2>6. Len(all) \in 4..6
    <3>1. Len(all) = 4 + Len(last)
          BY <2>2, <2>5
    <3>2. Len(last) = 0 \/ Len(last) = 1
          BY <2>3
    <3> HIDE DEF all
    <3>3. Len(all) = 4 \/ Len(all) = 5
      <4> DEFINE m == Len(last)
                 n == Len(all)
      <4>1. n = 4 + m /\ (m = 0 \/ m = 1)
            BY <3>1, <3>2
      <4> HIDE DEF m, n
      <4>2. n = 4 \/ n = 5
            BY <4>1
      <4> QED  BY <4>2 DEF n
    <3>4. 4 \in 4..6 /\ 5 \in 4..6
          OBVIOUS
    <3> QED  BY <3>3, <3>4, Zenon
  <2> HIDE DEF all
  <2>7. \A i \in DOMAIN all : all[i] \in some
        BY <2>5
  <2>8. \A i \in DOMAIN all : all[i] \in Parameter /\ all[i] # "model_code"
        BY <2>7 DEF some
  <2>9. all \in Seq(Parameter)
        BY <2>5, <2>8
  <2>10. Reads(profile, query) = all
        BY <2>1 DEF all
  <2> QED  BY <2>6, <2>8, <2>9, <2>10
<1>2. CASE profile = "sd"
  <2>1. Reads(profile, query) = SdReads
        BY <1>2 DEF Reads
  <2> QED  BY <2>1 DEF SdReads, Parameter
<1>3. CASE profile = "f4p"
  <2>1. Reads(profile, query) = F4pReads
        BY <1>3 DEF Reads
  <2>2. F4pReads \in Seq(Parameter)
        BY DEF F4pReads, Parameter
  <2>3. Len(F4pReads) = 6
        BY DEF F4pReads
  <2> QED  BY <1>3, <2>1, <2>2, <2>3
<1> QED  BY <1>1, <1>2, <1>3 DEF Family

\* A device answers where it is set to, with what its family has.
LEMMA AnswersAreGenuine ==
    ASSUME DevicesInv, NEW p \in Port, NEW place \in Location, NEW profile \in Family,
           NEW param \in Parameter, param = "model_code" => profile = "f4p",
           NEW d \in Hearing(p, place)
    PROVE  /\ Answer(d, place, profile, param) \in Genuine
           /\ d \in Device
<1>1. d \in Device /\ Place(running[d]) = place
      BY DEF Hearing
<1>2. running[d] \in Setting
      BY <1>1 DEF DevicesInv
<1>3. running[d].proto = place.proto
      BY <1>1, <1>2 DEF Place, Setting, Proto
<1>4. IF place.proto = "std" THEN Make[d].family = "ez" ELSE Make[d].modbus
      BY <1>1, <1>3 DEF DevicesInv
<1> DEFINE name == IF place.proto = "mod" /\ param \in Text THEN "text"
                   ELSE IF Make[d].family = profile THEN param ELSE "other"
<1>5. name \in Parameter /\ (name = "model_code" => Make[d].family = "f4p")
      BY DEF Parameter
<1>6. Answer(d, place, profile, param) = [who |-> d, to |-> place, param |-> name]
      BY DEF Answer
<1> HIDE DEF name
<1>7. Answer(d, place, profile, param) \in Genuine
      BY <1>1, <1>4, <1>5, <1>6 DEF Genuine
<1> QED  BY <1>1, <1>7

LEMMA SentIs ==
    ASSUME DevicesInv, NEW p \in Port, NEW place \in Location, NEW profile \in Family,
           NEW param \in Parameter, param = "model_code" => profile = "f4p",
           NEW s \in Sent(p, place, profile, param)
    PROVE  /\ s \in Seq({r \in Genuine : r.to = place}) /\ Len(s) <= 1
           /\ s # <<>> => s[1] = Answer(s[1].who, place, profile, param)
<1>1. CASE s = <<>>
      BY <1>1
<1>2. CASE s # <<>>
  <2>1. PICK d \in Hearing(p, place) : s = <<Answer(d, place, profile, param)>>
        BY <1>2 DEF Sent
  <2>2. /\ Answer(d, place, profile, param) \in Genuine
        /\ Answer(d, place, profile, param).to = place
        /\ Answer(d, place, profile, param).who = d
        BY AnswersAreGenuine DEF Answer
  <2> DEFINE a == Answer(d, place, profile, param)
  <2>3. a \in {r \in Genuine : r.to = place} /\ a.who = d
        BY <2>2
  <2>4. s = <<a>>
        BY <2>1
  <2>5. a = Answer(a.who, place, profile, param)
        BY <2>3
  <2> HIDE DEF a
  <2>6. s \in Seq({r \in Genuine : r.to = place}) /\ Len(s) = 1 /\ s[1] = a
        BY <2>3, <2>4
  <2> QED  BY <2>5, <2>6
<1> QED  BY <1>1, <1>2

-----------------------------------------------------------------------------
(***************************************************************************)
(* The devices                                                             *)
(***************************************************************************)

\* What an error, an end and a step within a call leave as it was.
LEMMA FailsDoes ==
    ASSUME NEW how, Fails(how)
    PROVE  /\ op' = NONE /\ pc' = "idle" /\ at' = Nowhere /\ got' = <<>>
           /\ phase' = "change" /\ turn' = FirstTurn /\ wire' = Unwound
           /\ result'.op = op /\ result'.how = how /\ result'.to = {}
           /\ result' = [op |-> op, how |-> how, to |-> {},
                         late |-> at # Nowhere /\ wire[at.port].gave]
           /\ UNCHANGED <<running, eeprom, rows, told, calls, session, dead>>
<1>1. {<<>>[i].to : i \in {j \in DOMAIN <<>> : <<>>[j] # NONE}} = {}
      OBVIOUS
<1> QED  BY <1>1 DEF Fails, Ends

\* Which steps are errors.
Failed ==
    \E how \in Ways \ {"ok"} : Fails(how) /\ (how = "refused" => pc = "gate")

LEMMA WhatFails ==
    ASSUME Next
    PROVE  /\ OpenFails \/ SkipModbus \/ StrictRead \/ BadAddress => Failed
           /\ Cancel => Failed \/ pc = "again"
           /\ ProbeFails => Failed \/ NotStdbus(Freed(at.port))
           /\ Gate => Failed \/ (SkuSupports(op, got) /\ Step("write")
                                 /\ UNCHANGED <<at, got, wire>>)
<1>1. {"error", "raw", "cancelled", "refused"} \subseteq Ways \ {"ok"}
      BY DEF Ways
<1>2. ASSUME OpenFails \/ SkipModbus \/ StrictRead \/ BadAddress  PROVE Failed
      BY <1>1, <1>2 DEF OpenFails, SkipModbus, StrictRead, BadAddress, Failed
<1>3. ASSUME Cancel  PROVE Failed \/ pc = "again"
      BY <1>1, <1>3 DEF Cancel, Failed
<1>4. ASSUME ProbeFails  PROVE Failed \/ NotStdbus(Freed(at.port))
      BY <1>1, <1>4 DEF ProbeFails, Failed
<1>5. ASSUME Gate
      PROVE  Failed \/ (SkuSupports(op, got) /\ Step("write")
                        /\ UNCHANGED <<at, got, wire>>)
      BY <1>1, <1>5 DEF Gate, Failed
<1> QED  BY <1>2, <1>3, <1>4, <1>5

LEMMA OnlyWriteStores ==
    ASSUME [Next]_vars
    PROVE  Write \/ (\E d \in Device : TakesEffect(d)) \/ UNCHANGED <<running, eeprom>>
<1>1. CASE UNCHANGED vars
      BY <1>1 DEF vars
<1>2. ASSUME NEW o \in Calls, Call(o)  PROVE UNCHANGED <<running, eeprom>>
      BY <1>2 DEF Call, CallOpen, CallIdentify, CallMaintenance, Refuse, CallScan, Begin
<1>3. CASE OpenNext
      BY <1>3 DEF OpenNext, CallClose, Open, OpenFails, TryStdbus, SkipStdbus, TryModbus,
                  SkipModbus, Probed, ProbeFails, Read, StrictRead, BadAddress,
                  OpenReturns, IdentifyReturns, Cancel, Step, Fails, Ends, NotStdbus,
                  Returns
<1>4. CASE MaintenanceNext
      BY <1>4 DEF MaintenanceNext, OpenedForChange, Gate, Reopen, Verified, Step, Fails,
                  Ends
<1>5. CASE ScanNext
      BY <1>5 DEF ScanNext, Prune, NextCombo, DeadPort, ScanEnds, OpenCombo, ComboFails,
                  SkipAddress, ProbeEnds, Expires, Step, Fails, Ends, RowDone
<1> QED  BY <1>1, <1>2, <1>3, <1>4, <1>5 DEF Next, Environment

\* The kinds of calls, and what is known of a maintenance call.
LEMMA MaintenanceCall ==
    ASSUME NEW o \in Calls, o.kind \in Maintenance
    PROVE  /\ o.port \in Port /\ o.profile = "ez" /\ o.proto \in Proto \cup {"auto"}
           /\ o.framing \in Framing /\ o.addr \in Int
           /\ o.kind = "change_protocol_mode" => o.target \in Proto
           /\ o.kind # "change_protocol_mode" => o.target \in Int
BY OpeningAssumption DEF Shapes, Maintenance

LEMMA WhereItIs ==
    ASSUME CallInv
    PROVE  /\ pc \in {"gate", "verify", "write", "sleep"} => op # NONE /\ op.kind \in Maintenance
           /\ pc \in {"next", "open_combo", "probe"} => op # NONE /\ op.kind = "find_devices"
           /\ pc = "again" => op # NONE /\ op.kind = "identify"
           /\ pc \in OpenPoints => op # NONE /\ (op.kind = "open_device" \/ op.kind \in Maintenance)
<1>1. op # NONE => op \in Calls
      BY DEF CallInv
<1>2. op # NONE => op.kind \in {"open_device", "identify", "find_devices"} \cup Maintenance
      BY <1>1, OpeningAssumption DEF Shapes, Maintenance
<1>3. /\ pc # "idle" => op # NONE
      /\ op # NONE => pc \in PointsOf(op.kind)
      BY DEF CallInv
<1>4. ASSUME op # NONE, op.kind \in Maintenance
      PROVE  pc \in OpenPoints \cup {"gate", "verify", "write", "sleep"}
      BY <1>3, <1>4 DEF PointsOf, Maintenance
<1>5. ASSUME op # NONE, op.kind = "open_device"  PROVE pc \in OpenPoints
      BY <1>3, <1>5 DEF PointsOf
<1>6. ASSUME op # NONE, op.kind = "identify"  PROVE pc = "again"
      BY <1>3, <1>6 DEF PointsOf
<1>7. ASSUME op # NONE, op.kind = "find_devices"
      PROVE  pc \in {"next", "open_combo", "probe"}
      BY <1>3, <1>7 DEF PointsOf
<1> QED  BY <1>2, <1>3, <1>4, <1>5, <1>6, <1>7 DEF OpenPoints

LEMMA StoredSetting ==
    ASSUME NEW o \in Calls, o.kind \in Maintenance, TargetOk(o), NEW s \in Setting
    PROVE  /\ [s EXCEPT ![Field(o)] = o.target] \in Setting
           /\ [s EXCEPT ![Field(o)] = o.target][Field(o)] = o.target
<1>1. CASE o.kind = "change_baud"
      BY <1>1 DEF Field, Setting, TargetOk
<1>2. CASE o.kind = "change_modbus_address"
  <2>1. o.target \in 1..247
        BY <1>2 DEF TargetOk, InRange
  <2> QED  BY <1>2, <2>1 DEF Field, Setting
<1>3. CASE o.kind = "change_stdbus_address"
  <2>1. o.target \in 1..16
        BY <1>3 DEF TargetOk, InRange
  <2> QED  BY <1>3, <2>1 DEF Field, Setting
<1>4. CASE o.kind = "change_protocol_mode"
      BY <1>4 DEF Field, Setting, TargetOk
<1> QED  BY <1>1, <1>2, <1>3, <1>4 DEF Maintenance

LEMMA DevicesKept ==
    ASSUME TypesInv, [Next]_vars
    PROVE  DevicesInv'
<1>0. /\ running \in [Device -> Setting] /\ eeprom \in [Device -> Setting]
      /\ \A d \in Device :
           /\ IF running[d].proto = "std" THEN Make[d].family = "ez" ELSE Make[d].modbus
           /\ eeprom[d].proto = "std" => Make[d].family = "ez"
      BY DEF TypesInv, DevicesInv
<1>1. CASE UNCHANGED <<running, eeprom>>
      BY <1>0, <1>1 DEF DevicesInv
<1>2. ASSUME NEW d \in Device, TakesEffect(d)  PROVE DevicesInv'
  <2> DEFINE s == [eeprom[d] EXCEPT !.proto = IF Make[d].modbus THEN @ ELSE "std"]
  <2>1. running' = [running EXCEPT ![d] = s] /\ eeprom' = eeprom
        BY <1>2 DEF TakesEffect
  <2>2. eeprom[d] \in Setting
        BY <1>0
  <2>3. /\ s \in Setting
        /\ s.proto = IF Make[d].modbus THEN eeprom[d].proto ELSE "std"
        BY <2>2 DEF Setting, Proto
  <2>4. IF s.proto = "std" THEN Make[d].family = "ez" ELSE Make[d].modbus
    <3>1. CASE Make[d].modbus
          BY <3>1, <2>3, <1>0
    <3>2. CASE ~Make[d].modbus
          BY <3>2, <2>3, <1>0
    <3> QED  BY <3>1, <3>2
  <2> HIDE DEF s
  <2> QED  BY <1>0, <2>1, <2>3, <2>4 DEF DevicesInv
<1>3. CASE Write
  <2>1. PICK reached \in SUBSET {d \in Hearing(at.port, PlaceOf(at)) :
                                   Make[d].family = "ez"} : Store(reached)
        BY <1>3 DEF Write
  <2>2. running' = running
        BY <1>3 DEF Write
  <2>3. eeprom' = [d \in Device |->
                     IF d \in reached THEN [eeprom[d] EXCEPT ![Field(op)] = op.target]
                     ELSE eeprom[d]]
        BY <2>1 DEF Store
  <2>4. pc = "write"
        BY <1>3 DEF Write
  <2>5. op \in Calls /\ op.kind \in Maintenance /\ TargetOk(op)
        BY <2>4, WhereItIs DEF TypesInv, CallInv
  <2>6. ASSUME NEW d \in Device
        PROVE  /\ eeprom'[d] \in Setting
               /\ eeprom'[d].proto = "std" => Make[d].family = "ez"
    <3>1. CASE d \in reached
      <4>1. [eeprom[d] EXCEPT ![Field(op)] = op.target] \in Setting
            BY <1>0, <2>5, StoredSetting
      <4>2. Make[d].family = "ez"
            BY <3>1
      <4> QED  BY <2>3, <3>1, <4>1, <4>2
    <3>2. CASE d \notin reached
          BY <3>2, <2>3, <1>0
    <3> QED  BY <3>1, <3>2
  <2>7. eeprom' \in [Device -> Setting]
        BY <2>3, <2>6
  <2> QED  BY <1>0, <2>2, <2>6, <2>7 DEF DevicesInv
<1> QED  BY <1>1, <1>2, <1>3, OnlyWriteStores

-----------------------------------------------------------------------------
(***************************************************************************)
(* The ports                                                               *)
(***************************************************************************)

\* What was asked for, and that the transport asked over is there.
LEMMA AskedFor ==
    ASSUME TypesInv, Asking
    PROVE  /\ at \in Spot /\ PlaceOf(at) \in Location
           /\ Len(got) + 1 \in DOMAIN Reads(at.profile, Query)
           /\ Param \in Parameter
           /\ Param = "model_code" => at.profile = "f4p"
           /\ op # NONE
<1>1. pc \in Reading
      BY DEF Asking
<1>2. at \in Spot /\ op # NONE
      BY <1>1 DEF TypesInv, AtInv, CallInv, Reading
<1>3. PlaceOf(at) \in Location
      BY <1>2 DEF Spot, Location, PlaceOf
<1> DEFINE reads == Reads(at.profile, Query)
<1>4. /\ reads \in Seq(Parameter)
      /\ \A i \in DOMAIN reads : reads[i] = "model_code" => at.profile = "f4p"
  <2>1. at.profile \in Family /\ Query \in BOOLEAN
        BY <1>2 DEF Spot, Query
  <2> QED  BY <2>1, ReadsAre
<1>5. Len(got) <= Len(reads) /\ Len(got) # Len(reads) /\ Len(got) \in Nat
  <2>1. Len(got) <= Len(reads) /\ got \in Seq(Genuine \cup {NONE})
        BY <1>1 DEF TypesInv, GotInv
  <2>2. Len(got) # Len(reads)
        BY DEF Asking, Complete
  <2> QED  BY <2>1, <2>2
<1> HIDE DEF reads
<1>6. Len(got) + 1 \in DOMAIN reads
      BY <1>4, <1>5
<1>7. Param = reads[Len(got) + 1]
      BY DEF Param, reads
<1>8. Param \in Parameter /\ (Param = "model_code" => at.profile = "f4p")
      BY <1>4, <1>6, <1>7
<1> QED  BY <1>2, <1>3, <1>6, <1>8 DEF reads

\* The result of an exchange over p that asked for param at place.
Brings(e, p, proto, place, profile, param) ==
    /\ e.line \in Seq(Genuine) /\ Len(e.line) <= MaxLine
    /\ e.reply \in Genuine \cup {NONE}
    /\ e.reply # NONE /\ (wire[p].line = <<>> \/ proto = "mod") =>
          e.reply = Answer(e.reply.who, place, profile, param)
    /\ e.reply # NONE /\ wire[p].line = <<>> => e.line = <<>>
    /\ wire[p].line \in Seq({r \in Genuine : r.to = place}) =>
          /\ e.line \in Seq({r \in Genuine : r.to = place})
          /\ e.reply # NONE => e.reply.to = place

LEMMA ExchangeBrings ==
    ASSUME TypesInv, NEW p \in Port, NEW place \in Location, NEW profile \in Family,
           NEW param \in Parameter, param = "model_code" => profile = "f4p",
           NEW s \in Sent(p, place, profile, param) \cup {<<>>}, NEW proto,
           NEW e \in Outcomes(p, proto, s)
    PROVE  Brings(e, p, proto, place, profile, param)
<1> DEFINE here == {r \in Genuine : r.to = place}
<1>1. /\ s \in Seq(here) /\ Len(s) <= 1
      /\ s # <<>> => s[1] = Answer(s[1].who, place, profile, param)
  <2>1. CASE s = <<>>
        BY <2>1
  <2>2. CASE s \in Sent(p, place, profile, param)
        BY <2>2, SentIs DEF TypesInv
  <2> QED  BY <2>1, <2>2
<1>2. s \in Seq(Genuine)
  <2>1. \A i \in 1..Len(s) : s[i] \in Genuine
        BY <1>1
  <2>2. s \in Seq(here)
        BY <1>1
  <2> HIDE DEF here
  <2> QED  BY <2>1, <2>2
<1>3. wire[p].line \in Seq(Genuine) /\ Len(wire[p].line) <= MaxLine
      BY DEF TypesInv, WireInv, Handle
<1>4. /\ e.line \in Seq(Genuine) /\ Len(e.line) <= MaxLine
      /\ e.reply \in Genuine \cup {NONE}
      /\ wire[p].line = <<>> \/ proto = "mod" =>
            e.reply = NONE \/ (s # <<>> /\ e.reply = s[1])
      /\ wire[p].line = <<>> /\ e.reply # NONE => e.line = <<>>
      BY <1>1, <1>2, <1>3, OutcomesOf
<1>5. ASSUME wire[p].line \in Seq(here)
      PROVE  e.line \in Seq(here) /\ (e.reply # NONE => e.reply.to = place)
  <2>1. e.line \in Seq(here) /\ e.reply \in here \cup {NONE}
    <3> HIDE DEF here
    <3> QED  BY <1>1, <1>3, <1>5, OutcomesOf
  <2> QED  BY <2>1
<1>6. ASSUME e.reply # NONE, wire[p].line = <<>> \/ proto = "mod"
      PROVE  e.reply = Answer(e.reply.who, place, profile, param)
      BY <1>1, <1>4, <1>6
<1> QED  BY <1>4, <1>5, <1>6 DEF Brings

LEMMA ReadBrings ==
    ASSUME TypesInv, Asking, NEW e \in ReadOutcomes
    PROVE  Brings(e, at.port, at.proto, PlaceOf(at), at.profile, Param)
<1>1. PICK s \in Sent(at.port, PlaceOf(at), at.profile, Param) :
          e \in Outcomes(at.port, at.proto, s)
      BY DEF ReadOutcomes
<1>2. at.port \in Port /\ at.profile \in Family
      BY AskedFor DEF Spot
<1> QED  BY <1>1, <1>2, AskedFor, ExchangeBrings

LEMMA ProbeBrings ==
    ASSUME TypesInv, pc \in {"probe_std", "probe_mod"}, NEW e \in ProbeOutcomes
    PROVE  Brings(e, at.port, at.proto, PlaceOf(at), at.profile, "hardware_id")
<1>1. PICK s \in Sent(at.port, PlaceOf(at), at.profile, "hardware_id") \cup {<<>>} :
          e \in Outcomes(at.port, at.proto, s)
      BY DEF ProbeOutcomes
<1>2. at \in Spot
      BY DEF TypesInv, AtInv
<1>3. at.port \in Port /\ at.profile \in Family /\ PlaceOf(at) \in Location
      BY <1>2 DEF Spot, PlaceOf, Location
<1>4. "hardware_id" \in Parameter /\ "hardware_id" # "model_code"
      BY DEF Parameter
<1> QED  BY <1>1, <1>3, <1>4, ExchangeBrings

\* A port is taken, freed or lost, with nothing on its line ...
LEMMA CleanHandle ==
    ASSUME TypesInv, NEW p \in Port, NEW h \in Handle, h.line = <<>>,
           wire' = [wire EXCEPT ![p] = h]
    PROVE  WireInv'
<1>1. Len(<<>>) <= MaxLine
      BY SegmentAssumption
<1>2. wire' \in [Port -> Handle]
      BY DEF TypesInv, WireInv
<1>3. \A q \in Port : wire'[q] = IF q = p THEN h ELSE wire[q]
      BY DEF TypesInv, WireInv
<1> QED  BY <1>1, <1>2, <1>3 DEF TypesInv, WireInv

LEMMA Clean ==
    ASSUME TypesInv, NEW p \in Port,
           wire' = Taken(p) \/ wire' = Freed(p) \/ wire' = LostAt(p, "identify")
    PROVE  WireInv'
<1>1. PICK holder \in Holder, blame \in {"identify", NONE} :
         wire' = [wire EXCEPT ![p] = [holder |-> holder, line |-> <<>>, gave |-> FALSE,
                                      blame |-> blame]]
      BY DEF Taken, Freed, LostAt, Holder
<1>2. [holder |-> holder, line |-> <<>>, gave |-> FALSE, blame |-> blame] \in Handle
      BY DEF Handle
<1> DEFINE h == [holder |-> holder, line |-> <<>>, gave |-> FALSE, blame |-> blame]
<1>3. h \in Handle /\ h.line = <<>> /\ wire' = [wire EXCEPT ![p] = h]
      BY <1>1, <1>2
<1> HIDE DEF h
<1> QED  BY <1>3, CleanHandle

\* ... or an exchange changes the line.
LEMMA Exchange ==
    ASSUME TypesInv, NEW p \in Port, NEW e, e.line \in Seq(Genuine),
           Len(e.line) <= MaxLine,
           e.reply # NONE /\ wire[p].line = <<>> => e.line = <<>>,
           wire' = Exchanged(p, e)
    PROVE  /\ WireInv'
           /\ wire'[p].line = e.line
           /\ wire'[p].gave <=> wire[p].gave \/ e.reply = NONE
           /\ \A q \in Port : q # p => wire'[q] = wire[q]
<1> DEFINE h == [wire[p] EXCEPT !.line = e.line, !.gave = @ \/ e.reply = NONE]
<1>1. /\ wire[p] \in Handle /\ wire \in [Port -> Handle]
      /\ ~wire[p].gave => wire[p].line = <<>>
      BY DEF TypesInv, WireInv
<1>2. wire' = [wire EXCEPT ![p] = h]
      BY <1>1 DEF Exchanged, Handle
<1>3. /\ h \in Handle /\ h.line = e.line
      /\ h.gave <=> wire[p].gave \/ e.reply = NONE
      BY <1>1 DEF Handle
<1> HIDE DEF h
<1>4. wire' \in [Port -> Handle] /\ wire'[p] = h /\ \A q \in Port : q # p => wire'[q] = wire[q]
      BY <1>1, <1>2, <1>3
<1>5. ~h.gave => h.line = <<>>
      BY <1>1, <1>3
<1>6. \A q \in Port : /\ Len(wire'[q].line) <= MaxLine
                      /\ ~wire'[q].gave => wire'[q].line = <<>>
  <2>1. ASSUME NEW q \in Port
        PROVE  /\ Len(wire'[q].line) <= MaxLine
               /\ ~wire'[q].gave => wire'[q].line = <<>>
    <3>1. CASE q = p
          BY <3>1, <1>3, <1>4, <1>5
    <3>2. CASE q # p
          BY <3>2, <1>4 DEF TypesInv, WireInv
    <3> QED  BY <3>1, <3>2
  <2> QED  BY <2>1
<1>7. WireInv'
      BY <1>4, <1>6 DEF WireInv
<1> QED  BY <1>3, <1>4, <1>7

LEMMA HandOver ==
    ASSUME TypesInv, NEW p \in Port, wire' = HandedOver(p)
    PROVE  WireInv'
<1>1. /\ wire' \in [Port -> Handle]
      /\ \A q \in Port : wire'[q].line = wire[q].line /\ wire'[q].gave = wire[q].gave
      BY DEF TypesInv, WireInv, HandedOver, Handle, Holder
<1> QED  BY <1>1 DEF TypesInv, WireInv

LEMMA FailsWire ==
    ASSUME TypesInv, Failed, op # NONE
    PROVE  WireInv'
<1>1. wire' = Unwound
      BY FailsDoes DEF Failed
<1>2. CASE pc \in NoTransport \cup {"again"}
  <2>1. wire' = wire
        BY <1>1, <1>2 DEF Unwound, NoTransport
  <2> QED  BY <2>1 DEF TypesInv, WireInv
<1>3. CASE pc \notin NoTransport \cup {"again"}
  <2>1. at \in Spot
        BY <1>3 DEF TypesInv, AtInv, NoTransport
  <2>2. at.port \in Port
        BY <2>1 DEF Spot
  <2>3. wire' = Freed(at.port) \/ wire' = LostAt(at.port, "identify")
        BY <1>1, <1>3 DEF Unwound
  <2> QED  BY <2>2, <2>3, Clean
<1> QED  BY <1>2, <1>3

\* A port's line holds replies of devices, and none unless an exchange was
\* given up.
LEMMA WireKept ==
    ASSUME TypesInv, [Next]_vars
    PROVE  WireInv'
<1>0. /\ pc # "idle" <=> op # NONE
      /\ pc \notin {"idle", "next"} => at.port \in Port
      BY DEF TypesInv, CallInv, AtInv, Spot
<1>1. CASE UNCHANGED wire
      BY <1>1 DEF TypesInv, WireInv
<1>2. CASE Failed /\ op # NONE
      BY <1>2, FailsWire
<1>3. CASE Next /\ OpenNext
  <2>1. ASSUME NEW p \in Port, CallClose(p)  PROVE WireInv'
        BY <2>1, Clean DEF CallClose
  <2>2. CASE Open \/ TryStdbus \/ TryModbus
    <3>1. wire' = Taken(at.port) /\ pc \notin {"idle", "next"}
          BY <2>2 DEF Open, TryStdbus, TryModbus, Opens
    <3> QED  BY <1>0, <3>1, Clean
  <2>3. CASE OpenFails \/ SkipModbus \/ StrictRead \/ BadAddress
    <3>1. pc # "idle"
          BY <2>3 DEF OpenFails, SkipModbus, StrictRead, BadAddress, Asking, Reading
    <3> QED  BY <1>0, <1>2, <1>3, <2>3, <3>1, WhatFails
  <2>4. CASE SkipStdbus
        BY <2>4, <1>1 DEF SkipStdbus, NotStdbus
  <2>5. CASE Probed
    <3>1. PICK e \in ProbeOutcomes : e.reply # NONE /\ wire' = Exchanged(at.port, e)
          BY <2>5 DEF Probed
    <3>2. pc \in {"probe_std", "probe_mod"} /\ at.port \in Port
          BY <1>0, <2>5 DEF Probed
    <3>3. Brings(e, at.port, at.proto, PlaceOf(at), at.profile, "hardware_id")
          BY <3>2, ProbeBrings
    <3> QED  BY <3>1, <3>2, <3>3, Exchange DEF Brings
  <2>6. CASE ProbeFails
    <3>1. pc \in {"probe_std", "probe_mod"}
          BY <2>6 DEF ProbeFails
    <3>2. CASE NotStdbus(Freed(at.port))
          BY <1>0, <3>1, <3>2, Clean DEF NotStdbus
    <3> QED  BY <1>0, <1>2, <1>3, <2>6, <3>1, <3>2, WhatFails
  <2>7. CASE Read
    <3>1. Asking /\ \E e \in ReadOutcomes : wire' = Exchanged(at.port, e)
          BY <2>7 DEF Read
    <3>2. PICK e \in ReadOutcomes : wire' = Exchanged(at.port, e)
          BY <3>1
    <3>3. Brings(e, at.port, at.proto, PlaceOf(at), at.profile, Param)
          BY <3>1, ReadBrings
    <3>4. at.port \in Port
          BY <3>1, AskedFor DEF Spot
    <3> QED  BY <3>2, <3>3, <3>4, Exchange DEF Brings
  <2>8. CASE OpenReturns \/ IdentifyReturns
    <3>1. pc \in {"identify", "again"} /\ wire' = HandedOver(at.port)
          BY <2>8 DEF OpenReturns, IdentifyReturns, Returns
    <3> QED  BY <1>0, <3>1, HandOver
  <2>9. CASE Cancel
    <3>1. op # NONE /\ ~Done
          BY <2>9 DEF Cancel
    <3>2. CASE pc = "again"
      <4>1. Asking
            BY <3>1, <3>2 DEF Done, Asking, Reading
      <4>2. PICK e \in ReadOutcomes : wire' = Exchanged(at.port, e)
            BY <2>9, <3>2 DEF Cancel
      <4>3. Brings(e, at.port, at.proto, PlaceOf(at), at.profile, Param)
            BY <4>1, ReadBrings
      <4>4. at.port \in Port
            BY <4>1, AskedFor DEF Spot
      <4> QED  BY <4>2, <4>3, <4>4, Exchange DEF Brings
    <3> QED  BY <1>2, <1>3, <2>9, <3>1, <3>2, WhatFails
  <2> QED  BY <1>3, <2>1, <2>2, <2>3, <2>4, <2>5, <2>6, <2>7, <2>8, <2>9 DEF OpenNext
<1>4. CASE Next /\ MaintenanceNext
  <2>1. CASE OpenedForChange \/ Reopen
        BY <1>1, <2>1 DEF OpenedForChange, Reopen
  <2>2. CASE Gate
    <3>1. pc = "gate"
          BY <2>2 DEF Gate
    <3> QED  BY <1>0, <1>1, <1>2, <1>4, <2>2, <3>1, WhatFails
  <2>3. CASE Write \/ Verified
    <3>1. pc \in {"write", "verify"} /\ wire' = Freed(at.port)
          BY <2>3 DEF Write, Verified
    <3> QED  BY <1>0, <3>1, Clean
  <2> QED  BY <1>4, <2>1, <2>2, <2>3 DEF MaintenanceNext
<1>5. CASE Next /\ ScanNext
  <2>1. CASE Prune \/ NextCombo \/ DeadPort \/ ScanEnds
        BY <1>1, <2>1 DEF Prune, NextCombo, DeadPort, ScanEnds
  <2>2. CASE OpenCombo
    <3>1. wire' = Taken(at.port) /\ pc = "open_combo"
          BY <2>2 DEF OpenCombo, Opens
    <3> QED  BY <1>0, <3>1, Clean
  <2>3. CASE ComboFails
    <3>1. pc = "open_combo" /\ (wire' = wire \/ Failed)
          BY <2>3 DEF ComboFails, Failed, Ways
    <3> QED  BY <1>0, <1>1, <1>2, <3>1
  <2>4. ASSUME NEW row, RowDone(row, wire), pc = "probe"  PROVE WireInv'
    <3>1. wire' = wire \/ wire' = Freed(at.port)
          BY <2>4 DEF RowDone
    <3> QED  BY <1>0, <1>1, <2>4, <3>1, Clean
  <2>5. CASE SkipAddress
    <3>1. pc = "probe" /\ RowDone(Row(at, FALSE, {}), wire)
          BY <2>5 DEF SkipAddress
    <3> QED  BY <2>4, <3>1
  <2>6. CASE ProbeEnds
    <3>1. pc = "probe" /\ \E row : RowDone(row, wire)
          BY <2>6 DEF ProbeEnds
    <3> QED  BY <2>4, <3>1
  <2>7. CASE Expires
    <3>1. pc = "probe" /\ Asking
          BY <2>7 DEF Expires
    <3>2. PICK e \in ReadOutcomes :
             wire' = Exchanged(at.port, e) \/ wire' = Freed(at.port)
          BY <2>7 DEF Expires, RowDone
    <3>3. Brings(e, at.port, at.proto, PlaceOf(at), at.profile, Param)
          BY <3>1, ReadBrings
    <3>4. CASE wire' = Freed(at.port)
          BY <1>0, <3>1, <3>4, Clean
    <3>5. CASE wire' = Exchanged(at.port, e)
          BY <1>0, <3>1, <3>3, <3>5, Exchange DEF Brings
    <3> QED  BY <3>2, <3>4, <3>5
  <2> QED  BY <1>5, <2>1, <2>2, <2>3, <2>5, <2>6, <2>7 DEF ScanNext
<1>6. ASSUME NEW o \in Calls, Call(o)  PROVE wire' = wire
      BY <1>6 DEF Call, CallOpen, CallIdentify, CallMaintenance, Refuse, CallScan, Begin
<1>7. CASE UNCHANGED vars \/ Environment
      BY <1>1, <1>7 DEF vars, Environment, TakesEffect
<1> QED  BY <1>1, <1>3, <1>4, <1>5, <1>6, <1>7 DEF Next

-----------------------------------------------------------------------------
(***************************************************************************)
(* The call under way                                                      *)
(***************************************************************************)

\* The ways a call ends.
Over == /\ op' = NONE /\ pc' = "idle" /\ at' = Nowhere /\ got' = <<>>
        /\ phase' = "change" /\ turn' \in {turn, FirstTurn}
        /\ UNCHANGED <<rows, calls>>

LEMMA EndsAreOver ==
    ASSUME NEW how, NEW replies, Ends(how, replies)
    PROVE  Over /\ told' = told /\ eeprom' = eeprom /\ result'.op = op /\ result'.how = how
BY DEF Ends, Over

LEMMA FailedIsOver ==
    ASSUME Failed
    PROVE  Over /\ UNCHANGED <<told, eeprom, session, dead>>
BY FailsDoes DEF Failed, Over

\* The points a call may go to from where it is.
LEMMA GoesOn ==
    ASSUME TypesInv, NEW from, pc = from
    PROVE  /\ from \in OpenPoints => OpenPoints \subseteq PointsOf(op.kind)
           /\ from \in {"gate", "verify", "write", "sleep"}
                \/ (from \in OpenPoints /\ op.kind \in Maintenance) =>
                PointsOf(op.kind) = OpenPoints \cup {"gate", "verify", "write", "sleep"}
           /\ from \in {"next", "open_combo", "probe"} =>
                PointsOf(op.kind) = {"next", "open_combo", "probe"}
           /\ from # "idle" => op \in Calls
<1>1. op.kind \in Maintenance =>
         PointsOf(op.kind) = OpenPoints \cup {"gate", "verify", "write", "sleep"}
      BY DEF PointsOf, Maintenance
<1>2. op.kind = "open_device" => PointsOf(op.kind) = OpenPoints
      BY DEF PointsOf
<1>3. op.kind = "find_devices" => PointsOf(op.kind) = {"next", "open_combo", "probe"}
      BY DEF PointsOf
<1> QED  BY <1>1, <1>2, <1>3, WhereItIs DEF TypesInv, CallInv

CallAtInv == CallInv /\ AtInv

LEMMA OverKeepsCall ==
    ASSUME TypesInv, Over
    PROVE  CallAtInv'
BY DEF TypesInv, Over, CallAtInv, CallInv, AtInv, Points

\* A step within a call.
LEMMA WithinCall ==
    ASSUME TypesInv, op # NONE, op' = op, phase' = phase, calls' = calls,
           pc' # "idle", pc' \in PointsOf(op.kind), pc' \in Points,
           phase = "verify" => pc' \in {"open", "identify", "verify"},
           pc' = "verify" => phase = "verify",
           pc' = "gate" => op.kind = "change_protocol_mode",
           at' \in Spot \cup {Nowhere}, pc' # "next" => at' \in Spot,
           op.kind \in Maintenance => at'.profile = "ez"
    PROVE  CallAtInv'
BY DEF TypesInv, CallAtInv, CallInv, AtInv

LEMMA NewCall ==
    ASSUME TypesInv, NEW o \in Calls, Call(o)
    PROVE  CallAtInv'
<1>1. CASE Refuse(o)
  <2>1. UNCHANGED <<op, pc, phase, at>> /\ calls' \in 0..MaxCalls
        BY <1>1, OpeningAssumption DEF Refuse, TypesInv, CallInv
  <2> QED  BY <2>1 DEF TypesInv, CallAtInv, CallInv, AtInv
<1>2. ASSUME Begin(o)
      PROVE  /\ op' = o /\ o # NONE /\ phase' = "change" /\ calls' \in 0..MaxCalls
      BY <1>2, OpeningAssumption DEF Begin, TypesInv, CallInv
<1>3. CASE CallOpen(o)
  <2>1. /\ o.port \in Port /\ o.profile \in Family /\ o.proto \in Proto \cup {"auto"}
        /\ o.framing \in Framing /\ o.addr \in Int /\ o.kind = "open_device"
        /\ o.kind \notin Maintenance
        BY <1>3, OpeningAssumption DEF CallOpen, Shapes, Maintenance
  <2>2. at' \in Spot /\ pc' \in {"open_std", "open"}
        BY <1>3, <2>1 DEF CallOpen, At, Spot, Proto, FirstOpen
  <2>3. Begin(o)
        BY <1>3 DEF CallOpen
  <2>4. pc' \in PointsOf(o.kind) /\ pc' \in Points
        BY <2>1, <2>2 DEF PointsOf, OpenPoints, Points
  <2> QED  BY <1>2, <2>1, <2>2, <2>3, <2>4 DEF CallAtInv, CallInv, AtInv
<1>4. CASE CallIdentify(o)
  <2>1. /\ o.kind = "identify" /\ Begin(o) /\ session[o.port] # NoSession
        /\ at' = session[o.port].at /\ pc' = "again"
        BY <1>4 DEF CallIdentify
  <2>2. at' \in Spot
        BY <2>1, CallPort DEF TypesInv, SessionInv
  <2>3. pc' \in PointsOf(o.kind) /\ pc' \in Points /\ o.kind \notin Maintenance
        BY <2>1 DEF PointsOf, Points, Maintenance
  <2> QED  BY <1>2, <2>1, <2>2, <2>3 DEF CallAtInv, CallInv, AtInv
<1>5. CASE CallMaintenance(o)
  <2>1. /\ o.kind \in Maintenance /\ Begin(o) /\ o.confirm /\ TargetOk(o)
        BY <1>5 DEF CallMaintenance
  <2>2. at' \in Spot /\ at'.profile = "ez" /\ pc' \in {"open_std", "open"}
        BY <1>5, <2>1, MaintenanceCall
           DEF CallMaintenance, At, Spot, Proto, Family, FirstOpen
  <2>3. pc' \in PointsOf(o.kind) /\ pc' \in Points
        BY <2>1, <2>2 DEF PointsOf, Maintenance, OpenPoints, Points
  <2> QED  BY <1>2, <2>1, <2>2, <2>3 DEF CallAtInv, CallInv, AtInv
<1>6. CASE CallScan(o)
  <2>1. /\ o.kind = "find_devices" /\ Begin(o) /\ at' = Nowhere /\ pc' = "next"
        BY <1>6 DEF CallScan
  <2>2. pc' \in PointsOf(o.kind) /\ pc' \in Points /\ o.kind \notin Maintenance
        BY <2>1 DEF PointsOf, Points, Maintenance
  <2> QED  BY <1>2, <2>1, <2>2 DEF CallAtInv, CallInv, AtInv
<1> QED  BY <1>1, <1>3, <1>4, <1>5, <1>6 DEF Call

\* A quotient lies below what it was multiplied with.
LEMMA DivBelow ==
    ASSUME NEW t \in Nat, NEW m \in Nat \ {0}, NEW n \in Nat, t < n * m
    PROVE  t \div m \in 0..(n - 1)
<1> DEFINE k == t \div m
<1>1. k \in Int /\ m * k <= t
      OBVIOUS
<1>2. k >= 0
      OBVIOUS
<1>3. k < n
  <2>1. SUFFICES ASSUME k >= n  PROVE FALSE
        BY <1>1
  <2> HIDE DEF k
  <2>2. m * k >= m * n
        BY <1>1, <2>1
  <2> QED  BY <1>1, <2>2
<1> HIDE DEF k
<1>4. k \in 0..(n - 1)
      BY <1>1, <1>2, <1>3
<1> QED  BY <1>4 DEF k

LEMMA RoundsAre ==
    ASSUME NEW o \in Calls, o.kind = "find_devices"
    PROVE  Rounds(o) \in Nat /\ Len(o.addrs) \in Nat \ {0} /\ o.addrs \in Seq(Int)
<1>1. /\ o.ports \in Seq(Port) /\ o.bauds \in Seq(Nat) /\ o.addrs \in Seq(Int)
      /\ o.plan \in Seq([proto : Proto, profile : Family]) /\ o.addrs # <<>>
      BY OpeningAssumption DEF Shapes, Maintenance
<1> DEFINE P == Len(o.ports)
           B == Len(o.bauds)
           E == Len(o.plan)
<1>2. P \in Nat /\ B \in Nat /\ E \in Nat
      BY <1>1
<1>3. Rounds(o) = P * B * E
      BY DEF Rounds
<1> HIDE DEF P, B, E
<1>4. Rounds(o) \in Nat
      BY <1>2, <1>3
<1>5. Len(o.addrs) \in Nat \ {0}
      BY <1>1
<1> QED  BY <1>1, <1>4, <1>5

\* Each round of the loops is about a port, a baud and an entry of the plan.
LEMMA CombosAre ==
    ASSUME NEW o \in Calls, o.kind = "find_devices", NEW t \in 1..Rounds(o)
    PROVE  /\ Combo(o, t).port \in Port /\ Combo(o, t).baud \in Nat
           /\ Combo(o, t).entry \in [proto : Proto, profile : Family]
<1>1. /\ o.ports \in Seq(Port) /\ o.bauds \in Seq(Nat)
      /\ o.plan \in Seq([proto : Proto, profile : Family])
      BY OpeningAssumption DEF Shapes, Maintenance
<1> DEFINE P == Len(o.ports)
           B == Len(o.bauds)
           E == Len(o.plan)
<1>2. P \in Nat /\ B \in Nat /\ E \in Nat
      BY <1>1
<1>3. t \in 1..P * B * E
      BY DEF Rounds
<1> HIDE DEF P, B, E
<1>4. B # 0 /\ E # 0 /\ B * E \in Nat \ {0} /\ P * B * E = P * (B * E)
  <2>1. E # 0
        BY <1>2, <1>3
  <2>2. B # 0
        BY <1>2, <1>3
  <2>3. B * E \in Nat \ {0}
        BY <1>2, <2>1, <2>2
  <2> QED  BY <1>2, <2>1, <2>2, <2>3
<1> DEFINE m == B * E
           i == (t - 1) \div m
           j == ((t - 1) \div E) % B
           k == (t - 1) % E
<1>5. t - 1 \in Nat /\ t - 1 < P * m
      BY <1>2, <1>3, <1>4
<1>6. i \in 0..(P - 1)
  <2> HIDE DEF m
  <2>1. m \in Nat \ {0}
        BY <1>4 DEF m
  <2> QED  BY <1>2, <1>5, <2>1, DivBelow
<1>7. k \in 0..(E - 1)
      BY <1>2, <1>4, <1>5
<1>8. j \in 0..(B - 1)
  <2>1. (t - 1) \div E \in Int
        BY <1>2, <1>4, <1>5
  <2> QED  BY <1>2, <1>4, <2>1
<1>9. /\ Combo(o, t).port = o.ports[i + 1] /\ Combo(o, t).baud = o.bauds[j + 1]
      /\ Combo(o, t).entry = o.plan[k + 1]
      BY DEF Combo, P, B, E
<1> HIDE DEF i, j, k
<1>10. i + 1 \in 1..P /\ j + 1 \in 1..B /\ k + 1 \in 1..E
      BY <1>2, <1>6, <1>7, <1>8
<1>11. i + 1 \in 1..Len(o.ports) /\ j + 1 \in 1..Len(o.bauds) /\ k + 1 \in 1..Len(o.plan)
      BY <1>10 DEF P, B, E
<1>12. o.ports[i + 1] \in Port
      BY <1>1, <1>11
<1>13. o.bauds[j + 1] \in Nat
      BY <1>1, <1>11
<1>14. o.plan[k + 1] \in [proto : Proto, profile : Family]
  <2> DEFINE T == [proto : Proto, profile : Family]
  <2>1. o.plan \in Seq(T) /\ k + 1 \in 1..Len(o.plan)
        BY <1>1, <1>11
  <2> HIDE DEF T
  <2>2. o.plan[k + 1] \in T
        BY <2>1
  <2> QED  BY <2>2 DEF T
<1>15. Combo(o, t).port \in Port
      BY <1>9, <1>12
<1>16. Combo(o, t).baud \in Nat
      BY <1>9, <1>13
<1>17. Combo(o, t).entry \in [proto : Proto, profile : Family]
      BY <1>9, <1>14
<1> QED  BY <1>15, <1>16, <1>17

\* Where the scan goes to, and where a device is after a change.
LEMMA ComboSpot ==
    ASSUME TypesInv, op # NONE, op.kind = "find_devices", More
    PROVE  ComboAt(op) \in Spot
<1>1. op \in Calls /\ turn.round \in 1..Rounds(op)
  <2>1. op \in Calls /\ turn.round \in Nat \ {0}
        BY DEF TypesInv, CallInv, TurnInv
  <2>2. turn.round <= Rounds(op)
        BY DEF More
  <2>3. Rounds(op) \in Nat
        BY <2>1, RoundsAre
  <2> QED  BY <2>1, <2>2, <2>3
<1> DEFINE c == Combo(op, turn.round)
<1>2. c.port \in Port /\ c.baud \in Nat /\ c.entry \in [proto : Proto, profile : Family]
      BY <1>1, CombosAre
<1>3. op.addrs[1] \in Int
      BY <1>1, OpeningAssumption DEF Shapes, Maintenance
<1> HIDE DEF c
<1>4. Parity(c) \in {"N", "E"}
      BY DEF Parity, FactoryFor, Stdbus
<1>5. ComboAt(op) = [port |-> c.port, proto |-> c.entry.proto, profile |-> c.entry.profile,
                     framing |-> [baud |-> c.baud, parity |-> Parity(c)],
                     addr |-> op.addrs[1]]
      BY DEF ComboAt, c
<1> QED  BY <1>2, <1>3, <1>4, <1>5 DEF Spot, Framing

LEMMA NewSpot ==
    ASSUME NEW o \in Calls, o.kind \in Maintenance, TargetOk(o)
    PROVE  NewPlace(o) \in Spot /\ NewPlace(o).profile = "ez" /\ NewPlace(o).port = o.port
<1>1. /\ o.port \in Port /\ o.profile = "ez" /\ o.framing \in Framing /\ o.addr \in Int
      /\ o.kind = "change_protocol_mode" => o.target \in Proto
      /\ o.kind # "change_protocol_mode" => o.target \in Int
      BY MaintenanceCall
<1>2. CASE o.kind = "change_baud"
  <2>1. o.target \in Nat
        BY <1>2 DEF TargetOk
  <2>2. [o.framing EXCEPT !.baud = o.target] \in Framing
        BY <1>1, <2>1 DEF Framing
  <2> QED  BY <1>1, <1>2, <2>2 DEF NewPlace, NewBaud, At, Spot, Proto, Family
<1>3. CASE o.kind = "change_modbus_address"
      BY <1>1, <1>3 DEF NewPlace, NewModbusAddress, At, Spot, Proto, Family
<1>4. CASE o.kind = "change_stdbus_address"
      BY <1>1, <1>4 DEF NewPlace, NewStdbusAddress, At, Spot, Proto, Family
<1>5. CASE o.kind = "change_protocol_mode"
  <2>1. FactoryFor(o.target) \in Framing
        BY DEF FactoryFor, Stdbus, Framing
  <2> QED  BY <1>1, <1>5, <2>1 DEF NewPlace, NewProtocol, At, Spot, Family
<1> QED  BY <1>2, <1>3, <1>4, <1>5 DEF Maintenance

\* A call is where its kind can be, with a transport or the place of the next.
LEMMA CallKept ==
    ASSUME TypesInv, [Next]_vars
    PROVE  CallAtInv'
<1>0. /\ pc # "idle" <=> op # NONE
      /\ pc \notin {"idle", "next"} => at \in Spot
      /\ op # NONE /\ op.kind \in Maintenance => at.profile = "ez"
      /\ phase = "verify" => op.kind \in Maintenance
      /\ phase = "verify" => pc \in {"open", "identify", "verify"}
      /\ pc \in Points /\ at \in Spot \cup {Nowhere}
      /\ pc = "verify" => phase = "verify"
      /\ pc = "gate" => op.kind = "change_protocol_mode"
      BY DEF TypesInv, CallInv, AtInv
<1>1. CASE Over
      BY <1>1, OverKeepsCall
<1>2. CASE UNCHANGED <<op, pc, phase, at, calls>>
      BY <1>2 DEF TypesInv, CallAtInv, CallInv, AtInv
<1>3. CASE Next /\ OpenNext
  <2>1. ASSUME NEW p \in Port, CallClose(p)  PROVE CallAtInv'
        BY <1>2, <2>1 DEF CallClose, callVars
  <2>2. CASE Open \/ Probed
    <3>1. /\ pc \in OpenPoints /\ pc' = "identify"
          /\ UNCHANGED <<op, phase, calls, at>>
          /\ phase = "verify" => pc' = "identify"
          BY <2>2 DEF Open, Probed, Step, OpenPoints
    <3>2. pc' \in OpenPoints /\ pc' \in Points
          BY <3>1 DEF OpenPoints, Points
    <3> QED  BY <1>0, <3>1, <3>2, GoesOn, WithinCall DEF OpenPoints
  <2>3. CASE TryStdbus \/ TryModbus
    <3>1. /\ pc \in {"open_std", "open_mod"} /\ pc' \in {"probe_std", "probe_mod"}
          /\ UNCHANGED <<op, phase, calls, at>>
          BY <2>3 DEF TryStdbus, TryModbus, Step
    <3>2. pc' \in OpenPoints /\ pc' \in Points /\ pc \in OpenPoints
          BY <3>1 DEF OpenPoints, Points
    <3> QED  BY <1>0, <3>1, <3>2, GoesOn, WithinCall
  <2>4. CASE OpenFails \/ SkipModbus \/ StrictRead \/ BadAddress
        BY <1>1, <1>3, <2>4, WhatFails, FailedIsOver
  <2>5. CASE SkipStdbus \/ ProbeFails
    <3>1. CASE Failed
          BY <1>1, <3>1, FailedIsOver
    <3>2. CASE ~Failed
      <4>1. \E w : NotStdbus(w)
            BY <1>3, <2>5, <3>2, WhatFails DEF SkipStdbus
      <4>2. /\ pc \in {"open_std", "probe_std", "probe_mod"} /\ pc' = "open_mod"
            /\ UNCHANGED <<op, phase, calls>> /\ at' = [at EXCEPT !.proto = "mod"]
            BY <2>5, <4>1 DEF SkipStdbus, ProbeFails, NotStdbus, Step
      <4>3. pc' \in OpenPoints /\ pc' \in Points /\ pc \in OpenPoints
            BY <4>2 DEF OpenPoints, Points
      <4>4. at' \in Spot /\ at'.profile = at.profile
            BY <1>0, <4>2 DEF Spot, Proto
      <4> QED  BY <1>0, <4>2, <4>3, <4>4, GoesOn, WithinCall
    <3> QED  BY <3>1, <3>2
  <2>6. CASE Read
        BY <1>2, <2>6 DEF Read, Step
  <2>7. CASE OpenReturns \/ IdentifyReturns
        BY <1>1, <2>7, EndsAreOver DEF OpenReturns, IdentifyReturns, Returns
  <2>8. CASE Cancel
    <3>1. CASE pc = "again"
          BY <1>1, <2>8, <3>1, EndsAreOver DEF Cancel
    <3> QED  BY <1>1, <1>3, <2>8, <3>1, WhatFails, FailedIsOver
  <2> QED  BY <1>3, <2>1, <2>2, <2>3, <2>4, <2>5, <2>6, <2>7, <2>8 DEF OpenNext
<1>4. CASE Next /\ MaintenanceNext
  <2>1. CASE OpenedForChange
    <3>1. /\ pc = "identify" /\ op.kind \in Maintenance
          /\ pc' = IF phase = "verify" THEN "verify"
                   ELSE IF op.kind = "change_protocol_mode" THEN "gate" ELSE "write"
          /\ UNCHANGED <<op, phase, calls, at>>
          BY <2>1 DEF OpenedForChange, Step
    <3>2. pc' \in Points /\ pc \in OpenPoints
          BY <3>1 DEF OpenPoints, Points
    <3>3. PointsOf(op.kind) = OpenPoints \cup {"gate", "verify", "write", "sleep"}
          BY <3>1, <3>2, GoesOn
    <3>4. pc' \in PointsOf(op.kind)
          BY <3>1, <3>3
    <3> QED  BY <1>0, <3>1, <3>2, <3>4, WithinCall
  <2>2. CASE Gate
    <3>1. CASE Failed
          BY <1>1, <3>1, FailedIsOver
    <3>2. CASE ~Failed
      <4>1. /\ pc = "gate" /\ pc' = "write" /\ UNCHANGED <<op, phase, calls, at>>
            BY <1>4, <2>2, <3>2, WhatFails DEF Gate, Step
      <4>2. PointsOf(op.kind) = OpenPoints \cup {"gate", "verify", "write", "sleep"}
            BY <4>1, GoesOn
      <4> QED  BY <1>0, <4>1, <4>2, WithinCall DEF Points
    <3> QED  BY <3>1, <3>2
  <2>3. CASE Write
    <3>1. \/ Over
          \/ /\ pc = "write" /\ pc' = "sleep" /\ UNCHANGED <<op, phase, calls, at>>
      <4>1. CASE pc' = "sleep"
            BY <2>3, <4>1 DEF Write
      <4>2. CASE pc' # "sleep"
        <5>1. /\ op' = NONE /\ pc' = "idle" /\ at' = Nowhere /\ phase' = "change"
              /\ got' = <<>> /\ UNCHANGED <<turn, rows, calls>> /\ pc = "write"
              BY <2>3, <4>2 DEF Write
        <5> QED  BY <5>1 DEF Over
      <4> QED  BY <4>1, <4>2
    <3>2. PointsOf(op.kind) = OpenPoints \cup {"gate", "verify", "write", "sleep"}
          BY <2>3, GoesOn DEF Write
    <3> QED  BY <1>0, <1>1, <3>1, <3>2, WithinCall DEF Points
  <2>4. CASE Reopen
    <3>1. /\ pc = "sleep" /\ pc' = "open" /\ phase' = "verify" /\ at' = NewPlace(op)
          /\ UNCHANGED <<op, calls>>
          BY <2>4 DEF Reopen
    <3>2. PointsOf(op.kind) = OpenPoints \cup {"gate", "verify", "write", "sleep"}
          BY <3>1, GoesOn
    <3>3. op \in Calls /\ op.kind \in Maintenance /\ op.confirm /\ TargetOk(op)
          BY <3>1, WhereItIs DEF TypesInv, CallInv
    <3>4. NewPlace(op) \in Spot /\ NewPlace(op).profile = "ez"
          BY <3>3, NewSpot
    <3>5. op # NONE
          BY <3>3, OpeningAssumption
    <3>6. "open" \in PointsOf(op.kind) /\ "open" \in Points
          BY <3>2 DEF OpenPoints, Points
    <3>7. CallInv'
          BY <3>1, <3>3, <3>5, <3>6 DEF TypesInv, CallInv
    <3> QED  BY <3>1, <3>4, <3>7 DEF CallAtInv, AtInv
  <2>5. CASE Verified
        BY <1>1, <2>5, EndsAreOver DEF Verified
  <2> QED  BY <1>4, <2>1, <2>2, <2>3, <2>4, <2>5 DEF MaintenanceNext
<1>5. CASE Next /\ ScanNext
  <2>0. ASSUME pc \in {"next", "open_combo", "probe"}
        PROVE  /\ op # NONE /\ op.kind = "find_devices" /\ op.kind \notin Maintenance
               /\ PointsOf(op.kind) = {"next", "open_combo", "probe"}
               /\ phase # "verify"
        BY <1>0, <2>0, WhereItIs, GoesOn DEF TypesInv, CallInv, Maintenance
  <2>1. CASE Prune \/ DeadPort
        BY <1>2, <2>1 DEF Prune, DeadPort
  <2>2. CASE NextCombo
    <3>1. /\ pc = "next" /\ More /\ pc' = "open_combo" /\ at' = ComboAt(op)
          /\ UNCHANGED <<op, phase, calls>>
          BY <2>2 DEF NextCombo, Planned, Step
    <3>2. ComboAt(op) \in Spot
          BY <2>0, <3>1, ComboSpot
    <3> QED  BY <1>0, <2>0, <3>1, <3>2, WithinCall DEF Points
  <2>3. CASE ScanEnds
        BY <1>1, <2>3, EndsAreOver DEF ScanEnds
  <2>4. CASE OpenCombo
    <3>1. /\ pc = "open_combo" /\ pc' = "probe" /\ UNCHANGED <<op, phase, calls, at>>
          BY <2>4 DEF OpenCombo, Step
    <3> QED  BY <1>0, <2>0, <3>1, WithinCall DEF Points
  <2>5. CASE ComboFails
    <3>1. CASE Failed
          BY <1>1, <3>1, FailedIsOver
    <3>2. CASE ~Failed
      <4>1. /\ pc = "open_combo" /\ pc' = "next" /\ UNCHANGED <<op, phase, calls, at>>
            BY <2>5, <3>2 DEF ComboFails, Failed, Ways
      <4> QED  BY <1>0, <2>0, <4>1, WithinCall DEF Points
    <3> QED  BY <3>1, <3>2
  <2>6. ASSUME NEW row, NEW w, RowDone(row, w), pc = "probe"  PROVE CallAtInv'
    <3>1. /\ UNCHANGED <<op, phase, calls>> /\ pc' \in {"probe", "next"}
          /\ \/ at' = at
             \/ turn.addr < Len(op.addrs)
                /\ at' = [at EXCEPT !.addr = op.addrs[turn.addr + 1]]
          BY <2>6 DEF RowDone
    <3>2. at' \in Spot
      <4>1. CASE at' = at
            BY <1>0, <2>6, <4>1
      <4>2. CASE turn.addr < Len(op.addrs)
                 /\ at' = [at EXCEPT !.addr = op.addrs[turn.addr + 1]]
        <5>1. op.addrs \in Seq(Int) /\ turn.addr \in Nat \ {0}
              BY <2>0, <2>6, RoundsAre DEF TypesInv, CallInv, TurnInv
        <5>2. op.addrs[turn.addr + 1] \in Int
              BY <4>2, <5>1
        <5> QED  BY <1>0, <2>6, <4>2, <5>2 DEF Spot
      <4> QED  BY <3>1, <4>1, <4>2
    <3> QED  BY <1>0, <2>0, <2>6, <3>1, <3>2, WithinCall DEF Points
  <2>7. CASE SkipAddress
    <3>1. pc = "probe" /\ RowDone(Row(at, FALSE, {}), wire)
          BY <2>7 DEF SkipAddress
    <3> QED  BY <2>6, <3>1
  <2>8. CASE ProbeEnds
    <3>1. pc = "probe" /\ \E row : RowDone(row, wire)
          BY <2>8 DEF ProbeEnds
    <3> QED  BY <2>6, <3>1
  <2>9. CASE Expires
    <3>1. pc = "probe" /\ \E row, w : RowDone(row, w)
          BY <2>9 DEF Expires
    <3> QED  BY <2>6, <3>1
  <2> QED  BY <1>5, <2>1, <2>2, <2>3, <2>4, <2>5, <2>7, <2>8, <2>9 DEF ScanNext
<1>6. CASE UNCHANGED vars \/ Environment
      BY <1>2, <1>6 DEF vars, Environment, callVars
<1> QED  BY <1>3, <1>4, <1>5, <1>6, NewCall DEF Next

-----------------------------------------------------------------------------
(***************************************************************************)
(* What the reads gave                                                     *)
(***************************************************************************)

LEMMA NothingGot ==
    ASSUME CallAtInv', got' = <<>>
    PROVE  GotInv'
<1>1. got' \in Seq(Genuine \cup {NONE})
      BY DEF Genuine
<1>2. ASSUME pc' \in Reading \cup {"write"}
      PROVE  Len(got') <= Len(Reads(at'.profile, Query'))
  <2>1. at' \in Spot
        BY <1>2 DEF CallAtInv, AtInv, Reading
  <2>2. at'.profile \in Family /\ Query' \in BOOLEAN
        BY <2>1 DEF Spot, Query
  <2>3. Len(Reads(at'.profile, Query')) \in 4..6
        BY <2>2, ReadsAre
  <2> QED  BY <2>3
<1> QED  BY <1>1, <1>2 DEF GotInv

\* A reply is kept or it is not.
LEMMA KeptIs ==
    ASSUME NEW param, NEW reply
    PROVE  Kept(param, reply) \in {NONE, reply}
BY DEF Kept

LEMMA GotKept ==
    ASSUME TypesInv, [Next]_vars
    PROVE  GotInv'
<1>0. CallAtInv'
      BY CallKept
<1>1. CASE got' = <<>>
      BY <1>0, <1>1, NothingGot
<1>2. CASE UNCHANGED <<got, pc, at>>
      BY <1>2 DEF TypesInv, GotInv, Query
<1>3. CASE UNCHANGED got /\ pc \notin Reading \cup {"write"}
      BY <1>1, <1>3 DEF TypesInv, GotInv
<1>4. CASE Failed \/ Over
      BY <1>1, <1>4, FailedIsOver DEF Over
<1>5. CASE Next /\ OpenNext
  <2>1. ASSUME NEW p \in Port, CallClose(p)  PROVE GotInv'
        BY <1>2, <2>1 DEF CallClose, callVars
  <2>2. CASE Open \/ TryStdbus \/ TryModbus \/ SkipStdbus \/ Probed
        BY <1>3, <2>2 DEF Open, TryStdbus, TryModbus, SkipStdbus, Probed, NotStdbus,
                          Reading
  <2>3. CASE OpenFails \/ SkipModbus \/ StrictRead \/ BadAddress
        BY <1>4, <1>5, <2>3, WhatFails
  <2>4. CASE ProbeFails
    <3>1. pc \in {"probe_std", "probe_mod"} /\ (Failed \/ UNCHANGED got)
          BY <1>5, <2>4, WhatFails DEF ProbeFails, NotStdbus
    <3> QED  BY <1>3, <1>4, <3>1 DEF Reading
  <2>5. CASE Read
    <3>1. Asking /\ pc' = pc /\ at' = at
          BY <2>5 DEF Read, Step
    <3>2. PICK e \in ReadOutcomes : got' = Append(got, Kept(Param, e.reply))
          BY <2>5 DEF Read
    <3>3. Kept(Param, e.reply) \in Genuine \cup {NONE}
      <4>1. e.reply \in Genuine \cup {NONE}
            BY <3>1, ReadBrings DEF Brings
      <4> QED  BY <4>1, KeptIs
    <3>4. got \in Seq(Genuine \cup {NONE})
          BY DEF TypesInv, GotInv
    <3>5. got' \in Seq(Genuine \cup {NONE}) /\ Len(got') = Len(got) + 1
      <4> DEFINE S == Genuine \cup {NONE}
                 x == Kept(Param, e.reply)
      <4>1. got \in Seq(S) /\ x \in S /\ got' = Append(got, x)
            BY <3>2, <3>3, <3>4
      <4> HIDE DEF S, x
      <4>2. got' \in Seq(S) /\ Len(got') = Len(got) + 1
            BY <4>1
      <4> QED  BY <4>2 DEF S
    <3>6. Len(got) + 1 \in DOMAIN Reads(at.profile, Query) /\ at.profile \in Family
          BY <3>1, AskedFor DEF Spot
    <3>7. Len(got) + 1 <= Len(Reads(at.profile, Query))
      <4> DEFINE reads == Reads(at.profile, Query)
      <4>1. reads \in Seq(Parameter) /\ Len(got) + 1 \in DOMAIN reads
            BY <3>6, ReadsAre DEF Query
      <4> HIDE DEF reads
      <4>2. Len(got) + 1 <= Len(reads)
            BY <4>1
      <4> QED  BY <4>2 DEF reads
    <3>8. Query' = Query /\ pc \in Reading
          BY <3>1 DEF Query, Asking
    <3> QED  BY <3>1, <3>5, <3>7, <3>8 DEF GotInv
  <2>6. CASE OpenReturns \/ IdentifyReturns
        BY <1>4, <2>6, EndsAreOver DEF OpenReturns, IdentifyReturns, Returns
  <2>7. CASE Cancel
    <3>1. CASE pc = "again"
          BY <1>4, <2>7, <3>1, EndsAreOver DEF Cancel
    <3> QED  BY <1>4, <1>5, <2>7, <3>1, WhatFails
  <2> QED  BY <1>5, <2>1, <2>2, <2>3, <2>4, <2>5, <2>6, <2>7 DEF OpenNext
<1>6. CASE Next /\ MaintenanceNext
  <2>1. CASE OpenedForChange
        BY <1>1, <2>1 DEF OpenedForChange
  <2>2. CASE Gate
    <3>1. CASE Failed
          BY <1>4, <3>1
    <3>2. CASE ~Failed
      <4>1. pc = "gate" /\ pc' = "write" /\ UNCHANGED <<got, at>>
            BY <1>6, <2>2, <3>2, WhatFails DEF Gate, Step
      <4>2. Query' = Query
            BY <4>1 DEF Query
      <4> QED  BY <4>1, <4>2 DEF TypesInv, GotInv, Reading
    <3> QED  BY <3>1, <3>2
  <2>3. CASE Write
        BY <1>1, <2>3 DEF Write
  <2>4. CASE Reopen
        BY <1>3, <2>4 DEF Reopen, Reading
  <2>5. CASE Verified
        BY <1>4, <2>5, EndsAreOver DEF Verified
  <2> QED  BY <1>6, <2>1, <2>2, <2>3, <2>4, <2>5 DEF MaintenanceNext
<1>7. CASE Next /\ ScanNext
  <2>1. CASE Prune \/ DeadPort
        BY <1>2, <2>1 DEF Prune, DeadPort
  <2>2. CASE NextCombo \/ OpenCombo
        BY <1>3, <2>2 DEF NextCombo, OpenCombo, Planned, Reading
  <2>3. CASE ScanEnds
        BY <1>4, <2>3, EndsAreOver DEF ScanEnds
  <2>4. CASE ComboFails
    <3>1. pc = "open_combo" /\ (UNCHANGED got \/ Failed)
          BY <2>4 DEF ComboFails, Failed, Ways
    <3> QED  BY <1>3, <1>4, <3>1 DEF Reading
  <2>5. CASE SkipAddress \/ ProbeEnds \/ Expires
        BY <1>1, <2>5 DEF SkipAddress, ProbeEnds, Expires, RowDone
  <2> QED  BY <1>7, <2>1, <2>2, <2>3, <2>4, <2>5 DEF ScanNext
<1>8. ASSUME NEW o \in Calls, Call(o)  PROVE GotInv'
      BY <1>1, <1>2, <1>8 DEF Call, CallOpen, CallIdentify, CallMaintenance, Refuse,
                              CallScan, Begin
<1>9. CASE UNCHANGED vars \/ Environment
      BY <1>2, <1>9 DEF vars, Environment, callVars
<1> QED  BY <1>5, <1>6, <1>7, <1>8, <1>9 DEF Next

-----------------------------------------------------------------------------
(***************************************************************************)
(* Results and sessions                                                    *)
(***************************************************************************)

ResultIs == result \in [op : Calls \cup {NONE}, how : Ways, late : BOOLEAN,
                        to : SUBSET Location]

LEMMA EndsResult ==
    ASSUME TypesInv, NEW how \in Ways, NEW replies \in Seq(Genuine \cup {NONE}),
           Ends(how, replies)
    PROVE  ResultIs'
<1> DEFINE places == {replies[i].to : i \in {j \in DOMAIN replies : replies[j] # NONE}}
           late == at # Nowhere /\ wire[at.port].gave
<1>1. op \in Calls \cup {NONE}
      BY DEF TypesInv, CallInv
<1>2. places \in SUBSET Location
  <2>1. ASSUME NEW i \in DOMAIN replies, replies[i] # NONE
        PROVE  replies[i].to \in Location
    <3>1. replies[i] \in Genuine
          BY <2>1
    <3> QED  BY <3>1 DEF Genuine
  <2> QED  BY <2>1
<1>3. late \in BOOLEAN
  <2>1. CASE at = Nowhere
        BY <2>1
  <2>2. CASE at # Nowhere
    <3>1. at.port \in Port
          BY <2>2 DEF TypesInv, AtInv, Spot
    <3>2. wire[at.port].gave \in BOOLEAN
          BY <3>1 DEF TypesInv, WireInv, Handle
    <3> QED  BY <3>2
  <2> QED  BY <2>1, <2>2
<1>4. result' = [op |-> op, how |-> how, late |-> late, to |-> places]
      BY DEF Ends
<1> HIDE DEF places, late
<1> QED  BY <1>1, <1>2, <1>3, <1>4 DEF ResultIs

LEMMA ResultKept ==
    ASSUME TypesInv, [Next]_vars
    PROVE  ResultIs'
<1>0. /\ <<>> \in Seq(Genuine \cup {NONE}) /\ got \in Seq(Genuine \cup {NONE})
      /\ {"ok", "error", "raw", "cancelled", "refused", "none"} \subseteq Ways
      /\ NoResult \in [op : Calls \cup {NONE}, how : Ways, late : BOOLEAN,
                       to : SUBSET Location]
      BY DEF TypesInv, GotInv, Ways, NoResult
<1>1. CASE UNCHANGED result
      BY <1>1 DEF TypesInv, ResultInv, ResultIs
<1>2. CASE Failed
      BY <1>0, <1>2, EndsResult DEF Failed, Fails
<1>3. CASE \E how \in Ways : Ends(how, <<>>) \/ Ends(how, got)
      BY <1>0, <1>3, EndsResult
<1>4. CASE Next /\ OpenNext
  <2>1. CASE \E p \in Port : CallClose(p)
        BY <1>1, <2>1 DEF CallClose
  <2>2. CASE Open \/ TryStdbus \/ TryModbus \/ SkipStdbus \/ Probed \/ Read
        BY <1>1, <2>2 DEF Open, TryStdbus, TryModbus, SkipStdbus, Probed, NotStdbus,
                          Read, Step
  <2>3. CASE OpenFails \/ SkipModbus \/ StrictRead \/ BadAddress
        BY <1>2, <1>4, <2>3, WhatFails
  <2>4. CASE ProbeFails
    <3>1. Failed \/ UNCHANGED result
          BY <1>4, <2>4, WhatFails DEF NotStdbus, Step
    <3> QED  BY <1>1, <1>2, <3>1
  <2>5. CASE OpenReturns \/ IdentifyReturns
        BY <1>0, <1>3, <2>5 DEF OpenReturns, IdentifyReturns, Returns
  <2>6. CASE Cancel
    <3>1. CASE pc = "again"
          BY <1>0, <1>3, <2>6, <3>1 DEF Cancel
    <3> QED  BY <1>2, <1>4, <2>6, <3>1, WhatFails
  <2> QED  BY <1>4, <2>1, <2>2, <2>3, <2>4, <2>5, <2>6 DEF OpenNext
<1>5. CASE Next /\ MaintenanceNext
  <2>1. CASE OpenedForChange \/ Reopen
        BY <1>1, <2>1 DEF OpenedForChange, Reopen, Step
  <2>2. CASE Gate
    <3>1. Failed \/ UNCHANGED result
          BY <1>5, <2>2, WhatFails DEF Step
    <3> QED  BY <1>1, <1>2, <3>1
  <2>3. CASE Write
    <3>1. UNCHANGED result \/ result' = [NoResult EXCEPT !.op = op, !.how = "error"]
          BY <2>3 DEF Write
    <3>2. op \in Calls \cup {NONE}
          BY DEF TypesInv, CallInv
    <3> QED  BY <1>0, <1>1, <3>1, <3>2 DEF ResultIs
  <2>4. CASE Verified
        BY <1>0, <1>3, <2>4 DEF Verified
  <2> QED  BY <1>5, <2>1, <2>2, <2>3, <2>4 DEF MaintenanceNext
<1>6. CASE Next /\ ScanNext
  <2>1. CASE Prune \/ DeadPort \/ NextCombo \/ OpenCombo
        BY <1>1, <2>1 DEF Prune, DeadPort, NextCombo, OpenCombo, Step
  <2>2. CASE ScanEnds
        BY <1>0, <1>3, <2>2 DEF ScanEnds
  <2>3. CASE ComboFails
    <3>1. UNCHANGED result \/ Failed
          BY <2>3 DEF ComboFails, Failed, Ways
    <3> QED  BY <1>1, <1>2, <3>1
  <2>4. CASE SkipAddress \/ ProbeEnds \/ Expires
        BY <1>1, <2>4 DEF SkipAddress, ProbeEnds, Expires, RowDone
  <2> QED  BY <1>6, <2>1, <2>2, <2>3, <2>4 DEF ScanNext
<1>7. ASSUME NEW o \in Calls, Call(o)  PROVE ResultIs'
  <2>1. CASE Refuse(o)
        BY <1>0, <2>1 DEF Refuse, ResultIs
  <2>2. CASE ~Refuse(o)
    <3>1. result' = NoResult
          BY <1>7, <2>2 DEF Call, CallOpen, CallIdentify, CallMaintenance, CallScan,
                            Begin
    <3> QED  BY <1>0, <3>1 DEF ResultIs
  <2> QED  BY <2>1, <2>2
<1>8. CASE UNCHANGED vars \/ Environment
      BY <1>1, <1>8 DEF vars, Environment
<1> QED  BY <1>4, <1>5, <1>6, <1>7, <1>8 DEF Next

ToldIs == told \subseteq [who : Device, gave : BOOLEAN, alone : BOOLEAN]

\* What is told, the ports condemned and the sessions change in few steps.
LEMMA WhoTells ==
    ASSUME [Next]_vars
    PROVE  Write \/ told' \in {told, {}}
<1>1. ASSUME NEW o \in Calls, Call(o)  PROVE told' = {}
      BY <1>1 DEF Call, CallOpen, CallIdentify, CallMaintenance, Refuse, CallScan, Begin
<1>2. CASE OpenNext
      BY <1>2 DEF OpenNext, CallClose, Open, OpenFails, TryStdbus, SkipStdbus, TryModbus,
                  SkipModbus, Probed, ProbeFails, Read, StrictRead, BadAddress,
                  OpenReturns, IdentifyReturns, Cancel, Step, Fails, Ends, NotStdbus,
                  Returns, callVars
<1>3. CASE MaintenanceNext
      BY <1>3 DEF MaintenanceNext, OpenedForChange, Gate, Reopen, Verified, Step, Fails,
                  Ends
<1>4. CASE ScanNext
      BY <1>4 DEF ScanNext, Prune, NextCombo, DeadPort, ScanEnds, OpenCombo, ComboFails,
                  SkipAddress, ProbeEnds, Expires, Step, Fails, Ends, RowDone
<1>5. CASE UNCHANGED vars \/ Environment
      BY <1>5 DEF vars, Environment, callVars
<1> QED  BY <1>1, <1>2, <1>3, <1>4, <1>5 DEF Next

LEMMA WhoCondemns ==
    ASSUME [Next]_vars
    PROVE  dead' \in {dead, {}} \/ (pc = "open_combo" /\ dead' = dead \cup {at.port})
<1>1. ASSUME NEW o \in Calls, Call(o)  PROVE dead' = {}
      BY <1>1 DEF Call, CallOpen, CallIdentify, CallMaintenance, Refuse, CallScan, Begin
<1>2. CASE OpenNext
      BY <1>2 DEF OpenNext, CallClose, Open, OpenFails, TryStdbus, SkipStdbus, TryModbus,
                  SkipModbus, Probed, ProbeFails, Read, StrictRead, BadAddress,
                  OpenReturns, IdentifyReturns, Cancel, Step, Fails, Ends, NotStdbus,
                  Returns, callVars
<1>3. CASE MaintenanceNext
      BY <1>3 DEF MaintenanceNext, OpenedForChange, Gate, Write, Reopen, Verified, Step,
                  Fails, Ends
<1>4. CASE ScanNext
      BY <1>4 DEF ScanNext, Prune, NextCombo, DeadPort, ScanEnds, OpenCombo, ComboFails,
                  SkipAddress, ProbeEnds, Expires, Step, Fails, Ends, RowDone
<1>5. CASE UNCHANGED vars \/ Environment
      BY <1>5 DEF vars, Environment, callVars
<1> QED  BY <1>1, <1>2, <1>3, <1>4, <1>5 DEF Next

LEMMA WhoHasSessions ==
    ASSUME [Next]_vars
    PROVE  \/ UNCHANGED session \/ OpenReturns \/ IdentifyReturns
           \/ \E p \in Port : CallClose(p)
<1>1. ASSUME NEW o \in Calls, Call(o)  PROVE UNCHANGED session
      BY <1>1 DEF Call, CallOpen, CallIdentify, CallMaintenance, Refuse, CallScan, Begin
<1>2. CASE OpenNext
      BY <1>2 DEF OpenNext, Open, OpenFails, TryStdbus, SkipStdbus, TryModbus,
                  SkipModbus, Probed, ProbeFails, Read, StrictRead, BadAddress,
                  Cancel, Step, Fails, Ends, NotStdbus
<1>3. CASE MaintenanceNext
      BY <1>3 DEF MaintenanceNext, OpenedForChange, Gate, Write, Reopen, Verified, Step,
                  Fails
<1>4. CASE ScanNext
      BY <1>4 DEF ScanNext, Prune, NextCombo, DeadPort, ScanEnds, OpenCombo, ComboFails,
                  SkipAddress, ProbeEnds, Expires, Step, Fails, RowDone
<1>5. CASE UNCHANGED vars \/ Environment
      BY <1>5 DEF vars, Environment
<1> QED  BY <1>1, <1>2, <1>3, <1>4, <1>5 DEF Next

LEMMA ResultsKept ==
    ASSUME TypesInv, [Next]_vars
    PROVE  ResultInv'
<1>1. ToldIs'
  <2>1. CASE told' \in {told, {}}
        BY <2>1 DEF TypesInv, ResultInv, ToldIs
  <2>2. CASE Write
    <3>1. PICK reached \in SUBSET {d \in Hearing(at.port, PlaceOf(at)) :
                                     Make[d].family = "ez"} : Store(reached)
          BY <2>2 DEF Write
    <3>2. reached \subseteq Device
          BY DEF Hearing
    <3>3. at.port \in Port
          BY <2>2 DEF Write, TypesInv, AtInv, Spot
    <3>4. wire[at.port].gave \in BOOLEAN
          BY <3>3 DEF TypesInv, WireInv, Handle
    <3> DEFINE alone(d) == /\ Hearing(at.port, PlaceOf(at)) = {d}
                           /\ \A i \in DOMAIN got : got[i] # NONE => got[i].who = d
               gave == wire[at.port].gave
    <3>5. told' = {[who |-> d, gave |-> gave, alone |-> alone(d)] : d \in reached}
          BY <3>1 DEF Store
    <3>6. \A d : alone(d) \in BOOLEAN
          OBVIOUS
    <3> HIDE DEF alone, gave
    <3> QED  BY <3>2, <3>4, <3>5, <3>6 DEF ToldIs, gave
  <2> QED  BY <2>1, <2>2, WhoTells
<1>2. dead' \subseteq Port
  <2>1. pc = "open_combo" => at.port \in Port
        BY DEF TypesInv, AtInv, Spot
  <2> QED  BY <2>1, WhoCondemns DEF TypesInv, ResultInv
<1> QED  BY <1>1, <1>2, ResultKept DEF ResultInv, ResultIs, ToldIs

\* A strategy that is done has read something, and the strategies of SD and F4P
\* have six parameters.
LEMMA Completed ==
    ASSUME TypesInv, Done, ~NotAsked
    PROVE  /\ got # <<>> /\ 1 \in DOMAIN got /\ got[1] \in Genuine \cup {NONE}
           /\ at \in Spot
<1>1. pc \in Reading /\ Complete(at.profile, Query, got)
      BY DEF Done
<1>2. at \in Spot
      BY <1>1 DEF TypesInv, AtInv, Reading
<1>3. Len(Reads(at.profile, Query)) \in 4..6
  <2>1. at.profile \in Family /\ Query \in BOOLEAN
        BY <1>2 DEF Spot, Query
  <2> QED  BY <2>1, ReadsAre
<1>4. got # <<>>
  <2>1. CASE Len(got) = Len(Reads(at.profile, Query))
    <3>1. Len(got) \in 4..6
          BY <1>3, <2>1
    <3> QED  BY <3>1
  <2> QED  BY <1>1, <2>1 DEF Complete
<1>5. got \in Seq(Genuine \cup {NONE})
      BY DEF TypesInv, GotInv
<1>6. 1 \in DOMAIN got /\ got[1] \in Genuine \cup {NONE}
  <2> DEFINE S == Genuine \cup {NONE}
  <2>1. got \in Seq(S) /\ got # <<>>
        BY <1>4, <1>5
  <2> HIDE DEF S
  <2>2. 1 \in DOMAIN got /\ got[1] \in S
        BY <2>1
  <2> QED  BY <2>2 DEF S
<1> QED  BY <1>2, <1>4, <1>6

LEMMA SessionIs ==
    ASSUME NEW a \in Spot
    PROVE  NewSession(a) \in Sessions /\ NewSession(a).at = a
BY DEF NewSession, Sessions, Healths

LEMMA IdentifiedIs ==
    ASSUME NEW s \in Sessions, NEW g \in Seq(Genuine \cup {NONE}), g # <<>>
    PROVE  /\ Identified(s, g) \in Sessions
           /\ Identified(s, g).at = s.at
<1>1. \A i \in 1..Len(g) : g[i] \in Genuine \cup {NONE}
  <2> DEFINE S == Genuine \cup {NONE}
  <2>1. g \in Seq(S)
        OBVIOUS
  <2> HIDE DEF S
  <2>2. \A i \in 1..Len(g) : g[i] \in S
        BY <2>1
  <2> QED  BY <2>2 DEF S
<1>2. \A r \in Genuine : r.who \in Device
      BY DEF Genuine
<1>3. Answerer(g) \in Device \cup {NONE}
  <2>1. 1 \in 1..Len(g)
    <3> DEFINE S == Genuine \cup {NONE}
    <3>1. g \in Seq(S) /\ g # <<>>
          OBVIOUS
    <3> HIDE DEF S
    <3> QED  BY <3>1
  <2>2. g[1] \in Genuine \cup {NONE}
        BY <1>1, <2>1
  <2> QED  BY <1>2, <2>2 DEF Answerer
<1>4. \A r \in Genuine : UnitOf(r) \in {"C", "F"}
      BY <1>2, SegmentAssumption DEF UnitOf, Makes
<1>5. \A r \in Genuine : Make[r.who].decimals \in 0..3
      BY <1>2, SegmentAssumption DEF Makes
<1> DEFINE last == IF s.at.profile # "ez" /\ Len(g) = 6 THEN g[6] ELSE NONE
           health == Health(s.at.profile, g)
           unit == IF last = NONE THEN s.unit ELSE UnitOf(last)
           decimals == IF s.at.profile = "f4p" /\ Len(g) = 6 /\ g[5] # NONE
                       THEN Make[g[5].who].decimals ELSE s.decimals
           read == last # NONE
<1>6. health \in Healths
      BY DEF Health, EzHealth, SdHealth, F4pHealth, Healths
<1>7. last \in Genuine \cup {NONE}
      BY <1>1
<1>8. s.unit \in {"C", "F", NONE} /\ s.decimals \in 0..3
      BY DEF Sessions
<1>9. unit \in {"C", "F", NONE}
      BY <1>4, <1>7, <1>8
<1>10. decimals \in 0..3
  <2>1. CASE s.at.profile = "f4p" /\ Len(g) = 6 /\ g[5] # NONE
    <3>1. g[5] \in Genuine
          BY <1>1, <2>1
    <3> QED  BY <1>5, <2>1, <3>1
  <2>2. CASE ~(s.at.profile = "f4p" /\ Len(g) = 6 /\ g[5] # NONE)
        BY <1>8, <2>2
  <2> QED  BY <2>1, <2>2
<1>11. Identified(s, g) = [s EXCEPT !.health = health, !.who = Answerer(g),
                                    !.unitRead = read, !.unit = unit,
                                    !.decimals = decimals]
      BY DEF Identified, Sessions
<1>12. read \in BOOLEAN
      OBVIOUS
<1> HIDE DEF last, health, unit, decimals, read
<1> QED  BY <1>3, <1>6, <1>9, <1>10, <1>11, <1>12 DEF Sessions

LEMMA SessionsKept ==
    ASSUME TypesInv, HInv, [Next]_vars
    PROVE  SessionInv'
<1>0. session \in [Port -> Sessions] /\ got \in Seq(Genuine \cup {NONE})
      /\ \A p \in Port : session[p] # NoSession => session[p].at \in Spot
      BY DEF TypesInv, SessionInv, GotInv
<1>1. CASE UNCHANGED session
      BY <1>0, <1>1 DEF SessionInv
<1>2. ASSUME NEW p \in Port, CallClose(p)  PROVE SessionInv'
  <2>1. session' = [session EXCEPT ![p] = NoSession]
        BY <1>2 DEF CallClose
  <2>2. NoSession \in Sessions
        BY DEF NoSession, NewSession, Sessions, Healths, Nowhere
  <2> HIDE DEF NoSession
  <2> QED  BY <1>0, <2>1, <2>2 DEF SessionInv
<1>3. ASSUME NEW s \in Sessions, s.at \in Spot, at \in Spot,
             session' = [session EXCEPT ![at.port] = s]
      PROVE  SessionInv'
  <2>1. at.port \in Port
        BY <1>3 DEF Spot
  <2> QED  BY <1>0, <1>3, <2>1 DEF SessionInv
<1>4. CASE OpenReturns
  <2>1. /\ Done /\ pc = "identify" /\ op.kind = "open_device"
        /\ session' = [session EXCEPT ![at.port] =
             IF op.identify THEN Identified(NewSession(at), got) ELSE NewSession(at)]
        BY <1>4 DEF OpenReturns, Returns
  <2>2. at \in Spot
        BY <2>1 DEF TypesInv, AtInv
  <2>3. NewSession(at) \in Sessions /\ NewSession(at).at \in Spot
        BY <2>2, SessionIs
  <2>4. CASE op.identify
    <3>1. got # <<>>
          BY <2>1, <2>4, Completed DEF NotAsked
    <3>2. /\ Identified(NewSession(at), got) \in Sessions
          /\ Identified(NewSession(at), got).at \in Spot
          BY <1>0, <2>3, <3>1, IdentifiedIs
    <3> QED  BY <1>3, <2>1, <2>2, <2>4, <3>2
  <2>5. CASE ~op.identify
        BY <1>3, <2>1, <2>2, <2>3, <2>5
  <2> QED  BY <2>4, <2>5
<1>5. CASE IdentifyReturns
  <2>1. /\ Done /\ pc = "again"
        /\ session' = [session EXCEPT ![at.port] = Identified(session[at.port], got)]
        BY <1>5 DEF IdentifyReturns, Returns
  <2>2. at \in Spot /\ got # <<>>
        BY <2>1, Completed DEF NotAsked
  <2>3. session[at.port] \in Sessions
        BY <1>0, <2>2 DEF Spot
  <2>4. /\ Identified(session[at.port], got) \in Sessions
        /\ Identified(session[at.port], got).at = session[at.port].at
        BY <1>0, <2>2, <2>3, IdentifiedIs
  <2>5. session[at.port] # NoSession
        BY <2>1 DEF HInv, Shape
  <2>6. session[at.port].at \in Spot
        BY <1>0, <2>2, <2>5 DEF Spot
  <2> QED  BY <1>3, <2>1, <2>2, <2>4, <2>6
<1> QED  BY <1>1, <1>2, <1>4, <1>5, WhoHasSessions

-----------------------------------------------------------------------------
(***************************************************************************)
(* The rows of a scan                                                      *)
(***************************************************************************)

\* The other calls have nothing to do with the rows.
LEMMA NotOfScans ==
    ASSUME TypesInv, Next, OpenNext \/ MaintenanceNext
    PROVE  \/ Over
           \/ UNCHANGED <<turn, rows, op>> /\ (UNCHANGED pc \/ op.kind # "find_devices")
<1>0. /\ pc \in OpenPoints \cup {"gate", "verify", "write", "sleep"} =>
            op.kind # "find_devices"
      /\ Failed => Over
      BY WhereItIs, FailedIsOver DEF Maintenance, TypesInv
<1>1. CASE OpenNext
  <2>1. CASE \E p \in Port : CallClose(p)
        BY <2>1 DEF CallClose, callVars
  <2>2. CASE Open \/ TryStdbus \/ TryModbus \/ SkipStdbus \/ Probed
    <3>1. pc \in OpenPoints /\ UNCHANGED <<turn, rows, op>>
          BY <2>2 DEF Open, TryStdbus, TryModbus, SkipStdbus, Probed, NotStdbus,
                      OpenPoints, Step
    <3> QED  BY <1>0, <3>1
  <2>3. CASE OpenFails \/ SkipModbus \/ StrictRead \/ BadAddress
        BY <1>0, <2>3, WhatFails
  <2>4. CASE ProbeFails
    <3>1. pc \in OpenPoints
          BY <2>4 DEF ProbeFails, OpenPoints
    <3>2. Failed \/ UNCHANGED <<turn, rows, op>>
          BY <2>4, WhatFails DEF NotStdbus, Step
    <3> QED  BY <1>0, <3>1, <3>2
  <2>5. CASE Read
        BY <2>5 DEF Read, Step
  <2>6. CASE OpenReturns \/ IdentifyReturns
        BY <2>6, EndsAreOver DEF OpenReturns, IdentifyReturns, Returns
  <2>7. CASE Cancel
    <3>1. CASE pc = "again"
          BY <2>7, <3>1, EndsAreOver DEF Cancel
    <3> QED  BY <1>0, <2>7, <3>1, WhatFails
  <2> QED  BY <1>1, <2>1, <2>2, <2>3, <2>4, <2>5, <2>6, <2>7 DEF OpenNext
<1>2. CASE MaintenanceNext
  <2>1. CASE OpenedForChange
    <3>1. pc \in OpenPoints /\ UNCHANGED <<turn, rows, op>>
          BY <2>1 DEF OpenedForChange, Step, OpenPoints
    <3> QED  BY <1>0, <3>1
  <2>2. CASE Gate
    <3>1. pc = "gate" /\ (Failed \/ UNCHANGED <<turn, rows, op>>)
          BY <2>2, WhatFails DEF Gate, Step
    <3> QED  BY <1>0, <3>1
  <2>3. CASE Write
    <3>1. /\ pc = "write" /\ UNCHANGED <<turn, rows>>
          /\ \/ UNCHANGED op
             \/ /\ op' = NONE /\ pc' = "idle" /\ at' = Nowhere /\ phase' = "change"
                /\ got' = <<>> /\ UNCHANGED <<turn, calls>>
          BY <2>3 DEF Write
    <3> QED  BY <1>0, <3>1 DEF Over
  <2>4. CASE Reopen
    <3>1. pc = "sleep" /\ UNCHANGED <<turn, rows, op>>
          BY <2>4 DEF Reopen
    <3> QED  BY <1>0, <3>1
  <2>5. CASE Verified
        BY <2>5, EndsAreOver DEF Verified
  <2> QED  BY <1>2, <2>1, <2>2, <2>3, <2>4, <2>5 DEF MaintenanceNext
<1> QED  BY <1>1, <1>2

LEMMA RowIs ==
    ASSUME TypesInv, NEW a \in Spot, NEW ok \in BOOLEAN, NEW replies \in SUBSET Genuine
    PROVE  Row(a, ok, replies) \in RowSet
<1>1. wire[a.port].gave \in BOOLEAN
      BY DEF TypesInv, WireInv, Handle, Spot
<1> QED  BY <1>1 DEF Row, RowSet

LEMMA NoRowsAre ==
    ASSUME TypesInv, op \in Calls, op.kind = "find_devices", NEW a \in Spot
    PROVE  /\ NoRows(a) \in Seq(RowSet) /\ Len(NoRows(a)) = Len(op.addrs)
           /\ \A i \in 1..Len(op.addrs) : NoRows(a)[i] = Row([a EXCEPT !.addr = op.addrs[i]], FALSE, {})
<1>1. op.addrs \in Seq(Int) /\ Len(op.addrs) \in Nat
      BY RoundsAre
<1>2. ASSUME NEW i \in 1..Len(op.addrs)
      PROVE  Row([a EXCEPT !.addr = op.addrs[i]], FALSE, {}) \in RowSet
  <2>1. op.addrs[i] \in Int
        BY <1>1
  <2>2. [a EXCEPT !.addr = op.addrs[i]] \in Spot
        BY <2>1 DEF Spot
  <2> QED  BY <2>2, RowIs
<1> DEFINE n == Len(op.addrs)
           row(i) == Row([a EXCEPT !.addr = op.addrs[i]], FALSE, {})
<1>3. NoRows(a) = [i \in 1..n |-> row(i)]
      BY DEF NoRows
<1>4. n \in Nat /\ \A i \in 1..n : row(i) \in RowSet
      BY <1>1, <1>2
<1> HIDE DEF n, row
<1>5. /\ [i \in 1..n |-> row(i)] \in Seq(RowSet)
      /\ Len([i \in 1..n |-> row(i)]) = n
      /\ \A i \in 1..n : [j \in 1..n |-> row(j)][i] = row(i)
      BY <1>4
<1> QED  BY <1>3, <1>5 DEF n, row

\* The rows found name replies that came.
LEMMA FoundAre ==
    ASSUME TypesInv, Done, pc = "probe"
    PROVE  Identity(at.profile, got) \in SUBSET Genuine
<1>1. got # <<>> /\ got[1] \in Genuine \cup {NONE} /\ at \in Spot
      BY Completed DEF NotAsked
<1>2. CASE at.profile = "ez"
  <2>1. Len(got) = Len(Reads(at.profile, Query))
        BY <1>2 DEF Done, Complete, NotAsked
  <2>2. Len(Reads(at.profile, Query)) \in 4..6
        BY <1>1, ReadsAre DEF Spot, Query
  <2>3. got \in Seq(Genuine \cup {NONE}) /\ Len(got) \in 4..6
        BY <2>1, <2>2 DEF TypesInv, GotInv
  <2>4. \A i \in 1..2 : got[i] \in Genuine \cup {NONE}
    <3> DEFINE S == Genuine \cup {NONE}
    <3>1. got \in Seq(S) /\ Len(got) \in 4..6
          BY <2>3
    <3> HIDE DEF S
    <3>2. \A i \in 1..2 : got[i] \in S
          BY <3>1
    <3> QED  BY <3>2 DEF S
  <2> QED  BY <1>2, <2>4 DEF Identity
<1>3. CASE at.profile # "ez"
      BY <1>1, <1>3 DEF Identity, IsModel
<1> QED  BY <1>2, <1>3

LEMMA TurnKept ==
    ASSUME TypesInv, [Next]_vars
    PROVE  TurnInv'
<1>0. /\ turn.round \in Nat \ {0} /\ turn.addr \in Nat \ {0} /\ rows \in Seq(RowSet)
      /\ turn \in [round : Nat \ {0}, addr : Nat \ {0}]
      BY DEF TypesInv, TurnInv
<1>1. CASE UNCHANGED <<turn, rows, op>> /\ (UNCHANGED pc \/ op.kind # "find_devices")
      BY <1>1 DEF TypesInv, TurnInv
<1>2. FirstTurn \in [round : Nat \ {0}, addr : Nat \ {0}]
      BY DEF FirstTurn
<1>3. CASE Over
      BY <1>0, <1>2, <1>3 DEF Over, TurnInv
<1>4. ASSUME NEW o \in Calls, Call(o)  PROVE TurnInv'
  <2>1. rows' = <<>>
        BY <1>4 DEF Call, CallOpen, CallIdentify, CallMaintenance, Refuse, CallScan, Begin
  <2>2. CASE Refuse(o)
        BY <1>0, <2>1, <2>2 DEF Refuse, TurnInv
  <2>3. CASE ~Refuse(o)
    <3>1. turn' = FirstTurn /\ op' = o
          BY <1>4, <2>3 DEF Call, CallOpen, CallIdentify, CallMaintenance, CallScan, Begin
    <3>2. CASE o.kind = "find_devices"
      <4>1. pc' = "next"
            BY <1>4, <2>3, <3>2 DEF Call, CallOpen, CallIdentify, CallMaintenance,
                                    CallScan, Maintenance
      <4>2. Rounds(o) \in Nat /\ Len(o.addrs) \in Nat \ {0}
            BY <3>2, RoundsAre
      <4> QED  BY <1>2, <2>1, <3>1, <4>1, <4>2 DEF TurnInv, FirstTurn
    <3>3. CASE o.kind # "find_devices"
          BY <1>2, <2>1, <3>1, <3>3 DEF TurnInv
    <3> QED  BY <3>2, <3>3
  <2> QED  BY <2>2, <2>3
<1>5. CASE Next /\ (OpenNext \/ MaintenanceNext)
      BY <1>1, <1>3, <1>5, NotOfScans
<1>6. CASE Next /\ ScanNext
  <2>0. ASSUME pc \in {"next", "open_combo", "probe"}
        PROVE  /\ op \in Calls /\ op.kind = "find_devices"
               /\ Rounds(op) \in Nat /\ Len(op.addrs) \in Nat \ {0}
               /\ turn.round <= Rounds(op) + 1 /\ turn.addr <= Len(op.addrs)
               /\ pc \in {"next", "open_combo"} => turn.addr = 1
               /\ pc # "next" => turn.round \in InPlan(op)
    <3>1. op # NONE /\ op \in Calls /\ op.kind = "find_devices"
          BY <2>0, WhereItIs DEF TypesInv, CallInv
    <3> QED  BY <3>1, RoundsAre DEF TypesInv, TurnInv
  <2>1. ASSUME turn' = NextRound, pc' = "next", op' = op, rows' \in Seq(RowSet),
               op \in Calls, op.kind = "find_devices", turn.round <= Rounds(op)
        PROVE  TurnInv'
    <3>1. turn' = [round |-> turn.round + 1, addr |-> 1]
          BY <2>1 DEF NextRound
    <3>2. turn' \in [round : Nat \ {0}, addr : Nat \ {0}]
          BY <1>0, <3>1
    <3>3. Rounds(op) \in Nat /\ Len(op.addrs) \in Nat \ {0}
          BY <2>1, RoundsAre
    <3>4. turn'.round <= Rounds(op) + 1 /\ turn'.addr <= Len(op.addrs) /\ turn'.addr = 1
          BY <1>0, <2>1, <3>1, <3>3
    <3> QED  BY <2>1, <3>2, <3>4 DEF TurnInv
  <2>2. CASE Prune
        BY <1>0, <2>0, <2>1, <2>2 DEF Prune, More
  <2>3. CASE DeadPort
    <3>1. /\ pc = "next" /\ More /\ rows' = rows \o NoRows(ComboAt(op)) /\ op # NONE
          BY <2>3 DEF DeadPort, Planned, TypesInv, CallInv
    <3>2. NoRows(ComboAt(op)) \in Seq(RowSet)
          BY <2>0, <3>1, ComboSpot, NoRowsAre
    <3>3. rows' \in Seq(RowSet)
      <4> HIDE DEF NoRows, RowSet
      <4> QED  BY <1>0, <3>1, <3>2
    <3> QED  BY <2>0, <2>1, <2>3, <3>1, <3>3 DEF DeadPort, More
  <2>4. CASE NextCombo
    <3>1. /\ pc = "next" /\ More /\ ~Pruned(op, Combo(op, turn.round))
          /\ pc' = "open_combo" /\ UNCHANGED <<op, turn, rows>>
          BY <2>4 DEF NextCombo, Planned, Step
    <3>2. turn.round \in InPlan(op)
          BY <1>0, <2>0, <3>1 DEF More, InPlan
    <3> QED  BY <1>0, <2>0, <3>1, <3>2 DEF TurnInv
  <2>5. CASE ScanEnds
        BY <1>3, <2>5, EndsAreOver DEF ScanEnds
  <2>6. CASE OpenCombo
    <3>1. pc = "open_combo" /\ pc' = "probe" /\ UNCHANGED <<op, turn, rows>>
          BY <2>6 DEF OpenCombo, Step
    <3> QED  BY <1>0, <2>0, <3>1 DEF TurnInv
  <2>7. CASE ComboFails
    <3>1. CASE Failed
          BY <1>3, <3>1, FailedIsOver
    <3>2. CASE ~Failed
      <4>1. /\ pc = "open_combo" /\ rows' = rows \o NoRows(at) /\ turn' = NextRound
            /\ pc' = "next" /\ op' = op
            BY <2>7, <3>2 DEF ComboFails, Failed, Ways
      <4>2. at \in Spot
            BY <4>1 DEF TypesInv, AtInv
      <4>3. NoRows(at) \in Seq(RowSet)
            BY <2>0, <4>1, <4>2, NoRowsAre
      <4>4. rows' \in Seq(RowSet)
        <5> HIDE DEF NoRows, RowSet
        <5> QED  BY <1>0, <4>1, <4>3
      <4>5. turn.round <= Rounds(op)
            BY <2>0, <4>1 DEF InPlan
      <4> QED  BY <2>0, <2>1, <4>1, <4>4, <4>5
    <3> QED  BY <3>1, <3>2
  <2>8. ASSUME NEW row \in RowSet, NEW w, RowDone(row, w), pc = "probe"
        PROVE  TurnInv'
    <3>1. rows' = Append(rows, row) /\ op' = op
          BY <2>8 DEF RowDone
    <3>2. rows' \in Seq(RowSet)
          BY <1>0, <2>8, <3>1
    <3>3. CASE turn.addr < Len(op.addrs)
      <4>1. turn' = [turn EXCEPT !.addr = @ + 1] /\ pc' = "probe"
            BY <2>8, <3>3 DEF RowDone
      <4>2. /\ turn' \in [round : Nat \ {0}, addr : Nat \ {0}]
            /\ turn'.round = turn.round /\ turn'.addr = turn.addr + 1
            BY <1>0, <4>1
      <4>3. turn'.addr <= Len(op.addrs)
            BY <1>0, <2>0, <2>8, <3>3, <4>2
      <4> QED  BY <2>0, <2>8, <3>1, <3>2, <4>1, <4>2, <4>3 DEF TurnInv
    <3>4. CASE ~(turn.addr < Len(op.addrs))
      <4>1. turn' = NextRound /\ pc' = "next"
            BY <2>8, <3>4 DEF RowDone
      <4>2. turn.round <= Rounds(op)
            BY <2>0, <2>8 DEF InPlan
      <4> QED  BY <2>0, <2>1, <2>8, <3>1, <3>2, <4>1, <4>2
    <3> QED  BY <3>3, <3>4
  <2>9. pc = "probe" => at \in Spot
        BY DEF TypesInv, AtInv
  <2>10. CASE SkipAddress \/ Expires
    <3>1. pc = "probe" /\ \E w : RowDone(Row(at, FALSE, {}), w)
          BY <2>10 DEF SkipAddress, Expires
    <3>2. Row(at, FALSE, {}) \in RowSet
          BY <2>9, <3>1, RowIs
    <3> HIDE DEF Row
    <3> QED  BY <2>8, <3>1, <3>2
  <2>11. CASE ProbeEnds
    <3> DEFINE found == Identity(at.profile, got)
    <3>1. pc = "probe" /\ RowDone(Row(at, found # {}, found), wire) /\ Done
          BY <2>11 DEF ProbeEnds
    <3>2. found \in SUBSET Genuine
          BY <3>1, FoundAre
    <3> HIDE DEF found
    <3>3. Row(at, found # {}, found) \in RowSet
          BY <2>9, <3>1, <3>2, RowIs
    <3> HIDE DEF Row
    <3> QED  BY <2>8, <3>1, <3>3
  <2> QED  BY <1>6, <2>2, <2>3, <2>4, <2>5, <2>6, <2>7, <2>10, <2>11 DEF ScanNext
<1>7. CASE UNCHANGED vars \/ Environment
      BY <1>1, <1>7 DEF vars, Environment, callVars
<1> QED  BY <1>4, <1>5, <1>6, <1>7 DEF Next

-----------------------------------------------------------------------------
LEMMA InitTypes ==
    ASSUME Init
    PROVE  TypesInv
<1>1. /\ running \in Settings /\ eeprom = running
      /\ wire = [p \in Port |->
                   [holder |-> "free", line |-> <<>>, gave |-> FALSE, blame |-> NONE]]
      BY DEF Init, SegmentInit
<1>2. DevicesInv
      BY <1>1, SegmentAssumption DEF DevicesInv
<1>3. WireInv
  <2>1. [holder |-> "free", line |-> <<>>, gave |-> FALSE, blame |-> NONE] \in Handle
        BY DEF Handle, Holder
  <2>2. Len(<<>>) <= MaxLine
        BY SegmentAssumption
  <2> QED  BY <1>1, <2>1, <2>2 DEF WireInv
<1>4. /\ op = NONE /\ pc = "idle" /\ phase = "change" /\ at = Nowhere /\ got = <<>>
      /\ turn = FirstTurn /\ rows = <<>> /\ dead = {} /\ told = {} /\ result = NoResult
      /\ session = [p \in Port |-> NoSession] /\ calls = 0
      BY DEF Init
<1>5. CallInv
      BY <1>4, OpeningAssumption DEF CallInv, Points
<1>6. AtInv /\ GotInv
      BY <1>4 DEF AtInv, GotInv, Reading
<1>7. ResultInv
      BY <1>4 DEF ResultInv, NoResult, Ways
<1>8. SessionInv
  <2>1. NoSession \in Sessions
        BY DEF NoSession, NewSession, Sessions, Healths, Nowhere
  <2> HIDE DEF NoSession
  <2> QED  BY <1>4, <2>1 DEF SessionInv
<1>9. TurnInv
      BY <1>4 DEF TurnInv, FirstTurn
<1> QED  BY <1>2, <1>3, <1>5, <1>6, <1>7, <1>8, <1>9 DEF TypesInv

\* The invariant of everything below.
Sound == HInv /\ TypesInv

LEMMA SoundAlways == Spec => []Sound
<1>1. Init => TypesInv
      BY InitTypes
<1>2. TypesInv /\ HInv /\ [Next]_vars => TypesInv'
      BY DevicesKept, WireKept, CallKept, GotKept, ResultsKept, SessionsKept, TurnKept
         DEF TypesInv, CallAtInv
<1>3. Spec => []HInv
      BY HoldersAlways
<1> QED  BY <1>1, <1>2, <1>3, PTL DEF Spec, Sound

\* The variables of the calls have their types at every point of every call: no
\* more than six answers are kept, a port's line never holds more than MaxLine
\* frames, and only a call before its change can be at the gate or the write.
THEOREM CallTypes == Spec => []TypeOK
<1>1. Sound => TypeOK
  <2> SUFFICES ASSUME Sound PROVE TypeOK
      OBVIOUS
  <2>1. running \in [Device -> Setting] /\ eeprom \in [Device -> Setting]
        BY DEF Sound, TypesInv, DevicesInv
  <2>2. \A p \in Port : wire[p].holder \in Holder /\ wire[p].gave \in BOOLEAN
                        /\ Len(wire[p].line) <= MaxLine
        BY DEF Sound, TypesInv, WireInv, Handle
  <2>3. /\ pc \in Points /\ (pc = "idle" <=> op = NONE)
        /\ phase \in {"change", "verify"}
        /\ pc \in {"gate", "write", "sleep"} => phase = "change"
        /\ calls \in 0..MaxCalls
        BY DEF Sound, TypesInv, CallInv
  <2>4. Len(got) <= 6 /\ (got # <<>> => pc \in Reading \cup {"write"})
    <3>1. got # <<>> => pc \in Reading \cup {"write"}
          BY DEF Sound, TypesInv, GotInv
    <3>2. CASE got = <<>>
          BY <3>2
    <3>3. CASE got # <<>>
      <4>1. pc \in Reading \cup {"write"}
            BY <3>1, <3>3
      <4>2. at \in Spot /\ Len(got) <= Len(Reads(at.profile, Query))
            BY <4>1 DEF Sound, TypesInv, AtInv, GotInv, Reading
      <4>3. Len(Reads(at.profile, Query)) \in 4..6
            BY <4>2, ReadsAre DEF Spot, Query
      <4>4. Len(got) \in Nat
            BY DEF Sound, TypesInv, GotInv
      <4>5. Len(got) <= 6
        <5> DEFINE m == Len(got)
                   n == Len(Reads(at.profile, Query))
        <5>1. m \in Nat /\ n \in 4..6 /\ m <= n
              BY <4>2, <4>3, <4>4
        <5> HIDE DEF m, n
        <5>2. m <= 6
              BY <5>1
        <5> QED  BY <5>2 DEF m
      <4> QED  BY <3>1, <4>5
    <3> QED  BY <3>2, <3>3
  <2>5. dead \subseteq Port /\ result.how \in Ways
        BY DEF Sound, TypesInv, ResultInv
  <2> QED  BY <2>1, <2>2, <2>3, <2>4, <2>5 DEF TypeOK
<1> QED  BY <1>1, SoundAlways, PTL
=============================================================================
