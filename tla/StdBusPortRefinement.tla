------------------------ MODULE StdBusPortRefinement ------------------------
(***************************************************************************)
(* Proofs about what travels on the port of StdBusPort: while no exchange  *)
(* was given up, everything on the segment and in the receive buffer is    *)
(* about the one call on the wire.  From this follow that a key is called  *)
(* unsupported only if the device rejects it, and that the port implements *)
(* PortService.                                                            *)
(***************************************************************************)
EXTENDS StdBusPortProofs

\* c is the call of a task whose exchange is on the wire.
OnTheWire(c) == \E t \in Task : pc[t] = "io" /\ call[t] = c

\* r is a reply to such a call, as its device gives it or damaged.
Truthful(r) == OnTheWire(r.call) /\ r.body \in {"garbled", Body[r.call]}

WireTruth ==
    /\ ~open => inbuf = <<>>
    /\ open /\ abandoned = 0 =>
          /\ \A i \in 1..Len(pending) : OnTheWire(pending[i])
          /\ \A i \in 1..Len(inbuf) : Truthful(inbuf[i])

WireInv == OwedInv /\ WireTruth

LEMMA WireParts ==
    ASSUME WireInv
    PROVE  /\ OwedInv /\ LockInv /\ TypeInv /\ TypeOK
           /\ Len(pending) \in Nat /\ Len(inbuf) \in Nat /\ abandoned \in Nat
BY WireLengths DEF WireInv, OwedInv, LockInv, TypeInv

\* With nobody on the wire and nothing given up, the line is silent.
LEMMA Silence ==
    ASSUME WireInv, open, abandoned = 0, \A t \in Task : pc[t] # "io"
    PROVE  Len(pending) = 0 /\ Len(inbuf) = 0
<1>1. Len(pending) \in Nat /\ Len(inbuf) \in Nat
      BY WireParts
<1>2. Len(pending) + Len(inbuf) <= 0
      BY DEF WireInv, OwedInv, OwedReplies
<1> QED  BY <1>1, <1>2

\* The exchange on the wire has at most one frame to come, or come.
LEMMA OneFrame ==
    ASSUME WireInv, open, abandoned = 0
    PROVE  Len(pending) + Len(inbuf) <= 1
<1>1. Len(pending) \in Nat /\ Len(inbuf) \in Nat
      BY WireParts
<1>2. Len(pending) + Len(inbuf) <= IF \E t \in Task : pc[t] = "io" THEN 1 ELSE 0
      BY DEF WireInv, OwedInv, OwedReplies
<1> QED  BY <1>1, <1>2

\* A step that leaves the line and the exchange on it alone.
LEMMA TruthKept ==
    ASSUME WireInv, UNCHANGED <<open, wireVars, abandoned>>,
           \A t \in Task : pc[t] = "io" => pc'[t] = "io" /\ call'[t] = call[t]
    PROVE  WireTruth'
<1>1. \A c : OnTheWire(c) => OnTheWire(c)'
      BY DEF OnTheWire
<1> QED  BY <1>1 DEF WireInv, WireTruth, Truthful, wireVars

\* A step of a task that is not on the wire, and does not get there.
LEMMA TruthOffWire ==
    ASSUME WireInv, NEW t \in Task, pc[t] # "io", NEW x, NEW c,
           pc' = [pc EXCEPT ![t] = x],
           call' = [call EXCEPT ![t] = c] \/ call' = call,
           UNCHANGED <<open, wireVars, abandoned>>
    PROVE  WireTruth'
<1>1. pc \in [Task -> Points] /\ call \in [Task -> Call]
      BY WireParts DEF TypeOK
<1>2. \A u \in Task : pc[u] = "io" => pc'[u] = "io" /\ call'[u] = call[u]
      BY <1>1
<1> QED  BY <1>2, TruthKept

LEMMA TruthSend ==
    ASSUME WireInv, NEW t \in Task, Send(t)
    PROVE  WireTruth'
<1>1. LockInv /\ TypeOK /\ Len(pending) \in Nat /\ Len(inbuf) \in Nat
      BY WireParts
<1>2. /\ open /\ open' = open /\ abandoned' = abandoned
      /\ inbuf' = inbuf /\ call' = call
      /\ pending' = Append(pending, call[t])
      /\ pc' = [pc EXCEPT ![t] = "io"]
      BY DEF Send, portVars
<1>3. \A u \in Task : pc[u] # "io"
      BY <1>1 DEF Send, LockInv, LockDiscipline, Holding
<1>4. pending \in Seq(Call) /\ call[t] \in Call
      BY <1>1 DEF TypeOK
<1>5. OnTheWire(call[t])'
      BY <1>1, <1>2 DEF OnTheWire, TypeOK
<1>6. CASE abandoned = 0
  <2>1. Len(pending) = 0 /\ Len(inbuf) = 0
        BY <1>2, <1>3, <1>6, Silence
  <2>2. Len(pending') = 1 /\ pending'[1] = call[t]
        BY <1>2, <1>4, <2>1, AppendAt
  <2>3. \A i \in 1..Len(pending') : OnTheWire(pending[i])'
        BY <1>2, <1>5, <2>2 DEF OnTheWire
  <2>4. \A i \in 1..Len(inbuf') : Truthful(inbuf[i])'
        BY <1>2, <2>1
  <2> QED  BY <1>2, <2>3, <2>4 DEF WireTruth
<1>7. CASE abandoned # 0
      BY <1>2, <1>7 DEF WireTruth
<1> QED  BY <1>6, <1>7

LEMMA TruthReceive ==
    ASSUME WireInv, NEW t \in Task, Receive(t)
    PROVE  WireTruth'
<1>1. TypeOK /\ Len(pending) \in Nat /\ Len(inbuf) \in Nat
      BY WireParts
<1>2. /\ inbuf # <<>> /\ inbuf' = Tail(inbuf)
      /\ UNCHANGED <<open, pending, abandoned>>
      BY DEF Receive, TakeFrame, portVars
<1>3. open
      BY <1>2 DEF WireInv, WireTruth
<1>4. Len(inbuf) # 0 /\ Len(inbuf') = Len(inbuf) - 1
      BY <1>1, <1>2, HeadTailProperties, EmptySeq DEF TypeOK
<1>5. CASE abandoned = 0
  <2>1. Len(pending) + Len(inbuf) <= 1
        BY <1>3, <1>5, OneFrame
  <2>2. Len(pending) = 0 /\ Len(inbuf') = 0
        BY <1>1, <1>4, <2>1
  <2>3. open' /\ pending' = pending
        BY <1>2, <1>3
  <2>4. \A i \in 1..Len(pending') : OnTheWire(pending[i])'
        BY <2>2, <2>3
  <2>5. \A i \in 1..Len(inbuf') : Truthful(inbuf[i])'
        BY <2>2
  <2> QED  BY <2>3, <2>4, <2>5 DEF WireTruth
<1>6. CASE abandoned # 0
      BY <1>2, <1>3, <1>6 DEF WireTruth
<1> QED  BY <1>5, <1>6

\* Giving up an exchange ends what the line promised.
LEMMA TruthAbandoned ==
    ASSUME WireInv, UNCHANGED <<open, wireVars>>, abandoned' = abandoned + 1
    PROVE  WireTruth'
<1>1. abandoned' # 0
      BY WireParts
<1> QED  BY <1>1 DEF WireInv, WireTruth, wireVars

LEMMA TruthClosed ==
    ASSUME ~open', inbuf' = <<>>
    PROVE  WireTruth'
BY DEF WireTruth

LEMMA TruthSegment ==
    ASSUME WireInv, NEW i \in 1..Len(pending), Segment(i)
    PROVE  WireTruth'
<1>1. /\ pending \in Seq(Call) /\ inbuf \in Seq(Reply)
      /\ Len(pending) \in Nat /\ Len(inbuf) \in Nat
      BY WireParts DEF TypeOK
<1>2. /\ pending' = Without(pending, i)
      /\ UNCHANGED <<pc, call, open, abandoned>>
      BY DEF Segment, Lose, Answer, taskVars, portVars
<1>3. CASE ~open
  <2>1. inbuf' = inbuf
        BY <1>3 DEF Segment, Lose, Answer
  <2> QED  BY <1>2, <1>3, <2>1, TruthClosed DEF WireInv, WireTruth
<1>4. CASE abandoned # 0 /\ open
      BY <1>2, <1>4 DEF WireTruth
<1>5. CASE abandoned = 0 /\ open
  <2>1. \A c : OnTheWire(c)' <=> OnTheWire(c)
        BY <1>2 DEF OnTheWire
  <2>2. /\ \A k \in 1..Len(pending) : OnTheWire(pending[k])
        /\ \A k \in 1..Len(inbuf) : Truthful(inbuf[k])
        BY <1>5 DEF WireInv, WireTruth
  <2>3. \A k \in 1..Len(pending') : OnTheWire(pending'[k])
    <3>1. /\ Len(pending') = Len(pending) - 1
          /\ \A k \in 1..Len(pending) - 1 :
                pending'[k] = IF k < i THEN pending[k] ELSE pending[k + 1]
          BY <1>1, <1>2, WithoutProperties
    <3>2. ASSUME NEW k \in 1..Len(pending')
          PROVE  \E m \in 1..Len(pending) : pending'[k] = pending[m]
      <4>1. k \in 1..Len(pending) /\ k + 1 \in 1..Len(pending)
            BY <1>1, <3>1
      <4> QED  BY <3>1, <4>1
    <3> QED  BY <2>2, <3>2
  <2>4. ASSUME NEW k \in 1..Len(inbuf')
        PROVE  OnTheWire(inbuf'[k].call)
               /\ inbuf'[k].body \in {"garbled", Body[inbuf'[k].call]}
    <3>1. CASE inbuf' = inbuf
          BY <2>2, <2>4, <3>1 DEF Truthful
    <3>2. ASSUME NEW damaged \in BOOLEAN, Answer(i, damaged)
          PROVE  OnTheWire(inbuf'[k].call)
                 /\ inbuf'[k].body \in {"garbled", Body[inbuf'[k].call]}
      <4> DEFINE r == [body |-> IF damaged THEN "garbled" ELSE Body[pending[i]],
                       call |-> pending[i]]
      <4>1. inbuf' = Append(inbuf, r)
            BY <1>5, <3>2 DEF Answer
      <4>2. pending[i] \in Call
            BY <1>1, ElementOfSeq
      <4>3. r \in Reply
            BY <4>2, PortAssumption DEF Reply
      <4>4. OnTheWire(r.call) /\ r.body \in {"garbled", Body[r.call]}
            BY <2>2
      <4> HIDE DEF r
      <4>5. /\ Len(inbuf') = Len(inbuf) + 1
            /\ inbuf'[Len(inbuf) + 1] = r
            /\ \A m \in 1..Len(inbuf) : inbuf'[m] = inbuf[m]
            BY <1>1, <4>1, <4>3, AppendAt
      <4>6. CASE k = Len(inbuf) + 1
            BY <4>4, <4>5, <4>6
      <4>7. CASE k \in 1..Len(inbuf)
            BY <2>2, <4>5, <4>7 DEF Truthful
      <4> QED  BY <1>1, <2>4, <4>5, <4>6, <4>7
    <3> QED  BY <3>1, <3>2 DEF Segment, Lose
  <2> QED  BY <1>2, <1>5, <2>1, <2>3, <2>4 DEF WireTruth, Truthful
<1> QED  BY <1>3, <1>4, <1>5

LEMMA TruthFail ==
    ASSUME WireInv, NEW t \in Task, SendFails(t)
    PROVE  WireTruth'
<1>1. PICK x \in {"idle", "call"} : pc' = [pc EXCEPT ![t] = x]
      BY EndsAt DEF SendFails, Fail
<1> QED  BY <1>1, TruthOffWire DEF SendFails, portVars

LEMMA TruthStep ==
    ASSUME WireInv, [Next]_vars
    PROVE  WireTruth'
<1>1. ASSUME NEW t \in Task, Start(t) \/ Enter(t) \/ BeginCall(t) \/ TakeLock(t)
      PROVE  WireTruth'
  <2>1. PICK x \in Points : pc' = [pc EXCEPT ![t] = x]
        BY <1>1 DEF Start, Enter, BeginCall, TakeLock, Points
  <2>2. PICK c : call' = [call EXCEPT ![t] = c] \/ call' = call
        BY <1>1 DEF Start, Enter, BeginCall, TakeLock
  <2>3. pc[t] # "io" /\ UNCHANGED <<open, wireVars, abandoned>>
        BY <1>1 DEF Start, Enter, BeginCall, TakeLock, portVars
  <2> QED  BY <2>1, <2>2, <2>3, TruthOffWire
<1>2. ASSUME NEW t \in Task, RefuseCall(t) PROVE WireTruth'
  <2>1. PICK x \in {"idle", "call"} : pc' = [pc EXCEPT ![t] = x]
        BY <1>2, EndsAt DEF RefuseCall
  <2>2. call' = [call EXCEPT ![t] = Head(todo[t])]
        BY <1>2 DEF RefuseCall
  <2>3. pc[t] # "io" /\ UNCHANGED <<open, wireVars, abandoned>>
        BY <1>2 DEF RefuseCall, portVars
  <2> QED  BY <2>1, <2>2, <2>3, TruthOffWire
<1>3. ASSUME NEW t \in Task, ReadFails(t) PROVE WireTruth'
  <2>1. ~open' /\ inbuf' = <<>>
        BY <1>3 DEF ReadFails, portVars, wireVars, WireInv, WireTruth
  <2> QED  BY <2>1, TruthClosed
<1>4. ASSUME NEW t \in Task, NEW why, GiveUp(t, why) PROVE WireTruth'
      BY <1>4, TruthAbandoned DEF GiveUp, portVars
<1>5. ASSUME NEW t \in Task, Cancel(t) PROVE WireTruth'
  <2>1. /\ pc' = [pc EXCEPT ![t] = "idle"] /\ call' = call
        /\ UNCHANGED <<open, wireVars>>
        /\ abandoned' = IF pc[t] = "io" THEN abandoned + 1 ELSE abandoned
        BY <1>5 DEF Cancel, portVars
  <2>2. CASE pc[t] = "io"
        BY <2>1, <2>2, TruthAbandoned
  <2>3. CASE pc[t] # "io"
        BY <2>1, <2>3, TruthOffWire
  <2> QED  BY <2>2, <2>3
<1>6. ASSUME Dispose \/ UNCHANGED vars PROVE WireTruth'
      BY <1>6, TruthKept DEF Dispose, vars, taskVars, portVars
<1>7. ASSUME CloseTransport PROVE WireTruth'
      BY <1>7, TruthClosed DEF CloseTransport
<1> QED  BY <1>1, <1>2, <1>3, <1>4, <1>5, <1>6, <1>7, TruthSend, TruthReceive,
            TruthFail, TruthSegment DEF Next, TaskStep

LEMMA WireInit == Init => WireInv
<1> SUFFICES ASSUME Init PROVE WireInv
    OBVIOUS
<1>1. OwedInv
      BY TypeInit, LockInit DEF Init, OwedInv, LockInv, OwedReplies
<1>2. WireTruth
      BY DEF Init, WireTruth
<1> QED  BY <1>1, <1>2 DEF WireInv

LEMMA WireStep == WireInv /\ [Next]_vars => WireInv'
BY OwedStep, LockStep, TruthStep DEF WireInv, OwedInv

-----------------------------------------------------------------------------
(***************************************************************************)
(* What a key's availability says                                          *)
(***************************************************************************)

\* The reply read by the task on the wire is, while nothing was given up, a
\* damaged one or the one its device gives to its call.
LEMMA ReadsItsOwn ==
    ASSUME WireInv, NEW t \in Task, Receive(t), abandoned = 0
    PROVE  /\ Head(inbuf) \in Reply
           /\ Head(inbuf).call = call[t]
           /\ Head(inbuf).body \in {"garbled", Body[call[t]]}
<1>1. LockInv /\ inbuf \in Seq(Reply) /\ Len(inbuf) \in Nat
      BY WireParts DEF TypeOK
<1>2. inbuf # <<>> /\ pc[t] = "io"
      BY DEF Receive
<1>3. Head(inbuf) \in Reply /\ Head(inbuf) = inbuf[1] /\ Len(inbuf) # 0
      BY <1>1, <1>2, HeadTailProperties, EmptySeq
<1>4. open
      BY <1>2 DEF WireInv, WireTruth
<1>5. 1 \in 1..Len(inbuf)
      BY <1>1, <1>3
<1>6. Truthful(inbuf[1])
      BY <1>4, <1>5 DEF WireInv, WireTruth
<1>7. PICK u \in Task : pc[u] = "io" /\ call[u] = inbuf[1].call
      BY <1>6 DEF Truthful, OnTheWire
<1>8. u = t
      BY <1>1, <1>2, <1>7, OneExchange
<1> QED  BY <1>3, <1>6, <1>7, <1>8 DEF Truthful

SupportInv == WireInv /\ UnsupportedIsTrue

LEMMA SupportKept ==
    ASSUME SupportInv, avail' = avail, abandoned' = 0 => abandoned = 0
    PROVE  UnsupportedIsTrue'
BY DEF SupportInv, UnsupportedIsTrue

LEMMA SupportReceive ==
    ASSUME SupportInv, NEW t \in Task, Receive(t)
    PROVE  UnsupportedIsTrue'
<1> DEFINE res == Decode(Head(inbuf), call[t])
<1>1. abandoned' = abandoned /\ avail' = Availability(res, call[t])
      BY DEF Receive
<1>2. call[t] \in Call
      BY WireParts DEF SupportInv, TypeOK
<1> SUFFICES ASSUME abandoned = 0,
                    NEW d \in Device, NEW k \in Key, avail'[d][k] = "unsupported"
             PROVE  \E c \in Call : c.dev = d /\ KeyOf(c) = k /\ Body[c] = "reject"
    BY <1>1 DEF UnsupportedIsTrue
<1>3. avail[d][k] = "unsupported"
      => \E c \in Call : c.dev = d /\ KeyOf(c) = k /\ Body[c] = "reject"
      BY DEF SupportInv, UnsupportedIsTrue
<1>4. CASE res.end = "rejected"
  <2>1. /\ Head(inbuf).body \in {"garbled", Body[call[t]]}
        /\ Head(inbuf).body = "reject"
        BY <1>4, ReadsItsOwn DEF SupportInv, Decode
  <2>2. Body[call[t]] = "reject"
        BY <2>1
  <2>3. avail' = [avail EXCEPT ![call[t].dev][KeyOf(call[t])] = "unsupported"]
        BY <1>1, <1>4 DEF Availability
  <2>4. avail \in [Device -> [Key -> {"unknown", "supported", "unsupported"}]]
        BY WireParts DEF SupportInv, TypeOK
  <2>5. CASE d = call[t].dev /\ k = KeyOf(call[t])
        BY <1>2, <2>2, <2>5
  <2>6. CASE ~(d = call[t].dev /\ k = KeyOf(call[t]))
    <3>1. avail'[d][k] = avail[d][k]
          BY <2>3, <2>4, <2>6
    <3> QED  BY <1>3, <3>1
  <2> QED  BY <2>5, <2>6
<1>5. CASE res.end # "rejected"
  <2>1. \/ avail' = avail
        \/ avail' = [avail EXCEPT ![call[t].dev][KeyOf(call[t])] = "supported"]
        BY <1>1, <1>5 DEF Availability
  <2>2. avail \in [Device -> [Key -> {"unknown", "supported", "unsupported"}]]
        BY WireParts DEF SupportInv, TypeOK
  <2>3. avail[d][k] = "unsupported"
        BY <2>1, <2>2
  <2> QED  BY <1>3, <2>3
<1> QED  BY <1>4, <1>5

LEMMA SupportStep ==
    ASSUME SupportInv, [Next]_vars
    PROVE  UnsupportedIsTrue'
<1>1. abandoned \in Nat
      BY WireParts DEF SupportInv
<1>2. ASSUME NEW t \in Task, TaskStep(t), ~Receive(t)
      PROVE  avail' = avail /\ (abandoned' = 0 => abandoned = 0)
      BY <1>1, <1>2 DEF TaskStep, Start, Enter, RefuseCall, BeginCall, TakeLock,
         Send, SendFails, ReadFails, Cancel, GiveUp
<1>3. ASSUME \/ \E i \in 1..Len(pending) : Segment(i)
             \/ Dispose \/ CloseTransport \/ UNCHANGED vars
      PROVE  avail' = avail /\ abandoned' = abandoned
      BY <1>3 DEF Segment, Lose, Answer, Dispose, CloseTransport, vars
<1> QED  BY <1>2, <1>3, SupportKept, SupportReceive DEF Next

\* As long as no exchange was given up, a session holds a key UNSUPPORTED only
\* if its device rejects some call with that key (Session.execute's marking of
\* its availability cache), for any tasks, devices and answers.
THEOREM UnsupportedSafety == Spec => []UnsupportedIsTrue
<1>1. Init => SupportInv
  <2>1. Init => UnsupportedIsTrue
        BY DEF Init, UnsupportedIsTrue
  <2> QED  BY <2>1, WireInit DEF SupportInv
<1>2. SupportInv /\ [Next]_vars => SupportInv'
      BY SupportStep, WireStep DEF SupportInv
<1>3. SupportInv => UnsupportedIsTrue
      BY DEF SupportInv
<1> QED  BY <1>1, <1>2, <1>3, PTL DEF Spec

-----------------------------------------------------------------------------
(***************************************************************************)
(* Refinement of PortService                                               *)
(***************************************************************************)

\* Serving is the task on the wire, when there is one.
LEMMA ServingTask ==
    ASSUME LockInv, NEW t \in Task, pc[t] = "io"
    PROVE  Serving = t
<1>1. \A u \in Task : pc[u] = "io" => u = t
      BY OneExchange
<1> QED  BY <1>1 DEF Serving

LEMMA ServingNobody ==
    ASSUME \A t \in Task : pc[t] # "io"
    PROVE  Serving = Nobody
BY DEF Serving

\* A step of a task off the wire changes nothing about who is served.
LEMMA ServingSame ==
    ASSUME LockInv, NEW t \in Task, pc[t] # "io", NEW x, x # "io",
           pc' = [pc EXCEPT ![t] = x]
    PROVE  Serving' = Serving /\ Serving # t
<1>1. pc \in [Task -> Points]
      BY DEF LockInv, TypeInv, TypeOK
<1>2. \A u \in Task : pc'[u] = "io" <=> pc[u] = "io"
      BY <1>1
<1>3. Serving' = Serving
      BY <1>2 DEF Serving
<1>4. ASSUME NEW u \in Task, pc[u] = "io"
      PROVE  Serving # t
      BY <1>4, ServingTask
<1>5. ASSUME \A u \in Task : pc[u] # "io"
      PROVE  Serving # t
      BY <1>5, ServingNobody, PortAssumption
<1> QED  BY <1>3, <1>4, <1>5

\* The task on the wire is the one served, and leaves nobody served behind.
LEMMA ServingEnds ==
    ASSUME LockInv, NEW t \in Task, pc[t] = "io", NEW x, x # "io",
           pc' = [pc EXCEPT ![t] = x]
    PROVE  Serving = t /\ Serving' = Nobody
<1>1. pc \in [Task -> Points]
      BY DEF LockInv, TypeInv, TypeOK
<1>2. \A u \in Task : pc'[u] # "io"
      BY <1>1, OneExchange
<1>3. Serving' = Nobody
      BY <1>2 DEF Serving
<1> QED  BY <1>3, ServingTask

\* A step in which the port's callers see nothing.
LEMMA Unseen ==
    ASSUME Serving' = Serving, UNCHANGED <<call, result, abandoned>>
    PROVE  UNCHANGED Service!vars
BY DEF Service!vars

\* A task off the wire turns to a call, or sees it fail.
LEMMA Asks ==
    ASSUME LockInv, NEW t \in Task, pc[t] # "io", NEW x, x # "io",
           pc' = [pc EXCEPT ![t] = x],
           NEW c \in Call, call' = [call EXCEPT ![t] = c],
           \/ result' = result
           \/ \E r \in Result : r.end # "ok" /\ result' = [result EXCEPT ![t] = r],
           abandoned' = abandoned
    PROVE  Service!Next
<1>1. Serving' = Serving /\ Serving # t
      BY ServingSame
<1>2. Service!Ask(t)
      BY <1>1 DEF Service!Ask
<1> QED  BY <1>2 DEF Service!Next

\* The exchange of a task ends with a result, its own while nothing was given up.
LEMMA Ends ==
    ASSUME LockInv, NEW t \in Task, pc[t] = "io", NEW x, x # "io",
           pc' = [pc EXCEPT ![t] = x],
           NEW r \in Result, result' = [result EXCEPT ![t] = r],
           ~(abandoned > 0) /\ r.end = "ok" => r.of = call[t],
           UNCHANGED <<call, abandoned>>
    PROVE  Service!Next
<1>1. Serving = t /\ Serving' = Nobody
      BY ServingEnds
<1>2. Service!End(t)
      BY <1>1 DEF Service!End
<1> QED  BY <1>2 DEF Service!Next

\* The exchange of a task is given up with its reply owed.
LEMMA Abandons ==
    ASSUME LockInv, NEW t \in Task, pc[t] = "io", NEW x, x # "io",
           pc' = [pc EXCEPT ![t] = x],
           NEW r \in Result, r.end # "ok", result' = [result EXCEPT ![t] = r],
           call' = call, abandoned \in Nat, abandoned' = abandoned + 1
    PROVE  Service!Next
<1>1. Serving = t /\ Serving' = Nobody
      BY ServingEnds
<1>2. abandoned' > 0
      OBVIOUS
<1>3. Service!Abandon(t)
      BY <1>1, <1>2 DEF Service!Abandon
<1> QED  BY <1>3 DEF Service!Next

\* How the failure of a call shows in its task's result.
LEMMA FailEnds ==
    ASSUME LockInv, NEW t \in Task, NEW why \in Failure, Fail(t, why)
    PROVE  /\ [end |-> why, of |-> call[t]] \in Result
           /\ result' = [result EXCEPT ![t] = [end |-> why, of |-> call[t]]]
           /\ \E x \in {"idle", "call"} : pc' = [pc EXCEPT ![t] = x]
<1>1. call[t] \in Call
      BY DEF LockInv, TypeInv, TypeOK
<1> QED  BY <1>1, EndsAt DEF Fail, EndCall, Result

LEMMA ServiceInit == Init => Service!Init
<1> SUFFICES ASSUME Init PROVE Service!Init
    OBVIOUS
<1>1. TypeOK
      BY TypeInit DEF TypeInv
<1>2. Serving = Nobody
      BY ServingNobody DEF Init
<1>3. call \in [Task -> Call] /\ result \in [Task -> Result]
      BY <1>1 DEF TypeOK
<1>4. \A t \in Task : result[t].end # "ok"
      BY DEF Init
<1>5. result \in [Task -> {r \in Result : r.end # "ok"}]
      BY <1>3, <1>4
<1>6. (abandoned > 0) = FALSE
      BY DEF Init
<1> QED  BY <1>2, <1>3, <1>5, <1>6 DEF Service!Init

LEMMA ServiceStart ==
    ASSUME LockInv, NEW t \in Task, Start(t) \/ Enter(t) \/ TakeLock(t)
    PROVE  UNCHANGED Service!vars
<1>1. PICK x \in Points : x # "io" /\ pc' = [pc EXCEPT ![t] = x]
      BY DEF Start, Enter, TakeLock, Points
<1>2. pc[t] # "io" /\ UNCHANGED <<call, result, abandoned>>
      BY DEF Start, Enter, TakeLock
<1>3. Serving' = Serving
      BY <1>1, <1>2, ServingSame
<1> QED  BY <1>2, <1>3, Unseen

LEMMA ServiceRefuse ==
    ASSUME LockInv, NEW t \in Task, RefuseCall(t)
    PROVE  Service!Next
<1> DEFINE c == Head(todo[t])
           r == [end |-> "refused", of |-> c]
<1>1. /\ pc[t] = "call" /\ call' = [call EXCEPT ![t] = c]
      /\ EndCall(t, r, Tail(todo[t])) /\ abandoned' = abandoned
      BY DEF RefuseCall
<1>2. c \in Call
      BY <1>1, HeadCall DEF LockInv
<1>3. r \in Result /\ r.end # "ok"
      BY <1>2 DEF Result, Failure
<1>4. PICK x \in {"idle", "call"} : pc' = [pc EXCEPT ![t] = x]
      BY <1>1, EndsAt
<1>5. result' = [result EXCEPT ![t] = r]
      BY <1>1 DEF EndCall
<1> HIDE DEF c, r
<1> QED  BY <1>1, <1>2, <1>3, <1>4, <1>5, Asks

LEMMA ServiceBegin ==
    ASSUME LockInv, NEW t \in Task, BeginCall(t)
    PROVE  Service!Next
<1>1. PICK x \in {"send", "lock"} : pc' = [pc EXCEPT ![t] = x]
      BY DEF BeginCall
<1>2. Head(todo[t]) \in Call
      BY HeadCall DEF BeginCall, LockInv
<1>3. /\ pc[t] # "io" /\ UNCHANGED <<result, abandoned>>
      /\ call' = [call EXCEPT ![t] = Head(todo[t])]
      BY DEF BeginCall
<1> QED  BY <1>1, <1>2, <1>3, Asks

LEMMA ServiceSend ==
    ASSUME LockInv, NEW t \in Task, Send(t)
    PROVE  Service!Next
<1>1. pc \in [Task -> Points]
      BY DEF LockInv, TypeInv, TypeOK
<1>2. /\ pc[t] = "send" /\ pc' = [pc EXCEPT ![t] = "io"]
      /\ UNCHANGED <<call, result, abandoned>>
      BY DEF Send
<1>3. \A u \in Task : pc[u] # "io"
      BY <1>2 DEF LockInv, LockDiscipline, Holding
<1>4. Serving = Nobody
      BY <1>3, ServingNobody
<1>5. \A u \in Task : pc'[u] = "io" <=> u = t
      BY <1>1, <1>2, <1>3
<1>6. Serving' = t
      BY <1>5 DEF Serving
<1>7. Service!Begin(t)
      BY <1>2, <1>4, <1>6 DEF Service!Begin
<1> QED  BY <1>7 DEF Service!Next

\* A request that is refused before it is written.
LEMMA ServiceSendFails ==
    ASSUME LockInv, NEW t \in Task, SendFails(t)
    PROVE  Service!Next
<1>1. /\ pc[t] # "io" /\ Fail(t, "connection") /\ abandoned' = abandoned
      /\ call' = call /\ "connection" \in Failure
      BY DEF SendFails, Failure
<1> DEFINE r == [end |-> "connection", of |-> call[t]]
<1>2. /\ r \in Result /\ result' = [result EXCEPT ![t] = r]
      /\ \E x \in {"idle", "call"} : pc' = [pc EXCEPT ![t] = x]
      BY <1>1, FailEnds
<1>3. r.end # "ok"
      OBVIOUS
<1>4. call[t] \in Call /\ call' = [call EXCEPT ![t] = call[t]]
      BY <1>1 DEF LockInv, TypeInv, TypeOK
<1> HIDE DEF r
<1> QED  BY <1>1, <1>2, <1>3, <1>4, Asks

LEMMA ServiceReceive ==
    ASSUME WireInv, NEW t \in Task, Receive(t)
    PROVE  Service!Next
<1> DEFINE r == Decode(Head(inbuf), call[t])
<1>1. LockInv /\ TypeOK /\ abandoned \in Nat
      BY WireParts
<1>2. /\ pc[t] = "io" /\ inbuf # <<>> /\ UNCHANGED <<call, abandoned>>
      /\ EndCall(t, r, todo[t])
      BY DEF Receive
<1>3. Head(inbuf) \in Reply /\ call[t] \in Call
      BY <1>1, <1>2, HeadTailProperties DEF TypeOK
<1>4. r \in Result
      BY <1>3, DecodeType
<1>5. r.end = "ok" => r.of = Head(inbuf).call
      BY DEF Decode
<1>6. ~(abandoned > 0) => Head(inbuf).call = call[t]
      BY <1>1, ReadsItsOwn
<1> HIDE DEF r
<1>7. result' = [result EXCEPT ![t] = r]
      BY <1>2 DEF EndCall
<1>8. PICK x \in {"idle", "call"} : pc' = [pc EXCEPT ![t] = x]
      BY <1>2, EndsAt
<1> QED  BY <1>1, <1>2, <1>4, <1>5, <1>6, <1>7, <1>8, Ends

LEMMA ServiceReadFails ==
    ASSUME LockInv, NEW t \in Task, ReadFails(t)
    PROVE  Service!Next
<1>1. /\ pc[t] = "io" /\ Fail(t, "connection")
      /\ UNCHANGED <<call, abandoned>> /\ "connection" \in Failure
      BY DEF ReadFails, Failure
<1> DEFINE r == [end |-> "connection", of |-> call[t]]
<1>2. /\ r \in Result /\ result' = [result EXCEPT ![t] = r]
      /\ \E x \in {"idle", "call"} : pc' = [pc EXCEPT ![t] = x]
      BY <1>1, FailEnds
<1>3. r.end # "ok"
      OBVIOUS
<1> HIDE DEF r
<1> QED  BY <1>1, <1>2, <1>3, Ends

LEMMA ServiceGiveUp ==
    ASSUME WireInv, NEW t \in Task,
           NEW why \in {"timeout", "transport", "frame"}, GiveUp(t, why)
    PROVE  Service!Next
<1>1. /\ pc[t] = "io" /\ Fail(t, why) /\ call' = call
      /\ abandoned' = abandoned + 1 /\ why \in Failure
      BY DEF GiveUp, Failure
<1>2. LockInv /\ abandoned \in Nat
      BY WireParts
<1> DEFINE r == [end |-> why, of |-> call[t]]
<1>3. /\ r \in Result /\ result' = [result EXCEPT ![t] = r]
      /\ \E x \in {"idle", "call"} : pc' = [pc EXCEPT ![t] = x]
      BY <1>1, <1>2, FailEnds
<1>4. r.end # "ok"
      OBVIOUS
<1> HIDE DEF r
<1> QED  BY <1>1, <1>2, <1>3, <1>4, Abandons

LEMMA ServiceCancel ==
    ASSUME WireInv, NEW t \in Task, Cancel(t)
    PROVE  Service!Next
<1> DEFINE r == [end |-> "cancelled", of |-> call[t]]
<1>1. LockInv /\ TypeOK /\ abandoned \in Nat
      BY WireParts
<1>2. /\ pc' = [pc EXCEPT ![t] = "idle"] /\ call' = call
      /\ result' = [result EXCEPT ![t] = r]
      /\ abandoned' = IF pc[t] = "io" THEN abandoned + 1 ELSE abandoned
      BY DEF Cancel
<1>3. call[t] \in Call /\ call' = [call EXCEPT ![t] = call[t]]
      BY <1>1, <1>2 DEF TypeOK
<1>4. r \in Result /\ r.end # "ok"
      BY <1>3 DEF Result, Failure
<1> HIDE DEF r
<1>5. CASE pc[t] = "io"
  <2>1. abandoned' = abandoned + 1
        BY <1>2, <1>5
  <2> QED  BY <1>1, <1>2, <1>4, <1>5, <2>1, Abandons
<1>6. CASE pc[t] # "io"
  <2>1. abandoned' = abandoned
        BY <1>2, <1>6
  <2> QED  BY <1>1, <1>2, <1>3, <1>4, <1>6, <2>1, Asks
<1> QED  BY <1>5, <1>6

\* Steps of the segment, the closer of the port, and stutters.
LEMMA ServiceAround ==
    ASSUME \/ \E i \in 1..Len(pending) : Segment(i)
           \/ Dispose \/ CloseTransport \/ UNCHANGED vars
    PROVE  UNCHANGED Service!vars
<1>1. UNCHANGED <<pc, call, result, abandoned>>
      BY DEF Segment, Lose, Answer, Dispose, CloseTransport, vars, taskVars
<1>2. Serving' = Serving
      BY <1>1 DEF Serving
<1> QED  BY <1>1, <1>2, Unseen

LEMMA ServiceStep == WireInv /\ [Next]_vars => [Service!Next]_(Service!vars)
<1> SUFFICES ASSUME WireInv, [Next]_vars
             PROVE  Service!Next \/ UNCHANGED Service!vars
    OBVIOUS
<1>1. LockInv
      BY WireParts
<1>2. ASSUME NEW t \in Task, TaskStep(t)
      PROVE  Service!Next \/ UNCHANGED Service!vars
      BY <1>1, <1>2, ServiceStart, ServiceRefuse, ServiceBegin, ServiceSend,
         ServiceSendFails, ServiceReceive, ServiceReadFails, ServiceGiveUp,
         ServiceCancel DEF TaskStep
<1> QED  BY <1>2, ServiceAround DEF Next

\* The port implements PortService: exchanges one at a time, each handing its
\* caller a result, and an answer that is the caller's own as long as no
\* exchange was given up with its reply owed -- whatever tasks, devices, jobs,
\* losses, delays and cancellations.
THEOREM ServiceRefinement == Spec => ImplementsService
<1> QED  BY ServiceInit, WireInit, ServiceStep, WireStep, PTL
         DEF Spec, ImplementsService, Service!Spec
=============================================================================
