--------------------------- MODULE RecorderProofs ---------------------------
(***************************************************************************)
(* Proofs about Recorder, for recordings of any length and period, streams *)
(* of any size, and any delays of polls, backoffs and wake-ups.            *)
(***************************************************************************)
EXTENDS Recorder, SequenceTheorems, TLAPS

\* A natural number is its quotient times the divisor and a smaller rest.
LEMMA Division ==
    ASSUME NEW x \in Nat, NEW p \in Nat \ {0}
    PROVE  /\ x \div p \in Nat
           /\ (x \div p) * p <= x
           /\ x < (x \div p) * p + p
BY SMT

LEMMA Distribute ==
    ASSUME NEW a \in Nat, NEW b \in Nat, NEW p \in Nat
    PROVE  (a + b) * p = a * p + b * p
BY SMT

LEMMA ProductNat ==
    ASSUME NEW a \in Nat, NEW p \in Nat
    PROVE  a * p \in Nat
BY SMT

\* What a turn of the loop skips: as many slots as bring the target within a
\* period of the clock, none while it is not behind by more than one.
LEMMA MissedProperties ==
    ASSUME TypeOK
    PROVE  /\ Missed(clock) \in Nat
           /\ Target(tick) \in Nat
           /\ Target(tick + Missed(clock)) <= clock \/ Missed(clock) = 0
           /\ clock <= Target(tick + Missed(clock)) + Period
<1> DEFINE x == clock - Target(tick)
           m == Missed(clock)
<1>1. Target(tick) \in Nat /\ Period \in Nat \ {0} /\ tick \in Nat /\ clock \in Nat
      BY ProductNat, RecorderAssumption DEF TypeOK, Target
<1>2. CASE clock > Target(tick) + Period
  <2>1. m = x \div Period
        BY <1>2 DEF Missed
  <2>2. x \in Nat
        BY <1>1, <1>2
  <2>3. m \in Nat /\ m * Period <= x /\ x < m * Period + Period
        BY <1>1, <2>1, <2>2, Division
  <2>4. m * Period \in Nat /\ Target(tick + m) = Target(tick) + m * Period
        BY <1>1, <2>3, Distribute, ProductNat DEF Target
  <2> HIDE DEF m
  <2> QED  BY <1>1, <2>3, <2>4 DEF m
<1>3. CASE ~(clock > Target(tick) + Period)
  <2>1. m = 0
        BY <1>3 DEF Missed
  <2>2. tick + m = tick
        BY <1>1, <2>1
  <2> HIDE DEF m
  <2> QED  BY <1>1, <1>3, <2>1, <2>2 DEF m
<1> QED  BY <1>2, <1>3

-----------------------------------------------------------------------------
(***************************************************************************)
(* Types                                                                   *)
(***************************************************************************)
LEMMA InitTypes == Init => TypeOK
<1>1. <<>> \in Seq(Nat) /\ Len(<<>>) = 0
      BY EmptySeq
<1>2. Size \in Nat
      BY RecorderAssumption
<1> SUFFICES ASSUME Init PROVE TypeOK
    OBVIOUS
<1>3. /\ buffer \in Seq(Nat) /\ Len(buffer) <= Size
      /\ polled \in Seq(Nat) /\ received \in Seq(Nat)
  <2>1. buffer = <<>> /\ polled = <<>> /\ received = <<>>
        BY DEF Init
  <2> QED  BY <1>1, <1>2, <2>1
<1>4. pc \in Awaiting \cup Stopped \cup {"loop", "sent"} /\ finished \in BOOLEAN
      BY DEF Init
<1> QED  BY <1>3, <1>4 DEF Init, TypeOK

\* Time moves forward by what a bound allows.
LEMMA LaterClock ==
    ASSUME TypeOK, NEW d \in Lags \cup PollTimes
    PROVE  clock + d \in Nat
BY RecorderAssumption DEF TypeOK

LEMMA PublishTypes ==
    ASSUME TypeOK, pc = "poll", PublishBlock \/ DropNewest \/ DropOldest
    PROVE  /\ pc' \in {"loop", "send"} /\ tick' \in Nat
           /\ buffer' \in Seq(Nat) /\ Len(buffer') <= Size
           /\ emitted' \in Nat /\ late' \in Nat /\ evicted' \in Nat
<1>1. Size \in Nat \ {0} /\ Len(buffer) \in Nat /\ tick \in Nat
      BY RecorderAssumption, LenProperties DEF TypeOK
<1>2. ASSUME NEW q \in Seq(Nat), Len(q) < Size, Enqueue(q)
      PROVE  /\ pc' = "loop" /\ tick' \in Nat /\ emitted' \in Nat
             /\ buffer' \in Seq(Nat) /\ Len(buffer') <= Size
  <2>1. buffer' \in Seq(Nat) /\ Len(buffer') = Len(q) + 1 /\ Len(q) \in Nat
        BY <1>1, <1>2, AppendProperties, LenProperties DEF Enqueue
  <2> QED  BY <1>1, <1>2, <2>1 DEF Enqueue, TypeOK
<1>3. CASE ~Full
  <2>1. Len(buffer) < Size /\ buffer \in Seq(Nat)
        BY <1>1, <1>3 DEF Full, TypeOK
  <2>2. Enqueue(buffer) /\ UNCHANGED <<late, evicted>>
        BY <1>3 DEF PublishBlock, DropNewest, DropOldest
  <2> QED  BY <1>2, <2>1, <2>2 DEF TypeOK
<1>4. CASE Full /\ PublishBlock
      BY <1>4 DEF PublishBlock, TypeOK
<1>5. CASE Full /\ DropNewest
      BY <1>5 DEF DropNewest, TypeOK
<1>6. CASE Full /\ DropOldest
  <2>1. buffer \in Seq(Nat) /\ buffer # <<>> /\ Len(buffer) = Size
        BY <1>1, <1>6, EmptySeq DEF Full, TypeOK
  <2>2. Tail(buffer) \in Seq(Nat) /\ Len(Tail(buffer)) < Size
        BY <1>1, <2>1, HeadTailProperties
  <2>3. Enqueue(Tail(buffer)) /\ late' = late + 1 /\ evicted' = evicted + 1
        BY <1>6 DEF DropOldest
  <2>4. /\ pc' = "loop" /\ tick' \in Nat /\ emitted' \in Nat
        /\ buffer' \in Seq(Nat) /\ Len(buffer') <= Size
        BY <1>2, <2>2, <2>3
  <2>5. late' \in Nat /\ evicted' \in Nat
        BY <2>3 DEF TypeOK
  <2> QED  BY <2>4, <2>5
<1> QED  BY <1>3, <1>4, <1>5, <1>6

LEMMA TakeTypes ==
    ASSUME TypeOK, Take
    PROVE  /\ buffer' \in Seq(Nat) /\ Len(buffer') <= Size
           /\ received' \in Seq(Nat)
<1>1. /\ Size \in Nat \ {0} /\ Len(buffer) \in Nat /\ tick \in Nat
      /\ buffer \in Seq(Nat) /\ buffer # <<>> /\ received \in Seq(Nat)
      BY RecorderAssumption, LenProperties DEF TypeOK, Take
<1>2. /\ Head(buffer) \in Nat /\ Tail(buffer) \in Seq(Nat)
      /\ Len(Tail(buffer)) = Len(buffer) - 1
      BY <1>1, HeadTailProperties
<1>3. received' \in Seq(Nat)
      BY <1>1, <1>2, AppendProperties DEF Take
<1>4. /\ Append(Tail(buffer), tick) \in Seq(Nat)
      /\ Len(Append(Tail(buffer), tick)) = Len(Tail(buffer)) + 1
      BY <1>1, <1>2, AppendProperties
<1>5. Len(buffer) <= Size
      BY DEF TypeOK
<1>6. buffer' = Append(Tail(buffer), tick) \/ buffer' = Tail(buffer)
      BY DEF Take
<1>7. buffer' \in Seq(Nat) /\ Len(buffer') <= Size
  <2>1. CASE buffer' = Append(Tail(buffer), tick)
        BY <2>1, <1>1, <1>2, <1>4, <1>5
  <2>2. CASE buffer' = Tail(buffer)
        BY <2>2, <1>1, <1>2, <1>5
  <2> QED  BY <1>6, <2>1, <2>2
<1> QED  BY <1>3, <1>7

LEMMA NextTypes == ASSUME TypeOK, [Next]_vars PROVE TypeOK'
<1> USE DEF TypeOK, askedVars, countVars, bodyVars, Awaiting, Stopped
<1>1. CASE UNCHANGED vars
      BY <1>1 DEF vars
<1>2. CASE NextTick
  <2>1. Missed(clock) \in Nat
        BY MissedProperties
  <2> QED  BY <1>2, <2>1 DEF NextTick
<1>3. CASE End
      BY <1>3 DEF End
<1>4. CASE Wake
  <2>1. Target(tick) \in Nat
        BY MissedProperties
  <2> QED  BY <1>4, <2>1, RecorderAssumption DEF Wake
<1>5. CASE Polled
  <2>1. /\ pc' \in {"loop", "send"} /\ tick' \in Nat
        /\ buffer' \in Seq(Nat) /\ Len(buffer') <= Size
        /\ emitted' \in Nat /\ late' \in Nat /\ evicted' \in Nat
        BY <1>5, PublishTypes DEF Polled
  <2>2. clock' \in Nat
        BY <1>5, LaterClock DEF Polled
  <2>3. polled' \in Seq(Nat)
        BY <1>5, AppendProperties DEF Polled
  <2> QED  BY <1>5, <2>1, <2>2, <2>3 DEF Polled
<1>6. CASE Sent
      BY <1>6, LaterClock DEF Sent
<1>7. CASE Disconnected
      BY <1>7, LaterClock DEF Disconnected
<1>8. CASE PollRaises \/ RebuildRaises
      BY <1>8 DEF PollRaises, RebuildRaises
<1>9. CASE BackoffEnds
  <2>1. BackoffWait \in Nat
    <3> DEFINE i == (IF idx < Len(Backoff) THEN idx ELSE Len(Backoff) - 1) + 1
    <3>1. Backoff \in Seq(Nat) /\ Len(Backoff) \in Nat \ {0}
          BY RecorderAssumption, EmptySeq
    <3>2. i \in 1..Len(Backoff)
          BY <3>1
    <3> HIDE DEF i
    <3>3. Backoff[i] \in Nat
          BY <3>1, <3>2, ElementOfSeq
    <3> QED  BY <3>3 DEF BackoffWait, i
  <2> QED  BY <1>9, <2>1, RecorderAssumption DEF BackoffEnds
<1>10. ASSUME NEW ok \in BOOLEAN, Rebuilt(ok)
       PROVE  TypeOK'
       BY <1>10, LaterClock DEF Rebuilt
<1>11. CASE Take
       BY <1>11, TakeTypes DEF Take
<1>12. ASSUME NEW how \in {"left", "raised"}, Leave(how)
       PROVE  TypeOK'
       BY <1>12 DEF Leave
<1>13. CASE Cancelled
       BY <1>13 DEF Cancelled
<1>14. CASE Exit
       BY <1>14 DEF Exit
<1> QED  BY <1>1, <1>2, <1>3, <1>4, <1>5, <1>6, <1>7, <1>8, <1>9, <1>10, <1>11,
            <1>12, <1>13, <1>14 DEF Next, Producer

LEMMA Types == Spec => []TypeOK
BY InitTypes, NextTypes, PTL DEF Spec

-----------------------------------------------------------------------------
(***************************************************************************)
(* The counters                                                            *)
(***************************************************************************)
LEMMA PublishCounts ==
    ASSUME TypeOK, PublishBlock \/ DropNewest \/ DropOldest,
           emitted + late - evicted = tick
    PROVE  emitted' + late' - evicted' = tick' /\ pc' \in {"loop", "send"}
<1>1. emitted \in Nat /\ late \in Nat /\ evicted \in Nat /\ tick \in Nat
      BY DEF TypeOK
<1>2. CASE ~Full
      BY <1>1, <1>2 DEF PublishBlock, DropNewest, DropOldest, Enqueue
<1>3. CASE Full
      BY <1>1, <1>3 DEF PublishBlock, DropNewest, DropOldest, Enqueue
<1> QED  BY <1>2, <1>3

LEMMA NextAccounting == ASSUME TypeOK, Accounting, [Next]_vars PROVE Accounting'
<1> DEFINE counted == emitted + late - evicted
<1>1. emitted \in Nat /\ late \in Nat /\ evicted \in Nat /\ tick \in Nat
      BY DEF TypeOK
<1> USE DEF Accounting, CountedTick, Stopped, askedVars, countVars, bodyVars
<1>2. CASE UNCHANGED vars
      BY <1>2 DEF vars
<1>3. CASE NextTick
  <2>1. Missed(clock) \in Nat
        BY MissedProperties
  <2>2. /\ tick' = tick + Missed(clock) /\ late' = late + Missed(clock)
        /\ pc = "loop" /\ pc' \in {"sleep", "poll"} /\ emitted' = emitted
        /\ evicted' = evicted
        BY <1>3 DEF NextTick
  <2>3. emitted + late - evicted = tick
        BY <1>1, <2>2
  <2>4. emitted' + late' - evicted' = tick'
        BY <1>1, <2>1, <2>2, <2>3
  <2>5. tick' \in Nat
        BY <1>1, <2>1, <2>2
  <2> QED  BY <2>2, <2>4, <2>5
<1>4. CASE End \/ Wake \/ PollRaises \/ Take
  <2>1. UNCHANGED <<tick, emitted, late, evicted>>
        BY <1>4 DEF End, Wake, PollRaises, Take
  <2>2. CASE pc' = pc
        BY <2>1, <2>2
  <2>3. CASE pc' # pc
    <3>1. /\ pc \in {"loop", "sleep", "poll", "send"}
          /\ pc' \in {"poll", "ended", "failed", "sent"}
          BY <1>4, <2>3 DEF End, Wake, PollRaises, Take
    <3> QED  BY <3>1, <2>1, <1>1
  <2> QED  BY <2>2, <2>3
<1>5. CASE Polled
  <2>1. emitted + late - evicted = tick
        BY <1>1, <1>5 DEF Polled
  <2>2. PublishBlock \/ DropNewest \/ DropOldest
        BY <1>5 DEF Polled
  <2>3. emitted' + late' - evicted' = tick' /\ pc' \in {"loop", "send"}
        BY <2>1, <2>2, PublishCounts
  <2>4. tick' \in Nat
        BY <1>5, <2>2, PublishTypes DEF Polled
  <2> QED  BY <2>3, <2>4
<1>6. CASE Sent
      BY <1>1, <1>6 DEF Sent
<1>7. CASE Disconnected
      BY <1>1, <1>7 DEF Disconnected
<1>8. CASE BackoffEnds
      BY <1>1, <1>8 DEF BackoffEnds
<1>9. ASSUME NEW ok \in BOOLEAN, Rebuilt(ok)
      PROVE  Accounting'
      BY <1>1, <1>9 DEF Rebuilt
<1>10. CASE RebuildRaises
       BY <1>1, <1>10 DEF RebuildRaises
<1>11. ASSUME NEW how \in {"left", "raised"}, Leave(how)
       PROVE  Accounting'
       BY <1>11 DEF Leave
<1>12. CASE Cancelled
       BY <1>1, <1>12 DEF Cancelled, Awaiting
<1>13. CASE Exit
       BY <1>13 DEF Exit
<1> QED  BY <1>2, <1>3, <1>4, <1>5, <1>6, <1>7, <1>8, <1>9, <1>10, <1>11, <1>12,
            <1>13 DEF Next, Producer

-----------------------------------------------------------------------------
(***************************************************************************)
(* The schedule and the exit                                               *)
(***************************************************************************)
LEMMA NextOnSchedule == ASSUME TypeOK, OnSchedule, [Next]_vars PROVE OnSchedule'
<1> USE DEF askedVars, countVars, bodyVars
<1>1. Target(tick) \in Nat /\ clock \in Nat /\ tick \in Nat
      BY MissedProperties DEF TypeOK
<1>2. CASE NextTick
  <2>1. /\ Missed(clock) \in Nat
        /\ clock <= Target(tick + Missed(clock)) + Period
        BY MissedProperties
  <2>2. tick' = tick + Missed(clock) /\ clock' = clock
        BY <1>2 DEF NextTick
  <2>3. Target(tick') \in Nat
        BY <1>1, <2>1, <2>2, ProductNat, RecorderAssumption DEF Target
  <2>4. pc' = "poll" => ~(clock < Target(tick'))
        BY <1>2 DEF NextTick
  <2> QED  BY <1>1, <2>1, <2>2, <2>3, <2>4 DEF OnSchedule, Target
<1>3. CASE Wake
  <2>1. PICK d \in Lags : clock' = Target(tick) + d
        BY <1>3 DEF Wake
  <2>2. d \in Nat /\ tick' = tick
        BY <1>3, RecorderAssumption DEF Wake
  <2>3. clock' - Target(tick) = d /\ Target(tick) <= clock'
        BY <1>1, <2>1, <2>2
  <2> QED  BY <2>2, <2>3 DEF OnSchedule, Target
\* Every other step leaves the poll or was not in one.
<1>4. CASE UNCHANGED <<pc, clock, tick>>
      BY <1>4 DEF OnSchedule, Target
<1>5. CASE pc' # "poll"
      BY <1>5 DEF OnSchedule
<1>6. NextTick \/ Wake \/ UNCHANGED <<pc, clock, tick>> \/ pc' # "poll"
  <2>1. CASE UNCHANGED vars
        BY <2>1 DEF vars
  <2>2. CASE Polled
        BY <2>2 DEF Polled, PublishBlock, DropNewest, DropOldest, Enqueue
  <2>3. CASE Producer /\ ~Polled /\ ~NextTick /\ ~Wake
        BY <2>3 DEF Producer, End, Sent, Disconnected, PollRaises, BackoffEnds,
                    Rebuilt, RebuildRaises
  <2>4. CASE Next /\ ~Producer
        BY <2>4 DEF Next, Cancelled, Take, Leave, Exit
  <2> QED  BY <2>1, <2>2, <2>3, <2>4 DEF Next
<1> QED  BY <1>2, <1>3, <1>4, <1>5, <1>6

\* The task group is joined before the context manager is gone.
Joined == cm = "exited" => pc \in Stopped

LEMMA AfterExit ==
    ASSUME Joined, [Next]_vars, cm = "exited"
    PROVE  UNCHANGED vars
BY DEF Joined, Stopped, Awaiting, Next, Producer, NextTick, End, Wake, Polled, Sent,
       Disconnected, PollRaises, BackoffEnds, Rebuilt, RebuildRaises, Cancelled,
       Take, Leave, Exit

LEMMA NextJoined == ASSUME Joined, [Next]_vars PROVE Joined'
<1>1. CASE cm = "exited"
      BY <1>1, AfterExit DEF Joined, vars, bodyVars
<1>2. CASE cm # "exited" /\ cm' = "exited"
      BY <1>2 DEF Joined, vars, bodyVars, Next, Producer, NextTick, End, Wake, Polled,
                  Sent, Disconnected, PollRaises, BackoffEnds, Rebuilt, RebuildRaises,
                  Cancelled, Take, Leave, Exit
<1> QED  BY <1>1, <1>2 DEF Joined

-----------------------------------------------------------------------------
(***************************************************************************)
(* The batches                                                             *)
(***************************************************************************)
Pending == IF pc = "sent" THEN 1 ELSE 0

\* What was taken and what is queued, in the order of their ticks, all of them
\* of ticks gone by.
BatchInv ==
    /\ \A i, j \in 1..Len(received) : i < j => received[i] < received[j]
    /\ \A i, j \in 1..Len(buffer) : i < j => buffer[i] < buffer[j]
    /\ \A i \in 1..Len(received), j \in 1..Len(buffer) : received[i] < buffer[j]
    /\ \A i \in 1..Len(received) : received[i] < tick + Pending
    /\ \A j \in 1..Len(buffer) : buffer[j] < tick + Pending
    /\ emitted + Pending = Len(received) + Len(buffer) + evicted

\* A step that moves no batch.
LEMMA BatchKept ==
    ASSUME TypeOK, BatchInv, UNCHANGED <<buffer, received, emitted, evicted>>,
           Pending' = Pending, NEW m \in Nat, tick' = tick + m
    PROVE  BatchInv'
<1>1. tick \in Nat /\ Pending \in Nat
      BY DEF TypeOK, Pending
<1>2. \A x \in Nat : x < tick + Pending => x < (tick + m) + Pending
      BY <1>1
<1>3. \A i \in 1..Len(received) : received[i] \in Nat
      BY ElementOfSeq DEF TypeOK
<1>4. \A i \in 1..Len(buffer) : buffer[i] \in Nat
      BY ElementOfSeq DEF TypeOK
<1> QED  BY <1>2, <1>3, <1>4 DEF BatchInv

\* The batch of the tick joins a queue q of batches queued already.
LEMMA BatchQueued ==
    ASSUME TypeOK, BatchInv, pc = "poll", NEW q \in Seq(Nat), Enqueue(q),
           \A i, j \in 1..Len(q) : i < j => q[i] < q[j],
           \A j \in 1..Len(q) : \E k \in 1..Len(buffer) : q[j] = buffer[k],
           UNCHANGED received, NEW e \in Nat, evicted' = evicted + e,
           Len(q) + e = Len(buffer)
    PROVE  BatchInv'
<1>1. /\ tick \in Nat /\ emitted \in Nat /\ evicted \in Nat
      /\ received \in Seq(Nat) /\ Len(received) \in Nat
      /\ buffer \in Seq(Nat) /\ Len(buffer) \in Nat /\ Len(q) \in Nat
      BY LenProperties DEF TypeOK
<1>2. /\ tick' = tick + 1 /\ emitted' = emitted + 1
      /\ Pending = 0 /\ Pending' = 0 /\ received' = received
      BY DEF Enqueue, Pending
<1>3. /\ Len(buffer') = Len(q) + 1 /\ buffer'[Len(q) + 1] = tick
      /\ \A j \in 1..Len(q) : buffer'[j] = q[j]
      BY <1>1, AppendProperties DEF Enqueue
<1>4. \A j \in 1..Len(q) : q[j] \in Nat /\ q[j] < tick
  <2> SUFFICES ASSUME NEW j \in 1..Len(q) PROVE q[j] \in Nat /\ q[j] < tick
      OBVIOUS
  <2>1. PICK k \in 1..Len(buffer) : q[j] = buffer[k]
        OBVIOUS
  <2>2. buffer[k] \in Nat /\ buffer[k] < tick + 0
        BY <1>1, <1>2, ElementOfSeq DEF BatchInv
  <2> QED  BY <2>1, <2>2, <1>1
<1>5. \A i \in 1..Len(received) : received[i] \in Nat /\ received[i] < tick
  <2> SUFFICES ASSUME NEW i \in 1..Len(received)
               PROVE  received[i] \in Nat /\ received[i] < tick
      OBVIOUS
  <2>1. received[i] \in Nat /\ received[i] < tick + 0
        BY <1>1, <1>2, ElementOfSeq DEF BatchInv
  <2> QED  BY <2>1, <1>1
<1>6. \A i, j \in 1..Len(buffer') : i < j => buffer'[i] < buffer'[j]
  <2> SUFFICES ASSUME NEW i \in 1..Len(buffer'), NEW j \in 1..Len(buffer'), i < j
               PROVE  buffer'[i] < buffer'[j]
      OBVIOUS
  <2>1. i \in 1..Len(q) /\ buffer'[i] = q[i]
        BY <1>1, <1>3
  <2>2. CASE j \in 1..Len(q)
        BY <2>1, <2>2, <1>3
  <2>3. CASE j = Len(q) + 1
    <3>1. q[i] < tick
          BY <2>1, <1>4
    <3>2. buffer'[j] = tick
          BY <2>3, <1>3
    <3> QED  BY <3>1, <3>2, <2>1
  <2>4. j \in 1..Len(q) + 1
    <3>1. Len(buffer') = Len(q) + 1
          BY <1>3
    <3> QED  BY <3>1
  <2>5. j \in 1..Len(q) \/ j = Len(q) + 1
    <3> DEFINE n == Len(q)
    <3>1. n \in Nat /\ j \in 1..n + 1
          BY <2>4, LenProperties
    <3> HIDE DEF n
    <3>2. j \in 1..n \/ j = n + 1
          BY <3>1
    <3> QED  BY <3>2 DEF n
  <2> QED  BY <2>2, <2>3, <2>5
<1>7. ASSUME NEW j \in 1..Len(buffer')
      PROVE  /\ buffer'[j] < tick' + Pending'
             /\ \A i \in 1..Len(received) : received[i] < buffer'[j]
  <2>1. CASE j \in 1..Len(q)
    <3>1. PICK k \in 1..Len(buffer) : q[j] = buffer[k]
          BY <2>1
    <3>2. \A i \in 1..Len(received) : received[i] < buffer'[j]
          BY <2>1, <3>1, <1>3 DEF BatchInv
    <3>3. buffer'[j] \in Nat /\ buffer'[j] < tick
          BY <2>1, <1>3, <1>4
    <3> QED  BY <3>2, <3>3, <1>1, <1>2
  <2>2. CASE j = Len(q) + 1
    <3>1. buffer'[j] = tick /\ tick < tick' + Pending'
          BY <2>2, <1>1, <1>2, <1>3
    <3> QED  BY <3>1, <1>5
  <2> QED  BY <2>1, <2>2, <1>1, <1>3
<1>8. \A i \in 1..Len(received) : received[i] < tick' + Pending'
      BY <1>1, <1>2, <1>5
<1>9. emitted' + Pending' = Len(received) + Len(buffer') + evicted'
  <2>1. emitted + 0 = Len(received) + Len(buffer) + evicted
        BY <1>2 DEF BatchInv
  <2> QED  BY <2>1, <1>1, <1>2, <1>3
<1> QED  BY <1>2, <1>6, <1>7, <1>8, <1>9 DEF BatchInv

LEMMA BatchTaken == ASSUME TypeOK, BatchInv, Take PROVE BatchInv'
<1>1. /\ tick \in Nat /\ emitted \in Nat /\ evicted \in Nat
      /\ received \in Seq(Nat) /\ Len(received) \in Nat
      /\ buffer \in Seq(Nat) /\ Len(buffer) \in Nat /\ buffer # <<>>
      BY LenProperties DEF TypeOK, Take
<1>2. /\ Head(buffer) = buffer[1] /\ Len(buffer) >= 1 /\ buffer[1] \in Nat
      /\ Tail(buffer) \in Seq(Nat) /\ Len(Tail(buffer)) = Len(buffer) - 1
      /\ \A i \in 1..Len(buffer) - 1 : Tail(buffer)[i] = buffer[i + 1]
  <2>1. Len(buffer) >= 1
        BY <1>1, EmptySeq
  <2>2. buffer[1] \in Nat
        BY <1>1, <2>1, ElementOfSeq
  <2> QED  BY <1>1, <2>1, <2>2, HeadTailProperties
<1>3. /\ received' = Append(received, buffer[1])
      /\ tick' = tick /\ emitted' = emitted /\ evicted' = evicted
      BY <1>2 DEF Take, countVars
<1>4. /\ Len(received') = Len(received) + 1
      /\ received'[Len(received) + 1] = buffer[1]
      /\ \A i \in 1..Len(received) : received'[i] = received[i]
      BY <1>1, <1>2, <1>3, AppendProperties
<1> DEFINE bound == tick + Pending
\* Everything taken is in order and before what was queued behind it.
<1>5. \A i, j \in 1..Len(received') : i < j => received'[i] < received'[j]
  <2> SUFFICES ASSUME NEW i \in 1..Len(received'), NEW j \in 1..Len(received'), i < j
               PROVE  received'[i] < received'[j]
      OBVIOUS
  <2>1. i \in 1..Len(received) /\ received'[i] = received[i]
        BY <1>1, <1>4
  <2>2. CASE j \in 1..Len(received)
    <3>1. received[i] < received[j]
          BY <2>1, <2>2 DEF BatchInv
    <3> QED  BY <3>1, <2>1, <2>2, <1>4
  <2>3. CASE j = Len(received) + 1
    <3>1. received[i] < buffer[1]
          BY <2>1, <1>1, <1>2 DEF BatchInv
    <3> QED  BY <3>1, <2>1, <2>3, <1>4
  <2> QED  BY <2>2, <2>3, <1>1, <1>4
<1>6. ASSUME NEW i \in 1..Len(received'), NEW k \in 1..Len(buffer) - 1
      PROVE  received'[i] < buffer[k + 1]
  <2>1. k + 1 \in 1..Len(buffer) /\ 1 \in 1..Len(buffer) /\ 1 < k + 1
        BY <1>1, <1>2
  <2>2. CASE i \in 1..Len(received)
    <3>1. received[i] < buffer[k + 1]
          BY <2>1, <2>2 DEF BatchInv
    <3> QED  BY <3>1, <2>2, <1>4
  <2>3. CASE i = Len(received) + 1
    <3>1. buffer[1] < buffer[k + 1]
          BY <2>1 DEF BatchInv
    <3> QED  BY <3>1, <2>3, <1>4
  <2> QED  BY <2>2, <2>3, <1>1, <1>4
<1>7. \A i \in 1..Len(received') : received'[i] < bound
  <2> SUFFICES ASSUME NEW i \in 1..Len(received') PROVE received'[i] < bound
      OBVIOUS
  <2>1. CASE i \in 1..Len(received)
    <3>1. received[i] < bound
          BY <2>1 DEF BatchInv
    <3> QED  BY <3>1, <2>1, <1>4
  <2>2. CASE i = Len(received) + 1
    <3>1. buffer[1] < bound
          BY <1>1, <1>2 DEF BatchInv
    <3> QED  BY <3>1, <2>2, <1>4
  <2> QED  BY <2>1, <2>2, <1>1, <1>4
<1>8. \A k \in 1..Len(buffer) - 1 : buffer[k + 1] < bound
  <2> SUFFICES ASSUME NEW k \in 1..Len(buffer) - 1 PROVE buffer[k + 1] < bound
      OBVIOUS
  <2>1. k + 1 \in 1..Len(buffer)
        BY <1>1, <1>2
  <2> QED  BY <2>1 DEF BatchInv
<1>9. ASSUME NEW j \in 1..Len(buffer) - 1, NEW k \in 1..Len(buffer) - 1, j < k
      PROVE  buffer[j + 1] < buffer[k + 1]
  <2>1. j + 1 \in 1..Len(buffer) /\ k + 1 \in 1..Len(buffer) /\ j + 1 < k + 1
        BY <1>9, <1>1, <1>2
  <2> QED  BY <2>1 DEF BatchInv
<1>10. emitted + Pending = Len(received) + Len(buffer) + evicted
       BY DEF BatchInv
<1>11. CASE pc # "send"
  <2>1. buffer' = Tail(buffer) /\ pc' = pc
        BY <1>11 DEF Take
  <2>2. Pending' = Pending
        BY <2>1 DEF Pending
  <2>3. emitted + Pending = (Len(received) + 1) + (Len(buffer) - 1) + evicted
        BY <1>1, <1>2, <1>10
  <2> HIDE DEF bound
  <2>4. tick' + Pending' = bound
        BY <2>2, <1>3 DEF bound
  <2>5. emitted' + Pending' = Len(received') + Len(buffer') + evicted'
        BY <2>1, <2>2, <2>3, <1>2, <1>3, <1>4
  <2>6. /\ Len(buffer') = Len(buffer) - 1
        /\ \A k \in 1..Len(buffer) - 1 : buffer'[k] = buffer[k + 1]
        BY <2>1, <1>2
  <2>7. \A j, k \in 1..Len(buffer') : j < k => buffer'[j] < buffer'[k]
        BY <2>6, <1>9
  <2>8. \A i \in 1..Len(received'), k \in 1..Len(buffer') : received'[i] < buffer'[k]
        BY <2>6, <1>6
  <2>9. \A k \in 1..Len(buffer') : buffer'[k] < tick' + Pending'
        BY <2>4, <2>6, <1>8
  <2>10. \A i \in 1..Len(received') : received'[i] < tick' + Pending'
         BY <2>4, <1>7
  <2> QED  BY <1>5, <2>5, <2>7, <2>8, <2>9, <2>10 DEF BatchInv
<1>12. CASE pc = "send"
  <2>1. /\ buffer' = Append(Tail(buffer), tick) /\ Pending = 0 /\ Pending' = 1
        BY <1>12 DEF Take, Pending
  <2>2. /\ Len(buffer') = Len(buffer) /\ buffer'[Len(buffer)] = tick
        /\ \A k \in 1..Len(buffer) - 1 : buffer'[k] = buffer[k + 1]
    <3>1. /\ Len(buffer') = Len(Tail(buffer)) + 1
          /\ buffer'[Len(Tail(buffer)) + 1] = tick
          /\ \A k \in 1..Len(Tail(buffer)) : buffer'[k] = Tail(buffer)[k]
          BY <2>1, <1>1, <1>2, AppendProperties
    <3> QED  BY <3>1, <1>1, <1>2
  <2>3. bound = tick /\ tick' + Pending' = tick + 1
        BY <2>1, <1>1, <1>3
  <2> HIDE DEF bound
  <2>4. emitted' + Pending' = Len(received') + Len(buffer') + evicted'
    <3>1. emitted + 1 = (Len(received) + 1) + Len(buffer) + evicted
          BY <2>1, <1>1, <1>10
    <3> QED  BY <3>1, <2>1, <2>2, <1>3, <1>4
  <2>5. ASSUME NEW k \in 1..Len(buffer')
        PROVE  (k \in 1..Len(buffer) - 1 /\ buffer'[k] = buffer[k + 1] /\ buffer'[k] < tick)
               \/ (k = Len(buffer) /\ buffer'[k] = tick)
        BY <2>2, <2>3, <1>1, <1>8
  <2>6. \A j, k \in 1..Len(buffer') : j < k => buffer'[j] < buffer'[k]
    <3> SUFFICES ASSUME NEW j \in 1..Len(buffer'), NEW k \in 1..Len(buffer'), j < k
                 PROVE  buffer'[j] < buffer'[k]
        OBVIOUS
    <3>1. j \in 1..Len(buffer) - 1 /\ buffer'[j] = buffer[j + 1] /\ buffer'[j] < tick
          BY <2>2, <2>5, <1>1
    <3>2. CASE k = Len(buffer) /\ buffer'[k] = tick
          BY <3>1, <3>2
    <3>3. CASE k \in 1..Len(buffer) - 1 /\ buffer'[k] = buffer[k + 1]
          BY <3>1, <3>3, <1>9
    <3> QED  BY <3>2, <3>3, <2>5
  <2>7. \A i \in 1..Len(received'), k \in 1..Len(buffer') : received'[i] < buffer'[k]
    <3> SUFFICES ASSUME NEW i \in 1..Len(received'), NEW k \in 1..Len(buffer')
                 PROVE  received'[i] < buffer'[k]
        OBVIOUS
    <3>1. CASE k = Len(buffer) /\ buffer'[k] = tick
          BY <3>1, <2>3, <1>7
    <3>2. CASE k \in 1..Len(buffer) - 1 /\ buffer'[k] = buffer[k + 1]
          BY <3>2, <1>6
    <3> QED  BY <3>1, <3>2, <2>5
  <2>8. \A x \in Nat : x < tick => x < tick + 1
        BY <1>1
  <2>9. \A i \in 1..Len(received') : received'[i] \in Nat
        BY TakeTypes, ElementOfSeq
  <2>10. \A i \in 1..Len(received') : received'[i] < tick' + Pending'
         BY <2>3, <2>8, <2>9, <1>7
  <2>11. \A k \in 1..Len(buffer') : buffer'[k] < tick' + Pending'
    <3> SUFFICES ASSUME NEW k \in 1..Len(buffer') PROVE buffer'[k] < tick + 1
        BY <2>3
    <3>1. buffer'[k] \in Nat
          BY TakeTypes, ElementOfSeq
    <3>2. CASE buffer'[k] = tick
          BY <3>2, <1>1
    <3>3. CASE buffer'[k] < tick
          BY <3>1, <3>3, <2>8
    <3> QED  BY <3>2, <3>3, <2>5
  <2> QED  BY <1>5, <2>4, <2>6, <2>7, <2>10, <2>11 DEF BatchInv
<1> QED  BY <1>11, <1>12

LEMMA BatchPublished ==
    ASSUME TypeOK, BatchInv, pc = "poll", UNCHANGED received,
           PublishBlock \/ DropNewest \/ DropOldest
    PROVE  BatchInv'
<1>1. /\ tick \in Nat /\ evicted \in Nat /\ Size \in Nat \ {0}
      /\ buffer \in Seq(Nat) /\ Len(buffer) \in Nat
      BY LenProperties, RecorderAssumption DEF TypeOK
<1>2. \A i, j \in 1..Len(buffer) : i < j => buffer[i] < buffer[j]
      BY DEF BatchInv
<1>3. CASE ~Full
  <2>1. Enqueue(buffer) /\ evicted' = evicted + 0 /\ Len(buffer) + 0 = Len(buffer)
        BY <1>1, <1>3 DEF PublishBlock, DropNewest, DropOldest
  <2> QED  BY <1>1, <1>2, <2>1, BatchQueued
<1>4. CASE Full /\ PublishBlock
  <2>1. /\ tick' = tick + 0 /\ Pending' = Pending
        /\ UNCHANGED <<buffer, received, emitted, evicted>>
        BY <1>1, <1>4 DEF PublishBlock, Pending
  <2> QED  BY <2>1, BatchKept
<1>5. CASE Full /\ DropNewest
  <2>1. /\ tick' = tick + 1 /\ Pending' = Pending
        /\ UNCHANGED <<buffer, received, emitted, evicted>>
        BY <1>1, <1>5 DEF DropNewest, Pending
  <2> QED  BY <2>1, BatchKept
<1>6. CASE Full /\ DropOldest
  <2> DEFINE q == Tail(buffer)
  <2>1. buffer # <<>> /\ Len(buffer) >= 1
        BY <1>1, <1>6, EmptySeq DEF Full
  <2>2. /\ q \in Seq(Nat) /\ Len(q) = Len(buffer) - 1
        /\ \A i \in 1..Len(buffer) - 1 : q[i] = buffer[i + 1]
        BY <1>1, <2>1, HeadTailProperties
  <2>3. Enqueue(q) /\ evicted' = evicted + 1
        BY <1>6 DEF DropOldest
  <2> HIDE DEF q
  <2>4. \A j \in 1..Len(q) : j + 1 \in 1..Len(buffer) /\ q[j] = buffer[j + 1]
        BY <1>1, <2>1, <2>2
  <2>5. \A i, j \in 1..Len(q) : i < j => q[i] < q[j]
    <3> SUFFICES ASSUME NEW i \in 1..Len(q), NEW j \in 1..Len(q), i < j
                 PROVE  q[i] < q[j]
        OBVIOUS
    <3>1. i + 1 \in 1..Len(buffer) /\ j + 1 \in 1..Len(buffer) /\ i + 1 < j + 1
          BY <2>4
    <3>2. buffer[i + 1] < buffer[j + 1]
          BY <3>1, <1>2
    <3> QED  BY <3>2, <2>4
  <2>6. \A j \in 1..Len(q) : \E k \in 1..Len(buffer) : q[j] = buffer[k]
        BY <2>4
  <2>7. Len(q) + 1 = Len(buffer)
        BY <1>1, <2>2
  <2> QED  BY <2>2, <2>3, <2>5, <2>6, <2>7, BatchQueued
<1> QED  BY <1>3, <1>4, <1>5, <1>6

LEMMA NextBatch == ASSUME TypeOK, BatchInv, [Next]_vars PROVE BatchInv'
<1> USE DEF askedVars, countVars, bodyVars, Pending
<1>1. tick \in Nat /\ tick + 0 = tick
      BY DEF TypeOK
<1>2. CASE UNCHANGED vars
      BY <1>1, <1>2, BatchKept DEF vars
<1>3. CASE NextTick
  <2>1. Missed(clock) \in Nat
        BY MissedProperties
  <2> QED  BY <1>3, <2>1, BatchKept DEF NextTick
<1>4. CASE End \/ Wake \/ PollRaises \/ RebuildRaises \/ Disconnected \/ Cancelled \/ Exit
  <2>1. /\ tick' = tick + 0 /\ Pending' = Pending
        /\ UNCHANGED <<buffer, received, emitted, evicted>>
        BY <1>1, <1>4 DEF End, Wake, PollRaises, RebuildRaises, Disconnected, Cancelled,
                          Exit, Stopped, Awaiting
  <2> QED  BY <2>1, BatchKept
<1>5. CASE Polled
      BY <1>5, BatchPublished DEF Polled
<1>6. CASE Sent
  <2>1. /\ Pending = 1 /\ Pending' = 0 /\ emitted' = emitted + 1 /\ tick' = tick + 1
        /\ UNCHANGED <<buffer, received, evicted>>
        BY <1>6 DEF Sent
  <2>2. tick' + Pending' = tick + Pending /\ emitted' + Pending' = emitted + Pending
        BY <2>1 DEF TypeOK
  <2> HIDE DEF Pending
  <2> QED  BY <2>1, <2>2 DEF BatchInv
<1>7. CASE BackoffEnds
  <2>1. /\ Pending' = Pending /\ UNCHANGED <<buffer, received, emitted, evicted>>
        /\ tick' = tick + 0 \/ tick' = tick + 1
        BY <1>1, <1>7 DEF BackoffEnds
  <2> HIDE DEF Pending
  <2> QED  BY <2>1, BatchKept
<1>8. ASSUME NEW ok \in BOOLEAN, Rebuilt(ok)
      PROVE  BatchInv'
  <2>1. /\ Pending' = Pending /\ UNCHANGED <<buffer, received, emitted, evicted>>
        /\ tick' = tick + 1
        BY <1>8 DEF Rebuilt
  <2> HIDE DEF Pending
  <2> QED  BY <2>1, BatchKept
<1>9. CASE Take
      BY <1>9, BatchTaken
<1>10. ASSUME NEW how \in {"left", "raised"}, Leave(how)
       PROVE  BatchInv'
  <2>1. /\ Pending' = Pending /\ UNCHANGED <<buffer, received, emitted, evicted>>
        /\ tick' = tick + 0
        BY <1>1, <1>10 DEF Leave
  <2> HIDE DEF Pending
  <2> QED  BY <2>1, BatchKept
<1> QED  BY <1>2, <1>3, <1>4, <1>5, <1>6, <1>7, <1>8, <1>9, <1>10 DEF Next, Producer

-----------------------------------------------------------------------------
(***************************************************************************)
(* What the consumer gets                                                  *)
(***************************************************************************)

\* Moving the head of b to the end of a.
LEMMA Shift ==
    ASSUME NEW a \in Seq(Nat), NEW b \in Seq(Nat), b # <<>>
    PROVE  /\ Append(a, Head(b)) \in Seq(Nat) /\ Tail(b) \in Seq(Nat)
           /\ Append(a, Head(b)) \o Tail(b) = a \o b
<1>1. Len(b) \in Nat /\ Len(b) >= 1 /\ Len(a) \in Nat
      BY EmptySeq, LenProperties
<1>2. /\ Head(b) \in Nat /\ Tail(b) \in Seq(Nat) /\ Head(b) = b[1]
      /\ Len(Tail(b)) = Len(b) - 1
      /\ \A i \in 1..Len(b) - 1 : Tail(b)[i] = b[i + 1]
      BY <1>1, HeadTailProperties
<1> DEFINE c == Append(a, Head(b))
           t == Tail(b)
<1>3. /\ c \in Seq(Nat) /\ Len(c) = Len(a) + 1 /\ c[Len(a) + 1] = b[1]
      /\ \A i \in 1..Len(a) : c[i] = a[i]
      BY <1>2, AppendProperties
<1>4. t \in Seq(Nat) /\ Len(t) = Len(b) - 1 /\ \A i \in 1..Len(b) - 1 : t[i] = b[i + 1]
      BY <1>2
<1> HIDE DEF c, t
<1>5. /\ c \o t \in Seq(Nat) /\ Len(c \o t) = Len(c) + Len(t)
      /\ \A i \in 1..Len(c) + Len(t) :
            (c \o t)[i] = IF i <= Len(c) THEN c[i] ELSE t[i - Len(c)]
      BY <1>3, <1>4, ConcatProperties
<1>6. /\ a \o b \in Seq(Nat) /\ Len(a \o b) = Len(a) + Len(b)
      /\ \A i \in 1..Len(a) + Len(b) :
            (a \o b)[i] = IF i <= Len(a) THEN a[i] ELSE b[i - Len(a)]
      BY ConcatProperties
<1>7. Len(c) + Len(t) = Len(a) + Len(b)
      BY <1>1, <1>3, <1>4
<1>8. ASSUME NEW i \in 1..Len(a) + Len(b)
      PROVE  (c \o t)[i] = (a \o b)[i]
  <2>1. CASE i <= Len(a)
        BY <2>1, <1>1, <1>3, <1>4, <1>5, <1>6, <1>7
  <2>2. CASE i = Len(a) + 1
        BY <2>2, <1>1, <1>3, <1>4, <1>5, <1>6, <1>7
  <2>3. CASE i > Len(a) + 1
    <3>1. i \in Nat /\ Len(c) \in Nat
          BY <1>1, <1>3
    <3>2. i \in 1..Len(c) + Len(t)
          BY <1>7
    <3>3. ~(i <= Len(c))
          BY <3>1, <2>3, <1>1, <1>3
    <3>4. (c \o t)[i] = t[i - Len(c)]
          BY <3>2, <3>3, <1>5
    <3>5. ~(i <= Len(a))
          BY <3>1, <2>3, <1>1
    <3>6. (a \o b)[i] = b[i - Len(a)]
          BY <3>5, <1>6
    <3>7. i - Len(c) \in 1..Len(b) - 1 /\ (i - Len(c)) + 1 = i - Len(a)
          BY <3>1, <2>3, <1>1, <1>3
    <3> QED  BY <3>4, <3>6, <3>7, <1>4
  <2>4. i <= Len(a) \/ i = Len(a) + 1 \/ i > Len(a) + 1
    <3>1. i \in Int /\ Len(a) \in Int
          BY <1>1
    <3> HIDE DEF c, t
    <3> QED  BY <3>1
  <2> QED  BY <2>1, <2>2, <2>3, <2>4
<1>9. c \o t = a \o b
      BY <1>5, <1>6, <1>7, <1>8, SeqEqual
<1> QED  BY <1>3, <1>4, <1>9 DEF c, t

\* Appending behind a concatenation.
LEMMA AppendBehind ==
    ASSUME NEW a \in Seq(Nat), NEW b \in Seq(Nat), NEW e \in Nat
    PROVE  /\ Append(a \o b, e) = a \o Append(b, e)
           /\ Append(a \o b, e) = (a \o b) \o <<e>>
           /\ a \o b \in Seq(Nat) /\ Append(b, e) \in Seq(Nat)
<1>1. <<e>> \in Seq(Nat) /\ a \o b \in Seq(Nat) /\ Append(b, e) \in Seq(Nat)
      BY ConcatProperties, AppendProperties
<1>2. Append(a \o b, e) = (a \o b) \o <<e>> /\ Append(b, e) = b \o <<e>>
      BY <1>1, AppendIsConcat
<1>3. (a \o b) \o <<e>> = a \o (b \o <<e>>)
      BY <1>1, ConcatAssociative
<1> QED  BY <1>1, <1>2, <1>3

\* The batch of a producer that waits for room.
Held == IF pc = "send" THEN <<tick>> ELSE <<>>

LEMMA NextBlock ==
    ASSUME TypeOK, BlockLosesNothing, [Next]_vars
    PROVE  BlockLosesNothing'
<1> USE DEF askedVars, countVars, bodyVars
<1>1. /\ tick \in Nat /\ polled \in Seq(Nat) /\ received \in Seq(Nat)
      /\ buffer \in Seq(Nat) /\ received \o buffer \in Seq(Nat)
      BY ConcatProperties DEF TypeOK
<1>2. SUFFICES ASSUME overflow' = "block", cm' = "open"
               PROVE  polled' = received' \o buffer' \o Held'
      BY DEF BlockLosesNothing, Held
<1>3. overflow = "block" /\ cm = "open"
  <2>1. overflow' = overflow
        BY DEF vars, Next, Producer, NextTick, End, Wake, Polled, Sent, Disconnected,
               PollRaises, BackoffEnds, Rebuilt, RebuildRaises, Cancelled, Take, Leave,
               Exit
  <2>2. cm = "open"
        BY <1>2 DEF vars, Next, Producer, NextTick, End, Wake, Polled, Sent, Disconnected,
               PollRaises, BackoffEnds, Rebuilt, RebuildRaises, Cancelled, Take, Leave,
               Exit
  <2> QED  BY <1>2, <2>1, <2>2
<1>4. polled = received \o buffer \o Held
      BY <1>3 DEF BlockLosesNothing, Held
<1>5. pc # "send" => polled = received \o buffer
      BY <1>1, <1>4, ConcatEmptySeq DEF Held
<1>6. ASSUME pc' # "send", polled' = received' \o buffer',
             received' \o buffer' \in Seq(Nat)
      PROVE  polled' = received' \o buffer' \o Held'
  <2>1. Held' = <<>>
        BY <1>6 DEF Held
  <2> QED  BY <1>6, <2>1, ConcatEmptySeq
<1>7. CASE Polled
  <2>1. pc = "poll" /\ polled' = Append(received \o buffer, tick) /\ received' = received
        BY <1>5, <1>7 DEF Polled
  <2>2. PublishBlock
        BY <1>3, <1>7 DEF Polled
  <2>3. CASE Full
    <3>1. pc' = "send" /\ tick' = tick /\ buffer' = buffer
          BY <2>2, <2>3 DEF PublishBlock
    <3> QED  BY <2>1, <3>1, <1>1, AppendBehind DEF Held
  <2>4. CASE ~Full
    <3>1. pc' = "loop" /\ buffer' = Append(buffer, tick)
          BY <2>2, <2>4 DEF PublishBlock, Enqueue
    <3>2. polled' = received' \o buffer' /\ received' \o buffer' \in Seq(Nat)
          BY <2>1, <3>1, <1>1, AppendBehind, ConcatProperties
    <3> QED  BY <3>1, <3>2, <1>6
  <2> QED  BY <2>3, <2>4
<1>8. CASE Take
  <2> DEFINE r == Append(received, Head(buffer))
             t == Tail(buffer)
  <2>1. /\ r \in Seq(Nat) /\ t \in Seq(Nat) /\ r \o t = received \o buffer
        BY <1>1, <1>8, Shift DEF Take
  <2>2. received' = r /\ polled' = polled /\ pc' # "send"
        BY <1>8 DEF Take
  <2>3. CASE pc = "send"
    <3>1. buffer' = Append(t, tick) /\ Held = <<tick>>
          BY <1>8, <2>3 DEF Take, Held
    <3> HIDE DEF r, t
    <3>2. r \o Append(t, tick) = (r \o t) \o <<tick>>
      <4>1. r \in Seq(Nat) /\ t \in Seq(Nat) /\ tick \in Nat
            BY <2>1, <1>1
      <4>2. Append(r \o t, tick) = r \o Append(t, tick)
            BY <4>1, AppendBehind
      <4>3. Append(r \o t, tick) = (r \o t) \o <<tick>>
            BY <4>1, AppendBehind
      <4> QED  BY <4>2, <4>3
    <3>3. r \o Append(t, tick) \in Seq(Nat)
          BY <2>1, <1>1, AppendBehind, ConcatProperties
    <3> QED  BY <3>1, <3>2, <3>3, <2>1, <2>2, <1>4, <1>6
  <2>4. CASE pc # "send"
    <3>1. buffer' = t
          BY <1>8, <2>4 DEF Take
    <3> HIDE DEF r, t
    <3> QED  BY <3>1, <2>1, <2>2, <2>4, <1>1, <1>5, <1>6
  <2> QED  BY <2>3, <2>4
\* Every other step leaves the batches alone, and none but Take ends a send.
<1>9. CASE ~Polled /\ ~Take
  <2>1. UNCHANGED <<polled, received, buffer>>
        BY <1>9 DEF vars, Next, Producer, NextTick, End, Wake, Sent, Disconnected,
               PollRaises, BackoffEnds, Rebuilt, RebuildRaises, Cancelled, Leave, Exit
  <2>2. \/ UNCHANGED <<pc, tick>>
        \/ pc # "send" /\ pc' # "send"
        BY <1>3, <1>9 DEF vars, Next, Producer, NextTick, End, Wake, Sent, Disconnected,
               PollRaises, BackoffEnds, Rebuilt, RebuildRaises, Cancelled, Leave, Exit
  <2>3. CASE UNCHANGED <<pc, tick>>
        BY <2>1, <2>3, <1>4 DEF Held
  <2>4. CASE pc # "send" /\ pc' # "send"
        BY <2>1, <2>4, <1>1, <1>5, <1>6
  <2> QED  BY <2>2, <2>3, <2>4
<1> QED  BY <1>7, <1>8, <1>9

\* Under DROP_OLDEST what is queued is what was polled last, and no send waits.
FreshInv ==
    overflow = "drop_oldest" => /\ \E x \in Seq(Nat) : polled = x \o buffer
                                /\ pc # "send"

LEMMA NextFresh == ASSUME TypeOK, FreshInv, [Next]_vars PROVE FreshInv'
<1> USE DEF askedVars, countVars, bodyVars
<1>1. /\ tick \in Nat /\ buffer \in Seq(Nat) /\ Len(buffer) \in Nat
      /\ Size \in Nat \ {0}
      BY LenProperties, RecorderAssumption DEF TypeOK
<1>2. overflow' = overflow
      BY DEF vars, Next, Producer, NextTick, End, Wake, Polled, Sent, Disconnected,
             PollRaises, BackoffEnds, Rebuilt, RebuildRaises, Cancelled, Take, Leave,
             Exit
<1>3. SUFFICES ASSUME overflow = "drop_oldest"
               PROVE  (\E x \in Seq(Nat) : polled' = x \o buffer') /\ pc' # "send"
      BY <1>2 DEF FreshInv
<1>4. PICK x \in Seq(Nat) : polled = x \o buffer
      BY <1>3 DEF FreshInv
<1>5. pc # "send"
      BY <1>3 DEF FreshInv
<1>6. CASE Polled
  <2>1. DropOldest /\ polled' = Append(x \o buffer, tick)
        BY <1>3, <1>4, <1>6 DEF Polled
  <2>2. CASE ~Full
    <3>1. pc' = "loop" /\ buffer' = Append(buffer, tick)
          BY <2>1, <2>2 DEF DropOldest, Enqueue
    <3> QED  BY <2>1, <3>1, <1>1, AppendBehind
  <2>3. CASE Full
    <3> DEFINE y == Append(x, Head(buffer))
               t == Tail(buffer)
    <3>1. buffer # <<>>
          BY <2>3, <1>1, EmptySeq DEF Full
    <3>2. y \in Seq(Nat) /\ t \in Seq(Nat) /\ y \o t = x \o buffer
          BY <3>1, <1>1, Shift
    <3>3. pc' = "loop" /\ buffer' = Append(t, tick)
          BY <2>1, <2>3 DEF DropOldest, Enqueue
    <3> HIDE DEF y, t
    <3>4. polled' = y \o buffer'
      <4>1. Append(y \o t, tick) = y \o Append(t, tick)
            BY <3>2, <1>1, AppendBehind
      <4> QED  BY <4>1, <2>1, <3>2, <3>3
    <3> QED  BY <3>2, <3>3, <3>4
  <2> QED  BY <2>2, <2>3
<1>7. CASE Take
  <2>1. /\ buffer # <<>> /\ buffer' = Tail(buffer) /\ polled' = polled /\ pc' = pc
        BY <1>5, <1>7 DEF Take
  <2> QED  BY <2>1, <1>1, <1>4, <1>5, Shift
<1>8. CASE ~Polled /\ ~Take
  <2>1. UNCHANGED <<polled, buffer>> /\ pc' # "send"
        BY <1>5, <1>8 DEF vars, Next, Producer, NextTick, End, Wake, Sent, Disconnected,
               PollRaises, BackoffEnds, Rebuilt, RebuildRaises, Cancelled, Leave, Exit
  <2> QED  BY <2>1, <1>4
<1> QED  BY <1>6, <1>7, <1>8

-----------------------------------------------------------------------------
(***************************************************************************)
(* The results                                                             *)
(***************************************************************************)

\* Every counter, queue and clock of the recorder keeps its type, and the
\* memory stream never holds more than buffer_size batches.
THEOREM TypeSafety == Spec => []TypeOK
BY InitTypes, NextTypes, PTL DEF Spec

\* summary.samples_emitted and samples_late account for each tick of the
\* producer's loop, across overruns, drops, evictions and disconnects.
THEOREM AlwaysAccounted == Spec => []Accounting
<1>1. Init => Accounting
      BY DEF Init, Accounting, CountedTick, Stopped
<1> QED  BY Types, <1>1, NextAccounting, PTL DEF Spec

\* The skip at the top of the loop lands within a period of the clock, whatever
\* the overrun: no poll is early, none is made up for.
THEOREM AlwaysOnSchedule == Spec => []OnSchedule
<1>1. Init => OnSchedule
      BY DEF Init, OnSchedule
<1> QED  BY Types, <1>1, NextOnSchedule, PTL DEF Spec

\* Batches are taken in the order they were polled, none twice, and
\* samples_emitted counts those taken, queued or evicted.
THEOREM AlwaysDelivered == Spec => []Delivery
<1>1. Init => BatchInv
  <2>1. Len(<<>>) = 0
        BY EmptySeq
  <2> QED  BY <2>1 DEF Init, BatchInv, Pending
<1>2. TypeOK /\ BatchInv => Delivery
  <2>1. TypeOK => DOMAIN received = 1..Len(received)
        BY LenProperties DEF TypeOK
  <2> QED  BY <2>1 DEF BatchInv, Delivery, Pending
<1> QED  BY Types, <1>1, <1>2, NextBatch, PTL DEF Spec

\* Under OverflowPolicy.BLOCK no batch is lost between poll and consumer.
THEOREM NothingLostUnderBlock == Spec => []BlockLosesNothing
<1>1. Init => BlockLosesNothing
  <2>1. <<>> \in Seq(Nat)
        BY EmptySeq
  <2> QED  BY <2>1, ConcatEmptySeq DEF Init, BlockLosesNothing
<1> QED  BY Types, <1>1, NextBlock, PTL DEF Spec

\* Under OverflowPolicy.DROP_OLDEST the stream holds the latest batches.
THEOREM AlwaysFreshest == Spec => []FreshestKept
<1>1. Init => FreshInv
  <2>1. <<>> \in Seq(Nat) /\ <<>> \o <<>> = <<>>
        BY EmptySeq, ConcatEmptySeq
  <2> QED  BY <2>1 DEF Init, FreshInv
<1>2. ASSUME TypeOK, NEW x \in Seq(Nat), polled = x \o buffer
      PROVE  buffer = SubSeq(polled, Len(polled) - Len(buffer) + 1, Len(polled))
  <2> DEFINE m == Len(x)
             n == Len(buffer)
  <2>1. /\ buffer \in Seq(Nat) /\ m \in Nat /\ n \in Nat
        BY <1>2, LenProperties DEF TypeOK
  <2>2. Len(polled) = m + n
        BY <1>2, <2>1, ConcatProperties
  <2>3. Len(polled) - n + 1 = m + 1
        BY <2>1, <2>2
  <2>4. CASE n = 0
    <3>1. buffer = <<>>
          BY <2>1, <2>4, EmptySeq
    <3>2. m + 1 \in Int /\ m + n \in Int /\ m + n < m + 1
          BY <2>1, <2>4
    <3>3. SubSeq(polled, m + 1, m + n) = <<>>
          BY <3>2, SubSeqEmpty
    <3> QED  BY <3>1, <3>3, <2>2, <2>3
  <2>5. CASE n # 0
    <3>1. /\ m + 1 \in m + 1..m + n /\ m + n \in m + 1..m + n
          /\ m + 1 - m = 1 /\ m + n - m = n
          BY <2>1, <2>5
    <3>2. SubSeq(x \o buffer, m + 1, m + n) = SubSeq(buffer, m + 1 - m, m + n - m)
          BY <3>1, <2>1, SubSeqOfConcat2
    <3>3. SubSeq(buffer, 1, n) = buffer
          BY <2>1, SubSeqFull
    <3> QED  BY <1>2, <2>2, <2>3, <3>1, <3>2, <3>3
  <2> QED  BY <2>4, <2>5
<1>3. TypeOK /\ FreshInv => FreshestKept
      BY <1>2 DEF FreshInv, FreshestKept
<1> QED  BY Types, <1>1, <1>3, NextFresh, PTL DEF Spec

\* The producer is joined before record()'s context manager is left: after it
\* no counter, batch or flag changes.
THEOREM FinalAfterExit == Spec => ExitIsFinal
<1>1. Init => Joined
      BY DEF Init, Joined
<1>2. Joined /\ [Next]_vars => [cm # "exited"]_vars
      BY AfterExit
<1> QED  BY <1>1, <1>2, NextJoined, PTL DEF Spec, ExitIsFinal
=============================================================================
