-------------------------- MODULE StdBusPortProofs --------------------------
(***************************************************************************)
(* Proofs about StdBusPort, for every set of tasks, devices, parameters    *)
(* and jobs: its type invariant, and the discipline of its lock.           *)
(***************************************************************************)
EXTENDS StdBusPort, SequenceTheorems, TLAPS

\* Without(s, i) leaves out the i-th element and closes the gap.
LEMMA WithoutProperties ==
    ASSUME NEW S, NEW s \in Seq(S), NEW i \in 1..Len(s)
    PROVE  /\ Without(s, i) \in Seq(S)
           /\ Len(Without(s, i)) = Len(s) - 1
           /\ \A k \in 1..Len(s) - 1 :
                 Without(s, i)[k] = IF k < i THEN s[k] ELSE s[k + 1]
<1> DEFINE a == SubSeq(s, 1, i - 1)
           b == SubSeq(s, i + 1, Len(s))
<1>1. Len(s) \in Nat /\ \A k \in 1..Len(s) : s[k] \in S
      BY LenProperties, ElementOfSeq
<1>2. /\ a \in Seq(S) /\ Len(a) = i - 1
      /\ \A k \in 1..i - 1 : a[k] = s[k]
  <2>1. \A k \in 1..i - 1 : s[k] \in S
        BY <1>1
  <2> QED  BY <2>1, <1>1, SubSeqProperties
<1>3. /\ b \in Seq(S) /\ Len(b) = Len(s) - i
      /\ \A k \in 1..Len(s) - i : b[k] = s[i + k]
  <2>1. \A k \in i + 1..Len(s) : s[k] \in S
        BY <1>1
  <2>2. /\ b \in Seq(S)
        /\ Len(b) = IF i + 1 <= Len(s) THEN Len(s) - (i + 1) + 1 ELSE 0
        /\ \A k \in 1..Len(s) - (i + 1) + 1 : b[k] = s[(i + 1) + k - 1]
        BY <2>1, <1>1, SubSeqProperties
  <2> HIDE DEF b
  <2> QED  BY <2>2, <1>1
<1>4. /\ a \o b \in Seq(S)
      /\ Len(a \o b) = Len(a) + Len(b)
      /\ \A k \in 1..Len(a) + Len(b) :
            (a \o b)[k] = IF k <= Len(a) THEN a[k] ELSE b[k - Len(a)]
      BY <1>2, <1>3, ConcatProperties
<1>5. Without(s, i) = a \o b
      BY DEF Without
<1> HIDE DEF a, b
<1>6. Len(a) + Len(b) = Len(s) - 1
      BY <1>1, <1>2, <1>3
<1>7. ASSUME NEW k \in 1..Len(s) - 1
      PROVE  (a \o b)[k] = IF k < i THEN s[k] ELSE s[k + 1]
  <2>1. (a \o b)[k] = IF k <= i - 1 THEN a[k] ELSE b[k - (i - 1)]
        BY <1>2, <1>4, <1>6
  <2>2. CASE k < i
        BY <2>1, <2>2, <1>1, <1>2
  <2>3. CASE ~(k < i)
    <3>1. k - (i - 1) \in 1..Len(s) - i
          BY <2>3, <1>1
    <3>2. b[k - (i - 1)] = s[i + (k - (i - 1))]
          BY <3>1, <1>3
    <3> QED  BY <2>1, <2>3, <3>2, <1>1
  <2> QED  BY <2>2, <2>3
<1> QED  BY <1>4, <1>5, <1>6, <1>7

\* Append(s, e) adds e at the end and keeps the rest.
LEMMA AppendAt ==
    ASSUME NEW S, NEW s \in Seq(S), NEW e \in S
    PROVE  /\ Append(s, e) \in Seq(S)
           /\ Len(Append(s, e)) = Len(s) + 1
           /\ Append(s, e)[Len(s) + 1] = e
           /\ \A k \in 1..Len(s) : Append(s, e)[k] = s[k]
BY AppendProperties, LenProperties

-----------------------------------------------------------------------------
(***************************************************************************)
(* Types                                                                   *)
(***************************************************************************)

\* A task about to make a call, or about to enter its batch, has one to make;
\* only a batch is entered.
JobPoints ==
    \A t \in Task : /\ pc[t] \in {"enter", "call"} => todo[t] # <<>>
                    /\ pc[t] = "enter" => job[t].hold

TypeInv == TypeOK /\ JobPoints

\* What the lock's variables, and those of one task, may become.
LockTypes == owner' \in Task \cup {Nobody} /\ waiters' \in Seq(Task)

TaskTypes ==
    /\ pc' \in [Task -> Points]
    /\ job' \in [Task -> Jobs]
    /\ todo' \in [Task -> Seq(Call)]
    /\ result' \in [Task -> Result]
    /\ JobPoints'

LEMMA AcquireType ==
    ASSUME TypeOK, NEW t \in Task, Acquire(t)
    PROVE  LockTypes
<1>1. waiters \in Seq(Task) /\ owner \in Task \cup {Nobody}
      BY DEF TypeOK
<1>2. Append(waiters, t) \in Seq(Task)
      BY <1>1, AppendAt
<1> QED  BY <1>1, <1>2 DEF Acquire, LockTypes

LEMMA ReleaseType ==
    ASSUME TypeOK, Release
    PROVE  LockTypes
<1>1. waiters \in Seq(Task)
      BY DEF TypeOK
<1>2. waiters # <<>> => Head(waiters) \in Task /\ Tail(waiters) \in Seq(Task)
      BY <1>1, HeadTailProperties
<1> QED  BY <1>1, <1>2 DEF Release, LockTypes

LEMMA LeaveQueueType ==
    ASSUME TypeOK, NEW t \in Task, LeaveQueue(t)
    PROVE  LockTypes
<1>1. waiters \in Seq(Task) /\ owner \in Task \cup {Nobody}
      BY DEF TypeOK
<1>2. \A i \in 1..Len(waiters) : Without(waiters, i) \in Seq(Task)
      BY <1>1, WithoutProperties
<1> QED  BY <1>1, <1>2 DEF LeaveQueue, LockTypes

LEMMA EndCallType ==
    ASSUME TypeInv, NEW t \in Task, NEW res \in Result, NEW rest \in Seq(Call),
           EndCall(t, res, rest)
    PROVE  TaskTypes /\ LockTypes
<1>1. LockTypes
  <2>1. CASE Release
        BY <2>1, ReleaseType DEF TypeInv
  <2>2. CASE UNCHANGED lockVars
        BY <2>2 DEF TypeInv, TypeOK, LockTypes, lockVars
  <2> QED  BY <2>1, <2>2 DEF EndCall
<1>2. /\ job' \in [Task -> Jobs]
      /\ result' \in [Task -> Result]
      BY DEF TypeInv, TypeOK, EndCall
<1>3. PICK last \in BOOLEAN :
         /\ rest = <<>> => last
         /\ pc' = [pc EXCEPT ![t] = IF last THEN "idle" ELSE "call"]
         /\ todo' = [todo EXCEPT ![t] = IF last THEN <<>> ELSE rest]
      BY DEF EndCall
<1>4. pc' \in [Task -> Points]
      BY <1>3 DEF TypeInv, TypeOK, Points
<1>5. todo' \in [Task -> Seq(Call)]
      BY <1>3, EmptySeq DEF TypeInv, TypeOK
<1>6. JobPoints'
  <2>1. job' = job
        BY DEF EndCall
  <2>2. ASSUME NEW u \in Task, u # t
        PROVE  pc'[u] = pc[u] /\ todo'[u] = todo[u]
        BY <2>2, <1>3 DEF TypeInv, TypeOK
  <2>3. pc'[t] \in {"idle", "call"} /\ (pc'[t] = "call" => todo'[t] # <<>>)
        BY <1>3 DEF TypeInv, TypeOK
  <2> QED  BY <2>1, <2>2, <2>3 DEF TypeInv, JobPoints
<1> QED  BY <1>1, <1>2, <1>4, <1>5, <1>6 DEF TaskTypes

LEMMA FailType ==
    ASSUME TypeInv, NEW t \in Task, NEW why \in Failure, Fail(t, why)
    PROVE  TaskTypes /\ LockTypes
<1>1. [end |-> why, of |-> call[t]] \in Result /\ todo[t] \in Seq(Call)
      BY DEF TypeInv, TypeOK, Result
<1> QED  BY <1>1, EndCallType DEF Fail

\* A reply of the segment decodes to a result, and leaves a legal availability.
LEMMA DecodeType ==
    ASSUME NEW r \in Reply, NEW c \in Call
    PROVE  Decode(r, c) \in Result
BY DEF Reply, Decode, Result, Failure

LEMMA AvailabilityType ==
    ASSUME TypeOK, NEW res, NEW c \in Call
    PROVE  Availability(res, c)
              \in [Device -> [Key -> {"unknown", "supported", "unsupported"}]]
<1>1. c.dev \in Device /\ KeyOf(c) \in Key
      BY DEF Call, KeyOf, Key
<1> QED  BY <1>1 DEF TypeOK, Availability

LEMMA TypeInit == Init => TypeInv
<1> SUFFICES ASSUME Init PROVE TypeInv
    OBVIOUS
<1>1. job \in [Task -> Jobs]
      BY PortAssumption DEF Init
<1>2. ASSUME NEW t \in Task
      PROVE  Head(job[t].calls) \in Call
  <2>1. job[t].calls \in Seq(Call) /\ job[t].calls # <<>>
        BY <1>1, PortAssumption DEF JobShape
  <2> QED  BY <2>1, HeadTailProperties
<1>3. call \in [Task -> Call]
      BY <1>2 DEF Init
<1>4. result \in [Task -> Result]
      BY <1>3 DEF Init, Result, Failure
<1>5. pc \in [Task -> Points] /\ JobPoints
      BY DEF Init, Points, JobPoints
<1>6. /\ todo \in [Task -> Seq(Call)]
      /\ waiters \in Seq(Task) /\ pending \in Seq(Call) /\ inbuf \in Seq(Reply)
      BY EmptySeq DEF Init
<1>7. started \in 0..MaxJobs
      BY PortAssumption DEF Init
<1>8. avail \in [Device -> [Key -> {"unknown", "supported", "unsupported"}]]
      BY DEF Init
<1>9. owner \in Task \cup {Nobody} /\ disposed \in BOOLEAN /\ open \in BOOLEAN
      /\ abandoned \in Nat
      BY DEF Init
<1> QED  BY <1>1, <1>3, <1>4, <1>5, <1>6, <1>7, <1>8, <1>9 DEF TypeInv, TypeOK

\* The rest of the variables: everything outside TaskTypes and LockTypes.
RestTypes ==
    /\ call' \in [Task -> Call]
    /\ avail' \in [Device -> [Key -> {"unknown", "supported", "unsupported"}]]
    /\ disposed' \in BOOLEAN
    /\ open' \in BOOLEAN
    /\ pending' \in Seq(Call)
    /\ inbuf' \in Seq(Reply)
    /\ abandoned' \in Nat
    /\ started' \in 0..MaxJobs

LEMMA TypesCompose == TaskTypes /\ LockTypes /\ RestTypes => TypeInv'
BY DEF TaskTypes, LockTypes, RestTypes, TypeInv, TypeOK

LEMMA LockSame == TypeInv /\ UNCHANGED lockVars => LockTypes
BY DEF TypeInv, TypeOK, lockVars, LockTypes

LEMMA TaskSame == TypeInv /\ UNCHANGED <<pc, job, todo, result>> => TaskTypes
BY DEF TypeInv, TypeOK, JobPoints, TaskTypes

\* A task moves to a point where it need not have calls left.
LEMMA MoveType ==
    ASSUME TypeInv, NEW t \in Task, NEW x \in Points \ {"enter", "call"},
           pc' = [pc EXCEPT ![t] = x], UNCHANGED <<job, todo, result>>
    PROVE  TaskTypes
BY DEF TypeInv, TypeOK, JobPoints, TaskTypes

\* The call at the head of what a task has left.
LEMMA HeadCall ==
    ASSUME TypeInv, NEW t \in Task, pc[t] = "call"
    PROVE  Head(todo[t]) \in Call /\ Tail(todo[t]) \in Seq(Call)
<1>1. todo[t] \in Seq(Call) /\ todo[t] # <<>>
      BY DEF TypeInv, TypeOK, JobPoints
<1> QED  BY <1>1, HeadTailProperties

LEMMA TypeStart ==
    ASSUME TypeInv, NEW t \in Task, Start(t)
    PROVE  TypeInv'
<1>1. PICK j \in Jobs :
         /\ job' = [job EXCEPT ![t] = j]
         /\ todo' = [todo EXCEPT ![t] = j.calls]
         /\ IF j.hold
            THEN pc' = [pc EXCEPT ![t] = "enter"] /\ Acquire(t)
            ELSE pc' = [pc EXCEPT ![t] = "call"] /\ UNCHANGED lockVars
      BY DEF Start
<1>2. j.calls \in Seq(Call) /\ j.calls # <<>>
      BY PortAssumption DEF JobShape
<1>3. /\ pc' \in [Task -> Points]
      /\ job' \in [Task -> Jobs]
      /\ todo' \in [Task -> Seq(Call)]
      BY <1>1, <1>2 DEF TypeInv, TypeOK, Points
<1>4. JobPoints'
      BY <1>1, <1>2 DEF TypeInv, TypeOK, JobPoints
<1>5. TaskTypes
      BY <1>3, <1>4 DEF TaskTypes, Start, TypeInv, TypeOK
<1>6. LockTypes
      BY <1>1, AcquireType, LockSame DEF TypeInv
<1>7. RestTypes
      BY PortAssumption DEF RestTypes, Start, TypeInv, TypeOK, portVars, wireVars
<1> QED  BY <1>5, <1>6, <1>7, TypesCompose

LEMMA TypeRefuse ==
    ASSUME TypeInv, NEW t \in Task, RefuseCall(t)
    PROVE  TypeInv'
<1> DEFINE c == Head(todo[t])
<1>1. /\ call' = [call EXCEPT ![t] = c]
      /\ EndCall(t, [end |-> "refused", of |-> c], Tail(todo[t]))
      BY DEF RefuseCall
<1>2. c \in Call /\ Tail(todo[t]) \in Seq(Call)
      BY HeadCall DEF RefuseCall
<1>3. [end |-> "refused", of |-> c] \in Result
      BY <1>2 DEF Result, Failure
<1>4. TaskTypes /\ LockTypes
      BY <1>1, <1>2, <1>3, EndCallType
<1>5. RestTypes
      BY <1>1, <1>2 DEF RestTypes, RefuseCall, TypeInv, TypeOK, portVars, wireVars
<1> QED  BY <1>4, <1>5, TypesCompose

LEMMA TypeBegin ==
    ASSUME TypeInv, NEW t \in Task, BeginCall(t)
    PROVE  TypeInv'
<1>1. Head(todo[t]) \in Call /\ Tail(todo[t]) \in Seq(Call)
      BY HeadCall DEF BeginCall
<1>2. todo' = [todo EXCEPT ![t] = Tail(todo[t])]
      BY DEF BeginCall
<1>3. PICK x \in {"send", "lock"} : pc' = [pc EXCEPT ![t] = x]
      BY DEF BeginCall
<1>4. TaskTypes
      BY <1>1, <1>2, <1>3
      DEF BeginCall, TaskTypes, JobPoints, TypeInv, TypeOK, Points
<1>5. LockTypes
      BY AcquireType, LockSame DEF BeginCall, TypeInv
<1>6. RestTypes
      BY <1>1 DEF RestTypes, BeginCall, TypeInv, TypeOK, portVars, wireVars
<1> QED  BY <1>4, <1>5, <1>6, TypesCompose

LEMMA TypeReceive ==
    ASSUME TypeInv, NEW t \in Task, Receive(t)
    PROVE  TypeInv'
<1> DEFINE res == Decode(Head(inbuf), call[t])
<1>1. inbuf \in Seq(Reply) /\ inbuf # <<>> /\ inbuf' = Tail(inbuf)
      BY DEF Receive, TakeFrame, TypeInv, TypeOK
<1>2. Head(inbuf) \in Reply /\ inbuf' \in Seq(Reply)
      BY <1>1, HeadTailProperties
<1>3. call[t] \in Call /\ todo[t] \in Seq(Call)
      BY DEF TypeInv, TypeOK
<1>4. res \in Result
      BY <1>2, <1>3, DecodeType
<1>5. EndCall(t, res, todo[t]) /\ avail' = Availability(res, call[t])
      BY DEF Receive
<1> HIDE DEF res
<1>6. TaskTypes /\ LockTypes
      BY <1>3, <1>4, <1>5, EndCallType
<1>7. avail' \in [Device -> [Key -> {"unknown", "supported", "unsupported"}]]
      BY <1>3, <1>5, AvailabilityType DEF TypeInv
<1>8. RestTypes
      BY <1>2, <1>7 DEF RestTypes, Receive, TypeInv, TypeOK, portVars
<1> QED  BY <1>6, <1>8, TypesCompose

LEMMA TypeCancel ==
    ASSUME TypeInv, NEW t \in Task, Cancel(t)
    PROVE  TypeInv'
<1>1. call[t] \in Call
      BY DEF TypeInv, TypeOK
<1>2. [end |-> "cancelled", of |-> call[t]] \in Result
      BY <1>1 DEF Result, Failure
<1>3. TaskTypes
      BY <1>2, EmptySeq DEF Cancel, TaskTypes, JobPoints, TypeInv, TypeOK, Points
<1>4. LockTypes
      BY ReleaseType, LeaveQueueType DEF Cancel, TypeInv
<1>5. RestTypes
      BY DEF RestTypes, Cancel, TypeInv, TypeOK, portVars, wireVars
<1> QED  BY <1>3, <1>4, <1>5, TypesCompose

LEMMA TypeSend ==
    ASSUME TypeInv, NEW t \in Task, Send(t)
    PROVE  TypeInv'
<1>1. pending \in Seq(Call) /\ call[t] \in Call
      BY DEF TypeInv, TypeOK
<1>2. pending' \in Seq(Call)
      BY <1>1, AppendAt DEF Send
<1>3. TaskTypes
      BY MoveType DEF Send, Points
<1>4. LockTypes
      BY LockSame DEF Send
<1>5. RestTypes
      BY <1>2 DEF RestTypes, Send, TypeInv, TypeOK, portVars
<1> QED  BY <1>3, <1>4, <1>5, TypesCompose

\* Enter and TakeLock: the task goes on with the lock in hand.
LEMMA TypeTaken ==
    ASSUME TypeInv, NEW t \in Task, Enter(t) \/ TakeLock(t)
    PROVE  TypeInv'
<1>1. TaskTypes
      BY DEF Enter, TakeLock, TaskTypes, JobPoints, TypeInv, TypeOK, Points
<1>2. LockTypes
      BY LockSame DEF Enter, TakeLock
<1>3. RestTypes
      BY DEF RestTypes, Enter, TakeLock, TypeInv, TypeOK, portVars, wireVars
<1> QED  BY <1>1, <1>2, <1>3, TypesCompose

LEMMA TypeFail ==
    ASSUME TypeInv, NEW t \in Task,
           \/ SendFails(t) \/ ReadFails(t)
           \/ \E why \in {"timeout", "transport", "frame"} : GiveUp(t, why)
    PROVE  TypeInv'
<1>1. PICK why \in Failure : Fail(t, why)
      BY DEF SendFails, ReadFails, GiveUp, Failure
<1>2. TaskTypes /\ LockTypes
      BY <1>1, FailType
<1>3. RestTypes
      BY DEF RestTypes, SendFails, ReadFails, GiveUp, TypeInv, TypeOK, portVars, wireVars
<1> QED  BY <1>2, <1>3, TypesCompose

LEMMA TypeSegment ==
    ASSUME TypeInv, NEW i \in 1..Len(pending), Segment(i)
    PROVE  TypeInv'
<1>1. pending \in Seq(Call) /\ inbuf \in Seq(Reply)
      BY DEF TypeInv, TypeOK
<1>2. pending' \in Seq(Call)
      BY <1>1, WithoutProperties DEF Segment, Lose, Answer
<1>3. pending[i] \in Call
      BY <1>1, ElementOfSeq
<1>4. ASSUME NEW damaged \in BOOLEAN
      PROVE  [body |-> IF damaged THEN "garbled" ELSE Body[pending[i]],
              call |-> pending[i]] \in Reply
      BY <1>3, PortAssumption DEF Reply
<1>5. inbuf' \in Seq(Reply)
  <2>1. CASE Lose(i)
        BY <2>1, <1>1 DEF Lose
  <2>2. ASSUME NEW damaged \in BOOLEAN, Answer(i, damaged)
        PROVE  inbuf' \in Seq(Reply)
    <3> DEFINE r == [body |-> IF damaged THEN "garbled" ELSE Body[pending[i]],
                     call |-> pending[i]]
    <3>1. inbuf' = IF open THEN Append(inbuf, r) ELSE inbuf
          BY <2>2 DEF Answer
    <3>2. r \in Reply
          BY <1>4
    <3> HIDE DEF r
    <3>3. Append(inbuf, r) \in Seq(Reply)
          BY <1>1, <3>2, AppendAt
    <3> QED  BY <1>1, <3>1, <3>3
  <2> QED  BY <2>1, <2>2 DEF Segment
<1>6. UNCHANGED <<taskVars, lockVars, avail, portVars, abandoned, started>>
      BY DEF Segment, Lose, Answer
<1>7. TaskTypes /\ LockTypes
      BY <1>6, TaskSame, LockSame DEF taskVars
<1>8. RestTypes
      BY <1>2, <1>5, <1>6 DEF RestTypes, TypeInv, TypeOK, taskVars, portVars
<1> QED  BY <1>7, <1>8, TypesCompose

LEMMA TypePort ==
    ASSUME TypeInv, Dispose \/ CloseTransport
    PROVE  TypeInv'
<1>1. inbuf' \in Seq(Reply)
      BY EmptySeq DEF Dispose, CloseTransport, TypeInv, TypeOK, wireVars
<1>2. TaskTypes /\ LockTypes
      BY TaskSame, LockSame DEF Dispose, CloseTransport, taskVars
<1>3. RestTypes
      BY <1>1 DEF RestTypes, Dispose, CloseTransport, TypeInv, TypeOK, taskVars, wireVars
<1> QED  BY <1>2, <1>3, TypesCompose

LEMMA TypeStutter ==
    ASSUME TypeInv, UNCHANGED vars
    PROVE  TypeInv'
BY DEF vars, taskVars, lockVars, portVars, wireVars, TypeInv, TypeOK, JobPoints

LEMMA TypeStep == TypeInv /\ [Next]_vars => TypeInv'
<1> SUFFICES ASSUME TypeInv, [Next]_vars PROVE TypeInv'
    OBVIOUS
<1>1. ASSUME NEW t \in Task, TaskStep(t) PROVE TypeInv'
      BY <1>1, TypeStart, TypeTaken, TypeRefuse, TypeBegin, TypeSend, TypeFail,
         TypeReceive, TypeCancel DEF TaskStep
<1>2. ASSUME NEW i \in 1..Len(pending), Segment(i) PROVE TypeInv'
      BY <1>2, TypeSegment
<1> QED  BY <1>1, <1>2, TypePort, TypeStutter DEF Next

\* Every variable keeps its type, and a task that is about to make a call
\* always has one left: Head(todo) in RefuseCall and BeginCall is defined.
THEOREM TypeSafety == Spec => []TypeOK
<1>1. TypeInv => TypeOK
      BY DEF TypeInv
<1> QED  BY <1>1, TypeInit, TypeStep, PTL DEF Spec

-----------------------------------------------------------------------------
(***************************************************************************)
(* The lock                                                                *)
(***************************************************************************)

LockInv == TypeInv /\ LockDiscipline

Waiting(t) == pc[t] \in {"enter", "lock"}

\* A step that moves no task but t.
OnlyMoves(t) == \A u \in Task \ {t} : pc'[u] = pc[u] /\ job'[u] = job[u]

\* The lock is left as it is by a task that does not queue for it, and that
\* holds it afterwards if and only if it owns it.
LEMMA LockKept ==
    ASSUME LockInv, NEW t \in Task, OnlyMoves(t), UNCHANGED lockVars,
           Waiting(t) => owner = t, ~Waiting(t)', Holding(t)' <=> owner = t
    PROVE  LockDiscipline'
<1>1. /\ waiters' = waiters /\ owner' = owner
      /\ owner \in Task \cup {Nobody} /\ Nobody \notin Task
      BY PortAssumption DEF lockVars, LockInv, TypeInv, TypeOK
<1>2. \A i \in 1..Len(waiters) : waiters[i] \in Task /\ waiters[i] # t
      BY ElementOfSeq DEF LockInv, LockDiscipline, TypeInv, TypeOK, Waiting
<1>3. \A u \in Task \ {t} : (Holding(u)' <=> Holding(u)) /\ (Waiting(u)' <=> Waiting(u))
      BY DEF OnlyMoves, Holding, Waiting
<1>4. \A u \in Task : Holding(u)' => owner' = u
      BY <1>1, <1>3 DEF LockInv, LockDiscipline
<1>5. owner' # Nobody => Holding(owner)' \/ Waiting(owner)'
  <2>1. CASE owner = t
        BY <2>1, <1>1 DEF Holding
  <2>2. CASE owner # t
        BY <2>2, <1>1, <1>3 DEF LockInv, LockDiscipline, Holding, Waiting
  <2> QED  BY <2>1, <2>2
<1>6. \A u \in Task : Waiting(u)' =>
         owner' = u \/ \E i \in 1..Len(waiters') : waiters'[i] = u
      BY <1>1, <1>3 DEF LockInv, LockDiscipline, Waiting
<1>7. \A i \in 1..Len(waiters') :
         /\ Waiting(waiters[i])'
         /\ waiters'[i] # owner'
         /\ \A k \in 1..Len(waiters') : waiters'[k] = waiters'[i] => k = i
      BY <1>1, <1>2, <1>3 DEF LockInv, LockDiscipline, Waiting
<1>8. owner' = Nobody => waiters' = <<>>
      BY <1>1 DEF LockInv, LockDiscipline
<1> QED  BY <1>1, <1>4, <1>5, <1>6, <1>7, <1>8 DEF LockDiscipline, Waiting

\* A task that has nothing to do with the lock asks for it.
LEMMA LockAsked ==
    ASSUME LockInv, NEW t \in Task, OnlyMoves(t), Acquire(t),
           ~Waiting(t), ~Holding(t), Waiting(t)', ~Holding(t)'
    PROVE  LockDiscipline'
<1>1. /\ owner \in Task \cup {Nobody} /\ Nobody \notin Task
      /\ waiters \in Seq(Task) /\ Len(waiters) \in Nat
      BY PortAssumption, LenProperties DEF LockInv, TypeInv, TypeOK
<1>2. owner # t
      BY <1>1 DEF LockInv, LockDiscipline, Waiting
<1>3. \A i \in 1..Len(waiters) : waiters[i] \in Task /\ waiters[i] # t
      BY <1>1, ElementOfSeq DEF LockInv, LockDiscipline, Waiting
<1>4. \A u \in Task \ {t} : (Holding(u)' <=> Holding(u)) /\ (Waiting(u)' <=> Waiting(u))
      BY DEF OnlyMoves, Holding, Waiting
<1>5. CASE owner = Nobody
  <2>1. owner' = t /\ waiters' = <<>> /\ waiters = <<>>
        BY <1>5 DEF Acquire, LockInv, LockDiscipline
  <2>2. \A u \in Task \ {t} : ~Holding(u)' /\ ~Waiting(u)'
        BY <1>1, <1>4, <1>5, <2>1 DEF LockInv, LockDiscipline, Waiting
  <2> QED  BY <1>1, <2>1, <2>2 DEF LockDiscipline, Waiting
<1>6. CASE owner # Nobody
  <2>1. owner' = owner /\ waiters' = Append(waiters, t)
        BY <1>6 DEF Acquire
  <2>2. /\ Len(waiters') = Len(waiters) + 1
        /\ waiters'[Len(waiters) + 1] = t
        /\ \A i \in 1..Len(waiters) : waiters'[i] = waiters[i]
        BY <1>1, <2>1, AppendAt
  <2>3. \A u \in Task : Holding(u)' => owner' = u
        BY <1>4, <2>1 DEF LockInv, LockDiscipline
  <2>4. Holding(owner)' \/ Waiting(owner)'
        BY <1>1, <1>2, <1>4, <1>6, <2>1 DEF LockInv, LockDiscipline, Holding, Waiting
  <2>5. ASSUME NEW u \in Task, Waiting(u)'
        PROVE  owner' = u \/ \E i \in 1..Len(waiters') : waiters'[i] = u
    <3>1. CASE u = t
          BY <3>1, <1>1, <2>2
    <3>2. CASE u # t
      <4>1. owner = u \/ \E i \in 1..Len(waiters) : waiters[i] = u
            BY <2>5, <3>2, <1>4 DEF LockInv, LockDiscipline, Waiting
      <4> QED  BY <4>1, <1>1, <2>1, <2>2
    <3> QED  BY <3>1, <3>2
  <2>6. ASSUME NEW i \in 1..Len(waiters')
        PROVE  /\ Waiting(waiters[i])'
               /\ waiters'[i] # owner'
               /\ \A k \in 1..Len(waiters') : waiters'[k] = waiters'[i] => k = i
    <3>1. CASE i = Len(waiters) + 1
          BY <3>1, <1>1, <1>2, <1>3, <2>1, <2>2 DEF Waiting
    <3>2. CASE i \in 1..Len(waiters)
      <4>1. /\ Waiting(waiters[i]) /\ waiters[i] # owner
            /\ \A k \in 1..Len(waiters) : waiters[k] = waiters[i] => k = i
            BY <3>2 DEF LockInv, LockDiscipline, Waiting
      <4>2. waiters[i] \in Task \ {t} /\ waiters'[i] = waiters[i]
            BY <3>2, <1>3, <2>2
      <4>3. Waiting(waiters[i])'
            BY <4>1, <4>2, <1>4 DEF Waiting
      <4>4. \A k \in 1..Len(waiters') : waiters'[k] = waiters'[i] => k = i
            BY <4>1, <4>2, <1>1, <2>2
      <4> QED  BY <4>1, <4>2, <4>3, <4>4, <2>1
    <3> QED  BY <3>1, <3>2, <1>1, <2>2
  <2> QED  BY <1>6, <2>1, <2>3, <2>4, <2>5, <2>6 DEF LockDiscipline, Waiting
<1> QED  BY <1>5, <1>6

\* The owner gives the lock to the first waiter, or leaves it free.
LEMMA LockGiven ==
    ASSUME LockInv, NEW t \in Task, OnlyMoves(t), Release,
           owner = t, ~Holding(t)', ~Waiting(t)'
    PROVE  LockDiscipline'
<1>1. /\ Nobody \notin Task
      /\ waiters \in Seq(Task) /\ Len(waiters) \in Nat
      BY PortAssumption, LenProperties DEF LockInv, TypeInv, TypeOK
<1>2. \A u \in Task \ {t} : (Holding(u)' <=> Holding(u)) /\ (Waiting(u)' <=> Waiting(u))
      BY DEF OnlyMoves, Holding, Waiting
<1>3. \A u \in Task : ~Holding(u)'
      BY <1>2 DEF LockInv, LockDiscipline
<1>4. CASE waiters = <<>>
  <2>1. owner' = Nobody /\ waiters' = <<>>
        BY <1>4 DEF Release
  <2>2. \A u \in Task : ~Waiting(u)'
        BY <1>2, <1>4 DEF LockInv, LockDiscipline, Waiting
  <2> QED  BY <1>1, <1>3, <2>1, <2>2 DEF LockDiscipline, Waiting
<1>5. CASE waiters # <<>>
  <2>1. owner' = Head(waiters) /\ waiters' = Tail(waiters)
        BY <1>5 DEF Release
  <2>2. /\ Len(waiters) # 0
        /\ Head(waiters) = waiters[1]
        /\ Len(waiters') = Len(waiters) - 1
        /\ \A i \in 1..Len(waiters') : waiters'[i] = waiters[i + 1]
        BY <1>1, <1>5, <2>1, HeadTailProperties, EmptySeq
  <2>3. \A i \in 1..Len(waiters) :
           /\ waiters[i] \in Task \ {t}
           /\ Waiting(waiters[i])
           /\ \A k \in 1..Len(waiters) : waiters[k] = waiters[i] => k = i
        BY <1>1, ElementOfSeq DEF LockInv, LockDiscipline, Waiting
  <2>4. owner' = waiters[1] /\ owner' \in Task \ {t} /\ Waiting(owner)'
    <3>1. 1 \in 1..Len(waiters)
          BY <1>1, <2>2
    <3>2. waiters[1] \in Task \ {t} /\ Waiting(waiters[1])
          BY <3>1, <2>3
    <3> QED  BY <3>2, <1>2, <2>1, <2>2 DEF Waiting
  <2>5. ASSUME NEW u \in Task, Waiting(u)'
        PROVE  owner' = u \/ \E i \in 1..Len(waiters') : waiters'[i] = u
    <3>1. u # t
          BY <2>5
    <3>2. PICK i \in 1..Len(waiters) : waiters[i] = u
          BY <2>5, <3>1, <1>2 DEF LockInv, LockDiscipline, Waiting
    <3>3. CASE i = 1
          BY <3>2, <3>3, <2>4
    <3>4. CASE i # 1
      <4>1. i - 1 \in 1..Len(waiters') /\ waiters'[i - 1] = u
            BY <3>2, <3>4, <1>1, <2>2
      <4> QED  BY <4>1
    <3> QED  BY <3>3, <3>4
  <2>6. ASSUME NEW i \in 1..Len(waiters')
        PROVE  /\ Waiting(waiters[i])'
               /\ waiters'[i] # owner'
               /\ \A k \in 1..Len(waiters') : waiters'[k] = waiters'[i] => k = i
    <3>1. i + 1 \in 1..Len(waiters) /\ 1 \in 1..Len(waiters) /\ i + 1 # 1
          BY <1>1, <2>2
    <3>2. waiters'[i] = waiters[i + 1]
          BY <2>2
    <3>3. Waiting(waiters[i])'
          BY <3>1, <3>2, <2>3, <1>2 DEF Waiting
    <3>4. waiters'[i] # owner'
          BY <3>1, <3>2, <2>3, <2>4
    <3>5. ASSUME NEW k \in 1..Len(waiters'), waiters'[k] = waiters'[i]
          PROVE  k = i
      <4>1. k + 1 \in 1..Len(waiters) /\ waiters[k + 1] = waiters[i + 1]
            BY <3>2, <3>5, <1>1, <2>2
      <4>2. k + 1 = i + 1
            BY <3>1, <4>1, <2>3
      <4> QED  BY <4>2, <1>1, <2>2
    <3> QED  BY <3>3, <3>4, <3>5
  <2> QED  BY <1>1, <1>3, <2>4, <2>5, <2>6 DEF LockDiscipline, Waiting
<1> QED  BY <1>4, <1>5

\* A waiter is cancelled and leaves the queue, wherever it stands in it.
LEMMA LockLeft ==
    ASSUME LockInv, NEW t \in Task, OnlyMoves(t), LeaveQueue(t),
           owner # t, ~Holding(t)', ~Waiting(t)'
    PROVE  LockDiscipline'
<1>1. /\ waiters \in Seq(Task) /\ Len(waiters) \in Nat
      /\ owner \in Task \cup {Nobody}
      BY LenProperties DEF LockInv, TypeInv, TypeOK
<1>2. \A u \in Task \ {t} : (Holding(u)' <=> Holding(u)) /\ (Waiting(u)' <=> Waiting(u))
      BY DEF OnlyMoves, Holding, Waiting
<1>3. PICK i \in 1..Len(waiters) :
         waiters[i] = t /\ waiters' = Without(waiters, i) /\ owner' = owner
      BY DEF LeaveQueue
<1>4. /\ Len(waiters') = Len(waiters) - 1
      /\ \A k \in 1..Len(waiters') :
            waiters'[k] = IF k < i THEN waiters[k] ELSE waiters[k + 1]
      BY <1>1, <1>3, WithoutProperties
<1>5. \A k \in 1..Len(waiters) :
         /\ waiters[k] \in Task
         /\ Waiting(waiters[k])
         /\ waiters[k] # owner
         /\ \A l \in 1..Len(waiters) : waiters[l] = waiters[k] => l = k
      BY <1>1, ElementOfSeq DEF LockInv, LockDiscipline, Waiting
<1>6. owner # Nobody
      BY <1>1, <1>3, EmptySeq DEF LockInv, LockDiscipline
<1>7. \A u \in Task : Holding(u)' => owner' = u
      BY <1>2, <1>3 DEF LockInv, LockDiscipline
<1>8. Holding(owner)' \/ Waiting(owner)'
      BY <1>1, <1>2, <1>3, <1>6 DEF LockInv, LockDiscipline, Holding, Waiting
\* Where the waiter at place k of the shorter queue stood.
<1> DEFINE from(k) == IF k < i THEN k ELSE k + 1
<1>9. \A k \in 1..Len(waiters') :
         /\ from(k) \in 1..Len(waiters) /\ from(k) # i
         /\ waiters'[k] = waiters[from(k)]
      BY <1>1, <1>3, <1>4
<1>10. ASSUME NEW u \in Task, Waiting(u)'
       PROVE  owner' = u \/ \E k \in 1..Len(waiters') : waiters'[k] = u
  <2>1. u # t
        BY <1>10
  <2>2. owner = u \/ \E k \in 1..Len(waiters) : waiters[k] = u
        BY <1>10, <2>1, <1>2 DEF LockInv, LockDiscipline, Waiting
  <2>3. ASSUME NEW k \in 1..Len(waiters), waiters[k] = u
        PROVE  \E l \in 1..Len(waiters') : waiters'[l] = u
    <3>1. k # i
          BY <2>1, <2>3, <1>3
    <3>2. CASE k < i
          BY <2>3, <3>2, <1>1, <1>3, <1>4
    <3>3. CASE k > i
      <4>1. k - 1 \in 1..Len(waiters') /\ waiters'[k - 1] = u
            BY <2>3, <3>3, <1>1, <1>3, <1>4
      <4> QED  BY <4>1
    <3> QED  BY <3>1, <3>2, <3>3, <1>1
  <2> QED  BY <2>2, <2>3, <1>3
<1>11. ASSUME NEW k \in 1..Len(waiters')
       PROVE  /\ Waiting(waiters[k])'
              /\ waiters'[k] # owner'
              /\ \A l \in 1..Len(waiters') : waiters'[l] = waiters'[k] => l = k
  <2>1. waiters'[k] \in Task \ {t}
        BY <1>3, <1>5, <1>9
  <2>2. Waiting(waiters[k])'
        BY <2>1, <1>2, <1>5, <1>9 DEF Waiting
  <2>3. waiters'[k] # owner'
        BY <1>3, <1>5, <1>9
  <2>4. ASSUME NEW l \in 1..Len(waiters'), waiters'[l] = waiters'[k]
        PROVE  l = k
    <3>1. from(l) = from(k)
          BY <2>4, <1>5, <1>9
    <3> QED  BY <3>1, <1>1, <1>4
  <2> QED  BY <2>2, <2>3, <2>4
<1> QED  BY <1>3, <1>6, <1>7, <1>8, <1>10, <1>11 DEF LockDiscipline, Waiting

\* A task that neither holds the lock nor waits for it does not own it.
LEMMA NotOwner ==
    ASSUME LockInv, NEW t \in Task, ~Holding(t), ~Waiting(t)
    PROVE  owner # t
BY PortAssumption DEF LockInv, LockDiscipline, Waiting

LEMMA LockEndCall ==
    ASSUME LockInv, NEW t \in Task, NEW res, NEW rest, EndCall(t, res, rest),
           pc[t] \in {"call", "send", "io"}
    PROVE  LockDiscipline'
<1> DEFINE last == rest = <<>> \/ (res.end # "ok" /\ ~job[t].skip)
<1>1. /\ pc' = [pc EXCEPT ![t] = IF last THEN "idle" ELSE "call"]
      /\ IF GivesBack(t, last) THEN Release ELSE UNCHANGED lockVars
      /\ job' = job
      BY DEF EndCall
<1> HIDE DEF last
<1>2. pc \in [Task -> Points]
      BY DEF LockInv, TypeInv, TypeOK
<1>3. OnlyMoves(t) /\ ~Waiting(t)' /\ ~Waiting(t)
      BY <1>1, <1>2 DEF OnlyMoves, Waiting
<1>4. Holding(t)' <=> ~last /\ job[t].hold
      BY <1>1, <1>2 DEF Holding
<1>5. CASE GivesBack(t, last)
      BY <1>1, <1>3, <1>4, <1>5, LockGiven DEF GivesBack
<1>6. CASE ~GivesBack(t, last)
  <2>1. UNCHANGED lockVars
        BY <1>1, <1>6
  <2>2. CASE owner = t
    <3>1. Holding(t)'
          BY <1>4, <1>6, <2>2 DEF GivesBack
    <3> QED  BY <1>3, <2>1, <2>2, <3>1, LockKept
  <2>3. CASE owner # t
    <3>1. ~Holding(t)
          BY <2>3 DEF LockInv, LockDiscipline
    <3>2. ~Holding(t)'
          BY <1>4, <3>1 DEF Holding
    <3> QED  BY <1>3, <2>1, <2>3, <3>2, LockKept
  <2> QED  BY <2>2, <2>3
<1> QED  BY <1>5, <1>6

LEMMA LockStart ==
    ASSUME LockInv, NEW t \in Task, Start(t)
    PROVE  LockDiscipline'
<1>1. PICK j \in Jobs :
         /\ job' = [job EXCEPT ![t] = j]
         /\ IF j.hold
            THEN pc' = [pc EXCEPT ![t] = "enter"] /\ Acquire(t)
            ELSE pc' = [pc EXCEPT ![t] = "call"] /\ UNCHANGED lockVars
      BY DEF Start
<1>2. /\ pc \in [Task -> Points] /\ job \in [Task -> Jobs]
      /\ pc[t] = "idle"
      BY DEF Start, LockInv, TypeInv, TypeOK
<1>3. OnlyMoves(t) /\ ~Waiting(t) /\ ~Holding(t)
      BY <1>1, <1>2 DEF OnlyMoves, Waiting, Holding
<1>4. CASE j.hold
  <2>1. Waiting(t)' /\ ~Holding(t)' /\ Acquire(t)
        BY <1>1, <1>2, <1>4 DEF Waiting, Holding
  <2> QED  BY <1>3, <2>1, LockAsked
<1>5. CASE ~j.hold
  <2>1. ~Waiting(t)' /\ ~Holding(t)' /\ UNCHANGED lockVars
        BY <1>1, <1>2, <1>5 DEF Waiting, Holding
  <2> QED  BY <1>3, <2>1, LockKept, NotOwner
<1> QED  BY <1>4, <1>5

LEMMA LockBegin ==
    ASSUME LockInv, NEW t \in Task, BeginCall(t)
    PROVE  LockDiscipline'
<1>1. /\ pc[t] = "call"
      /\ IF owner = t
         THEN pc' = [pc EXCEPT ![t] = "send"] /\ UNCHANGED lockVars
         ELSE pc' = [pc EXCEPT ![t] = "lock"] /\ Acquire(t)
      /\ job' = job
      BY DEF BeginCall, Reuses
<1>2. pc \in [Task -> Points]
      BY DEF LockInv, TypeInv, TypeOK
<1>3. OnlyMoves(t) /\ ~Waiting(t)
      BY <1>1, <1>2 DEF OnlyMoves, Waiting
<1>4. CASE owner = t
  <2>1. ~Waiting(t)' /\ Holding(t)' /\ UNCHANGED lockVars
        BY <1>1, <1>2, <1>4 DEF Waiting, Holding
  <2> QED  BY <1>3, <1>4, <2>1, LockKept
<1>5. CASE owner # t
  <2>1. Waiting(t)' /\ ~Holding(t)' /\ Acquire(t)
        BY <1>1, <1>2, <1>5 DEF Waiting, Holding
  <2>2. ~Holding(t)
        BY <1>5 DEF LockInv, LockDiscipline
  <2> QED  BY <1>3, <2>1, <2>2, LockAsked
<1> QED  BY <1>4, <1>5

\* Enter, TakeLock and Send: the owner goes on towards its request.
LEMMA LockUsed ==
    ASSUME LockInv, NEW t \in Task, Enter(t) \/ TakeLock(t) \/ Send(t)
    PROVE  LockDiscipline'
<1>1. pc \in [Task -> Points]
      BY DEF LockInv, TypeInv, TypeOK
<1>2. UNCHANGED <<job, lockVars>>
      BY DEF Enter, TakeLock, Send
<1>3. OnlyMoves(t)
      BY <1>1 DEF OnlyMoves, Enter, TakeLock, Send
<1>4. owner = t
      BY DEF Enter, TakeLock, Send, Holding, LockInv, LockDiscipline
<1>5. ~Waiting(t)'
      BY <1>1 DEF Waiting, Enter, TakeLock, Send
<1>6. Holding(t)'
  <2>1. CASE Enter(t)
    <3>1. pc[t] = "enter" /\ pc'[t] = "call"
          BY <2>1, <1>1 DEF Enter
    <3>2. job[t].hold
          BY <3>1 DEF LockInv, TypeInv, JobPoints
    <3> QED  BY <3>1, <3>2, <1>2 DEF Holding
  <2>2. CASE TakeLock(t) \/ Send(t)
        BY <2>2, <1>1 DEF TakeLock, Send, Holding
  <2> QED  BY <2>1, <2>2
<1> QED  BY <1>2, <1>3, <1>4, <1>5, <1>6, LockKept

\* Any end of a call by an error.
LEMMA LockFail ==
    ASSUME LockInv, NEW t \in Task,
           \/ SendFails(t) \/ ReadFails(t)
           \/ \E why \in {"timeout", "transport", "frame"} : GiveUp(t, why)
    PROVE  LockDiscipline'
<1>1. PICK why : Fail(t, why)
      BY DEF SendFails, ReadFails, GiveUp
<1>2. pc[t] \in {"call", "send", "io"}
      BY DEF SendFails, ReadFails, GiveUp
<1> QED  BY <1>1, <1>2, LockEndCall DEF Fail

LEMMA LockAnswered ==
    ASSUME LockInv, NEW t \in Task, RefuseCall(t) \/ Receive(t)
    PROVE  LockDiscipline'
<1>1. PICK res, rest : EndCall(t, res, rest)
      BY DEF RefuseCall, Receive
<1>2. pc[t] \in {"call", "send", "io"}
      BY DEF RefuseCall, Receive
<1> QED  BY <1>1, <1>2, LockEndCall

LEMMA LockCancel ==
    ASSUME LockInv, NEW t \in Task, Cancel(t)
    PROVE  LockDiscipline'
<1>1. pc \in [Task -> Points]
      BY DEF LockInv, TypeInv, TypeOK
<1>2. OnlyMoves(t) /\ ~Waiting(t)' /\ ~Holding(t)'
      BY <1>1 DEF Cancel, OnlyMoves, Waiting, Holding
<1>3. CASE owner = t
      BY <1>2, <1>3, LockGiven DEF Cancel
<1>4. CASE owner # t
      BY <1>2, <1>4, LockLeft DEF Cancel
<1> QED  BY <1>3, <1>4

LEMMA LockUntouched ==
    ASSUME LockInv, UNCHANGED <<taskVars, lockVars>>
    PROVE  LockDiscipline'
BY DEF LockInv, LockDiscipline, Holding, taskVars, lockVars

LEMMA LockInit == Init => LockDiscipline
BY DEF Init, LockDiscipline, Holding

LEMMA LockStep == LockInv /\ [Next]_vars => LockInv'
<1> SUFFICES ASSUME LockInv, [Next]_vars PROVE LockDiscipline'
    BY TypeStep DEF LockInv
<1>1. ASSUME NEW t \in Task, TaskStep(t) PROVE LockDiscipline'
      BY <1>1, LockStart, LockUsed, LockAnswered, LockBegin, LockFail, LockCancel
      DEF TaskStep
<1>2. ASSUME NEW i \in 1..Len(pending), Segment(i) PROVE LockDiscipline'
      BY <1>2, LockUntouched DEF Segment, Lose, Answer
<1>3. ASSUME Dispose \/ CloseTransport PROVE LockDiscipline'
      BY <1>3, LockUntouched DEF Dispose, CloseTransport
<1>4. ASSUME UNCHANGED vars PROVE LockDiscipline'
      BY <1>4, LockUntouched DEF vars
<1> QED  BY <1>1, <1>2, <1>3, <1>4 DEF Next

\* The port's lock is neither leaked nor shared, for any number of tasks and
\* any jobs: who is between taking it and giving it back owns it, and who owns
\* it, or is queued for it, is on its way to using it (Session.execute and
\* maybe_acquire, with cancellation at every await).
THEOREM LockSafety == Spec => []LockDiscipline
<1>1. Init => LockInv
      BY TypeInit, LockInit DEF LockInv
<1>2. LockInv => LockDiscipline
      BY DEF LockInv
<1> QED  BY <1>1, <1>2, LockStep, PTL DEF Spec

-----------------------------------------------------------------------------
(***************************************************************************)
(* Batches                                                                 *)
(***************************************************************************)

\* At most one task has a request on the wire.
LEMMA OneExchange ==
    ASSUME LockInv, NEW t \in Task, NEW u \in Task, pc[t] = "io", pc[u] = "io"
    PROVE  t = u
BY DEF LockInv, LockDiscipline, Holding

LEMMA BatchStep ==
    LockInv /\ [Next]_vars =>
        \A t \in Task : job[t].hold /\ pc[t] \in {"call", "send", "io"} =>
            \A u \in Task \ {t} : ~(pc[u] = "send" /\ pc'[u] = "io")
<1> SUFFICES ASSUME LockInv, [Next]_vars,
                    NEW t \in Task, job[t].hold, pc[t] \in {"call", "send", "io"},
                    NEW u \in Task \ {t}, pc[u] = "send", pc'[u] = "io"
             PROVE  FALSE
    OBVIOUS
<1>1. owner = t
      BY DEF LockInv, LockDiscipline, Holding
<1>2. owner = u
      BY DEF LockInv, LockDiscipline, Holding
<1> QED  BY <1>1, <1>2

\* No request goes out between two calls of a held batch but the batch's own,
\* for any tasks and any jobs: poll_controller's promise that a queued writer
\* cannot land between two of its reads.
THEOREM BatchSafety == Spec => BatchIsolation
<1>1. Init => LockInv
      BY TypeInit, LockInit DEF LockInv
<1>2. LockInv /\ [Next]_vars =>
         [\A t \in Task : job[t].hold /\ pc[t] \in {"call", "send", "io"} =>
             \A u \in Task \ {t} : ~(pc[u] = "send" /\ pc'[u] = "io")]_vars
      BY BatchStep
<1> QED  BY <1>1, <1>2, LockStep, PTL DEF Spec, BatchIsolation

-----------------------------------------------------------------------------
(***************************************************************************)
(* What is owed on the wire                                                *)
(***************************************************************************)

OnWire == IF \E t \in Task : pc[t] = "io" THEN 1 ELSE 0

OwedInv == LockInv /\ OwedReplies

LEMMA WireLengths ==
    ASSUME TypeInv
    PROVE  Len(pending) \in Nat /\ Len(inbuf) \in Nat /\ abandoned \in Nat
BY LenProperties DEF TypeInv, TypeOK

\* Ending a call whose task is not on the wire changes nobody who is.
LEMMA OffWire ==
    ASSUME TypeInv, NEW t \in Task, NEW x, x # "io", pc[t] # "io",
           pc' = [pc EXCEPT ![t] = x]
    PROVE  OnWire' = OnWire
<1>1. \A u \in Task : pc'[u] = "io" <=> pc[u] = "io"
      BY DEF TypeInv, TypeOK
<1> QED  BY <1>1 DEF OnWire

\* The one task on the wire leaves it.
LEMMA LeavesWire ==
    ASSUME LockInv, NEW t \in Task, NEW x, x # "io", pc[t] = "io",
           pc' = [pc EXCEPT ![t] = x]
    PROVE  OnWire = 1 /\ OnWire' = 0
<1>1. \A u \in Task : pc'[u] # "io"
      BY OneExchange DEF LockInv, TypeInv, TypeOK
<1> QED  BY <1>1 DEF OnWire

LEMMA EndsAt ==
    ASSUME NEW t, NEW res, NEW rest, EndCall(t, res, rest)
    PROVE  \E x \in {"idle", "call"} : pc' = [pc EXCEPT ![t] = x]
BY DEF EndCall

LEMMA OwedStep ==
    ASSUME OwedInv, [Next]_vars
    PROVE  OwedReplies'
<1>1. LockInv /\ TypeInv
      BY DEF OwedInv, LockInv
<1>2. Len(pending) \in Nat /\ Len(inbuf) \in Nat /\ abandoned \in Nat
      BY <1>1, WireLengths
<1>3. open => Len(pending) + Len(inbuf) <= abandoned + OnWire
      BY DEF OwedInv, OwedReplies, OnWire
<1>4. OnWire \in {0, 1}
      BY DEF OnWire
<1> SUFFICES ASSUME open'
             PROVE  Len(pending)' + Len(inbuf)' <= abandoned' + OnWire'
    BY DEF OwedReplies, OnWire
<1>5. ASSUME OnWire' = OnWire, open' = open, UNCHANGED <<wireVars, abandoned>>
      PROVE  Len(pending)' + Len(inbuf)' <= abandoned' + OnWire'
      BY <1>3, <1>5 DEF wireVars
<1>6. ASSUME NEW t \in Task,
             Start(t) \/ Enter(t) \/ BeginCall(t) \/ TakeLock(t)
      PROVE  Len(pending)' + Len(inbuf)' <= abandoned' + OnWire'
  <2>1. PICK x \in Points : x # "io" /\ pc' = [pc EXCEPT ![t] = x]
        BY <1>6 DEF Start, Enter, BeginCall, TakeLock, Points
  <2>2. pc[t] # "io"
        BY <1>6 DEF Start, Enter, BeginCall, TakeLock
  <2>3. OnWire' = OnWire
        BY <1>1, <2>1, <2>2, OffWire
  <2> QED  BY <1>5, <1>6, <2>3 DEF Start, Enter, BeginCall, TakeLock, portVars
<1>7. ASSUME NEW t \in Task, RefuseCall(t) \/ SendFails(t)
      PROVE  Len(pending)' + Len(inbuf)' <= abandoned' + OnWire'
  <2>1. PICK x \in {"idle", "call"} : pc' = [pc EXCEPT ![t] = x]
        BY <1>7, EndsAt DEF RefuseCall, SendFails, Fail
  <2>2. pc[t] # "io" /\ x # "io"
        BY <1>7 DEF RefuseCall, SendFails
  <2>3. OnWire' = OnWire
        BY <1>1, <2>1, <2>2, OffWire
  <2> QED  BY <1>5, <1>7, <2>3 DEF RefuseCall, SendFails, portVars
<1>8. ASSUME NEW t \in Task, Send(t)
      PROVE  Len(pending)' + Len(inbuf)' <= abandoned' + OnWire'
  <2>1. /\ pc[t] = "send" /\ pc' = [pc EXCEPT ![t] = "io"]
        /\ open /\ pending' = Append(pending, call[t])
        /\ UNCHANGED <<inbuf, abandoned>>
        BY <1>8 DEF Send
  <2>2. Len(pending)' = Len(pending) + 1
        BY <1>1, <2>1, AppendAt DEF TypeInv, TypeOK
  <2>3. \A u \in Task : pc[u] # "io"
        BY <1>1, <2>1 DEF LockInv, LockDiscipline, Holding
  <2>4. OnWire = 0 /\ OnWire' = 1
        BY <1>1, <2>1, <2>3 DEF OnWire, TypeInv, TypeOK
  <2> QED  BY <1>2, <1>3, <2>1, <2>2, <2>4
<1>9. ASSUME NEW t \in Task, Receive(t)
      PROVE  Len(pending)' + Len(inbuf)' <= abandoned' + OnWire'
  <2>1. /\ pc[t] = "io" /\ inbuf # <<>> /\ inbuf' = Tail(inbuf)
        /\ UNCHANGED <<open, pending, abandoned>>
        BY <1>9 DEF Receive, TakeFrame, portVars
  <2>2. Len(inbuf)' = Len(inbuf) - 1
        BY <1>1, <2>1, HeadTailProperties DEF TypeInv, TypeOK
  <2>3. PICK x \in {"idle", "call"} : pc' = [pc EXCEPT ![t] = x]
        BY <1>9, EndsAt DEF Receive
  <2>4. OnWire = 1 /\ OnWire' = 0
        BY <1>1, <2>1, <2>3, LeavesWire
  <2> QED  BY <1>2, <1>3, <2>1, <2>2, <2>4
<1>10. ASSUME NEW t \in Task, NEW why, GiveUp(t, why)
       PROVE  Len(pending)' + Len(inbuf)' <= abandoned' + OnWire'
  <2>1. PICK x \in {"idle", "call"} : pc' = [pc EXCEPT ![t] = x]
        BY <1>10, EndsAt DEF GiveUp, Fail
  <2>2. OnWire = 1 /\ OnWire' = 0
        BY <1>1, <1>10, <2>1, LeavesWire DEF GiveUp
  <2>3. UNCHANGED <<open, pending, inbuf>> /\ abandoned' = abandoned + 1
        BY <1>10 DEF GiveUp, portVars, wireVars
  <2> QED  BY <1>2, <1>3, <2>2, <2>3
<1>11. ASSUME NEW t \in Task, ReadFails(t) PROVE FALSE
       BY <1>11 DEF ReadFails, portVars
<1>12. ASSUME NEW t \in Task, Cancel(t)
       PROVE  Len(pending)' + Len(inbuf)' <= abandoned' + OnWire'
  <2>1. pc' = [pc EXCEPT ![t] = "idle"] /\ UNCHANGED <<open, pending, inbuf>>
        BY <1>12 DEF Cancel, portVars, wireVars
  <2>2. CASE pc[t] = "io"
    <3>1. OnWire = 1 /\ OnWire' = 0
          BY <1>1, <2>1, <2>2, LeavesWire
    <3>2. abandoned' = abandoned + 1
          BY <1>12, <2>2 DEF Cancel
    <3> QED  BY <1>2, <1>3, <2>1, <3>1, <3>2
  <2>3. CASE pc[t] # "io"
    <3>1. OnWire' = OnWire
          BY <1>1, <2>1, <2>3, OffWire
    <3>2. abandoned' = abandoned
          BY <1>12, <2>3 DEF Cancel
    <3> QED  BY <1>3, <2>1, <3>1, <3>2
  <2> QED  BY <2>2, <2>3
<1>13. ASSUME NEW i \in 1..Len(pending), Segment(i)
       PROVE  Len(pending)' + Len(inbuf)' <= abandoned' + OnWire'
  <2>1. /\ pending' = Without(pending, i)
        /\ UNCHANGED <<pc, open, abandoned>>
        BY <1>13 DEF Segment, Lose, Answer, taskVars, portVars
  <2>2. Len(pending)' = Len(pending) - 1
        BY <1>1, <2>1, WithoutProperties DEF TypeInv, TypeOK
  <2>3. OnWire' = OnWire
        BY <2>1 DEF OnWire
  <2>4. inbuf' = inbuf \/ \E r \in Reply : inbuf' = Append(inbuf, r)
    <3>1. pending[i] \in Call
          BY <1>1, ElementOfSeq DEF TypeInv, TypeOK
    <3>2. ASSUME NEW damaged \in BOOLEAN
          PROVE  [body |-> IF damaged THEN "garbled" ELSE Body[pending[i]],
                  call |-> pending[i]] \in Reply
          BY <3>1, PortAssumption DEF Reply
    <3> QED  BY <1>13, <3>2 DEF Segment, Lose, Answer
  <2>5. Len(inbuf)' <= Len(inbuf) + 1 /\ Len(inbuf)' \in Nat
    <3>1. CASE inbuf' = inbuf
          BY <3>1, <1>2
    <3>2. ASSUME NEW r \in Reply, inbuf' = Append(inbuf, r)
          PROVE  Len(inbuf)' = Len(inbuf) + 1
          BY <1>1, <3>2, AppendAt DEF TypeInv, TypeOK
    <3> QED  BY <1>2, <2>4, <3>1, <3>2
  <2>6. open /\ abandoned' = abandoned
        BY <2>1
  <2> QED  BY <1>2, <1>3, <1>4, <2>2, <2>3, <2>5, <2>6
<1>14. ASSUME Dispose
       PROVE  Len(pending)' + Len(inbuf)' <= abandoned' + OnWire'
  <2>1. pc' = pc /\ UNCHANGED <<open, wireVars, abandoned>>
        BY <1>14 DEF Dispose, taskVars
  <2>2. OnWire' = OnWire
        BY <2>1 DEF OnWire
  <2> QED  BY <1>5, <2>1, <2>2
<1>15. ASSUME CloseTransport PROVE FALSE
       BY <1>15 DEF CloseTransport
<1>16. ASSUME UNCHANGED vars
       PROVE  Len(pending)' + Len(inbuf)' <= abandoned' + OnWire'
  <2>1. pc' = pc /\ UNCHANGED <<open, wireVars, abandoned>>
        BY <1>16 DEF vars, taskVars, portVars
  <2>2. OnWire' = OnWire
        BY <2>1 DEF OnWire
  <2> QED  BY <1>5, <2>1, <2>2
<1> QED  BY <1>6, <1>7, <1>8, <1>9, <1>10, <1>11, <1>12, <1>13, <1>14, <1>15, <1>16
         DEF Next, TaskStep

\* Frames are owed for abandoned exchanges only, however tasks, timeouts,
\* cancellations and devices interleave: at most one more than was given up can
\* be on its way or unread, and that one while an exchange is on the wire.
THEOREM OwedSafety == Spec => []OwedReplies
<1>1. Init => OwedInv
  <2>1. Init => OwedReplies
        BY DEF Init, OwedReplies
  <2> QED  BY <2>1, TypeInit, LockInit DEF OwedInv, LockInv
<1>2. OwedInv /\ [Next]_vars => OwedInv'
      BY OwedStep, LockStep DEF OwedInv
<1>3. OwedInv => OwedReplies
      BY DEF OwedInv
<1> QED  BY <1>1, <1>2, <1>3, PTL DEF Spec
=============================================================================
