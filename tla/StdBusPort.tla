----------------------------- MODULE StdBusPort -----------------------------
(***************************************************************************)
(* One Standard Bus port: the tasks that call Session.execute, the         *)
(* per-port lock of the protocol client with maybe_acquire's re-entrant    *)
(* batches, the request/reply turn-around of StdBusProtocolClient.execute, *)
(* the availability cache of each session, and the RS-485 segment with     *)
(* devices that answer late, wrongly or never.                             *)
(*                                                                         *)
(* The event loop is single-threaded: a step below is the code between two *)
(* awaits.  Releasing the lock, decoding the reply and recording the       *)
(* availability happen without an await after the last byte is read, so    *)
(* they are one step (Receive).                                            *)
(***************************************************************************)
EXTENDS Naturals, Sequences

CONSTANTS
    Task,     \* the tasks of the event loop that use this port
    Nobody,   \* the lock is free
    Device,   \* the controllers on the segment, one Session each
    Param,    \* registry parameters (the names the sessions can resolve)
    Inst,     \* loop / channel selectors
    Encodable,\* the calls the registry resolves, accepts and can encode
    Body,     \* [Call -> {"ok", "reject", "error"}]: how the addressed device answers
    Jobs,     \* what a task may run, see JobShape
    MaxJobs   \* bound: how many jobs are started in all

\* A call is one (command, parameter, instance) put to one device's session.
Call == [dev : Device, cmd : {"read", "write"}, param : Param, inst : Inst]

\* A job is a sequence of calls.  hold: the lock is held for the whole batch
\* (poll_controller, WatlowManager._run_group); otherwise every call takes it
\* anew.  skip: a failed call is logged and the next one made
\* (poll_controller), otherwise the failure ends the job.
JobShape == [calls : Seq(Call) \ {<<>>}, hold : BOOLEAN, skip : BOOLEAN,
             confirm : BOOLEAN]

ASSUME PortAssumption ==
    /\ Nobody \notin Task
    /\ Body \in [Call -> {"ok", "reject", "error"}]
    /\ Jobs \subseteq JobShape
    /\ Jobs # {}
    /\ MaxJobs \in Nat

\* The error classes a call can end with ("none" before any call is made), and
\* how a call ended: with an answer about some call, or with a failure.
Failure == {"none", "refused", "connection", "timeout", "transport", "frame",
            "rejected", "protocol", "cancelled"}
Result == [end : Failure \cup {"ok"}, of : Call]

\* What a reply frame carries.  An error reply has no selector: its "call" is
\* only the model's memory of which request it answers.
Reply == [body : {"ok", "reject", "error", "garbled"}, call : Call]

VARIABLES
    pc,         \* where each task is, see Points
    job,        \* the job a task runs, or the last one it ran
    todo,       \* its calls not yet begun
    call,       \* the call it is making, or the last one it made
    result,     \* how its last call ended
    owner,      \* anyio.Lock: the owning task or Nobody
    waiters,    \* anyio.Lock: the tasks queued for it, first come first served
    avail,      \* Session._availability of each device's session
    disposed,   \* StdBusProtocolClient._disposed
    open,       \* is the transport open?
    pending,    \* requests on the segment not answered yet, oldest first
    inbuf,      \* reply frames in the receive buffer
    abandoned,  \* history: exchanges given up with their reply owed
    started     \* history: jobs started, for the bound

taskVars == <<pc, job, todo, call, result>>
lockVars == <<owner, waiters>>
wireVars == <<pending, inbuf>>
portVars == <<disposed, open>>
vars == <<taskVars, lockVars, avail, portVars, wireVars, abandoned, started>>

\* idle; queued for a batch's lock; between two calls; queued for one call's
\* lock; about to write the request; waiting for the reply.
Points == {"idle", "enter", "call", "lock", "send", "io"}

\* _cache_key: command and parameter, whatever the instance.
Key == {"read", "write"} \X Param
KeyOf(c) == <<c.cmd, c.param>>

Init ==
    /\ pc = [t \in Task |-> "idle"]
    /\ job = [t \in Task |-> CHOOSE j \in Jobs : TRUE]
    /\ todo = [t \in Task |-> <<>>]
    /\ call = [t \in Task |-> Head(job[t].calls)]
    /\ result = [t \in Task |-> [end |-> "none", of |-> call[t]]]
    /\ owner = Nobody
    /\ waiters = <<>>
    /\ avail = [d \in Device |-> [k \in Key |-> "unknown"]]
    /\ disposed = FALSE
    /\ open = TRUE
    /\ pending = <<>>
    /\ inbuf = <<>>
    /\ abandoned = 0
    /\ started = 0

-----------------------------------------------------------------------------
\* The sequence s without its i-th element.
Without(s, i) == SubSeq(s, 1, i - 1) \o SubSeq(s, i + 1, Len(s))

(***************************************************************************)
(* The lock: anyio.Lock hands itself to the first waiter when released.    *)
(***************************************************************************)

Acquire(t) ==
    IF owner = Nobody
    THEN owner' = t /\ UNCHANGED waiters
    ELSE waiters' = Append(waiters, t) /\ UNCHANGED owner

Release ==
    IF waiters = <<>>
    THEN owner' = Nobody /\ UNCHANGED waiters
    ELSE owner' = Head(waiters) /\ waiters' = Tail(waiters)

\* A cancelled waiter leaves the queue, wherever it stands in it.
LeaveQueue(t) ==
    \E i \in 1..Len(waiters) :
        /\ waiters[i] = t
        /\ waiters' = Without(waiters, i)
        /\ UNCHANGED owner

-----------------------------------------------------------------------------
(***************************************************************************)
(* Ending a call.  A batch keeps the lock until its last call; any other   *)
(* job gives it back after each one, and has none to give back when the    *)
(* call failed before it was taken.                                        *)
(***************************************************************************)

\* Mutants: the lock of a batch is given back after every call; the lock of
\* any job is kept until its last.
GivesBackAlways(t, last) == owner = t
GivesBackLate(t, last) == owner = t /\ last

GivesBack(t, last) == owner = t /\ (last \/ ~job[t].hold)

EndCall(t, res, rest) ==
    LET last == rest = <<>> \/ (res.end # "ok" /\ ~job[t].skip) IN
    /\ result' = [result EXCEPT ![t] = res]
    /\ pc' = [pc EXCEPT ![t] = IF last THEN "idle" ELSE "call"]
    /\ todo' = [todo EXCEPT ![t] = IF last THEN <<>> ELSE rest]
    /\ IF GivesBack(t, last) THEN Release ELSE UNCHANGED lockVars
    /\ UNCHANGED job

\* The call of task t ends with a failure.
Fail(t, why) == EndCall(t, [end |-> why, of |-> call[t]], todo[t])

-----------------------------------------------------------------------------
(***************************************************************************)
(* The tasks                                                               *)
(***************************************************************************)

\* A task starts a job.  A batch queues for the lock before its first call.
Start(t) ==
    /\ pc[t] = "idle"
    /\ started < MaxJobs
    /\ started' = started + 1
    /\ \E j \in Jobs :
          /\ job' = [job EXCEPT ![t] = j]
          /\ todo' = [todo EXCEPT ![t] = j.calls]
          /\ IF j.hold
             THEN pc' = [pc EXCEPT ![t] = "enter"] /\ Acquire(t)
             ELSE pc' = [pc EXCEPT ![t] = "call"] /\ UNCHANGED lockVars
    /\ UNCHANGED <<call, result, avail, portVars, wireVars, abandoned>>

\* poll_controller enters its batch once the lock is its own.
Enter(t) ==
    /\ pc[t] = "enter"
    /\ owner = t
    /\ pc' = [pc EXCEPT ![t] = "call"]
    /\ UNCHANGED <<job, todo, call, result, lockVars, avail, portVars, wireVars,
                   abandoned, started>>

\* Session.execute up to the lock: the availability gate, the confirmation
\* gate of a PERSISTENT command and the variant's encode, then maybe_acquire,
\* which reuses the lock this task holds already.
Gated(t, c) ==
    \/ avail[c.dev][KeyOf(c)] = "unsupported"
    \/ c.cmd = "write" /\ ~job[t].confirm
    \/ c \notin Encodable

RefuseCall(t) ==
    /\ pc[t] = "call"
    /\ LET c == Head(todo[t]) IN
          /\ Gated(t, c)
          /\ call' = [call EXCEPT ![t] = c]
          /\ EndCall(t, [end |-> "refused", of |-> c], Tail(todo[t]))
    /\ UNCHANGED <<avail, portVars, wireVars, abandoned, started>>

\* Mutants of maybe_acquire: it never reuses the lock, or does so whoever holds it.
ReusesNever(t) == FALSE
ReusesAny(t) == owner # Nobody

\* maybe_acquire: the current task holds the lock already.
Reuses(t) == owner = t

BeginCall(t) ==
    /\ pc[t] = "call"
    /\ ~Gated(t, Head(todo[t]))
    /\ call' = [call EXCEPT ![t] = Head(todo[t])]
    /\ todo' = [todo EXCEPT ![t] = Tail(@)]
    /\ IF Reuses(t)
       THEN pc' = [pc EXCEPT ![t] = "send"] /\ UNCHANGED lockVars
       ELSE pc' = [pc EXCEPT ![t] = "lock"] /\ Acquire(t)
    /\ UNCHANGED <<job, result, avail, portVars, wireVars, abandoned, started>>

\* The lock taken for one call has come to the task.
TakeLock(t) ==
    /\ pc[t] = "lock"
    /\ owner = t
    /\ pc' = [pc EXCEPT ![t] = "send"]
    /\ UNCHANGED <<job, todo, call, result, lockVars, avail, portVars, wireVars,
                   abandoned, started>>

\* StdBusProtocolClient.execute writes the request frame.  The receive buffer
\* is left as it is: nothing drains it before a request.
Send(t) ==
    /\ pc[t] = "send"
    /\ ~disposed /\ open
    /\ pc' = [pc EXCEPT ![t] = "io"]
    /\ pending' = Append(pending, call[t])
    /\ UNCHANGED <<job, todo, call, result, lockVars, avail, portVars, inbuf,
                   abandoned, started>>

\* A disposed client and a transport that is not open refuse the request.
SendFails(t) ==
    /\ pc[t] = "send"
    /\ disposed \/ ~open
    /\ Fail(t, "connection")
    /\ UNCHANGED <<call, avail, portVars, wireVars, abandoned, started>>

\* What the session makes of the reply r to call c: an error reply is mapped
\* by its code alone, and any other is accepted when it answers the same
\* command -- its source, parameter and instance are never compared.
Decode(r, c) ==
    CASE r.body = "garbled" -> [end |-> "frame", of |-> c]
      [] r.body = "reject"  -> [end |-> "rejected", of |-> c]
      [] r.body = "ok" /\ r.call.cmd = c.cmd -> [end |-> "ok", of |-> r.call]
      [] OTHER -> [end |-> "protocol", of |-> c]

\* Mutants: any protocol error marks the key; an error is recorded as it is.
AvailabilityAnyError(res, c) ==
    CASE res.end = "ok" -> [avail EXCEPT ![c.dev][KeyOf(c)] = "supported"]
      [] res.end \in {"rejected", "protocol"} ->
            [avail EXCEPT ![c.dev][KeyOf(c)] = "unsupported"]
      [] OTHER -> avail

AvailabilityRaw(res, c) ==
    [avail EXCEPT ![c.dev][KeyOf(c)] =
        IF res.end = "ok" THEN "supported" ELSE res.end]

\* The availability a result leaves behind for the key of call c: only an
\* answer and a "no such object / attribute" say anything about it.
Availability(res, c) ==
    CASE res.end = "ok" -> [avail EXCEPT ![c.dev][KeyOf(c)] = "supported"]
      [] res.end = "rejected" -> [avail EXCEPT ![c.dev][KeyOf(c)] = "unsupported"]
      [] OTHER -> avail

\* Mutant: the frame is read and stays in the buffer.
PeekFrame == UNCHANGED inbuf

\* _read_frame takes the next frame off the receive buffer.
TakeFrame == inbuf' = Tail(inbuf)

\* The next frame in the receive buffer is read as the reply; the lock is
\* released, the reply decoded and the availability recorded.
Receive(t) ==
    /\ pc[t] = "io"
    /\ inbuf # <<>>
    /\ TakeFrame
    /\ LET res == Decode(Head(inbuf), call[t]) IN
          /\ EndCall(t, res, todo[t])
          /\ avail' = Availability(res, call[t])
    /\ UNCHANGED <<call, portVars, pending, abandoned, started>>

\* The round-trip is given up with its reply still owed: fail_after expired,
\* the adapter reported an error, or 256 bytes of noise held no preamble.
GiveUp(t, why) ==
    /\ pc[t] = "io"
    /\ open
    /\ Fail(t, why)
    /\ abandoned' = abandoned + 1
    /\ UNCHANGED <<call, avail, portVars, wireVars, started>>

\* A read on a transport closed underneath it.
ReadFails(t) ==
    /\ pc[t] = "io"
    /\ ~open
    /\ Fail(t, "connection")
    /\ UNCHANGED <<call, avail, portVars, wireVars, abandoned, started>>

\* The task is cancelled at an await: it leaves the lock or its queue, and a
\* request already written stays unanswered for.
Cancel(t) ==
    /\ pc[t] \in {"enter", "lock", "send", "io"}
    /\ pc' = [pc EXCEPT ![t] = "idle"]
    /\ todo' = [todo EXCEPT ![t] = <<>>]
    /\ result' = [result EXCEPT ![t] = [end |-> "cancelled", of |-> call[t]]]
    /\ IF owner = t THEN Release ELSE LeaveQueue(t)
    /\ abandoned' = IF pc[t] = "io" THEN abandoned + 1 ELSE abandoned
    /\ UNCHANGED <<job, call, avail, portVars, wireVars, started>>

-----------------------------------------------------------------------------
(***************************************************************************)
(* The port and the segment                                                *)
(***************************************************************************)

\* Session.dispose, by Controller.aclose or the manager's teardown.
Dispose ==
    /\ ~disposed
    /\ disposed' = TRUE
    /\ UNCHANGED <<taskVars, lockVars, avail, open, wireVars, abandoned, started>>

\* Transport.close drops the pushback and the port with its buffers.
CloseTransport ==
    /\ open
    /\ open' = FALSE
    /\ inbuf' = <<>>
    /\ UNCHANGED <<taskVars, lockVars, avail, disposed, pending, abandoned, started>>

\* A device answers the i-th request on the segment, the oldest of its own.
\* A reply may be damaged on the line, and one sent to a closed port is lost.
Answer(i, damaged) ==
    /\ \A k \in 1..(i - 1) : pending[k].dev # pending[i].dev
    /\ LET r == [body |-> IF damaged THEN "garbled" ELSE Body[pending[i]],
                  call |-> pending[i]]
       IN inbuf' = IF open THEN Append(inbuf, r) ELSE inbuf
    /\ pending' = Without(pending, i)
    /\ UNCHANGED <<taskVars, lockVars, avail, portVars, abandoned, started>>

\* A request or its reply is lost.
Lose(i) ==
    /\ pending' = Without(pending, i)
    /\ UNCHANGED <<taskVars, lockVars, avail, portVars, inbuf, abandoned, started>>

TaskStep(t) ==
    \/ Start(t) \/ Enter(t) \/ RefuseCall(t) \/ BeginCall(t) \/ TakeLock(t)
    \/ Send(t) \/ SendFails(t) \/ Receive(t) \/ ReadFails(t) \/ Cancel(t)
    \/ \E why \in {"timeout", "transport", "frame"} : GiveUp(t, why)

Segment(i) == Lose(i) \/ \E damaged \in BOOLEAN : Answer(i, damaged)

Next ==
    \/ \E t \in Task : TaskStep(t)
    \/ \E i \in 1..Len(pending) : Segment(i)
    \/ Dispose
    \/ CloseTransport

Spec == Init /\ [][Next]_vars

\* The event loop runs every ready task and fail_after bounds every round-trip.
Progress(t) ==
    \/ Enter(t) \/ RefuseCall(t) \/ BeginCall(t) \/ TakeLock(t)
    \/ Send(t) \/ SendFails(t) \/ ReadFails(t) \/ GiveUp(t, "timeout")

FairSpec == Spec /\ \A t \in Task : WF_vars(Progress(t))

-----------------------------------------------------------------------------
TypeOK ==
    /\ pc \in [Task -> Points]
    /\ job \in [Task -> Jobs]
    /\ todo \in [Task -> Seq(Call)]
    /\ call \in [Task -> Call]
    /\ result \in [Task -> Result]
    /\ owner \in Task \cup {Nobody}
    /\ waiters \in Seq(Task)
    /\ avail \in [Device -> [Key -> {"unknown", "supported", "unsupported"}]]
    /\ disposed \in BOOLEAN
    /\ open \in BOOLEAN
    /\ pending \in Seq(Call)
    /\ inbuf \in Seq(Reply)
    /\ abandoned \in Nat
    /\ started \in 0..MaxJobs

\* The task has an exchange on the wire or the lock of one in its hand.
Holding(t) == \/ pc[t] \in {"send", "io"}
              \/ pc[t] = "call" /\ job[t].hold

\* The port's lock is never leaked and never shared: whoever is between
\* taking it and giving it back is its owner, a task that owns or awaits it
\* is on its way to using it, and nobody waits for it twice or for itself --
\* under every interleaving of batches, failures and cancellations.
LockDiscipline ==
    /\ \A t \in Task : Holding(t) => owner = t
    /\ owner # Nobody => Holding(owner) \/ pc[owner] \in {"enter", "lock"}
    /\ \A t \in Task : pc[t] \in {"enter", "lock"} =>
          \/ owner = t
          \/ \E i \in 1..Len(waiters) : waiters[i] = t
    /\ \A i \in 1..Len(waiters) :
          /\ pc[waiters[i]] \in {"enter", "lock"}
          /\ waiters[i] # owner
          /\ \A k \in 1..Len(waiters) : waiters[k] = waiters[i] => k = i
    /\ owner = Nobody => waiters = <<>>

\* Replies are owed for abandoned exchanges only: beyond the one exchange on
\* the wire, no more frames can still arrive, or lie unread in the receive
\* buffer of an open port, than exchanges were given up.
OwedReplies ==
    open => Len(pending) + Len(inbuf)
        <= abandoned + IF \E t \in Task : pc[t] = "io" THEN 1 ELSE 0

\* As long as no exchange was given up, a key is marked UNSUPPORTED only if
\* the device really rejects some call with that key.
UnsupportedIsTrue ==
    abandoned = 0 =>
        \A d \in Device : \A k \in Key : avail[d][k] = "unsupported" =>
            \E c \in Call : c.dev = d /\ KeyOf(c) = k /\ Body[c] = "reject"

\* Nothing is written between two calls of a held batch but by the batch:
\* poll_controller's "a queued writer cannot land between read N and read N+1".
BatchIsolation ==
    [][\A t \in Task : job[t].hold /\ pc[t] \in {"call", "send", "io"} =>
          \A u \in Task \ {t} : ~(pc[u] = "send" /\ pc'[u] = "io")]_vars

\* The task whose request is on the wire, or Nobody.
Serving == IF \E t \in Task : pc[t] = "io"
           THEN CHOOSE t \in Task : pc[t] = "io" ELSE Nobody

\* The port implements PortService: one exchange at a time, and as long as no
\* exchange was abandoned every answer is the answer to the caller's own call.
Service == INSTANCE PortService WITH
    Result <- Result,
    serving <- Serving,
    asked <- call,
    answer <- result,
    abandoned <- abandoned > 0

ImplementsService == Service!Spec

\* Every job ends, whatever the devices answer: the lock reaches every waiter
\* and no round-trip outlives its timeout.
JobsEnd == \A t \in Task : pc[t] # "idle" ~> pc[t] = "idle"

-----------------------------------------------------------------------------
(***************************************************************************)
(* What the repository says of this code and the code does not keep.       *)
(***************************************************************************)

\* "The returned reading is the device's echo of the value it accepted": an
\* answer is the answer to the call that was made.
AnswerIsOwn ==
    \A t \in Task : pc[t] \in {"idle", "call"} /\ result[t].end = "ok" =>
        result[t].of = call[t]

\* "UNSUPPORTED is sticky -- short-circuit pre-I/O": no request goes out for a
\* key the session knows to be unsupported.
UnsupportedShortCircuits ==
    [][\A t \in Task : pc[t] = "send" /\ pc'[t] = "io" =>
          avail[call[t].dev][KeyOf(call[t])] # "unsupported"]_vars
=============================================================================
