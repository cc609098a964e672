------------------------------ MODULE Recorder ------------------------------
(***************************************************************************)
(* record(): a producer task polls a source on an absolute schedule and    *)
(* publishes one batch per tick to a bounded memory stream; the consumer   *)
(* takes batches inside an async context manager, whose exit cancels the   *)
(* producer.  Time is an integer that moves only while the producer        *)
(* awaits.  A batch is known by the tick it was polled for.                *)
(***************************************************************************)
EXTENDS Integers, Sequences, FiniteSets

CONSTANTS
    Total,     \* total_ticks of the recording's duration
    Period,    \* clock units between two targets
    Size,      \* buffer_size, in batches
    Backoff,   \* _RECONNECT_BACKOFF_S, in clock units
    Lags,      \* bound: how late an awaiting producer may be resumed
    PollTimes  \* bound: how long a poll or a rebuilding of the source may take

ASSUME RecorderAssumption ==
    /\ Total \in Nat \ {0} /\ Period \in Nat \ {0} /\ Size \in Nat \ {0}
    /\ Backoff \in Seq(Nat) /\ Backoff # <<>>
    /\ Lags \subseteq Nat /\ PollTimes \subseteq Nat

VARIABLES
    overflow,    \* the OverflowPolicy asked for
    reconnect,   \* auto_reconnect: "off", against the "same" source, or a "factory"
    pc,          \* where the producer is
    clock,       \* anyio.current_time() - start
    tick,        \* the producer's tick counter
    idx,         \* backoff_idx
    buffer,      \* batches queued in the memory stream, oldest first
    emitted,     \* summary.samples_emitted
    late,        \* summary.samples_late
    disconnects, \* summary.disconnects
    cm,          \* the context manager's body: open, left, raised; or it has exited
    finished,    \* summary.finished_at is set
    polled,      \* history: the batches polled, in order
    received,    \* history: the batches the consumer took, in order
    evicted      \* history: batches DROP_OLDEST took back out of the stream

askedVars == <<overflow, reconnect>>
countVars == <<emitted, late, disconnects>>
bodyVars == <<cm, finished>>
vars == <<askedVars, pc, clock, tick, idx, buffer, countVars, bodyVars,
          polled, received, evicted>>

Overflow == {"block", "drop_newest", "drop_oldest"}
Awaiting == {"sleep", "poll", "send", "backoff", "rebuild"}
Stopped == {"ended", "failed"}

Target(n) == n * Period

Init ==
    /\ overflow \in Overflow
    /\ reconnect \in {"off", "same", "factory"}
    /\ pc = "loop"
    /\ clock = 0 /\ tick = 0 /\ idx = 0
    /\ buffer = <<>>
    /\ emitted = 0 /\ late = 0 /\ disconnects = 0
    /\ cm = "open" /\ finished = FALSE
    /\ polled = <<>> /\ received = <<>> /\ evicted = 0

-----------------------------------------------------------------------------
(***************************************************************************)
(* The schedule                                                            *)
(***************************************************************************)

\* Mutant: an overrun is not skipped but made up for, slot by slot.
NoneMissed(now) == 0

\* The slots skipped when the loop comes round more than a period late.
Missed(now) ==
    IF now > Target(tick) + Period THEN (now - Target(tick)) \div Period ELSE 0

\* The top of the loop: missed slots are counted and skipped, and the target
\* awaited unless it has passed.  total_ticks is not looked at again.
NextTick ==
    /\ pc = "loop"
    /\ tick < Total
    /\ tick' = tick + Missed(clock)
    /\ late' = late + Missed(clock)
    /\ pc' = IF clock < Target(tick') THEN "sleep" ELSE "poll"
    /\ UNCHANGED <<askedVars, clock, idx, buffer, emitted, disconnects, bodyVars,
                   polled, received, evicted>>

\* Every tick is done: both of the producer's streams are closed.
End ==
    /\ pc = "loop"
    /\ tick >= Total
    /\ pc' = "ended"
    /\ UNCHANGED <<askedVars, clock, tick, idx, buffer, countVars, bodyVars,
                   polled, received, evicted>>

Wake ==
    /\ pc = "sleep"
    /\ \E d \in Lags : clock' = Target(tick) + d
    /\ pc' = "poll"
    /\ UNCHANGED <<askedVars, tick, idx, buffer, countVars, bodyVars, polled,
                   received, evicted>>

-----------------------------------------------------------------------------
(***************************************************************************)
(* Polling and _publish                                                    *)
(***************************************************************************)

\* Mutant: the stream holds one batch too many.
FullLate == Len(buffer) > Size

Full == Len(buffer) = Size

\* The batch joins the stream q and the producer goes on to the next tick.
Enqueue(q) ==
    /\ buffer' = Append(q, tick)
    /\ emitted' = emitted + 1
    /\ tick' = tick + 1
    /\ pc' = "loop"

\* Mutant: a full stream loses the batch under BLOCK too.
PublishBlockLossy ==
    IF Full
    THEN /\ pc' = "loop" /\ tick' = tick + 1 /\ late' = late + 1
         /\ UNCHANGED <<buffer, emitted, evicted>>
    ELSE Enqueue(buffer) /\ UNCHANGED <<late, evicted>>

PublishBlock ==
    IF Full
    THEN pc' = "send" /\ UNCHANGED <<buffer, emitted, late, tick, evicted>>
    ELSE Enqueue(buffer) /\ UNCHANGED <<late, evicted>>

\* Mutant: the dropped batch is not counted.
DropNewestUncounted ==
    IF Full
    THEN /\ pc' = "loop" /\ tick' = tick + 1
         /\ UNCHANGED <<buffer, emitted, late, evicted>>
    ELSE Enqueue(buffer) /\ UNCHANGED <<late, evicted>>

DropNewest ==
    IF Full
    THEN /\ late' = late + 1
         /\ tick' = tick + 1
         /\ pc' = "loop"
         /\ UNCHANGED <<buffer, emitted, evicted>>
    ELSE Enqueue(buffer) /\ UNCHANGED <<late, evicted>>

\* Mutant: the newest queued batch is the one evicted.
DropOldestNewest ==
    IF Full
    THEN /\ Enqueue(SubSeq(buffer, 1, Len(buffer) - 1))
         /\ late' = late + 1
         /\ evicted' = evicted + 1
    ELSE Enqueue(buffer) /\ UNCHANGED <<late, evicted>>

\* The eviction and the second try do not await: nobody comes between them.
DropOldest ==
    IF Full
    THEN /\ Enqueue(Tail(buffer))
         /\ late' = late + 1
         /\ evicted' = evicted + 1
    ELSE Enqueue(buffer) /\ UNCHANGED <<late, evicted>>

\* poll_many returns and its batch is published.
Polled ==
    /\ pc = "poll"
    /\ \E d \in PollTimes : clock' = clock + d
    /\ idx' = 0
    /\ polled' = Append(polled, tick)
    /\ \/ overflow = "block" /\ PublishBlock
       \/ overflow = "drop_newest" /\ DropNewest
       \/ overflow = "drop_oldest" /\ DropOldest
    /\ UNCHANGED <<askedVars, disconnects, bodyVars, received>>

\* Mutant: a send that had to wait is not counted.
SentUncounted ==
    /\ pc = "sent"
    /\ \E d \in Lags : clock' = clock + d
    /\ tick' = tick + 1
    /\ pc' = "loop"
    /\ UNCHANGED <<askedVars, idx, buffer, countVars, bodyVars, polled, received, evicted>>

\* A blocked send whose batch the stream has taken in returns.
Sent ==
    /\ pc = "sent"
    /\ \E d \in Lags : clock' = clock + d
    /\ emitted' = emitted + 1
    /\ tick' = tick + 1
    /\ pc' = "loop"
    /\ UNCHANGED <<askedVars, idx, buffer, late, disconnects, bodyVars, polled,
                   received, evicted>>

-----------------------------------------------------------------------------
(***************************************************************************)
(* Reconnecting                                                            *)
(***************************************************************************)

\* poll_many raises: a WatlowConnectionError is absorbed under auto_reconnect.
Disconnected ==
    /\ pc = "poll"
    /\ reconnect # "off"
    /\ \E d \in PollTimes : clock' = clock + d
    /\ late' = late + 1
    /\ disconnects' = disconnects + 1
    /\ pc' = "backoff"
    /\ UNCHANGED <<askedVars, tick, idx, buffer, emitted, bodyVars, polled,
                   received, evicted>>

\* Any other exception, or that one with auto_reconnect off.
PollRaises ==
    /\ pc = "poll"
    /\ pc' = "failed"
    /\ UNCHANGED <<askedVars, clock, tick, idx, buffer, countVars, bodyVars, polled,
                   received, evicted>>

BackoffWait == Backoff[(IF idx < Len(Backoff) THEN idx ELSE Len(Backoff) - 1) + 1]

\* The wait is over: with a factory the source is rebuilt, without one the
\* next tick tries the same source again.
BackoffEnds ==
    /\ pc = "backoff"
    /\ \E d \in Lags : clock' = clock + BackoffWait + d
    /\ IF reconnect = "factory"
       THEN pc' = "rebuild" /\ UNCHANGED <<idx, tick>>
       ELSE pc' = "loop" /\ idx' = idx + 1 /\ tick' = tick + 1
    /\ UNCHANGED <<askedVars, buffer, countVars, bodyVars, polled, received, evicted>>

\* The factory returns a source, or raises a WatlowConnectionError.
Rebuilt(ok) ==
    /\ pc = "rebuild"
    /\ \E d \in PollTimes : clock' = clock + d
    /\ idx' = IF ok THEN 0 ELSE idx + 1
    /\ tick' = tick + 1
    /\ pc' = "loop"
    /\ UNCHANGED <<askedVars, buffer, countVars, bodyVars, polled, received, evicted>>

RebuildRaises ==
    /\ pc = "rebuild"
    /\ pc' = "failed"
    /\ UNCHANGED <<askedVars, clock, tick, idx, buffer, countVars, bodyVars, polled,
                   received, evicted>>

-----------------------------------------------------------------------------
(***************************************************************************)
(* The consumer and the context manager                                    *)
(***************************************************************************)

\* The consumer takes the oldest batch; the stream takes in the batch of a
\* blocked producer in the same call.
Take ==
    /\ cm = "open"
    /\ buffer # <<>>
    /\ received' = Append(received, Head(buffer))
    /\ IF pc = "send"
       THEN buffer' = Append(Tail(buffer), tick) /\ pc' = "sent"
       ELSE buffer' = Tail(buffer) /\ UNCHANGED pc
    /\ UNCHANGED <<askedVars, clock, tick, idx, countVars, bodyVars, polled, evicted>>

\* The stream is exhausted, or the body leaves early, or it raises -- with the
\* cancellation a failed producer brings, if nothing else.  The producer is
\* cancelled, and waited for.
Leave(how) ==
    /\ cm = "open"
    /\ how = "left" => pc # "failed"
    /\ cm' = how
    /\ UNCHANGED <<askedVars, pc, clock, tick, idx, buffer, countVars, finished,
                   polled, received, evicted>>

\* Mutant: a blocked send is shielded from cancellation.
CancelledUnlessSending ==
    /\ cm \in {"left", "raised"}
    /\ pc \in Awaiting \ {"send"}
    /\ pc' = "ended"
    /\ UNCHANGED <<askedVars, clock, tick, idx, buffer, countVars, bodyVars, polled,
                   received, evicted>>

\* The producer's cancellation is delivered at an await.
Cancelled ==
    /\ cm \in {"left", "raised"}
    /\ pc \in Awaiting
    /\ pc' = "ended"
    /\ UNCHANGED <<askedVars, clock, tick, idx, buffer, countVars, bodyVars, polled,
                   received, evicted>>

\* Mutant: the context manager does not wait for the producer.
ExitEarly ==
    /\ cm \in {"left", "raised"}
    /\ cm' = "exited"
    /\ finished' \in IF pc = "failed" THEN {FALSE} ELSE {TRUE, cm = "left"}
    /\ UNCHANGED <<askedVars, pc, clock, tick, idx, buffer, countVars, polled, received,
                   evicted>>

\* The task group is joined.  The lines that complete the summary are not reached
\* if the producer raised; nor if the body did, but for a cancellation, which the
\* group, itself just cancelled, may take for its own.
Exit ==
    /\ cm \in {"left", "raised"}
    /\ pc \in Stopped
    /\ cm' = "exited"
    /\ finished' \in IF pc = "failed" THEN {FALSE} ELSE {TRUE, cm = "left"}
    /\ UNCHANGED <<askedVars, pc, clock, tick, idx, buffer, countVars, polled, received,
                   evicted>>

Producer ==
    \/ NextTick \/ End \/ Wake \/ Polled \/ Sent
    \/ Disconnected \/ PollRaises \/ BackoffEnds
    \/ \E ok \in BOOLEAN : Rebuilt(ok)
    \/ RebuildRaises

Next ==
    \/ Producer \/ Cancelled
    \/ Take
    \/ \E how \in {"left", "raised"} : Leave(how)
    \/ Exit

Spec == Init /\ [][Next]_vars

\* The event loop runs every ready task; sleeps, polls and rebuilds end, and
\* the consumer iterates over the stream for as long as it stays in the body.
FairSpec == Spec /\ WF_vars(Producer \/ Cancelled) /\ WF_vars(Take) /\ WF_vars(Exit)

-----------------------------------------------------------------------------
TypeOK ==
    /\ overflow \in Overflow
    /\ reconnect \in {"off", "same", "factory"}
    /\ pc \in Awaiting \cup Stopped \cup {"loop", "sent"}
    /\ clock \in Nat /\ tick \in Nat /\ idx \in Nat
    /\ buffer \in Seq(Nat) /\ Len(buffer) <= Size
    /\ emitted \in Nat /\ late \in Nat /\ disconnects \in Nat
    /\ cm \in {"open", "left", "raised", "exited"}
    /\ finished \in BOOLEAN
    /\ polled \in Seq(Nat) /\ received \in Seq(Nat)
    /\ evicted \in Nat

\* The tick whose disconnect has been counted and that is not yet stepped over.
CountedTick == IF pc \in {"backoff", "rebuild"} THEN 1 ELSE 0

\* At every moment each tick gone by was either emitted or counted late, none
\* in both and none in neither; only a batch evicted after it was emitted is
\* in both.  A producer stopped in a backoff has counted a tick it has not
\* stepped over.
Accounting ==
    LET counted == emitted + late - evicted IN
    IF pc \in Stopped THEN counted \in tick..tick + 1
                      ELSE counted = tick + CountedTick

\* A poll never starts before its target, nor later than a period after it
\* unless the sleep itself overslept: overruns are skipped, not made up for.
OnSchedule ==
    pc = "poll" =>
        /\ Target(tick) <= clock
        /\ \/ clock <= Target(tick) + Period
           \/ clock - Target(tick) \in Lags

\* Under BLOCK the consumer gets every batch that was polled, in order, for
\* as long as it stays in the body.
BlockLosesNothing ==
    overflow = "block" /\ cm = "open" =>
        polled = received \o buffer \o (IF pc = "send" THEN <<tick>> ELSE <<>>)

\* Under DROP_OLDEST the stream always holds the latest batches polled.
FreshestKept ==
    overflow = "drop_oldest" =>
        buffer = SubSeq(polled, Len(polled) - Len(buffer) + 1, Len(polled))

\* What the consumer takes is in poll order and never twice, and the batches
\* emitted are exactly those taken, queued or evicted.
Delivery ==
    /\ \A i, j \in DOMAIN received : i < j => received[i] < received[j]
    /\ emitted + (IF pc = "sent" THEN 1 ELSE 0) =
           Len(received) + Len(buffer) + evicted

\* Nothing of the recording moves once the context manager has exited.
ExitIsFinal == [][cm # "exited"]_vars

\* With a consumer that iterates, the producer comes to an end, and a body
\* that is left is always followed by the exit.
RecorderEnds ==
    /\ <>(pc \in Stopped)
    /\ cm # "open" ~> cm = "exited"

-----------------------------------------------------------------------------
(***************************************************************************)
(* What the repository says of this code and the code does not keep.       *)
(***************************************************************************)

\* "duration: Total acquisition duration in seconds": no poll is made for a
\* slot past the last tick of the duration.
NothingPastDuration == pc = "poll" => tick < Total
=============================================================================
