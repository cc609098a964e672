# A TLA+ model of watlowlib

watlowlib talks to Watlow temperature controllers over RS-485, in Standard Bus
or Modbus RTU.  It is asynchronous Python on anyio: one event loop, tasks that
interleave at every `await`, cancellation at every `await`, and devices that
answer late, wrongly or never.  This directory models the library from the bytes
of a frame to the rows of a database, checks the models with TLC and proves the
central facts about five of them with TLAPS.  Paths below are relative to
`src/src/watlowlib/` unless they start with `src/`.

## The system

| component | state | operations | hard behaviour |
|---|---|---|---|
| Session (`devices/session.py`) | availability of each command key | `execute`, `dispose` | the gate is read before the lock is awaited |
| Standard Bus client (`protocol/stdbus/client.py`, `_lock.py`) | per-port lock, disposed flag | `execute`, `maybe_acquire` | timeouts and cancellation in a round-trip, late replies, batches |
| Transports (`transport/serial.py`, `protocol/modbus/transport.py`) | open port, pushback | `open`, `close`, `write`, `read_exact` | close under a reader, noise |
| Polling (`streaming/_poll.py`) | none | `poll_controller` | one lock over many reads |
| Manager (`manager.py`) | devices by name, ref-counted ports, closed flag | `add`, `remove`, `close`, `poll`, `poll_many`, `execute_each` | cancellation in a teardown, removal during a poll |
| Recorder (`streaming/recorder.py`) | schedule, bounded stream, summary | `record` | overruns, back-pressure, reconnects, exit |
| Commands and loops (`commands/`, `devices/loop.py`) | none | read and write a parameter, `read_pid`, `write_pid` | sequences of calls that stop half-way |
| Controller, profiles (`devices/controller.py`, `devices/profile.py`) | capabilities, loops | `identify`, reads, writes, `close` | partial failure of identification |
| Factory, detection, discovery, maintenance (`devices/factory.py`, `protocol/detect.py`, `devices/discovery.py`, `maintenance.py`) | an open transport on its way to an owner | `open_device`, `detect_protocol`, `discover`, `change_*` | who closes the transport when something raises |
| Sinks (`sinks/`) | locked schema, open file or connection, buffer of `pipe` | `open`, `write_many`, `close`, `pipe` | a failure between locking and creating, buffered samples |
| Codecs and registry (`protocol/stdbus/`, `protocol/modbus/`, `registry/`) | none | encode, decode, resolve | widths, bounds, word order |
| Sync facade (`sync/`) | an event-loop thread | the same operations | none of its own beyond the hand-over |
| Command line, test doubles, errors, logging | | | not modelled |

A recorder polls a manager or a controller; a manager polls its controllers
through `poll_controller`; that and every facade method end in
`Session.execute`, which takes the lock of the port's client and runs one
round-trip on the transport.  What makes each right:

- **Port**: one exchange at a time; every answer goes to the call it answers;
  a batch is not interrupted; the lock survives failures and cancellation; a key
  is called unsupported only if it is.
- **Manager**: one client and one lock per port; a port is open exactly while it
  is used; a poll reports on everybody; close leaves nothing behind.
- **Recorder**: the counters account for every tick; no batch is lost, repeated
  or reordered beyond what the overflow policy says; the exit is clean.
- **Opening calls** (factory, detection, identification, maintenance, discovery):
  a transport is handed to its owner or closed; a scan reports in order, and no
  device where there is none; a change reported done is done.
- **Sinks**: what `pipe` counts is stored, once, and whole ticks at a time.
- **Codecs and registry**: what is read is the parameter asked for, with the value
  it has; what is written arrives; a damaged frame is never taken for an answer.

## Modules

### `PortService`, `StdBusPort`

`PortService` is the promise of `protocol/base.py`'s `ProtocolClient`: exchanges
one at a time, each handing its caller a result, and an answer that is the
answer to the caller's own call.  The promise about answers ends when some
exchange is *abandoned* -- given up with its reply still owed -- because nothing
in the code can tell a late reply from the right one.

`StdBusPort` is one port.  A task runs *jobs*, sequences of calls:
`poll_controller` and the port batch of `WatlowManager.poll_many` hold the lock
for the whole job and go on after a failure, other sequences take it per call
and stop.

| model | code |
|---|---|
| `RefuseCall`, `BeginCall` | `Session.execute` up to the lock: availability gate, confirmation gate, encoding (`Encodable`), `maybe_acquire` |
| `owner`, `waiters`, `TakeLock`, `LeaveQueue` | `anyio.Lock`, handed to the first waiter |
| `Send`, `SendFails` | the write of `StdBusProtocolClient.execute` and what refuses it |
| `Receive`, `Decode`, `Availability` | `_read_frame`, the variant's `decode`, the availability it leaves |
| `GiveUp`, `ReadFails`, `Cancel` | timeouts and errors of the transport, a closed port, task cancellation |
| `Dispose`, `CloseTransport` | `Session.dispose`, `SerialTransport.close` |
| `Answer`, `Lose` | the segment: devices answer in any order between them, a frame may be damaged or lost |

A step is the code between two awaits.  Reading the last byte of a reply,
releasing the lock, decoding and recording the availability involve no await,
so `Receive` is one step.  Frames are atomic: bytes before a preamble that the
scan skips are a lost reply, a frame with a bad CRC is a damaged one.  An error
reply carries no selector; the model remembers which request it answers only to
state properties.  A reopened port is not modelled: nothing in the session
reopens one.

### `Manager`

The state lock serialises `add`, `remove` and `close`, which await only the
opening and closing of a transport; polls take no manager lock.  `entry`,
`client`, `protocol` and `refs` are the fields of `_PortEntry`; a client is a
serial number, so that two of them are never confused; `portOf` and `order` are
the dict of devices.  `Teardown` is `_teardown_device` with
`_maybe_teardown_port` up to the await in `transport.close`; `ClosedTransport`
and `Cancel` are the two ways on from there.  A poll is resolved, grouped by
port, and run as one child task per group, each looking its members up in turn;
`groups` holds the members still to come, and which of them is next is left open,
for nothing promised rests on it.
The exchanges inside a poll are the port's business and appear here only as
succeeding or failing.  The refusals of `add` for its arguments alone (settings
for a source that has its own, an unknown temperature unit) change nothing and
are left out.

### `Recorder`

The producer's loop with its absolute schedule, `_publish` under the three
overflow policies, `auto_reconnect` with and without a factory, the consumer, and
the context manager's exit.  Time is an integer that moves only while the
producer awaits (a sleep, a poll, a backoff, a rebuild, a blocked send); what it
does between two awaits takes none.  A batch is the number of the tick it was
polled for.  `duration=None` is the same loop without its bound and is not
modelled apart.

### `Sinks`

`pipe()`, one sink and what a reader finds in its file or table.  `store` is that
file or table, `cached` the rows in a file object or Parquet writer that are not
readable yet, `locked` the schema lock, `column` the type of the value column of
the table, `counted` the samples some pipe has counted.  A row is the number of
its sample; its value matters only through its type, which is what the schema is
inferred from and what a strict column refuses.  `SamplesNumbered` says that the
samples of a stream are numbered in order, which is how the model names them.

| model | code |
|---|---|
| `Start`, `Receive`, `StreamEnds`, `Counted` | `sinks/base.py` `pipe`: the buffer, its two thresholds, the flush at the end |
| `Inferred`, `Fits`, `LockTo` | `sinks/_schema.py`: inference from the first batch, or from the table |
| `Open*`, `Introspect*`, `Close*` | `open` and `close` of each sink |
| `CreateSqlite`, `CreatePostgres` | the `CREATE TABLE` after the lock and before the insert |
| `InsertSqlite`, `CopyPostgres`, `RolledBack` | one transaction or COPY per buffer |
| `WriteCsv`, `WriteJsonl`, `WriteParquet`, `WriteMemory`, `Flushed`, `Dropped` | the other sinks; how much of a text file's buffer reaches the file |
| `Cancelled`, `*Fails`, `Die`, `Restart` | cancellation where the sinks await, errors, a killed process |

A second pipe may run on the same sink, a sink may be closed and reopened, and
each goes on with the schema lock and the INSERT statement it has, because the
code's `close` keeps them.  Column values, quoting and SQL text are left out.

### `Segment`, `Opening`

`Segment` is the outside: ports and who holds their handles, devices with what
they are set to and have stored, and what an exchange may bring.  On Standard Bus
any frame that is there is read, late ones of an earlier exchange on the same
handle first; anymodbus drains the line and matches its slave.

`Opening` is one program that makes calls: `pc` is the await a call is at, `at`
the port, protocol, framing, address and profile of the transport in use, `got`
what the reads of the identify under way gave, `turn` the round of a scan's three
nested loops (`Combo` gives the port, baud and plan entry of a round) and the
address in it.

| model | code |
|---|---|
| `CallOpen`, `Open`, `TryStdbus`, `TryModbus`, `Probed`, `ProbeFails`, `OpenReturns` | `devices/factory.py` `open_device`, `protocol/detect.py` |
| `CallIdentify`, `Read`, `Complete`, `*Health`, `Identified`, `IdentifyReturns` | `Controller.identify` and the strategies of `devices/profile.py` |
| `CallMaintenance`, `Refuse`, `Gate`, `Write`, `Reopen`, `StrictRead`, `Verified` | `maintenance.py`: confirmation, SKU gate, write, delay, reopening, `_verify` |
| `CallScan`, `Prune`, `NextCombo`, `OpenCombo`, `ComboFails`, `DeadPort`, `SkipAddress`, `ProbeEnds`, `Expires` | `devices/discovery.py` `find_devices` |
| `Unwound` | the `with` blocks and `finally` clauses of all of them |
| `TakesEffect` | the device: a stored setting comes into force, at once or later |

A device stores what it is told and switches to it whenever it does.  Two handles
on one port at a time are refused by the operating system.  `aclose` closes its
handle even when the closing is cancelled.  `Shapes` are the arguments calls may
have; `prune` stands for `baudrates=None`.

### `Registry`, `StdBusCodec`, `ModbusCodec`, `Parameters`

The first three are operators: rows of the bundled JSON files to specs, names and
aliases to rows (`registry/`); CRCs, frames, tagged values and the attribute
service, with the client's search for a frame in what has come in
(`protocol/stdbus/`); registers, scaling and the mapping of errors
(`protocol/modbus/`).  Bytes are bytes and words are words; a number is in
thousandths, and an IEEE float is any one-to-one code of a number in four bytes.

`Parameters` runs them between a `Controller` and a device.  `held` is the
device's memory by parameter and instance; `Refuse`, `Raise` and `Send` are a
call up to the wire (`commands/parameters.py`), `AnswerStdBus` and `AnswerModbus`
the device, `ReceiveStdBus` and `ReceiveModbus` the way back, `SetAtPanel`
somebody at the front panel.  The device is a second implementation: its CRCs are
the standard's, bit by bit, and its encoding is written from the rows, so that a
mistake made twice in the library would show.  Noise may precede a frame and bits
of it may be flipped; answers come in time (those that do not are `StdBusPort`'s).
Over Modbus it stores nothing in a parameter that its row says is only read.

What the constants may be is assumed by name, in the first part of the module, and
TLC evaluates it on every run of `MCParameters`: `RowAssumption` is what a row of
the JSON files can say, `MemoryAssumption` what the device holds, `RequestAssumption`
what a caller asks.  The bundled files meet the first, but for the numbers they
print (below); the others leave out what the properties could not hold of:

- two parameters at the same registers.  The PM file has two such pairs, 4022 and
  8031 at 400403 and 12013 and 18013 at 400745, of which a device has one each;
- a name asked for that several rows share.  45 names of the PM file do (`units`
  among them, whose rows 4042 and 34029 the overrides displace); which row they
  mean is the registry's choice, and no document's;
- a write to a register that is no parameter's.  The one writable PM parameter
  without an address is a float, which would go to registers 0 and 1, where the
  hardware id is: that the device refuses it is the assumption `addr = 0 =>
  rwes = "R"`;
- decimal places that follow another register than the one identified, and a
  parameter with such places that can be written: all of the F4P's follow 606, and
  all are read-only.

## Runs

| run | question | states |
|---|---|---|
| `port` | two tasks, two controllers (one lacks a parameter, one an instance), two jobs out of: a batch over both with a call that cannot be encoded, a confirmed write, an unconfirmed one, a two-step read | 243 271 |
| `manager` | two tasks, two names, an owned port and a lent transport no Modbus client fits, three operations and one poll | 149 155 |
| `recorder` | four ticks of two clock units, a stream of two batches, polls of up to two and a half periods, backoffs shorter and longer than a period; all policies, all reconnect modes | 335 328 |
| `sinks` | three ticks of one or two samples whose types do not mix, a buffer of two, each kind of sink over no table, a fitting and a narrower one, six opens, pipes and restarts | 34 047 |
| `opening` | two ports, one without devices; installations of an EZ-ZONE without and one with Modbus, on one protocol or on two, and of an F4P with an SD; two calls out of seventeen | 246 697 |
| `codec` | two calls each on an EZ-ZONE over either protocol, a Series SD and an F4P, an answer coming in whole, with one of thirteen sets of bits flipped, behind one of three kinds of noise, or with both (`Damage`) | 44 888 |
| `late_reply`, `sticky`, `readd`, `poll_remove`, `overrun`, `unaddressed` | one statement of the repository each that the code does not keep, see below | |

The bounds are small because the hazards are: a stale reply needs two calls and
one timeout, a broken hand-over of the lock two tasks and a cancellation, a
zombie port entry a removal, a cancellation and an addition (three operations),
an overrun past the end more than one period.  A sample stored twice takes an
open, a pipe that fails and a second one, a restart between them two more; a row
or verdict from a late reply takes one exchange given up before it on the same
handle, which one call contains, and a rescaling after an identify two calls.
`MaxJobs`, `MaxOps`, `MaxPolls`, `MaxStarts` and `MaxCalls` bound how much is
started.  `MaxLine` cuts the frames still to come on a handle at two, one more
than the exchange that reads them; `PreambleScanLimit` is 64 instead of 256 and
`MaxPayloadLen` 40 instead of 512, both longer than any noise or payload of the
run but for the lengths that flipped bits make.  Nothing else is cut off, so
every run reaches every state its jobs lead to.  Every run says
`CHECK_DEADLOCK FALSE`, because each system comes to rest when its bounded work
is done; that the work is done is checked as liveness (`JobsEnd`,
`OperationsEnd`, `RecorderEnds`).

### What holds

- `port`: `LockDiscipline` (a task between taking and giving back the lock owns
  it; nobody waits twice, for himself, or for a free lock), `OwedReplies` (frames
  in flight or unread are at most the exchanges given up plus the one on the
  wire), `UnsupportedIsTrue`, `BatchIsolation`, `ImplementsService` (the
  refinement of `PortService`), `JobsEnd`.
- `manager`: `RefsExact`, `OneClientPerPort`, `NoLeakedTransport`, `LiveClients`,
  `PollReportsAll`, `ClosedWhenUnused`, `CloseIsFinal`, `OperationsEnd`.
- `recorder`: `Accounting` (ticks gone by = emitted + late - evicted, always),
  `OnSchedule`, `BlockLosesNothing`, `FreshestKept`, `Delivery`, `ExitIsFinal`,
  `RecorderEnds`.
- `sinks`: `CountedIsDurable` (SQL rows once counted stay), `StoredOnce`,
  `TicksAreWhole`, `SummaryIsTrue` (a summary returned counts each sample taken,
  and each is there, in every sink).
- `opening`: `HandedOrClosed`, `RowsInOrder` (one row per combination and address,
  whatever fails), `RowsTrue`, `VerifiedIsTrue`, `GateHolds`, `ScaleIsTrue`.
- `codec`: `ReadIsTrue`, `WriteIsKept`, `IntactOrNothing`.

### What the code does not keep

- `late_reply`: after a timeout the late reply is returned as the answer to the
  next call, even another parameter's.  `set_setpoint` documents its result as
  the device's echo of the value it accepted, and `transport/base.py` speaks of
  a flush after a framing error that no client makes.
- `sticky`: a request goes out for a key found UNSUPPORTED while its task
  waited for the lock.
- `readd`: a `remove` cancelled while its transport closes leaves a port entry
  with a disposed client; the next `add` returns a controller bound to it.
- `poll_remove`: removing a controller during a poll ends the poll in a
  `KeyError`, the reports on all others included.
- `overrun`: the skip after an overrun is not compared with the end of the
  recording, and one slot past it is polled.
- `unaddressed`: rows whose Modbus address is "N/A", the part number among them,
  load with address 0 and are read from, and written to, register 0 over Modbus.

### What the properties make an exception for

Some of what goes wrong is stated in a property rather than as a run of its own,
so that the property says just how far the code can be relied on:

- `HandedOrClosed`: `open_device` identifies outside any handler
  (`devices/factory.py:178`); an error or a cancellation there leaves the port
  open with nobody who could close it.
- `RowsTrue`, `GateHolds`, `VerifiedIsTrue`: nothing drains a Standard Bus line
  between two questions, so that once an exchange on a handle was given up a row,
  the SKU gate or the strict identify may rest on the reply to another question.
  A part number that does not decode lets a change of protocol through.
- `ScaleIsTrue`: a Series SD whose unit register did not answer is healthy all
  the same, with the unit of its profile's default.
- `SummaryIsTrue`: a process killed as it writes JSONL leaves half a line, and the
  next run's first line is appended to it (`sinks/jsonl.py:62`); neither can be
  read.  A pipe that returns may miss that one sample when its file ended in half a
  line as it was opened (`ragged`), and none otherwise.
- `ReadIsTrue`: parameters without a Modbus address are exempt (see
  `unaddressed`), and so are those whose decimal places somebody changed since
  the last identify.
- `WriteIsKept`: the upper end of a range of more than three digits printed
  without commas is read as its first three (`registry/parameters.py:195`), which
  refuses values the row allows (`Misread`).  Over Modbus every instance but the
  first is refused (`LaterLoop`, `commands/parameters.py:217`), for reads and writes,
  where `docs/protocol-modbus.md:52-55` has it that "callers pass `instance=N` and
  the variant computes the right address"; the code's own docstring calls that not
  yet implemented.  Values wrap there at 8 and 16 bits, and the result of a write is
  what was asked for, not what the device kept (`Wraps`).
  A value the parameter's type has no room for escapes as a bare `ValueError` or
  `struct.error` (`NoRoom`).  Each of the four is needed: `codec` fails without it.
- `IntactOrNothing`: an intact frame behind noise that ends in 55 is lost
  (`protocol/stdbus/client.py:243`), the first byte of the preamble being dropped
  with the 55 before it.

### Fairness

`FairSpec` of the port asks weak fairness of each task's own steps: the event
loop runs every ready task, and `fail_after` ends every round-trip, so `GiveUp`
for a timeout is among them.  Nothing is asked of the devices, of cancellation,
or of who starts jobs.  The manager's asks it of operations and polls, whose
awaits (opening, closing, one exchange) are bounded: `SerialTransport.close`
by one second, an exchange by its timeout, an open by the kernel.  The
recorder's asks it of the producer, of the exit, and of the consumer's taking of
batches while it stays in the body, which is an assumption on the caller: under
BLOCK a consumer that stops without leaving keeps the producer waiting by design.
The other modules state safety only and assume no fairness.

## Proofs

`StdBusPortProofs` and `StdBusPortRefinement` prove, for any tasks, devices,
parameters, instances, jobs, answers and number of jobs, from `PortAssumption`
alone:

- `TypeSafety`: `Spec => []TypeOK`
- `LockSafety`: `Spec => []LockDiscipline`
- `BatchSafety`: `Spec => BatchIsolation`
- `OwedSafety`: `Spec => []OwedReplies`
- `UnsupportedSafety`: `Spec => []UnsupportedIsTrue`
- `ServiceRefinement`: `Spec => ImplementsService`

Each is an invariant proof: `Init => IInv`, `IInv /\ [Next]_vars => IInv'`, one
step per action.

- `TypeInv` is `TypeOK` with `JobPoints`: a task about to begin a call has one
  left, a task queued for a batch has a batch.  Without the second, `Head(todo)`
  has no type.
- `LockInv` adds to `LockDiscipline` that a task at `enter`, `lock`, `send` or
  `io` is in just one of two places, owner or queue, stated with `Waiting`, so
  that handing the lock to the head of the queue and taking a cancelled task out
  of its middle both preserve it.
- `OwedInv` counts: a request joins the segment with the task that sends it,
  answering moves it to the buffer, reading takes it off, and giving up raises
  `abandoned` by one as the task leaves the wire.  It needs `LockDiscipline`: two
  tasks on the wire would break the count.
- `BatchSafety` needs no strengthening of its own: a batch between its calls
  owns the lock, and a task that sends does.
- `WireInv` adds to `OwedInv` that, on an open port with nothing given up, every
  request on the segment and every frame in the buffer is about the call of the
  task on the wire, and undamaged frames carry what its device answers.
  `OwedInv` is what makes it inductive: when a task leaves the wire with its
  reply, the count leaves no second frame that could meet the next request.
  The availability and the refinement follow from it.
- In the refinement, `Send` is the service's `Begin`; `Receive` and `ReadFails`
  are `End`; `GiveUp`, and `Cancel` of a task on the wire, are `Abandon`;
  `RefuseCall`, `BeginCall`, `SendFails`, and `Cancel` off the wire, are `Ask`;
  every other step is invisible.

`ManagerProofs` proves, for any tasks, names, ports, transports and requests, from
`ManagerAssumption` and `RequestsAssumption`:

- `RefsAlwaysExact`, `AlwaysOneClientPerPort`, `NeverLeaked`, `ClientsStayLive`:
  `Spec => []RefsExact` and so on
- `ClosedForGood`, `ClosedByLastUser`: the action properties `CloseIsFinal` and
  `ClosedWhenUnused`

The four invariants are conjuncts of one inductive invariant, for none is
inductive alone.  `Types` and `LockInv` say that one task at a time is inside
`add`, `remove` or `close`; `PointInv` says what that task knows at each await
(in `add`, that its name is free and its entry's client the one it will bind; in
a teardown, that the entry it closes has no reference left), without which the
step after the await could be about another entry; `ClientInv` keeps serial
numbers of clients apart, so that a new client is not one of the disposed ones;
`OrderInv` ties the dict's order to its members, so that `close` empties it by
working through it.  A closed manager has an empty dict, which is why nothing
comes back after `close`.

`RecorderProofs` proves, for any duration, period, buffer size and delays, from
`RecorderAssumption`:

- `TypeSafety`, `AlwaysAccounted`, `AlwaysOnSchedule`, `AlwaysDelivered`,
  `NothingLostUnderBlock`, `AlwaysFreshest`: `Spec => []TypeOK`, `Accounting`,
  `OnSchedule`, `Delivery`, `BlockLosesNothing`, `FreshestKept`
- `FinalAfterExit`: `Spec => ExitIsFinal`

The schedule rests on a lemma about the integer division that computes the slots
missed: the skipped-to slot is no later than the clock and within a period of it.
`BatchInv` strengthens `Delivery`: taken and queued batches form one increasing
sequence that ends before the current tick, and their number with the evicted
ones is what was emitted.  `FreshInv` strengthens `FreshestKept`: the batches
polled are some sequence followed by the stream's contents, and no send waits;
evicting the head moves it to the end of that sequence.  `Joined` says that the
producer is stopped once the context manager has exited.

A poll reports on everyone it was asked about (`PollsReportAll`) because, by
`PollInv`, while it runs its targets are those reported together with the members
of its groups.  `TypesKept` proves `TypeOK`, with `MoreTypes` for what it leaves
out.

`SinksProofs` proves, for any stream, batch size, kind of sink, table and number of
starts, from `SinksAssumption` and `SamplesNumbered`, `Spec => []P` for all five
properties of the sinks: `SinkTypes`, `CountedStaysDurable`, `StoredOnceInOrder`,
`TicksStayWhole` and `SummaryStaysTrue`.  They are conjuncts or consequences of
`SinkInv`:

- `RowsWhereTheyBelong`: which sinks hold rows back, and which are bare when closed;
- `InStreamOrder`: rows stored, held back, buffered and still to come follow one
  another in the stream's order, which is why none is stored twice;
- `BatchesAreWhole`: what is stored, held back or buffered is made of whole batches,
  for a transaction, COPY or row group takes the whole buffer or nothing;
- `TakenIsAccounted`: in a pipe that has not failed each sample taken is stored,
  held back or in the buffer, and the counter is their number outside the buffer.

`CountedStaysDurable` goes through `SqlStep`: whatever it does, a step of a SQL sink
adds nothing to the table, or all of the buffer; and it counts the buffer only as
it adds it.

`OpeningProofs` and `OpeningTruth` prove all seven properties of the opening calls,
for any ports, devices, settings, calls and number of calls, from
`OpeningAssumption` (calls have the arguments of `Shapes`) and `SegmentAssumption`
(at first only EZ-ZONEs are set to Standard Bus and only units with Modbus to
Modbus).

- `AlwaysHandedOrClosed`: `Shape` adds to `HandedOrClosed` that a call at `identify`
  of a caller's Controller works on the caller's transport, and that a session
  knows its port; with that each step is of one of a few kinds (it leaves the
  holders, takes the port, lets it go, or hands it over), and each kind preserves
  the invariant.
- `CallTypes`: `TypeOK` from `TypesInv`, which says for each variable what it is at
  each point of each call: devices speak what they can (`DevicesInv`), a handle on
  which nothing was given up has nothing still to come (`WireInv`), a call is only
  at its own points (`CallInv`), and so on.  `HInv` and it are `Sound`, on which the
  rest is built.
- `WhatIsVerified`, `GateNeverErrs`, `ScaleStaysTrue`, `RowsStayTrue`: from
  `TruthInv`, which follows the replies.  `AnswersInv` is its heart: if nothing was
  given up on the handle, or the line is drained, what `got` holds are the answers
  of devices to these very questions.  `HereInv` says that a maintenance helper
  hears only the place it asks, `GivenInv` what the gate and the strict first read
  let through, `ToldInv` that from the acknowledged write on the setting is stored.
  A device may take its stored setting over at any moment, so no invariant says
  who hears; each reply remembers its device instead.
- `RowsComeInOrder`: from `ScanInv`, which has the number of rows for the round and
  address a scan is at: the rounds of the plan before (`Before`) times the
  addresses, and the addresses before.  It rests on lemmas about `Before`, which
  grows by one at each round of the plan and stays at those pruned (`BeforeIs`),
  and about the place of a row, which two rounds and addresses never share
  (`RowsApart`).

`ParametersProofs` proves, for any installation, rows, memory, settings, requests,
damage and number of calls that the assumptions of `Parameters` allow:

- `Typed`: `Spec => []TypeOK`
- `ReadsAreTrue`, `WritesAreKept`: `Spec => [](NothingElseIsTaken => ReadIsTrue)`
  and the same of `WriteIsKept`
- `ModbusIsTrue`: over Modbus both hold as they are, that is with the exceptions they
  name (above).

`NothingElseIsTaken`, that on Standard Bus nothing but an intact answer is taken for
one, cannot be had for any `Damage`: bits can be flipped so that the CRCs are right
again, and noise can be a frame.

The operators are recursive functions over sequences of bytes, digits and rows, and
what they compute needs induction.  The library's induction theorems take an operator
as a parameter, which no backend can instantiate; `SetInduction` gets by with a set
instead, and is proved from counting: were n the first number outside S, those up to
n outside S would be mapped one-to-one into themselves by i |-> i - 1, and so onto
themselves.  Each recursive function then has an operator that says it is one (`...UpTo`)
and lemmas for its existence, its values and their type; the lemmas about what it
computes follow by `SetInduction`.  On those rest

- `WordsBack`, `TagRead`, `TagWritten`, `ReadInWords`, `WriteInWords`: a value in
  bytes, tagged or in registers, comes back as it was, of each type, with the sign,
  the padding, the rounding and the wrapping the code gives it;
- `RegistryBuilt`, `RegistryIdentified`, `ResolvedIsAsked`: the registry that is built
  of the rows has each parameter once, names mean what they are documented to mean,
  whatever the order of the rows, and stays so after a rescaling;
- `UpperEndBelow`, `Accepts`, `NotRefused`, `RaisedForNoRoom`: a misread upper end is
  never too high, so that what is sent is documented; what is refused is not, or is
  misread, or is a later loop over Modbus; a bare error is for a value without room;
- `DeviceFrameParts`, `RequestFrameParts`, `StdAnswered`, `BlockIsOne`, `ModbusRead`,
  `ModbusWrite`: the device is asked for the parameter that was meant and answers
  about it.

The invariant `IInv` has five parts.  `Listed` says that the registry is the one of
the rows, scaled as last identified; `Memory`, that each cell holds what its type can;
`Asking`, that a request is of one documented parameter, and its answer about it;
`Ended`, that a result on Modbus comes of the answer to its own request; `Bounded` is
the rest of the types.  On Standard Bus the result is a matter of what is on the line,
about which the invariant says nothing but that it is bytes: `NothingElseIsTaken` ties
it to the answer.

Only model-checked:

- the liveness properties, `JobsEnd`, `OperationsEnd` and `RecorderEnds` (TLAPS
  proves no liveness under fairness);
- the first half of `IntactOrNothing` in general and, for the damage that a CRC
  cannot see, the second.

## Not modelled

- The sync facade (`sync/`): each call is handed to an event-loop thread and waited
  for, so the behaviours are those of the asynchronous core.
- The command line, the test doubles, logging and configuration: no state machine
  of their own.  Samples and the polling adapter of `streaming/`: immutable
  records and a stateless conversion.
- `read_pid` and `write_pid`: sequences of single calls, each taking the lock; as
  jobs of `StdBusPort` they make its run too large to finish.  That a writer may
  come between two gains although the docstring promises a consistent snapshot is
  listed as a hazard.
- `snapshot`, the label of the communication unit and `set_persistent_writes`.
- The transport below frames: pushback, `read_available` and `reopen`, and what is
  left in a read that was cancelled half-way.
- Modbus below operations: anymodbus frames, drains and matches.
- The composition of the recorder with a manager and its ports: a lost connection
  that `poll_controller` swallows never reaches `auto_reconnect`.
- Names of ports: a port is the key its name canonicalises to.

## Plan

1. *Composition*: the recorder over a manager over a port, small enough to check,
   for what a lost connection does to `auto_reconnect`.
2. *Loops*: `read_pid` and `write_pid` over an abstract port that only grants the
   lock, against the docstring's promise of a consistent snapshot.
3. *Below frames*: the transport's pushback and a cancelled read, refined to the
   frames of `StdBusPort`.
4. *Proofs*: which damage the CRCs are sure to detect.
