------------------------------- MODULE Manager -------------------------------
(***************************************************************************)
(* WatlowManager: controllers registered by name over shared, ref-counted  *)
(* ports.  add, remove and close run under the manager's state lock and    *)
(* await only to open or to close a transport; poll, poll_many and         *)
(* execute_each take no manager lock, so registrations change under them.  *)
(* The exchanges themselves are the subject of StdBusPort.                 *)
(***************************************************************************)
EXTENDS Naturals, Sequences, FiniteSets

CONSTANTS
    Task,     \* tasks that call add, remove and close
    Nobody,   \* the state lock is free
    Name,     \* manager-level controller names
    Owned,    \* ports given by path: the manager makes and owns the transport
    Lent,     \* caller's Transport objects, keyed by identity
    BusLent,  \* those of them that are ModbusBusTransports
    Absent,   \* the name is not registered
    Solo,     \* registered with a pre-built Controller: no port entry
    Policy,   \* ErrorPolicy: "raise" or "return"
    Requests, \* what the tasks ask for
    MaxOps,   \* bound: operations started in all
    MaxPolls  \* bound: polls started in all

Port == Owned \cup Lent
Protocol == {"stdbus", "modbus_rtu"}
PollKind == {"poll", "poll_many", "execute_each"}

ASSUME ManagerAssumption ==
    /\ Nobody \notin Task
    /\ Owned \cap Lent = {}
    /\ BusLent \subseteq Lent
    /\ Absent \notin Port /\ Solo \notin Port /\ Absent # Solo
    /\ Policy \in {"raise", "return"}
    /\ MaxOps \in Nat /\ MaxPolls \in Nat

\* What an operation is asked to do; remove and close ignore port and kind,
\* close the name as well.
Op == [do : {"add", "remove", "close"}, name : Name, port : Port \cup {Solo},
       kind : Protocol \cup {"auto"}]

NoOp == CHOOSE o \in Requests : TRUE

ASSUME RequestsAssumption == Requests # {} /\ Requests \subseteq Op

VARIABLES
    pc,         \* [Task -> Points]
    op,         \* [Task -> Op]: the operation each task runs; NoOp when idle
    owner,      \* _state_lock: the task inside it, or Nobody
    portOf,     \* _DeviceEntry.port_key of each name, Absent or Solo
    order,      \* _devices in insertion order
    controller, \* the client each registered name's session is bound to
    entry,      \* which ports have a _PortEntry
    client,     \* _PortEntry.client: 0 is None, otherwise its serial number
    protocol,   \* _PortEntry.protocol, or "none"
    refs,       \* _PortEntry.refs
    isOpen,     \* transport.is_open
    made,       \* clients made so far
    disposed,   \* the clients disposed of
    closed,     \* _closed
    poll,       \* the poll in progress or the last one
    cancelled,  \* history: was a task cancelled while it closed a transport?
    ops, polls  \* history: operations and polls started, for the bounds

opVars == <<pc, op, owner>>
deviceVars == <<portOf, order, controller>>
entryVars == <<entry, client, protocol, refs>>
clientVars == <<made, disposed>>
countVars == <<ops, polls>>
vars == <<opVars, deviceVars, entryVars, isOpen, clientVars, closed, poll,
          cancelled, countVars>>

\* idle; awaiting the state lock; inside it; awaiting transport.open;
\* awaiting transport.close; between two devices of close.
Points == {"idle", "want", "in", "opening", "closing", "loop"}

Registered == {n \in Name : portOf[n] # Absent}
Users(p) == {n \in Name : portOf[n] = p}

NoPoll == [state |-> "none", kind |-> "poll", targets |-> {},
           groups |-> [g \in Port \cup Name |-> {}],
           busy |-> {}, reported |-> {}, failed |-> FALSE]

Init ==
    /\ pc = [t \in Task |-> "idle"]
    /\ op = [t \in Task |-> NoOp]
    /\ owner = Nobody
    /\ portOf = [n \in Name |-> Absent]
    /\ order = <<>>
    /\ controller = [n \in Name |-> 0]
    /\ entry = [p \in Port |-> FALSE]
    /\ client = [p \in Port |-> 0]
    /\ protocol = [p \in Port |-> "none"]
    /\ refs = [p \in Port |-> {}]
    /\ isOpen \in {f \in [Port -> BOOLEAN] : \A p \in Owned : ~f[p]}
    /\ made = 0
    /\ disposed = {}
    /\ closed = FALSE
    /\ poll = NoPoll
    /\ cancelled = FALSE
    /\ ops = 0
    /\ polls = 0

-----------------------------------------------------------------------------
(***************************************************************************)
(* The state lock                                                          *)
(***************************************************************************)

\* A task calls add, remove or close, which queue for the state lock.
Call(t) ==
    /\ pc[t] = "idle"
    /\ ops < MaxOps
    /\ ops' = ops + 1
    /\ \E o \in Requests : op' = [op EXCEPT ![t] = o]
    /\ pc' = [pc EXCEPT ![t] = "want"]
    /\ UNCHANGED <<owner, deviceVars, entryVars, isOpen, clientVars, closed,
                   poll, cancelled, polls>>

Enter(t) ==
    /\ pc[t] = "want"
    /\ owner = Nobody
    /\ owner' = t
    /\ pc' = [pc EXCEPT ![t] = IF op[t].do = "close" /\ ~closed THEN "loop" ELSE "in"]
    /\ UNCHANGED <<op, deviceVars, entryVars, isOpen, clientVars, closed, poll,
                   cancelled, countVars>>

\* Mutant: the lock is kept on the way out.
LeaveHolding(t) ==
    /\ pc' = [pc EXCEPT ![t] = "idle"]
    /\ op' = [op EXCEPT ![t] = NoOp]
    /\ UNCHANGED owner

\* The operation returns or raises, and leaves the state lock.
Leave(t) ==
    /\ pc' = [pc EXCEPT ![t] = "idle"]
    /\ owner' = Nobody
    /\ op' = [op EXCEPT ![t] = NoOp]

\* The operation goes on at point x with the lock in hand.
GoTo(t, x) == pc' = [pc EXCEPT ![t] = x] /\ UNCHANGED <<op, owner>>

\* Mutants: names in use are not refused; a closed manager refuses nothing.
RefusedNotTaken(o) ==
    \/ closed
    \/ o.do = "add" /\ o.port # Solo /\ o.kind = "auto"
    \/ o.do = "remove" /\ o.name \notin Registered
RefusedNotClosed(o) ==
    \/ o.do = "add" /\ o.name \in Registered
    \/ o.do = "remove" /\ o.name \notin Registered

\* A closed manager, a name in use, a protocol the port's link does not speak
\* (or AUTO) and an unknown name are refused with nothing changed; so is
\* closing twice.
Refused(o) ==
    \/ closed
    \/ o.do = "add" /\ o.name \in Registered
    \/ o.do = "add" /\ o.port # Solo /\ o.kind = "auto"
    \/ /\ o.do = "add" /\ o.port # Solo
       /\ entry[o.port] /\ protocol[o.port] # o.kind
    \/ o.do = "remove" /\ o.name \notin Registered

Refuse(t) ==
    /\ pc[t] = "in"
    /\ Refused(op[t])
    /\ Leave(t)
    /\ UNCHANGED <<deviceVars, entryVars, isOpen, clientVars, closed, poll,
                   cancelled, countVars>>

-----------------------------------------------------------------------------
(***************************************************************************)
(* add                                                                     *)
(***************************************************************************)

\* _devices[name] = _DeviceEntry(...), bound to client c.
Register(n, p, c) ==
    /\ portOf' = [portOf EXCEPT ![n] = p]
    /\ order' = Append(order, n)
    /\ controller' = [controller EXCEPT ![n] = c]

AddSolo(t) ==
    /\ pc[t] = "in" /\ op[t].do = "add" /\ op[t].port = Solo
    /\ ~Refused(op[t])
    /\ Register(op[t].name, Solo, 0)
    /\ Leave(t)
    /\ UNCHANGED <<entryVars, isOpen, clientVars, closed, poll, cancelled, countVars>>

\* make_protocol_client: Modbus needs a ModbusBusTransport, which a transport
\* the manager made for this port is.
Fits(p, k) == k = "modbus_rtu" => p \in Owned \cup BusLent

\* Mutant: every controller gets a client, and so a lock, of its own.
OwnClient(p) == made + 1

\* The client a controller on port p is bound to: the entry's, or a new one.
ClientOf(p) == IF client[p] = 0 THEN made + 1 ELSE client[p]

\* The transport of port p is open: the client is made unless the entry has
\* one already, and the controller registered on it.
Bind(t, p, k) ==
    LET c == ClientOf(p) IN
    /\ client' = [client EXCEPT ![p] = c]
    /\ protocol' = [protocol EXCEPT ![p] = k]
    /\ made' = IF c > made THEN c ELSE made
    /\ refs' = [refs EXCEPT ![p] = @ \cup {op[t].name}]
    /\ entry' = [entry EXCEPT ![p] = TRUE]
    /\ Register(op[t].name, p, c)
    /\ Leave(t)
    /\ UNCHANGED disposed

\* The add raises: an entry it had just made is taken down again.
Unbind(t) == Leave(t) /\ UNCHANGED <<deviceVars, entryVars, clientVars>>

AddOnPort(t) ==
    /\ pc[t] = "in" /\ op[t].do = "add" /\ op[t].port # Solo
    /\ ~Refused(op[t])
    /\ LET p == op[t].port
           k == op[t].kind
       IN IF ~isOpen[p]
          THEN GoTo(t, "opening") /\ UNCHANGED <<deviceVars, entryVars, clientVars>>
          ELSE IF client[p] # 0 \/ Fits(p, k) THEN Bind(t, p, k) ELSE Unbind(t)
    /\ UNCHANGED <<isOpen, closed, poll, cancelled, countVars>>

\* transport.open returns, raises, or the adding task is cancelled in it.  A
\* lent transport stays open when no client can be made for it.
Opened(t) ==
    /\ pc[t] = "opening"
    /\ LET p == op[t].port
           k == op[t].kind
       IN /\ isOpen' = [isOpen EXCEPT ![p] = TRUE]
          /\ IF client[p] # 0 \/ Fits(p, k) THEN Bind(t, p, k) ELSE Unbind(t)
    /\ UNCHANGED <<closed, poll, cancelled, countVars>>

OpenFails(t) ==
    /\ pc[t] = "opening"
    /\ Unbind(t)
    /\ UNCHANGED <<isOpen, closed, poll, cancelled, countVars>>

-----------------------------------------------------------------------------
(***************************************************************************)
(* remove, close and the teardown they share                               *)
(***************************************************************************)

\* The sequence s without the element e, which it holds once.
Drop(s, e) ==
    LET i == CHOOSE k \in 1..Len(s) : s[k] = e
    IN  SubSeq(s, 1, i - 1) \o SubSeq(s, i + 1, Len(s))

\* Mutant: the entry of a port that was torn down is left behind.
PopNothing(p) == UNCHANGED <<entry, client, protocol>>

\* _ports.pop of port p.
PopEntry(p) ==
    /\ entry' = [entry EXCEPT ![p] = FALSE]
    /\ client' = [client EXCEPT ![p] = 0]
    /\ protocol' = [protocol EXCEPT ![p] = "none"]

\* Mutants: the ref is not discarded; the port goes down with any of its
\* users; the refs are looked at before the discard.
KeepsRef(p, n) == refs[p]
AnyUser(p, n) == TRUE
LastUserEarly(p, n) == refs[p] = {}

\* port_entry.refs.discard(name), and whether that was the last one.
Discard(p, n) == refs[p] \ {n}
LastUser(p, n) == Discard(p, n) = {}

\* The device n is popped and its port torn down if it was the last one on
\* it: the client is disposed of and, if the transport is owned and open,
\* closed -- SerialTransport.close gives up its port before it awaits.  after
\* is where the operation goes on when no close is awaited.
Teardown(t, n, after) ==
    LET p == portOf[n] IN
    /\ portOf' = [portOf EXCEPT ![n] = Absent]
    /\ order' = Drop(order, n)
    /\ controller' = [controller EXCEPT ![n] = 0]
    /\ IF p = Solo
       THEN after /\ UNCHANGED <<entryVars, isOpen, disposed>>
       ELSE /\ refs' = [refs EXCEPT ![p] = Discard(p, n)]
            /\ IF ~LastUser(p, n)
               THEN after /\ UNCHANGED <<entry, client, protocol, isOpen, disposed>>
               ELSE /\ disposed' = disposed \cup {client[p]}
                    /\ IF p \in Owned /\ isOpen[p]
                       THEN /\ isOpen' = [isOpen EXCEPT ![p] = FALSE]
                            /\ pc' = [pc EXCEPT ![t] = "closing"]
                            /\ op' = [op EXCEPT ![t].port = p]
                            /\ UNCHANGED <<owner, entry, client, protocol>>
                       ELSE after /\ PopEntry(p) /\ UNCHANGED isOpen
    /\ UNCHANGED made

Remove(t) ==
    /\ pc[t] = "in" /\ op[t].do = "remove"
    /\ ~Refused(op[t])
    /\ Teardown(t, op[t].name, Leave(t))
    /\ UNCHANGED <<closed, poll, cancelled, countVars>>

\* One device of close, the last one added first.
CloseNext(t) ==
    /\ pc[t] = "loop"
    /\ order # <<>>
    /\ Teardown(t, order[Len(order)], GoTo(t, "loop"))
    /\ UNCHANGED <<closed, poll, cancelled, countVars>>

CloseEnds(t) ==
    /\ pc[t] = "loop"
    /\ order = <<>>
    /\ closed' = TRUE
    /\ Leave(t)
    /\ UNCHANGED <<deviceVars, entryVars, isOpen, clientVars, poll, cancelled, countVars>>

\* transport.close is done, whatever it met: an Exception is logged.
ClosedTransport(t) ==
    /\ pc[t] = "closing"
    /\ PopEntry(op[t].port)
    /\ IF op[t].do = "close" THEN GoTo(t, "loop") ELSE Leave(t)
    /\ UNCHANGED <<deviceVars, refs, isOpen, clientVars, closed, poll, cancelled, countVars>>

\* The operation is cancelled: waiting for the state lock it just goes; in
\* transport.close the cancellation is no Exception, and _ports.pop is skipped.
\* (In transport.open, see OpenFails.)
Cancel(t) ==
    /\ pc[t] \in {"want", "closing"}
    /\ pc' = [pc EXCEPT ![t] = "idle"]
    /\ owner' = IF pc[t] = "closing" THEN Nobody ELSE owner
    /\ cancelled' = (cancelled \/ pc[t] = "closing")
    /\ op' = [op EXCEPT ![t] = NoOp]
    /\ UNCHANGED <<deviceVars, entryVars, isOpen, clientVars, closed, poll, countVars>>

-----------------------------------------------------------------------------
(***************************************************************************)
(* poll, poll_many and execute_each                                        *)
(***************************************************************************)

\* The key a target is grouped under: its port, or itself when it is solo.
GroupOf(n) == IF portOf[n] = Solo THEN n ELSE portOf[n]

\* The names, all or those given, are resolved and grouped at once; one child
\* task per group starts, and goes through its members in the order they were
\* given in.  An unknown name is refused before anything happens.
StartPoll ==
    /\ poll.state # "running"
    /\ polls < MaxPolls
    /\ polls' = polls + 1
    /\ \E kind \in PollKind, names \in SUBSET Registered \ {{}} :
          poll' = [NoPoll EXCEPT
                      !.state = "running", !.kind = kind, !.targets = names,
                      !.groups = [g \in Port \cup Name |-> {n \in names : GroupOf(n) = g}]]
    /\ UNCHANGED <<opVars, deviceVars, entryVars, isOpen, clientVars, closed,
                   cancelled, ops>>

\* A group turns to its next member, whichever that is, and looks it up.  A name
\* removed since is a KeyError: it ends the whole task group, the other ports'
\* included.
Lookup(g) ==
    /\ poll.state = "running"
    /\ poll.groups[g] \cap poll.busy = {}
    /\ \E n \in poll.groups[g] :
          poll' = IF n \in Registered
                  THEN [poll EXCEPT !.busy = @ \cup {n}]
                  ELSE [poll EXCEPT !.state = "crashed", !.busy = {}]
    /\ UNCHANGED <<opVars, deviceVars, entryVars, isOpen, clientVars, closed,
                   cancelled, countVars>>

\* Mutant: a failed member is left out, as poll_many leaves out its samples.
DropFailed(kind, ok) == ok

\* Whether a member's outcome is recorded under its name: poll_many only
\* collects the samples of the reads that succeed.
Recorded(kind, ok) == kind # "poll_many" \/ ok

Polled(g, ok) ==
    /\ poll.state = "running"
    /\ \E n \in poll.groups[g] \cap poll.busy :
          poll' = [poll EXCEPT !.busy = @ \ {n},
                               !.groups[g] = @ \ {n},
                               !.reported = IF Recorded(poll.kind, ok) THEN @ \cup {n} ELSE @,
                               !.failed = @ \/ ~ok]
    /\ UNCHANGED <<opVars, deviceVars, entryVars, isOpen, clientVars, closed,
                   cancelled, countVars>>

\* The task group is joined; only execute_each looks at the error policy.
EndPoll ==
    /\ poll.state = "running"
    /\ \A g \in Port \cup Name : poll.groups[g] = {}
    /\ poll' = [poll EXCEPT !.state =
          IF poll.kind = "execute_each" /\ Policy = "raise" /\ poll.failed
          THEN "raised" ELSE "returned"]
    /\ UNCHANGED <<opVars, deviceVars, entryVars, isOpen, clientVars, closed,
                   cancelled, countVars>>

-----------------------------------------------------------------------------
OpStep(t) ==
    \/ Enter(t) \/ Refuse(t) \/ AddSolo(t) \/ AddOnPort(t) \/ Opened(t) \/ OpenFails(t)
    \/ Remove(t) \/ CloseNext(t) \/ CloseEnds(t) \/ ClosedTransport(t)

PollStep ==
    \/ \E g \in Port \cup Name : Lookup(g) \/ \E ok \in BOOLEAN : Polled(g, ok)
    \/ EndPoll

Next ==
    \/ \E t \in Task : Call(t) \/ OpStep(t) \/ Cancel(t)
    \/ StartPoll
    \/ PollStep

Spec == Init /\ [][Next]_vars

\* The event loop runs every ready task; opening a port and closing one end.
FairSpec == Spec /\ WF_vars(PollStep) /\ \A t \in Task : WF_vars(OpStep(t))

-----------------------------------------------------------------------------
\* Every variable has its type; the devices are a dict in insertion order.
TypeOK ==
    /\ pc \in [Task -> Points]
    /\ op \in [Task -> Op]
    /\ owner \in Task \cup {Nobody}
    /\ portOf \in [Name -> Port \cup {Absent, Solo}]
    /\ order \in Seq(Name)
    /\ {order[i] : i \in DOMAIN order} = Registered
    /\ Len(order) = Cardinality(Registered)
    /\ controller \in [Name -> Nat]
    /\ entry \in [Port -> BOOLEAN]
    /\ client \in [Port -> Nat]
    /\ protocol \in [Port -> Protocol \cup {"none"}]
    /\ refs \in [Port -> SUBSET Name]
    /\ isOpen \in [Port -> BOOLEAN]
    /\ made \in Nat
    /\ disposed \subseteq Nat
    /\ closed \in BOOLEAN
    /\ poll \in [state : {"none", "running", "returned", "raised", "crashed"},
                 kind : PollKind, targets : SUBSET Name,
                 groups : [Port \cup Name -> SUBSET Name], busy : SUBSET Name,
                 reported : SUBSET Name, failed : BOOLEAN]
    /\ cancelled \in BOOLEAN
    /\ ops \in Nat /\ polls \in Nat

\* The reference count is exact at every moment: a port entry's refs are the
\* names registered on it, and a name is never registered on a port that has
\* no entry -- or its bus would be closed under it, or never.
RefsExact ==
    \A p \in Port : /\ refs[p] = Users(p)
                    /\ Users(p) # {} => entry[p]

\* Controllers on one port always run through one client, and so through one
\* lock, speaking one protocol, however they came and went.
OneClientPerPort ==
    \A n \in Name : portOf[n] \in Port =>
        controller[n] = client[portOf[n]] /\ controller[n] # 0

\* A transport the manager owns is open only while somebody uses it.
NoLeakedTransport ==
    \A p \in Owned : isOpen[p] => Users(p) # {}

\* A registered controller's client has not been disposed of, unless a task
\* was once cancelled in the middle of closing a port.
LiveClients ==
    ~cancelled => \A n \in Name : portOf[n] \in Port => controller[n] \notin disposed

\* A poll or an execute_each that returns, or raises its ExceptionGroup, has
\* reported on every controller it was asked about.
PollReportsAll ==
    poll.state \in {"returned", "raised"} /\ poll.kind # "poll_many" =>
        poll.reported = poll.targets

\* A transport is closed only when its last user leaves, never under another.
ClosedWhenUnused ==
    [][\A p \in Port : isOpen[p] /\ ~isOpen'[p] => Cardinality(Users(p)) = 1]_vars

\* A closed manager stays empty and owns no open transport.
CloseIsFinal == closed => Registered = {} /\ \A p \in Owned : ~isOpen[p]

\* Every add, remove, close and poll comes to an end.
OperationsEnd ==
    /\ \A t \in Task : pc[t] # "idle" ~> pc[t] = "idle"
    /\ poll.state = "running" ~> poll.state # "running"

-----------------------------------------------------------------------------
(***************************************************************************)
(* What the repository says of this code and the code does not keep.       *)
(***************************************************************************)

\* add "Returns: The opened Controller": the client of a registered controller
\* has not been disposed of.
ControllersUsable ==
    \A n \in Name : portOf[n] \in Port => controller[n] \notin disposed

\* Under ErrorPolicy.RETURN, "per-name DeviceResult containers carry .value or
\* .error": a poll never ends with anything else.
PollNeverCrashes == poll.state # "crashed"
=============================================================================
