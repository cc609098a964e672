---------------------------- MODULE ManagerProofs ----------------------------
(***************************************************************************)
(* Proofs about Manager, for every set of tasks, names, ports and requests *)
(* and any number of operations: the reference counts, the clients shared  *)
(* on a port, who keeps a transport open, and what a poll reports.         *)
(***************************************************************************)
EXTENDS Manager, SequenceTheorems, FiniteSetTheorems, TLAPS

\* s holds nothing twice.
Distinct(s) == \A i, j \in 1..Len(s) : s[i] = s[j] => i = j
Holds(s, e) == \E i \in 1..Len(s) : s[i] = e

\* Drop(s, e) holds what s holds but e.
LEMMA DropProperties ==
    ASSUME NEW S, NEW s \in Seq(S), NEW e, Holds(s, e), Distinct(s)
    PROVE  /\ Drop(s, e) \in Seq(S)
           /\ Distinct(Drop(s, e))
           /\ \A x : Holds(Drop(s, e), x) <=> Holds(s, x) /\ x # e
<1> DEFINE i == CHOOSE k \in 1..Len(s) : s[k] = e
           a == SubSeq(s, 1, i - 1)
           b == SubSeq(s, i + 1, Len(s))
           d == a \o b
<1>1. i \in 1..Len(s) /\ s[i] = e
      BY DEF Holds
<1>2. Drop(s, e) = d
      BY DEF Drop
<1> HIDE DEF i
<1>3. Len(s) \in Nat /\ \A k \in 1..Len(s) : s[k] \in S
      BY LenProperties, ElementOfSeq
<1>4. /\ a \in Seq(S) /\ Len(a) = i - 1
      /\ \A k \in 1..i - 1 : a[k] = s[k]
  <2>1. \A k \in 1..i - 1 : s[k] \in S
        BY <1>1, <1>3
  <2> QED  BY <2>1, <1>1, <1>3, SubSeqProperties
<1>5. /\ b \in Seq(S) /\ Len(b) = Len(s) - i
      /\ \A k \in 1..Len(s) - i : b[k] = s[i + k]
  <2>1. \A k \in i + 1..Len(s) : s[k] \in S
        BY <1>1, <1>3
  <2>2. /\ b \in Seq(S)
        /\ Len(b) = IF i + 1 <= Len(s) THEN Len(s) - (i + 1) + 1 ELSE 0
        /\ \A k \in 1..Len(s) - (i + 1) + 1 : b[k] = s[(i + 1) + k - 1]
        BY <2>1, <1>1, <1>3, SubSeqProperties
  <2> HIDE DEF b
  <2> QED  BY <2>2, <1>1, <1>3
<1>6. /\ d \in Seq(S)
      /\ Len(d) = Len(a) + Len(b)
      /\ \A k \in 1..Len(a) + Len(b) :
            d[k] = IF k <= Len(a) THEN a[k] ELSE b[k - Len(a)]
      BY <1>4, <1>5, ConcatProperties
<1> HIDE DEF a, b, d
<1>7. Len(d) = Len(s) - 1
      BY <1>1, <1>3, <1>4, <1>5, <1>6
<1>8. ASSUME NEW k \in 1..Len(d)
      PROVE  d[k] = IF k < i THEN s[k] ELSE s[k + 1]
  <2>1. d[k] = IF k <= i - 1 THEN a[k] ELSE b[k - (i - 1)]
        BY <1>4, <1>6
  <2>2. CASE k < i
        BY <2>1, <2>2, <1>1, <1>3, <1>4
  <2>3. CASE ~(k < i)
    <3>1. k - (i - 1) \in 1..Len(s) - i
          BY <2>3, <1>1, <1>3, <1>7
    <3>2. b[k - (i - 1)] = s[i + (k - (i - 1))]
          BY <3>1, <1>5
    <3> QED  BY <2>1, <2>3, <3>2, <1>1, <1>3
  <2> QED  BY <2>2, <2>3
<1>9. Distinct(d)
  <2> SUFFICES ASSUME NEW j \in 1..Len(d), NEW k \in 1..Len(d), d[j] = d[k]
               PROVE  j = k
      BY DEF Distinct
  <2> DEFINE at(k1) == IF k1 < i THEN k1 ELSE k1 + 1
  <2>1. at(j) \in 1..Len(s) /\ at(k) \in 1..Len(s)
        BY <1>1, <1>3, <1>7
  <2>2. s[at(j)] = s[at(k)]
        BY <1>8
  <2>3. at(j) = at(k)
        BY <2>1, <2>2 DEF Distinct
  <2> QED  BY <2>3, <1>1, <1>3, <1>7
<1>10. ASSUME NEW x
       PROVE  Holds(d, x) <=> Holds(s, x) /\ x # e
  <2>1. ASSUME NEW k \in 1..Len(d), d[k] = x
        PROVE  Holds(s, x) /\ x # e
    <3> DEFINE j == IF k < i THEN k ELSE k + 1
    <3>1. j \in 1..Len(s) /\ j # i
          BY <1>1, <1>3, <1>7
    <3>2. s[j] = x
          BY <2>1, <1>8
    <3> HIDE DEF j
    <3>3. s[j] # s[i]
          BY <3>1, <1>1 DEF Distinct
    <3> QED  BY <3>1, <3>2, <3>3, <1>1 DEF Holds
  <2>2. ASSUME NEW k \in 1..Len(s), s[k] = x, x # e
        PROVE  Holds(d, x)
    <3> DEFINE j == IF k < i THEN k ELSE k - 1
    <3>1. j \in 1..Len(d) /\ k # i
          BY <2>2, <1>1, <1>3, <1>7
    <3>2. d[j] = s[k]
          BY <3>1, <1>8, <1>3, <1>1
    <3> QED  BY <2>2, <3>1, <3>2 DEF Holds
  <2> QED  BY <2>1, <2>2 DEF Holds
<1> QED  BY <1>2, <1>6, <1>9, <1>10

-----------------------------------------------------------------------------
(***************************************************************************)
(* The inductive invariant                                                 *)
(***************************************************************************)
Types ==
    /\ pc \in [Task -> Points]
    /\ op \in [Task -> Op]
    /\ portOf \in [Name -> Port \cup {Absent, Solo}]
    /\ order \in Seq(Name)
    /\ controller \in [Name -> Nat]
    /\ entry \in [Port -> BOOLEAN]
    /\ client \in [Port -> Nat]
    /\ refs \in [Port -> SUBSET Name]
    /\ isOpen \in [Port -> BOOLEAN]
    /\ made \in Nat
    /\ disposed \subseteq Nat
    /\ closed \in BOOLEAN /\ cancelled \in BOOLEAN

\* Whoever is inside the state lock owns it.
LockInv ==
    \A t \in Task : pc[t] \in {"in", "opening", "closing", "loop"} => owner = t

\* What the operation at each await goes by when it wakes up again.
PointInv ==
    \A t \in Task :
        /\ pc[t] = "opening" => op[t].port \in Port /\ portOf[op[t].name] = Absent
        /\ pc[t] = "closing" => op[t].port \in Owned /\ Users(op[t].port) = {}
        /\ pc[t] \in {"opening", "closing", "loop"} => ~closed

\* The dict of devices holds every registered name once.
OrderInv ==
    /\ Distinct(order)
    /\ \A n \in Name : portOf[n] # Absent <=> Holds(order, n)

\* No two ports share a client, none is numbered before it is made, and one is
\* disposed of while its entry is there only as its transport closes.
ClientInv ==
    /\ \A p \in Port : client[p] <= made
    /\ \A p, q \in Port : client[p] = client[q] /\ client[p] # 0 => p = q
    /\ \A c \in disposed : c <= made
    /\ ~cancelled => \A p \in Port : client[p] # 0 /\ client[p] \in disposed =>
                        \E t \in Task : pc[t] = "closing" /\ op[t].port = p

IInv == /\ Types /\ LockInv /\ PointInv /\ OrderInv /\ ClientInv
        /\ RefsExact /\ OneClientPerPort /\ NoLeakedTransport
        /\ closed => order = <<>>

-----------------------------------------------------------------------------
LEMMA InitInv == Init => IInv
<1> SUFFICES ASSUME Init PROVE IInv
    OBVIOUS
<1>1. NoOp \in Op
      BY RequestsAssumption DEF NoOp
<1>2. order = <<>> /\ order \in Seq(Name) /\ Len(order) = 0
      BY EmptySeq DEF Init
<1>3. Types
      BY <1>1, <1>2, ManagerAssumption DEF Init, Types, Points, Port
<1>4. OrderInv
      BY <1>2 DEF Init, OrderInv, Distinct, Holds
<1>5. \A p \in Port : Users(p) = {}
      BY ManagerAssumption DEF Init, Users
<1>6. RefsExact
      BY <1>5 DEF Init, RefsExact
<1>7. OneClientPerPort /\ LockInv /\ PointInv
      BY ManagerAssumption DEF Init, OneClientPerPort, LockInv, PointInv
<1>8. ClientInv
      BY <1>3 DEF Init, ClientInv, Types
<1>9. NoLeakedTransport
      BY DEF Init, NoLeakedTransport, Port
<1> QED  BY <1>2, <1>3, <1>4, <1>6, <1>7, <1>8, <1>9 DEF IInv

-----------------------------------------------------------------------------
(***************************************************************************)
(* The lock and the points                                                 *)
(***************************************************************************)
Inside == {"in", "opening", "closing", "loop"}

\* One task at a time is inside the state lock.
LEMMA Alone ==
    ASSUME LockInv, NEW t \in Task, pc[t] \in Inside, NEW u \in Task, u # t
    PROVE  pc[u] \notin Inside
BY DEF LockInv, Inside

LEMMA LeaveLock ==
    ASSUME Types, LockInv, NEW t \in Task, pc[t] \in Inside, Leave(t)
    PROVE  /\ pc' \in [Task -> Points] /\ op' \in [Task -> Op]
           /\ LockInv' /\ PointInv'
           /\ \A u \in Task : pc'[u] \notin Inside
<1>1. NoOp \in Op
      BY RequestsAssumption DEF NoOp
<1>2. pc' \in [Task -> Points] /\ op' \in [Task -> Op]
      BY <1>1 DEF Types, Leave, Points
<1>3. ASSUME NEW u \in Task
      PROVE  pc'[u] \notin Inside
      BY Alone DEF Leave, Types, Inside
<1> QED  BY <1>2, <1>3 DEF LockInv, PointInv, Inside

LEMMA GoToLock ==
    ASSUME Types, LockInv, NEW t \in Task, pc[t] \in Inside,
           NEW x \in Inside, GoTo(t, x)
    PROVE  /\ pc' \in [Task -> Points] /\ op' \in [Task -> Op]
           /\ LockInv' /\ pc'[t] = x /\ op' = op
           /\ \A u \in Task : u # t => pc'[u] \notin Inside
<1>1. pc' \in [Task -> Points] /\ op' = op /\ pc'[t] = x
      BY DEF Types, GoTo, Points, Inside
<1>2. ASSUME NEW u \in Task, u # t
      PROVE  pc'[u] \notin Inside
      BY <1>2, Alone DEF GoTo, Types
<1>3. LockInv'
      BY <1>1, <1>2 DEF LockInv, Inside, GoTo
<1> QED  BY <1>1, <1>2, <1>3 DEF Types

-----------------------------------------------------------------------------
(***************************************************************************)
(* Registering a device and popping one                                    *)
(***************************************************************************)
DeviceTypes ==
    /\ portOf' \in [Name -> Port \cup {Absent, Solo}]
    /\ order' \in Seq(Name)
    /\ controller' \in [Name -> Nat]

LEMMA RegisterDevice ==
    ASSUME Types, OrderInv, NEW n \in Name, portOf[n] = Absent,
           NEW p \in Port \cup {Solo}, NEW c \in Nat, Register(n, p, c)
    PROVE  DeviceTypes /\ OrderInv'
<1>1. DeviceTypes
      BY AppendProperties DEF Types, Register, DeviceTypes
<1>2. /\ Len(order) \in Nat /\ Len(order') = Len(order) + 1
      /\ \A i \in 1..Len(order) : order'[i] = order[i]
      /\ order'[Len(order) + 1] = n
      BY AppendProperties, LenProperties DEF Types, Register
<1>3. ~Holds(order, n)
      BY DEF OrderInv
<1>4. Distinct(order')
      BY <1>2, <1>3 DEF OrderInv, Distinct, Holds
<1>5. ASSUME NEW m \in Name
      PROVE  Holds(order', m) <=> Holds(order, m) \/ m = n
      BY <1>2 DEF Holds
<1>6. p # Absent
      BY ManagerAssumption
<1>7. \A m \in Name : portOf'[m] = IF m = n THEN p ELSE portOf[m]
      BY DEF Types, Register
<1>8. \A m \in Name : portOf'[m] # Absent <=> Holds(order', m)
      BY <1>5, <1>6, <1>7 DEF OrderInv
<1> QED  BY <1>1, <1>4, <1>8 DEF OrderInv

LEMMA PopDevice ==
    ASSUME Types, OrderInv, NEW n \in Name, portOf[n] # Absent,
           portOf' = [portOf EXCEPT ![n] = Absent],
           order' = Drop(order, n),
           controller' = [controller EXCEPT ![n] = 0]
    PROVE  DeviceTypes /\ OrderInv'
<1>1. Holds(order, n) /\ Distinct(order) /\ order \in Seq(Name)
      BY DEF OrderInv, Types
<1>2. /\ order' \in Seq(Name) /\ Distinct(order')
      /\ \A x : Holds(order', x) <=> Holds(order, x) /\ x # n
      BY <1>1, DropProperties
<1>3. DeviceTypes
      BY <1>2 DEF Types, DeviceTypes
<1>4. \A m \in Name : portOf'[m] = IF m = n THEN Absent ELSE portOf[m]
      BY DEF Types
<1>5. \A m \in Name : portOf'[m] # Absent <=> Holds(order', m)
      BY <1>2, <1>4 DEF OrderInv
<1> QED  BY <1>2, <1>3, <1>5 DEF OrderInv

\* Binding a controller to its port, which is open by now, keeps the invariant.
LEMMA BindInv ==
    ASSUME IInv, NEW t \in Task, pc[t] \in {"in", "opening"},
           NEW p \in Port, NEW k, portOf[op[t].name] = Absent, ~closed,
           Bind(t, p, k), isOpen' = [isOpen EXCEPT ![p] = TRUE],
           UNCHANGED <<closed, cancelled>>
    PROVE  IInv'
<1> USE DEF IInv
<1> DEFINE n == op[t].name
           c == ClientOf(p)
<1>a. /\ n \in Name /\ client[p] \in Nat /\ made \in Nat /\ client[p] <= made
      BY DEF Types, Op, ClientInv
<1>b. c = IF client[p] = 0 THEN made + 1 ELSE client[p]
      BY DEF ClientOf
<1>c. made' = IF c > made THEN c ELSE made
      BY DEF Bind
<1>1. /\ n \in Name /\ client[p] \in Nat /\ made \in Nat
      /\ c \in Nat /\ c # 0 /\ c <= made'
      /\ made' = IF client[p] = 0 THEN made + 1 ELSE made
  <2> HIDE DEF c
  <2> QED  BY <1>a, <1>b, <1>c
<1>2. /\ Register(n, p, c) /\ Leave(t)
      /\ client' = [client EXCEPT ![p] = c]
      /\ refs' = [refs EXCEPT ![p] = @ \cup {n}]
      /\ entry' = [entry EXCEPT ![p] = TRUE]
      /\ disposed' = disposed
      BY DEF Bind
<1>3. c = IF client[p] = 0 THEN made + 1 ELSE client[p]
      BY <1>b
<1> HIDE DEF c
<1>4. DeviceTypes /\ OrderInv'
      BY <1>1, <1>2, RegisterDevice
<1>5. /\ pc' \in [Task -> Points] /\ op' \in [Task -> Op]
      /\ LockInv' /\ PointInv'
      BY <1>2, LeaveLock DEF Inside
<1>6. Types'
      BY <1>1, <1>2, <1>4, <1>5 DEF Types, DeviceTypes
<1>7. /\ p # Absent /\ p # Solo
      /\ \A m \in Name : portOf'[m] = IF m = n THEN p ELSE portOf[m]
      /\ \A m \in Name : controller'[m] = IF m = n THEN c ELSE controller[m]
      /\ \A q \in Port : client'[q] = IF q = p THEN c ELSE client[q]
      /\ \A q \in Port : refs'[q] = IF q = p THEN refs[p] \cup {n} ELSE refs[q]
      /\ \A q \in Port : entry'[q] = (q = p \/ entry[q])
      /\ \A q \in Port : isOpen'[q] = (q = p \/ isOpen[q])
      BY <1>2, ManagerAssumption DEF Types, Register
<1>8. \A q \in Port : Users(q)' = IF q = p THEN Users(q) \cup {n} ELSE Users(q)
  <2>1. ASSUME NEW q \in Port, q # p
        PROVE  Users(q)' = Users(q)
        BY <2>1, <1>1, <1>7, ManagerAssumption DEF Users
  <2>2. Users(p)' = Users(p) \cup {n}
        BY <1>1, <1>7 DEF Users
  <2> QED  BY <2>1, <2>2
<1>9. RefsExact'
  <2> SUFFICES ASSUME NEW q \in Port
               PROVE  refs'[q] = Users(q)' /\ (Users(q)' # {} => entry'[q])
      BY DEF RefsExact
  <2>1. refs[q] = Users(q) /\ refs[p] = Users(p) /\ (Users(q) # {} => entry[q])
        BY DEF RefsExact
  <2>2. CASE q = p
        BY <2>1, <2>2, <1>7, <1>8
  <2>3. CASE q # p
        BY <2>1, <2>3, <1>7, <1>8
  <2> QED  BY <2>2, <2>3
<1>10. OneClientPerPort'
  <2> SUFFICES ASSUME NEW m \in Name, portOf'[m] \in Port
               PROVE  controller'[m] = client'[portOf'[m]] /\ controller'[m] # 0
      BY DEF OneClientPerPort
  <2>1. CASE m = n
        BY <2>1, <1>1, <1>7
  <2>2. CASE m # n /\ portOf[m] = p
    <3>1. controller[m] = client[p] /\ client[p] # 0
          BY <2>2 DEF OneClientPerPort
    <3> QED  BY <3>1, <2>2, <1>3, <1>7
  <2>3. CASE m # n /\ portOf[m] # p
        BY <2>3, <1>7 DEF OneClientPerPort
  <2> QED  BY <2>1, <2>2, <2>3
<1>11. NoLeakedTransport'
      BY <1>1, <1>7, <1>8 DEF NoLeakedTransport, Port
<1>12. ClientInv'
  <2>1. \A q \in Port : client'[q] <= made'
    <3> SUFFICES ASSUME NEW q \in Port PROVE client'[q] <= made'
        OBVIOUS
    <3>1. client[q] \in Nat /\ client[q] <= made
          BY DEF ClientInv, Types
    <3>2. client[q] <= made'
          BY <3>1, <1>1
    <3> QED  BY <3>2, <1>1, <1>7
  <2>2. \A q \in Port : q # p /\ client[q] # 0 => client[q] # c
        BY <1>1, <1>3 DEF ClientInv, Types
  <2>3. \A q, r \in Port : client'[q] = client'[r] /\ client'[q] # 0 => q = r
        BY <2>2, <1>7 DEF ClientInv
  <2>4. \A d \in disposed' : d <= made'
        BY <1>1, <1>2 DEF ClientInv, Types
  <2>5. ASSUME ~cancelled'
        PROVE  \A q \in Port : ~(client'[q] # 0 /\ client'[q] \in disposed')
    <3>1. \A u \in Task : pc[u] # "closing"
          BY Alone DEF Inside
    <3>2. \A q \in Port : ~(client[q] # 0 /\ client[q] \in disposed)
          BY <2>5, <3>1 DEF ClientInv
    <3>3. made + 1 \notin disposed
          BY <1>1 DEF ClientInv, Types
    <3> QED  BY <3>2, <3>3, <1>1, <1>2, <1>3, <1>7
  <2> QED  BY <2>1, <2>3, <2>4, <2>5 DEF ClientInv
<1> QED  BY <1>4, <1>5, <1>6, <1>9, <1>10, <1>11, <1>12

-----------------------------------------------------------------------------
(***************************************************************************)
(* Steps that leave the devices and the entries alone                      *)
(***************************************************************************)

\* What such a step keeps, whatever it does to the lock and the transports.
LEMMA DevicesKept ==
    ASSUME IInv, UNCHANGED <<deviceVars, entry, client, refs>>
    PROVE  DeviceTypes /\ OrderInv' /\ RefsExact' /\ OneClientPerPort'
<1> USE DEF IInv, deviceVars
<1>1. DeviceTypes
      BY DEF Types, DeviceTypes
<1>2. OrderInv'
      BY DEF OrderInv, Distinct, Holds
<1>3. RefsExact'
      BY DEF RefsExact, Users
<1>4. OneClientPerPort'
      BY DEF OneClientPerPort
<1> QED  BY <1>1, <1>2, <1>3, <1>4

LEMMA NothingKept ==
    ASSUME IInv,
           UNCHANGED <<opVars, deviceVars, entry, client, refs, isOpen, clientVars,
                       closed, cancelled>>
    PROVE  IInv'
<1> USE DEF IInv, opVars, deviceVars, clientVars
<1>1. DeviceTypes /\ OrderInv' /\ RefsExact' /\ OneClientPerPort'
      BY DevicesKept
<1>2. Types' /\ LockInv'
      BY DEF Types, LockInv
<1>3. PointInv' /\ NoLeakedTransport'
      BY DEF PointInv, NoLeakedTransport, Users
<1>4. ClientInv'
      BY DEF ClientInv
<1> QED  BY <1>1, <1>2, <1>3, <1>4

\* An operation that returns or raises with the devices as they were.
LEMMA LeaveInv ==
    ASSUME IInv, NEW t \in Task, pc[t] \in {"in", "opening", "loop"}, Leave(t),
           UNCHANGED <<deviceVars, entry, client, refs, clientVars, cancelled>>,
           isOpen' \in [Port -> BOOLEAN], NoLeakedTransport',
           closed' \in BOOLEAN, closed' => order = <<>>
    PROVE  IInv'
<1> USE DEF IInv, deviceVars, clientVars
<1>1. DeviceTypes /\ OrderInv' /\ RefsExact' /\ OneClientPerPort'
      BY DevicesKept
<1>2. /\ pc' \in [Task -> Points] /\ op' \in [Task -> Op]
      /\ LockInv' /\ PointInv'
      BY LeaveLock DEF Inside
<1>3. Types'
      BY <1>2 DEF Types
<1>4. \A u \in Task : pc[u] # "closing"
      BY Alone DEF Inside
<1>5. ClientInv'
      BY <1>4 DEF ClientInv
<1> QED  BY <1>1, <1>2, <1>3, <1>5

LEMMA CallInv == ASSUME IInv, NEW t \in Task, Call(t) PROVE IInv'
<1> USE DEF IInv, Call, deviceVars, entryVars, clientVars
<1>1. PICK o \in Requests : op' = [op EXCEPT ![t] = o]
      OBVIOUS
<1>2. op' \in [Task -> Op] /\ pc' \in [Task -> Points]
      BY <1>1, RequestsAssumption DEF Types, Points
<1>3. DeviceTypes /\ OrderInv' /\ RefsExact' /\ OneClientPerPort'
      BY DevicesKept
<1>4. Types'
      BY <1>2 DEF Types
<1>5. /\ pc[t] = "idle" /\ pc'[t] = "want"
      /\ \A u \in Task : u # t => pc'[u] = pc[u] /\ op'[u] = op[u]
      BY <1>1 DEF Types
<1>6. LockInv' /\ PointInv'
      BY <1>5 DEF LockInv, PointInv, Users
<1>7. ClientInv'
  <2>1. \A u \in Task : pc[u] = "closing" => pc'[u] = "closing" /\ op'[u] = op[u]
        BY <1>5
  <2> QED  BY <2>1 DEF ClientInv
<1>8. NoLeakedTransport'
      BY DEF NoLeakedTransport, Users
<1> QED  BY <1>3, <1>4, <1>6, <1>7, <1>8

LEMMA EnterInv == ASSUME IInv, NEW t \in Task, Enter(t) PROVE IInv'
<1> USE DEF IInv, Enter, deviceVars, entryVars, clientVars
<1>1. pc' \in [Task -> Points]
      BY DEF Types, Points
<1>2. DeviceTypes /\ OrderInv' /\ RefsExact' /\ OneClientPerPort'
      BY DevicesKept
<1>3. Types'
      BY <1>1 DEF Types
<1>4. \A u \in Task : pc[u] \notin Inside
      BY ManagerAssumption DEF LockInv, Inside
<1>5. /\ pc'[t] \in {"in", "loop"} /\ (pc'[t] = "loop" => ~closed)
      /\ \A u \in Task : u # t => pc'[u] = pc[u]
      BY DEF Types
<1>6. LockInv'
      BY <1>4, <1>5 DEF LockInv, Inside
<1>7. PointInv'
      BY <1>4, <1>5 DEF PointInv, Inside
<1>8. ClientInv'
      BY <1>4 DEF ClientInv, Inside
<1>9. NoLeakedTransport'
      BY DEF NoLeakedTransport, Users
<1> QED  BY <1>2, <1>3, <1>6, <1>7, <1>8, <1>9

LEMMA CancelInv == ASSUME IInv, NEW t \in Task, Cancel(t) PROVE IInv'
<1> USE DEF IInv, Cancel, deviceVars, entryVars, clientVars
<1>1. pc' \in [Task -> Points] /\ op' \in [Task -> Op]
      BY RequestsAssumption DEF Types, Points, NoOp
<1>2. DeviceTypes /\ OrderInv' /\ RefsExact' /\ OneClientPerPort'
      BY DevicesKept
<1>3. Types'
      BY <1>1 DEF Types
<1>4. /\ pc'[t] = "idle"
      /\ \A u \in Task : u # t => pc'[u] = pc[u] /\ op'[u] = op[u]
      BY DEF Types
<1>5. LockInv'
  <2>1. CASE pc[t] = "closing"
    <3>1. \A u \in Task : u # t => pc[u] \notin Inside
          BY <2>1, Alone DEF Inside
    <3> QED  BY <3>1, <1>4 DEF LockInv, Inside
  <2>2. CASE pc[t] = "want"
        BY <2>2, <1>4 DEF LockInv
  <2> QED  BY <2>1, <2>2
<1>6. PointInv'
      BY <1>4 DEF PointInv, Users
<1>7. ClientInv'
  <2>1. ASSUME ~cancelled', NEW q \in Port, client[q] # 0, client[q] \in disposed
        PROVE  \E u \in Task : pc'[u] = "closing" /\ op'[u].port = q
    <3>1. ~cancelled /\ pc[t] # "closing"
          BY <2>1
    <3>2. PICK u \in Task : pc[u] = "closing" /\ op[u].port = q
          BY <2>1, <3>1 DEF ClientInv
    <3> QED  BY <3>1, <3>2, <1>4
  <2> QED  BY <2>1 DEF ClientInv
<1>8. NoLeakedTransport'
      BY DEF NoLeakedTransport, Users
<1> QED  BY <1>2, <1>3, <1>5, <1>6, <1>7, <1>8

-----------------------------------------------------------------------------
(***************************************************************************)
(* add                                                                     *)
(***************************************************************************)

\* What an add that is not refused goes by.
LEMMA NotRefused ==
    ASSUME Types, NEW t \in Task, op[t].do = "add", ~Refused(op[t])
    PROVE  /\ op[t].name \in Name /\ portOf[op[t].name] = Absent /\ ~closed
           /\ op[t].port # Solo => op[t].port \in Port
BY DEF Types, Op, Refused, Registered

LEMMA RefuseInv == ASSUME IInv, NEW t \in Task, Refuse(t) PROVE IInv'
<1>1. NoLeakedTransport'
      BY DEF IInv, Refuse, deviceVars, NoLeakedTransport, Users
<1> QED  BY <1>1, LeaveInv DEF IInv, Types, Refuse, entryVars

LEMMA AddSoloInv == ASSUME IInv, NEW t \in Task, AddSolo(t) PROVE IInv'
<1> USE DEF IInv, AddSolo, entryVars, clientVars
<1> DEFINE n == op[t].name
<1>1. n \in Name /\ portOf[n] = Absent
      BY NotRefused
<1>2. DeviceTypes /\ OrderInv'
      BY <1>1, RegisterDevice
<1>3. /\ pc' \in [Task -> Points] /\ op' \in [Task -> Op]
      /\ LockInv' /\ PointInv'
      BY LeaveLock DEF Inside
<1>4. Types'
      BY <1>2, <1>3 DEF Types, DeviceTypes
<1>5. \A m \in Name : portOf'[m] = IF m = n THEN Solo ELSE portOf[m]
      BY DEF Types, Register
<1>6. \A q \in Port : Users(q)' = Users(q)
      BY <1>1, <1>5, ManagerAssumption DEF Users
<1>7. RefsExact' /\ NoLeakedTransport'
      BY <1>6 DEF RefsExact, NoLeakedTransport, Port
<1>8. OneClientPerPort'
  <2> SUFFICES ASSUME NEW m \in Name, portOf'[m] \in Port
               PROVE  controller'[m] = client[portOf'[m]] /\ controller'[m] # 0
      BY DEF OneClientPerPort
  <2>1. m # n /\ portOf'[m] = portOf[m]
        BY <1>5, ManagerAssumption
  <2>2. controller'[m] = controller[m]
        BY <2>1 DEF Types, Register
  <2> QED  BY <2>1, <2>2 DEF OneClientPerPort
<1>9. \A u \in Task : pc[u] # "closing"
      BY Alone DEF Inside
<1>10. ClientInv'
      BY <1>9 DEF ClientInv
<1>11. ~closed
      BY NotRefused
<1> QED  BY <1>2, <1>3, <1>4, <1>7, <1>8, <1>10, <1>11

\* A transport that no client fits is the caller's.
LEMMA UnfitIsLent ==
    ASSUME NEW p \in Port, NEW k, ~Fits(p, k)
    PROVE  p \notin Owned
BY DEF Fits

LEMMA AddOnPortInv == ASSUME IInv, NEW t \in Task, AddOnPort(t) PROVE IInv'
<1> USE DEF IInv, AddOnPort, deviceVars, entryVars, clientVars
<1> DEFINE p == op[t].port
           k == op[t].kind
<1>1. p \in Port /\ op[t].name \in Name /\ portOf[op[t].name] = Absent /\ ~closed
      BY NotRefused
<1>2. CASE ~isOpen[p]
  <2>1. GoTo(t, "opening") /\ UNCHANGED <<deviceVars, entryVars, clientVars>>
        BY <1>2
  <2>2. /\ pc' \in [Task -> Points] /\ op' \in [Task -> Op]
        /\ LockInv' /\ pc'[t] = "opening" /\ op' = op
        /\ \A u \in Task : u # t => pc'[u] \notin Inside
        BY <2>1, GoToLock DEF Inside
  <2>3. DeviceTypes /\ OrderInv' /\ RefsExact' /\ OneClientPerPort'
        BY <2>1, DevicesKept
  <2>4. Types'
        BY <2>1, <2>2 DEF Types
  <2>5. PointInv'
        BY <1>1, <2>1, <2>2 DEF PointInv, Inside
  <2>6. \A u \in Task : pc[u] # "closing"
        BY Alone DEF Inside
  <2>7. ClientInv'
        BY <2>1, <2>6 DEF ClientInv
  <2>8. NoLeakedTransport'
        BY <2>1 DEF NoLeakedTransport, Users
  <2> QED  BY <2>1, <2>2, <2>3, <2>4, <2>5, <2>7, <2>8
<1>3. CASE isOpen[p] /\ (client[p] # 0 \/ Fits(p, k))
  <2>1. Bind(t, p, k)
        BY <1>3
  <2>2. isOpen' = [isOpen EXCEPT ![p] = TRUE]
        BY <1>1, <1>3 DEF Types
  <2> QED  BY <1>1, <2>1, <2>2, BindInv
<1>4. CASE isOpen[p] /\ ~(client[p] # 0 \/ Fits(p, k))
  <2>1. Unbind(t)
        BY <1>4
  <2>2. NoLeakedTransport'
        BY <2>1 DEF Unbind, NoLeakedTransport, Users
  <2> QED  BY <2>1, <2>2, LeaveInv DEF Unbind, Types
<1> QED  BY <1>2, <1>3, <1>4

LEMMA OpenedInv == ASSUME IInv, NEW t \in Task, Opened(t) PROVE IInv'
<1> USE DEF IInv, Opened, deviceVars, entryVars, clientVars
<1> DEFINE p == op[t].port
           k == op[t].kind
<1>1. p \in Port /\ portOf[op[t].name] = Absent /\ ~closed
      BY DEF PointInv
<1>2. CASE client[p] # 0 \/ Fits(p, k)
  <2>1. Bind(t, p, k) /\ isOpen' = [isOpen EXCEPT ![p] = TRUE]
        BY <1>2
  <2> QED  BY <1>1, <2>1, BindInv
<1>3. CASE ~(client[p] # 0 \/ Fits(p, k))
  <2>1. Unbind(t) /\ isOpen' = [isOpen EXCEPT ![p] = TRUE]
        BY <1>3
  <2>2. p \notin Owned
        BY <1>1, <1>3, UnfitIsLent
  <2>3. isOpen' \in [Port -> BOOLEAN] /\ \A q \in Owned : isOpen'[q] = isOpen[q]
        BY <2>1, <2>2 DEF Types, Port
  <2>4. NoLeakedTransport'
        BY <2>1, <2>3 DEF Unbind, NoLeakedTransport, Users
  <2> QED  BY <2>1, <2>3, <2>4, LeaveInv DEF Unbind, Types
<1> QED  BY <1>2, <1>3

LEMMA OpenFailsInv == ASSUME IInv, NEW t \in Task, OpenFails(t) PROVE IInv'
<1>1. NoLeakedTransport'
      BY DEF IInv, OpenFails, Unbind, deviceVars, NoLeakedTransport, Users
<1> QED  BY <1>1, LeaveInv DEF IInv, Types, OpenFails, Unbind, entryVars

-----------------------------------------------------------------------------
(***************************************************************************)
(* remove and close                                                        *)
(***************************************************************************)

\* Popping a device keeps the invariant, whichever way its port goes.
LEMMA TeardownInv ==
    ASSUME IInv, NEW t \in Task, pc[t] \in {"in", "loop"}, ~closed,
           NEW n \in Name, portOf[n] # Absent,
           Teardown(t, n, Leave(t)) \/ Teardown(t, n, GoTo(t, "loop")),
           UNCHANGED <<closed, cancelled>>
    PROVE  IInv'
<1> USE DEF IInv
<1> DEFINE p == portOf[n]
           Goes == Leave(t) \/ GoTo(t, "loop")
           Solitary == p = Solo /\ Goes /\ UNCHANGED <<entryVars, isOpen, disposed>>
           Shared == /\ p # Solo /\ ~LastUser(p, n) /\ Goes
                     /\ refs' = [refs EXCEPT ![p] = Discard(p, n)]
                     /\ UNCHANGED <<entry, client, protocol, isOpen, disposed>>
           Last == /\ p # Solo /\ LastUser(p, n)
                   /\ refs' = [refs EXCEPT ![p] = Discard(p, n)]
                   /\ disposed' = disposed \cup {client[p]}
           Closes == /\ Last /\ p \in Owned /\ isOpen[p]
                     /\ isOpen' = [isOpen EXCEPT ![p] = FALSE]
                     /\ pc' = [pc EXCEPT ![t] = "closing"]
                     /\ op' = [op EXCEPT ![t].port = p]
                     /\ UNCHANGED <<owner, entry, client, protocol>>
           Pops == /\ Last /\ ~(p \in Owned /\ isOpen[p]) /\ Goes
                   /\ PopEntry(p) /\ UNCHANGED isOpen
<1>1. /\ portOf' = [portOf EXCEPT ![n] = Absent]
      /\ order' = Drop(order, n)
      /\ controller' = [controller EXCEPT ![n] = 0]
      /\ made' = made
      BY DEF Teardown
<1>2. Solitary \/ Shared \/ Closes \/ Pops
      BY DEF Teardown
<1>3. DeviceTypes /\ OrderInv'
      BY <1>1, PopDevice
<1>4. /\ \A m \in Name : portOf'[m] = IF m = n THEN Absent ELSE portOf[m]
      /\ \A m \in Name : controller'[m] = IF m = n THEN 0 ELSE controller[m]
      /\ p = Solo \/ p \in Port
      /\ Absent \notin Port /\ Solo \notin Port
      BY <1>1, ManagerAssumption DEF Types
<1>5. \A q \in Port : Users(q)' = Users(q) \ {n}
      BY <1>4 DEF Users
<1>6. \A q \in Port : q # p => n \notin Users(q)
      BY DEF Users
<1>7. /\ \A u \in Task : pc[u] # "closing"
      /\ \A u \in Task : u # t => pc[u] \notin Inside
      BY Alone DEF Inside
<1>8. ~cancelled' => \A q \in Port : ~(client[q] # 0 /\ client[q] \in disposed)
      BY <1>7 DEF ClientInv
\* The lock and the points, when no close is awaited
<1>9. ASSUME Goes
      PROVE  /\ pc' \in [Task -> Points] /\ op' \in [Task -> Op]
             /\ LockInv' /\ PointInv'
  <2>1. CASE Leave(t)
        BY <2>1, LeaveLock DEF Inside
  <2>2. CASE GoTo(t, "loop")
    <3>1. /\ pc' \in [Task -> Points] /\ op' \in [Task -> Op]
          /\ LockInv' /\ pc'[t] = "loop" /\ op' = op
          /\ \A u \in Task : u # t => pc'[u] \notin Inside
          BY <2>2, GoToLock DEF Inside
    <3> QED  BY <3>1 DEF PointInv, Inside
  <2> QED  BY <1>9, <2>1, <2>2
<1>10. CASE Solitary
  <2>1. Types'
        BY <1>1, <1>3, <1>9, <1>10 DEF Types, DeviceTypes, entryVars
  <2>2. \A q \in Port : Users(q)' = Users(q)
        BY <1>4, <1>5, <1>6, <1>10
  <2>3. RefsExact' /\ NoLeakedTransport'
        BY <2>2, <1>10 DEF RefsExact, NoLeakedTransport, Port, entryVars
  <2>4. OneClientPerPort'
        BY <1>4, <1>10 DEF OneClientPerPort, entryVars
  <2>5. ClientInv'
        BY <1>1, <1>7, <1>10 DEF ClientInv, entryVars
  <2> QED  BY <1>3, <1>9, <1>10, <2>1, <2>3, <2>4, <2>5
<1>11. ASSUME p # Solo, refs' = [refs EXCEPT ![p] = Discard(p, n)]
       PROVE  /\ refs' \in [Port -> SUBSET Name]
              /\ \A q \in Port : refs'[q] = Users(q)'
  <2>1. p \in Port /\ refs[p] = Users(p)
        BY <1>4, <1>11 DEF RefsExact
  <2>2. \A q \in Port : refs'[q] = IF q = p THEN refs[p] \ {n} ELSE refs[q]
        BY <1>11 DEF Types, Discard
  <2>3. refs' \in [Port -> SUBSET Name]
        BY <1>11, <2>1 DEF Types, Discard
  <2>4. ASSUME NEW q \in Port
        PROVE  refs'[q] = Users(q)'
    <3>1. refs[q] = Users(q)
          BY DEF RefsExact
    <3>2. q # p => Users(q) \ {n} = Users(q)
          BY <1>6
    <3> QED  BY <3>1, <3>2, <2>2, <1>5
  <2> QED  BY <2>3, <2>4
<1>12. CASE Shared
  <2>1. Types'
        BY <1>1, <1>3, <1>9, <1>11, <1>12 DEF Types, DeviceTypes
  <2>2. RefsExact'
        BY <1>5, <1>11, <1>12 DEF RefsExact
  <2>3. \A q \in Port : Users(q) # {} => Users(q)' # {}
    <3>1. refs[p] = Users(p) /\ refs[p] \ {n} # {}
          BY <1>4, <1>12 DEF RefsExact, LastUser, Discard
    <3> QED  BY <3>1, <1>5, <1>6
  <2>4. NoLeakedTransport'
        BY <2>3, <1>12 DEF NoLeakedTransport, Port
  <2>5. OneClientPerPort'
        BY <1>4, <1>12 DEF OneClientPerPort
  <2>6. ClientInv'
        BY <1>1, <1>7, <1>12 DEF ClientInv
  <2> QED  BY <1>3, <1>9, <1>12, <2>1, <2>2, <2>4, <2>5, <2>6
\* The last user leaves.
<1>13. ASSUME Last
       PROVE  /\ p \in Port /\ \A q \in Port : q = p => Users(q)' = {}
              /\ client[p] \in Nat /\ client[p] <= made
              /\ disposed' \subseteq Nat /\ \A c \in disposed' : c <= made'
              /\ \A m \in Name : portOf'[m] \in Port => portOf'[m] # p
  <2>1. p \in Port /\ refs[p] = Users(p) /\ refs[p] \ {n} = {}
        BY <1>4, <1>13 DEF RefsExact, LastUser, Discard
  <2>2. \A q \in Port : q = p => Users(q)' = {}
        BY <2>1, <1>5
  <2>3. client[p] \in Nat /\ client[p] <= made
        BY <2>1 DEF Types, ClientInv
  <2>4. disposed' \subseteq Nat /\ \A c \in disposed' : c <= made'
        BY <2>3, <1>1, <1>13 DEF Types, ClientInv
  <2>5. \A m \in Name : portOf'[m] \in Port => portOf'[m] # p
        BY <2>2 DEF Users
  <2> QED  BY <2>1, <2>2, <2>3, <2>4, <2>5
<1>14. CASE Closes
  <2>1. Last
        BY <1>14
  <2>2. pc' \in [Task -> Points] /\ op' \in [Task -> Op]
    <3>1. op[t] \in Op /\ p \in Port
          BY <1>13, <2>1 DEF Types
    <3>2. [op[t] EXCEPT !.port = p] \in Op
          BY <3>1 DEF Op
    <3>3. op' = [op EXCEPT ![t] = [op[t] EXCEPT !.port = p]]
          BY <1>14
    <3> QED  BY <3>2, <3>3, <1>14 DEF Types, Points
  <2>3. Types'
        BY <1>1, <1>3, <1>11, <1>13, <1>14, <2>2 DEF Types, DeviceTypes
  <2>4. /\ pc'[t] = "closing" /\ op'[t].port = p
        /\ \A u \in Task : u # t => pc'[u] = pc[u]
        BY <1>14 DEF Types, Op
  <2>5. LockInv'
        BY <2>4, <1>7, <1>14 DEF LockInv, Inside
  <2>6. PointInv'
    <3>1. op'[t].port \in Owned /\ \A m \in Name : portOf'[m] # op'[t].port
          BY <2>1, <2>4, <1>13, <1>14
    <3>2. \A u \in Task : u # t => pc'[u] \notin Inside
          BY <2>4, <1>7
    <3> QED  BY <3>1, <3>2, <2>4 DEF PointInv, Inside, Users
  <2>7. RefsExact'
        BY <1>5, <1>11, <1>14 DEF RefsExact
  <2>8. NoLeakedTransport'
    <3> SUFFICES ASSUME NEW q \in Owned, isOpen'[q] PROVE Users(q)' # {}
        BY DEF NoLeakedTransport
    <3>1. q \in Port /\ q # p /\ isOpen[q]
          BY <1>14 DEF Types, Port
    <3>2. Users(q) # {} /\ n \notin Users(q)
          BY <3>1, <1>6 DEF NoLeakedTransport
    <3> QED  BY <3>1, <3>2, <1>5
  <2>9. OneClientPerPort'
        BY <1>4, <1>14 DEF OneClientPerPort
  <2>10. ClientInv'
    <3>1. ASSUME ~cancelled', NEW q \in Port, client'[q] # 0, client'[q] \in disposed'
          PROVE  pc'[t] = "closing" /\ op'[t].port = q
      <4>1. client'[q] = client[q] /\ disposed' = disposed \cup {client[p]}
            BY <1>14
      <4>2. client[q] = client[p] /\ client[q] # 0
            BY <3>1, <4>1, <1>8
      <4>3. q = p
            BY <4>2, <2>1, <1>13 DEF ClientInv
      <4> QED  BY <4>3, <2>4
    <3> QED  BY <3>1, <2>1, <1>1, <1>13, <1>14 DEF ClientInv
  <2> QED  BY <1>3, <2>3, <2>5, <2>6, <2>7, <2>8, <2>9, <2>10
<1>15. CASE Pops
  <2>1. Last
        BY <1>15
  <2>2. /\ entry' \in [Port -> BOOLEAN] /\ client' \in [Port -> Nat]
        /\ \A q \in Port : entry'[q] = (q # p /\ entry[q])
        /\ \A q \in Port : client'[q] = IF q = p THEN 0 ELSE client[q]
        BY <1>15 DEF PopEntry, Types
  <2>3. Types'
        BY <1>1, <1>3, <1>9, <1>11, <1>13, <1>15, <2>1, <2>2 DEF Types, DeviceTypes
  <2>4. RefsExact'
    <3> SUFFICES ASSUME NEW q \in Port
                 PROVE  refs'[q] = Users(q)' /\ (Users(q)' # {} => entry'[q])
        BY DEF RefsExact
    <3>1. (Users(q) # {} => entry[q]) /\ Users(q)' = Users(q) \ {n}
          BY <1>5 DEF RefsExact
    <3>2. refs'[q] = Users(q)' /\ (q = p => Users(q)' = {})
          BY <2>1, <1>11, <1>13
    <3>3. entry'[q] = (q # p /\ entry[q])
          BY <2>2
    <3> QED  BY <3>1, <3>2, <3>3
  <2>5. NoLeakedTransport'
    <3> SUFFICES ASSUME NEW q \in Owned, isOpen'[q] PROVE Users(q)' # {}
        BY DEF NoLeakedTransport
    <3>1. q \in Port /\ q # p /\ isOpen[q]
          BY <1>15 DEF Port
    <3>2. Users(q) # {} /\ n \notin Users(q)
          BY <3>1, <1>6 DEF NoLeakedTransport
    <3> QED  BY <3>1, <3>2, <1>5
  <2>6. OneClientPerPort'
    <3> SUFFICES ASSUME NEW m \in Name, portOf'[m] \in Port
                 PROVE  controller'[m] = client'[portOf'[m]] /\ controller'[m] # 0
        BY DEF OneClientPerPort
    <3>1. m # n /\ portOf'[m] = portOf[m] /\ portOf[m] # p
          BY <2>1, <1>4, <1>13
    <3> QED  BY <3>1, <2>2, <1>4 DEF OneClientPerPort
  <2>7. ClientInv'
    <3>1. ASSUME NEW q \in Port
          PROVE  client'[q] <= made'
      <4>1. client[q] <= made /\ 0 <= made
            BY DEF ClientInv, Types
      <4> QED  BY <4>1, <2>2, <1>1
    <3>2. \A q, r \in Port : client'[q] = client'[r] /\ client'[q] # 0 => q = r
          BY <2>2 DEF ClientInv
    <3>3. ~cancelled' => \A q \in Port : ~(client'[q] # 0 /\ client'[q] \in disposed')
      <4> SUFFICES ASSUME ~cancelled', NEW q \in Port,
                          client'[q] # 0, client'[q] \in disposed'
                   PROVE  FALSE
          OBVIOUS
      <4>1. q # p /\ client'[q] = client[q]
            BY <2>2
      <4>2. client[q] = client[p]
            BY <4>1, <1>8, <1>15
      <4> QED  BY <4>1, <4>2, <2>1, <1>13 DEF ClientInv
    <3> QED  BY <3>1, <3>2, <3>3, <2>1, <1>13 DEF ClientInv
  <2> QED  BY <1>3, <1>9, <1>15, <2>3, <2>4, <2>5, <2>6, <2>7
<1> QED  BY <1>2, <1>10, <1>12, <1>14, <1>15

LEMMA RemoveInv == ASSUME IInv, NEW t \in Task, Remove(t) PROVE IInv'
<1> DEFINE n == op[t].name
<1>1. n \in Name /\ portOf[n] # Absent /\ ~closed
      BY DEF IInv, Types, Op, Remove, Refused, Registered
<1> QED  BY <1>1, TeardownInv DEF Remove

LEMMA CloseNextInv == ASSUME IInv, NEW t \in Task, CloseNext(t) PROVE IInv'
<1> DEFINE n == order[Len(order)]
<1>1. order \in Seq(Name) /\ order # <<>> /\ ~closed
      BY DEF IInv, Types, CloseNext, PointInv
<1>2. Len(order) \in 1..Len(order)
      BY <1>1, LenProperties, EmptySeq
<1>3. n \in Name /\ portOf[n] # Absent
      BY <1>1, <1>2, ElementOfSeq DEF IInv, OrderInv, Holds
<1> QED  BY <1>1, <1>3, TeardownInv DEF CloseNext

LEMMA CloseEndsInv == ASSUME IInv, NEW t \in Task, CloseEnds(t) PROVE IInv'
<1>1. NoLeakedTransport'
      BY DEF IInv, CloseEnds, deviceVars, NoLeakedTransport, Users
<1> QED  BY <1>1, LeaveInv DEF IInv, Types, CloseEnds, entryVars

LEMMA ClosedTransportInv ==
    ASSUME IInv, NEW t \in Task, ClosedTransport(t) PROVE IInv'
<1> USE DEF IInv, ClosedTransport, deviceVars, clientVars
<1> DEFINE p == op[t].port
<1>1. p \in Port /\ (\A m \in Name : portOf[m] # p) /\ ~closed
      BY DEF PointInv, Users, Port
<1>2. /\ entry' \in [Port -> BOOLEAN] /\ client' \in [Port -> Nat]
      /\ \A q \in Port : q # p => entry'[q] = entry[q]
      /\ \A q \in Port : client'[q] = IF q = p THEN 0 ELSE client[q]
      BY DEF PopEntry, Types
<1>3. /\ pc' \in [Task -> Points] /\ op' \in [Task -> Op]
      /\ LockInv' /\ PointInv'
  <2>1. CASE Leave(t)
        BY <2>1, LeaveLock DEF Inside
  <2>2. CASE GoTo(t, "loop")
    <3>1. /\ pc' \in [Task -> Points] /\ op' \in [Task -> Op]
          /\ LockInv' /\ pc'[t] = "loop" /\ op' = op
          /\ \A u \in Task : u # t => pc'[u] \notin Inside
          BY <2>2, GoToLock DEF Inside
    <3> QED  BY <3>1, <1>1 DEF PointInv, Inside
  <2> QED  BY <2>1, <2>2
<1>4. DeviceTypes /\ OrderInv'
      BY DEF Types, DeviceTypes, OrderInv, Distinct, Holds
<1>5. Types'
      BY <1>2, <1>3 DEF Types
<1>6. RefsExact'
  <2> SUFFICES ASSUME NEW q \in Port
               PROVE  refs'[q] = Users(q)' /\ (Users(q)' # {} => entry'[q])
      BY DEF RefsExact
  <2>1. refs[q] = Users(q) /\ (Users(q) # {} => entry[q]) /\ Users(q)' = Users(q)
        BY DEF RefsExact, Users
  <2>2. q = p => Users(q) = {}
        BY <1>1 DEF Users
  <2> QED  BY <2>1, <2>2, <1>2
<1>7. OneClientPerPort'
  <2> SUFFICES ASSUME NEW m \in Name, portOf[m] \in Port
               PROVE  controller[m] = client'[portOf[m]] /\ controller[m] # 0
      BY DEF OneClientPerPort
  <2> QED  BY <1>1, <1>2 DEF OneClientPerPort
<1>8. NoLeakedTransport'
      BY DEF NoLeakedTransport, Users
<1>9. ClientInv'
  <2>1. ASSUME NEW q \in Port
        PROVE  client'[q] <= made'
    <3>1. client[q] <= made /\ 0 <= made
          BY DEF ClientInv, Types
    <3> QED  BY <3>1, <1>2
  <2>2. \A q, r \in Port : client'[q] = client'[r] /\ client'[q] # 0 => q = r
        BY <1>2 DEF ClientInv
  <2>3. ASSUME ~cancelled', NEW q \in Port, client'[q] # 0, client'[q] \in disposed'
        PROVE  FALSE
    <3>1. q # p /\ client[q] # 0 /\ client[q] \in disposed
          BY <2>3, <1>2
    <3>2. PICK u \in Task : pc[u] = "closing" /\ op[u].port = q
          BY <2>3, <3>1 DEF ClientInv
    <3>3. u = t
          BY <3>2, Alone DEF Inside
    <3> QED  BY <3>1, <3>2, <3>3
  <2> QED  BY <2>1, <2>2, <2>3 DEF ClientInv
<1> QED  BY <1>1, <1>3, <1>4, <1>5, <1>6, <1>7, <1>8, <1>9

-----------------------------------------------------------------------------
(***************************************************************************)
(* Every step                                                              *)
(***************************************************************************)
LEMMA NextInv == ASSUME IInv, [Next]_vars PROVE IInv'
<1>1. CASE UNCHANGED vars
      BY <1>1, NothingKept DEF vars, entryVars
<1>2. ASSUME NEW t \in Task, Call(t) \/ OpStep(t) \/ Cancel(t)
      PROVE  IInv'
      BY <1>2, CallInv, CancelInv, EnterInv, RefuseInv, AddSoloInv, AddOnPortInv,
         OpenedInv, OpenFailsInv, RemoveInv, CloseNextInv, CloseEndsInv,
         ClosedTransportInv DEF OpStep
<1>3. CASE StartPoll
      BY <1>3, NothingKept DEF StartPoll, entryVars
<1>4. CASE PollStep
  <2>1. ASSUME NEW g \in Port \cup Name, Lookup(g)
        PROVE  IInv'
        BY <2>1, NothingKept DEF Lookup, entryVars
  <2>2. ASSUME NEW g \in Port \cup Name, NEW ok \in BOOLEAN, Polled(g, ok)
        PROVE  IInv'
        BY <2>2, NothingKept DEF Polled, entryVars
  <2>3. CASE EndPoll
        BY <2>3, NothingKept DEF EndPoll, entryVars
  <2> QED  BY <1>4, <2>1, <2>2, <2>3 DEF PollStep
<1> QED  BY <1>1, <1>2, <1>3, <1>4 DEF Next

\* The invariant is one: no step of any task, however many there are and
\* wherever the others are, leaves it.
LEMMA Invariant == Spec => []IInv
BY InitInv, NextInv, PTL DEF Spec

-----------------------------------------------------------------------------
(***************************************************************************)
(* The rest of the types, and the polls                                    *)
(***************************************************************************)
PollRecord ==
    [state : {"none", "running", "returned", "raised", "crashed"},
     kind : PollKind, targets : SUBSET Name,
     groups : [Port \cup Name -> SUBSET Name], busy : SUBSET Name,
     reported : SUBSET Name, failed : BOOLEAN]

\* The members of a poll still to come.
Waiting == UNION {poll.groups[g] : g \in Port \cup Name}

\* Every controller asked about is reported, or waits in a group.
PollInv ==
    /\ poll \in PollRecord
    /\ poll.state = "running" /\ poll.kind # "poll_many" =>
           poll.targets = poll.reported \cup Waiting
    /\ PollReportsAll

\* An add that has got as far as a transport knows the protocol of its client.
MoreTypes ==
    /\ owner \in Task \cup {Nobody}
    /\ protocol \in [Port -> Protocol \cup {"none"}]
    /\ ops \in Nat /\ polls \in Nat
    /\ \A t \in Task : pc[t] = "opening" => op[t].port \in Port /\ op[t].kind \in Protocol

LEMMA InitMore == Init => PollInv /\ MoreTypes
<1> SUFFICES ASSUME Init PROVE PollInv /\ MoreTypes
    OBVIOUS
<1>1. poll = NoPoll /\ NoPoll \in PollRecord
      BY DEF Init, NoPoll, PollRecord, PollKind
<1>2. poll.state = "none"
      BY <1>1 DEF NoPoll
<1>3. PollInv
      BY <1>1, <1>2 DEF PollInv, PollReportsAll
<1> QED  BY <1>3 DEF Init, MoreTypes

\* A poll that comes to an end has been through all its groups.
LEMMA PollStepInv ==
    ASSUME Types, PollInv, [Next]_vars
    PROVE  PollInv'
<1>1. CASE UNCHANGED poll
      BY <1>1 DEF PollInv, PollReportsAll, Waiting
<1>2. CASE StartPoll
  <2>1. PICK kind \in PollKind, names \in SUBSET Registered \ {{}} :
            poll' = [NoPoll EXCEPT
                !.state = "running", !.kind = kind, !.targets = names,
                !.groups = [g \in Port \cup Name |-> {n \in names : GroupOf(n) = g}]]
        BY <1>2 DEF StartPoll
  <2> DEFINE split == [g \in Port \cup Name |-> {n \in names : GroupOf(n) = g}]
  <2>2. names \in SUBSET Name /\ \A n \in names : GroupOf(n) \in Port \cup Name
        BY DEF Registered, GroupOf, Types
  <2>3. split \in [Port \cup Name -> SUBSET Name]
        BY <2>2
  <2>4. UNION {split[g] : g \in Port \cup Name} = names
    <3>1. \A g \in Port \cup Name : split[g] = {n \in names : GroupOf(n) = g}
          OBVIOUS
    <3> HIDE DEF split
    <3>2. \A n \in names : \E g \in Port \cup Name : n \in split[g]
          BY <2>2, <3>1
    <3>3. \A g \in Port \cup Name : split[g] \subseteq names
          BY <3>1
    <3> QED  BY <3>2, <3>3
  <2> HIDE DEF split
  <2>5. poll' = [NoPoll EXCEPT !.state = "running", !.kind = kind, !.targets = names,
                               !.groups = split]
        BY <2>1 DEF split
  <2>6. poll' \in PollRecord /\ poll'.state = "running" /\ poll'.targets = names
        /\ poll'.groups = split /\ poll'.reported = {}
        BY <2>2, <2>3, <2>5 DEF NoPoll, PollRecord
  <2>7. Waiting' = names
        BY <2>4, <2>6 DEF Waiting
  <2> QED  BY <2>6, <2>7 DEF PollInv, PollReportsAll
<1>3. ASSUME NEW g \in Port \cup Name, Lookup(g)
      PROVE  PollInv'
  <2>1. PICK n \in poll.groups[g] :
            poll' = IF n \in Registered
                    THEN [poll EXCEPT !.busy = @ \cup {n}]
                    ELSE [poll EXCEPT !.state = "crashed", !.busy = {}]
        BY <1>3 DEF Lookup
  <2>2. n \in Name /\ poll \in PollRecord /\ poll.state = "running"
        BY <1>3 DEF PollInv, PollRecord, Lookup
  <2>3. /\ poll'.groups = poll.groups /\ poll'.targets = poll.targets
        /\ poll'.reported = poll.reported /\ poll'.kind = poll.kind
        /\ poll'.state \in {"running", "crashed"}
        BY <2>1, <2>2 DEF PollRecord
  <2>4. poll' \in PollRecord
        BY <2>1, <2>2 DEF PollRecord
  <2>5. Waiting' = Waiting
        BY <2>3 DEF Waiting
  <2> QED  BY <2>2, <2>3, <2>4, <2>5 DEF PollInv, PollReportsAll
<1>4. ASSUME NEW g \in Port \cup Name, NEW ok \in BOOLEAN, Polled(g, ok)
      PROVE  PollInv'
  <2>1. PICK n \in poll.groups[g] \cap poll.busy :
            poll' = [poll EXCEPT !.busy = @ \ {n},
                                 !.groups[g] = @ \ {n},
                                 !.reported = IF Recorded(poll.kind, ok) THEN @ \cup {n} ELSE @,
                                 !.failed = @ \/ ~ok]
        BY <1>4 DEF Polled
  <2>2. n \in Name /\ poll \in PollRecord /\ poll.state = "running"
        BY <1>4 DEF PollInv, PollRecord, Polled
  <2>3. /\ poll'.groups = [poll.groups EXCEPT ![g] = @ \ {n}]
        /\ poll'.targets = poll.targets /\ poll'.kind = poll.kind /\ poll'.state = "running"
        /\ poll'.reported = IF Recorded(poll.kind, ok) THEN poll.reported \cup {n}
                            ELSE poll.reported
        BY <2>1, <2>2 DEF PollRecord
  <2>4. poll.groups \in [Port \cup Name -> SUBSET Name] /\ poll.reported \in SUBSET Name
        BY <2>2 DEF PollRecord
  <2>5. poll' \in PollRecord
    <3>1. poll'.groups \in [Port \cup Name -> SUBSET Name]
          BY <2>3, <2>4
    <3>2. (poll.failed \/ ~ok) \in BOOLEAN /\ poll.busy \ {n} \in SUBSET Name
          /\ (IF Recorded(poll.kind, ok) THEN poll.reported \cup {n} ELSE poll.reported)
                 \in SUBSET Name
          BY <2>2 DEF PollRecord
    <3> QED  BY <2>1, <2>2, <3>1, <3>2 DEF PollRecord
  <2>6. poll.kind # "poll_many" => poll'.targets = poll'.reported \cup Waiting'
    <3>1. SUFFICES ASSUME poll.kind # "poll_many"
                   PROVE  poll.targets = poll.reported \cup {n} \cup Waiting'
          BY <2>3 DEF Recorded
    <3>2. poll.targets = poll.reported \cup Waiting
          BY <2>2, <3>1 DEF PollInv
    <3>3. Waiting' \subseteq Waiting /\ Waiting \subseteq Waiting' \cup {n} /\ n \in Waiting
          BY <2>3, <2>4 DEF Waiting
    <3> QED  BY <3>2, <3>3
  <2> QED  BY <2>3, <2>5, <2>6 DEF PollInv, PollReportsAll
<1>5. CASE EndPoll
  <2> DEFINE s == IF poll.kind = "execute_each" /\ Policy = "raise" /\ poll.failed
                  THEN "raised" ELSE "returned"
  <2>1. /\ poll' = [poll EXCEPT !.state = s] /\ poll \in PollRecord /\ poll.state = "running"
        /\ \A g \in Port \cup Name : poll.groups[g] = {}
        BY <1>5 DEF EndPoll, PollInv
  <2>2. s \in {"raised", "returned"}
        OBVIOUS
  <2> HIDE DEF s
  <2>3. /\ poll' \in PollRecord /\ poll'.state = s /\ poll'.kind = poll.kind
        /\ poll'.targets = poll.targets /\ poll'.reported = poll.reported
        BY <2>1, <2>2 DEF PollRecord
  <2>4. Waiting = {}
        BY <2>1 DEF Waiting
  <2> QED  BY <2>1, <2>2, <2>3, <2>4 DEF PollInv, PollReportsAll
<1>6. ASSUME NEW t \in Task, Call(t) \/ OpStep(t) \/ Cancel(t)
      PROVE  UNCHANGED poll
      BY <1>6 DEF Call, OpStep, Cancel, Enter, Refuse, AddSolo, AddOnPort, Opened, OpenFails,
             Remove, CloseNext, CloseEnds, ClosedTransport
<1> QED  BY <1>1, <1>2, <1>3, <1>4, <1>5, <1>6 DEF Next, PollStep, vars

\* The lock, the protocols of the ports and the counters.
LEMMA MoreTypesInv ==
    ASSUME Types, MoreTypes, [Next]_vars
    PROVE  MoreTypes'
<1> USE DEF entryVars, opVars, countVars
<1>1. CASE UNCHANGED <<owner, protocol, ops, polls, pc, op>>
      BY <1>1 DEF MoreTypes
<1>2. ASSUME NEW t \in Task, Leave(t), protocol' \in [Port -> Protocol \cup {"none"}],
             UNCHANGED countVars
      PROVE  MoreTypes'
      BY <1>2 DEF Leave, MoreTypes, Types
<1>3. ASSUME NEW t \in Task, NEW x \in {"loop", "closing", "in"}, protocol' \in [Port -> Protocol \cup {"none"}],
             pc' = [pc EXCEPT ![t] = x], UNCHANGED <<owner, countVars>>,
             \A u \in Task \ {t} : op'[u] = op[u]
      PROVE  MoreTypes'
      BY <1>3 DEF MoreTypes, Types
<1>4. \A t \in Task : op[t] \in Op
      BY DEF Types
<1>5. ASSUME NEW t \in Task, Call(t) \/ Enter(t) \/ Cancel(t)
      PROVE  MoreTypes'
      BY <1>5 DEF Call, Enter, Cancel, MoreTypes, Types
<1>6. ASSUME NEW t \in Task, Refuse(t) \/ AddSolo(t) \/ OpenFails(t) \/ CloseEnds(t)
      PROVE  MoreTypes'
  <2>1. Leave(t) /\ UNCHANGED <<protocol, countVars>>
        BY <1>6 DEF Refuse, AddSolo, OpenFails, Unbind, CloseEnds
  <2> QED  BY <1>2, <2>1 DEF MoreTypes
<1>7. ASSUME NEW t \in Task, NEW p \in Port, NEW k \in Protocol,
             Bind(t, p, k) \/ Unbind(t), UNCHANGED countVars
      PROVE  MoreTypes'
  <2>1. Leave(t) /\ protocol' \in [Port -> Protocol \cup {"none"}]
        BY <1>7 DEF Bind, Unbind, MoreTypes
  <2> QED  BY <1>2, <1>7, <2>1
<1>8. ASSUME NEW t \in Task, AddOnPort(t)
      PROVE  MoreTypes'
  <2>1. op[t].port \in Port /\ op[t].kind \in Protocol
        BY <1>4, <1>8 DEF AddOnPort, Op, Refused
  <2>2. CASE Bind(t, op[t].port, op[t].kind) \/ Unbind(t)
        BY <1>7, <1>8, <2>1, <2>2 DEF AddOnPort
  <2>3. CASE GoTo(t, "opening") /\ UNCHANGED entryVars
        BY <1>8, <2>1, <2>3 DEF AddOnPort, GoTo, MoreTypes, Types
  <2> QED  BY <1>8, <2>2, <2>3 DEF AddOnPort
<1>9. ASSUME NEW t \in Task, Opened(t)
      PROVE  MoreTypes'
  <2>1. op[t].port \in Port /\ op[t].kind \in Protocol
        BY <1>9 DEF Opened, MoreTypes
  <2> QED  BY <1>7, <1>9, <2>1 DEF Opened
<1>10. ASSUME NEW t \in Task, NEW n \in Name, NEW after,
              after => Leave(t) \/ GoTo(t, "loop"),
              Teardown(t, n, after), UNCHANGED countVars
       PROVE  MoreTypes'
  <2>1. protocol' \in [Port -> Protocol \cup {"none"}]
        BY <1>10 DEF Teardown, PopEntry, MoreTypes
  <2>2. \/ after
        \/ /\ pc' = [pc EXCEPT ![t] = "closing"] /\ UNCHANGED owner
           /\ op' = [op EXCEPT ![t].port = portOf[n]]
        BY <1>10 DEF Teardown
  <2>3. CASE Leave(t)
        BY <1>2, <1>10, <2>1, <2>3
  <2>4. CASE GoTo(t, "loop")
        BY <1>3, <1>10, <2>1, <2>4 DEF GoTo
  <2>5. CASE /\ pc' = [pc EXCEPT ![t] = "closing"] /\ UNCHANGED owner
             /\ op' = [op EXCEPT ![t].port = portOf[n]]
        BY <1>3, <1>10, <2>1, <2>5 DEF Types
  <2> QED  BY <1>10, <2>2, <2>3, <2>4, <2>5
<1>11. ASSUME NEW t \in Task, Remove(t)
       PROVE  MoreTypes'
  <2>1. op[t].name \in Name
        BY <1>4 DEF Op
  <2>2. Teardown(t, op[t].name, Leave(t)) /\ UNCHANGED countVars
        BY <1>11 DEF Remove
  <2> QED  BY <1>10, <2>1, <2>2
<1>12. ASSUME NEW t \in Task, CloseNext(t)
       PROVE  MoreTypes'
  <2>1. order[Len(order)] \in Name
    <3>1. Len(order) \in Nat \ {0}
          BY <1>12, EmptySeq DEF Types, CloseNext
    <3>2. Len(order) \in 1..Len(order)
          BY <3>1
    <3> QED  BY <3>2, ElementOfSeq DEF Types
  <2>2. Teardown(t, order[Len(order)], GoTo(t, "loop")) /\ UNCHANGED countVars
        BY <1>12 DEF CloseNext
  <2> QED  BY <1>10, <2>1, <2>2
<1>13. ASSUME NEW t \in Task, ClosedTransport(t)
       PROVE  MoreTypes'
  <2>1. protocol' \in [Port -> Protocol \cup {"none"}] /\ UNCHANGED countVars
        BY <1>13 DEF ClosedTransport, PopEntry, MoreTypes
  <2>2. Leave(t) \/ GoTo(t, "loop")
        BY <1>13 DEF ClosedTransport
  <2>3. CASE Leave(t)
        BY <1>2, <2>1, <2>3
  <2>4. CASE GoTo(t, "loop")
        BY <1>3, <2>1, <2>4 DEF GoTo
  <2> QED  BY <2>2, <2>3, <2>4
<1>14. CASE StartPoll
       BY <1>14 DEF StartPoll, MoreTypes
<1>15. CASE PollStep
       BY <1>15 DEF PollStep, Lookup, Polled, EndPoll, MoreTypes
<1> QED  BY <1>1, <1>5, <1>6, <1>8, <1>9, <1>11, <1>12, <1>13, <1>14, <1>15
         DEF Next, OpStep, vars

LEMMA FullInvariant == Spec => [](IInv /\ PollInv /\ MoreTypes)
<1>1. Init => IInv /\ PollInv /\ MoreTypes
      BY InitInv, InitMore
<1>2. IInv /\ PollInv /\ MoreTypes /\ [Next]_vars => IInv' /\ PollInv' /\ MoreTypes'
      BY NextInv, PollStepInv, MoreTypesInv DEF IInv
<1> QED  BY <1>1, <1>2, PTL DEF Spec

\* As many names are registered as the dict of devices has places.
LEMMA OrderCounted ==
    ASSUME Types, OrderInv
    PROVE  /\ {order[i] : i \in DOMAIN order} = Registered
           /\ Len(order) = Cardinality(Registered)
<1>1. Len(order) \in Nat /\ DOMAIN order = 1..Len(order) /\ order \in [1..Len(order) -> Name]
      BY LenProperties DEF Types
<1>2. /\ \A i \in 1..Len(order) : order[i] \in Registered
      /\ \A n \in Registered : \E i \in 1..Len(order) : order[i] = n
      BY <1>1 DEF OrderInv, Holds, Registered
<1>3. order \in [1..Len(order) -> Registered]
      BY <1>1, <1>2
<1>4. order \in Bijection(1..Len(order), Registered)
      BY <1>1, <1>2, <1>3 DEF OrderInv, Distinct, Bijection, Injection, Surjection, IsInjective
<1>5. Cardinality(Registered) = Len(order)
      BY <1>1, <1>4, FS_CountingElements DEF ExistsBijection
<1> QED  BY <1>1, <1>2, <1>5

-----------------------------------------------------------------------------
(***************************************************************************)
(* The results                                                             *)
(***************************************************************************)

\* The reference counts of add, remove and close are exact: a port entry's
\* refs are the names registered on it at every await of _maybe_teardown_port.
THEOREM RefsAlwaysExact == Spec => []RefsExact
<1>1. IInv => RefsExact
      BY DEF IInv
<1> QED  BY Invariant, <1>1, PTL

\* Controllers on one port share its client, and so its lock, through every
\* order of add, remove and close.
THEOREM AlwaysOneClientPerPort == Spec => []OneClientPerPort
<1>1. IInv => OneClientPerPort
      BY DEF IInv
<1> QED  BY Invariant, <1>1, PTL

\* A transport _resolve_port made is open only while a controller is on it,
\* also after an add that fails or is cancelled in transport.open.
THEOREM NeverLeaked == Spec => []NoLeakedTransport
<1>1. IInv => NoLeakedTransport
      BY DEF IInv
<1> QED  BY Invariant, <1>1, PTL

\* While no task is cancelled in transport.close, add never binds a controller
\* to a client that _maybe_teardown_port has disposed of.
THEOREM ClientsStayLive == Spec => []LiveClients
<1>1. ASSUME IInv, ~cancelled, NEW n \in Name, portOf[n] \in Port
      PROVE  controller[n] \notin disposed
  <2>1. controller[n] = client[portOf[n]] /\ controller[n] # 0
        BY <1>1 DEF IInv, OneClientPerPort
  <2>2. \A t \in Task : pc[t] = "closing" => op[t].port # portOf[n]
        BY <1>1 DEF IInv, PointInv, Users
  <2> QED  BY <1>1, <2>1, <2>2 DEF IInv, ClientInv
<1>2. IInv => LiveClients
      BY <1>1 DEF LiveClients
<1> QED  BY Invariant, <1>2, PTL

\* After close, no name is registered and no transport of the manager's own is
\* open, whatever add or remove was waiting for the lock meanwhile.
THEOREM ClosedForGood == Spec => []CloseIsFinal
<1>1. ASSUME IInv, closed
      PROVE  Registered = {} /\ \A p \in Owned : ~isOpen[p]
  <2>1. order = <<>> /\ Len(order) = 0
        BY <1>1, EmptySeq DEF IInv
  <2>2. \A n \in Name : portOf[n] = Absent
        BY <1>1, <2>1 DEF IInv, OrderInv, Holds
  <2>3. \A p \in Owned : Users(p) = {}
        BY <2>2, ManagerAssumption DEF Users, Port
  <2> QED  BY <1>1, <2>2, <2>3 DEF IInv, NoLeakedTransport, Registered
<1>2. IInv => CloseIsFinal
      BY <1>1 DEF CloseIsFinal
<1> QED  BY Invariant, <1>2, PTL

\* _maybe_teardown_port closes a transport as its last user goes, and nothing
\* else closes one.
LEMMA OnlyLastCloses ==
    ASSUME IInv, [Next]_vars, NEW p \in Port, isOpen[p], ~isOpen'[p]
    PROVE  Cardinality(Users(p)) = 1
<1> USE DEF IInv
<1>1. PICK t \in Task : Opened(t) \/ Remove(t) \/ CloseNext(t)
      BY DEF Next, OpStep, PollStep, vars, Call, Enter, Refuse, AddSolo, AddOnPort,
             OpenFails, CloseEnds, ClosedTransport, Cancel, StartPoll, Lookup,
             Polled, EndPoll
<1>2. ~Opened(t)
      BY DEF Opened, Types
<1>3. ASSUME NEW n \in Name, portOf[n] # Absent,
             Teardown(t, n, Leave(t)) \/ Teardown(t, n, GoTo(t, "loop"))
      PROVE  Cardinality(Users(p)) = 1
  <2>1. /\ p = portOf[n] /\ refs[p] \ {n} = {}
        BY <1>3 DEF Teardown, LastUser, Discard, Types
  <2>2. Users(p) = {n}
        BY <2>1 DEF RefsExact, Users
  <2> QED  BY <2>2, FS_Singleton
<1>4. CASE Remove(t)
  <2>1. op[t].name \in Name /\ portOf[op[t].name] # Absent
        BY <1>4 DEF Types, Op, Remove, Refused, Registered
  <2> QED  BY <1>3, <1>4, <2>1 DEF Remove
<1>5. CASE CloseNext(t)
  <2>1. order \in Seq(Name) /\ Len(order) \in 1..Len(order)
        BY <1>5, LenProperties, EmptySeq DEF Types, CloseNext
  <2>2. order[Len(order)] \in Name /\ portOf[order[Len(order)]] # Absent
        BY <2>1, ElementOfSeq DEF OrderInv, Holds
  <2> QED  BY <1>3, <1>5, <2>2 DEF CloseNext
<1> QED  BY <1>1, <1>2, <1>4, <1>5

\* A bus is never closed under a controller that is still registered on it.
THEOREM ClosedByLastUser == Spec => ClosedWhenUnused
<1>1. ASSUME IInv, [Next]_vars
      PROVE  [\A p \in Port : isOpen[p] /\ ~isOpen'[p] => Cardinality(Users(p)) = 1]_vars
      BY <1>1, OnlyLastCloses
<1> QED  BY Invariant, <1>1, PTL DEF Spec, ClosedWhenUnused

\* Every variable keeps its type, the protocol of an entry and the poll in progress
\* among them, and the dict of devices has each registered name in one place.
THEOREM TypesKept == Spec => []TypeOK
<1>1. ASSUME IInv, PollInv, MoreTypes
      PROVE  TypeOK
  <2>1. Types /\ OrderInv
        BY <1>1 DEF IInv
  <2> QED  BY <1>1, <2>1, OrderCounted DEF TypeOK, Types, MoreTypes, PollInv, PollRecord
<1> QED  BY FullInvariant, <1>1, PTL

\* A poll or an execute_each that returns has an outcome for every name it was
\* given, whatever is added and removed meanwhile and in whatever order its port
\* groups go through their members.
THEOREM PollsReportAll == Spec => []PollReportsAll
<1>1. PollInv => PollReportsAll
      BY DEF PollInv
<1> QED  BY FullInvariant, <1>1, PTL
=============================================================================
