----------------------------- MODULE DerpProofs -----------------------------
(***************************************************************************)
(* Proofs about DerpRelay, for any clients, queues and streams and any     *)
(* number of packets and connections: what the relay's table says, and     *)
(* that packets arrive in order.                                           *)
(***************************************************************************)
EXTENDS DerpRelay, TLAPS

Tables ==
    /\ limit \in Scenario
    /\ conns \in [Client -> 1 .. MaxConns]
    /\ clients \in [Client -> 0 .. MaxConns]
    /\ last \in [Client -> 1 .. MaxConns]
    /\ handler \in [Conn -> {"none", "greeting", "running", "leaving", "over"}]

\* A registered connection is not one to come, whose tasks are not there yet.
Numbers ==
    \A k \in Client :
        /\ last[k] <= conns[k] /\ handler[<<k, last[k]>>] \in {"running", "leaving", "over"}
        /\ \A i \in 1 .. MaxConns : conns[k] < i => handler[<<k, i>>] = "none"

RegisterInv == Tables /\ Numbers /\ RegistrationStands

-----------------------------------------------------------------------------
LEMMA RegisterInit == Init => RegisterInv
  <1> SUFFICES ASSUME Init PROVE RegisterInv
    OBVIOUS
  <1>1. Tables
    BY RelayAssumption DEF Init, Tables, Conn
  <1>2. ASSUME NEW k \in Client
        PROVE  /\ clients[k] = 1 /\ conns[k] = 1 /\ last[k] = 1 /\ handler[<<k, 1>>] = "running"
               /\ \A i \in 1 .. MaxConns : 1 < i => handler[<<k, i>>] = "none"
    BY RelayAssumption DEF Init, Conn
  <1>3. Numbers
    <2>1. ASSUME NEW k \in Client
          PROVE  /\ last[k] <= conns[k]
                 /\ handler[<<k, last[k]>>] \in {"running", "leaving", "over"}
                 /\ \A i \in 1 .. MaxConns : conns[k] < i => handler[<<k, i>>] = "none"
      <3>1. last[k] = 1 /\ conns[k] = 1
        BY <1>2
      <3>2. handler[<<k, last[k]>>] = "running" /\ last[k] <= conns[k]
        BY <1>2, <3>1
      <3> QED BY <1>2, <3>1, <3>2
    <2> QED BY <2>1 DEF Numbers
  <1>4. RegistrationStands
    BY <1>2 DEF RegistrationStands
  <1> QED BY <1>1, <1>3, <1>4 DEF RegisterInv

\* Steps that leave the relay's tables alone.
LEMMA RegisterKept ==
    RegisterInv /\ UNCHANGED <<limit, conns, clients, last, handler>> => RegisterInv'
  BY DEF RegisterInv, Tables, Numbers, RegistrationStands

\* A step of one task to state h, which is not that of a connection to come.
LEMMA RegisterMoves ==
    ASSUME RegisterInv, NEW c \in Conn, NEW h \in {"running", "leaving", "over"},
           handler[c] # "none", handler' = [handler EXCEPT ![c] = h],
           limit' = limit, conns' = conns
    PROVE  /\ handler' \in [Conn -> {"none", "greeting", "running", "leaving", "over"}]
           /\ \A j \in Client, i \in 1 .. MaxConns :
                 /\ <<j, i>> \in Conn
                 /\ handler'[<<j, i>>] = IF c = <<j, i>> THEN h ELSE handler[<<j, i>>]
                 /\ conns'[j] < i => handler'[<<j, i>>] = "none"
  <1>1. handler' \in [Conn -> {"none", "greeting", "running", "leaving", "over"}]
    BY DEF RegisterInv, Tables
  <1>2. ASSUME NEW j \in Client, NEW i \in 1 .. MaxConns
        PROVE  /\ <<j, i>> \in Conn
               /\ handler'[<<j, i>>] = IF c = <<j, i>> THEN h ELSE handler[<<j, i>>]
    BY DEF RegisterInv, Tables, Conn
  <1>3. ASSUME NEW j \in Client, NEW i \in 1 .. MaxConns, conns'[j] < i
        PROVE  handler'[<<j, i>>] = "none"
    <2>1. conns[j] < i
      BY <1>3
    <2>2. handler[<<j, i>>] = "none"
      BY <2>1 DEF RegisterInv, Numbers
    <2>3. c # <<j, i>>
      BY <2>2
    <2> QED BY <1>2, <2>2, <2>3
  <1> QED BY <1>1, <1>2, <1>3

\* A new connection waits for the relay's task, and the table is as before.
LEMMA RegisterDial ==
    ASSUME RegisterInv, NEW k \in Client, Dial(k)
    PROVE  RegisterInv'
  <1> DEFINE i == conns[k] + 1
  <1>1. i \in 1 .. MaxConns /\ <<k, i>> \in Conn
    <2>1. limit.conns[k] \in 1 .. MaxConns /\ conns[k] \in 1 .. MaxConns
      BY RelayAssumption DEF RegisterInv, Tables
    <2> QED BY <2>1, RelayAssumption DEF Dial, Conn
  <1>2. /\ conns' = [conns EXCEPT ![k] = i]
        /\ handler' = [handler EXCEPT ![<<k, i>>] = "greeting"]
        /\ UNCHANGED <<limit, clients, last>>
    BY DEF Dial
  <1>3. conns[k] < i /\ conns[k] \in 1 .. MaxConns
    BY RelayAssumption DEF RegisterInv, Tables
  <1> HIDE DEF i
  <1>4. Tables'
    BY <1>1, <1>2 DEF RegisterInv, Tables
  <1>5. ASSUME NEW j \in Client
        PROVE  /\ last[j] <= conns'[j] /\ <<j, last[j]>> # <<k, i>>
               /\ handler'[<<j, last[j]>>] = handler[<<j, last[j]>>]
    <2>1. <<j, last[j]>> \in Conn /\ last[j] \in 1 .. MaxConns /\ last[j] <= conns[j]
      BY DEF RegisterInv, Tables, Numbers, Conn
    <2>2. last[j] <= conns'[j] /\ <<j, last[j]>> # <<k, i>>
      BY <1>1, <1>2, <1>3, <2>1 DEF RegisterInv, Tables
    <2> QED BY <1>2, <2>1, <2>2 DEF RegisterInv, Tables
  <1>6. ASSUME NEW j \in Client, NEW n \in 1 .. MaxConns, conns'[j] < n
        PROVE  handler'[<<j, n>>] = "none"
    <2>1. <<j, n>> \in Conn
      BY DEF Conn
    <2>2. conns[j] < n /\ <<j, n>> # <<k, i>>
      BY <1>1, <1>2, <1>3, <1>6 DEF RegisterInv, Tables
    <2>3. handler[<<j, n>>] = "none"
      BY <2>2 DEF RegisterInv, Numbers
    <2> QED BY <1>2, <2>1, <2>2, <2>3 DEF RegisterInv, Tables
  <1>7. Numbers'
    BY <1>2, <1>5, <1>6 DEF RegisterInv, Numbers
  <1>8. RegistrationStands'
    BY <1>2, <1>5 DEF RegisterInv, RegistrationStands
  <1> QED BY <1>4, <1>7, <1>8 DEF RegisterInv

\* A connection that registers takes the entry over, whichever was there.
LEMMA RegisterRegister ==
    ASSUME RegisterInv, NEW c \in Conn, Register(c)
    PROVE  RegisterInv'
  <1>1. PICK k \in Client, i \in 1 .. MaxConns : c = <<k, i>>
    BY DEF Conn
  <1>2. /\ clients' = [clients EXCEPT ![k] = i] /\ last' = [last EXCEPT ![k] = i]
        /\ handler' = [handler EXCEPT ![c] = "running"]
        /\ handler[c] = "greeting" /\ limit' = limit /\ conns' = conns
    BY <1>1 DEF Register
  <1>3. /\ handler' \in [Conn -> {"none", "greeting", "running", "leaving", "over"}]
        /\ \A j \in Client, n \in 1 .. MaxConns :
              /\ handler'[<<j, n>>] = IF c = <<j, n>> THEN "running" ELSE handler[<<j, n>>]
              /\ conns'[j] < n => handler'[<<j, n>>] = "none"
    BY <1>2, RegisterMoves
  <1>4. Tables'
    BY <1>2, <1>3 DEF RegisterInv, Tables
  <1>5. ASSUME NEW j \in Client
        PROVE  /\ last'[j] <= conns'[j] /\ handler'[<<j, last'[j]>>] \in {"running", "leaving", "over"}
               /\ clients'[j] = IF handler'[<<j, last'[j]>>] = "over" THEN 0 ELSE last'[j]
    <2>1. CASE j = k
      <3>1. last'[j] = i /\ clients'[j] = i /\ handler'[<<j, i>>] = "running"
        BY <1>1, <1>2, <1>3, <2>1 DEF RegisterInv, Tables
      <3>2. i <= conns'[j]
        <4>1. handler[<<k, i>>] # "none"
          BY <1>1, <1>2
        <4>2. ~ conns[k] < i
          BY <4>1 DEF RegisterInv, Numbers
        <4>3. conns[k] \in 1 .. MaxConns /\ conns'[j] = conns[k]
          BY <1>2, <2>1 DEF RegisterInv, Tables
        <4> QED BY <4>2, <4>3
      <3> QED BY <3>1, <3>2
    <2>2. CASE j # k
      <3>1. last'[j] = last[j] /\ clients'[j] = clients[j] /\ last[j] \in 1 .. MaxConns
        BY <1>2, <2>2 DEF RegisterInv, Tables
      <3>2. handler'[<<j, last[j]>>] = handler[<<j, last[j]>>]
        BY <1>1, <1>3, <2>2, <3>1
      <3> QED BY <1>2, <3>1, <3>2 DEF RegisterInv, Numbers, RegistrationStands
    <2> QED BY <2>1, <2>2
  <1>6. Numbers' /\ RegistrationStands'
    BY <1>3, <1>5 DEF Numbers, RegistrationStands
  <1> QED BY <1>4, <1>6 DEF RegisterInv

\* A cleanup removes the entry of its own connection or nothing.
LEMMA RegisterCleanup ==
    ASSUME RegisterInv, NEW c \in Conn, Cleanup(c)
    PROVE  RegisterInv'
  <1>1. PICK k \in Client, i \in 1 .. MaxConns : c = <<k, i>>
    BY DEF Conn
  <1>2. /\ clients' = [clients EXCEPT ![k] = IF clients[k] = i THEN 0 ELSE clients[k]]
        /\ handler' = [handler EXCEPT ![c] = "over"] /\ handler[c] = "leaving"
        /\ limit' = limit /\ conns' = conns /\ last' = last
    BY <1>1 DEF Cleanup, Removed
  <1>3. /\ handler' \in [Conn -> {"none", "greeting", "running", "leaving", "over"}]
        /\ \A j \in Client, n \in 1 .. MaxConns :
              /\ handler'[<<j, n>>] = IF c = <<j, n>> THEN "over" ELSE handler[<<j, n>>]
              /\ conns'[j] < n => handler'[<<j, n>>] = "none"
    BY <1>2, RegisterMoves
  <1>4. Tables'
    BY <1>2, <1>3, RelayAssumption DEF RegisterInv, Tables
  <1>5. ASSUME NEW j \in Client
        PROVE  /\ handler'[<<j, last[j]>>] \in {"running", "leaving", "over"}
               /\ clients'[j] = IF handler'[<<j, last[j]>>] = "over" THEN 0 ELSE last[j]
    <2>1. /\ last[j] \in 1 .. MaxConns /\ handler[<<j, last[j]>>] \in {"running", "leaving", "over"}
          /\ clients[j] = IF handler[<<j, last[j]>>] = "over" THEN 0 ELSE last[j]
      BY DEF RegisterInv, Tables, Numbers, RegistrationStands
    <2>2. CASE c = <<j, last[j]>>
      <3>1. j = k /\ i = last[j] /\ clients[j] = i /\ handler'[<<j, last[j]>>] = "over"
        BY <1>1, <1>2, <1>3, <2>1, <2>2
      <3> QED BY <1>2, <3>1 DEF RegisterInv, Tables
    <2>3. CASE c # <<j, last[j]>>
      <3>1. handler'[<<j, last[j]>>] = handler[<<j, last[j]>>]
        BY <1>3, <2>1, <2>3
      <3>2. clients'[j] = clients[j]
        <4>1. CASE j = k
          <5>1. i # last[j] /\ i # 0
            BY <1>1, <2>3, <4>1
          <5>2. clients[j] # i
            BY <2>1, <5>1
          <5> QED BY <1>2, <4>1, <5>2 DEF RegisterInv, Tables
        <4>2. CASE j # k
          BY <1>2, <4>2 DEF RegisterInv, Tables
        <4> QED BY <4>1, <4>2
      <3> QED BY <2>1, <3>1, <3>2
    <2> QED BY <2>2, <2>3
  <1>6. Numbers'
    BY <1>2, <1>3, <1>5 DEF RegisterInv, Numbers
  <1>7. RegistrationStands'
    BY <1>2, <1>5 DEF RegistrationStands
  <1> QED BY <1>4, <1>6, <1>7 DEF RegisterInv

\* A task that fails before or after it registered leaves the table as it is.
LEMMA RegisterEnds ==
    ASSUME RegisterInv, NEW c \in Conn, Reject(c) \/ HandlerEnds(c)
    PROVE  RegisterInv'
  <1>1. UNCHANGED <<limit, conns, clients, last>>
    BY DEF Reject, HandlerEnds
  <1>2. PICK h \in {"leaving", "over"} :
           /\ handler' = [handler EXCEPT ![c] = h]
           /\ handler[c] = IF h = "over" THEN "greeting" ELSE "running"
    BY DEF Reject, HandlerEnds
  <1>3. /\ handler' \in [Conn -> {"none", "greeting", "running", "leaving", "over"}]
        /\ \A j \in Client, n \in 1 .. MaxConns :
              /\ handler'[<<j, n>>] = IF c = <<j, n>> THEN h ELSE handler[<<j, n>>]
              /\ conns'[j] < n => handler'[<<j, n>>] = "none"
    BY <1>1, <1>2, RegisterMoves
  <1>4. Tables'
    BY <1>1, <1>3 DEF RegisterInv, Tables
  <1>5. ASSUME NEW j \in Client
        PROVE  /\ handler'[<<j, last[j]>>] \in {"running", "leaving", "over"}
               /\ (handler'[<<j, last[j]>>] = "over") <=> (handler[<<j, last[j]>>] = "over")
    <2>1. last[j] \in 1 .. MaxConns /\ handler[<<j, last[j]>>] \in {"running", "leaving", "over"}
      BY DEF RegisterInv, Tables, Numbers
    <2>2. c = <<j, last[j]>> => h = "leaving" /\ handler[<<j, last[j]>>] = "running"
      BY <1>2, <2>1
    <2> QED BY <1>3, <2>1, <2>2
  <1>6. Numbers'
    BY <1>1, <1>3, <1>5 DEF RegisterInv, Numbers
  <1>7. RegistrationStands'
    BY <1>1, <1>5 DEF RegisterInv, RegistrationStands
  <1> QED BY <1>4, <1>6, <1>7 DEF RegisterInv

LEMMA RegisterStep == RegisterInv /\ [Next]_vars => RegisterInv'
  <1> SUFFICES ASSUME RegisterInv, [Next]_vars PROVE RegisterInv'
    OBVIOUS
  <1>1. ASSUME NEW k \in Client, Dial(k) PROVE RegisterInv'
    BY <1>1, RegisterDial
  <1>2. ASSUME NEW c \in Conn, Register(c) \/ Cleanup(c) \/ Reject(c) \/ HandlerEnds(c)
        PROVE  RegisterInv'
    BY <1>2, RegisterRegister, RegisterCleanup, RegisterEnds
  <1>3. ASSUME NEW k \in Client,
               \/ SessionTake(k) \/ SessionWrite(k) \/ SessionReceive(k) \/ SessionPass(k)
               \/ ActorReceive(k) \/ SessionEnds(k) \/ Answer(k) \/ Close(k) \/ Cut(k)
               \/ \E to \in Client : Submit(k, to)
        PROVE RegisterInv'
    <2>1. UNCHANGED <<limit, conns, clients, last, handler>>
      BY <1>3 DEF SessionTake, SessionWrite, SessionReceive, SessionPass, ActorReceive,
                  SessionEnds, Answer, Close, Cut, Submit, relay
    <2> QED BY <2>1, RegisterKept
  <1>4. ASSUME NEW c \in Conn, HandlerForward(c) \/ HandlerTake(c) \/ HandlerWrite(c)
        PROVE RegisterInv'
    <2>1. UNCHANGED <<limit, conns, clients, last, handler>>
      BY <1>4 DEF HandlerForward, HandlerTake, HandlerWrite
    <2> QED BY <2>1, RegisterKept
  <1>5. CASE UNCHANGED vars
    <2>1. UNCHANGED <<limit, conns, clients, last, handler>>
      BY <1>5 DEF vars, relay
    <2> QED BY <2>1, RegisterKept
  <1> QED BY <1>1, <1>2, <1>3, <1>4, <1>5 DEF Next, Progress

\* The relay's table names the connection of a client that was registered last, in whatever
\* order given-up and live ones register, until that one's task has cleaned up, and nothing
\* afterwards (the same_channel test in local_relay_client).
THEOREM RegistrationsStand == Spec => []RegistrationStands
  <1>1. RegisterInv => RegistrationStands
    BY DEF RegisterInv
  <1> QED BY <1>1, RegisterInit, RegisterStep, PTL DEF Spec

-----------------------------------------------------------------------------
(***************************************************************************)
(* Order of packets.  A packet to client d moves through seven queues:     *)
(* from those of its sender's connection c (up) to those of d's newest     *)
(* connection and to the actor (got).  The invariant holds them in line    *)
(* for every d and c: none of them, and no two of them one behind the      *)
(* other, hold two packets out of turn.  A packet passes on as the first   *)
(* of its queue to the end of the next; it joins a line in the middle only *)
(* from another connection of its sender, whose packets are others, and at *)
(* the end with a number above all that are on the way.                    *)
(***************************************************************************)

\* Two packets of one sender, the first ahead of the second: they differ, and over one
\* connection of the sender the first is the earlier one.
InTurn(p, q) == p.from = q.from => p.n # q.n /\ (p.via = q.via => p.n < q.n)

Ordered(q) == \A i, j \in 1 .. Len(q) : i < j => InTurn(q[i], q[j])
Ahead(q, r) == \A i \in 1 .. Len(q), j \in 1 .. Len(r) : InTurn(q[i], r[j])
Below(q, k, n) == \A i \in 1 .. Len(q) : q[i].from = k => q[i].n < n
Follows(p, q) == \A i \in 1 .. Len(q) : InTurn(q[i], p)
Leads(p, q) == \A i \in 1 .. Len(q) : InTurn(p, q[i])

\* What is left of a queue when packets leave, from the front or all at once.
Rest(r, q) == r = q \/ r = <<>> \/ (q # <<>> /\ r = Tail(q))

\* A line of queues, the one that is left last first.  The packets of each client in it have
\* numbers below floor.
Line(f, floor) ==
    /\ \A i \in 1 .. 7 : Ordered(f[i])
    /\ \A i, j \in 1 .. 7 : i < j => Ahead(f[i], f[j])
    /\ \A i \in 1 .. 7, k \in Client : Below(f[i], k, floor[k])

\* What the session passes on to the actor, and what the relay writes, as queues.
passing == [k \in Client |-> IF busy[k][1] = "pass" THEN <<busy[k][2]>> ELSE <<>>]
written == [c \in Conn |-> IF writing[c] # Idle THEN <<writing[c][2]>> ELSE <<>>]

\* The way of packets of connection c to client d, over its newest connection.
ways ==
    [d \in Client |-> [c \in Conn |-> [i \in 1 .. 7 |->
        CASE i = 1 -> got[d] [] i = 2 -> inq[d] [] i = 3 -> passing[d]
          [] i = 4 -> down[Newest(d)] [] i = 5 -> written[Newest(d)] [] i = 6 -> rx[Newest(d)]
          [] i = 7 -> up[c]]]]

\* The number of the packet that a client writes next: with queue q, waiting for b, when it
\* has sent n.
FloorOf(q, b, n) ==
    IF b[1] = "write" THEN b[2].n ELSE IF q # <<>> THEN q[1].n ELSE n + 1

floors == [k \in Client |-> FloorOf(outq[k], busy[k], sent[k])]

Waiting == {Idle} \cup ({"write", "pass"} \X Packet)

OrderType ==
    /\ sent \in [Client -> 0 .. MaxSends]
    /\ outq \in [Client -> Seq(Packet)]
    /\ inq \in [Client -> Seq(Packet)]
    /\ got \in [Client -> Seq(Packet)]
    /\ up \in [Conn -> Seq(Packet)]
    /\ down \in [Conn -> Seq(Packet)]
    /\ rx \in [Conn -> Seq(Packet)]
    /\ busy \in [Client -> Waiting]
    /\ writing \in [Conn -> Waiting]
    /\ session \in [Client -> 0 .. MaxConns]

\* The session of a client is over its newest connection, and connections to come are empty.
Unused(c) == up[c] = <<>> /\ down[c] = <<>> /\ rx[c] = <<>> /\ writing[c] = Idle

Sessions ==
    /\ \A k \in Client : session[k] = 0 \/ session[k] = conns[k]
    /\ \A k \in Client : session[k] = 0 => busy[k] = Idle
    /\ \A k \in Client : \A i \in 1 .. MaxConns : conns[k] < i => Unused(<<k, i>>)

\* What a client sends bears its name, and what it writes the connection v; what waits has the
\* later numbers, one by one.
Sends(q, b, v, n, k) ==
    /\ \A i \in 1 .. Len(q) : q[i].from = k /\ q[i].n <= n
    /\ \A i, j \in 1 .. Len(q) : i < j => q[i].n < q[j].n
    /\ b[1] = "write" => /\ b[2].from = k /\ b[2].via = v /\ b[2].n <= n
                         /\ \A i \in 1 .. Len(q) : b[2].n < q[i].n

Outgoing == \A k \in Client : Sends(outq[k], busy[k], session[k], sent[k], k)

\* So does what is on the way to the relay; no packet is in it twice.
Bears(q, k, v) == \A i \in 1 .. Len(q) : q[i].from = k /\ q[i].via = v
Apart(q, r) == \A i \in 1 .. Len(q), j \in 1 .. Len(r) : q[i].n # r[j].n

Uploads ==
    /\ \A k \in Client, v \in 1 .. MaxConns : Bears(up[<<k, v>>], k, v)
    /\ \A k \in Client, v, w \in 1 .. MaxConns : v # w => Apart(up[<<k, v>>], up[<<k, w>>])

Lines == \A d \in Client, c \in Conn : Line(ways[d][c], floors)

OrderInv == OrderType /\ Sessions /\ Outgoing /\ Uploads /\ Lines

-----------------------------------------------------------------------------
LEMMA TailParts ==
    ASSUME NEW q \in Seq(Packet), q # <<>>
    PROVE  /\ Head(q) \in Packet /\ Head(q) = q[1] /\ 1 \in 1 .. Len(q) /\ Tail(q) \in Seq(Packet)
           /\ \A x \in 1 .. Len(Tail(q)) : x + 1 \in 1 .. Len(q) /\ Tail(q)[x] = q[x + 1]
  OBVIOUS

LEMMA AppendParts ==
    ASSUME NEW q \in Seq(Packet), NEW p \in Packet
    PROVE  /\ Append(q, p) \in Seq(Packet)
           /\ \A x \in 1 .. Len(Append(q, p)) :
                 \/ x \in 1 .. Len(q) /\ Append(q, p)[x] = q[x]
                 \/ x = Len(q) + 1 /\ Append(q, p)[x] = p
  OBVIOUS

\* What is left of a queue are packets of it, as far apart.
LEMMA RestParts ==
    ASSUME NEW q \in Seq(Packet), NEW r, Rest(r, q)
    PROVE  /\ r \in Seq(Packet)
           /\ \E o \in {0, 1} : \A x \in 1 .. Len(r) : x + o \in 1 .. Len(q) /\ r[x] = q[x + o]
  <1>1. CASE r = q
    <2>1. \A x \in 1 .. Len(r) : x + 0 \in 1 .. Len(q) /\ r[x] = q[x + 0]
      BY <1>1
    <2> QED BY <1>1, <2>1
  <1>2. CASE r = <<>>
    <2>1. r \in Seq(Packet) /\ Len(r) = 0
      BY <1>2
    <2> QED BY <2>1
  <1>3. CASE q # <<>> /\ r = Tail(q)
    <2>1. \A x \in 1 .. Len(r) : x + 1 \in 1 .. Len(q) /\ r[x] = q[x + 1]
      BY <1>3, TailParts
    <2> QED BY <1>3, <2>1, TailParts
  <1> QED BY <1>1, <1>2, <1>3 DEF Rest

LEMMA RestFrom ==
    ASSUME NEW q \in Seq(Packet), NEW r, Rest(r, q)
    PROVE  \A x \in 1 .. Len(r) : \E y \in 1 .. Len(q) : r[x] = q[y]
  BY RestParts

LEMMA RestOrdered ==
    ASSUME NEW q \in Seq(Packet), NEW r, Rest(r, q), Ordered(q)
    PROVE  Ordered(r)
  <1>1. r \in Seq(Packet)
    BY RestParts
  <1>2. PICK o \in {0, 1} : \A x \in 1 .. Len(r) : x + o \in 1 .. Len(q) /\ r[x] = q[x + o]
    BY RestParts
  <1>3. ASSUME NEW x \in 1 .. Len(r), NEW y \in 1 .. Len(r), x < y PROVE InTurn(r[x], r[y])
    <2>1. x + o < y + o
      BY <1>1, <1>3
    <2> QED BY <1>2, <2>1 DEF Ordered
  <1> QED BY <1>3 DEF Ordered

LEMMA RestAhead ==
    ASSUME NEW q \in Seq(Packet), NEW r, Rest(r, q),
           NEW s \in Seq(Packet), NEW t, Rest(t, s), Ahead(q, s)
    PROVE  Ahead(r, t)
  <1>1. \A x \in 1 .. Len(r) : \E y \in 1 .. Len(q) : r[x] = q[y]
    BY RestFrom
  <1>2. \A x \in 1 .. Len(t) : \E y \in 1 .. Len(s) : t[x] = s[y]
    BY RestFrom
  <1> QED BY <1>1, <1>2 DEF Ahead

LEMMA RestBelow ==
    ASSUME NEW q \in Seq(Packet), NEW r, Rest(r, q), NEW k, NEW m \in Nat, NEW n \in Nat,
           m <= n, Below(q, k, m)
    PROVE  Below(r, k, n)
  <1>1. \A x \in 1 .. Len(r) : \E y \in 1 .. Len(q) : r[x] = q[y]
    BY RestFrom
  <1>2. ASSUME NEW y \in 1 .. Len(q), q[y].from = k PROVE q[y].n < n
    <2>1. q[y].n < m /\ q[y] \in Packet
      BY <1>2 DEF Below
    <2>2. q[y].n \in Nat
      BY <2>1, RelayAssumption DEF Packet
    <2> QED BY <2>1, <2>2
  <1> QED BY <1>1, <1>2 DEF Below

\* The first packet of a queue, and the others.
LEMMA HeadLeads ==
    ASSUME NEW q \in Seq(Packet), q # <<>>
    PROVE  /\ Ordered(q) => Leads(Head(q), Tail(q))
           /\ \A r : Ahead(q, r) => Leads(Head(q), r)
           /\ \A r : Ahead(r, q) => Follows(Head(q), r)
           /\ \A n : Below(q, Head(q).from, n) => Head(q).n < n
  <1>1. ASSUME Ordered(q), NEW x \in 1 .. Len(Tail(q)) PROVE InTurn(Head(q), Tail(q)[x])
    <2>1. x + 1 \in 1 .. Len(q) /\ Tail(q)[x] = q[x + 1] /\ 1 \in 1 .. Len(q) /\ Head(q) = q[1]
      BY TailParts
    <2>2. 1 < x + 1
      BY TailParts
    <2> QED BY <1>1, <2>1, <2>2 DEF Ordered
  <1>2. Ordered(q) => Leads(Head(q), Tail(q))
    BY <1>1 DEF Leads
  <1>3. Head(q) = q[1] /\ 1 \in 1 .. Len(q)
    BY TailParts
  <1> QED BY <1>2, <1>3 DEF Ahead, Leads, Follows, Below

LEMMA AppendKeeps ==
    ASSUME NEW q \in Seq(Packet), NEW p \in Packet
    PROVE  /\ Ordered(q) /\ Follows(p, q) => Ordered(Append(q, p))
           /\ \A r : Ahead(q, r) /\ Leads(p, r) => Ahead(Append(q, p), r)
           /\ \A r : Ahead(r, q) /\ Follows(p, r) => Ahead(r, Append(q, p))
           /\ \A k, n : Below(q, k, n) /\ (p.from = k => p.n < n) => Below(Append(q, p), k, n)
  <1>1. PICK r \in Seq(Packet) : r = Append(q, p)
    BY AppendParts
  <1>2. ASSUME NEW x \in 1 .. Len(r)
        PROVE  (x \in 1 .. Len(q) /\ r[x] = q[x]) \/ (x = Len(q) + 1 /\ r[x] = p)
    BY <1>1, AppendParts
  <1>3. ASSUME Ordered(q), Follows(p, q), NEW x \in 1 .. Len(r), NEW y \in 1 .. Len(r), x < y
        PROVE  InTurn(r[x], r[y])
    <2>1. x # Len(q) + 1
      <3>1. Len(r) = Len(q) + 1 /\ Len(q) \in Nat
        BY <1>1
      <3> QED BY <1>3, <3>1
    <2>2. x \in 1 .. Len(q) /\ r[x] = q[x]
      BY <1>2, <2>1
    <2>3. CASE y \in 1 .. Len(q) /\ r[y] = q[y]
      BY <1>3, <2>2, <2>3 DEF Ordered
    <2>4. CASE r[y] = p
      BY <1>3, <2>2, <2>4 DEF Follows
    <2> QED BY <1>2, <2>3, <2>4
  <1>4. Ordered(q) /\ Follows(p, q) => Ordered(r)
    BY <1>3 DEF Ordered
  <1>5. \A t : Ahead(q, t) /\ Leads(p, t) => Ahead(r, t)
    BY <1>2 DEF Ahead, Leads
  <1>6. \A t : Ahead(t, q) /\ Follows(p, t) => Ahead(t, r)
    BY <1>2 DEF Ahead, Follows
  <1>7. \A k, n : Below(q, k, n) /\ (p.from = k => p.n < n) => Below(r, k, n)
    BY <1>2 DEF Below
  <1> QED BY <1>1, <1>4, <1>5, <1>6, <1>7

-----------------------------------------------------------------------------
\* A packet joins queue j of a line; the first packet of queue j goes to the next queue.
Joins(f, g, j, p) == g[j] = Append(f[j], p) /\ \A i \in 1 .. 7 : i # j => g[i] = f[i]

Advances(f, g, j) ==
    /\ f[j] # <<>> /\ g[j] = Tail(f[j]) /\ g[j - 1] = Append(f[j - 1], Head(f[j]))
    /\ \A i \in 1 .. 7 : i # j /\ i # j - 1 => g[i] = f[i]

\* Packets leave a line.
LEMMA LineShrinks ==
    ASSUME NEW f \in [1 .. 7 -> Seq(Packet)], NEW g,
           NEW floor \in [Client -> Nat], NEW higher \in [Client -> Nat], Line(f, floor),
           \A i \in 1 .. 7 : Rest(g[i], f[i]), \A k \in Client : floor[k] <= higher[k]
    PROVE  Line(g, higher)
  <1>1. ASSUME NEW i \in 1 .. 7 PROVE f[i] \in Seq(Packet)
    OBVIOUS
  <1>2. ASSUME NEW i \in 1 .. 7 PROVE Ordered(g[i])
    BY <1>1, RestOrdered DEF Line
  <1>3. ASSUME NEW i \in 1 .. 7, NEW j \in 1 .. 7, i < j PROVE Ahead(g[i], g[j])
    BY <1>1, <1>3, RestAhead DEF Line
  <1>4. ASSUME NEW i \in 1 .. 7, NEW k \in Client PROVE Below(g[i], k, higher[k])
    <2>1. floor[k] \in Nat /\ higher[k] \in Nat
      OBVIOUS
    <2>2. Below(f[i], k, floor[k])
      BY DEF Line
    <2> QED BY <1>1, <2>1, <2>2, RestBelow
  <1> QED BY <1>2, <1>3, <1>4 DEF Line

\* A packet may join where it is in turn.
LEMMA LineGrows ==
    ASSUME NEW f \in [1 .. 7 -> Seq(Packet)], NEW g, NEW floor, Line(f, floor),
           NEW j \in 1 .. 7, NEW p \in Packet, Joins(f, g, j, p),
           \A i \in 1 .. 7 : IF i <= j THEN Follows(p, f[i]) ELSE Leads(p, f[i]),
           p.n < floor[p.from]
    PROVE  Line(g, floor)
  <1>1. ASSUME NEW i \in 1 .. 7 PROVE f[i] \in Seq(Packet)
    OBVIOUS
  <1>2. g[j] = Append(f[j], p)
    BY DEF Joins
  <1>3. ASSUME NEW i \in 1 .. 7, i # j PROVE g[i] = f[i]
    BY <1>3 DEF Joins
  <1>4. ASSUME NEW i \in 1 .. 7 PROVE Ordered(g[i])
    <2>1. Ordered(f[i])
      BY DEF Line
    <2>2. CASE i = j
      <3>1. Follows(p, f[j])
        OBVIOUS
      <3> QED BY <1>1, <1>2, <2>1, <2>2, <3>1, AppendKeeps
    <2> QED BY <1>3, <2>1, <2>2
  <1>5. ASSUME NEW i \in 1 .. 7, NEW k \in 1 .. 7, i < k PROVE Ahead(g[i], g[k])
    <2>1. Ahead(f[i], f[k])
      BY <1>5 DEF Line
    <2>2. CASE i # j /\ k # j
      BY <1>3, <2>1, <2>2
    <2>3. CASE i = j
      <3>1. k # j /\ ~ k <= j
        BY <1>5, <2>3
      <3>2. g[k] = f[k]
        BY <1>3, <3>1
      <3>3. Leads(p, f[k])
        BY <3>1
      <3> QED BY <1>1, <1>2, <2>1, <2>3, <3>2, <3>3, AppendKeeps
    <2>4. CASE k = j
      <3>1. i # j /\ i <= j
        BY <1>5, <2>4
      <3>2. g[i] = f[i]
        BY <1>3, <3>1
      <3>3. Follows(p, f[i])
        BY <3>1
      <3> QED BY <1>1, <1>2, <2>1, <2>4, <3>2, <3>3, AppendKeeps
    <2> QED BY <2>2, <2>3, <2>4
  <1>6. ASSUME NEW i \in 1 .. 7, NEW k \in Client PROVE Below(g[i], k, floor[k])
    <2>1. Below(f[i], k, floor[k])
      BY DEF Line
    <2>2. CASE i = j
      BY <1>1, <1>2, <2>1, <2>2, AppendKeeps
    <2> QED BY <1>3, <2>1, <2>2
  <1> QED BY <1>4, <1>5, <1>6 DEF Line

LEMMA LineAdvances ==
    ASSUME NEW f \in [1 .. 7 -> Seq(Packet)], NEW g, NEW floor \in [Client -> Nat],
           Line(f, floor), NEW j \in 2 .. 7, Advances(f, g, j)
    PROVE  Line(g, floor)
  <1>1. j \in 1 .. 7 /\ j - 1 \in 1 .. 7 /\ j # j - 1
    OBVIOUS
  <1>2. f[j] \in Seq(Packet)
    BY <1>1
  <1>3. f[j] # <<>>
    BY DEF Advances
  <1>4. PICK p \in Packet : p = Head(f[j])
    BY <1>2, <1>3, TailParts
  <1>5. PICK t \in Seq(Packet) : t = Tail(f[j])
    BY <1>2, <1>3, TailParts
  <1>6. PICK h \in [1 .. 7 -> Seq(Packet)] : h = [f EXCEPT ![j] = t]
    BY <1>1
  <1>7. h[j] = t /\ \A i \in 1 .. 7 : i # j => h[i] = f[i]
    BY <1>1, <1>6
  <1>8. Line(h, floor)
    <2>1. ASSUME NEW k \in Client PROVE floor[k] <= floor[k]
      <3>1. floor[k] \in Nat
        OBVIOUS
      <3> QED BY <3>1
    <2>2. \A i \in 1 .. 7 : Rest(h[i], f[i])
      BY <1>3, <1>5, <1>7 DEF Rest
    <2> QED BY <2>1, <2>2, LineShrinks
  <1>9. Joins(h, g, j - 1, p)
    <2>1. g[j - 1] = Append(h[j - 1], p)
      BY <1>1, <1>4, <1>7 DEF Advances
    <2>2. ASSUME NEW i \in 1 .. 7, i # j - 1 PROVE g[i] = h[i]
      BY <1>5, <1>7, <2>2 DEF Advances
    <2> QED BY <2>1, <2>2 DEF Joins
  <1>10. ASSUME NEW i \in 1 .. 7, i < j PROVE Follows(p, h[i])
    <2>1. h[i] = f[i]
      <3>1. i # j
        BY <1>10
      <3> QED BY <1>7, <3>1
    <2>2. Ahead(f[i], f[j])
      BY <1>1, <1>10 DEF Line
    <2> QED BY <1>2, <1>3, <1>4, <2>1, <2>2, HeadLeads
  <1>11. ASSUME NEW i \in 1 .. 7, j < i PROVE Leads(p, h[i])
    <2>1. h[i] = f[i]
      <3>1. i # j
        BY <1>11
      <3> QED BY <1>7, <3>1
    <2>2. Ahead(f[j], f[i])
      BY <1>1, <1>11 DEF Line
    <2> QED BY <1>2, <1>3, <1>4, <2>1, <2>2, HeadLeads
  <1>12. Leads(p, h[j])
    <2>1. Ordered(f[j])
      BY <1>1 DEF Line
    <2> QED BY <1>2, <1>3, <1>4, <1>5, <1>7, <2>1, HeadLeads
  <1>13. ASSUME NEW i \in 1 .. 7
         PROVE  IF i <= j - 1 THEN Follows(p, h[i]) ELSE Leads(p, h[i])
    <2>1. CASE i < j
      <3>1. i <= j - 1
        BY <2>1
      <3> QED BY <1>10, <2>1, <3>1
    <2>2. CASE j < i
      <3>1. ~ i <= j - 1
        BY <2>2
      <3> QED BY <1>11, <2>2, <3>1
    <2>3. CASE i = j
      <3>1. ~ i <= j - 1
        BY <2>3
      <3> QED BY <1>12, <2>3, <3>1
    <2>4. i < j \/ j < i \/ i = j
      OBVIOUS
    <2> QED BY <2>1, <2>2, <2>3, <2>4
  <1>14. p.n < floor[p.from]
    <2>1. p.from \in Client
      BY DEF Packet
    <2>2. Below(f[j], p.from, floor[p.from])
      BY <1>1, <2>1 DEF Line
    <2> QED BY <1>2, <1>3, <1>4, <2>2, HeadLeads
  <1> QED BY <1>1, <1>8, <1>9, <1>13, <1>14, LineGrows

-----------------------------------------------------------------------------
\* The parts of a client's way, before and after a step.
LEMMA WayParts ==
    ASSUME NEW d \in Client, NEW c \in Conn
    PROVE  /\ ways[d][c][1] = got[d] /\ ways[d][c][2] = inq[d] /\ ways[d][c][3] = passing[d]
           /\ ways[d][c][4] = down[Newest(d)] /\ ways[d][c][5] = written[Newest(d)]
           /\ ways[d][c][6] = rx[Newest(d)] /\ ways[d][c][7] = up[c]
  BY DEF ways

LEMMA WayPartsNext ==
    ASSUME NEW d \in Client, NEW c \in Conn
    PROVE  /\ ways'[d][c][1] = got'[d] /\ ways'[d][c][2] = inq'[d] /\ ways'[d][c][3] = passing'[d]
           /\ ways'[d][c][4] = down'[<<d, conns'[d]>>] /\ ways'[d][c][5] = written'[<<d, conns'[d]>>]
           /\ ways'[d][c][6] = rx'[<<d, conns'[d]>>] /\ ways'[d][c][7] = up'[c]
  BY DEF ways, Newest

LEMMA WaitingParts ==
    ASSUME NEW w \in Waiting
    PROVE  /\ w # Idle => w[2] \in Packet /\ w[1] \in {"write", "pass"}
           /\ w[1] \in {"write", "pass"} => w # Idle
  BY DEF Waiting, Idle

LEMMA WayType ==
    OrderType /\ Tables => ways \in [Client -> [Conn -> [1 .. 7 -> Seq(Packet)]]]
  <1> SUFFICES ASSUME OrderType, Tables, NEW d \in Client, NEW c \in Conn, NEW i \in 1 .. 7
               PROVE  ways[d][c][i] \in Seq(Packet)
    BY DEF ways
  <1>1. Newest(d) \in Conn
    BY DEF Tables, Newest, Conn
  <1>2. passing[d] \in Seq(Packet)
    <2>1. busy[d] \in Waiting
      BY DEF OrderType
    <2>2. busy[d][1] = "pass" => busy[d][2] \in Packet
      BY <2>1, WaitingParts
    <2> QED BY <2>2 DEF passing
  <1>3. written[Newest(d)] \in Seq(Packet)
    <2>1. writing[Newest(d)] \in Waiting
      BY <1>1 DEF OrderType
    <2>2. writing[Newest(d)] # Idle => writing[Newest(d)][2] \in Packet
      BY <2>1, WaitingParts
    <2> QED BY <1>1, <2>2 DEF written
  <1>4. /\ got[d] \in Seq(Packet) /\ inq[d] \in Seq(Packet) /\ up[c] \in Seq(Packet)
        /\ down[Newest(d)] \in Seq(Packet) /\ rx[Newest(d)] \in Seq(Packet)
    BY <1>1 DEF OrderType
  <1>5. /\ ways[d][c][1] \in Seq(Packet) /\ ways[d][c][2] \in Seq(Packet)
        /\ ways[d][c][3] \in Seq(Packet) /\ ways[d][c][4] \in Seq(Packet)
        /\ ways[d][c][5] \in Seq(Packet) /\ ways[d][c][6] \in Seq(Packet)
        /\ ways[d][c][7] \in Seq(Packet)
    BY <1>2, <1>3, <1>4, WayParts
  <1>6. i \in {1, 2, 3, 4, 5, 6, 7}
    OBVIOUS
  <1> QED BY <1>5, <1>6

LEMMA FloorType == OrderType => floors \in [Client -> Nat]
  <1> SUFFICES ASSUME OrderType, NEW k \in Client PROVE floors[k] \in Nat
    BY DEF floors
  <1>1. busy[k] \in Waiting /\ outq[k] \in Seq(Packet) /\ sent[k] \in 0 .. MaxSends
    BY DEF OrderType
  <1>2. busy[k][1] = "write" => busy[k][2].n \in Nat
    BY <1>1, WaitingParts, RelayAssumption DEF Packet
  <1>3. outq[k] # <<>> => outq[k][1].n \in Nat
    <2>1. outq[k] # <<>> => outq[k][1] \in Packet
      BY <1>1
    <2> QED BY <2>1, RelayAssumption DEF Packet
  <1> QED BY <1>1, <1>2, <1>3 DEF floors, FloorOf

LEMMA FloorTypeNext == (OrderType => floors \in [Client -> Nat])'
  BY FloorType, PTL

\* Numbers are given out upwards.
FloorsRise == \A k \in Client : floors[k] <= floors'[k]

\* The lines stay in order when packets leave them,
LEMMA LinesShrink ==
    ASSUME OrderType, Tables, Lines, OrderType', FloorsRise,
           \A d \in Client, c \in Conn, i \in 1 .. 7 : Rest(ways'[d][c][i], ways[d][c][i])
    PROVE  Lines'
  <1> SUFFICES ASSUME NEW d \in Client, NEW c \in Conn PROVE Line(ways'[d][c], floors')
    BY DEF Lines
  <1>1. ways[d][c] \in [1 .. 7 -> Seq(Packet)]
    BY WayType
  <1>2. floors \in [Client -> Nat] /\ floors' \in [Client -> Nat]
    BY FloorType, FloorTypeNext
  <1>3. Line(ways[d][c], floors)
    BY DEF Lines
  <1>4. \A i \in 1 .. 7 : Rest(ways'[d][c][i], ways[d][c][i])
    OBVIOUS
  <1> QED BY <1>1, <1>2, <1>3, <1>4, LineShrinks DEF FloorsRise

LEMMA LinesRise ==
    ASSUME OrderType, Tables, Lines, OrderType', FloorsRise, NEW d \in Client, NEW c \in Conn
    PROVE  Line(ways[d][c], floors')
  <1>1. ways[d][c] \in [1 .. 7 -> Seq(Packet)]
    BY WayType
  <1>2. floors \in [Client -> Nat] /\ floors' \in [Client -> Nat]
    BY FloorType, FloorTypeNext
  <1>3. Line(ways[d][c], floors)
    BY DEF Lines
  <1>4. \A i \in 1 .. 7 : Rest(ways[d][c][i], ways[d][c][i])
    BY DEF Rest
  <1> QED BY <1>1, <1>2, <1>3, <1>4, LineShrinks DEF FloorsRise

\* and when the first one of a queue goes to the next one on the way to a client.
LEMMA LinesAdvance ==
    ASSUME OrderType, Tables, Lines, OrderType', FloorsRise, NEW k \in Client, NEW j \in 2 .. 6,
           \A c \in Conn : Advances(ways[k][c], ways'[k][c], j),
           \A d \in Client \ {k}, c \in Conn, i \in 1 .. 7 : Rest(ways'[d][c][i], ways[d][c][i])
    PROVE  Lines'
  <1> SUFFICES ASSUME NEW d \in Client, NEW c \in Conn PROVE Line(ways'[d][c], floors')
    BY DEF Lines
  <1>1. ways[d][c] \in [1 .. 7 -> Seq(Packet)]
    BY WayType
  <1>2. floors' \in [Client -> Nat]
    BY FloorTypeNext
  <1>3. Line(ways[d][c], floors')
    BY LinesRise
  <1>4. CASE d = k
    <2>1. Advances(ways[d][c], ways'[d][c], j) /\ j \in 2 .. 7
      BY <1>4
    <2> QED BY <1>1, <1>2, <1>3, <2>1, LineAdvances
  <1>5. CASE d # k
    <2>1. \A i \in 1 .. 7 : Rest(ways'[d][c][i], ways[d][c][i])
      BY <1>5
    <2>2. ASSUME NEW h \in Client PROVE floors'[h] <= floors'[h]
      <3>1. floors'[h] \in Nat
        BY <1>2
      <3> QED BY <3>1
    <2> QED BY <1>1, <1>2, <1>3, <2>1, <2>2, LineShrinks
  <1> QED BY <1>4, <1>5

-----------------------------------------------------------------------------
LEMMA TypeStep ==
    ASSUME OrderType, Tables, [Next]_vars
    PROVE  OrderType'
  <1> USE DEF OrderType
  <1>1. /\ Idle \in Waiting
        /\ \A p \in Packet : <<"write", p>> \in Waiting /\ <<"pass", p>> \in Waiting
    BY DEF Waiting
  <1>2. ASSUME NEW k \in Client, NEW to \in Client \ {k}, Submit(k, to) PROVE OrderType'
    <2>1. limit.sends[k] \in 0 .. MaxSends
      BY RelayAssumption DEF Tables
    <2>2. sent[k] + 1 \in 1 .. MaxSends
      BY <1>2, <2>1, RelayAssumption DEF Submit
    <2>3. [from |-> k, to |-> to, n |-> sent[k] + 1, via |-> 0] \in Packet
      BY <2>2, RelayAssumption DEF Packet
    <2>4. Append(outq[k], [from |-> k, to |-> to, n |-> sent[k] + 1, via |-> 0]) \in Seq(Packet)
      BY <2>3, AppendParts
    <2>5. outq' \in [Client -> Seq(Packet)]
      BY <1>2, <2>4 DEF Submit
    <2>6. sent' \in [Client -> 0 .. MaxSends]
      BY <1>2, <2>2 DEF Submit
    <2> QED BY <1>2, <2>5, <2>6 DEF Submit, relay
  <1>3. ASSUME NEW k \in Client, SessionTake(k) PROVE OrderType'
    <2>1. Head(outq[k]) \in Packet /\ Tail(outq[k]) \in Seq(Packet)
      BY <1>3, TailParts DEF SessionTake
    <2>2. session[k] \in 0 .. MaxConns
      OBVIOUS
    <2>3. [Head(outq[k]) EXCEPT !.via = session[k]] \in Packet
      BY <2>1, <2>2 DEF Packet
    <2> QED BY <1>1, <1>3, <2>1, <2>3 DEF SessionTake, relay
  <1>4. ASSUME NEW k \in Client, SessionWrite(k) PROVE OrderType'
    <2>1. Current(k) \in Conn
      BY <1>4 DEF SessionWrite, Current, Conn
    <2>2. busy[k][2] \in Packet
      BY <1>4, WaitingParts DEF SessionWrite
    <2>3. Append(up[Current(k)], busy[k][2]) \in Seq(Packet)
      BY <2>1, <2>2, AppendParts
    <2>4. up' \in [Conn -> Seq(Packet)]
      BY <1>4, <2>1, <2>3 DEF SessionWrite
    <2> QED BY <1>1, <1>4, <2>4 DEF SessionWrite, relay
  <1>5. ASSUME NEW k \in Client, SessionReceive(k) PROVE OrderType'
    <2>1. PICK i \in Streams(k) :
             /\ down[<<k, i>>] # <<>>
             /\ down' = [down EXCEPT ![<<k, i>>] = Tail(@)]
             /\ busy' = [busy EXCEPT ![k] = <<"pass", Head(down[<<k, i>>])>>]
      BY <1>5 DEF SessionReceive
    <2>2. <<k, i>> \in Conn
      BY <1>5 DEF SessionReceive, Streams, Conn
    <2>3. Head(down[<<k, i>>]) \in Packet /\ Tail(down[<<k, i>>]) \in Seq(Packet)
      BY <2>1, <2>2, TailParts
    <2> QED BY <1>1, <1>5, <2>1, <2>3 DEF SessionReceive, relay
  <1>6. ASSUME NEW k \in Client, SessionPass(k) PROVE OrderType'
    <2>1. busy[k][2] \in Packet
      BY <1>6, WaitingParts DEF SessionPass
    <2>2. Append(inq[k], busy[k][2]) \in Seq(Packet)
      BY <2>1, AppendParts
    <2> QED BY <1>1, <1>6, <2>2 DEF SessionPass, relay
  <1>7. ASSUME NEW k \in Client, ActorReceive(k) PROVE OrderType'
    <2>1. Head(inq[k]) \in Packet /\ Tail(inq[k]) \in Seq(Packet)
      BY <1>7, TailParts DEF ActorReceive
    <2>2. Append(got[k], Head(inq[k])) \in Seq(Packet)
      BY <2>1, AppendParts
    <2> QED BY <1>7, <2>1, <2>2 DEF ActorReceive, relay
  <1>8. ASSUME NEW k \in Client, SessionEnds(k) PROVE OrderType'
    BY <1>1, <1>8, RelayAssumption DEF SessionEnds, relay
  <1>9. ASSUME NEW k \in Client, Answer(k) PROVE OrderType'
    <2>1. conns[k] \in 0 .. MaxConns
      BY RelayAssumption DEF Tables
    <2>2. session' \in [Client -> 0 .. MaxConns]
      BY <1>9, <2>1 DEF Answer
    <2> QED BY <1>9, <2>2 DEF Answer, relay
  <1>10. ASSUME NEW k \in Client, Close(k) PROVE OrderType'
    <2>1. <<>> \in Seq(Packet)
      OBVIOUS
    <2> QED BY <1>1, <1>10, <2>1, RelayAssumption DEF Close, relay
  <1>11. ASSUME NEW k \in Client, Cut(k) PROVE OrderType'
    BY <1>11 DEF Cut, client, relay
  <1>12. ASSUME NEW c \in Conn, HandlerForward(c) PROVE OrderType'
    <2>1. Head(up[c]) \in Packet /\ Tail(up[c]) \in Seq(Packet)
      BY <1>12, TailParts DEF HandlerForward
    <2>2. ASSUME NEW d \in Conn PROVE Append(rx[d], Head(up[c])) \in Seq(Packet)
      BY <2>1, AppendParts
    <2>3. rx' \in [Conn -> Seq(Packet)]
      BY <1>12, <2>2 DEF HandlerForward
    <2> QED BY <1>12, <2>1, <2>3 DEF HandlerForward, client
  <1>13. ASSUME NEW c \in Conn, HandlerTake(c) PROVE OrderType'
    <2>1. Head(rx[c]) \in Packet /\ Tail(rx[c]) \in Seq(Packet)
      BY <1>13, TailParts DEF HandlerTake
    <2> QED BY <1>1, <1>13, <2>1 DEF HandlerTake, client
  <1>14. ASSUME NEW c \in Conn, HandlerWrite(c) PROVE OrderType'
    <2>1. writing[c][2] \in Packet
      BY <1>14, WaitingParts DEF HandlerWrite
    <2>2. Append(down[c], writing[c][2]) \in Seq(Packet)
      BY <2>1, AppendParts
    <2> QED BY <1>1, <1>14, <2>2 DEF HandlerWrite, client
  <1>15. ASSUME NEW c \in Conn, HandlerEnds(c) \/ Cleanup(c) PROVE OrderType'
    <2>1. <<>> \in Seq(Packet)
      OBVIOUS
    <2> QED BY <1>1, <1>15, <2>1 DEF HandlerEnds, Cleanup, client
  <1>16. ASSUME NEW k \in Client, Dial(k) PROVE OrderType'
    BY <1>16 DEF Dial, client
  <1>17. ASSUME NEW c \in Conn, Register(c) \/ Reject(c) PROVE OrderType'
    BY <1>17 DEF Register, Reject, client
  <1>18. CASE UNCHANGED vars
    BY <1>18 DEF vars, client, relay
  <1> QED BY <1>2, <1>3, <1>4, <1>5, <1>6, <1>7, <1>8, <1>9, <1>10, <1>11, <1>12, <1>13, <1>14,
             <1>15, <1>16, <1>17, <1>18 DEF Next, Progress

\* No step touches the connections to come.
LEMMA UnusedStep ==
    ASSUME OrderType, Sessions, RegisterInv, [Next]_vars,
           NEW j \in Client, NEW i \in 1 .. MaxConns, conns'[j] < i
    PROVE  Unused(<<j, i>>)'
  <1> DEFINE d == <<j, i>>
  <1> USE DEF OrderType
  <1>1. d \in Conn /\ conns \in [Client -> 1 .. MaxConns]
    BY DEF RegisterInv, Tables, Conn
  <1>2. conns[j] < i
    <2>1. ASSUME NEW k \in Client, Dial(k) PROVE conns[j] < i
      <3>1. conns' = [conns EXCEPT ![k] = conns[k] + 1]
        BY <2>1 DEF Dial
      <3> QED BY <1>1, <3>1
    <2>2. CASE UNCHANGED conns
      BY <2>2
    <2>3. (\E k \in Client : Dial(k)) \/ UNCHANGED conns
      BY DEF Next, Progress, Submit, SessionTake, SessionWrite, SessionReceive, SessionPass,
             ActorReceive, SessionEnds, Answer, Close, Cut, Register, Reject, HandlerForward,
             HandlerTake, HandlerWrite, HandlerEnds, Cleanup, vars
    <2> QED BY <2>1, <2>2, <2>3
  <1>3. up[d] = <<>> /\ down[d] = <<>> /\ rx[d] = <<>> /\ writing[d] = Idle
    BY <1>2 DEF Sessions, Unused
  <1> SUFFICES up'[d] = <<>> /\ down'[d] = <<>> /\ rx'[d] = <<>> /\ writing'[d] = Idle
    BY DEF Unused
  <1> HIDE DEF d
  <1>4. ASSUME NEW k \in Client, SessionWrite(k) PROVE up'[d] = up[d]
    <2>1. Current(k) # d
      BY <1>2, <1>4 DEF SessionWrite, Current, Sessions, d
    <2> QED BY <1>1, <1>4, <2>1 DEF SessionWrite
  <1>5. ASSUME NEW k \in Client, SessionReceive(k) PROVE down'[d] = down[d]
    <2>1. PICK m \in Streams(k) :
             down[<<k, m>>] # <<>> /\ down' = [down EXCEPT ![<<k, m>>] = Tail(@)]
      BY <1>5 DEF SessionReceive
    <2> QED BY <1>1, <1>3, <2>1
  <1>6. ASSUME NEW c \in Conn, HandlerForward(c)
        PROVE  up'[d] = up[d] /\ rx'[d] = rx[d]
    <2>1. d # c
      BY <1>3, <1>6 DEF HandlerForward
    <2>2. Head(up[c]).to \in Client
      <3>1. Head(up[c]) \in Packet
        BY <1>6, TailParts DEF HandlerForward
      <3> QED BY <3>1 DEF Packet
    <2>3. clients[j] < i
      <3>1. (clients[j] = 0 \/ clients[j] = last[j]) /\ last[j] <= conns[j] /\ last[j] \in 1 .. MaxConns
        BY DEF RegisterInv, RegistrationStands, Numbers, Tables
      <3> QED BY <1>1, <1>2, <3>1
    <2>4. <<Head(up[c]).to, clients[Head(up[c]).to]>> # d
      BY <1>1, <2>3 DEF d
    <2> QED BY <1>1, <1>6, <2>1, <2>4 DEF HandlerForward
  <1>7. ASSUME NEW c \in Conn, HandlerTake(c) \/ HandlerWrite(c)
        PROVE  down'[d] = down[d] /\ rx'[d] = rx[d] /\ writing'[d] = writing[d]
    <2>1. d # c
      BY <1>3, <1>7 DEF HandlerTake, HandlerWrite
    <2> QED BY <1>1, <1>7, <2>1 DEF HandlerTake, HandlerWrite
  <1>8. ASSUME NEW c \in Conn, HandlerEnds(c) \/ Cleanup(c)
        PROVE  rx'[d] = <<>> /\ writing'[d] = Idle
    BY <1>1, <1>3, <1>8 DEF HandlerEnds, Cleanup
  <1>9. CASE UNCHANGED <<up, down, rx, writing>>
    BY <1>3, <1>9
  <1>10. ASSUME NEW k \in Client,
                \/ \E to \in Client \ {k} : Submit(k, to)
                \/ SessionTake(k) \/ SessionPass(k) \/ ActorReceive(k) \/ SessionEnds(k)
                \/ Dial(k) \/ Answer(k) \/ Close(k) \/ Cut(k)
         PROVE  UNCHANGED <<up, down, rx, writing>>
    BY <1>10 DEF Submit, SessionTake, SessionPass, ActorReceive, SessionEnds, Dial, Answer, Close,
                 Cut, client, relay
  <1>11. ASSUME NEW k \in Client, SessionWrite(k) PROVE UNCHANGED <<down, rx, writing>>
    BY <1>11 DEF SessionWrite, relay
  <1>12. ASSUME NEW k \in Client, SessionReceive(k) PROVE UNCHANGED <<up, rx, writing>>
    BY <1>12 DEF SessionReceive, relay
  <1>13. ASSUME NEW c \in Conn, HandlerForward(c) PROVE UNCHANGED <<down, writing>>
    BY <1>13 DEF HandlerForward
  <1>14. ASSUME NEW c \in Conn, HandlerTake(c) \/ HandlerWrite(c) PROVE UNCHANGED up
    BY <1>14 DEF HandlerTake, HandlerWrite
  <1>15. ASSUME NEW c \in Conn, HandlerEnds(c) \/ Cleanup(c) PROVE UNCHANGED <<up, down>>
    BY <1>15 DEF HandlerEnds, Cleanup
  <1>16. ASSUME NEW c \in Conn, Register(c) \/ Reject(c) PROVE UNCHANGED <<up, down, rx, writing>>
    BY <1>16 DEF Register, Reject
  <1>17. CASE UNCHANGED vars
    BY <1>9, <1>17 DEF vars, relay
  <1>18. CASE Next
    BY <1>3, <1>4, <1>5, <1>6, <1>7, <1>8, <1>9, <1>10, <1>11, <1>12, <1>13, <1>14, <1>15, <1>16,
       <1>18 DEF Next, Progress
  <1> QED BY <1>17, <1>18

LEMMA SessionsStep ==
    ASSUME OrderType, Sessions, RegisterInv, [Next]_vars
    PROVE  Sessions'
  <1> USE DEF OrderType
  <1>1. conns \in [Client -> 1 .. MaxConns]
    BY DEF RegisterInv, Tables
  <1>2. ASSUME NEW j \in Client
        PROVE  (session'[j] = 0 \/ session'[j] = conns'[j]) /\ (session'[j] = 0 => busy'[j] = Idle)
    <2>1. session[j] = 0 \/ session[j] = conns[j]
      BY DEF Sessions
    <2>2. session[j] = 0 => busy[j] = Idle
      BY DEF Sessions
    <2>3. ASSUME NEW k \in Client, Dial(k) \/ Answer(k)
          PROVE  (session'[j] = 0 \/ session'[j] = conns'[j]) /\ (session'[j] = 0 => busy'[j] = Idle)
      BY <1>1, <2>1, <2>2, <2>3 DEF Dial, Answer, client
    <2>4. ASSUME NEW k \in Client,
                 \/ SessionTake(k) \/ SessionPass(k) \/ SessionWrite(k) \/ SessionReceive(k)
                 \/ SessionEnds(k) \/ Close(k)
          PROVE  (session'[j] = 0 \/ session'[j] = conns'[j]) /\ (session'[j] = 0 => busy'[j] = Idle)
      BY <2>1, <2>2, <2>4 DEF SessionTake, SessionPass, SessionWrite, SessionReceive, SessionEnds, Close
    <2>5. CASE UNCHANGED <<conns, session, busy>>
      BY <2>1, <2>2, <2>5
    <2>6. ASSUME NEW k \in Client,
                 (\E to \in Client \ {k} : Submit(k, to)) \/ ActorReceive(k) \/ Cut(k)
          PROVE  UNCHANGED <<conns, session, busy>>
      BY <2>6 DEF Submit, ActorReceive, Cut, client
    <2>7. ASSUME NEW c \in Conn,
                 \/ Register(c) \/ Reject(c) \/ HandlerForward(c) \/ HandlerTake(c)
                 \/ HandlerWrite(c) \/ HandlerEnds(c) \/ Cleanup(c)
          PROVE  UNCHANGED <<conns, session, busy>>
      BY <2>7 DEF Register, Reject, HandlerForward, HandlerTake, HandlerWrite, HandlerEnds, Cleanup,
                  client
    <2>8. CASE UNCHANGED vars
      BY <2>5, <2>8 DEF vars, client
    <2> QED BY <2>3, <2>4, <2>5, <2>6, <2>7, <2>8 DEF Next, Progress
  <1>3. ASSUME NEW j \in Client, NEW i \in 1 .. MaxConns, conns'[j] < i PROVE Unused(<<j, i>>)'
    BY <1>3, UnusedStep
  <1> QED BY <1>2, <1>3 DEF Sessions

-----------------------------------------------------------------------------
\* A packet is submitted, taken from the queue to be written, and written or lost.
LEMMA SendsSubmit ==
    ASSUME NEW q \in Seq(Packet), NEW b \in Waiting, NEW v, NEW n \in Nat, NEW k,
           NEW p \in Packet, p.from = k, p.n = n + 1, Sends(q, b, v, n, k)
    PROVE  Sends(Append(q, p), b, v, n + 1, k)
  <1>1. PICK r \in Seq(Packet) : r = Append(q, p)
    BY AppendParts
  <1>2. \A x \in 1 .. Len(r) :
           (x \in 1 .. Len(q) /\ r[x] = q[x]) \/ (x = Len(q) + 1 /\ r[x] = p)
    BY <1>1, AppendParts
  <1>3. ASSUME NEW x \in 1 .. Len(q) PROVE q[x].n \in Nat /\ q[x].n <= n
    <2>1. q[x] \in Packet
      OBVIOUS
    <2> QED BY <2>1, RelayAssumption DEF Packet, Sends
  <1>4. ASSUME NEW x \in 1 .. Len(r) PROVE r[x].from = k /\ r[x].n <= n + 1
    <2>1. CASE x \in 1 .. Len(q) /\ r[x] = q[x]
      BY <1>3, <2>1 DEF Sends
    <2>2. CASE r[x] = p
      BY <2>2
    <2> QED BY <1>2, <2>1, <2>2
  <1>5. ASSUME NEW x \in 1 .. Len(r), NEW y \in 1 .. Len(r), x < y PROVE r[x].n < r[y].n
    <2>1. Len(r) = Len(q) + 1 /\ Len(q) \in Nat
      BY <1>1
    <2>2. x \in 1 .. Len(q) /\ r[x] = q[x]
      BY <1>2, <1>5, <2>1
    <2>3. CASE y \in 1 .. Len(q) /\ r[y] = q[y]
      BY <1>5, <2>2, <2>3 DEF Sends
    <2>4. CASE r[y] = p
      BY <1>3, <2>2, <2>4
    <2> QED BY <1>2, <2>3, <2>4
  <1>6. ASSUME b[1] = "write"
        PROVE  /\ b[2].from = k /\ b[2].via = v /\ b[2].n <= n + 1
               /\ \A x \in 1 .. Len(r) : b[2].n < r[x].n
    <2>1. b[2].n \in Nat
      BY <1>6, WaitingParts, RelayAssumption DEF Packet
    <2>2. b[2].n < p.n
      BY <1>6, <2>1 DEF Sends
    <2>3. ASSUME NEW x \in 1 .. Len(r) PROVE b[2].n < r[x].n
      BY <1>2, <1>6, <2>2 DEF Sends
    <2> QED BY <1>6, <2>1, <2>3 DEF Sends
  <1>7. Sends(r, b, v, n + 1, k)
    BY <1>4, <1>5, <1>6 DEF Sends
  <1> QED BY <1>1, <1>7

LEMMA FloorSubmit ==
    ASSUME NEW q \in Seq(Packet), NEW b, NEW n, NEW p \in Packet, p.n = n + 1
    PROVE  FloorOf(Append(q, p), b, n + 1) = FloorOf(q, b, n)
  <1>1. PICK r \in Seq(Packet) : r = Append(q, p)
    BY AppendParts
  <1>2. r # <<>> /\ r[1] = IF q = <<>> THEN p ELSE q[1]
    BY <1>1
  <1>3. FloorOf(r, b, n + 1) = FloorOf(q, b, n)
    BY <1>2 DEF FloorOf
  <1> QED BY <1>1, <1>3

LEMMA SendsTake ==
    ASSUME NEW q \in Seq(Packet), q # <<>>, NEW v \in 0 .. MaxConns, NEW n \in Nat, NEW k,
           Sends(q, Idle, v, n, k), NEW b, b = <<"write", [Head(q) EXCEPT !.via = v]>>
    PROVE  /\ Sends(Tail(q), b, v, n, k)
           /\ FloorOf(Tail(q), b, n) = FloorOf(q, Idle, n)
  <1>1. PICK p \in Packet : p = [Head(q) EXCEPT !.via = v]
    <2>1. Head(q) \in Packet
      BY TailParts
    <2> QED BY <2>1 DEF Packet
  <1>2. p.from = q[1].from /\ p.n = q[1].n /\ p.via = v
    <2>1. Head(q) \in Packet /\ Head(q) = q[1]
      BY TailParts
    <2> QED BY <1>1, <2>1 DEF Packet
  <1>3. b[1] = "write" /\ b[2] = p
    BY <1>1
  <1>4. PICK r \in Seq(Packet) : r = Tail(q)
    BY TailParts
  <1>5. \A x \in 1 .. Len(r) : x + 1 \in 1 .. Len(q) /\ r[x] = q[x + 1]
    BY <1>4, TailParts
  <1>6. 1 \in 1 .. Len(q)
    BY TailParts
  <1>7. ASSUME NEW x \in 1 .. Len(r), NEW y \in 1 .. Len(r), x < y PROVE r[x].n < r[y].n
    <2>1. x + 1 < y + 1
      BY <1>7
    <2> QED BY <1>5, <2>1 DEF Sends
  <1>8. ASSUME NEW x \in 1 .. Len(r) PROVE p.n < r[x].n
    <2>1. 1 < x + 1
      OBVIOUS
    <2> QED BY <1>2, <1>5, <1>6, <2>1 DEF Sends
  <1>9. Sends(r, b, v, n, k)
    BY <1>2, <1>3, <1>5, <1>6, <1>7, <1>8 DEF Sends
  <1>10. FloorOf(r, b, n) = FloorOf(q, Idle, n)
    BY <1>2, <1>3 DEF FloorOf, Idle
  <1> QED BY <1>4, <1>9, <1>10

LEMMA SendsRest ==
    ASSUME NEW q \in Seq(Packet), NEW b \in Waiting, NEW v, NEW n \in Nat, NEW k,
           Sends(q, b, v, n, k), NEW c, c[1] # "write", NEW w, NEW r, r = q \/ r = <<>>
    PROVE  Sends(r, c, w, n, k) /\ FloorOf(q, b, n) <= FloorOf(r, c, n)
  <1>1. Sends(r, c, w, n, k)
    <2>1. CASE r = q
      BY <2>1 DEF Sends
    <2>2. CASE r = <<>>
      BY <2>2 DEF Sends
    <2> QED BY <2>1, <2>2
  <1>2. q # <<>> => 1 \in 1 .. Len(q) /\ q[1].n \in Nat /\ q[1].n <= n
    <2>1. q # <<>> => 1 \in 1 .. Len(q) /\ q[1] \in Packet
      OBVIOUS
    <2> QED BY <2>1, RelayAssumption DEF Packet, Sends
  <1>3. b[1] = "write" => b[2].n \in Nat /\ b[2].n <= n
    BY WaitingParts, RelayAssumption DEF Packet, Sends
  <1>4. b[1] = "write" /\ q # <<>> => b[2].n < q[1].n
    BY <1>2 DEF Sends
  <1>5. FloorOf(q, b, n) <= FloorOf(r, c, n)
    <2>1. CASE b[1] = "write"
      BY <1>2, <1>3, <1>4, <2>1 DEF FloorOf
    <2>2. CASE b[1] # "write"
      BY <1>2, <2>2 DEF FloorOf
    <2> QED BY <2>1, <2>2
  <1> QED BY <1>1, <1>5

LEMMA FloorKept ==
    ASSUME NEW q \in Seq(Packet), NEW b \in Waiting, NEW n \in Nat
    PROVE  FloorOf(q, b, n) <= FloorOf(q, b, n)
  <1>1. b[1] = "write" => b[2].n \in Nat
    BY WaitingParts, RelayAssumption DEF Packet
  <1>2. q # <<>> => q[1].n \in Nat
    <2>1. q # <<>> => q[1] \in Packet
      OBVIOUS
    <2> QED BY <2>1, RelayAssumption DEF Packet
  <1> QED BY <1>1, <1>2 DEF FloorOf

\* Every step keeps this, and no client numbers downwards.
LEMMA OutgoingStep ==
    ASSUME OrderType, Sessions, Outgoing, Tables, [Next]_vars
    PROVE  Outgoing' /\ FloorsRise
  <1> DEFINE Good(j) == /\ Sends(outq'[j], busy'[j], session'[j], sent'[j], j)
                        /\ FloorOf(outq[j], busy[j], sent[j]) <= FloorOf(outq'[j], busy'[j], sent'[j])
  <1>1. ASSUME NEW j \in Client
        PROVE  /\ outq[j] \in Seq(Packet) /\ busy[j] \in Waiting /\ sent[j] \in Nat
               /\ session[j] \in 0 .. MaxConns
               /\ Sends(outq[j], busy[j], session[j], sent[j], j)
    BY RelayAssumption DEF OrderType, Outgoing
  <1>2. ASSUME NEW j \in Client, outq'[j] = outq[j], busy'[j] = busy[j], session'[j] = session[j],
               sent'[j] = sent[j]
        PROVE  Good(j)
    BY <1>1, <1>2, FloorKept
  <1>3. ASSUME NEW k \in Client, NEW to \in Client \ {k}, Submit(k, to), NEW j \in Client PROVE Good(j)
    <2>1. PICK p \in Packet : p = [from |-> k, to |-> to, n |-> sent[k] + 1, via |-> 0]
      <3>1. limit.sends[k] \in 0 .. MaxSends
        BY RelayAssumption DEF Tables
      <3>2. sent[k] + 1 \in 1 .. MaxSends
        BY <1>1, <1>3, <3>1, RelayAssumption DEF Submit
      <3>3. [from |-> k, to |-> to, n |-> sent[k] + 1, via |-> 0] \in Packet
        BY <3>2, RelayAssumption DEF Packet
      <3> QED BY <3>3
    <2>2. /\ outq' = [outq EXCEPT ![k] = Append(outq[k], p)] /\ sent' = [sent EXCEPT ![k] = sent[k] + 1]
          /\ UNCHANGED <<busy, session>>
      BY <1>3, <2>1 DEF Submit
    <2>3. CASE j = k
      <3>1. outq'[j] = Append(outq[j], p) /\ sent'[j] = sent[j] + 1
        BY <2>2, <2>3 DEF OrderType
      <3>2. p.from = j /\ p.n = sent[j] + 1
        BY <2>1, <2>3
      <3>3. /\ outq[j] \in Seq(Packet) /\ busy[j] \in Waiting /\ sent[j] \in Nat
            /\ Sends(outq[j], busy[j], session[j], sent[j], j)
        BY <1>1
      <3>4. Sends(Append(outq[j], p), busy[j], session[j], sent[j] + 1, j)
        BY <3>2, <3>3, SendsSubmit
      <3>5. FloorOf(Append(outq[j], p), busy[j], sent[j] + 1) = FloorOf(outq[j], busy[j], sent[j])
        BY <3>2, <3>3, FloorSubmit
      <3>6. busy'[j] = busy[j] /\ session'[j] = session[j]
        BY <2>2
      <3> QED BY <3>1, <3>3, <3>6, <3>4, <3>5, FloorKept
    <2>4. CASE j # k
      BY <1>2, <2>2, <2>4 DEF OrderType
    <2> QED BY <2>3, <2>4
  <1>4. ASSUME NEW k \in Client, SessionTake(k), NEW j \in Client PROVE Good(j)
    <2>1. CASE j = k
      <3>1. outq'[j] = Tail(outq[j]) /\ outq[j] # <<>> /\ busy[j] = Idle
        BY <1>4, <2>1 DEF SessionTake, OrderType
      <3>2. busy'[j] = <<"write", [Head(outq[j]) EXCEPT !.via = session[j]]>>
        BY <1>4, <2>1 DEF SessionTake, OrderType
      <3>3. sent'[j] = sent[j] /\ session'[j] = session[j]
        BY <1>4 DEF SessionTake
      <3>4. /\ Sends(outq'[j], busy'[j], session[j], sent[j], j)
            /\ FloorOf(outq'[j], busy'[j], sent[j]) = FloorOf(outq[j], busy[j], sent[j])
        BY <1>1, <3>1, <3>2, SendsTake
      <3> QED BY <1>1, <3>3, <3>4, FloorKept
    <2>2. CASE j # k
      BY <1>2, <1>4, <2>2 DEF SessionTake, OrderType
    <2> QED BY <2>1, <2>2
  <1>5. ASSUME NEW k \in Client,
               \/ SessionWrite(k) \/ SessionReceive(k) \/ SessionPass(k) \/ SessionEnds(k)
               \/ Close(k),
               NEW j \in Client
        PROVE  Good(j)
    <2>1. /\ sent'[j] = sent[j] /\ (outq'[j] = outq[j] \/ outq'[j] = <<>>)
          /\ j # k => outq'[j] = outq[j] /\ busy'[j] = busy[j] /\ session'[j] = session[j]
      BY <1>5 DEF SessionWrite, SessionReceive, SessionPass, SessionEnds, Close, OrderType
    <2>2. CASE j = k
      <3>1. ASSUME SessionReceive(k) PROVE busy'[j][1] # "write"
        <4>1. PICK p : busy' = [busy EXCEPT ![k] = <<"pass", p>>]
          BY <3>1 DEF SessionReceive
        <4> QED BY <2>2, <4>1 DEF OrderType
      <3>2. ASSUME SessionWrite(k) \/ SessionPass(k) \/ SessionEnds(k) \/ Close(k)
            PROVE  busy'[j][1] # "write"
        <4>1. busy' = [busy EXCEPT ![k] = Idle]
          BY <3>2 DEF SessionWrite, SessionPass, SessionEnds, Close
        <4> QED BY <2>2, <4>1 DEF OrderType, Idle
      <3>3. busy'[j][1] # "write"
        BY <1>5, <3>1, <3>2
      <3> QED BY <1>1, <2>1, <3>3, SendsRest
    <2>3. CASE j # k
      BY <1>2, <2>1, <2>3
    <2> QED BY <2>2, <2>3
  <1>6. ASSUME NEW k \in Client, Answer(k), NEW j \in Client PROVE Good(j)
    <2>1. UNCHANGED <<sent, outq, busy>> /\ (j # k => session'[j] = session[j]) /\ session[k] = 0
      BY <1>6 DEF Answer, OrderType
    <2>2. CASE j = k
      <3>1. busy'[j][1] # "write"
        BY <2>1, <2>2 DEF Sessions, Idle
      <3>2. outq'[j] = outq[j] /\ sent'[j] = sent[j]
        BY <2>1
      <3> QED BY <1>1, <3>1, <3>2, SendsRest
    <2>3. CASE j # k
      BY <1>2, <2>1, <2>3
    <2> QED BY <2>2, <2>3
  <1>7. ASSUME UNCHANGED <<sent, outq, busy, session>>, NEW j \in Client PROVE Good(j)
    BY <1>2, <1>7
  <1>8. ASSUME NEW k \in Client, ActorReceive(k) \/ Dial(k) \/ Cut(k)
        PROVE  UNCHANGED <<sent, outq, busy, session>>
    BY <1>8 DEF ActorReceive, Dial, Cut, client
  <1>9. ASSUME NEW c \in Conn,
               \/ Register(c) \/ Reject(c) \/ HandlerForward(c) \/ HandlerTake(c)
               \/ HandlerWrite(c) \/ HandlerEnds(c) \/ Cleanup(c)
        PROVE  UNCHANGED <<sent, outq, busy, session>>
    BY <1>9 DEF Register, Reject, HandlerForward, HandlerTake, HandlerWrite, HandlerEnds, Cleanup,
                client
  <1>10. ASSUME NEW j \in Client PROVE Good(j)
    <2>1. CASE Next
      BY <1>3, <1>4, <1>5, <1>6, <1>7, <1>8, <1>9, <2>1 DEF Next, Progress
    <2>2. CASE UNCHANGED vars
      BY <1>7, <2>2 DEF vars, client
    <2> QED BY <2>1, <2>2
  <1> QED BY <1>10 DEF Outgoing, FloorsRise, floors

-----------------------------------------------------------------------------
LEMMA RestBears ==
    ASSUME NEW q \in Seq(Packet), NEW r, Rest(r, q), NEW s \in Seq(Packet), NEW t, Rest(t, s),
           NEW k, NEW v
    PROVE  (Bears(q, k, v) => Bears(r, k, v)) /\ (Apart(q, s) => Apart(r, t))
  <1>1. \A x \in 1 .. Len(r) : \E y \in 1 .. Len(q) : r[x] = q[y]
    BY RestFrom
  <1>2. \A x \in 1 .. Len(t) : \E y \in 1 .. Len(s) : t[x] = s[y]
    BY RestFrom
  <1>3. Bears(q, k, v) => Bears(r, k, v)
    BY <1>1 DEF Bears
  <1>4. ASSUME Apart(q, s), NEW x \in 1 .. Len(r), NEW y \in 1 .. Len(t) PROVE r[x].n # t[y].n
    <2>1. PICK z \in 1 .. Len(q) : r[x] = q[z]
      BY <1>1
    <2>2. PICK w \in 1 .. Len(s) : t[y] = s[w]
      BY <1>2
    <2>3. q[z].n # s[w].n
      BY <1>4 DEF Apart
    <2> QED BY <2>1, <2>2, <2>3
  <1> QED BY <1>3, <1>4 DEF Apart

LEMMA AppendBears ==
    ASSUME NEW q \in Seq(Packet), NEW p \in Packet, NEW k, NEW v,
           Bears(q, k, v), p.from = k, p.via = v
    PROVE  Bears(Append(q, p), k, v)
  <1>1. PICK r \in Seq(Packet) : r = Append(q, p)
    BY AppendParts
  <1>2. \A x \in 1 .. Len(r) :
           (x \in 1 .. Len(q) /\ r[x] = q[x]) \/ (x = Len(q) + 1 /\ r[x] = p)
    BY <1>1, AppendParts
  <1>3. Bears(r, k, v)
    BY <1>2 DEF Bears
  <1> QED BY <1>1, <1>3

\* A new packet is none of those with lower numbers.
LEMMA AppendApart ==
    ASSUME NEW q \in Seq(Packet), NEW p \in Packet, NEW s \in Seq(Packet), Apart(q, s),
           NEW k, NEW w, Bears(s, k, w), Below(s, k, p.n)
    PROVE  Apart(Append(q, p), s) /\ Apart(s, Append(q, p))
  <1>1. PICK r \in Seq(Packet) : r = Append(q, p)
    BY AppendParts
  <1>2. \A x \in 1 .. Len(r) :
           (x \in 1 .. Len(q) /\ r[x] = q[x]) \/ (x = Len(q) + 1 /\ r[x] = p)
    BY <1>1, AppendParts
  <1>3. ASSUME NEW y \in 1 .. Len(s) PROVE p.n # s[y].n
    <2>1. s[y].n < p.n
      BY DEF Bears, Below
    <2>2. s[y] \in Packet
      OBVIOUS
    <2>3. s[y].n \in Nat /\ p.n \in Nat
      BY <2>2, RelayAssumption DEF Packet
    <2> QED BY <2>1, <2>3
  <1>4. Apart(r, s) /\ Apart(s, r)
    BY <1>2, <1>3 DEF Apart
  <1> QED BY <1>1, <1>4

\* A client's next number is above those of all packets on the way.
LEMMA UploadsBelow ==
    ASSUME OrderType, Lines, NEW c \in Conn, NEW k \in Client
    PROVE  Below(up[c], k, floors[k])
  <1>1. Line(ways[k][c], floors)
    BY DEF Lines
  <1>2. Below(ways[k][c][7], k, floors[k])
    BY <1>1 DEF Line
  <1> QED BY <1>2, WayParts

LEMMA UploadsStep ==
    ASSUME OrderType, Sessions, Outgoing, Uploads, Lines, Tables, [Next]_vars
    PROVE  Uploads'
  <1>1. ASSUME NEW k \in Client, NEW v \in 1 .. MaxConns
        PROVE  <<k, v>> \in Conn /\ up[<<k, v>>] \in Seq(Packet) /\ Bears(up[<<k, v>>], k, v)
    BY DEF Conn, OrderType, Uploads
  <1>2. ASSUME NEW k \in Client, SessionWrite(k) PROVE Uploads'
    <2>1. PICK s \in 1 .. MaxConns : s = session[k]
      BY <1>2 DEF SessionWrite, Sessions, Tables
    <2>2. PICK p \in Packet : p = busy[k][2]
      <3>1. busy[k] \in Waiting /\ busy[k][1] = "write"
        BY <1>2 DEF SessionWrite, OrderType
      <3> QED BY <3>1, WaitingParts
    <2>3. up' = [up EXCEPT ![<<k, s>>] = Append(up[<<k, s>>], p)]
      BY <1>2, <2>1, <2>2 DEF SessionWrite, Current
    <2>4. up'[<<k, s>>] = Append(up[<<k, s>>], p)
      BY <1>1, <2>3 DEF OrderType
    <2>5. ASSUME NEW j \in Client, NEW v \in 1 .. MaxConns, j # k \/ v # s
          PROVE  up'[<<j, v>>] = up[<<j, v>>]
      BY <1>1, <2>3, <2>5 DEF OrderType
    <2>6. p.from = k /\ p.via = s
      <3>1. busy[k][1] = "write" /\ Sends(outq[k], busy[k], session[k], sent[k], k)
        BY <1>2 DEF SessionWrite, Outgoing
      <3> QED BY <2>1, <2>2, <3>1 DEF Sends
    <2>7. floors[k] = p.n
      BY <1>2, <2>2 DEF floors, FloorOf, SessionWrite
    <2>8. ASSUME NEW j \in Client, NEW v \in 1 .. MaxConns PROVE Bears(up'[<<j, v>>], j, v)
      <3>1. CASE j = k /\ v = s
        BY <1>1, <2>4, <2>6, <3>1, AppendBears
      <3>2. CASE j # k \/ v # s
        BY <1>1, <2>5, <3>2
      <3> QED BY <3>1, <3>2
    <2>9. ASSUME NEW w \in 1 .. MaxConns, w # s
          PROVE  Apart(up'[<<k, s>>], up'[<<k, w>>]) /\ Apart(up'[<<k, w>>], up'[<<k, s>>])
      <3>1. Below(up[<<k, w>>], k, p.n)
        BY <1>1, <2>7, UploadsBelow
      <3>2. Apart(up[<<k, s>>], up[<<k, w>>])
        BY <2>9 DEF Uploads
      <3>3. up'[<<k, w>>] = up[<<k, w>>]
        BY <2>5, <2>9
      <3> QED BY <1>1, <2>4, <3>1, <3>2, <3>3, AppendApart
    <2>10. ASSUME NEW j \in Client, NEW v \in 1 .. MaxConns, NEW w \in 1 .. MaxConns, v # w
           PROVE  Apart(up'[<<j, v>>], up'[<<j, w>>])
      <3>1. CASE j = k /\ v = s
        BY <2>9, <2>10, <3>1
      <3>2. CASE j = k /\ w = s
        BY <2>9, <2>10, <3>2
      <3>3. CASE ~ (j = k /\ v = s) /\ ~ (j = k /\ w = s)
        BY <2>5, <2>10, <3>3 DEF Uploads
      <3> QED BY <3>1, <3>2, <3>3
    <2> QED BY <2>8, <2>10 DEF Uploads
  <1>3. ASSUME \A c \in Conn : Rest(up'[c], up[c]) PROVE Uploads'
    <2>1. ASSUME NEW j \in Client, NEW v \in 1 .. MaxConns PROVE Bears(up'[<<j, v>>], j, v)
      BY <1>1, <1>3, RestBears
    <2>2. ASSUME NEW j \in Client, NEW v \in 1 .. MaxConns, NEW w \in 1 .. MaxConns, v # w
          PROVE  Apart(up'[<<j, v>>], up'[<<j, w>>])
      <3>1. Apart(up[<<j, v>>], up[<<j, w>>])
        BY <2>2 DEF Uploads
      <3> QED BY <1>1, <1>3, <3>1, RestBears
    <2> QED BY <2>1, <2>2 DEF Uploads
  <1>4. ASSUME NEW c \in Conn, HandlerForward(c), NEW d \in Conn PROVE Rest(up'[d], up[d])
    BY <1>4 DEF HandlerForward, Rest, OrderType
  <1>5. ASSUME UNCHANGED up, NEW d \in Conn PROVE Rest(up'[d], up[d])
    BY <1>5 DEF Rest
  <1>6. ASSUME NEW k \in Client,
               \/ \E to \in Client \ {k} : Submit(k, to)
               \/ SessionTake(k) \/ SessionReceive(k) \/ SessionPass(k) \/ ActorReceive(k)
               \/ SessionEnds(k) \/ Dial(k) \/ Answer(k) \/ Close(k) \/ Cut(k)
        PROVE  UNCHANGED up
    BY <1>6 DEF Submit, SessionTake, SessionReceive, SessionPass, ActorReceive, SessionEnds, Dial,
                Answer, Close, Cut
  <1>7. ASSUME NEW c \in Conn,
               \/ Register(c) \/ Reject(c)
               \/ HandlerTake(c) \/ HandlerWrite(c) \/ HandlerEnds(c) \/ Cleanup(c)
        PROVE  UNCHANGED up
    BY <1>7 DEF Register, Reject, HandlerTake, HandlerWrite, HandlerEnds, Cleanup
  <1>8. CASE UNCHANGED vars
    BY <1>3, <1>5, <1>8 DEF vars
  <1>9. CASE Next
    BY <1>2, <1>3, <1>4, <1>5, <1>6, <1>7, <1>9 DEF Next, Progress
  <1> QED BY <1>8, <1>9

-----------------------------------------------------------------------------
LEMMA BelowFollows ==
    ASSUME NEW q \in Seq(Packet), NEW p \in Packet, Below(q, p.from, p.n)
    PROVE  Follows(p, q)
  <1> SUFFICES ASSUME NEW x \in 1 .. Len(q), q[x].from = p.from
               PROVE  q[x].n # p.n /\ q[x].n < p.n
    BY DEF Follows, InTurn
  <1>1. q[x] \in Packet
    OBVIOUS
  <1>2. q[x].n \in Nat /\ p.n \in Nat
    BY <1>1, RelayAssumption DEF Packet
  <1>3. q[x].n < p.n
    BY DEF Below
  <1> QED BY <1>2, <1>3

\* Packets of different connections are in turn in any order.
LEMMA LeadsApart ==
    ASSUME NEW q \in Seq(Packet), q # <<>>, NEW r \in Seq(Packet), NEW k, NEW v, NEW j, NEW w,
           Bears(q, k, v), Bears(r, j, w), k # j \/ (v # w /\ Apart(q, r))
    PROVE  Leads(Head(q), r)
  <1>1. Head(q) = q[1] /\ 1 \in 1 .. Len(q)
    BY TailParts
  <1>2. Head(q).from = k /\ Head(q).via = v
    BY <1>1 DEF Bears
  <1> SUFFICES ASSUME NEW x \in 1 .. Len(r), Head(q).from = r[x].from
               PROVE  Head(q).n # r[x].n /\ Head(q).via # r[x].via
    BY DEF Leads, InTurn
  <1>3. r[x].from = j /\ r[x].via = w
    BY DEF Bears
  <1>4. v # w /\ Apart(q, r)
    BY <1>2, <1>3
  <1>5. Head(q).n # r[x].n
    BY <1>1, <1>4 DEF Apart
  <1> QED BY <1>2, <1>3, <1>4, <1>5

\* Where parts of the ways only lose packets, the ways do.
LEMMA WaysRest ==
    ASSUME NEW d \in Client, NEW c \in Conn, conns'[d] = conns[d],
           Rest(got'[d], got[d]), Rest(inq'[d], inq[d]), Rest(passing'[d], passing[d]),
           Rest(down'[Newest(d)], down[Newest(d)]), Rest(written'[Newest(d)], written[Newest(d)]),
           Rest(rx'[Newest(d)], rx[Newest(d)]), Rest(up'[c], up[c])
    PROVE  \A i \in 1 .. 7 : Rest(ways'[d][c][i], ways[d][c][i])
  <1>1. Newest(d) = <<d, conns'[d]>>
    BY DEF Newest
  <1>2. /\ Rest(ways'[d][c][1], ways[d][c][1]) /\ Rest(ways'[d][c][2], ways[d][c][2])
        /\ Rest(ways'[d][c][3], ways[d][c][3]) /\ Rest(ways'[d][c][4], ways[d][c][4])
        /\ Rest(ways'[d][c][5], ways[d][c][5]) /\ Rest(ways'[d][c][6], ways[d][c][6])
        /\ Rest(ways'[d][c][7], ways[d][c][7])
    BY <1>1, WayParts, WayPartsNext
  <1> SUFFICES ASSUME NEW i \in 1 .. 7 PROVE Rest(ways'[d][c][i], ways[d][c][i])
    OBVIOUS
  <1>3. i \in {1, 2, 3, 4, 5, 6, 7}
    OBVIOUS
  <1> QED BY <1>2, <1>3

-----------------------------------------------------------------------------
\* Nothing joins the queues on the way to a client.
Loses(d) ==
    /\ conns'[d] = conns[d]
    /\ Rest(got'[d], got[d]) /\ Rest(inq'[d], inq[d]) /\ Rest(passing'[d], passing[d])
    /\ Rest(down'[Newest(d)], down[Newest(d)]) /\ Rest(written'[Newest(d)], written[Newest(d)])
    /\ Rest(rx'[Newest(d)], rx[Newest(d)])

\* What a step leaves alone stays so on the ways.
LEMMA QueuesKept ==
    ASSUME OrderType, Tables
    PROVE  /\ \A d \in Client : conns' = conns => conns'[d] = conns[d] /\ Newest(d) \in Conn
           /\ \A d \in Client : got' = got => Rest(got'[d], got[d])
           /\ \A d \in Client : inq' = inq => Rest(inq'[d], inq[d])
           /\ \A d \in Client : busy'[d] = busy[d] => passing'[d] = passing[d]
           /\ \A d \in Client : busy'[d][1] # "pass" => passing'[d] = <<>>
           /\ \A c \in Conn : down' = down => Rest(down'[c], down[c])
           /\ \A c \in Conn : writing'[c] = writing[c] => written'[c] = written[c]
           /\ \A c \in Conn : writing'[c] = Idle => written'[c] = <<>>
           /\ \A c \in Conn : rx' = rx => Rest(rx'[c], rx[c])
           /\ \A c \in Conn : up' = up => Rest(up'[c], up[c])
  <1>1. \A d \in Client : Newest(d) \in Conn
    BY DEF Tables, Newest, Conn
  <1>2. \A d \in Client :
           /\ busy'[d] = busy[d] => passing'[d] = passing[d]
           /\ busy'[d][1] # "pass" => passing'[d] = <<>>
    BY DEF passing
  <1>3. \A c \in Conn :
           /\ writing'[c] = writing[c] => written'[c] = written[c]
           /\ writing'[c] = Idle => written'[c] = <<>>
    BY DEF written
  <1> QED BY <1>1, <1>2, <1>3 DEF Rest

LEMMA LinesLose ==
    ASSUME OrderType, Tables, Lines, OrderType', FloorsRise,
           \A d \in Client : Loses(d), \A c \in Conn : Rest(up'[c], up[c])
    PROVE  Lines'
  <1>1. ASSUME NEW d \in Client, NEW c \in Conn, NEW i \in 1 .. 7
        PROVE  Rest(ways'[d][c][i], ways[d][c][i])
    BY WaysRest DEF Loses
  <1> QED BY <1>1, LinesShrink

\* Steps that only take packets out of queues.
LEMMA LinesLosing ==
    ASSUME OrderType, Tables, Lines, OrderType', FloorsRise,
           \/ \E k \in Client :
                \/ \E to \in Client \ {k} : Submit(k, to)
                \/ SessionTake(k) \/ SessionEnds(k) \/ Answer(k) \/ Close(k) \/ Cut(k)
           \/ \E c \in Conn : Register(c) \/ Reject(c) \/ HandlerEnds(c) \/ Cleanup(c)
           \/ UNCHANGED vars
    PROVE  Lines'
  <1>1. /\ UNCHANGED <<got, conns, up, down>>
        /\ \A d \in Client : Rest(inq'[d], inq[d])
        /\ \A d \in Client : busy'[d] = busy[d] \/ busy'[d][1] # "pass"
        /\ \A c \in Conn : writing'[c] = writing[c] \/ writing'[c] = Idle
        /\ \A c \in Conn : Rest(rx'[c], rx[c])
    <2>1. ASSUME NEW k \in Client,
                 (\E to \in Client \ {k} : Submit(k, to)) \/ Answer(k) \/ Cut(k)
          PROVE  UNCHANGED <<got, conns, up, down, inq, busy, writing, rx>>
      BY <2>1 DEF Submit, Answer, Cut, client, relay
    <2>2. ASSUME NEW k \in Client, SessionTake(k)
          PROVE  /\ UNCHANGED <<got, conns, up, down, inq, writing, rx>>
                 /\ \A d \in Client : busy'[d] = busy[d] \/ busy'[d][1] # "pass"
      <3>1. PICK p : busy' = [busy EXCEPT ![k] = <<"write", p>>]
        BY <2>2 DEF SessionTake
      <3>2. \A d \in Client : busy'[d] = busy[d] \/ busy'[d][1] # "pass"
        BY <3>1 DEF OrderType
      <3> QED BY <2>2, <3>2 DEF SessionTake, relay
    <2>3. ASSUME NEW k \in Client, SessionEnds(k) \/ Close(k)
          PROVE  /\ UNCHANGED <<got, conns, up, down, writing, rx>>
                 /\ \A d \in Client : inq'[d] = inq[d] \/ inq'[d] = <<>>
                 /\ \A d \in Client : busy'[d] = busy[d] \/ busy'[d][1] # "pass"
      <3>1. busy' = [busy EXCEPT ![k] = Idle]
        BY <2>3 DEF SessionEnds, Close
      <3>2. \A d \in Client : busy'[d] = busy[d] \/ busy'[d][1] # "pass"
        BY <3>1 DEF OrderType, Idle
      <3>3. \A d \in Client : inq'[d] = inq[d] \/ inq'[d] = <<>>
        BY <2>3 DEF SessionEnds, Close, OrderType
      <3> QED BY <2>3, <3>2, <3>3 DEF SessionEnds, Close, relay
    <2>4. ASSUME NEW c \in Conn, HandlerEnds(c) \/ Cleanup(c)
          PROVE  /\ UNCHANGED <<got, conns, up, down, inq, busy>>
                 /\ \A d \in Conn : writing'[d] = writing[d] \/ writing'[d] = Idle
                 /\ \A d \in Conn : rx'[d] = rx[d] \/ rx'[d] = <<>>
      BY <2>4 DEF HandlerEnds, Cleanup, client, OrderType
    <2>5. ASSUME NEW c \in Conn, Register(c) \/ Reject(c)
          PROVE  UNCHANGED <<got, conns, up, down, inq, busy, writing, rx>>
      BY <2>5 DEF Register, Reject, client
    <2>6. CASE UNCHANGED vars
      BY <2>6 DEF vars, client, relay, Rest
    <2> QED BY <2>1, <2>2, <2>3, <2>4, <2>5, <2>6 DEF Rest
  <1>2. ASSUME NEW d \in Client PROVE Loses(d)
    BY <1>1, QueuesKept DEF Loses, Rest
  <1>3. ASSUME NEW c \in Conn PROVE Rest(up'[c], up[c])
    BY <1>1 DEF Rest
  <1> QED BY <1>2, <1>3, LinesLose

\* A new connection of a client is empty.
LEMMA LinesDial ==
    ASSUME OrderType, Tables, Sessions, Lines, OrderType', Tables', FloorsRise,
           NEW k \in Client, Dial(k)
    PROVE  Lines'
  <1>1. /\ UNCHANGED <<got, inq, busy, up, down, rx, writing>>
        /\ conns' = [conns EXCEPT ![k] = conns[k] + 1]
    BY DEF Dial, client
  <1>2. conns \in [Client -> 1 .. MaxConns] /\ conns' \in [Client -> 1 .. MaxConns]
    BY DEF Tables
  <1>3. ASSUME NEW d \in Client, NEW c \in Conn, NEW i \in 1 .. 7
        PROVE  Rest(ways'[d][c][i], ways[d][c][i])
    <2>1. CASE d # k
      <3>1. conns'[d] = conns[d]
        BY <1>1, <1>2, <2>1
      <3>2. Loses(d)
        BY <1>1, <3>1, QueuesKept DEF Loses, Rest, Tables, Newest, Conn
      <3> QED BY <1>1, <3>2, WaysRest DEF Loses, Rest
    <2>2. CASE d = k
      <3>1. PICK n \in Conn : n = <<d, conns'[d]>>
        BY <1>2 DEF Conn
      <3>2. down[n] = <<>> /\ rx[n] = <<>> /\ writing[n] = Idle
        <4>1. conns'[d] = conns[d] + 1
          BY <1>1, <1>2, <2>2
        <4>2. conns'[d] \in 1 .. MaxConns /\ conns[d] < conns'[d]
          BY <1>2, <4>1
        <4> QED BY <3>1, <4>2 DEF Sessions, Unused
      <3>3. down'[n] = <<>> /\ rx'[n] = <<>> /\ written'[n] = <<>>
        BY <1>1, <3>2 DEF written
      <3>4. passing'[d] = passing[d]
        BY <1>1 DEF passing
      <3>5. /\ ways'[d][c][1] = got[d] /\ ways'[d][c][2] = inq[d] /\ ways'[d][c][3] = passing[d]
            /\ ways'[d][c][4] = <<>> /\ ways'[d][c][5] = <<>> /\ ways'[d][c][6] = <<>>
            /\ ways'[d][c][7] = up[c]
        BY <1>1, <3>1, <3>3, <3>4, WayPartsNext
      <3>6. /\ ways[d][c][1] = got[d] /\ ways[d][c][2] = inq[d] /\ ways[d][c][3] = passing[d]
            /\ ways[d][c][7] = up[c]
        BY WayParts
      <3>7. i \in {1, 2, 3, 4, 5, 6, 7}
        OBVIOUS
      <3> QED BY <3>5, <3>6, <3>7 DEF Rest
    <2> QED BY <2>1, <2>2
  <1> QED BY <1>3, LinesShrink

\* A step that moves the first packet of queue j of a way and nothing else.
LEMMA WayAdvances ==
    ASSUME NEW k \in Client, NEW c \in Conn, NEW j \in 2 .. 6, NEW h, h = j - 1,
           ways[k][c][j] # <<>> /\ ways'[k][c][j] = Tail(ways[k][c][j]),
           ways'[k][c][h] = Append(ways[k][c][h], Head(ways[k][c][j])),
           j \notin {2} => ways'[k][c][1] = ways[k][c][1],
           j \notin {2, 3} => ways'[k][c][2] = ways[k][c][2],
           j \notin {3, 4} => ways'[k][c][3] = ways[k][c][3],
           j \notin {4, 5} => ways'[k][c][4] = ways[k][c][4],
           j \notin {5, 6} => ways'[k][c][5] = ways[k][c][5],
           j \notin {6} => ways'[k][c][6] = ways[k][c][6],
           ways'[k][c][7] = ways[k][c][7]
    PROVE  Advances(ways[k][c], ways'[k][c], j)
  <1>1. ASSUME NEW i \in 1 .. 7, i # j, i # j - 1 PROVE ways'[k][c][i] = ways[k][c][i]
    <2>1. i \in {1, 2, 3, 4, 5, 6, 7} /\ j \in {2, 3, 4, 5, 6}
      OBVIOUS
    <2>2. CASE i = 1
      BY <1>1, <2>2
    <2>3. CASE i = 2
      BY <1>1, <2>3
    <2>4. CASE i = 3
      BY <1>1, <2>4
    <2>5. CASE i = 4
      BY <1>1, <2>5
    <2>6. CASE i = 5
      BY <1>1, <2>6
    <2>7. CASE i = 6
      BY <1>1, <2>7
    <2>8. CASE i = 7
      BY <1>1, <2>8
    <2> QED BY <2>1, <2>2, <2>3, <2>4, <2>5, <2>6, <2>7, <2>8
  <1> QED BY <1>1 DEF Advances

\* Both together, where n stays the newest connection.
LEMMA WayPartsKept ==
    ASSUME NEW d \in Client, NEW c \in Conn, NEW n, n = Newest(d), conns'[d] = conns[d]
    PROVE  /\ ways[d][c][1] = got[d] /\ ways[d][c][2] = inq[d] /\ ways[d][c][3] = passing[d]
           /\ ways[d][c][4] = down[n] /\ ways[d][c][5] = written[n] /\ ways[d][c][6] = rx[n]
           /\ ways'[d][c][1] = got'[d] /\ ways'[d][c][2] = inq'[d] /\ ways'[d][c][3] = passing'[d]
           /\ ways'[d][c][4] = down'[n] /\ ways'[d][c][5] = written'[n] /\ ways'[d][c][6] = rx'[n]
           /\ ways[d][c][7] = up[c] /\ ways'[d][c][7] = up'[c]
  <1>1. n = <<d, conns'[d]>>
    BY DEF Newest
  <1>2. /\ ways[d][c][1] = got[d] /\ ways[d][c][2] = inq[d] /\ ways[d][c][3] = passing[d]
        /\ ways[d][c][4] = down[n] /\ ways[d][c][5] = written[n] /\ ways[d][c][6] = rx[n]
        /\ ways[d][c][7] = up[c]
    BY WayParts
  <1>3. /\ ways'[d][c][1] = got'[d] /\ ways'[d][c][2] = inq'[d] /\ ways'[d][c][3] = passing'[d]
        /\ ways'[d][c][4] = down'[n] /\ ways'[d][c][5] = written'[n] /\ ways'[d][c][6] = rx'[n]
        /\ ways'[d][c][7] = up'[c]
    BY <1>1, WayPartsNext
  <1> QED BY <1>2, <1>3

LEMMA LinesActorReceive ==
    ASSUME OrderType, Tables, Lines, OrderType', FloorsRise, NEW k \in Client, ActorReceive(k)
    PROVE  Lines'
  <1>1. /\ UNCHANGED <<conns, busy, down, writing, rx, up>>
        /\ inq[k] # <<>> /\ inq'[k] = Tail(inq[k]) /\ got'[k] = Append(got[k], Head(inq[k]))
        /\ \A d \in Client \ {k} : inq'[d] = inq[d] /\ got'[d] = got[d]
    BY DEF ActorReceive, relay, OrderType
  <1>2. ASSUME NEW d \in Client
        PROVE  conns'[d] = conns[d] /\ passing'[d] = passing[d] /\ Newest(d) \in Conn
    BY <1>1, QueuesKept
  <1>3. \A c \in Conn : written'[c] = written[c]
    BY <1>1, QueuesKept
  <1>4. ASSUME NEW c \in Conn PROVE Advances(ways[k][c], ways'[k][c], 2)
    <2>1. ways'[k][c][1] = Append(ways[k][c][1], Head(ways[k][c][2]))
      BY <1>1, WayParts, WayPartsNext
    <2>2. ways[k][c][2] # <<>> /\ ways'[k][c][2] = Tail(ways[k][c][2])
      BY <1>1, WayParts, WayPartsNext
    <2>3. PICK n \in Conn : n = Newest(k) /\ conns'[k] = conns[k]
      BY <1>2
    <2>4. written'[n] = written[n]
      BY <1>3
    <2>5. ways'[k][c][3] = ways[k][c][3]
      BY <1>2, <2>3, WayPartsKept
    <2>6. /\ ways'[k][c][4] = ways[k][c][4]
          /\ ways'[k][c][5] = ways[k][c][5]
          /\ ways'[k][c][6] = ways[k][c][6]
          /\ ways'[k][c][7] = ways[k][c][7]
      BY <1>1, <2>3, <2>4, WayPartsKept
    <2>7. 2 \in 2 .. 6 /\ 1 = 2 - 1
      OBVIOUS
    <2> QED BY <2>7, <2>5, <2>1, <2>2, <2>6, WayAdvances
  <1>5. ASSUME NEW d \in Client \ {k}, NEW c \in Conn, NEW i \in 1 .. 7
        PROVE  Rest(ways'[d][c][i], ways[d][c][i])
    BY <1>1, <1>2, <1>3, WaysRest DEF Rest
  <1> QED BY <1>4, <1>5, LinesAdvance

LEMMA LinesSessionPass ==
    ASSUME OrderType, Tables, Lines, OrderType', FloorsRise, NEW k \in Client, SessionPass(k)
    PROVE  Lines'
  <1>1. /\ UNCHANGED <<conns, got, down, writing, rx, up>>
        /\ busy[k][1] = "pass" /\ busy'[k] = Idle /\ inq'[k] = Append(inq[k], busy[k][2])
        /\ \A d \in Client \ {k} : inq'[d] = inq[d] /\ busy'[d] = busy[d]
    BY DEF SessionPass, relay, OrderType
  <1>2. ASSUME NEW d \in Client PROVE conns'[d] = conns[d] /\ Newest(d) \in Conn
    BY <1>1, QueuesKept
  <1>3. \A c \in Conn : written'[c] = written[c]
    BY <1>1, QueuesKept
  <1>4. passing[k] = <<busy[k][2]>> /\ passing'[k] = <<>>
    BY <1>1 DEF passing, Idle
  <1>5. ASSUME NEW c \in Conn PROVE Advances(ways[k][c], ways'[k][c], 3)
    <2>1. passing[k] # <<>> /\ Head(passing[k]) = busy[k][2] /\ Tail(passing[k]) = <<>>
      BY <1>4
    <2>2. ways'[k][c][2] = Append(ways[k][c][2], Head(ways[k][c][3]))
      BY <1>1, <2>1, WayParts, WayPartsNext
    <2>3. ways[k][c][3] # <<>> /\ ways'[k][c][3] = Tail(ways[k][c][3])
      BY <1>4, <2>1, WayParts, WayPartsNext
    <2>4. PICK n \in Conn : n = Newest(k) /\ conns'[k] = conns[k]
      BY <1>2
    <2>5. written'[n] = written[n]
      BY <1>3
    <2>6. /\ ways'[k][c][1] = ways[k][c][1]
      BY <1>1, <2>4, WayPartsKept
    <2>7. /\ ways'[k][c][4] = ways[k][c][4]
          /\ ways'[k][c][5] = ways[k][c][5]
          /\ ways'[k][c][6] = ways[k][c][6]
          /\ ways'[k][c][7] = ways[k][c][7]
      BY <1>1, <2>4, <2>5, WayPartsKept
    <2>8. 3 \in 2 .. 6 /\ 2 = 3 - 1
      OBVIOUS
    <2> QED BY <2>8, <2>6, <2>2, <2>3, <2>7, WayAdvances
  <1>6. ASSUME NEW d \in Client \ {k}, NEW c \in Conn, NEW i \in 1 .. 7
        PROVE  Rest(ways'[d][c][i], ways[d][c][i])
    <2>1. passing'[d] = passing[d]
      BY <1>1, QueuesKept
    <2> QED BY <1>1, <1>2, <1>3, <2>1, WaysRest DEF Rest
  <1> QED BY <1>5, <1>6, LinesAdvance

LEMMA LinesSessionReceive ==
    ASSUME OrderType, Tables, Sessions, Lines, OrderType', FloorsRise,
           NEW k \in Client, SessionReceive(k)
    PROVE  Lines'
  <1>1. PICK i \in Streams(k) :
           /\ down[<<k, i>>] # <<>>
           /\ down' = [down EXCEPT ![<<k, i>>] = Tail(@)]
           /\ busy' = [busy EXCEPT ![k] = <<"pass", Head(down[<<k, i>>])>>]
    BY DEF SessionReceive
  <1>2. UNCHANGED <<conns, got, inq, writing, rx, up>> /\ busy[k] = Idle /\ session[k] # 0
    BY DEF SessionReceive, relay
  <1>3. <<k, i>> = Newest(k)
    BY <1>2 DEF Streams, Sessions, Newest
  <1>4. ASSUME NEW d \in Client PROVE conns'[d] = conns[d] /\ Newest(d) \in Conn
    BY <1>2, QueuesKept
  <1>5. \A c \in Conn : written'[c] = written[c]
    BY <1>2, QueuesKept
  <1>6. /\ down[Newest(k)] # <<>> /\ down'[Newest(k)] = Tail(down[Newest(k)])
        /\ busy'[k] = <<"pass", Head(down[Newest(k)])>>
        /\ \A d \in Client \ {k} : down'[Newest(d)] = down[Newest(d)] /\ busy'[d] = busy[d]
    BY <1>1, <1>3, <1>4 DEF Newest, OrderType
  <1>7. passing[k] = <<>> /\ passing'[k] = <<Head(down[Newest(k)])>>
    BY <1>2, <1>6 DEF passing, Idle
  <1>8. ASSUME NEW c \in Conn PROVE Advances(ways[k][c], ways'[k][c], 4)
    <2>1. passing'[k] = Append(passing[k], Head(down[Newest(k)]))
      BY <1>7
    <2>2. ways'[k][c][3] = Append(ways[k][c][3], Head(ways[k][c][4]))
      BY <2>1, WayParts, WayPartsNext
    <2>3. ways[k][c][4] # <<>> /\ ways'[k][c][4] = Tail(ways[k][c][4])
      BY <1>4, <1>6, WayParts, WayPartsNext DEF Newest
    <2>4. PICK n \in Conn : n = Newest(k) /\ conns'[k] = conns[k]
      BY <1>4
    <2>5. written'[n] = written[n]
      BY <1>5
    <2>6. /\ ways'[k][c][1] = ways[k][c][1]
          /\ ways'[k][c][2] = ways[k][c][2]
      BY <1>2, <2>4, WayPartsKept
    <2>7. /\ ways'[k][c][5] = ways[k][c][5]
          /\ ways'[k][c][6] = ways[k][c][6]
          /\ ways'[k][c][7] = ways[k][c][7]
      BY <1>2, <2>4, <2>5, WayPartsKept
    <2>8. 4 \in 2 .. 6 /\ 3 = 4 - 1
      OBVIOUS
    <2> QED BY <2>8, <2>6, <2>2, <2>3, <2>7, WayAdvances
  <1>9. ASSUME NEW d \in Client \ {k}, NEW c \in Conn, NEW n \in 1 .. 7
        PROVE  Rest(ways'[d][c][n], ways[d][c][n])
    <2>1. passing'[d] = passing[d]
      BY <1>6, QueuesKept
    <2> QED BY <1>2, <1>4, <1>5, <1>6, <2>1, WaysRest DEF Rest
  <1> QED BY <1>8, <1>9, LinesAdvance

LEMMA LinesHandlerWrite ==
    ASSUME OrderType, Tables, Lines, OrderType', FloorsRise, NEW c \in Conn, HandlerWrite(c)
    PROVE  Lines'
  <1>1. /\ UNCHANGED <<conns, got, inq, busy, rx, up>>
        /\ writing[c] # Idle /\ writing'[c] = Idle /\ down'[c] = Append(down[c], writing[c][2])
        /\ \A b \in Conn \ {c} : down'[b] = down[b] /\ writing'[b] = writing[b]
    BY DEF HandlerWrite, client, OrderType
  <1>2. ASSUME NEW d \in Client
        PROVE  conns'[d] = conns[d] /\ passing'[d] = passing[d] /\ Newest(d) \in Conn
    BY <1>1, QueuesKept
  <1>3. written[c] = <<writing[c][2]>> /\ written'[c] = <<>>
    BY <1>1 DEF written
  <1>4. ASSUME NEW b \in Conn \ {c} PROVE written'[b] = written[b]
    BY <1>1, QueuesKept
  <1>5. ASSUME NEW d \in Client, Newest(d) # c, NEW b \in Conn, NEW i \in 1 .. 7
        PROVE  Rest(ways'[d][b][i], ways[d][b][i])
    BY <1>1, <1>2, <1>4, <1>5, WaysRest DEF Rest
  <1>6. ASSUME NEW d \in Client, Newest(d) = c, NEW b \in Conn
        PROVE  Advances(ways[d][b], ways'[d][b], 5)
    <2>1. written[c] # <<>> /\ Head(written[c]) = writing[c][2] /\ Tail(written[c]) = <<>>
      BY <1>3
    <2>2. <<d, conns'[d]>> = c
      BY <1>2, <1>6 DEF Newest
    <2>3. /\ ways[d][b][4] = down[c] /\ ways'[d][b][4] = down'[c]
          /\ ways[d][b][5] = written[c] /\ ways'[d][b][5] = written'[c]
      BY <1>6, <2>2, WayParts, WayPartsNext
    <2>4. ways'[d][b][4] = Append(ways[d][b][4], Head(ways[d][b][5]))
      BY <1>1, <2>1, <2>3
    <2>5. ways[d][b][5] # <<>> /\ ways'[d][b][5] = Tail(ways[d][b][5])
      BY <1>3, <2>1, <2>3
    <2>6. /\ ways'[d][b][1] = ways[d][b][1] /\ ways'[d][b][2] = ways[d][b][2]
          /\ ways'[d][b][3] = ways[d][b][3] /\ ways'[d][b][6] = ways[d][b][6]
          /\ ways'[d][b][7] = ways[d][b][7]
      BY <1>1, <1>2, <1>6, <2>2, WayParts, WayPartsNext
    <2>7. 5 \in 2 .. 6 /\ 4 = 5 - 1
      OBVIOUS
    <2> QED BY <2>7, <2>4, <2>5, <2>6, WayAdvances
  <1>7. CASE c = Newest(c[1])
    <2>1. PICK k \in Client : k = c[1]
      BY DEF Conn
    <2>2. \A d \in Client \ {k} : Newest(d) # c
      BY <2>1 DEF Newest
    <2> QED BY <1>5, <1>6, <1>7, <2>1, <2>2, LinesAdvance
  <1>8. CASE c # Newest(c[1])
    <2>1. \A d \in Client : Newest(d) # c
      BY <1>8 DEF Newest
    <2> QED BY <1>5, <2>1, LinesShrink
  <1> QED BY <1>7, <1>8

LEMMA LinesHandlerTake ==
    ASSUME OrderType, Tables, Lines, OrderType', FloorsRise, NEW c \in Conn, HandlerTake(c)
    PROVE  Lines'
  <1>1. /\ UNCHANGED <<conns, got, inq, busy, down, up>>
        /\ writing[c] = Idle /\ rx[c] # <<>>
        /\ writing'[c] = <<"write", Head(rx[c])>> /\ rx'[c] = Tail(rx[c])
        /\ \A b \in Conn \ {c} : rx'[b] = rx[b] /\ writing'[b] = writing[b]
    BY DEF HandlerTake, client, OrderType
  <1>2. ASSUME NEW d \in Client
        PROVE  conns'[d] = conns[d] /\ passing'[d] = passing[d] /\ Newest(d) \in Conn
    BY <1>1, QueuesKept
  <1>3. written[c] = <<>> /\ written'[c] = <<Head(rx[c])>>
    BY <1>1 DEF written, Idle
  <1>4. ASSUME NEW b \in Conn \ {c} PROVE written'[b] = written[b]
    BY <1>1, QueuesKept
  <1>5. ASSUME NEW d \in Client, Newest(d) # c, NEW b \in Conn, NEW i \in 1 .. 7
        PROVE  Rest(ways'[d][b][i], ways[d][b][i])
    BY <1>1, <1>2, <1>4, <1>5, WaysRest DEF Rest
  <1>6. ASSUME NEW d \in Client, Newest(d) = c, NEW b \in Conn
        PROVE  Advances(ways[d][b], ways'[d][b], 6)
    <2>1. written'[c] = Append(written[c], Head(rx[c]))
      BY <1>3
    <2>2. <<d, conns'[d]>> = c
      BY <1>2, <1>6 DEF Newest
    <2>3. /\ ways[d][b][5] = written[c] /\ ways'[d][b][5] = written'[c]
          /\ ways[d][b][6] = rx[c] /\ ways'[d][b][6] = rx'[c]
      BY <1>6, <2>2, WayParts, WayPartsNext
    <2>4. ways'[d][b][5] = Append(ways[d][b][5], Head(ways[d][b][6]))
      BY <2>1, <2>3
    <2>5. ways[d][b][6] # <<>> /\ ways'[d][b][6] = Tail(ways[d][b][6])
      BY <1>1, <2>3
    <2>6. /\ ways'[d][b][1] = ways[d][b][1] /\ ways'[d][b][2] = ways[d][b][2]
          /\ ways'[d][b][3] = ways[d][b][3] /\ ways'[d][b][4] = ways[d][b][4]
          /\ ways'[d][b][7] = ways[d][b][7]
      BY <1>1, <1>2, <1>6, <2>2, WayParts, WayPartsNext
    <2>7. 6 \in 2 .. 6 /\ 5 = 6 - 1
      OBVIOUS
    <2> QED BY <2>7, <2>4, <2>5, <2>6, WayAdvances
  <1>7. CASE c = Newest(c[1])
    <2>1. PICK k \in Client : k = c[1]
      BY DEF Conn
    <2>2. \A d \in Client \ {k} : Newest(d) # c
      BY <2>1 DEF Newest
    <2> QED BY <1>5, <1>6, <1>7, <2>1, <2>2, LinesAdvance
  <1>8. CASE c # Newest(c[1])
    <2>1. \A d \in Client : Newest(d) # c
      BY <1>8 DEF Newest
    <2> QED BY <1>5, <2>1, LinesShrink
  <1> QED BY <1>7, <1>8

LEMMA LinesSessionWrite ==
    ASSUME OrderType, Tables, Sessions, Outgoing, Lines, OrderType', FloorsRise,
           NEW k \in Client, SessionWrite(k)
    PROVE  Lines'
  <1>1. /\ UNCHANGED <<outq, sent, conns, got, inq, down, writing, rx>>
        /\ session[k] # 0 /\ busy[k][1] = "write" /\ busy' = [busy EXCEPT ![k] = Idle]
        /\ up' = [up EXCEPT ![Current(k)] = Append(up[Current(k)], busy[k][2])]
    BY DEF SessionWrite, relay
  <1>2. PICK p \in Packet : p = busy[k][2]
    BY <1>1, WaitingParts DEF OrderType
  <1>3. PICK e \in Conn : e = Current(k)
    BY <1>1 DEF Current, Conn, OrderType
  <1>4. up'[e] = Append(up[e], p) /\ \A c \in Conn \ {e} : up'[c] = up[c]
    BY <1>1, <1>2, <1>3 DEF OrderType
  <1>5. p.from = k
    BY <1>1, <1>2 DEF Outgoing, Sends
  <1>6. floors[k] = p.n
    BY <1>1, <1>2 DEF floors, FloorOf
  <1>7. p.n < floors'[p.from]
    <2>1. busy'[k][1] # "write"
      BY <1>1 DEF OrderType, Idle
    <2>2. Sends(outq[k], busy[k], session[k], sent[k], k)
      BY DEF Outgoing
    <2>3. p.n <= sent[k] /\ \A i \in 1 .. Len(outq[k]) : p.n < outq[k][i].n
      BY <1>1, <1>2, <2>2 DEF Sends
    <2>4. outq[k] # <<>> => p.n < outq[k][1].n
      <3>1. outq[k] # <<>> => 1 \in 1 .. Len(outq[k])
        BY DEF OrderType
      <3> QED BY <2>3, <3>1
    <2>5. p.n < sent[k] + 1
      <3>1. p.n \in Nat /\ sent[k] \in Nat
        BY RelayAssumption DEF Packet, OrderType
      <3> QED BY <2>3, <3>1
    <2>6. FloorOf(outq[k], busy'[k], sent[k]) = IF outq[k] # <<>> THEN outq[k][1].n ELSE sent[k] + 1
      BY <2>1 DEF FloorOf
    <2>7. floors'[k] = FloorOf(outq[k], busy'[k], sent[k])
      BY <1>1 DEF floors
    <2> QED BY <1>5, <2>4, <2>5, <2>6, <2>7
  <1>8. ASSUME NEW d \in Client PROVE passing'[d] = passing[d]
    <2>1. CASE d = k
      BY <1>1, <2>1 DEF passing, OrderType, Idle
    <2>2. CASE d # k
      BY <1>1, <2>2, QueuesKept DEF OrderType
    <2> QED BY <2>1, <2>2
  <1>9. ASSUME NEW d \in Client
        PROVE  /\ conns'[d] = conns[d] /\ Newest(d) \in Conn
               /\ written'[Newest(d)] = written[Newest(d)]
    BY <1>1, QueuesKept
  <1>10. ASSUME NEW d \in Client, NEW c \in Conn PROVE Line(ways'[d][c], floors')
    <2>1. ways[d][c] \in [1 .. 7 -> Seq(Packet)]
      BY WayType
    <2>2. floors' \in [Client -> Nat]
      BY FloorTypeNext
    <2>3. Line(ways[d][c], floors')
      BY LinesRise
    <2>4. CASE c = e
      <3>1. PICK n \in Conn : n = Newest(d) /\ conns'[d] = conns[d] /\ written'[n] = written[n]
        BY <1>9
      <3>2. ways'[d][c][7] = Append(ways[d][c][7], p)
        BY <1>4, <2>4, <3>1, WayPartsKept
      <3>3. /\ ways'[d][c][1] = ways[d][c][1] /\ ways'[d][c][2] = ways[d][c][2]
            /\ ways'[d][c][3] = ways[d][c][3] /\ ways'[d][c][4] = ways[d][c][4]
            /\ ways'[d][c][5] = ways[d][c][5] /\ ways'[d][c][6] = ways[d][c][6]
        BY <1>1, <1>8, <3>1, WayPartsKept
      <3>4. ASSUME NEW i \in 1 .. 7, i # 7 PROVE ways'[d][c][i] = ways[d][c][i]
        <4>1. i \in {1, 2, 3, 4, 5, 6}
          BY <3>4
        <4> QED BY <3>3, <4>1
      <3>5. Joins(ways[d][c], ways'[d][c], 7, p)
        BY <3>2, <3>4 DEF Joins
      <3>6. ASSUME NEW i \in 1 .. 7
            PROVE  IF i <= 7 THEN Follows(p, ways[d][c][i]) ELSE Leads(p, ways[d][c][i])
        <4>1. Below(ways[d][c][i], p.from, p.n)
          BY <1>5, <1>6 DEF Lines, Line
        <4>2. ways[d][c][i] \in Seq(Packet)
          BY <2>1
        <4>3. Follows(p, ways[d][c][i])
          BY <4>1, <4>2, BelowFollows
        <4>4. i <= 7
          OBVIOUS
        <4> QED BY <4>3, <4>4
      <3>7. 7 \in 1 .. 7
        OBVIOUS
      <3> QED BY <1>7, <2>1, <2>3, <3>5, <3>6, <3>7, LineGrows
    <2>5. CASE c # e
      <3>1. up'[c] = up[c]
        BY <1>4, <2>5
      <3>2. \A i \in 1 .. 7 : Rest(ways'[d][c][i], ways[d][c][i])
        BY <1>1, <1>8, <1>9, <3>1, WaysRest DEF Rest
      <3>3. ASSUME NEW h \in Client PROVE floors'[h] <= floors'[h]
        <4>1. floors'[h] \in Nat
          BY <2>2
        <4> QED BY <4>1
      <3> QED BY <2>1, <2>2, <2>3, <3>2, <3>3, LineShrinks
    <2> QED BY <2>4, <2>5
  <1> QED BY <1>10 DEF Lines

LEMMA LinesHandlerForward ==
    ASSUME OrderType, RegisterInv, Uploads, Lines, OrderType', FloorsRise,
           NEW c \in Conn, HandlerForward(c)
    PROVE  Lines'
  <1>1. /\ UNCHANGED <<conns, got, inq, busy, down, writing>>
        /\ up[c] # <<>> /\ up'[c] = Tail(up[c]) /\ \A b \in Conn \ {c} : up'[b] = up[b]
    BY DEF HandlerForward, client, OrderType
  <1>2. PICK p \in Packet : p = Head(up[c])
    BY <1>1, TailParts DEF OrderType
  <1>3. PICK k \in Client : k = p.to
    BY DEF Packet
  <1>4. Tables
    BY DEF RegisterInv
  <1>5. PICK n \in Conn : n = Newest(k)
    BY <1>4, QueuesKept DEF Tables, Newest, Conn
  <1>6. \/ \A d \in Client : rx'[Newest(d)] = rx[Newest(d)]
        \/ rx' = [rx EXCEPT ![n] = Append(rx[n], p)]
    <2>1. CASE clients[k] = conns[k]
      BY <1>2, <1>3, <1>5, <2>1 DEF HandlerForward, Newest
    <2>2. CASE clients[k] # conns[k]
      <3>1. ASSUME NEW d \in Client PROVE Newest(d) # <<k, clients[k]>>
        BY <2>2 DEF Newest
      <3>2. rx' = rx \/ \E q : rx' = [rx EXCEPT ![<<k, clients[k]>>] = q]
        BY <1>2, <1>3 DEF HandlerForward
      <3>3. ASSUME NEW d \in Client PROVE Newest(d) \in Conn
        BY <1>4, QueuesKept DEF Tables, Newest, Conn
      <3> QED BY <3>1, <3>2, <3>3 DEF OrderType
    <2> QED BY <2>1, <2>2
  <1>7. ASSUME NEW b \in Conn PROVE Rest(up'[b], up[b])
    BY <1>1 DEF Rest
  <1>8. ASSUME NEW d \in Client
        PROVE  /\ conns'[d] = conns[d] /\ Newest(d) \in Conn /\ passing'[d] = passing[d]
               /\ written'[Newest(d)] = written[Newest(d)]
    BY <1>1, <1>4, QueuesKept
  <1>9. ASSUME NEW d \in Client, rx'[Newest(d)] = rx[Newest(d)] PROVE Loses(d)
    BY <1>1, <1>8, <1>9 DEF Loses, Rest
  <1>10. CASE \A d \in Client : rx'[Newest(d)] = rx[Newest(d)]
    BY <1>4, <1>7, <1>9, <1>10, LinesLose
  <1>11. CASE rx' = [rx EXCEPT ![n] = Append(rx[n], p)]
    <2>1. rx'[n] = Append(rx[n], p) /\ \A b \in Conn \ {n} : rx'[b] = rx[b]
      BY <1>11 DEF OrderType
    <2>2. floors' \in [Client -> Nat]
      BY FloorTypeNext
    <2>3. ASSUME NEW b \in Conn
          PROVE  ways[k][b] \in [1 .. 7 -> Seq(Packet)] /\ Line(ways[k][b], floors')
      BY <1>4, WayType, LinesRise
    <2>4. ASSUME NEW b \in Conn
          PROVE  /\ ways[k][b][1] = got[k] /\ ways[k][b][2] = inq[k] /\ ways[k][b][3] = passing[k]
                 /\ ways[k][b][4] = down[n] /\ ways[k][b][5] = written[n] /\ ways[k][b][6] = rx[n]
                 /\ ways[k][b][7] = up[b]
      BY <1>5, <1>8, WayPartsKept
    <2>5. ASSUME NEW b \in Conn
          PROVE  /\ ways'[k][b][1] = got[k] /\ ways'[k][b][2] = inq[k] /\ ways'[k][b][3] = passing[k]
                 /\ ways'[k][b][4] = down[n] /\ ways'[k][b][5] = written[n]
                 /\ ways'[k][b][6] = Append(rx[n], p) /\ ways'[k][b][7] = up'[b]
      <3>1. conns'[k] = conns[k] /\ passing'[k] = passing[k] /\ written'[n] = written[n]
        BY <1>5, <1>8
      <3> QED BY <1>1, <1>5, <2>1, <3>1, WayPartsKept
    <2>6. Line(ways'[k][c], floors')
      <3>1. ASSUME NEW i \in 1 .. 7, i # 7, i # 6 PROVE ways'[k][c][i] = ways[k][c][i]
        <4>1. i \in {1, 2, 3, 4, 5}
          BY <3>1
        <4> QED BY <2>4, <2>5, <4>1
      <3>2. PICK h \in 1 .. 7 : h = 7 - 1 /\ h = 6
        OBVIOUS
      <3>3. ways'[k][c][h] = Append(ways[k][c][h], Head(ways[k][c][7]))
        BY <1>2, <2>4, <2>5, <3>2
      <3>4. ways[k][c][7] # <<>> /\ ways'[k][c][7] = Tail(ways[k][c][7])
        BY <1>1, <2>4, <2>5
      <3>5. Advances(ways[k][c], ways'[k][c], 7)
        BY <3>1, <3>2, <3>3, <3>4 DEF Advances
      <3>6. 7 \in 2 .. 7
        OBVIOUS
      <3> QED BY <2>2, <2>3, <3>5, <3>6, LineAdvances
    <2>7. ASSUME NEW b \in Conn, b # c PROVE Line(ways'[k][b], floors')
      <3>1. ways'[k][b][7] = ways[k][b][7]
        BY <1>1, <2>4, <2>5, <2>7
      <3>2. ASSUME NEW i \in 1 .. 7, i # 6 PROVE ways'[k][b][i] = ways[k][b][i]
        <4>1. i \in {1, 2, 3, 4, 5, 7}
          BY <3>2
        <4> QED BY <2>4, <2>5, <3>1, <4>1
      <3>3. ways'[k][b][6] = Append(ways[k][b][6], p)
        BY <2>4, <2>5
      <3>4. Joins(ways[k][b], ways'[k][b], 6, p)
        BY <3>2, <3>3 DEF Joins
      <3>5. up[c] \in Seq(Packet) /\ up[b] \in Seq(Packet)
        BY DEF OrderType
      <3>6. ASSUME NEW i \in 1 .. 6 PROVE Follows(p, ways[k][b][i])
        <4>1. Ahead(ways[k][c][i], ways[k][c][7])
          <5>1. i \in 1 .. 7 /\ 7 \in 1 .. 7 /\ i < 7
            OBVIOUS
          <5> QED BY <2>3, <5>1 DEF Line
        <4>2. ways[k][c][7] = up[c]
          BY <2>4
        <4>3. Follows(p, ways[k][c][i])
          BY <1>1, <1>2, <3>5, <4>1, <4>2, HeadLeads
        <4>4. i \in {1, 2, 3, 4, 5, 6}
          OBVIOUS
        <4>5. ways[k][b][i] = ways[k][c][i]
          BY <2>4, <4>4
        <4> QED BY <4>3, <4>5
      <3>7. Leads(p, ways[k][b][7])
        <4>1. PICK j \in Client, v \in 1 .. MaxConns : c = <<j, v>>
          BY DEF Conn
        <4>2. PICK h \in Client, w \in 1 .. MaxConns : b = <<h, w>>
          BY DEF Conn
        <4>3. Bears(up[c], j, v) /\ Bears(up[b], h, w)
          BY <4>1, <4>2 DEF Uploads
        <4>4. j # h \/ (v # w /\ Apart(up[c], up[b]))
          BY <2>7, <4>1, <4>2 DEF Uploads
        <4>5. Leads(p, up[b])
          BY <1>1, <1>2, <3>5, <4>3, <4>4, LeadsApart
        <4> QED BY <2>4, <4>5
      <3>8. ASSUME NEW i \in 1 .. 7
            PROVE  IF i <= 6 THEN Follows(p, ways[k][b][i]) ELSE Leads(p, ways[k][b][i])
        <4>1. CASE i <= 6
          <5>1. i \in 1 .. 6
            BY <4>1
          <5> QED BY <3>6, <4>1, <5>1
        <4>2. CASE ~ i <= 6
          <5>1. i = 7
            BY <4>2
          <5> QED BY <3>7, <4>2, <5>1
        <4> QED BY <4>1, <4>2
      <3>9. p.n < floors'[p.from]
        <4>1. p.from \in Client /\ 7 \in 1 .. 7
          BY DEF Packet
        <4>2. Below(ways[k][c][7], p.from, floors'[p.from])
          BY <2>3, <4>1 DEF Line
        <4>3. Below(up[c], p.from, floors'[p.from])
          BY <2>4, <4>2
        <4> QED BY <1>1, <1>2, <3>5, <4>3, HeadLeads
      <3>10. 6 \in 1 .. 7
        OBVIOUS
      <3> QED BY <2>3, <3>4, <3>8, <3>9, <3>10, LineGrows
    <2>8. ASSUME NEW d \in Client, d # k, NEW b \in Conn PROVE Line(ways'[d][b], floors')
      <3>1. Newest(d) # n
        BY <1>5, <2>8 DEF Newest
      <3>2. rx'[Newest(d)] = rx[Newest(d)]
        BY <1>8, <2>1, <3>1
      <3>3. Loses(d)
        BY <1>9, <3>2
      <3>4. \A i \in 1 .. 7 : Rest(ways'[d][b][i], ways[d][b][i])
        BY <1>7, <3>3, WaysRest DEF Loses
      <3>5. ways[d][b] \in [1 .. 7 -> Seq(Packet)] /\ Line(ways[d][b], floors')
        BY <1>4, WayType, LinesRise
      <3>6. ASSUME NEW h \in Client PROVE floors'[h] <= floors'[h]
        <4>1. floors'[h] \in Nat
          BY <2>2
        <4> QED BY <4>1
      <3> QED BY <2>2, <3>4, <3>5, <3>6, LineShrinks
    <2> QED BY <2>6, <2>7, <2>8 DEF Lines
  <1> QED BY <1>6, <1>10, <1>11

LEMMA LinesStep ==
    ASSUME OrderType, RegisterInv, Sessions, Outgoing, Uploads, Lines, OrderType', RegisterInv',
           FloorsRise, [Next]_vars
    PROVE  Lines'
  <1>1. Tables /\ Tables'
    BY DEF RegisterInv
  <1>2. ASSUME NEW k \in Client, Dial(k) PROVE Lines'
    BY <1>1, <1>2, LinesDial
  <1>3. ASSUME NEW k \in Client,
               SessionWrite(k) \/ SessionReceive(k) \/ SessionPass(k) \/ ActorReceive(k)
        PROVE  Lines'
    BY <1>1, <1>3, LinesSessionWrite, LinesSessionReceive, LinesSessionPass, LinesActorReceive
  <1>4. ASSUME NEW c \in Conn, HandlerForward(c) \/ HandlerTake(c) \/ HandlerWrite(c)
        PROVE  Lines'
    BY <1>1, <1>4, LinesHandlerForward, LinesHandlerTake, LinesHandlerWrite
  <1> QED BY <1>1, <1>2, <1>3, <1>4, LinesLosing DEF Next, Progress

-----------------------------------------------------------------------------
LEMMA OrderInit == Init => OrderInv
  <1> SUFFICES ASSUME Init PROVE OrderInv
    OBVIOUS
  <1>1. OrderType
    <2>1. <<>> \in Seq(Packet) /\ Idle \in Waiting
      BY DEF Waiting
    <2> QED BY <2>1, RelayAssumption DEF Init, OrderType
  <1>2. Sessions
    <2>1. ASSUME NEW k \in Client, NEW i \in 1 .. MaxConns PROVE Unused(<<k, i>>)
      <3>1. <<k, i>> \in Conn
        BY DEF Conn
      <3> QED BY <3>1 DEF Init, Unused
    <2>2. \A k \in Client : session[k] = conns[k] /\ busy[k] = Idle
      BY DEF Init
    <2> QED BY <2>1, <2>2 DEF Sessions
  <1>3. Outgoing
    <2>1. ASSUME NEW v, NEW k PROVE Sends(<<>>, Idle, v, 0, k)
      BY DEF Sends, Idle
    <2> QED BY <2>1 DEF Init, Outgoing
  <1>4. Uploads
    BY DEF Init, Uploads, Bears, Apart, Conn
  <1>5. Lines
    <2>1. ASSUME NEW d \in Client, NEW c \in Conn, NEW i \in 1 .. 7 PROVE ways[d][c][i] = <<>>
      <3>1. Newest(d) \in Conn
        BY RelayAssumption DEF Init, Newest, Conn
      <3>2. /\ got[d] = <<>> /\ inq[d] = <<>> /\ down[Newest(d)] = <<>> /\ rx[Newest(d)] = <<>>
            /\ up[c] = <<>>
        BY <3>1 DEF Init
      <3>3. passing[d] = <<>> /\ written[Newest(d)] = <<>>
        BY <3>1 DEF Init, passing, written, Idle
      <3>4. i \in {1, 2, 3, 4, 5, 6, 7}
        OBVIOUS
      <3> QED BY <3>2, <3>3, <3>4, WayParts
    <2>2. Ordered(<<>>) /\ Ahead(<<>>, <<>>) /\ \A k, n : Below(<<>>, k, n)
      BY DEF Ordered, Ahead, Below
    <2>3. ASSUME NEW d \in Client, NEW c \in Conn PROVE Line(ways[d][c], floors)
      BY <2>1, <2>2 DEF Line
    <2> QED BY <2>3 DEF Lines
  <1> QED BY <1>1, <1>2, <1>3, <1>4, <1>5 DEF OrderInv

LEMMA OrderStep == RegisterInv /\ OrderInv /\ [Next]_vars => OrderInv'
  <1> SUFFICES ASSUME RegisterInv, OrderInv, [Next]_vars PROVE OrderInv'
    OBVIOUS
  <1>1. OrderType /\ Sessions /\ Outgoing /\ Uploads /\ Lines /\ Tables
    BY DEF OrderInv, RegisterInv
  <1>2. RegisterInv'
    BY RegisterStep
  <1>3. OrderType'
    BY <1>1, TypeStep
  <1>4. Sessions'
    BY <1>1, SessionsStep
  <1>5. Outgoing' /\ FloorsRise
    BY <1>1, OutgoingStep
  <1>6. Uploads'
    BY <1>1, UploadsStep
  <1>7. Lines'
    BY <1>1, <1>2, <1>3, <1>5, LinesStep
  <1> QED BY <1>3, <1>4, <1>5, <1>6, <1>7 DEF OrderInv

\* What an actor received is the first queue of each line.
LEMMA OrderGot == OrderInv => InOrder
  <1> SUFFICES ASSUME OrderInv, NEW k \in Client
               PROVE  /\ got[k] \in Seq(Packet)
                      /\ \A i, j \in DOMAIN got[k] :
                           i < j /\ got[k][i].from = got[k][j].from =>
                             /\ got[k][i].n # got[k][j].n
                             /\ got[k][i].via = got[k][j].via => got[k][i].n < got[k][j].n
    BY DEF InOrder
  <1>1. got[k] \in Seq(Packet)
    BY DEF OrderInv, OrderType
  <1>2. Ordered(got[k])
    <2>1. <<k, 1>> \in Conn
      <3>1. 1 \in 1 .. MaxConns
        BY RelayAssumption
      <3> QED BY <3>1 DEF Conn
    <2>2. Line(ways[k][<<k, 1>>], floors) /\ ways[k][<<k, 1>>][1] = got[k]
      BY <2>1, WayParts DEF OrderInv, Lines
    <2> QED BY <2>2 DEF Line
  <1>3. DOMAIN got[k] = 1 .. Len(got[k])
    BY <1>1
  <1> QED BY <1>1, <1>2, <1>3 DEF Ordered, InTurn

\* Packets that a client sent over one connection of its own arrive in order and none of its
\* packets arrives twice, whatever connections are cut and replaced at both ends meanwhile
\* (relay_session and local_relay_client).
THEOREM PacketsArriveInOrder == Spec => []InOrder
  <1> QED BY RegisterInit, RegisterStep, OrderInit, OrderStep, OrderGot, PTL DEF Spec
=============================================================================
