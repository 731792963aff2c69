----------------------------- MODULE DerpRelay ------------------------------
(***************************************************************************)
(* The DERP transport (relay_loop and relay_session in src/src/derp.rs)    *)
(* and the relay at its other end.                                         *)
(*                                                                         *)
(*   actor -> outq -> session -> up   -> handler --> rx of the receiver    *)
(*   actor <- inq  <- session <- down <- handler <-- rx                    *)
(*                                                                         *)
(* Connections of a client are numbered.  up and down stand for the bytes  *)
(* of a connection in its two directions together with the channel of the  *)
(* task that reads frames from it.  A connection is dialed, registered by  *)
(* the relay and only then answered; the client may give up waiting, and   *)
(* the relay's task register it later.  The relay is the local one of this *)
(* file, or one that goes on reading from a client while it writes to it,  *)
(* as hosted relays do.  Pings, health messages and oversized packets are  *)
(* left out.                                                               *)
(***************************************************************************)
EXTENDS Naturals, Sequences

CONSTANTS
    Client,      \* keys
    QueueCap,    \* the 256 packets of outgoing and incoming
    StreamCap,   \* frames a direction of a connection holds
    RelayCap,    \* the 256 packets the relay queues for a client
    MaxSends,    \* bound on the packets of a client
    MaxConns,    \* bound on its connections
    Scenario     \* which of both each client may use up, and who may leave

ASSUME RelayAssumption ==
    /\ QueueCap \in Nat \ {0} /\ StreamCap \in Nat \ {0} /\ RelayCap \in Nat \ {0}
    /\ MaxSends \in Nat
    /\ MaxConns \in Nat \ {0}
    /\ Scenario \subseteq [sends : [Client -> 0 .. MaxSends],
                           conns : [Client -> 1 .. MaxConns],
                           leavers : SUBSET Client]

VARIABLES
    limit,      \* the scenario of a behaviour
    local,      \* the relay is the local one
    sent,       \* packets a client has sent
    closed,     \* clients whose actor has ended
    outq, inq,  \* the queues between actor and session
    conns,      \* connections a client has had
    session,    \* the one it uses, 0 while it reconnects or waits for the answer
    busy,       \* what its session waits to do
    up, down,   \* frames in each direction of a connection
    broken,     \* connections that were cut or given up
    handler,    \* the relay's task for a connection
    rx,         \* packets queued for it
    writing,    \* the packet it is writing
    clients,    \* the relay's table: a connection of each client, or 0
    last,       \* history: the connection of a client that was registered last
    got         \* packets an actor received

client == <<sent, closed, outq, inq, session, busy, got>>
relay == <<limit, local, handler, rx, writing, clients, last>>
vars == <<client, relay, conns, up, down, broken>>

Conn == Client \X (1 .. MaxConns)

\* via is the connection of the sender that a packet took, 0 before.
Packet == [from : Client, to : Client, n : 1 .. MaxSends, via : 0 .. MaxConns]

Idle == <<"idle">>

Current(k) == <<k, session[k]>>
Newest(k) == <<k, conns[k]>>

-----------------------------------------------------------------------------
(* The client.                                                             *)

\* Room in a bounded queue.
HasRoom(q, cap) == Len(q) < cap

\* The actor sends a packet with try_send; without room it would be dropped.
Submit(k, to) ==
    /\ k \notin closed /\ sent[k] < limit.sends[k]
    /\ HasRoom(outq[k], QueueCap)
    /\ sent' = [sent EXCEPT ![k] = @ + 1]
    /\ outq' = [outq EXCEPT ![k] =
                  Append(@, [from |-> k, to |-> to, n |-> sent[k] + 1, via |-> 0])]
    /\ UNCHANGED <<closed, inq, session, busy, got, relay, conns, up, down, broken>>

\* A branch of the session's select: the next packet to send.
SessionTake(k) ==
    /\ session[k] # 0 /\ busy[k] = Idle /\ outq[k] # <<>>
    /\ outq' = [outq EXCEPT ![k] = Tail(@)]
    /\ busy' = [busy EXCEPT ![k] = <<"write", [Head(outq[k]) EXCEPT !.via = session[k]]>>]
    /\ UNCHANGED <<sent, closed, inq, session, got, relay, conns, up, down, broken>>

\* write_frame.
SessionWrite(k) ==
    /\ session[k] # 0 /\ busy[k][1] = "write"
    /\ HasRoom(up[Current(k)], StreamCap)
    /\ up' = [up EXCEPT ![Current(k)] = Append(@, busy[k][2])]
    /\ busy' = [busy EXCEPT ![k] = Idle]
    /\ UNCHANGED <<sent, closed, outq, inq, session, got, relay, conns, down, broken>>

\* The connections whose frames reach the session: its own, since the task that read
\* from an earlier one was aborted.  The mutant leaves those tasks running.
StreamsEver(k) == 1 .. conns[k]

Streams(k) == {session[k]}

\* Another branch: the next frame.
SessionReceive(k) ==
    /\ session[k] # 0 /\ busy[k] = Idle
    /\ \E i \in Streams(k) :
        /\ down[<<k, i>>] # <<>>
        /\ down' = [down EXCEPT ![<<k, i>>] = Tail(@)]
        /\ busy' = [busy EXCEPT ![k] = <<"pass", Head(down[<<k, i>>])>>]
    /\ UNCHANGED <<sent, closed, outq, inq, session, got, relay, conns, up, broken>>

\* incoming.send: the session waits for the actor.
SessionPass(k) ==
    /\ session[k] # 0 /\ busy[k][1] = "pass"
    /\ HasRoom(inq[k], QueueCap)
    /\ inq' = [inq EXCEPT ![k] = Append(@, busy[k][2])]
    /\ busy' = [busy EXCEPT ![k] = Idle]
    /\ UNCHANGED <<sent, closed, outq, session, got, relay, conns, up, down, broken>>

ActorReceive(k) ==
    /\ inq[k] # <<>>
    /\ inq' = [inq EXCEPT ![k] = Tail(@)]
    /\ got' = [got EXCEPT ![k] = Append(@, Head(inq[k]))]
    /\ UNCHANGED <<sent, closed, outq, session, busy, relay, conns, up, down, broken>>

\* A cut connection shows while the session waits for frames or writes one, not
\* while it waits for the actor.  The mutant misses it while writing.
NoticesIdle(k) == busy[k] = Idle

Notices(k) == busy[k][1] # "pass"

\* The session ends with an error; the packet it was writing is lost.
SessionEnds(k) ==
    /\ session[k] # 0 /\ Current(k) \in broken /\ Notices(k)
    /\ session' = [session EXCEPT ![k] = 0]
    /\ busy' = [busy EXCEPT ![k] = Idle]
    /\ UNCHANGED <<sent, closed, outq, inq, got, relay, conns, up, down, broken>>

\* The client reconnects (open_region) once its last connection is gone.
Dial(k) ==
    /\ k \notin closed /\ session[k] = 0 /\ Newest(k) \in broken
    /\ conns[k] < limit.conns[k]
    /\ conns' = [conns EXCEPT ![k] = @ + 1]
    /\ handler' = [handler EXCEPT ![<<k, conns[k] + 1>>] = "greeting"]
    /\ UNCHANGED <<client, limit, local, rx, writing, clients, last, up, down, broken>>

\* The relay's answer: a session begins.
Answer(k) ==
    /\ k \notin closed /\ session[k] = 0 /\ Newest(k) \notin broken
    /\ handler[Newest(k)] = "running"
    /\ session' = [session EXCEPT ![k] = conns[k]]
    /\ UNCHANGED <<sent, closed, outq, inq, busy, got, relay, conns, up, down, broken>>

\* The actor ends and takes its connection along.
Close(k) ==
    /\ k \in limit.leavers \ closed
    /\ closed' = closed \cup {k}
    /\ session' = [session EXCEPT ![k] = 0]
    /\ busy' = [busy EXCEPT ![k] = Idle]
    /\ outq' = [outq EXCEPT ![k] = <<>>]
    /\ inq' = [inq EXCEPT ![k] = <<>>]
    /\ broken' = broken \cup {Newest(k)}
    /\ UNCHANGED <<sent, got, relay, conns, up, down>>

\* The network cuts a connection that can still be replaced, or its client gives up
\* waiting for the answer.
Cut(k) ==
    /\ k \notin closed /\ conns[k] < limit.conns[k]
    /\ broken' = broken \cup {Newest(k)}
    /\ UNCHANGED <<client, relay, conns, up, down>>

-----------------------------------------------------------------------------
(* The relay's task for a connection (local_relay_client).                 *)

\* It has the client's info, however late, and enters the connection into the table.
Register(c) ==
    /\ handler[c] = "greeting"
    /\ handler' = [handler EXCEPT ![c] = "running"]
    /\ clients' = [clients EXCEPT ![c[1]] = c[2]]
    /\ last' = [last EXCEPT ![c[1]] = c[2]]
    /\ UNCHANGED <<client, limit, local, rx, writing, conns, up, down, broken>>

\* It does not get the info.
Reject(c) ==
    /\ handler[c] = "greeting" /\ c \in broken
    /\ handler' = [handler EXCEPT ![c] = "over"]
    /\ UNCHANGED <<client, limit, local, rx, writing, clients, last, conns, up, down, broken>>

\* Whether it reads the next frame.
Reads(c) == handler[c] = "running" /\ (local => writing[c] = Idle)

\* It passes a packet to the receiver's queue with try_send.
HandlerForward(c) ==
    /\ Reads(c) /\ up[c] # <<>>
    /\ LET p == Head(up[c])
           d == <<p.to, clients[p.to]>>
       IN rx' = IF clients[p.to] # 0 /\ HasRoom(rx[d], RelayCap)
                THEN [rx EXCEPT ![d] = Append(@, p)] ELSE rx
    /\ up' = [up EXCEPT ![c] = Tail(@)]
    /\ UNCHANGED <<client, limit, local, handler, writing, clients, last, conns, down, broken>>

HandlerTake(c) ==
    /\ handler[c] = "running" /\ writing[c] = Idle /\ rx[c] # <<>>
    /\ rx' = [rx EXCEPT ![c] = Tail(@)]
    /\ writing' = [writing EXCEPT ![c] = <<"write", Head(rx[c])>>]
    /\ UNCHANGED <<client, limit, local, handler, clients, last, conns, up, down, broken>>

HandlerWrite(c) ==
    /\ handler[c] = "running" /\ writing[c] # Idle
    /\ HasRoom(down[c], StreamCap)
    /\ down' = [down EXCEPT ![c] = Append(@, writing[c][2])]
    /\ writing' = [writing EXCEPT ![c] = Idle]
    /\ UNCHANGED <<client, limit, local, handler, rx, clients, last, conns, up, broken>>

\* Reading or writing fails; frames not read by then are lost.
HandlerEnds(c) ==
    /\ handler[c] = "running" /\ c \in broken
    /\ handler' = [handler EXCEPT ![c] = "leaving"]
    /\ writing' = [writing EXCEPT ![c] = Idle]
    /\ UNCHANGED <<client, limit, local, rx, clients, last, conns, up, down, broken>>

\* The table entry after a task is gone.  The mutant removes whatever is there.
RemovedAny(c) == 0

Removed(c) == IF clients[c[1]] = c[2] THEN 0 ELSE clients[c[1]]

\* Some time later it takes the lock of the table and cleans up.
Cleanup(c) ==
    /\ handler[c] = "leaving"
    /\ handler' = [handler EXCEPT ![c] = "over"]
    /\ clients' = [clients EXCEPT ![c[1]] = Removed(c)]
    /\ rx' = [rx EXCEPT ![c] = <<>>]
    /\ UNCHANGED <<client, limit, local, writing, last, conns, up, down, broken>>

-----------------------------------------------------------------------------
Init ==
    /\ limit \in Scenario /\ local \in BOOLEAN
    /\ sent = [k \in Client |-> 0] /\ closed = {}
    /\ outq = [k \in Client |-> <<>>] /\ inq = [k \in Client |-> <<>>]
    /\ conns = [k \in Client |-> 1] /\ session = [k \in Client |-> 1]
    /\ clients = [k \in Client |-> 1] /\ last = [k \in Client |-> 1]
    /\ busy = [k \in Client |-> Idle]
    /\ up = [c \in Conn |-> <<>>] /\ down = [c \in Conn |-> <<>>]
    /\ broken = {}
    /\ handler = [c \in Conn |-> IF c[2] = 1 THEN "running" ELSE "none"]
    /\ rx = [c \in Conn |-> <<>>]
    /\ writing = [c \in Conn |-> Idle]
    /\ got = [k \in Client |-> <<>>]

Progress ==
    \/ \E k \in Client :
        \/ SessionTake(k) \/ SessionWrite(k) \/ SessionReceive(k) \/ SessionPass(k)
        \/ ActorReceive(k) \/ SessionEnds(k) \/ Dial(k) \/ Answer(k)
    \/ \E c \in Conn :
        \/ Register(c) \/ Reject(c) \/ HandlerForward(c) \/ HandlerTake(c)
        \/ HandlerWrite(c) \/ HandlerEnds(c) \/ Cleanup(c)

Next ==
    \/ Progress
    \/ \E k \in Client :
        \/ \E to \in Client \ {k} : Submit(k, to)
        \/ Close(k) \/ Cut(k)

Spec == Init /\ [][Next]_vars

\* The tasks of clients and relay run, the actor receives, a cut connection is noticed
\* at both ends and a reconnection is answered at last.  One condition is enough:
\* only finitely many of these steps fit into a behaviour.
FairSpec == Spec /\ WF_vars(Progress)

-----------------------------------------------------------------------------
(***************************************************************************)
(* Properties                                                              *)
(***************************************************************************)

\* The table holds the connection of a client that was registered last until that one's
\* task has cleaned up, and nothing afterwards: the late cleanup of a connection does not
\* remove one that was registered after it ("current.same_channel").
RegistrationStands ==
    \A k \in Client :
        clients[k] = IF handler[<<k, last[k]>>] = "over" THEN 0 ELSE last[k]

\* Datagram channels survive reconnections: packets that a client sent over one
\* connection arrive in order and at most once, although receivers reconnect and old
\* connections of both linger.
InOrder ==
    \A k \in Client : got[k] \in Seq(Packet) /\ \A i, j \in DOMAIN got[k] :
        i < j /\ got[k][i].from = got[k][j].from =>
            /\ got[k][i].n # got[k][j].n
            /\ got[k][i].via = got[k][j].via => got[k][i].n < got[k][j].n

\* A client and the local relay's task for it each wait for the other to read.
Cycle(k) ==
    /\ local /\ session[k] # 0 /\ busy[k][1] = "write" /\ writing[Current(k)] # Idle
    /\ Len(up[Current(k)]) = StreamCap /\ Len(down[Current(k)]) = StreamCap

\* Whatever an actor has queued leaves the queue, across reconnections, unless its
\* session is caught with the local relay in the cycle above.
QueueMoves ==
    \A k \in Client : (outq[k] # <<>>) ~> (outq[k] = <<>> \/ []Cycle(k))

\* "Datagram channels survive relay reconnections": a client whose connection to the local
\* relay remains can be sent packets over it, sooner or later.
Connected(k) == local /\ session[k] # 0 /\ Current(k) \notin broken

ChannelsSurvive ==
    \A k \in Client : <>[]Connected(k) => <>[](clients[k] = session[k])
=============================================================================
