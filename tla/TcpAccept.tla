------------------------------ MODULE TcpAccept ------------------------------
(***************************************************************************)
(* How a server accepts TCP connections (src/src/runtime.rs): receive_ip() *)
(* looks at each SYN, makes a Link around a listening smoltcp socket for a *)
(* flow it does not know, and hands the packet to the stack; poll_links()  *)
(* starts the handler of an established link and gives up on links that    *)
(* stay half-open for 20 seconds.                                          *)
(*                                                                         *)
(* A dial stands for a flow: one client's address and port.  One served    *)
(* port is modelled, with a handler for every connection.  The stack is    *)
(* external: sockets live in numbered slots, a packet goes to the first    *)
(* slot that accepts it, a listening socket accepts any SYN for its port,  *)
(* and a reset during the handshake makes it listen again.  A SYN may be   *)
(* delayed or repeated.                                                    *)
(***************************************************************************)
EXTENDS Naturals, FiniteSets

CONSTANTS
    Dials,            \* the flows
    MaxConnections    \* MAX_CONNECTIONS

ASSUME AcceptAssumption == MaxConnections \in Nat \ {0}

VARIABLES
    stray,      \* whether a SYN may outlive its dial: the client gives up during
                \* the handshake, or the network delays a copy
    links,      \* the server's Actor.links
    sockets,    \* sockets[s]: the socket in slot s
    client,     \* client[d]: the dialing side of flow d
    with,       \* with[d]: the slot d is connected to, 0 when none
    handlers    \* history: what each handler was told, and whom it talks to

vars == <<stray, links, sockets, client, with, handlers>>

\* One slot more than the cap allows, so that exceeding the cap would show.
\* A listening socket has no remote.
Slot == 1 .. MaxConnections + 1
NoRemote == "none"
Socket == [state : {"Free", "Listen", "SynReceived", "Established", "Closed"},
           remote : Dials \cup {NoRemote}]
Link == [flow : Dials, slot : Slot, app : {"kept", "given"}, old : BOOLEAN]

Free == [state |-> "Free", remote |-> NoRemote]
Lowest(S) == CHOOSE s \in S : \A t \in S : s <= t

-----------------------------------------------------------------------------
\* A client dials: its socket sends SYNs.
Dial(d) ==
    /\ client[d] = "idle"
    /\ client' = [client EXCEPT ![d] = "syn"]
    /\ UNCHANGED <<stray, links, sockets, with, handlers>>

\* A client's link is gone: its dial was cancelled or its connection is over.
\* No reset is sent (poll_links removes an aborted socket in the same pass).
Leave(d) ==
    /\ client[d] = "established" \/ (stray /\ client[d] = "syn")
    /\ client' = [client EXCEPT ![d] = "gone"]
    /\ UNCHANGED <<stray, links, sockets, with, handlers>>

\* receive_ip(): whether a SYN of d gets a link.  The mutant drops a condition.
AdmitAgain(d) == Cardinality(links) < MaxConnections

Admit(d) ==
    /\ \A l \in links : l.flow # d
    /\ Cardinality(links) < MaxConnections

\* The slots that accept a SYN of d.
Accepting(socks, d) ==
    {s \in Slot : socks[s].state = "Listen" \/
                  (socks[s].state \in {"SynReceived", "Established"} /\ socks[s].remote = d)}

\* The stack takes the SYN of d: a listening socket starts the handshake, the
\* connection itself ignores it, and without either the client is refused.
TakeSyn(socks, d) ==
    IF Accepting(socks, d) = {}
      THEN /\ sockets' = socks
           /\ client' = [client EXCEPT ![d] = IF @ = "syn" THEN "gone" ELSE @]
      ELSE LET s == Lowest(Accepting(socks, d)) IN
           /\ sockets' = IF socks[s].state = "Listen"
                           THEN [socks EXCEPT ![s] = [state |-> "SynReceived", remote |-> d]]
                           ELSE socks
           /\ UNCHANGED client

\* A SYN of d reaches the server, which polls the stack before anything else.
ReceiveSyn(d) ==
    /\ client[d] = "syn" \/ (stray /\ client[d] = "gone")
    /\ IF Admit(d)
         THEN LET s == Lowest({t \in Slot : sockets[t].state = "Free"}) IN
              /\ links' = links \cup {[flow |-> d, slot |-> s, app |-> "kept", old |-> FALSE]}
              /\ TakeSyn([sockets EXCEPT ![s].state = "Listen"], d)
         ELSE UNCHANGED links /\ TakeSyn(sockets, d)
    /\ UNCHANGED <<stray, with, handlers>>

\* The SYN|ACK of slot s reaches the client, which is waiting for it or answers
\* with a reset.
SynAck(s) ==
    /\ sockets[s].state = "SynReceived"
    /\ LET d == sockets[s].remote IN
       \/ /\ client[d] = "syn"
          /\ client' = [client EXCEPT ![d] = "established"]
          /\ with' = [with EXCEPT ![d] = s]
          /\ UNCHANGED sockets
       \/ /\ client[d] = "gone" /\ with[d] # s
          /\ sockets' = [sockets EXCEPT ![s] = [state |-> "Listen", remote |-> NoRemote]]
          /\ UNCHANGED <<client, with>>
    /\ UNCHANGED <<stray, links, handlers>>

\* The client's ACK reaches slot s.
HandshakeAck(s) ==
    /\ sockets[s].state = "SynReceived"
    /\ with[sockets[s].remote] = s
    /\ sockets' = [sockets EXCEPT ![s].state = "Established"]
    /\ UNCHANGED <<stray, links, client, with, handlers>>

\* An accepted connection ends, in any way.
End(s) ==
    /\ sockets[s].state = "Established"
    /\ \E l \in links : l.slot = s /\ l.app = "given"
    /\ sockets' = [sockets EXCEPT ![s].state = "Closed"]
    /\ UNCHANGED <<stray, links, client, with, handlers>>

\* poll_links(): the handler of an established link starts with the addresses of
\* the link's flow (ConnectionInfo).
StartHandler(l) ==
    /\ sockets[l.slot].state = "Established" /\ l.app = "kept"
    /\ links' = (links \ {l}) \cup {[l EXCEPT !.app = "given"]}
    /\ handlers' = handlers \cup {[told |-> l.flow, remote |-> sockets[l.slot].remote]}
    /\ UNCHANGED <<stray, sockets, client, with>>

\* poll_links(): a link that closed, or stayed half-open for 20 seconds and is
\* aborted, is removed with its socket.  The mutant only removes closed ones.
OverClosed(l) == sockets[l.slot].state = "Closed"

Over(l) ==
    \/ sockets[l.slot].state = "Closed"
    \/ l.app = "kept" /\ l.old /\ sockets[l.slot].state # "Established"

RemoveLink(l) ==
    /\ Over(l)
    /\ links' = links \ {l}
    /\ sockets' = [sockets EXCEPT ![l.slot] = Free]
    /\ with' = [d \in Dials |-> IF with[d] = l.slot THEN 0 ELSE with[d]]
    /\ UNCHANGED <<stray, client, handlers>>

\* Link.started turns older than 20 seconds.
AgeLink(l) ==
    /\ l.app = "kept" /\ ~ l.old
    /\ links' = (links \ {l}) \cup {[l EXCEPT !.old = TRUE]}
    /\ UNCHANGED <<stray, sockets, client, with, handlers>>

-----------------------------------------------------------------------------
Init ==
    /\ stray \in BOOLEAN
    /\ links = {}
    /\ sockets = [s \in Slot |-> Free]
    /\ client = [d \in Dials |-> "idle"]
    /\ with = [d \in Dials |-> 0]
    /\ handlers = {}

Next ==
    \/ \E d \in Dials : Dial(d) \/ Leave(d) \/ ReceiveSyn(d)
    \/ \E s \in Slot : SynAck(s) \/ HandshakeAck(s) \/ End(s)
    \/ \E l \in links : StartHandler(l) \/ RemoveLink(l) \/ AgeLink(l)

Spec == Init /\ [][Next]_vars

\* The actor ticks and time passes, for the link in each slot.
FairSpec ==
    /\ Spec
    /\ \A s \in Slot :
          /\ WF_vars(\E l \in links : l.slot = s /\ (StartHandler(l) \/ RemoveLink(l)))
          /\ WF_vars(\E l \in links : l.slot = s /\ AgeLink(l))

-----------------------------------------------------------------------------
(***************************************************************************)
(* Properties                                                              *)
(***************************************************************************)

\* Links, flows and sockets stay one to one: a repeated or delayed SYN never
\* costs a second link or a second set of buffers, and no socket outlives its
\* link (receive_ip: the duplicate check; poll_links: the removal).  Half-open
\* links count against the cap.
LinksOneToOne ==
    /\ links \subseteq Link /\ sockets \in [Slot -> Socket]
    /\ Cardinality(links) <= MaxConnections
    /\ \A l, m \in links : (l.flow = m.flow \/ l.slot = m.slot) => l = m
    /\ {s \in Slot : sockets[s].state # "Free"} = {l.slot : l \in links}

\* "Authenticated metadata available while a TCP service handler runs": a
\* handler is told the flow its stream belongs to (poll_links, ConnectionInfo).
ToldTheRemote == \A h \in handlers : h.told = h.remote

\* As long as every SYN belongs to a dial under way, that is so.
ToldTheRemoteInOrder == ~ stray => ToldTheRemote

\* A half-open link is handed over or given up, so half-open connections cannot
\* use up the table (poll_links: the 20 second abort).
HalfOpenEnds ==
    \A s \in Slot : (\E l \in links : l.slot = s /\ l.app = "kept")
                      ~> ~ (\E l \in links : l.slot = s /\ l.app = "kept")
=============================================================================
