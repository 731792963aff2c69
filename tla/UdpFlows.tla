------------------------------ MODULE UdpFlows ------------------------------
(***************************************************************************)
(* UDP flows and the port claim of one actor                               *)
(* (src/src/runtime/datagram.rs, src/src/runtime.rs).                      *)
(*                                                                         *)
(* A flow is a pair of addresses; the actor's table holds at most one      *)
(* UdpFlow for it, and the application a DatagramStream.  The two share a  *)
(* CancellationToken, which either cancels when it is dropped: a token is  *)
(* a generation of the flow, and a flow may be opened again while streams  *)
(* and queued commands of earlier generations are still around.            *)
(*                                                                         *)
(* The application runs in parallel with the actor.  Payloads are left     *)
(* out, and so is the queue of received packets.  A server (serving) opens *)
(* flows for packets that arrive, a client for its own dials.  Listener    *)
(* claims are modelled for one port, the local port of every flow.         *)
(***************************************************************************)
EXTENDS Naturals, FiniteSets

CONSTANTS
    Flow,         \* the flows
    Generation,   \* tokens (bounds the streams opened in a run)
    MaxFlows,     \* MAX_CONNECTIONS
    Backlog       \* the queue of a Listener

ASSUME UdpAssumption ==
    /\ MaxFlows \in Nat \ {0}
    /\ Backlog \in Nat \ {0}
    /\ IsFiniteSet(Flow) /\ Flow # {}

VARIABLES
    serving,   \* the actor is a server's: Actor.config is set
    flows,     \* flows[f]: the token in Actor.udp_flows, {} when absent
    idle,      \* idle[f]: the entry was not touched for udp_idle_timeout
    flow_of,   \* flow_of[g]: the flow generation g was opened for
    used,      \* generations opened so far
    closed,    \* cancelled tokens
    held,      \* streams an application holds
    claimed,   \* a Listener claims the port
    backlog,   \* streams queued in the Listener
    pending,   \* SendUdp commands on their way to the actor, by generation
    out        \* history: who sent each packet, and what the table held then

vars == <<serving, flows, idle, flow_of, used, closed, held, claimed, backlog, pending, out>>

Occupied == {f \in Flow : flows[f] # {}}

Shape ==
    /\ serving \in BOOLEAN
    /\ flows \in [Flow -> SUBSET Generation]
    /\ idle \in [Flow -> BOOLEAN]
    /\ flow_of \in [Generation -> Flow]
    /\ used \subseteq Generation /\ closed \subseteq used
    /\ held \subseteq used /\ backlog \subseteq used /\ pending \subseteq used
    /\ claimed \in BOOLEAN
    /\ out \subseteq [by : Generation, current : SUBSET Generation]

\* The type invariant, with the cap on flows and the bound of the backlog.
TypeOK ==
    /\ Shape
    /\ Cardinality(Occupied) <= MaxFlows
    /\ IsFiniteSet(backlog) /\ Cardinality(backlog) <= Backlog

-----------------------------------------------------------------------------
\* new_udp_flow(): a fresh token in the table and in a stream.
NewFlow(f, g) ==
    /\ g \in Generation \ used
    /\ used' = used \cup {g}
    /\ flow_of' = [flow_of EXCEPT ![g] = f]
    /\ flows' = [flows EXCEPT ![f] = {g}]
    /\ idle' = [idle EXCEPT ![f] = FALSE]

\* Where the stream of a new flow goes: to the Listener when the port is
\* claimed, dropped (and so cancelled) when its backlog is full; otherwise to
\* the handler.  The mutant leaves a stream open that found no room.
PlaceLeaky(g) ==
    IF ~ claimed
      THEN held' = held \cup {g} /\ UNCHANGED <<backlog, closed>>
    ELSE IF Cardinality(backlog) < Backlog
      THEN backlog' = backlog \cup {g} /\ UNCHANGED <<held, closed>>
    ELSE UNCHANGED <<held, backlog, closed>>

Place(g) ==
    IF ~ claimed
      THEN held' = held \cup {g} /\ UNCHANGED <<backlog, closed>>
    ELSE IF Cardinality(backlog) < Backlog
      THEN backlog' = backlog \cup {g} /\ UNCHANGED <<held, closed>>
    ELSE closed' = closed \cup {g} /\ UNCHANGED <<held, backlog>>

\* The table has room for the flow f, whose entry is vacant.
HasRoom(f) == Cardinality(Occupied \ {f}) < MaxFlows

\* udp_input(): a packet of f arrives.  A cancelled entry is removed; a vacant
\* one is opened by a server that has room and a handler; the entry is touched.
Input(f) ==
    /\ IF flows[f] \ closed # {}
         THEN /\ idle' = [idle EXCEPT ![f] = FALSE]
              /\ UNCHANGED <<flows, flow_of, used, closed, held, backlog>>
         ELSE \/ /\ serving /\ HasRoom(f)
                 /\ \E g \in Generation : NewFlow(f, g) /\ Place(g)
              \/ /\ ~ (serving /\ HasRoom(f) /\ claimed)
                 /\ flows' = [flows EXCEPT ![f] = {}]
                 /\ UNCHANGED <<idle, flow_of, used, closed, held, backlog>>
    /\ UNCHANGED <<serving, claimed, pending, out>>

\* Command::DialUdp of a client: a flow that is not in the table, unless the
\* table is full.  A caller that went away drops the stream at once.
Dial(f) ==
    /\ ~ serving
    /\ flows[f] = {} /\ HasRoom(f)
    /\ \E g \in Generation :
          /\ NewFlow(f, g)
          /\ \/ held' = held \cup {g} /\ UNCHANGED closed
             \/ closed' = closed \cup {g} /\ UNCHANGED held
    /\ UNCHANGED <<serving, claimed, backlog, pending, out>>

\* DatagramStream::send(): checked here, queued for the actor, checked again.
Submit(g) ==
    /\ g \in held \ closed
    /\ pending' = pending \cup {g}
    /\ UNCHANGED <<serving, flows, idle, flow_of, used, closed, held, claimed, backlog, out>>

\* udp_output(): whether a command of generation g still sends.  The mutant does
\* not look at the token again.
StillFlows(g) == flows[flow_of[g]] # {}

StillOpen(g) == g \notin closed /\ flows[flow_of[g]] # {}

Output(g) ==
    /\ g \in pending
    /\ pending' = pending \ {g}
    /\ IF StillOpen(g)
         THEN /\ idle' = [idle EXCEPT ![flow_of[g]] = FALSE]
              /\ out' = out \cup {[by |-> g, current |-> flows[flow_of[g]]]}
         ELSE UNCHANGED <<idle, out>>
    /\ UNCHANGED <<serving, flows, flow_of, used, closed, held, claimed, backlog>>

\* The application drops a stream: its token is cancelled.
Drop(g) ==
    /\ g \in held
    /\ held' = held \ {g}
    /\ closed' = closed \cup {g}
    /\ UNCHANGED <<serving, flows, idle, flow_of, used, claimed, backlog, pending, out>>

\* expire_udp(): entries that are cancelled or idle are removed, which cancels
\* their tokens.  The mutants look at the clock alone, and cancel nothing.
StaleIdle == {f \in Flow : flows[f] # {} /\ idle[f]}

Stale == {f \in Flow : flows[f] \cap closed # {} \/ (flows[f] # {} /\ idle[f])}

CancelledNone(fs) == {}

Cancelled(fs) == UNION {flows[f] : f \in fs}

Expire ==
    /\ Stale # {}
    /\ closed' = closed \cup Cancelled(Stale)
    /\ flows' = [f \in Flow |-> IF f \in Stale THEN {} ELSE flows[f]]
    /\ UNCHANGED <<serving, idle, flow_of, used, held, claimed, backlog, pending, out>>

\* udp_idle_timeout passes without a packet either way.
GrowIdle(f) ==
    /\ flows[f] # {} /\ ~ idle[f]
    /\ idle' = [idle EXCEPT ![f] = TRUE]
    /\ UNCHANGED <<serving, flows, flow_of, used, closed, held, claimed, backlog, pending, out>>

\* Command::Listen on a port nobody claims; Listener::accept(); the Listener is
\* dropped with the streams in its queue.
Listen ==
    /\ serving /\ ~ claimed
    /\ claimed' = TRUE
    /\ UNCHANGED <<serving, flows, idle, flow_of, used, closed, held, backlog, pending, out>>

Accept(g) ==
    /\ g \in backlog
    /\ backlog' = backlog \ {g}
    /\ held' = held \cup {g}
    /\ UNCHANGED <<serving, flows, idle, flow_of, used, closed, claimed, pending, out>>

DropListener ==
    /\ claimed
    /\ claimed' = FALSE
    /\ backlog' = {}
    /\ closed' = closed \cup backlog
    /\ UNCHANGED <<serving, flows, idle, flow_of, used, held, pending, out>>

-----------------------------------------------------------------------------
Init ==
    /\ serving \in BOOLEAN
    /\ flows = [f \in Flow |-> {}]
    /\ idle = [f \in Flow |-> FALSE]
    /\ flow_of = [g \in Generation |-> CHOOSE f \in Flow : TRUE]
    /\ used = {}
    /\ closed = {}
    /\ held = {}
    /\ claimed = FALSE
    /\ backlog = {}
    /\ pending = {}
    /\ out = {}

Next ==
    \/ Expire \/ Listen \/ DropListener
    \/ \E f \in Flow : Input(f) \/ Dial(f) \/ GrowIdle(f)
    \/ \E g \in Generation : Submit(g) \/ Output(g) \/ Drop(g) \/ Accept(g)

Spec == Init /\ [][Next]_vars

\* tick() runs expire_udp() every 2 ms, before it does anything else.
FairSpec == Spec /\ WF_vars(Expire)

-----------------------------------------------------------------------------
(***************************************************************************)
(* Properties                                                              *)
(***************************************************************************)

\* However often a flow is closed, expired and opened again, at most one stream
\* of it is open: every older one has been cancelled (UdpFlow::drop, udp_input,
\* DialUdp).
OneOpenStream ==
    \A g, h \in used \ closed : flow_of[g] = flow_of[h] => g = h

\* A packet leaves only for the generation in the table: a command queued by an
\* earlier stream of the same flow never sends into its successor, although
\* udp_output finds the entry by the flow alone.
SendsCurrent == \A o \in out : o.current = {o.by}

\* No open stream is lost: an application holds it or a Listener will hand it
\* over, so somebody can close it (udp_input, Listener).
OpenOwned == used \ closed \subseteq held \cup backlog

\* A generation that is cancelled, or idle for too long, leaves the table: it does
\* not count against MAX_CONNECTIONS for ever (expire_udp).
Released ==
    \A g \in Generation :
        LET f == flow_of[g]
            over == g \in closed \/ idle[f]
        IN g \in flows[f] /\ over ~> g \notin flows[f] \/ ~ over
=============================================================================
