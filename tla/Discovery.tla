------------------------------ MODULE Discovery ------------------------------
(***************************************************************************)
(* Direct-path discovery of the runtime actor (src/src/runtime.rs).        *)
(*                                                                         *)
(* Every node is one Actor.  A client's only peer is the server; the       *)
(* server gains a peer for each client it accepts.  Nodes tell each other  *)
(* their endpoints through the relay (call-me-maybe), probe the endpoints  *)
(* they were told with a random transaction id, and send packets straight  *)
(* to an endpoint only after a pong proved that the peer is there.  UDP    *)
(* may lose, duplicate, delay and reorder, so a packet once sent stays     *)
(* deliverable for ever; a call-me-maybe is delivered at most once, and    *)
(* may be lost by staying undelivered.  A node may have several addresses  *)
(* (interfaces, NAT mappings), the one socket of the Actor receives at all *)
(* of them and the network picks the one a packet leaves from; addresses   *)
(* come and go (a second network, NAT rebinding).                          *)
(*                                                                         *)
(* Sealing (seal_disco / open_disco) is modelled by the fields from and    *)
(* to of a packet, which no network event changes.  Endpoint holds usable  *)
(* endpoints only (usable_endpoint), as remember_endpoint admits no other. *)
(* Time is counted in steps of a few seconds; ProbeTtl and DirectTtl stand *)
(* for the 10 and 15 seconds of the code.                                  *)
(***************************************************************************)
EXTENDS Naturals, Sequences, FiniteSets, Functions

CONSTANTS
    Server,         \* the server's node key
    Clients,        \* the clients' node keys
    Public,         \* the nodes whose interface has the address others see
    Endpoint,       \* UDP endpoints
    Txid,           \* probe transaction ids (bounds the probes of a run)
    MaxPeers,       \* MAX_PEERS
    MaxCandidates,  \* MAX_CANDIDATES
    MaxProbes,      \* the 4096 outstanding probes of probe()
    ProbeTtl,       \* a pong is accepted this long after its probe
    DirectTtl,      \* a direct path is used this long after its pong
    MaxTime,        \* bound on the clock
    MaxMoves        \* bound on address changes

Node == {Server} \cup Clients

ASSUME DiscoveryAssumption ==
    /\ Server \notin Clients
    /\ MaxPeers \in Nat
    /\ MaxCandidates \in Nat \ {0}
    /\ MaxProbes \in Nat
    /\ ProbeTtl \in Nat
    /\ DirectTtl \in Nat
    /\ MaxTime \in Nat
    /\ MaxMoves \in Nat

VARIABLES
    now,         \* the clock
    addr,        \* addr[n]: the endpoints n sends and receives at (environment)
    held,        \* history: <<n, ep>> when ep has been one of n's addresses
    moves,       \* history: number of address changes
    peers,       \* peers[n]: keys of n's Actor.peers
    endpoints,   \* endpoints[n]: the addresses n announces
    candidates,  \* candidates[n][p]: Peer.candidates
    direct,      \* direct[n][p]: Peer.direct, {} when None
    probes,      \* probes[n]: Actor.probes
    used,        \* transaction ids drawn so far
    calls,       \* call-me-maybe messages inside the relay
    pings,       \* UDP pings sent so far
    pongs        \* UDP pongs sent so far

vars == <<now, addr, held, moves, peers, endpoints, candidates, direct,
          probes, used, calls, pings, pongs>>

Path == [ep : Endpoint, when : Nat]
Probe == [txid : Txid, peer : Node, ep : Endpoint, sent : Nat]
Ping == [txid : Txid, from : Node, to : Node, src : Endpoint,
         dst : Endpoint, at : Nat]
Call == [from : Node, to : Node, eps : Seq(Endpoint)]

Shape ==
    /\ now \in Nat
    /\ addr \in [Node -> SUBSET Endpoint]
    /\ held \subseteq Node \X Endpoint
    /\ moves \in Nat
    /\ peers \in [Node -> SUBSET Node]
    /\ endpoints \in [Node -> Seq(Endpoint)]
    /\ candidates \in [Node -> [Node -> Seq(Endpoint)]]
    /\ direct \in [Node -> [Node -> SUBSET Path]]
    /\ probes \in [Node -> SUBSET Probe]
    /\ used \subseteq Txid
    /\ calls \subseteq Call
    /\ pings \subseteq Ping
    /\ pongs \subseteq Ping

-----------------------------------------------------------------------------
\* remember_endpoint: a known endpoint changes nothing, a new one is appended,
\* and at the cap the oldest is forgotten.  The mutant forgets to evict.
RememberUncapped(list, ep) ==
    IF ep \in Range(list) THEN list ELSE Append(list, ep)

Remember(list, ep) ==
    IF ep \in Range(list) THEN list
    ELSE Append(IF Len(list) = MaxCandidates THEN Tail(list) ELSE list, ep)

\* The list kept from a call-me-maybe: its first MaxCandidates endpoints.  An
\* announced list was built by remember_endpoint, so it repeats nothing
\* (CandidateListsSound) and passing it through remember_endpoint again keeps
\* it as it is.
Announced(eps) ==
    SubSeq(eps, 1, IF Len(eps) < MaxCandidates THEN Len(eps) ELSE MaxCandidates)

\* probe(): draw a fresh transaction id for each target <<p, ep>>, record the
\* probe and send the ping, from whichever address the network picks.  When the
\* table is full the remaining targets are skipped.
StartProbes(n, targets) ==
    \E granted \in SUBSET targets : \E id \in Injection(granted, Txid \ used),
                                      src \in [granted -> addr[n]] :
        /\ Cardinality(probes[n]) + Cardinality(granted) <= MaxProbes
        /\ \/ granted = targets
           \/ Cardinality(probes[n]) + Cardinality(granted) = MaxProbes
        /\ used' = used \cup Range(id)
        /\ probes' = [probes EXCEPT ![n] = @ \cup
               {[txid |-> id[t], peer |-> t[1], ep |-> t[2], sent |-> now] : t \in granted}]
        /\ pings' = pings \cup
               {[txid |-> id[t], from |-> n, to |-> t[1], src |-> src[t],
                 dst |-> t[2], at |-> now] : t \in granted}

\* The endpoints advertise() probes: every candidate of every peer.  The mutant
\* probes the candidates of one peer on behalf of another.
AllTargetsMixed(n, ps) ==
    {t \in ps \X Endpoint : \E p \in ps : t[2] \in Range(candidates[n][p])}

AllTargets(n, ps) ==
    {t \in ps \X Endpoint : t[2] \in Range(candidates[n][t[1]])}

\* advertise(): a call-me-maybe with the own endpoints to each peer, then a
\* probe of every candidate.
Advertise(n, ps, eps) ==
    /\ calls' = calls \cup {[from |-> n, to |-> p, eps |-> eps] : p \in ps}
    /\ StartProbes(n, AllTargets(n, ps))

\* The periodic advertise of tick(); dialing and pinging advertise too.
PeriodicAdvertise(n) ==
    /\ peers[n] # {}
    /\ Advertise(n, peers[n], endpoints[n])
    /\ UNCHANGED <<now, addr, held, moves, peers, endpoints, candidates, direct, pongs>>

\* A meow from c accepted by the server: add_peer() unless the table is full,
\* then advertise().  A meow of a client it knows only advertises.
Register(c) ==
    /\ c \notin peers[Server]
    /\ Cardinality(peers[Server]) < MaxPeers
    /\ peers' = [peers EXCEPT ![Server] = @ \cup {c}]
    /\ Advertise(Server, peers'[Server], endpoints[Server])
    /\ UNCHANGED <<now, addr, held, moves, endpoints, candidates, direct, pongs>>

\* udp_packet(): a STUN answer tells n its public endpoint; a new one is
\* announced by the tick() that ends the same loop turn.
LearnEndpoint(n) ==
    /\ \E ep \in addr[n] \ Range(endpoints[n]) :
           endpoints' = [endpoints EXCEPT ![n] = Remember(@, ep)]
    /\ Advertise(n, peers[n], endpoints'[n])
    /\ UNCHANGED <<now, addr, held, moves, peers, candidates, direct, pongs>>

\* disco_packet() on a call-me-maybe: only from a peer, only over the relay.
\* The announced list replaces the candidates and each endpoint is probed.
ReceiveCall(n, m) ==
    /\ m \in calls
    /\ m.to = n
    /\ calls' = calls \ {m}
    /\ IF m.from \in peers[n]
         THEN /\ candidates' = [candidates EXCEPT ![n][m.from] = Announced(m.eps)]
              /\ StartProbes(n, {m.from} \X Range(Announced(m.eps)))
         ELSE UNCHANGED <<candidates, probes, used, pings>>
    /\ UNCHANGED <<now, addr, held, moves, peers, endpoints, direct, pongs>>

\* A UDP packet q reaches node n: it was sent to an address n has now and
\* sealed for n by a peer of n (udp_packet, disco_packet 1190-1201).
Arrives(n, q) ==
    /\ q.dst \in addr[n]
    /\ q.to = n
    /\ q.from \in peers[n]

\* disco_packet() on a ping: answer to the source; a source not yet known is
\* remembered and probed before it is trusted.
ReceivePing(n, q) ==
    /\ q \in pings
    /\ Arrives(n, q)
    /\ \E src \in addr[n] :
           pongs' = pongs \cup
               {[txid |-> q.txid, from |-> n, to |-> q.from, src |-> src,
                 dst |-> q.src, at |-> now]}
    /\ IF q.src \in Range(candidates[n][q.from])
         THEN UNCHANGED <<candidates, probes, used, pings>>
         ELSE /\ candidates' = [candidates EXCEPT ![n][q.from] = Remember(@, q.src)]
              /\ StartProbes(n, {<<q.from, q.src>>})
    /\ UNCHANGED <<now, addr, held, moves, peers, endpoints, direct, calls>>

\* The conditions under which a pong r answers the recorded probe pr.  The
\* mutants drop one each: the source check and the age check.
AnswersAnySource(r, pr) ==
    /\ pr.txid = r.txid
    /\ pr.peer = r.from
    /\ now - pr.sent < ProbeTtl

AnswersAnyAge(r, pr) ==
    /\ pr.txid = r.txid
    /\ pr.peer = r.from
    /\ pr.ep = r.src

Answers(r, pr) ==
    /\ pr.txid = r.txid
    /\ pr.peer = r.from
    /\ pr.ep = r.src
    /\ now - pr.sent < ProbeTtl

\* disco_packet() on a pong: the matching probe is consumed and its endpoint
\* becomes the direct path.
ReceivePong(n, r) ==
    /\ r \in pongs
    /\ Arrives(n, r)
    /\ \E pr \in probes[n] :
           /\ Answers(r, pr)
           /\ probes' = [probes EXCEPT ![n] = @ \ {pr}]
           /\ direct' = [direct EXCEPT ![n][r.from] = {[ep |-> pr.ep, when |-> now]}]
    /\ UNCHANGED <<now, addr, held, moves, peers, endpoints, candidates,
                   used, calls, pings, pongs>>

\* The 250 ms part of tick() drops probes that are too old to be answered.
Timers(n) ==
    /\ \E pr \in probes[n] : now - pr.sent >= ProbeTtl
    /\ probes' = [probes EXCEPT ![n] = {pr \in @ : now - pr.sent < ProbeTtl}]
    /\ UNCHANGED <<now, addr, held, moves, peers, endpoints, candidates, direct,
                   used, calls, pings, pongs>>

\* Environment: time passes; n gains an address nobody has, and may lose the
\* ones it had.
Elapse ==
    /\ now < MaxTime
    /\ now' = now + 1
    /\ UNCHANGED <<addr, held, moves, peers, endpoints, candidates, direct,
                   probes, used, calls, pings, pongs>>

Move(n, ep) ==
    /\ moves < MaxMoves
    /\ \A m \in Node : ep \notin addr[m]
    /\ \E kept \in SUBSET addr[n] : addr' = [addr EXCEPT ![n] = kept \cup {ep}]
    /\ held' = held \cup {<<n, ep>>}
    /\ moves' = moves + 1
    /\ UNCHANGED <<now, peers, endpoints, candidates, direct, probes, used,
                   calls, pings, pongs>>

-----------------------------------------------------------------------------
\* A node starts at one address.  An Actor knows the addresses of its
\* interfaces: that one when it is public, none behind a NAT.  A client starts
\* with the server as its peer.
Init ==
    /\ now = 0
    /\ \E first \in Injection(Node, Endpoint) :
           /\ addr = [n \in Node |-> {first[n]}]
           /\ held = {<<n, first[n]>> : n \in Node}
           /\ endpoints = [n \in Node |-> IF n \in Public THEN <<first[n]>> ELSE <<>>]
    /\ moves = 0
    /\ peers = [n \in Node |-> IF n = Server THEN {} ELSE {Server}]
    /\ candidates = [n \in Node |-> [p \in Node |-> <<>>]]
    /\ direct = [n \in Node |-> [p \in Node |-> {}]]
    /\ probes = [n \in Node |-> {}]
    /\ used = {}
    /\ calls = {}
    /\ pings = {}
    /\ pongs = {}

Next ==
    \/ Elapse
    \/ \E c \in Clients : Register(c)
    \/ \E n \in Node :
          \/ PeriodicAdvertise(n)
          \/ LearnEndpoint(n)
          \/ Timers(n)
          \/ \E m \in calls : ReceiveCall(n, m)
          \/ \E q \in pings : ReceivePing(n, q)
          \/ \E r \in pongs : ReceivePong(n, r)
          \/ \E ep \in Endpoint : Move(n, ep)

Spec == Init /\ [][Next]_vars

-----------------------------------------------------------------------------
\* send_packet(): the set holding the endpoint n sends packets for p to, empty
\* when they go through the relay.  The mutant never lets a path expire.
NextHopForever(n, p) == {d.ep : d \in direct[n][p]}

NextHop(n, p) == {d.ep : d \in {e \in direct[n][p] : now - e.when < DirectTtl}}

(***************************************************************************)
(* Properties                                                              *)
(***************************************************************************)

\* Whatever the network repeats or delays and wherever addresses move, a direct
\* path to p at ep was proven by p itself: n had sent a probe for p to ep, p
\* answered that very probe from ep, and the answer was taken less than ProbeTtl
\* after the probe left.
DirectProven ==
    \A n, p \in Node : \A d \in direct[n][p] :
        \E q \in pings, r \in pongs :
            /\ q.from = n /\ q.to = p /\ q.dst = d.ep
            /\ r.from = p /\ r.to = n /\ r.src = d.ep
            /\ r.txid = q.txid
            /\ q.at <= r.at /\ r.at <= d.when
            /\ d.when < q.at + ProbeTtl

\* After p has left an address, n keeps sending packets for p there for less
\* than ProbeTtl + DirectTtl: a packet goes to ep only while p was seen answering
\* from ep that recently, whatever old pongs the network still delivers.  After
\* that it falls back to the relay.
BlackholeBounded ==
    \A n, p \in Node : \A ep \in NextHop(n, p) :
        \E r \in pongs :
            /\ r.from = p /\ r.to = n /\ r.src = ep
            /\ now < r.at + ProbeTtl + DirectTtl

\* A probe for p only ever goes to an endpoint that has been p's own: endpoints
\* learned from one peer are never tried on behalf of another.
ProbesFollowThePeer ==
    \A q \in pings : <<q.to, q.dst>> \in held

\* Endpoint lists never repeat an entry and never exceed MAX_CANDIDATES, in the
\* tables and in the messages that fill them.
SoundList(list) ==
    /\ Len(list) <= MaxCandidates
    /\ \A i, j \in DOMAIN list : list[i] = list[j] => i = j

CandidateListsSound ==
    /\ \A n \in Node : SoundList(endpoints[n])
    /\ \A n, p \in Node : SoundList(candidates[n][p])
    /\ \A m \in calls : SoundList(m.eps)

\* The type invariant, with the caps.
TypeOK == Shape /\ CandidateListsSound
=============================================================================
