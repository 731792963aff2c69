----------------------------- MODULE Membership -----------------------------
(***************************************************************************)
(* How clients join a server (src/src/runtime.rs): a client's ping() sends *)
(* a meow message through the relay, the server checks the sender against  *)
(* its allowlist, adds a WireGuard peer and acknowledges.  disco_ping()    *)
(* waits for the pong of its own transaction instead.                      *)
(*                                                                         *)
(* A call is one ping() or disco_ping() of a client; its transaction id is *)
(* its own.  The caller runs in parallel with the client's actor: it may   *)
(* go away, or stop waiting after ten seconds, at any time.  The relay     *)
(* loses and reorders messages; the server may restart, which empties its  *)
(* peer table and takes the allowlist back to the configured one.          *)
(***************************************************************************)
EXTENDS Naturals, FiniteSets

CONSTANTS
    Client,       \* node keys of the clients
    Call,         \* the calls of a run
    Lists,        \* the allowlists a server may be configured with
    MaxPeers,     \* MAX_PEERS
    MaxPings,     \* MAX_PENDING_PINGS
    MaxRestarts   \* bound on the server's restarts

ASSUME MembershipAssumption ==
    /\ Call \subseteq [by : Client, disco : BOOLEAN, n : Nat]
    /\ Lists \subseteq SUBSET Client
    /\ MaxRestarts \in Nat
    /\ MaxPeers \in Nat \ {0} /\ MaxPings \in Nat \ {0}

VARIABLES
    configured,   \* ServerConfig.allowed_clients at the start
    patient,      \* only meow pings are made, and nobody stops waiting for one
    allowed,      \* the server's allowed_clients
    peers,        \* the server's Actor.peers
    restarts,     \* restarts of the server so far
    caller,       \* caller[p]: what became of call p
    commands,     \* Command::Ping on their way to the client's actor
    pings,        \* the actors' PendingPing entries
    wire,         \* messages the relay holds
    registered,   \* history: clients that were peers at some time
    heard         \* history: disco pings the server answered

vars == <<configured, patient, allowed, peers, restarts, caller, commands,
          pings, wire, registered, heard>>

Message == ({"meow", "ack"} \X Client) \cup ({"ping", "pong"} \X Call)

\* The pending pings of client c, and those of them whose caller still waits.
Of(c) == {p \in pings : p.by = c}
Waiting(c) == {p \in Of(c) : caller[p] = "waiting"}

Shape ==
    /\ configured \subseteq Client /\ allowed \subseteq Client
    /\ patient \in BOOLEAN
    /\ peers \subseteq Client /\ registered \subseteq Client
    /\ restarts \in 0 .. MaxRestarts
    /\ caller \in [Call -> {"idle", "waiting", "ok", "expired", "refused", "gone"}]
    /\ commands \subseteq Call /\ pings \subseteq Call /\ heard \subseteq Call
    /\ wire \subseteq Message

\* The type invariant, with the caps on peers and pending pings.
TypeOK ==
    /\ Shape
    /\ IsFiniteSet(peers) /\ Cardinality(peers) <= MaxPeers
    /\ \A c \in Client : IsFiniteSet(Of(c)) /\ Cardinality(Of(c)) <= MaxPings

-----------------------------------------------------------------------------
\* do_ping(): a call queues its command; it stops waiting after ten seconds, or
\* is dropped.
Ask(p) ==
    /\ caller[p] = "idle" /\ ~ (patient /\ p.disco)
    /\ caller' = [caller EXCEPT ![p] = "waiting"]
    /\ commands' = commands \cup {p}
    /\ UNCHANGED <<configured, patient, allowed, peers, restarts, pings, wire,
                   registered, heard>>

GiveUp(p) ==
    /\ ~ patient /\ caller[p] = "waiting"
    /\ caller' = [caller EXCEPT ![p] = "gone"]
    /\ UNCHANGED <<configured, patient, allowed, peers, restarts, commands, pings,
                   wire, registered, heard>>

\* send_ping(): the message that asks for call p.
Request(p) == IF p.disco THEN <<"ping", p>> ELSE <<"meow", p.by>>

\* Command::Ping: the entries that count against MAX_PENDING_PINGS.
Kept(c) == Waiting(c)

\* Whether one more fits.
Fits(c) == Cardinality(Kept(c)) < MaxPings

TakePing(p) ==
    /\ p \in commands
    /\ commands' = commands \ {p}
    /\ \/ /\ caller[p] # "waiting"
          /\ UNCHANGED <<caller, pings, wire>>
       \/ /\ caller[p] = "waiting" /\ ~ Fits(p.by)
          /\ pings' = (pings \ Of(p.by)) \cup Kept(p.by)
          /\ caller' = [caller EXCEPT ![p] = "refused"]
          /\ UNCHANGED wire
       \/ /\ caller[p] = "waiting" /\ Fits(p.by)
          /\ pings' = (pings \ Of(p.by)) \cup Kept(p.by) \cup {p}
          /\ wire' = wire \cup {Request(p)}
          /\ UNCHANGED caller
    /\ UNCHANGED <<configured, patient, allowed, peers, restarts, registered, heard>>

\* tick(), every 250 ms: entries without a caller go, those older than ten seconds
\* fail, and those last sent a second ago (due) are sent again.  The mutants never
\* send again, keep what has failed, and keep what has no caller.
ResentNone(due) == {}

Resent(due) == {Request(p) : p \in due}

SurvivorsFailed(c, old) == Waiting(c)

SurvivorsGone(c, old) == Of(c) \ old

Survivors(c, old) == Waiting(c) \ old

Tick(c, old, due) ==
    /\ old \subseteq Waiting(c) /\ due \subseteq Survivors(c, old)
    /\ patient => old = {}
    /\ pings' = (pings \ Of(c)) \cup Survivors(c, old)
    /\ caller' = [p \in Call |-> IF p \in old THEN "expired" ELSE caller[p]]
    /\ wire' = wire \cup Resent(due)
    /\ UNCHANGED <<configured, patient, allowed, peers, restarts, commands,
                   registered, heard>>

Timers(c) == \E old, due \in SUBSET Of(c) : Tick(c, old, due)

\* The server's answer to a meow of c: whether c may join, and whether the table
\* takes it (add_peer).  The mutants forget the list, and the cap.
MayJoinAll(c) == TRUE

MayJoin(c) == allowed = {} \/ c \in allowed

AddedAlways(c) == peers \cup {c}

Added(c) ==
    IF c \in peers \/ Cardinality(peers) < MaxPeers THEN peers \cup {c} ELSE peers

\* Whether the meow of c is acknowledged, with the table it leaves.  The mutant
\* acknowledges before it looks at the table.
AcknowledgedEarly(c, table) == TRUE

Acknowledged(c, table) == c \in table

\* incoming(), server: a meow of c.
ReceiveMeow(c) ==
    /\ <<"meow", c>> \in wire
    /\ peers' = IF MayJoin(c) THEN Added(c) ELSE peers
    /\ wire' = (wire \ {<<"meow", c>>})
                  \cup (IF MayJoin(c) /\ Acknowledged(c, peers') THEN {<<"ack", c>>} ELSE {})
    /\ registered' = registered \cup peers'
    /\ UNCHANGED <<configured, patient, allowed, restarts, caller, commands, pings, heard>>

\* incoming(), client: an acknowledgement resolves every pending meow ping of c.
ReceiveAck(c) ==
    /\ <<"ack", c>> \in wire
    /\ wire' = wire \ {<<"ack", c>>}
    /\ pings' = {p \in pings : p.by # c \/ p.disco}
    /\ caller' = [p \in Call |-> IF p \in Waiting(c) /\ ~ p.disco THEN "ok" ELSE caller[p]]
    /\ UNCHANGED <<configured, patient, allowed, peers, restarts, commands,
                   registered, heard>>

\* disco_packet(): the server answers a ping of a peer; a client matches the pong
\* with the pending ping of that transaction.
ReceivePing(p) ==
    /\ <<"ping", p>> \in wire
    /\ wire' = (wire \ {<<"ping", p>>})
                  \cup (IF p.by \in peers THEN {<<"pong", p>>} ELSE {})
    /\ heard' = IF p.by \in peers THEN heard \cup {p} ELSE heard
    /\ UNCHANGED <<configured, patient, allowed, peers, restarts, caller, commands,
                   pings, registered>>

Matches(p) == Of(p.by) \cap {p}

ReceivePong(p) ==
    /\ <<"pong", p>> \in wire
    /\ wire' = wire \ {<<"pong", p>>}
    /\ pings' = pings \ Matches(p)
    /\ caller' = [q \in Call |->
                     IF q \in Matches(p) /\ caller[q] = "waiting" THEN "ok" ELSE caller[q]]
    /\ UNCHANGED <<configured, patient, allowed, peers, restarts, commands,
                   registered, heard>>

\* Command::Allow.
Allow(c) ==
    /\ allowed' = allowed \cup {c}
    /\ UNCHANGED <<configured, patient, peers, restarts, caller, commands, pings,
                   wire, registered, heard>>

\* A full relay queue, or a reconnecting relay, loses a message.
Lose(m) ==
    /\ m \in wire
    /\ wire' = wire \ {m}
    /\ UNCHANGED <<configured, patient, allowed, peers, restarts, caller, commands,
                   pings, registered, heard>>

\* The server process starts again: Actor::new with the configured list.
Restart ==
    /\ restarts < MaxRestarts
    /\ restarts' = restarts + 1
    /\ allowed' = configured
    /\ peers' = {}
    /\ UNCHANGED <<configured, patient, caller, commands, pings, wire, registered, heard>>

-----------------------------------------------------------------------------
Init ==
    /\ configured \in Lists
    /\ patient \in BOOLEAN
    /\ allowed = configured
    /\ peers = {}
    /\ restarts = 0
    /\ caller = [p \in Call |-> "idle"]
    /\ commands = {}
    /\ pings = {}
    /\ wire = {}
    /\ registered = {}
    /\ heard = {}

Next ==
    \/ Restart
    \/ \E c \in Client : Timers(c) \/ ReceiveMeow(c) \/ ReceiveAck(c) \/ Allow(c)
    \/ \E p \in Call :
          Ask(p) \/ GiveUp(p) \/ TakePing(p) \/ ReceivePing(p) \/ ReceivePong(p)
    \/ \E m \in wire : Lose(m)

Spec == Init /\ [][Next]_vars

\* Both actors run, every pending ping comes due again and again, and a message
\* that is sent again and again gets through.
FairSpec ==
    /\ Spec
    /\ \A p \in Call : WF_vars(TakePing(p))
    /\ \A p \in Call : WF_vars(\E old, due \in SUBSET Of(p.by) :
                                   p \in due /\ Tick(p.by, old, due))
    /\ \A c \in Client : WF_vars(Timers(c))
    /\ \A c \in Client : SF_vars(ReceiveMeow(c)) /\ SF_vars(ReceiveAck(c))

-----------------------------------------------------------------------------
(***************************************************************************)
(* Properties                                                              *)
(***************************************************************************)

\* A server configured with an allowlist never has a peer outside the list,
\* whatever was allowed since and however often it restarted (incoming, Allow).
OnlyAllowedPeers == configured # {} => peers \subseteq allowed

\* A call that succeeds was earned: a meow ping's client was taken as a peer (and
\* still is, unless the server restarted), and a disco ping was itself answered.
\* Client::connect() relies on the first: a full table must not look like success.
AnswersAreEarned ==
    \A p \in Call : caller[p] = "ok" =>
        IF p.disco THEN p \in heard
                   ELSE p.by \in registered /\ (restarts = 0 => p.by \in peers)

\* A call that waits has one place, in the queue of commands or in the actor's list,
\* where its answer or its timeout finds it; a call that was answered, refused or timed
\* out has none, whatever answers are still to come (Command::Ping, tick, incoming,
\* disco_packet).
PendingOnce ==
    \A p \in Call :
        /\ caller[p] = "waiting" => p \in commands \cup pings
        /\ p \in commands \cup pings => caller[p] \in {"waiting", "gone"}
        /\ p \notin commands \cap pings

\* "Each actor caps ... outstanding pings at 128; cancellation releases pending
\* operations": the places of calls whose callers went away are given back, although no
\* answer and no other call comes.
CancellationReleases ==
    []<>(\A p \in Call : caller[p] = "gone" => p \notin commands \cup pings)

\* "Meow messages retry because a relay can drop traffic while the other peer is
\* connecting": a ping whose caller has patience is answered, unless the server
\* does not take the client.
MeowGetsThrough ==
    \A p \in {q \in Call : ~ q.disco} :
        (patient /\ p \in pings)
            ~> \/ caller[p] = "ok"
               \/ ~ MayJoin(p.by)
               \/ p.by \notin peers /\ Cardinality(peers) >= MaxPeers
=============================================================================
