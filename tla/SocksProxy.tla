----------------------------- MODULE SocksProxy -----------------------------
(***************************************************************************)
(* The SOCKS proxy (src/src/cli/clients.rs): connections and one UDP       *)
(* association, which share a table of clients by tailcat address.  An     *)
(* association starts a task, here a route, for each destination of the    *)
(* packets it is sent.                                                     *)
(*                                                                         *)
(* Payloads, name lookup and the end of the proxy are left out.  A task    *)
(* that waits for a client, a connection or a route, is a getter.          *)
(***************************************************************************)
EXTENDS Naturals, FiniteSets

CONSTANTS
    Connection,      \* SOCKS connections with CONNECT
    Destination,     \* destinations of UDP packets
    Source,          \* local addresses that UDP packets come from
    Address,         \* tailcat addresses
    Nobody,          \* no getter, no source
    MaxTasks,        \* bound on the routes ever started
    RouteCapacity,   \* limit on the routes in the table (256 in the code)
    RouteQueue       \* capacity of a route's queue (32)

Route == 1 .. MaxTasks
Getter == Connection \cup Route

ASSUME SocksAssumption ==
    /\ Nobody \notin Getter \cup Source
    /\ Connection \cap Route = {}
    /\ {MaxTasks, RouteCapacity, RouteQueue} \subseteq Nat

VARIABLES
    place,       \* place[g]: where a getter is
    wants,       \* wants[g]: the address whose client it needs
    lock,        \* the holder of the mutex of SocksClients.clients
    clients,     \* clients[a]: the clients for a that exist, in the table or being connected
    cached,      \* SocksClients.clients: the addresses in the table
    association, \* whether the UDP association is open, and its source
    table,       \* routes: the destinations in the table, with their routes
    route,       \* route[n]: a route's destination, the source it replies to, its queue
    unserved     \* history: a packet was dropped although there was room for it

cacheVars == <<lock, clients, cached>>
udpVars == <<association, table, route, unserved>>
socksVars == <<place, wants, cacheVars, udpVars>>

NotRouted == [to |-> Nobody, from |-> Nobody, queued |-> 0]

Started == {n \in Route : place[n] # "idle"}
Running(n) == place[n] \notin {"idle", "over"}

Moves(g, p) == place' = [place EXCEPT ![g] = p]

-----------------------------------------------------------------------------
\* socks_connection(): the greeting and the request, in 15 seconds.
Accept(c) ==
    /\ place[c] = "idle"
    /\ Moves(c, "negotiate")
    /\ UNCHANGED <<wants, cacheVars, udpVars>>

Request(c, a) ==
    /\ place[c] = "negotiate"
    /\ Moves(c, "wait")
    /\ wants' = [wants EXCEPT ![c] = a]
    /\ UNCHANGED <<cacheVars, udpVars>>

NegotiationFails(c) ==
    /\ place[c] = "negotiate"
    /\ Moves(c, "over")
    /\ UNCHANGED <<wants, cacheVars, udpVars>>

\* SocksClients.get(): the mutex stays locked while a new client connects.  The mutant
\* unlocks it first.
Unlocked(g) == Nobody

Locked(g) == g

Get(g) ==
    /\ place[g] = "wait" /\ lock = Nobody
    /\ IF wants[g] \in cached
       THEN Moves(g, "dial") /\ UNCHANGED cacheVars
       ELSE /\ Moves(g, "connect")
            /\ lock' = Locked(g)
            /\ clients' = [clients EXCEPT ![wants[g]] = @ + 1]
            /\ UNCHANGED cached
    /\ UNCHANGED <<wants, udpVars>>

Connected(g) ==
    /\ place[g] = "connect"
    /\ Moves(g, "dial")
    /\ lock' = Nobody
    /\ cached' = cached \cup {wants[g]}
    /\ UNCHANGED <<wants, clients, udpVars>>

\* A task that ends or is dropped while its client connects drops the client and unlocks.
Connecting(gs) == {g \in gs : place[g] = "connect"}

Dropped(gs) ==
    /\ lock' = IF lock \in gs THEN Nobody ELSE lock
    /\ clients' = [a \in Address |->
                      clients[a] - Cardinality({g \in Connecting(gs) : wants[g] = a})]
    /\ UNCHANGED cached

Fails(g) ==
    /\ place[g] \in {"connect", "dial"}
    /\ Moves(g, "over")
    /\ Dropped({g})
    /\ UNCHANGED <<wants, udpVars>>

Dialed(g) ==
    /\ place[g] = "dial"
    /\ Moves(g, "open")
    /\ UNCHANGED <<wants, cacheVars, udpVars>>

\* Connections, but not routes, have 15 seconds for all of this.
DialTimeout(c) ==
    /\ place[c] \in {"wait", "connect", "dial"}
    /\ Moves(c, "over")
    /\ Dropped({c})
    /\ UNCHANGED <<wants, udpVars>>

\* The copying of a connection ends, or the flow of a route.
Ends(g) ==
    /\ place[g] = "open"
    /\ Moves(g, "over")
    /\ UNCHANGED <<wants, cacheVars, udpVars>>

-----------------------------------------------------------------------------
\* socks_udp(): the client may name its source or leave that to the first packet.
Associate(s) ==
    /\ association.at = "none"
    /\ association' = [at |-> "open", source |-> s]
    /\ UNCHANGED <<place, wants, cacheVars, table, route, unserved>>

\* routes.retain(): routes that ended leave the table.  The mutant forgets them only when
\* the association ends.
RetainedAll == table

Retained == {k \in table : Running(k[2])}

\* A route of destination d, and the next one to start.
For(d) == {k[2] : k \in {j \in Retained : j[1] = d}}
NextRoute == Cardinality(Started) + 1

\* There is room for a packet to d, unless its route's queue or the table is full of
\* routes that run.
Room(d) ==
    LET live == {n \in Route : Running(n)} IN
    IF \E n \in live : route[n].to = d
    THEN \E n \in live : route[n].to = d /\ route[n].queued < RouteQueue
    ELSE Cardinality(live) < RouteCapacity

\* A packet from s to d, by way of address a.  Packets of other sources are
\* ignored.
FromSource(s) == association.source \in {Nobody, s}

Packet(s, d, a) ==
    /\ association.at = "open" /\ FromSource(s)
    /\ association' = [association EXCEPT !.source = s]
    /\ \/ /\ For(d) # {}
          /\ \E n \in For(d) :
                /\ route' = IF Running(n) /\ route[n].queued < RouteQueue
                            THEN [route EXCEPT ![n].queued = @ + 1] ELSE route
                /\ unserved' = (unserved \/ (Room(d) /\ route' = route))
          /\ table' = Retained
          /\ UNCHANGED <<place, wants>>
       \/ /\ For(d) = {} /\ Cardinality(Retained) >= RouteCapacity
          /\ table' = Retained
          /\ unserved' = (unserved \/ Room(d))
          /\ UNCHANGED <<place, wants, route>>
       \/ /\ For(d) = {} /\ Cardinality(Retained) < RouteCapacity
          /\ NextRoute \in Route
          /\ table' = Retained \cup {<<d, NextRoute>>}
          /\ route' = [route EXCEPT ![NextRoute] = [to |-> d, from |-> s, queued |-> 1]]
          /\ Moves(NextRoute, "wait")
          /\ wants' = [wants EXCEPT ![NextRoute] = a]
          /\ UNCHANGED unserved
    /\ UNCHANGED cacheVars

RouteSends(n) ==
    /\ place[n] = "open" /\ route[n].queued > 0
    /\ route' = [route EXCEPT ![n].queued = @ - 1]
    /\ UNCHANGED <<place, wants, cacheVars, association, table, unserved>>

\* The association ends with its control connection, and its routes with it.
Dissociate ==
    /\ association.at = "open"
    /\ association' = [association EXCEPT !.at = "over"]
    /\ table' = {}
    /\ place' = [g \in Getter |-> IF g \in Started THEN "over" ELSE place[g]]
    /\ Dropped(Route)
    /\ UNCHANGED <<wants, route, unserved>>

-----------------------------------------------------------------------------
SocksInit ==
    /\ place = [g \in Getter |-> "idle"]
    /\ wants = [g \in Getter |-> Nobody]
    /\ lock = Nobody
    /\ clients = [a \in Address |-> 0]
    /\ cached = {}
    /\ association = [at |-> "none", source |-> Nobody]
    /\ table = {}
    /\ route = [n \in Route |-> NotRouted]
    /\ unserved = FALSE

SocksNext ==
    \/ \E c \in Connection :
          \/ Accept(c) \/ NegotiationFails(c) \/ DialTimeout(c)
          \/ \E a \in Address : Request(c, a)
    \/ \E g \in Getter : Get(g) \/ Connected(g) \/ Fails(g) \/ Dialed(g) \/ Ends(g)
    \/ \E s \in Source \cup {Nobody} : Associate(s)
    \/ \E s \in Source, d \in Destination, a \in Address : Packet(s, d, a)
    \/ \E n \in Route : RouteSends(n)
    \/ Dissociate

SocksSpec == SocksInit /\ [][SocksNext]_socksVars

-----------------------------------------------------------------------------
(***************************************************************************)
(* Properties                                                              *)
(***************************************************************************)

\* There is at most one client for an address, connected or connecting: two would have
\* one key and take the relay's registration from each other.  The client that is there
\* is in the table or its getter holds the lock, however getters fail, time out or are
\* dropped on the way (SocksClients.get).
OneClientPerAddress ==
    \A a \in Address :
       /\ clients[a] <= 1
       /\ clients[a] = 1 <=> a \in cached \/ (lock # Nobody /\ wants[lock] = a)

\* All routes that run are in the table, one for a destination, and reply to the one
\* source of the association; and a packet is dropped only if the queue of its route or
\* the table is full of what still runs, although routes end on their own (socks_udp).
RoutesSound ==
    /\ \A n \in Route : Running(n) =>
          /\ {k \in table : k[1] = route[n].to} = {<<route[n].to, n>>}
          /\ route[n].from = association.source
    /\ Cardinality(table) <= RouteCapacity
    /\ ~ unserved
=============================================================================
