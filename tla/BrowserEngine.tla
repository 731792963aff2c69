--------------------------- MODULE BrowserEngine ----------------------------
(***************************************************************************)
(* The engine of the browser version (src/wasm/src/lib.rs): one loop that  *)
(* runs its ticks and reconnects its WebSocket, and the JavaScript program *)
(* that dials, listens and uses connections between ticks.  A connection   *)
(* names its socket by a handle, which is used again when the socket is    *)
(* gone, and the generation of its link.                                   *)
(*                                                                         *)
(* The relay, the tunnel, its peers and smoltcp are external: a tick takes *)
(* one event of the network or none.  Each packet of data is marked with   *)
(* the generation it was sent to.                                          *)
(***************************************************************************)
EXTENDS Naturals

CONSTANTS
    Handle,           \* socket handles: MAX_CONNECTIONS of them
    Flow,             \* flows of remote clients
    MaxGenerations    \* bound on the links ever made

ASSUME BrowserAssumption == MaxGenerations \in Nat

Generation == 1 .. MaxGenerations

VARIABLES
    listener,    \* whether tailcatListen() made the engine, or tailcatDial()
    ws,          \* the WebSocket: "open", "closed", or "connecting" again
    meowed, engineClosed, closeWhenDrained,    \* fields of Engine
    links,       \* links[h]: the link of a handle with the state of its socket
    nextGeneration,
    dial,        \* where dial() is, and its handle and generation
    conns,       \* the BrowserConns the program has, as [handle, generation]
    got,         \* got[g]: history: what was read from the connection of generation g
    closedBy     \* history: the connections that the program, or its callback, closed

engineVars == <<ws, meowed, engineClosed, closeWhenDrained, links, nextGeneration>>
historyVars == <<got, closedBy>>
browserVars == <<listener, engineVars, dial, conns, historyVars>>

NoLink == [generation |-> 0]
Has(h) == links[h] # NoLink
NewLink(f) ==
    [generation |-> nextGeneration, flow |-> f, notified |-> ~ listener,
     appClosed |-> FALSE, socket |-> "opening", rx |-> {}]

\* live_handle().  The mutant looks at the handle alone.
LiveHandle(c) == Has(c.handle)

LiveConn(c) == links[c.handle].generation = c.generation

\* Socket states: opening, open, with the other end finished, finishing at this end (the end
\* was sent, or waits to be), finished (it was acknowledged) and closed.
ClosedHere(link) ==
    [link EXCEPT !.socket = IF @ = "opening" THEN "closed"
                            ELSE IF @ \in {"open", "remoteEnd"} THEN "finishing" ELSE @]

-----------------------------------------------------------------------------
\* A SYN makes a link for a flow that has none, at a free handle (receive_ip).
Free == {h \in Handle : ~ Has(h)}
Unlinked(f) == \A h \in Handle \ Free : links[h].flow = f => links[h].socket = "closed"

Syns ==
    {[links EXCEPT ![h] = NewLink(f)] :
        h \in Free, f \in {g \in Flow : listener /\ nextGeneration \in Generation /\ Unlinked(g)}}

\* What the network may do to the sockets in a tick: open one, bring data, end the other
\* side, acknowledge the end of this one, or reset it.
In(states) == {h \in Handle \ Free : links[h].socket \in states}

Events ==
    {links} \cup Syns
    \cup {[links EXCEPT ![h].socket = "open"] : h \in In({"opening"})}
    \cup {[links EXCEPT ![h].rx = {links[h].generation}] : h \in In({"open", "finishing", "finished"})}
    \cup {[links EXCEPT ![h].socket = "remoteEnd"] : h \in In({"open"})}
    \cup {[links EXCEPT ![h].socket = "finished"] : h \in In({"finishing"})}
    \cup {[links EXCEPT ![h].socket = "closed"] : h \in Handle \ Free}

\* The rest of a tick goes over the links.  One that the program closed loses its input; a
\* listener's that is not established after a minute is aborted; one that is closed and
\* read is removed.
Consumed(link) == IF link.appClosed THEN [link EXCEPT !.rx = {}] ELSE link
Aborted(link) == [link EXCEPT !.socket = "closed", !.appClosed = TRUE]
Kept(link) == IF link.socket = "closed" /\ link.rx = {} THEN NoLink ELSE link

Swept(new, late) ==
    [h \in Handle |-> IF new[h] = NoLink THEN NoLink
                      ELSE Kept(IF h \in late THEN Aborted(Consumed(new[h])) ELSE Consumed(new[h]))]

\* Links that are established for the first time.
Arrived(new) ==
    {h \in Handle : /\ new[h] # NoLink
                    /\ ~ new[h].notified /\ new[h].socket \in {"open", "remoteEnd"}}

\* The callback is told of them.  If it fails, the connection is closed.
Told(new, failed) ==
    [h \in Handle |->
        IF h \notin Arrived(new) THEN new[h]
        ELSE LET link == [new[h] EXCEPT !.notified = TRUE]
             IN  IF failed THEN [ClosedHere(link) EXCEPT !.appClosed = TRUE] ELSE link]

Drained ==
    \A h \in Handle \ Free : links[h].socket \in {"finished", "closed"}

\* close().
CloseEngine ==
    /\ engineClosed' = TRUE
    /\ ws' = "closed"
    /\ links' = [h \in Handle |-> NoLink]
    /\ UNCHANGED <<meowed, closeWhenDrained, nextGeneration>>

\* tick(), and the callbacks of run_engine() after it.
Tick(new, late, failed) ==
    LET swept == Swept(new, late)
        arrived == Arrived(swept)
    IN
    /\ ~ engineClosed /\ ws = "open"
    /\ links' = Told(swept, failed)
    /\ nextGeneration' = nextGeneration + (IF new \in Syns THEN 1 ELSE 0)
    /\ conns' = conns \cup {[handle |-> h, generation |-> new[h].generation] : h \in arrived}
    /\ closedBy' = closedBy \cup {new[h].generation : h \in late \cup (IF failed THEN arrived ELSE {})}
    /\ UNCHANGED <<listener, ws, meowed, engineClosed, closeWhenDrained, dial, got>>

Meowed ==
    /\ ~ engineClosed /\ ws = "open" /\ ~ listener /\ ~ meowed
    /\ meowed' = TRUE
    /\ UNCHANGED <<listener, ws, engineClosed, closeWhenDrained, links, nextGeneration, dial,
                   conns, historyVars>>

\* The client of a connection that was closed ends, a tenth of a second after its sockets.
DrainedClose ==
    /\ ~ engineClosed /\ ws = "open" /\ closeWhenDrained /\ Drained
    /\ CloseEngine
    /\ UNCHANGED <<listener, dial, conns, historyVars>>

\* The WebSocket ends; run_engine() connects another one, and the engine may be closed in
\* the meantime.
WsEnds ==
    /\ ~ engineClosed /\ ws = "open"
    /\ ws' = "closed"
    /\ UNCHANGED <<listener, meowed, engineClosed, closeWhenDrained, links, nextGeneration,
                   dial, conns, historyVars>>

Reconnect ==
    /\ ~ engineClosed /\ ws = "closed"
    /\ ws' = "connecting"
    /\ UNCHANGED <<listener, meowed, engineClosed, closeWhenDrained, links, nextGeneration,
                   dial, conns, historyVars>>

Reconnected ==
    /\ ~ engineClosed /\ ws = "connecting"
    /\ ws' = "open"
    /\ meowed' = FALSE
    /\ UNCHANGED <<listener, engineClosed, closeWhenDrained, links, nextGeneration, dial,
                   conns, historyVars>>

-----------------------------------------------------------------------------
\* dial() waits for the handshake and then for its connection, looking every 5 ms.
StartDial ==
    /\ ~ engineClosed /\ dial.at = "handshake" /\ meowed /\ nextGeneration \in Generation
    /\ \E h \in Handle :
          /\ ~ Has(h)
          /\ links' = [links EXCEPT ![h] = NewLink("dialed")]
          /\ dial' = [at |-> "dialing", handle |-> h, generation |-> nextGeneration]
    /\ nextGeneration' = nextGeneration + 1
    /\ UNCHANGED <<listener, ws, meowed, engineClosed, closeWhenDrained, conns, historyVars>>

DialConnects ==
    /\ ~ engineClosed /\ dial.at = "dialing" /\ LiveConn(dial)
    /\ links[dial.handle].socket \in {"open", "remoteEnd"}
    /\ dial' = [dial EXCEPT !.at = "connected"]
    /\ conns' = conns \cup {[handle |-> dial.handle, generation |-> dial.generation]}
    /\ UNCHANGED <<listener, engineVars, historyVars>>

\* It took a minute: the engine is closed.
DialTimesOut ==
    /\ ~ engineClosed /\ dial.at \in {"handshake", "dialing"}
    /\ dial' = [dial EXCEPT !.at = "timedOut"]
    /\ CloseEngine
    /\ UNCHANGED <<listener, conns, historyVars>>

\* The link is gone, or nothing else is left.  A refused connection ends here, and its
\* engine stays: the tick that closes the socket also removes the link.
DialLost ==
    /\ dial.at = "dialing" /\ (engineClosed \/ ~ LiveConn(dial))
    /\ dial' = [dial EXCEPT !.at = "lost"]
    /\ UNCHANGED <<listener, engineVars, conns, historyVars>>

\* BrowserConn: read, closeWrite and close go by handle and generation.
ReadConn(c) ==
    /\ ~ engineClosed /\ LiveConn(c) /\ links[c.handle].rx # {}
    /\ links' = [links EXCEPT ![c.handle].rx = {}]
    /\ got' = [got EXCEPT ![c.generation] = @ \cup links[c.handle].rx]
    /\ UNCHANGED <<listener, ws, meowed, engineClosed, closeWhenDrained, nextGeneration, dial,
                   conns, closedBy>>

CloseWrite(c) ==
    /\ ~ engineClosed /\ LiveConn(c)
    /\ links' = [links EXCEPT ![c.handle] = ClosedHere(@)]
    /\ UNCHANGED <<listener, ws, meowed, engineClosed, closeWhenDrained, nextGeneration, dial,
                   conns, historyVars>>

CloseConn(c) ==
    /\ ~ engineClosed /\ LiveConn(c)
    /\ links' = [links EXCEPT ![c.handle] = [ClosedHere(@) EXCEPT !.appClosed = TRUE]]
    /\ closeWhenDrained' = (closeWhenDrained \/ ~ listener)
    /\ closedBy' = closedBy \cup {c.generation}
    /\ UNCHANGED <<listener, ws, meowed, engineClosed, nextGeneration, dial, conns, got>>

\* The close() of a listener.
CloseListener ==
    /\ ~ engineClosed /\ listener
    /\ CloseEngine
    /\ UNCHANGED <<listener, dial, conns, historyVars>>

-----------------------------------------------------------------------------
BrowserInit ==
    /\ listener \in BOOLEAN
    /\ ws = "open"
    /\ meowed = FALSE
    /\ engineClosed = FALSE
    /\ closeWhenDrained = FALSE
    /\ links = [h \in Handle |-> NoLink]
    /\ nextGeneration = 1
    /\ dial = [at |-> IF listener THEN "none" ELSE "handshake",
               handle |-> CHOOSE h \in Handle : TRUE, generation |-> 0]
    /\ conns = {}
    /\ got = [g \in Generation |-> {}]
    /\ closedBy = {}

BrowserNext ==
    \/ \E new \in Events, failed \in BOOLEAN :
          \/ Tick(new, {}, failed)
          \/ \E h \in In({"opening"}) : ~ links[h].notified /\ Tick(links, {h}, failed)
    \/ Meowed \/ DrainedClose \/ WsEnds \/ Reconnect \/ Reconnected
    \/ StartDial \/ DialConnects \/ DialTimesOut \/ DialLost \/ CloseListener
    \/ \E c \in conns : ReadConn(c) \/ CloseWrite(c) \/ CloseConn(c)

BrowserSpec == BrowserInit /\ [][BrowserNext]_browserVars

-----------------------------------------------------------------------------
(***************************************************************************)
(* Properties                                                              *)
(***************************************************************************)

\* What the program does to one connection never reaches another that has its handle now:
\* it reads only what was sent to it, and only what it closed is closed (live_handle).
\* Two links of one flow are never both in use, and an engine that is closed has none.
\* A dial that times out closes its engine; one that was refused does not.
ConnectionsIsolated ==
    /\ \A g \in Generation : got[g] \subseteq {g}
    /\ \A h \in Handle \ Free : links[h].appClosed => links[h].generation \in closedBy
    /\ \A h, k \in Handle \ Free :
          h # k /\ links[h].flow = links[k].flow => "closed" \in {links[h].socket, links[k].socket}
    /\ engineClosed => Free = Handle
    /\ dial.at = "timedOut" => engineClosed
=============================================================================
