--------------------------- MODULE ClientsProofs ------------------------------
(*****************************************************************************)
(* Proofs about the programs built on the library: performance tests         *)
(* (PerfSession), the SOCKS proxy (SocksProxy) and the engine in the browser *)
(* (BrowserEngine).  The modules have nothing in common.                     *)
(*****************************************************************************)
EXTENDS PerfSession, SocksProxy, BrowserEngine, FiniteSetTheorems, TLAPS

-----------------------------------------------------------------------------
(*****************************************************************************)
(* PerfSession, for any number of tests and streams.  The claim needs the    *)
(* places that the server's side can be in: a side that gave nothing up in   *)
(* "hello" would drop a claim of another test.                               *)
(*****************************************************************************)

SidePlace == {"idle", "hello", "setup", "run", "done", "failed"}
ServerPlace == {"idle", "setup", "run", "done", "failed"}

PlaceInv ==
    /\ at \in [Test -> [Side -> SidePlace]]
    /\ \A t \in Test : at[t]["server"] \in ServerPlace
    /\ given \in [Test -> SUBSET (Test \X Nat)]
    /\ active \in Test \cup {NoTest}

ClaimInv == PlaceInv /\ OneTestAtATime

-----------------------------------------------------------------------------
LEMMA ClaimStarts == PerfInit => ClaimInv
  <1> SUFFICES ASSUME PerfInit PROVE ClaimInv
    OBVIOUS
  <1>1. /\ at \in [Test -> [Side -> SidePlace]]
        /\ \A t \in Test : at[t]["server"] = "idle" /\ given[t] = {}
    BY DEF PerfInit, Side, SidePlace
  <1>2. given \in [Test -> SUBSET (Test \X Nat)] /\ active = NoTest
    BY DEF PerfInit
  <1> QED BY <1>1, <1>2, PerfAssumption DEF ClaimInv, PlaceInv, OneTestAtATime, ServerPlace

\* A step that leaves the claim alone and moves, at most, the client's side.
LEMMA ClaimUntouched ==
    ASSUME ClaimInv, UNCHANGED <<kind, active, given>>, at' \in [Test -> [Side -> SidePlace]],
           \A t \in Test : at'[t]["server"] = at[t]["server"]
    PROVE  ClaimInv'
  BY DEF ClaimInv, PlaceInv, OneTestAtATime, Streams

LEMMA GoesType ==
    ASSUME PlaceInv, NEW t \in Test, NEW x \in Side, NEW there \in SidePlace
    PROVE  /\ Placed(t, x, there) \in [Test -> [Side -> SidePlace]]
           /\ Placed(t, x, there)[t][x] = there
           /\ \A u \in Test, y \in Side : u # t \/ y # x => Placed(t, x, there)[u][y] = at[u][y]
  BY DEF PlaceInv, Placed, Side

\* The client's side of t goes somewhere.
LEMMA ClientMoves ==
    ASSUME ClaimInv, NEW t \in Test, NEW there \in SidePlace,
           at' = Placed(t, "client", there), UNCHANGED <<kind, active, given>>
    PROVE  ClaimInv'
  <1>1. \A u \in Test : at'[u]["server"] = at[u]["server"]
    BY GoesType DEF ClaimInv, Side
  <1>2. at' \in [Test -> [Side -> SidePlace]]
    BY GoesType DEF ClaimInv, Side
  <1> QED BY <1>1, <1>2, ClaimUntouched

\* A side of t leaves; the server's from where it holds the claim.
LEMMA LeaveKeeps ==
    ASSUME ClaimInv, NEW t \in Test, NEW x \in Side, NEW there \in {"done", "failed"},
           Leave(t, x, there), x = "server" => at[t]["server"] \in {"setup", "run"}
    PROVE  ClaimInv'
  <1> USE DEF SidePlace
  <1>1. CASE x = "client"
    BY <1>1, ClientMoves DEF Leave, dataVars
  <1>2. CASE x = "server"
    <2>1. active = t /\ active' = NoTest
      BY <1>2 DEF Leave, ClaimInv, OneTestAtATime
    <2>2. at' \in [Test -> [Side -> SidePlace]]
      BY GoesType DEF Leave, ClaimInv
    <2>3. \A u \in Test : at'[u]["server"] = IF u = t THEN there ELSE at[u]["server"]
      BY <1>2, GoesType DEF Leave, ClaimInv, Side
    <2>4. PlaceInv'
      BY <2>1, <2>2, <2>3 DEF PlaceInv, ClaimInv, ServerPlace, Leave, dataVars
    <2>5. OneTestAtATime'
      BY <2>1, <2>3, PerfAssumption
         DEF OneTestAtATime, ClaimInv, Streams, Leave, dataVars
    <2> QED BY <2>4, <2>5 DEF ClaimInv
  <1> QED BY <1>1, <1>2 DEF Side

LEMMA ClaimKept == ClaimInv /\ [PerfNext]_perfVars => ClaimInv'
  <1> SUFFICES ASSUME ClaimInv, [PerfNext]_perfVars PROVE ClaimInv'
    OBVIOUS
  <1> USE DEF SidePlace
  <1>0. PlaceInv /\ at \in [Test -> [Side -> SidePlace]]
    BY DEF ClaimInv, PlaceInv
  <1>1. ASSUME NEW t \in Test, Hello(t) PROVE ClaimInv'
    <2>1. CASE active = NoTest
      <3>1. active' = t /\ at' = Placed(t, "server", "setup") /\ UNCHANGED <<kind, given>>
        BY <1>1, <2>1 DEF Hello, dataVars
      <3>2. at' \in [Test -> [Side -> SidePlace]]
        BY <1>0, <3>1, GoesType DEF Side
      <3>3. \A u \in Test : at'[u]["server"] = IF u = t THEN "setup" ELSE at[u]["server"]
        BY <1>0, <3>1, GoesType DEF Side
      <3>4. PlaceInv'
        BY <1>0, <3>1, <3>2, <3>3 DEF PlaceInv, ServerPlace
      <3>5. OneTestAtATime'
        BY <2>1, <3>1, <3>3, PerfAssumption DEF ClaimInv, OneTestAtATime, Streams
      <3> QED BY <3>4, <3>5 DEF ClaimInv
    <2>2. CASE active # NoTest
      <3>1. active' = active /\ at' = Placed(t, "server", "failed") /\ UNCHANGED <<kind, given>>
        BY <1>1, <2>2 DEF Hello, RefusedLeaves, dataVars
      <3>2. at' \in [Test -> [Side -> SidePlace]]
        BY <1>0, <3>1, GoesType DEF Side
      <3>3. \A u \in Test : at'[u]["server"] = IF u = t THEN "failed" ELSE at[u]["server"]
        BY <1>0, <3>1, GoesType DEF Side
      <3>4. PlaceInv'
        BY <1>0, <3>1, <3>2, <3>3 DEF PlaceInv, ServerPlace
      <3>5. OneTestAtATime'
        BY <1>1, <3>1, <3>3 DEF Hello, ClaimInv, OneTestAtATime, Streams
      <3> QED BY <3>4, <3>5 DEF ClaimInv
    <2> QED BY <2>1, <2>2
  <1>2. ASSUME NEW t \in Test, Ready(t) PROVE ClaimInv'
    <2>1. at' = Placed(t, "server", "run") /\ UNCHANGED <<kind, active, given>>
      BY <1>2 DEF Ready, Begins, dataVars
    <2>2. at' \in [Test -> [Side -> SidePlace]]
      BY <1>0, <2>1, GoesType DEF Side
    <2>3. \A u \in Test : at'[u]["server"] = IF u = t THEN "run" ELSE at[u]["server"]
      BY <1>0, <2>1, GoesType DEF Side
    <2>4. PlaceInv'
      BY <1>0, <2>1, <2>2, <2>3 DEF PlaceInv, ServerPlace
    <2>5. OneTestAtATime'
      BY <1>2, <2>1, <2>3 DEF Ready, ClaimInv, OneTestAtATime, Streams
    <2> QED BY <2>4, <2>5 DEF ClaimInv
  <1>3. ASSUME NEW t \in Test, NEW i \in Streams(t), Attach(t, i) PROVE ClaimInv'
    <2>1. UNCHANGED <<kind, at, active>>
      BY <1>3 DEF Attach, control
    <2>2. i \in Nat
      BY <1>3 DEF Streams
    <2>3. given' = given \/ (active = t /\ given' = [given EXCEPT ![t] = @ \cup {<<t, i>>}])
      BY <1>3 DEF Attach, Names
    <2>4. PlaceInv'
      BY <1>0, <2>1, <2>2, <2>3 DEF PlaceInv
    <2>5. \A u \in Test : given'[u] \subseteq {u} \X Streams(u)
      BY <1>0, <1>3, <2>3 DEF PlaceInv, ClaimInv, OneTestAtATime
    <2>6. OneTestAtATime'
      BY <2>1, <2>5 DEF ClaimInv, OneTestAtATime, Streams
    <2> QED BY <2>4, <2>6 DEF ClaimInv
  <1>4. ASSUME NEW t \in Test, Connect(t) \/ OpenStreams(t) \/ ClientReady(t) PROVE ClaimInv'
    <2>1. \E there \in SidePlace : at' = Placed(t, "client", there)
      BY <1>4 DEF Connect, OpenStreams, ClientReady, Begins
    <2>2. UNCHANGED <<kind, active, given>>
      BY <1>4 DEF Connect, OpenStreams, ClientReady, dataVars
    <2> QED BY <2>1, <2>2, ClientMoves
  <1>5. ASSUME NEW t \in Test, Refused(t) PROVE ClaimInv'
    BY <1>5, LeaveKeeps DEF Refused, Side
  <1>6. ASSUME NEW t \in Test, SetupTimeout(t) PROVE ClaimInv'
    BY <1>6, LeaveKeeps DEF SetupTimeout, Side
  <1>7. ASSUME NEW t \in Test, NEW x \in Side, Finish(t, x) \/ PeerClosed(t, x) \/ GiveUp(t, x)
        PROVE  ClaimInv'
    <2>1. \E there \in {"done", "failed"} : Leave(t, x, there)
      BY <1>7 DEF Finish, PeerClosed, GiveUp
    <2>2. x = "server" => at[t]["server"] \in {"setup", "run"}
      BY <1>0, <1>7 DEF Finish, PeerClosed, GiveUp, PlaceInv, ServerPlace
    <2> QED BY <2>1, <2>2, LeaveKeeps
  <1>8. ASSUME NEW t \in Test, NEW x \in Side,
               \/ Report(t, x) \/ Listen(t, x)
               \/ \E i \in Streams(t) :
                     \/ SendEnd(t, x, i) \/ ReceiveEnd(t, x, i) \/ LoseEnd(t, x, i)
                     \/ Announce(t, i) \/ LoseAnnouncement(t, i)
        PROVE  ClaimInv'
    <2>1. UNCHANGED <<kind, at, active, given>>
      BY <1>8 DEF Report, Listen, SendEnd, ReceiveEnd, LoseEnd, Announce, LoseAnnouncement,
                  control, dataVars
    <2> QED BY <1>0, <2>1, ClaimUntouched
  <1>9. CASE UNCHANGED perfVars
    BY <1>0, <1>9, ClaimUntouched DEF perfVars, control, dataVars
  <1>10. "client" \in Side
    BY DEF Side
  <1> QED
    BY <1>1, <1>2, <1>3, <1>4, <1>5, <1>6, <1>7, <1>8, <1>9, <1>10 DEF PerfNext, Advance

\* The claim belongs to the one test that the server sets up or runs, and a test has no data
\* stream of another (handle_tcp, attach).
THEOREM TestsExcludeEachOther == PerfSpec => []OneTestAtATime
  <1>1. ClaimInv => OneTestAtATime
    BY DEF ClaimInv
  <1> QED BY ClaimStarts, ClaimKept, <1>1, PTL DEF PerfSpec

-----------------------------------------------------------------------------
(*****************************************************************************)
(* SocksProxy, for any number of connections, routes and addresses.          *)
(*****************************************************************************)

Places == {"idle", "negotiate", "wait", "connect", "dial", "open", "over"}

\* Routes are started in the order of their numbers, so one that starts is idle.
InOrder == \E n \in Nat : Started = 1 .. n

\* The holder of the lock is the one that connects.
LockHeld ==
    /\ lock \in Getter \cup {Nobody}
    /\ \A g \in Getter : place[g] = "connect" <=> lock = g

\* One client for an address that is in the table or wanted by the holder of the lock.
ClientsCounted ==
    /\ clients \in [Address -> Nat]
    /\ \A a \in Address :
          clients[a] = IF a \in cached \/ (lock # Nobody /\ wants[lock] = a) THEN 1 ELSE 0
    /\ lock # Nobody => wants[lock] \notin cached

CacheInv ==
    /\ place \in [Getter -> Places]
    /\ wants \in [Getter -> Address \cup {Nobody}]
    /\ InOrder /\ LockHeld /\ ClientsCounted

-----------------------------------------------------------------------------
LEMMA CacheStarts == SocksInit => CacheInv
  <1> SUFFICES ASSUME SocksInit PROVE CacheInv
    OBVIOUS
  <1>1. Started = 1 .. 0
    BY DEF SocksInit, Started, Getter
  <1>2. InOrder
    BY <1>1 DEF InOrder
  <1>3. LockHeld
    BY SocksAssumption DEF SocksInit, LockHeld
  <1>4. ClientsCounted
    BY DEF SocksInit, ClientsCounted
  <1> QED BY <1>2, <1>3, <1>4 DEF CacheInv, SocksInit, Places

\* A step that drops the getters gs: their clients go with them, at most one of which
\* connects.
LEMMA DroppedIsOne ==
    ASSUME CacheInv, NEW gs \in SUBSET Getter, Dropped(gs)
    PROVE  \A a \in Address :
              clients'[a] = clients[a] -
                 (IF lock \in gs /\ wants[lock] = a THEN 1 ELSE 0)
  <1> SUFFICES ASSUME NEW a \in Address
               PROVE  clients'[a] = clients[a] -
                         (IF lock \in gs /\ wants[lock] = a THEN 1 ELSE 0)
    OBVIOUS
  <1> DEFINE Gone == {g \in Connecting(gs) : wants[g] = a}
  <1>1. clients'[a] = clients[a] - Cardinality(Gone)
    BY DEF Dropped
  <1>2. CASE lock \in gs /\ wants[lock] = a
    <2>1. Gone = {lock}
      BY <1>2 DEF CacheInv, LockHeld, Connecting
    <2> QED BY <1>1, <1>2, <2>1, FS_Singleton
  <1>3. CASE ~ (lock \in gs /\ wants[lock] = a)
    <2>1. Gone = {}
      BY <1>3 DEF CacheInv, LockHeld, Connecting
    <2> QED BY <1>1, <1>3, <2>1, FS_EmptySet
  <1> QED BY <1>2, <1>3

LEMMA DropKeeps ==
    ASSUME CacheInv, NEW gs \in SUBSET Getter, Dropped(gs), wants' = wants,
           place' \in [Getter -> Places],
           \A g \in gs : place'[g] \in {"idle", "over"},
           \A g \in Getter \ gs : place'[g] = place[g]
    PROVE  LockHeld' /\ ClientsCounted'
  <1>1. lock' = (IF lock \in gs THEN Nobody ELSE lock) /\ cached' = cached
    BY DEF Dropped
  <1>2. LockHeld'
    BY <1>1, SocksAssumption DEF LockHeld, CacheInv
  <1>3. \A a \in Address :
           clients'[a] = clients[a] - (IF lock \in gs /\ wants[lock] = a THEN 1 ELSE 0)
    BY DroppedIsOne
  <1>4. \A a \in Address :
           clients'[a] = IF a \in cached' \/ (lock' # Nobody /\ wants'[lock'] = a) THEN 1 ELSE 0
    BY <1>1, <1>3, SocksAssumption DEF CacheInv, ClientsCounted, LockHeld
  <1>5. clients' \in [Address -> Nat]
    <2>1. clients' = [a \in Address |-> clients'[a]]
      BY DEF Dropped
    <2> QED BY <1>4, <2>1
  <1>6. lock' # Nobody => wants'[lock'] \notin cached'
    BY <1>1 DEF CacheInv, ClientsCounted
  <1> QED BY <1>2, <1>4, <1>5, <1>6 DEF ClientsCounted

\* A step that leaves the cache alone, in which nobody begins or ends to connect.
LEMMA CacheUntouched ==
    ASSUME CacheInv, UNCHANGED cacheVars,
           wants' \in [Getter -> Address \cup {Nobody}], place' \in [Getter -> Places],
           \A g \in Getter : place'[g] = "connect" <=> place[g] = "connect",
           \A g \in Getter : place[g] = "connect" => wants'[g] = wants[g]
    PROVE  LockHeld' /\ ClientsCounted'
  <1>1. LockHeld'
    BY DEF CacheInv, LockHeld, cacheVars
  <1>2. lock # Nobody => wants'[lock] = wants[lock]
    BY DEF CacheInv, LockHeld
  <1>3. ClientsCounted'
    BY <1>2 DEF CacheInv, ClientsCounted, cacheVars
  <1> QED BY <1>1, <1>3

\* A getter that was started moves on, so the routes that were started are the same.
LEMMA OrderKept ==
    ASSUME InOrder, \A n \in Route : (place'[n] # "idle") <=> (place[n] # "idle")
    PROVE  InOrder'
  <1>1. Started' = Started
    BY DEF Started
  <1> QED BY <1>1 DEF InOrder

LEMMA NextIsIdle ==
    ASSUME InOrder, NextRoute \in Route
    PROVE  place[NextRoute] = "idle" /\ Started \cup {NextRoute} = 1 .. NextRoute
  <1>1. PICK n \in Nat : Started = 1 .. n
    BY DEF InOrder
  <1>2. Cardinality(1 .. n) = n
    <2>1. Cardinality(1 .. n) = IF 1 > n THEN 0 ELSE n - 1 + 1
      BY FS_Interval
    <2> QED BY <2>1
  <1>3. NextRoute = n + 1
    BY <1>1, <1>2 DEF NextRoute
  <1>4. NextRoute \notin Started
    BY <1>1, <1>3
  <1>5. Started \cup {NextRoute} = 1 .. NextRoute
    BY <1>1, <1>3
  <1> QED BY <1>4, <1>5 DEF Started

LEMMA CacheKept == CacheInv /\ [SocksNext]_socksVars => CacheInv'
  <1> SUFFICES ASSUME CacheInv, [SocksNext]_socksVars PROVE CacheInv'
    OBVIOUS
  <1> USE DEF CacheInv, Places
  <1>1. \A g \in Connection : g \in Getter /\ g \notin Route
    BY SocksAssumption DEF Getter
  <1>2. Route \subseteq Getter
    BY DEF Getter
  <1>3. ASSUME NEW c \in Connection, Accept(c) \/ NegotiationFails(c) PROVE CacheInv'
    <2>1. /\ place' \in [Getter -> Places] /\ UNCHANGED <<wants, cacheVars>>
          /\ \A g \in Getter \ {c} : place'[g] = place[g]
          /\ place[c] # "connect" /\ place'[c] # "connect"
      BY <1>1, <1>3 DEF Accept, NegotiationFails, Moves
    <2>2. InOrder'
      BY <1>1, <1>2, <2>1, OrderKept
    <2> QED BY <2>1, <2>2, CacheUntouched
  <1>4. ASSUME NEW c \in Connection, NEW a \in Address, Request(c, a) PROVE CacheInv'
    <2>1. /\ place' \in [Getter -> Places] /\ UNCHANGED cacheVars
          /\ \A g \in Getter \ {c} : place'[g] = place[g] /\ wants'[g] = wants[g]
          /\ wants' \in [Getter -> Address \cup {Nobody}]
          /\ place[c] # "connect" /\ place'[c] # "connect"
      BY <1>1, <1>4 DEF Request, Moves
    <2>2. InOrder'
      BY <1>1, <1>2, <2>1, OrderKept
    <2> QED BY <2>1, <2>2, CacheUntouched
  <1>5. ASSUME NEW g \in Getter, Get(g), wants[g] \in cached PROVE CacheInv'
    <2>1. /\ place' \in [Getter -> Places] /\ UNCHANGED <<wants, cacheVars>>
          /\ \A h \in Getter \ {g} : place'[h] = place[h]
          /\ place[g] = "wait" /\ place'[g] = "dial"
      BY <1>5 DEF Get, Moves
    <2>2. InOrder'
      BY <1>2, <2>1, OrderKept
    <2> QED BY <2>1, <2>2, CacheUntouched
  <1>6. ASSUME NEW g \in Getter, Get(g), wants[g] \notin cached PROVE CacheInv'
    <2>1. /\ place' \in [Getter -> Places] /\ UNCHANGED <<wants, cached>>
          /\ \A h \in Getter \ {g} : place'[h] = place[h]
          /\ place[g] = "wait" /\ place'[g] = "connect" /\ lock = Nobody /\ lock' = g
          /\ clients' = [clients EXCEPT ![wants[g]] = @ + 1]
      BY <1>6 DEF Get, Moves, Locked
    <2>2. InOrder'
      BY <1>2, <2>1, OrderKept
    <2>3. LockHeld'
      BY <2>1, SocksAssumption DEF LockHeld
    <2>4. ClientsCounted'
      <3>1. \A a \in Address : clients[a] = IF a \in cached THEN 1 ELSE 0
        BY <2>1 DEF ClientsCounted
      <3>2. lock' # Nobody /\ wants'[lock'] = wants[g]
        BY <2>1, SocksAssumption
      <3>3. \A a \in Address :
               clients'[a] = IF a \in cached \/ wants[g] = a THEN 1 ELSE 0
        BY <1>6, <2>1, <3>1 DEF ClientsCounted
      <3>4. clients' \in [Address -> Nat]
        <4>1. clients \in [Address -> Nat]
          BY DEF ClientsCounted
        <4>2. clients' = [a \in Address |-> clients'[a]]
          BY <2>1, <4>1
        <4>3. \A a \in Address : clients'[a] \in Nat
          BY <3>3
        <4> QED BY <4>2, <4>3
      <3> QED BY <1>6, <2>1, <3>2, <3>3, <3>4 DEF ClientsCounted
    <2> QED BY <2>1, <2>2, <2>3, <2>4
  <1>7. ASSUME NEW g \in Getter, Connected(g) PROVE CacheInv'
    <2>1. /\ place' \in [Getter -> Places] /\ UNCHANGED <<wants, clients>>
          /\ \A h \in Getter \ {g} : place'[h] = place[h]
          /\ place[g] = "connect" /\ place'[g] = "dial" /\ lock' = Nobody
          /\ cached' = cached \cup {wants[g]}
      BY <1>7 DEF Connected, Moves
    <2>2. lock = g
      BY <2>1 DEF LockHeld
    <2>3. InOrder'
      BY <1>2, <2>1, OrderKept
    <2>4. LockHeld'
      BY <2>1, <2>2, SocksAssumption DEF LockHeld
    <2>5. ClientsCounted'
      BY <2>1, <2>2, SocksAssumption DEF ClientsCounted
    <2> QED BY <2>1, <2>3, <2>4, <2>5
  <1>8. ASSUME NEW g \in Getter, Fails(g) \/ (g \in Connection /\ DialTimeout(g)) PROVE CacheInv'
    <2>1. /\ place' \in [Getter -> Places] /\ UNCHANGED wants /\ Dropped({g})
          /\ \A h \in Getter \ {g} : place'[h] = place[h]
          /\ place[g] # "idle" /\ place'[g] = "over"
      BY <1>8 DEF Fails, DialTimeout, Moves
    <2>2. InOrder'
      BY <1>2, <2>1, OrderKept
    <2> QED BY <2>1, <2>2, DropKeeps
  <1>9. ASSUME NEW g \in Getter, Dialed(g) \/ Ends(g) PROVE CacheInv'
    <2>1. /\ place' \in [Getter -> Places] /\ UNCHANGED <<wants, cacheVars>>
          /\ \A h \in Getter \ {g} : place'[h] = place[h]
          /\ place[g] \in {"dial", "open"} /\ place'[g] \in {"open", "over"}
      BY <1>9 DEF Dialed, Ends, Moves
    <2>2. InOrder'
      BY <1>2, <2>1, OrderKept
    <2> QED BY <2>1, <2>2, CacheUntouched
  <1>10. ASSUME NEW s \in Source, NEW d \in Destination, NEW a \in Address, Packet(s, d, a)
         PROVE  CacheInv'
    <2>1. CASE UNCHANGED <<place, wants>>
      <3>1. UNCHANGED cacheVars
        BY <1>10 DEF Packet
      <3>2. InOrder'
        BY <2>1, OrderKept
      <3> QED BY <2>1, <3>1, <3>2, CacheUntouched
    <2>2. CASE ~ UNCHANGED <<place, wants>>
      <3>1. /\ NextRoute \in Route /\ UNCHANGED cacheVars
            /\ place' = [place EXCEPT ![NextRoute] = "wait"]
            /\ wants' = [wants EXCEPT ![NextRoute] = a]
        BY <1>10, <2>2 DEF Packet, Moves
      <3>2. place[NextRoute] = "idle" /\ Started \cup {NextRoute} = 1 .. NextRoute
        BY <3>1, NextIsIdle
      <3>3. Started' = Started \cup {NextRoute}
        BY <1>2, <3>1 DEF Started
      <3>4. NextRoute \in Nat
        BY <3>1, SocksAssumption DEF Route
      <3>5. InOrder'
        BY <3>2, <3>3, <3>4 DEF InOrder
      <3> QED BY <1>2, <3>1, <3>2, <3>5, CacheUntouched
    <2> QED BY <2>1, <2>2
  <1>11. CASE Dissociate
    <2>1. /\ place' = [g \in Getter |-> IF g \in Started THEN "over" ELSE place[g]]
          /\ UNCHANGED wants /\ Dropped(Route)
      BY <1>11 DEF Dissociate
    <2>2. /\ place' \in [Getter -> Places]
          /\ \A g \in Route : place'[g] \in {"idle", "over"}
          /\ \A g \in Getter \ Route : place'[g] = place[g]
      BY <1>2, <2>1 DEF Started
    <2>3. \A n \in Route : (place'[n] # "idle") <=> (place[n] # "idle")
      BY <1>2, <2>1 DEF Started
    <2>4. InOrder'
      BY <2>3, OrderKept
    <2> QED BY <1>2, <2>1, <2>2, <2>4, DropKeeps
  <1>12. CASE UNCHANGED <<place, wants, cacheVars>>
    <2>1. InOrder'
      BY <1>12, OrderKept
    <2> QED BY <1>12, <2>1, CacheUntouched
  <1>13. ASSUME NEW s, Associate(s) PROVE UNCHANGED <<place, wants, cacheVars>>
    BY <1>13 DEF Associate
  <1>14. ASSUME NEW n \in Route, RouteSends(n) PROVE UNCHANGED <<place, wants, cacheVars>>
    BY <1>14 DEF RouteSends
  <1> QED
    BY <1>1, <1>3, <1>4, <1>5, <1>6, <1>7, <1>8, <1>9, <1>10, <1>11, <1>12, <1>13, <1>14
       DEF SocksNext, socksVars

\* An address has at most one client, and that is in the table or its getter holds the lock
\* (SocksClients::get).
THEOREM ClientsAreShared == SocksSpec => []OneClientPerAddress
  <1>1. CacheInv => OneClientPerAddress
    BY DEF CacheInv, ClientsCounted, OneClientPerAddress
  <1> QED BY CacheStarts, CacheKept, <1>1, PTL DEF SocksSpec

-----------------------------------------------------------------------------
RouteType ==
    [to : Destination \cup {Nobody}, from : Source \cup {Nobody}, queued : Nat]

TableInv ==
    /\ table \subseteq Destination \X Route
    /\ IsFiniteSet(table) /\ Cardinality(table) <= RouteCapacity
    /\ \A k \in table : route[k[2]].to = k[1]

\* A route that runs is the one in the table for its destination.
RunningInv ==
    \A n \in Route : Running(n) =>
        /\ {k \in table : k[1] = route[n].to} = {<<route[n].to, n>>}
        /\ route[n].from = association.source /\ association.source \in Source
        /\ association.at = "open"

AssociationType == [at : {"none", "open", "over"}, source : Source \cup {Nobody}]

RouteInv ==
    /\ route \in [Route -> RouteType]
    /\ association \in AssociationType
    /\ TableInv /\ RunningInv
    /\ ~ unserved

LEMMA RoutesStart == SocksInit => RouteInv
  <1> SUFFICES ASSUME SocksInit PROVE RouteInv
    OBVIOUS
  <1>1. TableInv
    BY FS_EmptySet, SocksAssumption DEF SocksInit, TableInv
  <1>2. RunningInv
    BY DEF SocksInit, RunningInv, Running, Getter
  <1>3. route \in [Route -> RouteType]
    BY DEF SocksInit, RouteType, NotRouted
  <1> QED BY <1>1, <1>2, <1>3 DEF SocksInit, RouteInv, AssociationType

\* A step in which routes at most end.
LEMMA RoutesEnd ==
    ASSUME RouteInv, UNCHANGED <<association, table, unserved>>,
           route' \in [Route -> RouteType],
           \A n \in Route : route'[n].to = route[n].to /\ route'[n].from = route[n].from,
           \A n \in Route : place'[n] \notin {"idle", "over"} => Running(n)
    PROVE  RouteInv'
  <1>1. TableInv'
    BY DEF RouteInv, TableInv
  <1>2. RunningInv'
    <2> SUFFICES ASSUME NEW n \in Route, place'[n] \notin {"idle", "over"}
                 PROVE  /\ {k \in table : k[1] = route'[n].to} = {<<route'[n].to, n>>}
                        /\ route'[n].from = association.source
                        /\ association.source \in Source /\ association.at = "open"
      BY DEF RunningInv, Running
    <2> QED BY DEF RouteInv, RunningInv
  <1> QED BY <1>1, <1>2 DEF RouteInv

LEMMA RetainedSound ==
    ASSUME RouteInv
    PROVE  /\ Retained \subseteq table /\ IsFiniteSet(Retained)
           /\ Cardinality(Retained) \in Nat /\ Cardinality(Retained) <= RouteCapacity
           /\ \A n \in Route : Running(n) => <<route[n].to, n>> \in Retained
           /\ \A k \in Retained : Running(k[2])
           /\ \A d : For(d) = {n \in Route : Running(n) /\ route[n].to = d}
  <1>1. Retained \subseteq table
    BY DEF Retained
  <1>2. /\ IsFiniteSet(Retained) /\ Cardinality(Retained) \in Nat
        /\ Cardinality(Retained) <= RouteCapacity
    <2>1. IsFiniteSet(Retained) /\ Cardinality(Retained) <= Cardinality(table)
      BY <1>1, FS_Subset DEF RouteInv, TableInv
    <2>2. Cardinality(Retained) \in Nat /\ Cardinality(table) \in Nat
      BY <2>1, FS_CardinalityType DEF RouteInv, TableInv
    <2> QED BY <2>1, <2>2, SocksAssumption DEF RouteInv, TableInv
  <1>3. \A n \in Route : Running(n) => <<route[n].to, n>> \in Retained
    BY DEF Retained, RouteInv, RunningInv
  <1>4. \A k \in Retained : Running(k[2])
    BY DEF Retained
  <1>5. \A d : For(d) = {n \in Route : Running(n) /\ route[n].to = d}
    <2>1. \A k \in Retained : k[2] \in Route /\ Running(k[2]) /\ route[k[2]].to = k[1]
      BY <1>1, <1>4 DEF RouteInv, TableInv
    <2>2. SUFFICES ASSUME NEW d, NEW n
                   PROVE  n \in For(d) <=> n \in Route /\ Running(n) /\ route[n].to = d
      OBVIOUS
    <2>3. ASSUME n \in For(d) PROVE n \in Route /\ Running(n) /\ route[n].to = d
      <3>1. PICK k \in Retained : k[1] = d /\ k[2] = n
        BY <2>3 DEF For
      <3> QED BY <2>1, <3>1
    <2>4. ASSUME n \in Route, Running(n), route[n].to = d PROVE n \in For(d)
      <3>1. <<d, n>> \in Retained /\ <<d, n>>[1] = d /\ <<d, n>>[2] = n
        BY <1>3, <2>4
      <3>2. <<d, n>> \in {j \in Retained : j[1] = d}
        BY <3>1
      <3> QED BY <3>1, <3>2 DEF For
    <2> QED BY <2>3, <2>4
  <1> QED BY <1>1, <1>2, <1>3, <1>4, <1>5

\* A table that is full of routes that run is as large as their number.
LEMMA FullOfRunning ==
    ASSUME RouteInv, NEW live, live = {n \in Route : Running(n)}
    PROVE  Cardinality(live) \in Nat /\ Cardinality(Retained) <= Cardinality(live)
  <1>1. IsFiniteSet(live) /\ Cardinality(live) \in Nat
    <2>1. IsFiniteSet(Route)
      BY FS_Interval, SocksAssumption DEF Route
    <2> QED BY <2>1, FS_Subset, FS_CardinalityType
  <1> DEFINE f == [k \in Retained |-> k[2]]
  <1>2. \A k \in Retained : k[2] \in live /\ k = <<route[k[2]].to, k[2]>>
    BY RetainedSound DEF RouteInv, TableInv
  <1>3. f \in Injection(Retained, live)
    BY <1>2 DEF Injection, IsInjective
  <1> QED BY <1>1, <1>3, FS_Injection

LEMMA PacketKeeps ==
    ASSUME CacheInv, RouteInv, NEW s \in Source, NEW d \in Destination, NEW a \in Address,
           Packet(s, d, a)
    PROVE  RouteInv'
  <1> USE DEF RouteInv
  <1> DEFINE live == {n \in Route : Running(n)}
  <1>1. /\ association.at = "open" /\ association' = [association EXCEPT !.source = s]
        /\ association.source \in {Nobody, s}
    BY DEF Packet, FromSource
  <1>2. /\ association' \in AssociationType
        /\ association'.source = s /\ association'.at = "open"
    BY <1>1 DEF AssociationType
  <1>3. \A n \in Route : Running(n) => association'.source = association.source
    BY <1>1, <1>2, SocksAssumption DEF RunningInv
  <1>4. CASE For(d) # {}
    <2>1. PICK n \in For(d) :
             /\ route' = IF Running(n) /\ route[n].queued < RouteQueue
                         THEN [route EXCEPT ![n].queued = @ + 1] ELSE route
             /\ unserved' = (unserved \/ (Room(d) /\ route' = route))
             /\ table' = Retained /\ UNCHANGED place
      BY <1>4 DEF Packet
    <2>2. n \in Route /\ Running(n) /\ route[n].to = d
      BY RetainedSound
    <2>3. \A m \in Route : Running(m) /\ route[m].to = d => m = n
      <3> SUFFICES ASSUME NEW m \in Route, Running(m), route[m].to = d PROVE m = n
        OBVIOUS
      <3>1. {k \in table : k[1] = d} = {<<d, n>>} /\ {k \in table : k[1] = d} = {<<d, m>>}
        BY <2>2 DEF RunningInv
      <3>2. <<d, m>> = <<d, n>>
        BY <3>1
      <3> QED BY <3>2
    <2>4. ~ unserved'
      <3>1. CASE route[n].queued < RouteQueue
        <4>1. route'[n].queued = route[n].queued + 1 /\ route[n].queued \in Nat
          BY <2>1, <2>2, <3>1 DEF RouteType
        <4>2. route' # route
          BY <4>1
        <4> QED BY <2>1, <4>2
      <3>2. CASE ~ route[n].queued < RouteQueue
        <4>1. ~ Room(d)
          BY <2>2, <2>3, <3>2 DEF Room
        <4> QED BY <2>1, <4>1
      <3> QED BY <3>1, <3>2
    <2>5. /\ route' \in [Route -> RouteType]
          /\ \A m \in Route : route'[m].to = route[m].to /\ route'[m].from = route[m].from
      BY <2>1, <2>2 DEF RouteType
    <2>6. TableInv'
      BY <2>1, <2>5, RetainedSound DEF TableInv
    <2>7. RunningInv'
      <3> SUFFICES ASSUME NEW m \in Route, Running(m)
                   PROVE  /\ {k \in Retained : k[1] = route[m].to} = {<<route[m].to, m>>}
                          /\ route[m].from = association'.source
                          /\ association'.source \in Source /\ association'.at = "open"
        BY <2>1, <2>5 DEF RunningInv, Running
      <3>1. <<route[m].to, m>> \in Retained /\ Retained \subseteq table
        BY RetainedSound
      <3>2. {k \in table : k[1] = route[m].to} = {<<route[m].to, m>>}
        BY DEF RunningInv
      <3>3. route[m].from = association.source /\ association.source \in Source
        BY DEF RunningInv
      <3> QED BY <1>2, <1>3, <3>1, <3>2, <3>3
    <2> QED BY <1>2, <2>4, <2>5, <2>6, <2>7
  <1>5. CASE For(d) = {} /\ Cardinality(Retained) >= RouteCapacity
    <2>1. /\ table' = Retained /\ unserved' = (unserved \/ Room(d))
          /\ UNCHANGED <<place, route>>
      BY <1>5, RetainedSound, SocksAssumption DEF Packet
    <2>2. ~ unserved'
      <3>1. ~ \E n \in live : route[n].to = d
        BY <1>5, RetainedSound
      <3>2. Room(d) <=> Cardinality(live) < RouteCapacity
        BY <3>1 DEF Room
      <3>3. Cardinality(live) \in Nat /\ Cardinality(Retained) <= Cardinality(live)
        BY FullOfRunning
      <3>4. ~ (Cardinality(live) < RouteCapacity)
        BY <1>5, <3>3, RetainedSound, SocksAssumption
      <3> QED BY <2>1, <3>2, <3>4
    <2>3. TableInv'
      BY <2>1, RetainedSound DEF TableInv
    <2>4. RunningInv'
      <3> SUFFICES ASSUME NEW m \in Route, Running(m)
                   PROVE  /\ {k \in Retained : k[1] = route[m].to} = {<<route[m].to, m>>}
                          /\ route[m].from = association'.source
                          /\ association'.source \in Source /\ association'.at = "open"
        BY <2>1 DEF RunningInv, Running
      <3>1. <<route[m].to, m>> \in Retained /\ Retained \subseteq table
        BY RetainedSound
      <3>2. {k \in table : k[1] = route[m].to} = {<<route[m].to, m>>}
        BY DEF RunningInv
      <3>3. route[m].from = association.source /\ association.source \in Source
        BY DEF RunningInv
      <3> QED BY <1>2, <1>3, <3>1, <3>2, <3>3
    <2> QED BY <1>2, <2>1, <2>2, <2>3, <2>4
  <1>6. CASE For(d) = {} /\ ~ Cardinality(Retained) >= RouteCapacity
    <2> DEFINE new == NextRoute
    <2>1. /\ new \in Route /\ table' = Retained \cup {<<d, new>>}
          /\ route' = [route EXCEPT ![new] = [to |-> d, from |-> s, queued |-> 1]]
          /\ place' = [place EXCEPT ![new] = "wait"] /\ UNCHANGED unserved
      BY <1>6, RetainedSound DEF Packet, Moves
    <2>2. ~ Running(new)
      BY <2>1, NextIsIdle DEF Running, CacheInv
    <2>3. /\ route' \in [Route -> RouteType] /\ route'[new].to = d /\ route'[new].from = s
          /\ \A m \in Route \ {new} : route'[m] = route[m]
      BY <2>1 DEF RouteType
    <2>4. TableInv'
      <3>1. table' \subseteq Destination \X Route
        BY <2>1, RetainedSound DEF TableInv
      <3>2. IsFiniteSet(table') /\ Cardinality(table') <= RouteCapacity
        <4>1. /\ IsFiniteSet(table')
              /\ \/ Cardinality(table') = Cardinality(Retained)
                 \/ Cardinality(table') = Cardinality(Retained) + 1
          BY <2>1, RetainedSound, FS_AddElement
        <4> QED BY <1>6, <4>1, RetainedSound, SocksAssumption
      <3>3. \A k \in table' : route'[k[2]].to = k[1]
        BY <2>1, <2>2, <2>3, RetainedSound DEF TableInv
      <3> QED BY <3>1, <3>2, <3>3 DEF TableInv
    <2>5. RunningInv'
      <3> SUFFICES ASSUME NEW m \in Route, place'[m] \notin {"idle", "over"}
                   PROVE  /\ {k \in table' : k[1] = route'[m].to} = {<<route'[m].to, m>>}
                          /\ route'[m].from = association'.source
                          /\ association'.source \in Source /\ association'.at = "open"
        BY DEF RunningInv, Running
      <3>1. CASE m = new
        <4>1. \A k \in Retained : k[1] # d
          BY <1>6 DEF For
        <4> QED BY <1>2, <2>1, <2>3, <3>1, <4>1
      <3>2. CASE m # new
        <4>1. Running(m) /\ route'[m] = route[m]
          BY <2>1, <2>3, <3>2 DEF Running, CacheInv
        <4>2. <<route[m].to, m>> \in Retained /\ Retained \subseteq table
          BY <4>1, RetainedSound
        <4>3. {k \in table : k[1] = route[m].to} = {<<route[m].to, m>>}
          BY <4>1 DEF RunningInv
        <4>4. route[m].to # d
          BY <1>6, <4>1, RetainedSound
        <4>5. route[m].from = association.source /\ association.source \in Source
          BY <4>1 DEF RunningInv
        <4> QED BY <1>2, <1>3, <2>1, <4>1, <4>2, <4>3, <4>4, <4>5
      <3> QED BY <3>1, <3>2
    <2> QED BY <1>2, <2>1, <2>3, <2>4, <2>5
  <1> QED BY <1>4, <1>5, <1>6

LEMMA RoutesKept == CacheInv /\ RouteInv /\ [SocksNext]_socksVars => RouteInv'
  <1> SUFFICES ASSUME CacheInv, RouteInv, [SocksNext]_socksVars PROVE RouteInv'
    OBVIOUS
  <1>1. (\A c \in Connection : c \in Getter /\ c \notin Route) /\ Route \subseteq Getter
    BY SocksAssumption DEF Getter
  <1>2. ASSUME UNCHANGED udpVars, NEW g \in Getter, NEW p, Moves(g, p),
               g \in Route => Running(g) \/ p = "over"
        PROVE  RouteInv'
    <2>1. \A n \in Route : place'[n] \notin {"idle", "over"} => Running(n)
      BY <1>1, <1>2 DEF Moves, CacheInv, Running
    <2> QED BY <1>2, <2>1, RoutesEnd DEF udpVars, RouteInv
  <1>3. ASSUME NEW c \in Connection,
               \/ Accept(c) \/ NegotiationFails(c) \/ DialTimeout(c)
               \/ \E a \in Address : Request(c, a)
        PROVE  RouteInv'
    <2>1. UNCHANGED udpVars /\ \E p \in Places : Moves(c, p)
      BY <1>3 DEF Accept, NegotiationFails, DialTimeout, Request, Places
    <2> QED BY <1>1, <1>2, <2>1
  <1>4. ASSUME NEW g \in Getter, Get(g) \/ Connected(g) \/ Fails(g) \/ Dialed(g) \/ Ends(g)
        PROVE  RouteInv'
    <2>1. /\ UNCHANGED udpVars /\ place[g] \notin {"idle", "over"}
          /\ \E p \in Places : Moves(g, p)
      BY <1>4 DEF Get, Connected, Fails, Dialed, Ends, Places
    <2> QED BY <1>2, <2>1 DEF Running
  <1>5. ASSUME NEW s \in Source \cup {Nobody}, Associate(s) PROVE RouteInv'
    <2>1. /\ association.at = "none" /\ association' = [at |-> "open", source |-> s]
          /\ UNCHANGED <<place, table, route, unserved>>
      BY <1>5 DEF Associate
    <2>2. \A n \in Route : ~ Running(n)
      BY <2>1 DEF RouteInv, RunningInv
    <2>3. RunningInv'
      BY <2>1, <2>2 DEF RunningInv, Running
    <2>4. TableInv'
      BY <2>1 DEF RouteInv, TableInv
    <2>5. association' \in AssociationType
      BY <2>1 DEF AssociationType
    <2> QED BY <2>1, <2>3, <2>4, <2>5 DEF RouteInv
  <1>6. ASSUME NEW s \in Source, NEW d \in Destination, NEW a \in Address, Packet(s, d, a)
        PROVE  RouteInv'
    BY <1>6, PacketKeeps
  <1>7. ASSUME NEW n \in Route, RouteSends(n) PROVE RouteInv'
    <2>1. /\ route[n].queued > 0 /\ route' = [route EXCEPT ![n].queued = @ - 1]
          /\ UNCHANGED <<place, association, table, unserved>>
      BY <1>7 DEF RouteSends
    <2>2. route[n].queued - 1 \in Nat
      BY <2>1 DEF RouteInv, RouteType
    <2>3. /\ route' \in [Route -> RouteType]
          /\ \A m \in Route : route'[m].to = route[m].to /\ route'[m].from = route[m].from
      BY <2>1, <2>2 DEF RouteInv, RouteType
    <2> QED BY <2>1, <2>3, RoutesEnd DEF Running
  <1>8. CASE Dissociate
    <2>1. /\ association' = [association EXCEPT !.at = "over"] /\ table' = {}
          /\ place' = [g \in Getter |-> IF g \in Started THEN "over" ELSE place[g]]
          /\ UNCHANGED <<route, unserved>>
      BY <1>8 DEF Dissociate
    <2>2. \A n \in Route : place'[n] \in {"idle", "over"}
      BY <1>1, <2>1 DEF Started
    <2>3. RunningInv'
      BY <2>2 DEF RunningInv, Running
    <2>4. TableInv'
      BY <2>1, FS_EmptySet, SocksAssumption DEF TableInv
    <2>5. association' \in AssociationType
      BY <2>1 DEF RouteInv, AssociationType
    <2> QED BY <2>1, <2>3, <2>4, <2>5 DEF RouteInv
  <1>9. CASE UNCHANGED socksVars
    BY <1>9, RoutesEnd DEF RouteInv, socksVars, udpVars, Running
  <1> QED BY <1>3, <1>4, <1>5, <1>6, <1>7, <1>8, <1>9 DEF SocksNext

\* The routes that run are those in the table, one for a destination, they reply to the
\* source of the association, and a packet is dropped only for want of room (socks_udp).
THEOREM RoutesAnswerTheirSource == SocksSpec => []RoutesSound
  <1>1. CacheInv /\ RouteInv => RoutesSound
    BY DEF RouteInv, TableInv, RunningInv, RoutesSound
  <1> QED BY CacheStarts, CacheKept, RoutesStart, RoutesKept, <1>1, PTL DEF SocksSpec

-----------------------------------------------------------------------------
(*****************************************************************************)
(* BrowserEngine, for any number of handles and generations.  A handle is    *)
(* used again for another connection, so what a link holds is tied to its    *)
(* generation and, where the socket may still receive, to its flow.          *)
(*****************************************************************************)

Socket == {"opening", "open", "remoteEnd", "finishing", "finished", "closed"}

Link ==
    [generation : Generation, flow : Flow \cup {"dialed"}, notified : BOOLEAN,
     appClosed : BOOLEAN, socket : Socket, rx : SUBSET Generation]

\* What a handle may hold: a link has input of its own generation only.
Good(l) == l = NoLink \/ (l \in Link /\ l.rx \subseteq {l.generation})

\* Two links of one flow are not both in use.
FlowsApart(f) ==
    \A h, k \in Handle :
        f[h] # NoLink /\ f[k] # NoLink /\ h # k /\ f[h].flow = f[k].flow =>
            f[h].socket = "closed" \/ f[k].socket = "closed"

BrowserType ==
    /\ listener \in BOOLEAN
    /\ nextGeneration \in Nat \ {0}
    /\ links \in [Handle -> {NoLink} \cup Link] /\ \A h \in Handle : Good(links[h])
    /\ conns \subseteq [handle : Handle, generation : Generation]
    /\ got \in [Generation -> SUBSET Generation]

\* Until a dial begins its engine has no link.
Dialing ==
    /\ dial = [at |-> dial.at, handle |-> dial.handle, generation |-> dial.generation]
    /\ dial.at \in {"dialing", "connected"} =>
          dial.handle \in Handle /\ dial.generation \in Generation
    /\ dial.at = "handshake" => ~ listener /\ \A h \in Handle : links[h] = NoLink
    /\ dial.at = "timedOut" => engineClosed
    /\ engineClosed => \A h \in Handle : links[h] = NoLink

Closing(f, closed) ==
    \A h \in Handle : f[h] # NoLink /\ f[h].appClosed => f[h].generation \in closed

BrowserInv ==
    /\ BrowserType /\ Dialing /\ FlowsApart(links) /\ Closing(links, closedBy)
    /\ \A g \in Generation : got[g] \subseteq {g}

-----------------------------------------------------------------------------
LEMMA LinkParts ==
    ASSUME NEW l \in Link
    PROVE  l # NoLink
  <1>1. l.generation \in 1 .. MaxGenerations
    BY DEF Link, Generation
  <1>2. l.generation # 0
    BY <1>1, BrowserAssumption
  <1> QED BY <1>2 DEF NoLink

\* A link that was there: r is what became of l.
From(r, l) ==
    r = NoLink \/ (/\ l # NoLink /\ r \in Link /\ r.rx \subseteq {r.generation}
                   /\ r.generation = l.generation /\ r.flow = l.flow
                   /\ (l.socket = "closed" => r.socket = "closed"))

LEMMA FromKeeps ==
    ASSUME NEW f, NEW g, \A h \in Handle : From(g[h], f[h]), FlowsApart(f)
    PROVE  FlowsApart(g)
  BY DEF FlowsApart, From

LEMMA FromSame ==
    ASSUME NEW l, Good(l) PROVE From(l, l)
  BY DEF From, Good

\* No link of a flow is in use.
Unused(f) == \A k \in Handle : links[k] # NoLink /\ links[k].flow = f => links[k].socket = "closed"

Adds(g, h, f) == g = [links EXCEPT ![h] = NewLink(f)]

\* A new link belongs to a flow that no other link in use has.
LEMMA NewLinkKeeps ==
    ASSUME BrowserType, FlowsApart(links), nextGeneration \in Generation, NEW h \in Handle,
           NEW f \in Flow \cup {"dialed"}, Unused(f), NEW g, Adds(g, h, f)
    PROVE  /\ g \in [Handle -> {NoLink} \cup Link] /\ \A k \in Handle : Good(g[k])
           /\ FlowsApart(g)
           /\ g[h].flow = f /\ g[h].generation = nextGeneration /\ ~ g[h].appClosed
           /\ \A k \in Handle \ {h} : g[k] = links[k]
  <1>1. PICK l \in Link : l = NewLink(f)
    <2>1. (~ listener) \in BOOLEAN /\ FALSE \in BOOLEAN
      OBVIOUS
    <2>2. "opening" \in Socket /\ {} \in SUBSET Generation
      BY DEF Socket
    <2>3. NewLink(f) \in Link
      BY <2>1, <2>2, Zenon DEF NewLink, Link
    <2> QED BY <2>3
  <1>2. l.flow = f /\ l.generation = nextGeneration /\ l.appClosed = FALSE /\ l.rx = {}
    BY <1>1 DEF NewLink
  <1>3. g[h] = l /\ g \in [Handle -> {NoLink} \cup Link] /\ \A k \in Handle \ {h} : g[k] = links[k]
    BY <1>1 DEF BrowserType, Adds
  <1>4. \A k \in Handle : Good(g[k])
    BY <1>2, <1>3 DEF Good, BrowserType
  <1>5. FlowsApart(g)
    <2>1. ASSUME NEW k \in Handle, NEW m \in Handle, g[k] # NoLink, g[m] # NoLink, k # m,
                 g[k].flow = g[m].flow
          PROVE  g[k].socket = "closed" \/ g[m].socket = "closed"
      <3>1. CASE k = h
        BY <1>2, <1>3, <2>1, <3>1 DEF Unused
      <3>2. CASE m = h
        BY <1>2, <1>3, <2>1, <3>2 DEF Unused
      <3>3. CASE k # h /\ m # h
        BY <1>3, <2>1, <3>3 DEF FlowsApart
      <3> QED BY <3>1, <3>2, <3>3
    <2> QED BY <2>1 DEF FlowsApart
  <1> QED BY <1>2, <1>3, <1>4, <1>5

\* What the network does to the links.
LEMMA EventLinks ==
    ASSUME BrowserType, FlowsApart(links), NEW new \in Events
    PROVE  /\ new \in [Handle -> {NoLink} \cup Link] /\ \A h \in Handle : Good(new[h])
           /\ FlowsApart(new)
           /\ \A h \in Handle : new[h] # NoLink /\ new[h].appClosed =>
                 /\ links[h] # NoLink /\ links[h].appClosed
                 /\ new[h].generation = links[h].generation
           /\ ~ listener => \A h \in Handle : links[h] = NoLink => new[h] = NoLink
  <1> DEFINE Result ==
           /\ new \in [Handle -> {NoLink} \cup Link] /\ \A h \in Handle : Good(new[h])
           /\ FlowsApart(new)
           /\ \A h \in Handle : new[h] # NoLink /\ new[h].appClosed =>
                 /\ links[h] # NoLink /\ links[h].appClosed
                 /\ new[h].generation = links[h].generation
           /\ ~ listener => \A h \in Handle : links[h] = NoLink => new[h] = NoLink
  <1>1. CASE new = links
    BY <1>1 DEF BrowserType
  <1>2. CASE new \in Syns
    <2>1. PICK h \in Free, f \in {g \in Flow : listener /\ nextGeneration \in Generation /\ Unlinked(g)} :
             Adds(new, h, f)
      BY <1>2 DEF Syns, Adds
    <2>2. Unused(f)
      BY <2>1 DEF Unlinked, Free, Has, Unused
    <2>3. h \in Handle /\ f \in Flow \cup {"dialed"} /\ nextGeneration \in Generation /\ listener
      BY <2>1 DEF Free
    <2>4. /\ new \in [Handle -> {NoLink} \cup Link] /\ \A k \in Handle : Good(new[k])
          /\ FlowsApart(new) /\ ~ new[h].appClosed
          /\ \A k \in Handle \ {h} : new[k] = links[k]
      BY <2>1, <2>2, <2>3, NewLinkKeeps
    <2> QED BY <2>3, <2>4
  <1>3. ASSUME NEW h \in Handle \ Free, NEW l \in Link, new = [links EXCEPT ![h] = l],
               l.flow = links[h].flow, l.generation = links[h].generation,
               l.appClosed = links[h].appClosed, l.rx \subseteq {l.generation},
               links[h].socket = "closed" => l.socket = "closed"
        PROVE  Result
    <2>1. new \in [Handle -> {NoLink} \cup Link] /\ new[h] = l /\ \A k \in Handle \ {h} : new[k] = links[k]
      BY <1>3 DEF BrowserType
    <2>2. links[h] # NoLink
      BY DEF Free, Has
    <2>3. \A k \in Handle : From(new[k], links[k])
      BY <1>3, <2>1, <2>2, FromSame DEF From, BrowserType
    <2>4. FlowsApart(new)
      BY <2>3, FromKeeps
    <2>5. \A k \in Handle : Good(new[k])
      BY <1>3, <2>1 DEF Good, BrowserType
    <2> QED BY <1>3, <2>1, <2>2, <2>4, <2>5
  <1>4. ASSUME NEW h \in Handle \ Free, NEW s \in Socket, new = [links EXCEPT ![h].socket = s],
               links[h].socket = "closed" => s = "closed"
        PROVE  Result
    <2>1. links[h] \in Link /\ links[h].rx \subseteq {links[h].generation}
      BY DEF BrowserType, Free, Has, Good
    <2>2. PICK l \in Link : l = [links[h] EXCEPT !.socket = s]
      BY <2>1 DEF Link
    <2>3. /\ l.flow = links[h].flow /\ l.generation = links[h].generation /\ l.socket = s
          /\ l.appClosed = links[h].appClosed /\ l.rx = links[h].rx
      BY <2>1, <2>2 DEF Link
    <2>4. new = [links EXCEPT ![h] = l]
      BY <1>4, <2>2
    <2> QED BY <1>3, <1>4, <2>1, <2>3, <2>4
  <1>5. ASSUME NEW h \in In({"open", "finishing", "finished"}),
               new = [links EXCEPT ![h].rx = {links[h].generation}]
        PROVE  Result
    <2>0. h \in Handle \ Free
      BY DEF In
    <2>1. links[h] \in Link
      BY <2>0 DEF BrowserType, Free, Has, Good
    <2>2. PICK l \in Link : l = [links[h] EXCEPT !.rx = {links[h].generation}]
      BY <2>1 DEF Link
    <2>3. /\ l.flow = links[h].flow /\ l.generation = links[h].generation
          /\ l.socket = links[h].socket
          /\ l.appClosed = links[h].appClosed /\ l.rx = {links[h].generation}
      BY <2>1, <2>2 DEF Link
    <2>4. new = [links EXCEPT ![h] = l]
      BY <1>5, <2>2
    <2> QED BY <1>3, <2>0, <2>3, <2>4
  <1>6. /\ "open" \in Socket /\ "remoteEnd" \in Socket /\ "finished" \in Socket
        /\ "closed" \in Socket
    BY DEF Socket
  <1>7. ASSUME NEW states, NEW h \in In(states), "closed" \notin states
        PROVE  h \in Handle \ Free /\ links[h].socket # "closed"
    BY <1>7 DEF In
  <1>8. CASE \E h \in In({"opening"}) : new = [links EXCEPT ![h].socket = "open"]
    BY <1>4, <1>6, <1>7, <1>8
  <1>9. CASE \E h \in In({"open"}) : new = [links EXCEPT ![h].socket = "remoteEnd"]
    BY <1>4, <1>6, <1>7, <1>9
  <1>10. CASE \E h \in In({"finishing"}) : new = [links EXCEPT ![h].socket = "finished"]
    BY <1>4, <1>6, <1>7, <1>10
  <1>11. CASE \E h \in Handle \ Free : new = [links EXCEPT ![h].socket = "closed"]
    BY <1>4, <1>6, <1>11
  <1> QED BY <1>1, <1>2, <1>5, <1>8, <1>9, <1>10, <1>11 DEF Events

-----------------------------------------------------------------------------
\* What the rest of a tick makes of a link: only closed ones lose the program's.
LEMMA SweptLinks ==
    ASSUME NEW new \in [Handle -> {NoLink} \cup Link], \A h \in Handle : Good(new[h]),
           NEW late, NEW h \in Handle
    PROVE  /\ From(Swept(new, late)[h], new[h])
           /\ Swept(new, late)[h] # NoLink /\ Swept(new, late)[h].appClosed =>
                 new[h].appClosed \/ h \in late
  <1> DEFINE l == new[h]
             r == Consumed(l)
             a == IF h \in late THEN Aborted(r) ELSE r
  <1>1. Swept(new, late)[h] = IF l = NoLink THEN NoLink ELSE Kept(a)
    BY DEF Swept
  <1>2. CASE l = NoLink
    BY <1>1, <1>2 DEF From
  <1>3. CASE l # NoLink
    <2>1. l \in Link /\ l.rx \subseteq {l.generation}
      BY <1>3 DEF Good
    <2>2. /\ r \in Link /\ r.rx \subseteq {r.generation} /\ r.generation = l.generation
          /\ r.flow = l.flow /\ r.socket = l.socket /\ r.appClosed = l.appClosed
      BY <2>1 DEF Consumed, Link
    <2> HIDE DEF r
    <2>3. TRUE \in BOOLEAN /\ "closed" \in Socket
      BY DEF Socket
    <2>4. /\ a \in Link /\ a.rx \subseteq {a.generation} /\ a.generation = l.generation
          /\ a.flow = l.flow /\ (l.socket = "closed" => a.socket = "closed")
          /\ (a.appClosed => l.appClosed \/ h \in late)
      BY <2>2, <2>3 DEF Aborted, Link
    <2> HIDE DEF a
    <2>5. Swept(new, late)[h] = NoLink \/ Swept(new, late)[h] = a
      BY <1>1 DEF Kept
    <2> QED BY <1>3, <2>4, <2>5 DEF From
  <1> QED BY <1>2, <1>3

LEMMA ClosedHereLink ==
    ASSUME NEW l \in Link
    PROVE  /\ ClosedHere(l) \in Link /\ ClosedHere(l).rx = l.rx
           /\ ClosedHere(l).generation = l.generation /\ ClosedHere(l).flow = l.flow
           /\ ClosedHere(l).appClosed = l.appClosed
           /\ (l.socket = "closed" => ClosedHere(l).socket = "closed")
  <1>1. PICK s \in Socket :
           /\ s = IF l.socket = "opening" THEN "closed"
                  ELSE IF l.socket \in {"open", "remoteEnd"} THEN "finishing" ELSE l.socket
           /\ l.socket = "closed" => s = "closed"
    BY DEF Link, Socket
  <1>2. ClosedHere(l) = [l EXCEPT !.socket = s]
    BY <1>1 DEF ClosedHere
  <1> QED BY <1>1, <1>2 DEF Link

LEMMA ToldLinks ==
    ASSUME NEW swept, NEW h \in Handle, Good(swept[h]), NEW failed \in BOOLEAN
    PROVE  /\ From(Told(swept, failed)[h], swept[h])
           /\ Told(swept, failed)[h] # NoLink /\ Told(swept, failed)[h].appClosed =>
                 swept[h].appClosed \/ (failed /\ h \in Arrived(swept))
  <1>1. CASE h \notin Arrived(swept)
    <2>1. Told(swept, failed)[h] = swept[h]
      BY <1>1 DEF Told
    <2> QED BY <2>1, FromSame
  <1>2. CASE h \in Arrived(swept)
    <2>1. swept[h] # NoLink
      BY <1>2 DEF Arrived
    <2>2. swept[h] \in Link /\ swept[h].rx \subseteq {swept[h].generation}
      BY <2>1 DEF Good
    <2>3. PICK l \in Link : l = [swept[h] EXCEPT !.notified = TRUE]
      BY <2>2 DEF Link
    <2>4. /\ l.rx = swept[h].rx /\ l.generation = swept[h].generation /\ l.flow = swept[h].flow
          /\ l.socket = swept[h].socket /\ l.appClosed = swept[h].appClosed
      BY <2>2, <2>3 DEF Link
    <2>5. Told(swept, failed)[h] =
             IF failed THEN [ClosedHere(l) EXCEPT !.appClosed = TRUE] ELSE l
      BY <1>2, <2>3 DEF Told
    <2>6. CASE ~ failed
      BY <2>1, <2>2, <2>4, <2>5, <2>6 DEF From
    <2>7. CASE failed
      <3>1. PICK c \in Link : c = ClosedHere(l)
        BY ClosedHereLink
      <3>2. /\ c.rx = l.rx /\ c.generation = l.generation /\ c.flow = l.flow
            /\ (l.socket = "closed" => c.socket = "closed")
        BY <3>1, ClosedHereLink
      <3>3. PICK d \in Link : d = [c EXCEPT !.appClosed = TRUE]
        BY DEF Link
      <3>4. d.rx = c.rx /\ d.generation = c.generation /\ d.flow = c.flow /\ d.socket = c.socket
        BY <3>3 DEF Link
      <3>5. Told(swept, failed)[h] = d
        BY <2>5, <2>7, <3>1, <3>3
      <3> QED BY <1>2, <2>1, <2>2, <2>4, <2>7, <3>2, <3>4, <3>5 DEF From
    <2> QED BY <2>6, <2>7
  <1> QED BY <1>1, <1>2

-----------------------------------------------------------------------------
LEMMA TickStep ==
    ASSUME BrowserInv, NEW new \in Events, NEW late, NEW failed \in BOOLEAN,
           Tick(new, late, failed)
    PROVE  BrowserInv'
  <1> DEFINE swept == Swept(new, late)
             arrived == Arrived(swept)
  <1>1. /\ ~ engineClosed /\ links' = Told(swept, failed)
        /\ nextGeneration' = nextGeneration + (IF new \in Syns THEN 1 ELSE 0)
        /\ conns' = conns \cup {[handle |-> h, generation |-> new[h].generation] : h \in arrived}
        /\ closedBy' = closedBy \cup {new[h].generation :
                                         h \in late \cup (IF failed THEN arrived ELSE {})}
        /\ UNCHANGED <<listener, engineClosed, dial, got>>
    BY DEF Tick
  <1>2. BrowserType /\ FlowsApart(links) /\ Dialing /\ Closing(links, closedBy)
    BY DEF BrowserInv
  <1>3. /\ new \in [Handle -> {NoLink} \cup Link] /\ \A h \in Handle : Good(new[h])
        /\ FlowsApart(new)
        /\ \A h \in Handle : new[h] # NoLink /\ new[h].appClosed =>
              /\ links[h] # NoLink /\ links[h].appClosed
              /\ new[h].generation = links[h].generation
        /\ ~ listener => \A h \in Handle : links[h] = NoLink => new[h] = NoLink
    BY <1>2, EventLinks
  <1> HIDE DEF swept
  <1>4. ASSUME NEW h \in Handle
        PROVE  /\ From(swept[h], new[h])
               /\ swept[h] # NoLink /\ swept[h].appClosed => new[h].appClosed \/ h \in late
    BY <1>3, SweptLinks DEF swept
  <1>5. ASSUME NEW h \in Handle
        PROVE  /\ From(links'[h], swept[h])
               /\ links'[h] # NoLink /\ links'[h].appClosed =>
                     swept[h].appClosed \/ (failed /\ h \in arrived)
    <2>1. Good(swept[h])
      BY <1>4 DEF From, Good
    <2> QED BY <1>1, <2>1, ToldLinks
  <1>6. ASSUME NEW h \in Handle PROVE From(links'[h], new[h])
    BY <1>4, <1>5 DEF From
  <1>7. \A h \in arrived : h \in Handle /\ new[h] # NoLink
    BY <1>4 DEF Arrived, From
  <1>8. BrowserType'
    <2>1. links' \in [Handle -> {NoLink} \cup Link] /\ \A h \in Handle : Good(links'[h])
      <3>1. \A h \in Handle : links'[h] \in {NoLink} \cup Link /\ Good(links'[h])
        BY <1>6 DEF From, Good
      <3>2. links' = [h \in Handle |-> links'[h]]
        BY <1>1 DEF Told
      <3> QED BY <3>1, <3>2
    <2>2. nextGeneration' \in Nat \ {0}
      BY <1>1, <1>2 DEF BrowserType
    <2>3. conns' \subseteq [handle : Handle, generation : Generation]
      <3>1. ASSUME NEW h \in arrived
            PROVE  [handle |-> h, generation |-> new[h].generation]
                      \in [handle : Handle, generation : Generation]
        <4>1. h \in Handle /\ new[h] \in Link
          BY <1>3, <1>7
        <4> QED BY <4>1 DEF Link
      <3> QED BY <1>1, <1>2, <3>1 DEF BrowserType
    <2> QED BY <1>1, <1>2, <2>1, <2>2, <2>3 DEF BrowserType
  <1>9. Dialing'
    <2>1. dial.at = "handshake" => \A h \in Handle : links'[h] = NoLink
      BY <1>2, <1>3, <1>6 DEF Dialing, From
    <2> QED BY <1>1, <1>2, <2>1 DEF Dialing
  <1>10. FlowsApart(links')
    BY <1>3, <1>6, FromKeeps
  <1>11. Closing(links', closedBy')
    <2> SUFFICES ASSUME NEW h \in Handle, links'[h] # NoLink, links'[h].appClosed
                 PROVE  links'[h].generation \in closedBy'
      BY DEF Closing
    <2>1. links'[h].generation = new[h].generation /\ new[h] # NoLink /\ swept[h] # NoLink
      BY <1>5, <1>6 DEF From
    <2>2. CASE new[h].appClosed
      BY <1>1, <1>2, <1>3, <2>1, <2>2 DEF Closing
    <2>3. CASE h \in late \/ (failed /\ h \in arrived)
      BY <1>1, <2>1, <2>3
    <2> QED BY <1>4, <1>5, <2>1, <2>2, <2>3
  <1> QED BY <1>1, <1>8, <1>9, <1>10, <1>11 DEF BrowserInv

LEMMA CloseStep ==
    ASSUME BrowserInv, CloseEngine, UNCHANGED <<listener, conns, historyVars>>,
           dial' = dial \/ dial' = [dial EXCEPT !.at = "timedOut"]
    PROVE  BrowserInv'
  <1>1. links' = [h \in Handle |-> NoLink] /\ engineClosed' /\ UNCHANGED nextGeneration
    BY DEF CloseEngine
  <1>2. BrowserType'
    BY <1>1 DEF BrowserInv, BrowserType, Good, historyVars
  <1>3. Dialing'
    <2>1. CASE dial' = dial
      BY <1>1, <2>1 DEF BrowserInv, Dialing
    <2>2. CASE dial' = [dial EXCEPT !.at = "timedOut"]
      <3>1. dial' = [at |-> "timedOut", handle |-> dial.handle, generation |-> dial.generation]
        BY <2>2 DEF BrowserInv, Dialing
      <3> QED BY <1>1, <3>1 DEF Dialing
    <2> QED BY <2>1, <2>2
  <1>4. FlowsApart(links')
    BY <1>1 DEF FlowsApart
  <1>5. Closing(links', closedBy')
    BY <1>1 DEF Closing
  <1> QED BY <1>2, <1>3, <1>4, <1>5 DEF BrowserInv, historyVars

\* The link of h goes on as l, and the program may have closed the connections in c.
GoesOn(h, l, c) ==
    /\ h \in Handle /\ links[h] # NoLink /\ l \in Link
    /\ l.generation = links[h].generation /\ l.flow = links[h].flow /\ l.rx \subseteq links[h].rx
    /\ links[h].socket = "closed" => l.socket = "closed"
    /\ l.appClosed => links[h].appClosed \/ l.generation \in c
    /\ links' = [links EXCEPT ![h] = l]
    /\ closedBy' = closedBy \cup c
    /\ ~ engineClosed /\ UNCHANGED <<listener, engineClosed, nextGeneration, dial, conns>>

LEMMA LinkStep ==
    ASSUME BrowserInv, got' \in [Generation -> SUBSET Generation], NEW h, NEW l, NEW c,
           GoesOn(h, l, c)
    PROVE  BrowserType' /\ Dialing' /\ FlowsApart(links') /\ Closing(links', closedBy')
  <1> USE DEF GoesOn
  <1>1. /\ links' \in [Handle -> {NoLink} \cup Link] /\ links'[h] = l
        /\ \A k \in Handle \ {h} : links'[k] = links[k]
    BY DEF BrowserInv, BrowserType
  <1>2. links[h] \in Link /\ links[h].rx \subseteq {links[h].generation}
    BY DEF BrowserInv, BrowserType, Good
  <1>3. \A k \in Handle : Good(links'[k])
    BY <1>1, <1>2 DEF BrowserInv, BrowserType, Good
  <1>4. \A k \in Handle : From(links'[k], links[k])
    <2>1. From(l, links[h])
      BY <1>2 DEF From
    <2>2. \A k \in Handle : From(links[k], links[k])
      BY FromSame DEF BrowserInv, BrowserType
    <2> QED BY <1>1, <2>1, <2>2
  <1>5. FlowsApart(links')
    BY <1>4, FromKeeps DEF BrowserInv
  <1>6. Closing(links', closedBy')
    BY <1>1 DEF BrowserInv, Closing
  <1>7. Dialing'
    BY <1>1 DEF BrowserInv, Dialing
  <1> QED BY <1>1, <1>3, <1>5, <1>6, <1>7 DEF BrowserInv, BrowserType

LEMMA BrowserStep == BrowserInv /\ [BrowserNext]_browserVars => BrowserInv'
  <1> SUFFICES ASSUME BrowserInv, [BrowserNext]_browserVars PROVE BrowserInv'
    OBVIOUS
  <1>1. ASSUME NEW new \in Events, NEW late, NEW failed \in BOOLEAN, Tick(new, late, failed)
        PROVE  BrowserInv'
    BY <1>1, TickStep
  <1>2. links \in Events
    BY DEF Events
  <1>3. CASE UNCHANGED <<listener, engineClosed, links, nextGeneration, dial, conns, historyVars>>
    BY <1>3 DEF BrowserInv, BrowserType, Dialing, FlowsApart, Closing, historyVars
  <1>4. CASE Meowed \/ WsEnds \/ Reconnect \/ Reconnected \/ UNCHANGED browserVars
    BY <1>3, <1>4
       DEF Meowed, WsEnds, Reconnect, Reconnected, browserVars, engineVars, historyVars
  <1>5. CASE DrainedClose \/ CloseListener
    BY <1>5, CloseStep DEF DrainedClose, CloseListener
  <1>6. CASE DialTimesOut
    BY <1>6, CloseStep DEF DialTimesOut
  <1>7. CASE StartDial
    <2>1. PICK h \in Handle :
             /\ Adds(links', h, "dialed")
             /\ dial' = [at |-> "dialing", handle |-> h, generation |-> nextGeneration]
      BY <1>7 DEF StartDial, Adds
    <2>2. /\ ~ engineClosed /\ dial.at = "handshake" /\ nextGeneration \in Generation
          /\ nextGeneration' = nextGeneration + 1
          /\ UNCHANGED <<listener, engineClosed, conns, got, closedBy>>
      BY <1>7 DEF StartDial, historyVars
    <2>3. Unused("dialed")
      BY <2>2 DEF BrowserInv, Dialing, Unused
    <2>4. "dialed" \in Flow \cup {"dialed"} /\ BrowserType /\ FlowsApart(links)
      BY DEF BrowserInv
    <2>5. /\ links' \in [Handle -> {NoLink} \cup Link] /\ \A k \in Handle : Good(links'[k])
          /\ FlowsApart(links') /\ ~ links'[h].appClosed
          /\ \A k \in Handle \ {h} : links'[k] = links[k]
      BY <2>1, <2>2, <2>3, <2>4, NewLinkKeeps
    <2>6. nextGeneration' \in Nat \ {0}
      BY <2>2, BrowserAssumption DEF Generation
    <2>7. BrowserType'
      BY <2>2, <2>4, <2>5, <2>6 DEF BrowserType
    <2>8. Dialing'
      BY <2>1, <2>2 DEF Dialing
    <2>9. Closing(links', closedBy')
      BY <2>2, <2>5 DEF BrowserInv, Closing
    <2> QED BY <2>2, <2>5, <2>7, <2>8, <2>9 DEF BrowserInv
  <1>8. CASE DialConnects
    <2>1. /\ ~ engineClosed /\ dial.at = "dialing" /\ dial' = [dial EXCEPT !.at = "connected"]
          /\ conns' = conns \cup {[handle |-> dial.handle, generation |-> dial.generation]}
          /\ UNCHANGED <<listener, links, nextGeneration, engineClosed, got, closedBy>>
      BY <1>8 DEF DialConnects, engineVars, historyVars
    <2>2. dial' = [at |-> "connected", handle |-> dial.handle, generation |-> dial.generation]
      BY <2>1 DEF BrowserInv, Dialing
    <2>3. dial.handle \in Handle /\ dial.generation \in Generation
      BY <2>1 DEF BrowserInv, Dialing
    <2>4. BrowserType'
      BY <2>1, <2>3 DEF BrowserInv, BrowserType
    <2>5. Dialing'
      BY <2>1, <2>2, <2>3 DEF Dialing
    <2> QED BY <2>1, <2>4, <2>5 DEF BrowserInv, FlowsApart, Closing
  <1>9. CASE DialLost
    <2>1. /\ dial' = [dial EXCEPT !.at = "lost"]
          /\ UNCHANGED <<listener, links, nextGeneration, engineClosed, conns, got, closedBy>>
      BY <1>9 DEF DialLost, engineVars, historyVars
    <2>2. dial' = [at |-> "lost", handle |-> dial.handle, generation |-> dial.generation]
      BY <2>1 DEF BrowserInv, Dialing
    <2>3. Dialing'
      BY <2>1, <2>2 DEF BrowserInv, Dialing
    <2> QED BY <2>1, <2>3 DEF BrowserInv, BrowserType, FlowsApart, Closing
  <1>10. ASSUME NEW c \in conns, ~ engineClosed, LiveConn(c)
         PROVE  /\ c.handle \in Handle /\ c.generation \in Generation
                /\ links[c.handle] \in Link /\ links[c.handle] # NoLink
                /\ links[c.handle].generation = c.generation
                /\ links[c.handle].rx \subseteq {c.generation}
    <2>1. c.handle \in Handle /\ c.generation \in Generation
      BY DEF BrowserInv, BrowserType
    <2>2. links[c.handle].generation = c.generation
      BY <1>10 DEF LiveConn
    <2>3. links[c.handle] # NoLink
      <3>1. c.generation # 0
        BY <2>1, BrowserAssumption DEF Generation
      <3> QED BY <2>2, <3>1 DEF NoLink
    <2> QED BY <2>1, <2>2, <2>3 DEF BrowserInv, BrowserType, Good
  <1>11. ASSUME NEW c \in conns, ReadConn(c) PROVE BrowserInv'
    <2>1. /\ ~ engineClosed /\ LiveConn(c)
          /\ links' = [links EXCEPT ![c.handle] = [links[c.handle] EXCEPT !.rx = {}]]
          /\ got' = [got EXCEPT ![c.generation] = @ \cup links[c.handle].rx]
          /\ UNCHANGED <<listener, engineClosed, nextGeneration, dial, conns, closedBy>>
      BY <1>11 DEF ReadConn
    <2>2. /\ c.handle \in Handle /\ c.generation \in Generation
          /\ links[c.handle] \in Link /\ links[c.handle] # NoLink
          /\ links[c.handle].rx \subseteq {c.generation}
      BY <1>10, <2>1
    <2>3. PICK l \in Link : l = [links[c.handle] EXCEPT !.rx = {}]
      BY <2>2 DEF Link
    <2>4. /\ l.generation = links[c.handle].generation /\ l.flow = links[c.handle].flow
          /\ l.rx = {} /\ l.socket = links[c.handle].socket
          /\ l.appClosed = links[c.handle].appClosed
      BY <2>2, <2>3 DEF Link
    <2>5. got' \in [Generation -> SUBSET Generation] /\ \A g \in Generation : got'[g] \subseteq {g}
      BY <2>1, <2>2 DEF BrowserInv, BrowserType
    <2>6. BrowserType' /\ Dialing' /\ FlowsApart(links') /\ Closing(links', closedBy')
      <3>1. GoesOn(c.handle, l, {})
        BY <2>1, <2>2, <2>3, <2>4 DEF GoesOn
      <3> QED BY <2>5, <3>1, LinkStep
    <2> QED BY <2>5, <2>6 DEF BrowserInv
  <1>12. ASSUME NEW c \in conns, CloseWrite(c) PROVE BrowserInv'
    <2>1. /\ ~ engineClosed /\ LiveConn(c)
          /\ links' = [links EXCEPT ![c.handle] = ClosedHere(links[c.handle])]
          /\ UNCHANGED <<listener, engineClosed, nextGeneration, dial, conns, got, closedBy>>
      BY <1>12 DEF CloseWrite, historyVars
    <2>2. c.handle \in Handle /\ links[c.handle] \in Link /\ links[c.handle] # NoLink
      BY <1>10, <2>1
    <2>3. PICK l \in Link : l = ClosedHere(links[c.handle])
      BY <2>2, ClosedHereLink
    <2>4. /\ l.generation = links[c.handle].generation /\ l.flow = links[c.handle].flow
          /\ l.rx = links[c.handle].rx /\ (links[c.handle].socket = "closed" => l.socket = "closed")
          /\ l.appClosed = links[c.handle].appClosed
      BY <2>2, <2>3, ClosedHereLink
    <2>5. got' \in [Generation -> SUBSET Generation] /\ \A g \in Generation : got'[g] \subseteq {g}
      BY <2>1 DEF BrowserInv, BrowserType
    <2>6. BrowserType' /\ Dialing' /\ FlowsApart(links') /\ Closing(links', closedBy')
      <3>1. GoesOn(c.handle, l, {})
        BY <2>1, <2>2, <2>3, <2>4 DEF GoesOn
      <3> QED BY <2>5, <3>1, LinkStep
    <2> QED BY <2>5, <2>6 DEF BrowserInv
  <1>13. ASSUME NEW c \in conns, CloseConn(c) PROVE BrowserInv'
    <2>1. /\ ~ engineClosed /\ LiveConn(c)
          /\ links' = [links EXCEPT
                          ![c.handle] = [ClosedHere(links[c.handle]) EXCEPT !.appClosed = TRUE]]
          /\ closedBy' = closedBy \cup {c.generation}
          /\ UNCHANGED <<listener, engineClosed, nextGeneration, dial, conns, got>>
      BY <1>13 DEF CloseConn
    <2>2. /\ c.handle \in Handle /\ links[c.handle] \in Link /\ links[c.handle] # NoLink
          /\ c.generation \in Generation /\ links[c.handle].generation = c.generation
      BY <1>10, <2>1
    <2>3. PICK l \in Link : l = ClosedHere(links[c.handle])
      BY <2>2, ClosedHereLink
    <2>4. /\ l.generation = c.generation /\ l.flow = links[c.handle].flow
          /\ l.rx = links[c.handle].rx /\ (links[c.handle].socket = "closed" => l.socket = "closed")
      BY <2>2, <2>3, ClosedHereLink
    <2>5. PICK m \in Link : m = [l EXCEPT !.appClosed = TRUE]
      BY DEF Link
    <2>6. /\ m.generation = l.generation /\ m.flow = l.flow /\ m.rx = l.rx /\ m.socket = l.socket
      BY <2>5 DEF Link
    <2>7. got' \in [Generation -> SUBSET Generation] /\ \A g \in Generation : got'[g] \subseteq {g}
      BY <2>1 DEF BrowserInv, BrowserType
    <2>8. links' = [links EXCEPT ![c.handle] = m]
      BY <2>1, <2>3, <2>5
    <2>9. BrowserType' /\ Dialing' /\ FlowsApart(links') /\ Closing(links', closedBy')
      <3>1. GoesOn(c.handle, m, {c.generation})
        BY <2>1, <2>2, <2>4, <2>6, <2>8 DEF GoesOn
      <3> QED BY <2>7, <3>1, LinkStep
    <2> QED BY <2>7, <2>9 DEF BrowserInv
  <1>14. CASE BrowserNext
    BY <1>1, <1>2, <1>4, <1>5, <1>6, <1>7, <1>8, <1>9, <1>11, <1>12, <1>13, <1>14 DEF BrowserNext
  <1> QED BY <1>4, <1>14

LEMMA BrowserStart == BrowserInit => BrowserInv
  <1> SUFFICES ASSUME BrowserInit PROVE BrowserInv
    OBVIOUS
  <1>1. BrowserType
    BY DEF BrowserInit, BrowserType, Good
  <1>2. Dialing
    BY DEF BrowserInit, Dialing
  <1>3. FlowsApart(links) /\ Closing(links, closedBy)
    BY DEF BrowserInit, FlowsApart, Closing
  <1> QED BY <1>1, <1>2, <1>3 DEF BrowserInit, BrowserInv

LEMMA BrowserSafe == BrowserInv => ConnectionsIsolated
  <1> SUFFICES ASSUME BrowserInv PROVE ConnectionsIsolated
    OBVIOUS
  <1>1. \A h \in Handle \ Free : links[h].appClosed => links[h].generation \in closedBy
    BY DEF BrowserInv, Closing, Free, Has
  <1>2. \A h, k \in Handle \ Free :
           h # k /\ links[h].flow = links[k].flow =>
             "closed" \in {links[h].socket, links[k].socket}
    BY DEF BrowserInv, FlowsApart, Free, Has
  <1>3. engineClosed => Free = Handle
    BY DEF BrowserInv, Dialing, Free, Has
  <1>4. dial.at = "timedOut" => engineClosed
    BY DEF BrowserInv, Dialing
  <1> QED BY <1>1, <1>2, <1>3, <1>4 DEF BrowserInv, ConnectionsIsolated

\* What the program does to one connection never reaches another that has its handle now, no
\* two links in use share a flow and a closed engine has no link (live_handle, Engine).
THEOREM BrowserConnectionsIsolated == BrowserSpec => []ConnectionsIsolated
  <1> QED BY BrowserStart, BrowserStep, BrowserSafe, PTL DEF BrowserSpec
===============================================================================
