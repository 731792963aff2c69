---------------------------- MODULE ServerProofs ------------------------------
(*****************************************************************************)
(* Proofs about the server's side: the connections it accepts (TcpAccept),   *)
(* what its commands serve (Serving), the shared directory (SftpFiles) and   *)
(* the files of its processes (MapCache, KeyFiles).  The modules have        *)
(* nothing in common.                                                        *)
(*****************************************************************************)
EXTENDS TcpAccept, Serving, SftpFiles, MapCache, KeyFiles,
        FiniteSetTheorems, WellFoundedInduction, TLAPS

-----------------------------------------------------------------------------
(*****************************************************************************)
(* TcpAccept, for any number of clients, connections, ports and socket       *)
(* slots.                                                                    *)
(*****************************************************************************)

\* Socket slots are natural numbers, so there is a lowest one.
LEMMA LowestIsIn ==
    ASSUME NEW S \in SUBSET Slot, S # {}
    PROVE  Lowest(S) \in S
  <1> DEFINE T == {1 .. s : s \in S}
  <1>1. S \subseteq Nat
    BY AcceptAssumption DEF Slot
  <1>2. T \subseteq FiniteSubsetsOf(Nat) /\ T # {}
    <2>1. ASSUME NEW s \in S PROVE 1 .. s \in SUBSET Nat /\ IsFiniteSet(1 .. s)
      <3>1. s \in Int /\ 1 \in Int
        BY <1>1
      <3> QED BY <3>1, FS_Interval
    <2> QED BY <2>1 DEF FiniteSubsetsOf
  <1>3. PICK x \in T : \A y \in T : <<y, x>> \notin StrictSubsetOrdering(Nat)
    BY <1>2, FS_StrictSubsetOrderingWellFounded, WFMin
  <1>4. PICK s \in S : x = 1 .. s
    OBVIOUS
  <1>5. ASSUME NEW t \in S, t < s PROVE FALSE
    <2>1. 1 .. t \subseteq 1 .. s /\ s \in 1 .. s /\ s \notin 1 .. t
      BY <1>1, <1>5, AcceptAssumption DEF Slot
    <2>2. <<1 .. t, 1 .. s>> \in StrictSubsetOrdering(Nat)
      BY <1>1, <2>1 DEF StrictSubsetOrdering
    <2> QED BY <1>3, <1>4, <1>5, <2>2
  <1>6. \A t \in S : s <= t
    BY <1>1, <1>5
  <1> QED BY <1>6 DEF Lowest

AcceptType ==
    /\ links \subseteq Link /\ IsFiniteSet(links)
    /\ sockets \in [Slot -> Socket]
    /\ client \in [Dials -> {"idle", "syn", "established", "gone"}]
    /\ with \in [Dials -> Slot \cup {0}]

LinksInv == AcceptType /\ LinksOneToOne

\* A link that is there, the socket in its slot and the flow of either.
Carries(s, d) == sockets[s].state \in {"SynReceived", "Established"} /\ sockets[s].remote = d

\* While every SYN belongs to a dial under way, no socket is left listening, a socket talks
\* to the flow of its link, and a client that a handshake is for still waits for it or
\* takes part in it.
HandshakesInOrder ==
    /\ \A s \in Slot : sockets[s].state # "Listen"
    /\ \A l \in links, d \in Dials \cup {NoRemote} : Carries(l.slot, d) => d = l.flow
    /\ \A s \in Slot, d \in Dials :
          Carries(s, d) /\ sockets[s].state = "SynReceived" =>
             client[d] = "syn" \/ with[d] = s
    /\ ToldTheRemote

AcceptInv == LinksInv /\ (~ stray => HandshakesInOrder)

-----------------------------------------------------------------------------
LEMMA AcceptStarts == Init => AcceptInv
  <1> SUFFICES ASSUME Init PROVE AcceptInv
    OBVIOUS
  <1>1. AcceptType
    BY FS_EmptySet DEF Init, AcceptType, Free, Socket
  <1>2. LinksOneToOne
    BY FS_EmptySet, AcceptAssumption DEF Init, LinksOneToOne, Free, Socket
  <1>3. HandshakesInOrder
    BY DEF Init, HandshakesInOrder, Carries, Free, ToldTheRemote
  <1> QED BY <1>1, <1>2, <1>3 DEF AcceptInv, LinksInv

\* While there is room for a link there is a free slot.
LEMMA RoomMeansFree ==
    ASSUME LinksInv, Cardinality(links) < MaxConnections
    PROVE  {s \in Slot : sockets[s].state = "Free"} # {}
  <1> SUFFICES ASSUME {s \in Slot : sockets[s].state = "Free"} = {} PROVE FALSE
    OBVIOUS
  <1> DEFINE f == [l \in links |-> l.slot]
  <1>1. Slot = {l.slot : l \in links}
    BY DEF LinksInv, LinksOneToOne
  <1>2. f \in Surjection(links, Slot)
    BY <1>1 DEF Surjection
  <1>3. Cardinality(Slot) <= Cardinality(links)
    BY <1>2, FS_Surjection DEF LinksInv, AcceptType
  <1>4. Cardinality(Slot) = MaxConnections + 1
    BY FS_Interval, AcceptAssumption DEF Slot
  <1>5. Cardinality(links) \in Nat
    BY FS_CardinalityType DEF LinksInv, AcceptType
  <1> QED BY <1>3, <1>4, <1>5, AcceptAssumption

\* A link that takes another's place keeps its flow and its slot.
LEMMA LinkReplaced ==
    ASSUME LinksInv, NEW l \in links, NEW m \in Link, m.flow = l.flow, m.slot = l.slot,
           links' = (links \ {l}) \cup {m}, UNCHANGED <<sockets, client, with>>
    PROVE  LinksInv'
  <1>1. IsFiniteSet(links') /\ Cardinality(links') <= Cardinality(links)
    <2>1. IsFiniteSet(links) /\ Cardinality(links) \in Nat
      BY FS_CardinalityType DEF LinksInv, AcceptType
    <2>2. IsFiniteSet(links \ {l}) /\ Cardinality(links \ {l}) = Cardinality(links) - 1
      BY <2>1, FS_RemoveElement
    <2>3. /\ IsFiniteSet(links')
          /\ Cardinality(links') = IF m \in links \ {l} THEN Cardinality(links \ {l})
                                   ELSE Cardinality(links \ {l}) + 1
      BY <2>2, FS_AddElement
    <2> QED BY <2>1, <2>2, <2>3
  <1>2. AcceptType'
    BY <1>1 DEF LinksInv, AcceptType
  <1>3. Cardinality(links') <= MaxConnections
    <2>1. Cardinality(links) \in Nat /\ Cardinality(links') \in Nat
      BY <1>1, FS_CardinalityType DEF LinksInv, AcceptType
    <2> QED BY <1>1, <2>1, AcceptAssumption DEF LinksInv, LinksOneToOne
  <1>4. \A k, n \in links' : (k.flow = n.flow \/ k.slot = n.slot) => k = n
    BY DEF LinksInv, LinksOneToOne
  <1>5. {k.slot : k \in links'} = {k.slot : k \in links}
    OBVIOUS
  <1> QED BY <1>2, <1>3, <1>4, <1>5 DEF LinksInv, LinksOneToOne, AcceptType

\* A step that changes the states of sockets in use.
LEMMA SocketsChanged ==
    ASSUME LinksInv, UNCHANGED links, sockets' \in [Slot -> Socket],
           \A s \in Slot : (sockets'[s].state = "Free") <=> (sockets[s].state = "Free"),
           AcceptType'
    PROVE  LinksInv'
  BY DEF LinksInv, LinksOneToOne

\* The stack takes a SYN: a socket that listens answers it, or none changes.
LEMMA SynTaken ==
    ASSUME NEW socks \in [Slot -> Socket], NEW d \in Dials, TakeSyn(socks, d)
    PROVE  \/ /\ sockets' = socks
              /\ \/ client' = client /\ \E s \in Accepting(socks, d) : socks[s].state # "Listen"
                 \/ /\ Accepting(socks, d) = {}
                    /\ client' = [client EXCEPT ![d] = IF @ = "syn" THEN "gone" ELSE @]
           \/ /\ client' = client
              /\ \E s \in Accepting(socks, d) :
                    /\ socks[s].state = "Listen"
                    /\ sockets' = [socks EXCEPT ![s] = [state |-> "SynReceived", remote |-> d]]
  <1>1. CASE Accepting(socks, d) = {}
    BY <1>1 DEF TakeSyn
  <1>2. CASE Accepting(socks, d) # {}
    <2> DEFINE s == Lowest(Accepting(socks, d))
    <2>1. s \in Accepting(socks, d)
      BY <1>2, LowestIsIn DEF Accepting
    <2>2. /\ client' = client
          /\ sockets' = IF socks[s].state = "Listen"
                           THEN [socks EXCEPT ![s] = [state |-> "SynReceived", remote |-> d]]
                           ELSE socks
      BY <1>2 DEF TakeSyn
    <2> HIDE DEF s
    <2> QED BY <2>1, <2>2
  <1> QED BY <1>1, <1>2

\* What the handshake of d starts from, whether or not its SYN made a link.
LEMMA SynKeeps ==
    ASSUME NEW socks \in [Slot -> Socket], NEW d \in Dials, TakeSyn(socks, d),
           client \in [Dials -> {"idle", "syn", "established", "gone"}]
    PROVE  /\ sockets' \in [Slot -> Socket]
           /\ client' \in [Dials -> {"idle", "syn", "established", "gone"}]
           /\ \A s \in Slot : (sockets'[s].state = "Free") <=> (socks[s].state = "Free")
  <1>1. CASE sockets' = socks
    BY <1>1, SynTaken
  <1>2. ASSUME NEW s \in Accepting(socks, d), socks[s].state = "Listen", client' = client,
               sockets' = [socks EXCEPT ![s] = [state |-> "SynReceived", remote |-> d]]
        PROVE  /\ sockets' \in [Slot -> Socket]
               /\ client' \in [Dials -> {"idle", "syn", "established", "gone"}]
               /\ \A r \in Slot : (sockets'[r].state = "Free") <=> (socks[r].state = "Free")
    <2>1. s \in Slot /\ [state |-> "SynReceived", remote |-> d] \in Socket
      BY DEF Accepting, Socket
    <2> QED BY <1>2, <2>1
  <1> QED BY <1>1, <1>2, SynTaken

\* A SYN that is admitted makes a link and its socket.
LEMMA LinkMade ==
    ASSUME LinksInv, NEW d \in Dials, Admit(d), NEW s \in Slot, sockets[s].state = "Free",
           links' = links \cup {[flow |-> d, slot |-> s, app |-> "kept", old |-> FALSE]},
           sockets' \in [Slot -> Socket],
           \A r \in Slot : (sockets'[r].state = "Free") <=> (sockets[r].state = "Free" /\ r # s),
           client' \in [Dials -> {"idle", "syn", "established", "gone"}], with' = with
    PROVE  LinksInv'
  <1> DEFINE new == [flow |-> d, slot |-> s, app |-> "kept", old |-> FALSE]
  <1>1. new \in Link /\ new.flow = d /\ new.slot = s
    BY DEF Link
  <1>2. \A l \in links : l.flow # d /\ l.slot # s
    BY DEF Admit, LinksInv, LinksOneToOne
  <1>3. IsFiniteSet(links) /\ Cardinality(links) \in Nat /\ links \subseteq Link
    BY FS_CardinalityType DEF LinksInv, AcceptType
  <1>4. IsFiniteSet(links') /\ Cardinality(links') <= Cardinality(links) + 1
    <2>1. /\ IsFiniteSet(links')
          /\ Cardinality(links') = IF new \in links THEN Cardinality(links)
                                   ELSE Cardinality(links) + 1
      BY <1>3, FS_AddElement
    <2> QED BY <1>3, <2>1
  <1> HIDE DEF new
  <1>5. links' = links \cup {new}
    BY DEF new
  <1>6. AcceptType'
    BY <1>1, <1>3, <1>4, <1>5 DEF LinksInv, AcceptType
  <1>7. Cardinality(links') <= MaxConnections
    <2>1. Cardinality(links') \in Nat
      BY <1>4, FS_CardinalityType
    <2> QED BY <1>3, <1>4, <2>1, AcceptAssumption DEF Admit
  <1>8. \A l, m \in links' : (l.flow = m.flow \/ l.slot = m.slot) => l = m
    BY <1>1, <1>2, <1>5 DEF LinksInv, LinksOneToOne
  <1>9. {r \in Slot : sockets'[r].state # "Free"} = {l.slot : l \in links'}
    <2>1. {r \in Slot : sockets'[r].state # "Free"} = {r \in Slot : sockets[r].state # "Free"} \cup {s}
      OBVIOUS
    <2>2. {l.slot : l \in links'} = {l.slot : l \in links} \cup {s}
      BY <1>1, <1>5
    <2> QED BY <2>1, <2>2 DEF LinksInv, LinksOneToOne
  <1> QED BY <1>6, <1>7, <1>8, <1>9, <1>1, <1>3, <1>5 DEF LinksInv, LinksOneToOne

LEMMA SynReceiptKeeps ==
    ASSUME AcceptInv, NEW d \in Dials, ReceiveSyn(d)
    PROVE  AcceptInv'
  <1> USE DEF AcceptInv
  <1> DEFINE new(s) == [flow |-> d, slot |-> s, app |-> "kept", old |-> FALSE]
  <1>1. UNCHANGED <<stray, with, handlers>> /\ (~ stray => client[d] = "syn")
    BY DEF ReceiveSyn
  <1>2. CASE Admit(d)
    <2> DEFINE s == Lowest({r \in Slot : sockets[r].state = "Free"})
               socks == [sockets EXCEPT ![s].state = "Listen"]
    <2>1. /\ links' = links \cup {new(s)} /\ TakeSyn(socks, d)
      BY <1>2 DEF ReceiveSyn
    <2>2. s \in Slot /\ sockets[s].state = "Free"
      BY <1>2, RoomMeansFree, LowestIsIn DEF Admit
    <2> HIDE DEF s
    <2>3. /\ socks \in [Slot -> Socket] /\ socks[s].state = "Listen"
          /\ \A r \in Slot \ {s} : socks[r] = sockets[r]
      BY <2>2 DEF LinksInv, AcceptType, Socket
    <2> HIDE DEF socks
    <2>4. LinksInv'
      <3>1. /\ sockets' \in [Slot -> Socket]
            /\ client' \in [Dials -> {"idle", "syn", "established", "gone"}]
            /\ \A r \in Slot : (sockets'[r].state = "Free") <=> (socks[r].state = "Free")
        BY <2>1, <2>3, SynKeeps DEF LinksInv, AcceptType
      <3>2. \A r \in Slot : (sockets'[r].state = "Free") <=> (sockets[r].state = "Free" /\ r # s)
        BY <2>3, <3>1
      <3> QED BY <1>1, <1>2, <2>1, <2>2, <3>1, <3>2, LinkMade
    <2>5. ASSUME ~ stray PROVE HandshakesInOrder'
      <3>1. HandshakesInOrder
        BY <2>5
      <3>2. ASSUME NEW r \in Slot, Carries(r, d) PROVE FALSE
        <4>1. sockets[r].state # "Free"
          BY <3>2 DEF Carries
        <4>2. PICK l \in links : l.slot = r
          BY <4>1 DEF LinksInv, LinksOneToOne
        <4>3. l.flow = d
          BY <3>1, <3>2, <4>2 DEF HandshakesInOrder
        <4> QED BY <1>2, <4>2, <4>3 DEF Admit
      <3>3. Accepting(socks, d) = {s}
        BY <2>2, <2>3, <3>1, <3>2 DEF Accepting, HandshakesInOrder, Carries
      <3>4. client' = client /\ sockets' = [socks EXCEPT ![s] = [state |-> "SynReceived", remote |-> d]]
        BY <2>1, <2>3, <3>3, SynTaken
      <3>5. /\ sockets'[s].state = "SynReceived" /\ sockets'[s].remote = d
            /\ \A r \in Slot \ {s} : sockets'[r] = sockets[r]
        BY <2>2, <2>3, <3>4
      <3>6. \A r \in Slot : sockets'[r].state # "Listen"
        BY <3>1, <3>5 DEF HandshakesInOrder
      <3>7. ASSUME NEW l \in links', NEW e \in Dials \cup {NoRemote}, Carries(l.slot, e)'
            PROVE  e = l.flow
        <4>1. CASE l = new(s)
          BY <3>5, <3>7, <4>1 DEF Carries
        <4>2. CASE l \in links
          <5>1. l.slot \in Slot \ {s}
            BY <2>2, <4>2 DEF LinksInv, LinksOneToOne, Link
          <5> QED BY <3>1, <3>5, <3>7, <4>2, <5>1 DEF HandshakesInOrder, Carries
        <4> QED BY <2>1, <4>1, <4>2
      <3>8. ASSUME NEW r \in Slot, NEW e \in Dials, Carries(r, e)', sockets'[r].state = "SynReceived"
            PROVE  client'[e] = "syn" \/ with'[e] = r
        <4>1. CASE r = s
          BY <1>1, <2>5, <3>4, <3>5, <3>8, <4>1 DEF Carries
        <4>2. CASE r # s
          BY <1>1, <3>1, <3>4, <3>5, <3>8, <4>2 DEF HandshakesInOrder, Carries
        <4> QED BY <4>1, <4>2
      <3> QED BY <1>1, <3>1, <3>6, <3>7, <3>8 DEF HandshakesInOrder, ToldTheRemote
    <2> QED BY <1>1, <2>4, <2>5
  <1>3. CASE ~ Admit(d)
    <2>1. UNCHANGED links /\ TakeSyn(sockets, d)
      BY <1>3 DEF ReceiveSyn
    <2>2. LinksInv'
      <3>1. /\ sockets' \in [Slot -> Socket]
            /\ client' \in [Dials -> {"idle", "syn", "established", "gone"}]
            /\ \A r \in Slot : (sockets'[r].state = "Free") <=> (sockets[r].state = "Free")
        BY <2>1, SynKeeps DEF LinksInv, AcceptType
      <3> QED BY <1>1, <2>1, <3>1, SocketsChanged DEF LinksInv, AcceptType
    <2>3. ASSUME ~ stray PROVE HandshakesInOrder'
      <3>1. HandshakesInOrder
        BY <2>3
      <3>2. /\ sockets' = sockets
            /\ \A e \in Dials : e # d => client'[e] = client[e]
            /\ client'[d] # client[d] => Accepting(sockets, d) = {}
        BY <2>1, <3>1, SynTaken DEF LinksInv, AcceptType, HandshakesInOrder, Accepting
      <3>3. ASSUME NEW r \in Slot, NEW e \in Dials, Carries(r, e), sockets[r].state = "SynReceived"
            PROVE  client'[e] = "syn" \/ with[e] = r
        <4>1. e = d => r \in Accepting(sockets, d)
          BY <3>3 DEF Carries, Accepting
        <4> QED BY <3>1, <3>2, <3>3, <4>1 DEF HandshakesInOrder
      <3> QED BY <1>1, <2>1, <3>1, <3>2, <3>3 DEF HandshakesInOrder, Carries, ToldTheRemote
    <2> QED BY <1>1, <2>2, <2>3
  <1> QED BY <1>2, <1>3

\* The answer to a SYN finds a client that waits, as long as SYNs belong to dials.
LEMMA SynAckKeeps ==
    ASSUME AcceptInv, NEW s \in Slot, SynAck(s)
    PROVE  AcceptInv'
  <1> USE DEF AcceptInv
  <1>1. /\ sockets[s].state = "SynReceived" /\ UNCHANGED <<stray, links, handlers>>
    BY DEF SynAck
  <1> DEFINE d == sockets[s].remote
  <1>2. CASE /\ client[d] = "syn" /\ client' = [client EXCEPT ![d] = "established"]
             /\ with' = [with EXCEPT ![d] = s] /\ UNCHANGED sockets
    <2>1. LinksInv'
      BY <1>1, <1>2 DEF LinksInv, AcceptType, LinksOneToOne
    <2>2. ASSUME ~ stray PROVE HandshakesInOrder'
      <3>1. HandshakesInOrder
        BY <2>2
      <3>2. ASSUME NEW r \in Slot, NEW e \in Dials, Carries(r, e), sockets[r].state = "SynReceived"
            PROVE  client'[e] = "syn" \/ with'[e] = r
        <4>1. CASE e = d
          <5>1. PICK l \in links, m \in links : l.slot = r /\ m.slot = s
            BY <1>1, <3>2 DEF LinksInv, LinksOneToOne
          <5>2. l.flow = d /\ m.flow = d
            BY <1>1, <3>1, <3>2, <4>1, <5>1 DEF HandshakesInOrder, Carries
          <5>3. r = s
            BY <5>1, <5>2 DEF LinksInv, LinksOneToOne
          <5> QED BY <1>2, <3>2, <4>1, <5>3 DEF LinksInv, AcceptType
        <4>2. CASE e # d
          BY <1>2, <3>1, <3>2, <4>2 DEF HandshakesInOrder, LinksInv, AcceptType
        <4> QED BY <4>1, <4>2
      <3> QED BY <1>1, <1>2, <3>1, <3>2 DEF HandshakesInOrder, Carries, ToldTheRemote
    <2> QED BY <1>1, <2>1, <2>2
  <1>3. CASE /\ client[d] = "gone" /\ with[d] # s /\ UNCHANGED <<client, with>>
             /\ sockets' = [sockets EXCEPT ![s] = [state |-> "Listen", remote |-> NoRemote]]
    <2>1. /\ sockets' \in [Slot -> Socket]
          /\ \A r \in Slot : (sockets'[r].state = "Free") <=> (sockets[r].state = "Free")
      <3>1. [state |-> "Listen", remote |-> NoRemote] \in Socket
        BY DEF Socket
      <3> QED BY <1>1, <1>3, <3>1 DEF LinksInv, AcceptType
    <2>2. LinksInv'
      BY <1>1, <1>3, <2>1, SocketsChanged DEF LinksInv, AcceptType
    <2>3. ASSUME ~ stray PROVE FALSE
      <3>1. HandshakesInOrder
        BY <2>3
      <3>2. PICK l \in links : l.slot = s
        BY <1>1 DEF LinksInv, LinksOneToOne
      <3>3. d \in Dials \cup {NoRemote} /\ l.flow \in Dials
        BY <3>2 DEF LinksInv, AcceptType, Socket, Link
      <3>4. d \in Dials
        BY <1>1, <3>1, <3>2, <3>3 DEF HandshakesInOrder, Carries
      <3> QED BY <1>1, <1>3, <3>1, <3>4 DEF HandshakesInOrder, Carries
    <2> QED BY <1>1, <2>2, <2>3
  <1> QED BY <1>2, <1>3 DEF SynAck

LEMMA RemovalKeeps ==
    ASSUME AcceptInv, NEW l \in links, RemoveLink(l)
    PROVE  AcceptInv'
  <1> USE DEF AcceptInv
  <1>1. /\ links' = links \ {l} /\ sockets' = [sockets EXCEPT ![l.slot] = Free]
        /\ with' = [d \in Dials |-> IF with[d] = l.slot THEN 0 ELSE with[d]]
        /\ UNCHANGED <<stray, client, handlers>>
    BY DEF RemoveLink
  <1>2. l.slot \in Slot /\ Free \in Socket /\ Free.state = "Free" /\ links \subseteq Link
    BY DEF LinksInv, AcceptType, Link, Free, Socket
  <1>3. sockets'[l.slot] = Free /\ \A r \in Slot \ {l.slot} : sockets'[r] = sockets[r]
    BY <1>1, <1>2 DEF LinksInv, AcceptType
  <1>4. LinksInv'
    <2>1. /\ IsFiniteSet(links') /\ Cardinality(links') = Cardinality(links) - 1
          /\ Cardinality(links) \in Nat
      BY <1>1, FS_RemoveElement, FS_CardinalityType DEF LinksInv, AcceptType
    <2>2. AcceptType'
      BY <1>1, <1>2, <2>1 DEF LinksInv, AcceptType
    <2>3. Cardinality(links') <= MaxConnections
      BY <2>1, AcceptAssumption DEF LinksInv, LinksOneToOne
    <2>4. {r \in Slot : sockets'[r].state # "Free"} = {r \in Slot : sockets[r].state # "Free"} \ {l.slot}
      BY <1>2, <1>3
    <2>5. {k.slot : k \in links'} = {k.slot : k \in links} \ {l.slot}
      BY <1>1 DEF LinksInv, LinksOneToOne
    <2> QED BY <1>1, <2>2, <2>3, <2>4, <2>5 DEF LinksInv, LinksOneToOne, AcceptType
  <1>5. ASSUME ~ stray PROVE HandshakesInOrder'
    <2>1. HandshakesInOrder
      BY <1>5
    <2>2. \A r \in Slot, d \in Dials \cup {NoRemote} :
             Carries(r, d)' => Carries(r, d) /\ r # l.slot
      BY <1>2, <1>3 DEF Carries
    <2>3. ASSUME NEW k \in links', NEW d \in Dials \cup {NoRemote}, Carries(k.slot, d)'
          PROVE  d = k.flow
      <3>1. k \in links /\ k.slot \in Slot
        BY <1>1, <1>2 DEF Link
      <3> QED BY <2>1, <2>2, <2>3, <3>1 DEF HandshakesInOrder, Carries
    <2>4. ASSUME NEW r \in Slot, NEW d \in Dials, Carries(r, d)', sockets'[r].state = "SynReceived"
          PROVE  client'[d] = "syn" \/ with'[d] = r
      <3>1. Carries(r, d) /\ r # l.slot
        BY <2>2, <2>4 DEF Carries
      <3>2. sockets[r].state = "SynReceived"
        BY <1>3, <2>4, <3>1
      <3>3. client[d] = "syn" \/ with[d] = r
        BY <2>1, <3>1, <3>2 DEF HandshakesInOrder
      <3> QED BY <1>1, <3>1, <3>3
    <2>5. \A r \in Slot : sockets'[r].state # "Listen"
      BY <1>2, <1>3, <2>1 DEF HandshakesInOrder
    <2> QED BY <1>1, <2>1, <2>3, <2>4, <2>5 DEF HandshakesInOrder, ToldTheRemote
  <1> QED BY <1>1, <1>4, <1>5

LEMMA AcceptKept == AcceptInv /\ [Next]_vars => AcceptInv'
  <1> SUFFICES ASSUME AcceptInv, [Next]_vars PROVE AcceptInv'
    OBVIOUS
  <1> USE DEF AcceptInv
  <1>1. ASSUME NEW d \in Dials, Dial(d) \/ Leave(d) PROVE AcceptInv'
    <2>1. /\ UNCHANGED <<stray, links, sockets, with, handlers>>
          /\ client' \in [Dials -> {"idle", "syn", "established", "gone"}]
          /\ \A e \in Dials : client[e] = "syn" /\ ~ stray => client'[e] = "syn"
      BY <1>1 DEF Dial, Leave, LinksInv, AcceptType
    <2>2. LinksInv'
      BY <2>1 DEF LinksInv, AcceptType, LinksOneToOne
    <2>3. ~ stray => HandshakesInOrder'
      BY <2>1 DEF HandshakesInOrder, Carries, ToldTheRemote
    <2> QED BY <2>1, <2>2, <2>3
  <1>2. ASSUME NEW d \in Dials, ReceiveSyn(d) PROVE AcceptInv'
    BY <1>2, SynReceiptKeeps
  <1>3. ASSUME NEW s \in Slot, SynAck(s) PROVE AcceptInv'
    BY <1>3, SynAckKeeps
  <1>4. ASSUME NEW s \in Slot, HandshakeAck(s) \/ End(s) PROVE AcceptInv'
    <2>1. PICK state \in {"Established", "Closed"} :
             /\ sockets' = [sockets EXCEPT ![s].state = state]
             /\ sockets[s].state \in {"SynReceived", "Established"}
             /\ UNCHANGED <<stray, links, client, with, handlers>>
      BY <1>4 DEF HandshakeAck, End
    <2>2. sockets[s] \in Socket /\ [sockets[s] EXCEPT !.state = state] \in Socket
      BY <2>1 DEF LinksInv, AcceptType, Socket
    <2>3. /\ sockets' \in [Slot -> Socket]
          /\ sockets'[s].state = state /\ sockets'[s].remote = sockets[s].remote
          /\ \A r \in Slot \ {s} : sockets'[r] = sockets[r]
      BY <2>1, <2>2 DEF LinksInv, AcceptType, Socket
    <2>4. LinksInv'
      BY <2>1, <2>3, SocketsChanged DEF LinksInv, AcceptType
    <2>5. \A r \in Slot, d \in Dials \cup {NoRemote} :
                   /\ Carries(r, d)' => Carries(r, d)
                   /\ sockets'[r].state = "SynReceived" => sockets[r].state = "SynReceived"
      BY <2>1, <2>3 DEF Carries
    <2>6. \A l \in links : l.slot \in Slot
      BY DEF LinksInv, LinksOneToOne, Link
    <2>7. ASSUME ~ stray PROVE HandshakesInOrder'
      <3>1. HandshakesInOrder
        BY <2>7
      <3>2. \A r \in Slot : sockets'[r].state # "Listen"
        BY <2>1, <2>3, <3>1 DEF HandshakesInOrder
      <3>3. \A l \in links, d \in Dials \cup {NoRemote} : Carries(l.slot, d)' => d = l.flow
        BY <2>5, <2>6, <3>1 DEF HandshakesInOrder, Carries
      <3>4. ASSUME NEW r \in Slot, NEW d \in Dials, Carries(r, d)', sockets'[r].state = "SynReceived"
            PROVE  client'[d] = "syn" \/ with'[d] = r
        <4>1. Carries(r, d) /\ sockets[r].state = "SynReceived"
          BY <2>5, <3>4 DEF Carries
        <4>2. client[d] = "syn" \/ with[d] = r
          BY <3>1, <4>1 DEF HandshakesInOrder
        <4> QED BY <2>1, <4>2
      <3>5. ToldTheRemote'
        BY <2>1, <3>1 DEF HandshakesInOrder, ToldTheRemote
      <3> QED BY <2>1, <3>2, <3>3, <3>4, <3>5 DEF HandshakesInOrder
    <2> QED BY <2>1, <2>4, <2>7
  <1>5. ASSUME NEW l \in links, StartHandler(l) \/ AgeLink(l) PROVE AcceptInv'
    <2>1. PICK m \in Link :
             /\ m.flow = l.flow /\ m.slot = l.slot /\ links' = (links \ {l}) \cup {m}
             /\ UNCHANGED <<stray, sockets, client, with>>
      BY <1>5 DEF StartHandler, AgeLink, LinksInv, LinksOneToOne, Link
    <2>2. LinksInv'
      BY <2>1, LinkReplaced
    <2>3. ASSUME ~ stray PROVE HandshakesInOrder'
      <3>1. HandshakesInOrder
        BY <2>3
      <3>2. ToldTheRemote'
        <4>1. CASE StartHandler(l)
          <5>1. /\ sockets[l.slot].state = "Established"
                /\ handlers' = handlers \cup {[told |-> l.flow, remote |-> sockets[l.slot].remote]}
            BY <4>1 DEF StartHandler
          <5>2. sockets[l.slot].remote \in Dials \cup {NoRemote}
            BY DEF LinksInv, LinksOneToOne, Link, Socket
          <5>3. sockets[l.slot].remote = l.flow
            BY <3>1, <5>1, <5>2 DEF HandshakesInOrder, Carries
          <5> QED BY <3>1, <5>1, <5>3 DEF HandshakesInOrder, ToldTheRemote
        <4>2. CASE AgeLink(l)
          BY <3>1, <4>2 DEF HandshakesInOrder, ToldTheRemote, AgeLink
        <4> QED BY <1>5, <4>1, <4>2
      <3> QED BY <2>1, <3>1, <3>2 DEF HandshakesInOrder, Carries
    <2> QED BY <2>1, <2>2, <2>3
  <1>6. ASSUME NEW l \in links, RemoveLink(l) PROVE AcceptInv'
    BY <1>6, RemovalKeeps
  <1>7. CASE UNCHANGED vars
    BY <1>7 DEF vars, LinksInv, AcceptType, LinksOneToOne, HandshakesInOrder, Carries,
                ToldTheRemote
  <1> QED BY <1>1, <1>2, <1>3, <1>4, <1>5, <1>6, <1>7 DEF Next

\* Links, flows and sockets are one to one, and there are never more links than allowed
\* (receive_ip, poll_links).
THEOREM FlowsHaveOneLink == Spec => []LinksOneToOne
  <1>1. AcceptInv => LinksOneToOne
    BY DEF AcceptInv, LinksInv
  <1> QED BY AcceptStarts, AcceptKept, <1>1, PTL DEF Spec

\* While every SYN belongs to a dial under way, a handler is told the flow its stream
\* belongs to (ConnectionInfo).
THEOREM HandlersKnowTheirClient == Spec => []ToldTheRemoteInOrder
  <1>1. AcceptInv => ToldTheRemoteInOrder
    BY DEF AcceptInv, HandshakesInOrder, ToldTheRemoteInOrder
  <1> QED BY AcceptStarts, AcceptKept, <1>1, PTL DEF Spec

-----------------------------------------------------------------------------
(*****************************************************************************)
(* Serving, for any command line and any number of visitors and channels.    *)
(* What was served goes with the state of the connection and the channel it  *)
(* was served on, because a channel is told apart only while it is there.    *)
(*****************************************************************************)

\* What is done for v on channel i goes with the state of its connection and of its channel.
Phases == {"starting", "refused", "serving", "draining", "closed"}

\* A user was authenticated as the command line demands.
WhoItIs == IF AuthorizedKeys THEN "listed" ELSE "anyone"

Begun == phase \notin {"starting", "refused"}

ServingType ==
    /\ asked \in CommandLine
    /\ phase \in Phases
    /\ handler \in [Visitor -> {"none", "over"} \cup
                       {"ssh", "perf", "stdout", "port", "exec", "any port", "beyond"}]
    /\ user \in [Visitor -> {"nobody", WhoItIs}]
    /\ channel \in [Visitor -> [Channel -> {"none", "pending", "started", "over"}]]

\* Nothing is served before the command line was found acceptable, on a connection that
\* was not handed over or a channel where nothing was started; channels are for users.
ServedInOrder ==
    /\ Begun => Acceptable
    /\ ~ Begun => \A v \in Visitor : handler[v] = "none"
    /\ \A v \in Visitor : user[v] = "nobody" => \A i \in Channel : channel[v][i] = "none"
    /\ \A s \in served :
          /\ s.to \in Visitor /\ s.on \in Channel \cup {NoChannel}
          /\ s.on = NoChannel => handler[s.to] # "none"
          /\ s.on \in Channel => channel[s.to][s.on] \in {"started", "over"}

OnceEach ==
    \A s, t \in served : s.to = t.to /\ s.on = t.on => s = t

ServingInv ==
    /\ ServingType /\ ServedInOrder /\ OnceEach
    /\ ~ Begun => served = {}
    /\ \A s \in served : Permitted(s.to, s.what)

-----------------------------------------------------------------------------
\* An acceptable command line lets through the ports that have a handler.
LEMMA PortsHaveHandlers ==
    ASSUME asked \in CommandLine, Acceptable
    PROVE  \A p \in Port : p \in ServedTcpPorts <=> OnTcp(p) # "none"
  <1> SUFFICES ASSUME NEW p \in Port PROVE p \in ServedTcpPorts <=> OnTcp(p) # "none"
    OBVIOUS
  <1>1. CASE OneShot
    BY <1>1 DEF ServedTcpPorts, OnTcp
  <1>2. CASE ~ OneShot /\ {"exit-node", "exec"} \cap Services # {}
    BY <1>2 DEF ServedTcpPorts, OnTcp
  <1>3. CASE ~ OneShot /\ {"exit-node", "exec"} \cap Services = {}
    BY <1>3 DEF ServedTcpPorts, OnTcp
  <1> QED BY <1>1, <1>2, <1>3

\* So is every handler.
LEMMA HandlersArePermitted ==
    ASSUME asked \in CommandLine, Acceptable, NEW v \in Visitor, NEW p \in Port,
           OnTcp(p) \notin {"none", "ssh"}
    PROVE  Permitted(v, OnTcp(p))
  <1>1. CASE OnTcp(p) = "perf"
    BY <1>1 DEF OnTcp, Services, Permitted
  <1>2. CASE OnTcp(p) = "stdout"
    BY <1>2 DEF OnTcp, OneShot, Services, Shells, Permitted
  <1>3. CASE OnTcp(p) = "port"
    BY <1>3 DEF OnTcp, Permitted
  <1>4. CASE OnTcp(p) = "exec"
    BY <1>4 DEF OnTcp, Services, Acceptable, Permitted
  <1>5. CASE OnTcp(p) = "any port"
    BY <1>5 DEF OnTcp, Services, Permitted
  <1> QED BY <1>1, <1>2, <1>3, <1>4, <1>5 DEF OnTcp

\* And so is what starts on a channel of a user.
LEMMA ProgramsArePermitted ==
    ASSUME asked \in CommandLine, Acceptable, NEW v \in Visitor, user[v] = WhoItIs
    PROVE  /\ Permitted(v, Program)
           /\ OffersSftp => Permitted(v, IF "files" \in Services THEN "share" ELSE "all files")
  <1>1. "ssh" \in asked.names => asked.keys /\ user[v] = "listed"
    BY DEF Acceptable, Services, AuthorizedKeys, WhoItIs
  <1>2. Permitted(v, Program)
    BY <1>1 DEF Program, SshShell, Shells, Permitted
  <1>3. ASSUME OffersSftp
        PROVE  Permitted(v, IF "files" \in Services THEN "share" ELSE "all files")
    <2>1. CASE "files" \in Services
      <3>1. asked.share \/ "files" \in asked.names
        BY <2>1 DEF Services
      <3> QED BY <1>1, <2>1, <3>1 DEF Permitted
    <2>2. CASE "files" \notin Services
      <3>1. ~ asked.share /\ ~ asked.command /\ Shells # {}
        BY <1>3, <2>2 DEF Services, OffersSftp, SshShell
      <3> QED BY <1>1, <2>2, <3>1 DEF Permitted, Shells
    <2> QED BY <2>1, <2>2
  <1> QED BY <1>2, <1>3

LEMMA ServingStarts == ServingInit => ServingInv
  <1> SUFFICES ASSUME ServingInit PROVE ServingInv
    OBVIOUS
  <1>1. ServingType
    BY ServingAssumption DEF ServingInit, ServingType, Phases
  <1> QED BY <1>1 DEF ServingInit, ServingInv, ServedInOrder, OnceEach, Begun

\* What a step adds to served.
LEMMA ServedGrows ==
    ASSUME ServingInv, NEW v \in Visitor, NEW i \in Channel \cup {NoChannel}, NEW what,
           \A s \in served : ~ (s.to = v /\ s.on = i),
           served' \subseteq served \cup {Done(v, i, what)}
    PROVE  OnceEach'
  BY DEF ServingInv, OnceEach, Done

\* A step that starts nothing.
LEMMA NothingServed ==
    ASSUME ServingInv, UNCHANGED <<asked, served>>, ServingType',
           Begun => Begun', Begun' => Acceptable,
           ~ Begun' => \A v \in Visitor : handler'[v] = "none",
           \A v \in Visitor : handler[v] # "none" => handler'[v] # "none",
           \A v \in Visitor : user[v] # "nobody" => user'[v] = user[v],
           \A v \in Visitor, i \in Channel :
              /\ channel[v][i] \in {"started", "over"} => channel'[v][i] \in {"started", "over"}
              /\ user'[v] = "nobody" => channel'[v][i] = "none"
    PROVE  ServingInv'
  <1>1. Acceptable' = Acceptable
    BY DEF Acceptable, Services, Shells
  <1>2. ServedInOrder'
    BY <1>1 DEF ServingInv, ServedInOrder, Begun
  <1>3. \A s \in served : Permitted(s.to, s.what) => Permitted(s.to, s.what)'
    <2> SUFFICES ASSUME NEW s \in served, Permitted(s.to, s.what)
                 PROVE  Permitted(s.to, s.what)'
      OBVIOUS
    <2>1. s.to \in Visitor
      BY DEF ServingInv, ServedInOrder
    <2>2. user[s.to] = "listed" => user'[s.to] = "listed"
      BY <2>1
    <2>3. Shells' = Shells
      BY DEF Shells
    <2> QED BY <2>2, <2>3 DEF Permitted
  <1> QED BY <1>2, <1>3 DEF ServingInv, OnceEach, Begun

\* A step that starts one thing for v, on a channel or on none.
LEMMA OneServed ==
    ASSUME ServingInv, Begun, UNCHANGED <<asked, phase, user>>, ServingType',
           NEW v \in Visitor, NEW i \in Channel \cup {NoChannel}, NEW what,
           \A s \in served : ~ (s.to = v /\ s.on = i),
           served' = served \cup {Done(v, i, what)}, Permitted(v, what),
           i = NoChannel => handler'[v] # "none",
           i \in Channel => channel'[v][i] = "started" /\ user[v] # "nobody",
           \A w \in Visitor : handler[w] # "none" => handler'[w] # "none",
           \A w \in Visitor, j \in Channel :
              (w # v \/ j # i) => channel'[w][j] = channel[w][j]
    PROVE  ServingInv'
  <1>1. Begun' /\ Acceptable' /\ Acceptable
    BY DEF ServingInv, ServedInOrder, Begun, Acceptable, Services, Shells
  <1>2. \A w \in Visitor : user'[w] = "nobody" => \A j \in Channel : channel'[w][j] = "none"
    BY DEF ServingInv, ServedInOrder
  <1>3. ASSUME NEW s \in served'
        PROVE  /\ s.to \in Visitor /\ s.on \in Channel \cup {NoChannel}
               /\ s.on = NoChannel => handler'[s.to] # "none"
               /\ s.on \in Channel => channel'[s.to][s.on] \in {"started", "over"}
    <2>1. CASE s = Done(v, i, what)
      BY <2>1 DEF Done
    <2>2. CASE s \in served
      <3>1. s.on \in Channel => s.to # v \/ s.on # i
        BY <2>2
      <3> QED BY <2>2, <3>1 DEF ServingInv, ServedInOrder
    <2> QED BY <2>1, <2>2
  <1>4. ServedInOrder'
    BY <1>1, <1>2, <1>3 DEF ServedInOrder
  <1>5. OnceEach'
    BY ServedGrows
  <1>6. \A s \in served' : Permitted(s.to, s.what)
    BY DEF ServingInv, Done
  <1>7. ASSUME NEW w, NEW x, Permitted(w, x) PROVE Permitted(w, x)'
    <2>1. Shells' = Shells
      BY DEF Shells
    <2> QED BY <1>7, <2>1 DEF Permitted
  <1> QED BY <1>1, <1>4, <1>5, <1>6, <1>7 DEF ServingInv

LEMMA ServingKept == ServingInv /\ [ServingNext]_servingVars => ServingInv'
  <1> SUFFICES ASSUME ServingInv, [ServingNext]_servingVars PROVE ServingInv'
    OBVIOUS
  <1> USE DEF ServingInv, Phases
  <1>1. UNCHANGED asked /\ WhoItIs' = WhoItIs
    BY DEF ServingNext, servingVars, StartServer, Refuse, Stop, CloseServer, DialBeyond,
           DialUdp, HandedOver, HangUp, DialPort, Authenticate, OpenChannel, CloseChannel,
           ShellRequest, SubsystemRequest, ServiceEnds, WhoItIs, AuthorizedKeys, Services,
           Shells
  <1>2. CASE StartServer \/ Refuse \/ Stop
    <2>1. /\ UNCHANGED <<asked, handler, user, channel, served>> /\ phase' \in Phases
          /\ Begun => Begun'
          /\ Begun' => Acceptable
      BY <1>2 DEF StartServer, Refuse, Stop, visits, Begun, ServedInOrder
    <2>2. ServingType'
      BY <1>1, <2>1 DEF ServingType
    <2>3. ~ Begun' => \A v \in Visitor : handler'[v] = "none"
      BY <2>1 DEF ServedInOrder
    <2> QED BY <2>1, <2>2, <2>3, NothingServed DEF ServedInOrder
  <1>3. CASE CloseServer
    <2>1. /\ UNCHANGED <<asked, user, channel, served>> /\ phase' = "closed"
          /\ handler' = [v \in Visitor |-> "over"] /\ Begun
      BY <1>3 DEF CloseServer, Open, Begun
    <2>2. ServingType' /\ Begun' /\ Acceptable
      BY <1>1, <2>1 DEF ServingType, Begun, ServedInOrder
    <2> QED BY <2>1, <2>2, NothingServed DEF ServedInOrder
  <1>4. ASSUME NEW v \in Visitor, NEW what, HandedOver(v, what),
               what \in {"ssh", "perf", "stdout", "port", "exec", "any port", "beyond"},
               what # "ssh" => Permitted(v, what)
        PROVE  ServingInv'
    <2>1. /\ UNCHANGED <<asked, phase, user, channel>> /\ Begun /\ Acceptable
          /\ handler' = [handler EXCEPT ![v] = what] /\ handler[v] = "none"
          /\ served' = IF what = "ssh" THEN served ELSE served \cup {Done(v, NoChannel, what)}
      BY <1>4 DEF HandedOver, Open, Begun, ServedInOrder
    <2>2. ServingType' /\ Begun'
      BY <1>1, <1>4, <2>1 DEF ServingType, Begun
    <2>3. \A s \in served : ~ (s.to = v /\ s.on = NoChannel)
      BY <2>1 DEF ServedInOrder
    <2>4. \A w \in Visitor : handler[w] # "none" => handler'[w] # "none"
      BY <2>1 DEF ServingType
    <2>5. CASE what = "ssh"
      BY <2>1, <2>2, <2>4, <2>5, NothingServed DEF ServedInOrder
    <2>6. CASE what # "ssh"
      <3>1. handler'[v] # "none" /\ NoChannel \notin Channel
        BY <1>4, <2>1, ServingAssumption DEF ServingType
      <3> QED BY <1>4, <2>1, <2>2, <2>3, <2>4, <2>6, <3>1, OneServed
    <2> QED BY <2>5, <2>6
  <1>5. ASSUME NEW v \in Visitor, DialBeyond(v) \/ DialUdp(v) PROVE ServingInv'
    <2>1. PICK what \in {"beyond", "perf"} : HandedOver(v, what) /\ Permitted(v, what)
      BY <1>5 DEF DialBeyond, DialUdp, Services, Permitted
    <2> QED BY <1>4, <2>1
  <1>6. ASSUME NEW v \in Visitor, NEW p \in Port, DialPort(v, p) PROVE ServingInv'
    <2>1. HandedOver(v, OnTcp(p)) /\ OnTcp(p) # "none" /\ Acceptable /\ asked \in CommandLine
      BY <1>6 DEF DialPort, HandedOver, Open, ServedInOrder, Begun, ServingType
    <2>2. OnTcp(p) # "ssh" => Permitted(v, OnTcp(p))
      BY <2>1, HandlersArePermitted
    <2>3. OnTcp(p) \in {"ssh", "perf", "stdout", "port", "exec", "any port", "beyond"}
      BY <2>1 DEF OnTcp
    <2> QED BY <1>4, <2>1, <2>2, <2>3
  <1>7. ASSUME NEW v \in Visitor, HangUp(v) PROVE ServingInv'
    <2>1. /\ UNCHANGED <<asked, user, served>>
          /\ phase' \in {phase, "draining"} /\ (phase' # phase => phase = "serving")
          /\ handler' = [handler EXCEPT ![v] = "over"] /\ handler[v] # "none"
          /\ channel' = [channel EXCEPT ![v] =
                            [i \in Channel |-> IF @[i] = "pending" THEN "over" ELSE @[i]]]
      BY <1>7 DEF HangUp
    <2>2. /\ \A w \in Visitor, i \in Channel :
                channel'[w][i] = IF w = v /\ channel[w][i] = "pending" THEN "over"
                                 ELSE channel[w][i]
          /\ ServingType'
      <3>1. channel' \in [Visitor -> [Channel -> {"none", "pending", "started", "over"}]]
        BY <2>1 DEF ServingType
      <3>2. phase' \in Phases /\ handler' \in [Visitor -> {"none", "over"} \cup
                       {"ssh", "perf", "stdout", "port", "exec", "any port", "beyond"}]
        BY <2>1 DEF ServingType
      <3>3. \A w \in Visitor, i \in Channel :
                channel'[w][i] = IF w = v /\ channel[w][i] = "pending" THEN "over"
                                 ELSE channel[w][i]
        BY <2>1 DEF ServingType
      <3> QED BY <1>1, <2>1, <3>1, <3>2, <3>3 DEF ServingType
    <2>3. Begun /\ Begun' /\ Acceptable
      BY <2>1 DEF ServedInOrder, Begun
    <2>4. \A w \in Visitor : handler[w] # "none" => handler'[w] # "none"
      BY <2>1 DEF ServingType
    <2> QED BY <2>1, <2>2, <2>3, <2>4, NothingServed DEF ServedInOrder
  <1>8. ASSUME NEW v \in Visitor, NEW listed \in BOOLEAN, Authenticate(v, listed)
        PROVE  ServingInv'
    <2>1. /\ UNCHANGED <<asked, phase, handler, channel, served>>
          /\ user' = [user EXCEPT ![v] = WhoItIs] /\ user[v] = "nobody"
      BY <1>8 DEF Authenticate, WhoItIs
    <2>2. ServingType' /\ Begun' = Begun
      BY <1>1, <2>1 DEF ServingType, Begun
    <2>3. \A w \in Visitor : /\ user[w] # "nobody" => user'[w] = user[w]
                            /\ user'[w] = "nobody" => user[w] = "nobody"
      BY <2>1, <2>2 DEF ServingType, WhoItIs
    <2> QED BY <2>1, <2>2, <2>3, NothingServed DEF ServedInOrder
  <1>9. ASSUME NEW v \in Visitor, NEW i \in Channel,
               OpenChannel(v, i) \/ CloseChannel(v, i) \/ ServiceEnds(v, i)
        PROVE  ServingInv'
    <2>1. /\ UNCHANGED <<asked, phase, handler, user, served>> /\ Begun' = Begun
      BY <1>9 DEF OpenChannel, CloseChannel, ServiceEnds, Begun
    <2>2. PICK place \in {"pending", "over"} :
                /\ channel' = [channel EXCEPT ![v][i] = place]
                /\ channel[v][i] # "none" => place = "over"
                /\ channel[v][i] = "none" => user[v] # "nobody"
      BY <1>9 DEF OpenChannel, CloseChannel, ServiceEnds, Becomes
    <2>3. \A w \in Visitor, j \in Channel :
             channel'[w][j] = IF w = v /\ j = i THEN place ELSE channel[w][j]
      BY <2>2 DEF ServingType
    <2>4. channel' \in [Visitor -> [Channel -> {"none", "pending", "started", "over"}]]
      BY <2>2 DEF ServingType
    <2>5. /\ ServingType'
          /\ \A w \in Visitor, j \in Channel :
                 /\ channel[w][j] \in {"started", "over"} => channel'[w][j] \in {"started", "over"}
                 /\ user[w] = "nobody" => channel'[w][j] = "none"
      <3>1. ServingType'
        BY <1>1, <2>1, <2>4 DEF ServingType
      <3>2. ASSUME NEW w \in Visitor, NEW j \in Channel, channel[w][j] \in {"started", "over"}
            PROVE  channel'[w][j] \in {"started", "over"}
        BY <2>2, <2>3, <3>2
      <3>3. ASSUME NEW w \in Visitor, NEW j \in Channel, user[w] = "nobody"
            PROVE  channel'[w][j] = "none"
        BY <2>2, <2>3, <3>3 DEF ServedInOrder
      <3> QED BY <3>1, <3>2, <3>3
    <2> QED BY <2>1, <2>5, NothingServed DEF ServedInOrder
  <1>10. ASSUME NEW v \in Visitor, NEW i \in Channel,
                ShellRequest(v, i) \/ (SubsystemRequest(v, i) /\ OffersSftp)
         PROVE  ServingInv'
    <2>1. /\ handler[v] = "ssh" /\ channel[v][i] = "pending"
          /\ channel' = [channel EXCEPT ![v][i] = "started"]
          /\ UNCHANGED <<asked, phase, handler, user>>
      BY <1>10 DEF ShellRequest, SubsystemRequest, Becomes
    <2>2. Begun /\ Acceptable /\ user[v] = WhoItIs /\ user[v] # "nobody"
      BY <2>1 DEF ServedInOrder, ServingType, WhoItIs
    <2>3. PICK what : served' = served \cup {Done(v, i, what)} /\ Permitted(v, what)
      BY <1>10, <2>2, ProgramsArePermitted DEF ShellRequest, SubsystemRequest, Serve, ServingType
    <2>4. /\ ServingType' /\ channel'[v][i] = "started"
          /\ \A w \in Visitor, j \in Channel :
                 (w # v \/ j # i) => channel'[w][j] = channel[w][j]
      BY <1>1, <2>1 DEF ServingType
    <2>5. \A s \in served : ~ (s.to = v /\ s.on = i)
      BY <2>1 DEF ServedInOrder
    <2>6. i # NoChannel
      BY ServingAssumption
    <2> QED BY <2>1, <2>2, <2>3, <2>4, <2>5, <2>6, OneServed
  <1>11. CASE UNCHANGED servingVars
    BY <1>1, <1>11, NothingServed DEF servingVars, visits, ServedInOrder, ServingType, Begun
  <1>12. ASSUME NEW v \in Visitor, NEW i \in Channel, SubsystemRequest(v, i), ~ OffersSftp
         PROVE  UNCHANGED servingVars
    BY <1>12 DEF SubsystemRequest, servingVars, visits
  <1> QED
    BY <1>2, <1>3, <1>5, <1>6, <1>7, <1>8, <1>9, <1>10, <1>11, <1>12 DEF ServingNext

\* Whatever the command line, nothing is done that it did not ask for (serve, on_tcp,
\* SshSession).
THEOREM OnlyWhatWasAsked == ServingSpec => []ServedAsAsked
  <1>1. ServingInv => ServedAsAsked
    BY PortsHaveHandlers DEF ServingInv, ServingType, ServedInOrder, OnceEach, ServedAsAsked,
                             Open, Begun
  <1> QED BY ServingStarts, ServingKept, <1>1, PTL DEF ServingSpec

-----------------------------------------------------------------------------
(*****************************************************************************)
(* SftpFiles, for any number of sessions, files and handles and any open     *)
(* flags.  A session may change what its handles and the map of the paths it *)
(* was given lead to; the invariant says whose that is, and why no file of   *)
(* another session can come to be there.                                     *)
(*****************************************************************************)

Made == Cardinality(DOMAIN objects)

Handle == [kind : {"file", "dir", "closed"}, object : Nat, readable : BOOLEAN, writable : BOOLEAN]
Table == UNION {[1 .. n -> Handle] : n \in Nat}

FilesType ==
    /\ mode \in Mode
    /\ Made \in Nat /\ DOMAIN objects = 1 .. Made
    /\ tree \in [Path -> 0 .. Made]
    /\ wrote \in [Session -> SUBSET (Path \X Path)]
    /\ handles \in [Session -> Table]

\* A handle of s is no way to a file it may not change, and in a share it may only write to no
\* way to a file of somebody else.
OwnHandle(s, handle, files) ==
    handle.kind = "file" =>
        /\ handle.object \in DOMAIN files
        /\ mode = "ro" => ~ handle.writable
        /\ WriteOnly => files[handle.object].by = s

Guarded == mode = "wo" \/ (mode = "wo+" /\ ~ taken)

\* What is now at a path that s was given is its own.  In wo a path is not used again, because
\* its suffix is; in wo+ something is at it, unless the owner has taken something away.
OwnPath(s, p) ==
    /\ mode = "wo" => p.serial \in 1 .. Made
    /\ mode = "wo+" /\ ~ taken => tree[p] # 0
    /\ Guarded /\ tree[p] # 0 => objects[tree[p]].by = s

OwnHandles == \A s \in Session : \A h \in DOMAIN handles[s] : OwnHandle(s, handles[s][h], objects)
OwnPaths == \A s \in Session : \A w \in wrote[s] : OwnPath(s, w[2])

FilesInv == FilesType /\ OwnHandles /\ OwnPaths /\ OnlyOwnFiles

-----------------------------------------------------------------------------
LEMMA TableParts ==
    ASSUME NEW t \in Table
    PROVE  /\ Cardinality(DOMAIN t) \in Nat /\ DOMAIN t = 1 .. Cardinality(DOMAIN t)
           /\ \A h \in DOMAIN t : t[h] \in Handle
  <1>1. PICK n \in Nat : t \in [1 .. n -> Handle]
    BY DEF Table
  <1>2. Cardinality(1 .. n) = n
    BY <1>1, FS_Interval
  <1> QED BY <1>1, <1>2

\* Only s has a new handle.
Adds(s, handle) ==
    /\ handles' \in [Session -> Table]
    /\ \A q \in Session : \A h \in DOMAIN handles'[q] :
          \/ h \in DOMAIN handles[q] /\ handles'[q][h] = handles[q][h]
          \/ q = s /\ handles'[q][h] = handle

LEMMA AddedHandle ==
    ASSUME FilesType, NEW s \in Session, NEW handle \in Handle, AddHandle(s, handle)
    PROVE  Adds(s, handle)
  <1> DEFINE n == Cardinality(DOMAIN handles[s]) + 1
  <1>1. /\ handles[s] \in Table /\ n \in Nat /\ DOMAIN handles[s] = 1 .. n - 1
        /\ \A h \in 1 .. n - 1 : handles[s][h] \in Handle
    <2>1. handles[s] \in Table
      BY DEF FilesType
    <2> QED BY <2>1, TableParts
  <1> HIDE DEF n
  <1>2. PICK t \in [1 .. n -> Handle] :
            t = [h \in 1 .. n |-> IF h = n THEN handle ELSE handles[s][h]]
    <2>1. \A h \in 1 .. n : (IF h = n THEN handle ELSE handles[s][h]) \in Handle
      <3>1. \A h \in 1 .. n : h # n => h \in 1 .. n - 1
        BY <1>1
      <3> QED BY <1>1, <3>1
    <2> QED BY <2>1
  <1>3. t \in Table
    BY <1>1, <1>2 DEF Table
  <1>4. handles' = [handles EXCEPT ![s] = t]
    BY <1>2 DEF AddHandle, n
  <1>5. handles' \in [Session -> Table]
    BY <1>3, <1>4 DEF FilesType
  <1>6. ASSUME NEW q \in Session, NEW h \in DOMAIN handles'[q]
        PROVE  \/ h \in DOMAIN handles[q] /\ handles'[q][h] = handles[q][h]
               \/ q = s /\ handles'[q][h] = handle
    <2>1. CASE q # s
      BY <1>4, <1>6, <2>1 DEF FilesType
    <2>2. CASE q = s
      <3>1. handles'[q] = t
        BY <1>4, <2>2 DEF FilesType
      <3>2. h \in 1 .. n
        BY <1>2, <1>6, <3>1
      <3>3. CASE h = n
        BY <1>2, <2>2, <3>1, <3>2, <3>3
      <3>4. CASE h # n
        <4>1. h \in 1 .. n - 1
          BY <1>1, <3>2, <3>4
        <4> QED BY <1>1, <1>2, <2>2, <3>1, <3>2, <3>4, <4>1
      <3> QED BY <3>3, <3>4
    <2> QED BY <2>1, <2>2
  <1> QED BY <1>5, <1>6 DEF Adds

\* The object of s that a step makes at p.
Makes(s, p) ==
    /\ Fresh = Made + 1 /\ Made' = Fresh /\ DOMAIN objects' = 1 .. Made'
    /\ tree[p] = 0 /\ tree'[p] = Fresh
    /\ tree' \in [Path -> 0 .. Made']
    /\ \A q \in Path \ {p} : tree'[q] = tree[q]
    /\ objects'[Fresh].by = s
    /\ \A o \in DOMAIN objects : o \in DOMAIN objects' /\ objects'[o] = objects[o]

LEMMA MadeObject ==
    ASSUME FilesType, NEW s \in Session, NEW p \in Path, NEW dir, Make(s, p, dir)
    PROVE  Makes(s, p) /\ Fresh <= MaxObjects
  <1> DEFINE n == Fresh
             record(o) == IF o = n THEN [dir |-> dir, by |-> s] ELSE objects[o]
  <1>1. n = Made + 1 /\ n \in Nat /\ Made \in Nat /\ DOMAIN objects = 1 .. Made
    BY DEF FilesType, Made, Fresh
  <1>2. objects' = [o \in 1 .. n |-> record(o)]
    BY DEF Make
  <1>3. tree' = [tree EXCEPT ![p] = n] /\ tree[p] = 0 /\ n <= MaxObjects
    BY DEF Make, Exists
  <1> HIDE DEF n
  <1>4. DOMAIN objects' = 1 .. n
    BY <1>2
  <1>5. Made' = n
    BY <1>1, <1>4, FS_Interval DEF Made
  <1>6. tree' \in [Path -> 0 .. n]
    BY <1>1, <1>3 DEF FilesType
  <1>7. tree'[p] = n /\ \A q \in Path \ {p} : tree'[q] = tree[q]
    BY <1>3 DEF FilesType
  <1>8. objects'[n].by = s
    BY <1>1, <1>2
  <1>9. \A o \in DOMAIN objects : o \in DOMAIN objects' /\ objects'[o] = objects[o]
    BY <1>1, <1>2
  <1> QED BY <1>1, <1>3, <1>4, <1>5, <1>6, <1>7, <1>8, <1>9 DEF Makes, n

\* Handles keep what they are good for when an object is files.
LEMMA HandlesKept ==
    ASSUME FilesType, OwnHandles, UNCHANGED mode, NEW s \in Session,
           objects' = objects \/ (\E p : Makes(s, p)),
           NEW handle, OwnHandle(s, handle, objects'), handles' = handles \/ Adds(s, handle)
    PROVE  OwnHandles'
  <1>1. \A o \in DOMAIN objects : o \in DOMAIN objects' /\ objects'[o] = objects[o]
    BY DEF Makes
  <1>2. ASSUME NEW q \in Session, NEW h \in DOMAIN handles'[q]
        PROVE  OwnHandle(q, handles'[q][h], objects')
    <2>1. CASE h \in DOMAIN handles[q] /\ handles'[q][h] = handles[q][h]
      <3>1. OwnHandle(q, handles[q][h], objects)
        BY <2>1 DEF OwnHandles
      <3> QED BY <1>1, <2>1, <3>1 DEF OwnHandle, WriteOnly
    <2>2. CASE q = s /\ handles'[q][h] = handle
      BY <2>2
    <2> QED BY <1>2, <2>1, <2>2 DEF Adds
  <1> QED BY <1>2 DEF OwnHandles, OwnHandle, WriteOnly

\* An object that is files is at a path nobody was given.
LEMMA PathsKept ==
    ASSUME FilesType, OwnPaths, UNCHANGED <<mode, taken>>,
           NEW s \in Session, NEW p \in Path, Makes(s, p), mode = "wo" => p.serial = Fresh,
           wrote' = wrote \/ (\E name \in Path : wrote' = Recorded(s, name, p))
    PROVE  OwnPaths' /\ wrote' \in [Session -> SUBSET (Path \X Path)]
  <1>1. wrote' \in [Session -> SUBSET (Path \X Path)]
    BY DEF FilesType, Recorded
  <1>2. ASSUME NEW q \in Session, NEW w \in wrote'[q]
        PROVE  w \in wrote[q] \/ (q = s /\ w[2] = p)
    BY DEF FilesType, Recorded
  <1>3. Made \in Nat /\ Fresh = Made + 1 /\ Made' = Fresh
    BY DEF FilesType, Makes
  <1>4. tree'[p] = Fresh /\ objects'[Fresh].by = s
    BY DEF Makes
  <1>5. OwnPath(s, p)'
    BY <1>3, <1>4 DEF OwnPath, Guarded
  <1>6. ASSUME NEW q \in Session, NEW x \in Path, OwnPath(q, x) PROVE (OwnPath(q, x))'
    <2>1. CASE x = p
      <3>1. mode # "wo"
        BY <1>3, <1>6, <2>1 DEF OwnPath
      <3>2. ~ (mode = "wo+" /\ ~ taken)
        BY <1>6, <2>1 DEF OwnPath, Makes
      <3> QED BY <3>1, <3>2 DEF OwnPath, Guarded
    <2>2. CASE x # p
      <3>1. tree'[x] = tree[x] /\ tree[x] \in 0 .. Made
        BY <2>2 DEF Makes, FilesType
      <3>2. tree[x] # 0 => objects'[tree[x]] = objects[tree[x]]
        BY <1>3, <3>1 DEF Makes, FilesType
      <3>3. x.serial \in 1 .. Made => x.serial \in 1 .. Made'
        BY <1>3
      <3> QED BY <1>6, <3>1, <3>2, <3>3 DEF OwnPath, Guarded
    <2> QED BY <2>1, <2>2
  <1>7. ASSUME NEW q \in Session, NEW w \in wrote'[q]
        PROVE  (OwnPath(q, w[2]))'
    <2>1. CASE q = s /\ w[2] = p
      BY <1>5, <2>1 DEF OwnPath
    <2>2. CASE w \in wrote[q]
      <3>1. w[2] \in Path /\ OwnPath(q, w[2])
        BY <2>2 DEF FilesType, OwnPaths
      <3> QED BY <1>6, <3>1
    <2> QED BY <1>2, <2>1, <2>2
  <1> QED BY <1>1, <1>7 DEF OwnPaths

\* What a step may do to files while the property holds.
LEMMA Deeds ==
    ASSUME OnlyOwnFiles, UNCHANGED <<mode, taken>>, NEW D, foreign' = foreign \cup D,
           mode = "ro" => "altered" \notin D, Guarded => D = {}
    PROVE  OnlyOwnFiles'
  BY DEF OnlyOwnFiles, Guarded

LEMMA ClosedHandle ==
    ASSUME FilesType, NEW s \in Session, NEW h \in DOMAIN handles[s],
           handles' = [handles EXCEPT ![s][h] = Closed]
    PROVE  Adds(s, Closed)
  <1>1. Closed \in Handle
    BY DEF Closed, Handle
  <1>2. handles[s] \in Table
    BY DEF FilesType
  <1>3. PICK n \in Nat : handles[s] \in [1 .. n -> Handle]
    BY <1>2 DEF Table
  <1>4. PICK t \in [1 .. n -> Handle] : t = [handles[s] EXCEPT ![h] = Closed]
    BY <1>1, <1>3
  <1>5. t \in Table
    BY <1>4 DEF Table
  <1>6. handles' = [handles EXCEPT ![s] = t]
    BY <1>4
  <1>7. handles' \in [Session -> Table]
    BY <1>5, <1>6 DEF FilesType
  <1>8. ASSUME NEW q \in Session, NEW i \in DOMAIN handles'[q]
        PROVE  \/ i \in DOMAIN handles[q] /\ handles'[q][i] = handles[q][i]
               \/ q = s /\ handles'[q][i] = Closed
    <2>1. CASE q # s
      BY <1>6, <1>8, <2>1 DEF FilesType
    <2>2. CASE q = s
      <3>1. handles'[q] = t
        BY <1>6, <2>2 DEF FilesType
      <3> QED BY <1>3, <1>4, <1>8, <2>2, <3>1
    <2> QED BY <2>1, <2>2
  <1> QED BY <1>7, <1>8 DEF Adds

LEMMA OpenedHandle ==
    ASSUME NEW o \in Nat, NEW flags PROVE Opened(o, flags) \in Handle
  BY DEF Opened, Handle

\* A session does something to a file it has open, or at a path.
UseFile(s) ==
    \/ \E h \in 1 .. MaxHandles : Read(s, h) \/ Write(s, h) \/ Fstat(s, h) \/ FSetStat(s, h)
    \/ \E p \in Path : Stat(s, p) \/ SetStat(s, p)

LEMMA UseStep ==
    ASSUME FilesInv, NEW s \in Session, UseFile(s)
    PROVE  FilesInv'
  <1>1. UNCHANGED <<mode, tree, objects, wrote, handles, taken>>
    BY DEF UseFile, shared, Read, Write, Fstat, FSetStat, Stat, SetStat
  <1>2. FilesType' /\ OwnHandles' /\ OwnPaths'
    BY <1>1 DEF FilesInv, FilesType, Made, OwnHandles, OwnHandle, WriteOnly, OwnPaths, OwnPath,
                Guarded
  <1>3. OnlyOwnFiles'
    <2>1. ASSUME NEW h, Read(s, h) \/ Write(s, h) \/ Fstat(s, h) \/ FSetStat(s, h)
          PROVE  OnlyOwnFiles'
      <3>1. /\ h \in DOMAIN handles[s] /\ handles[s][h].kind = "file"
            /\ OwnHandle(s, handles[s][h], objects)
        BY <2>1 DEF Read, Write, Fstat, FSetStat, File, FilesInv, OwnHandles
      <3> DEFINE o == handles[s][h].object
      <3>2. Guarded => WriteOnly /\ mode # "rw" /\ mode # "ro"
        BY DEF Guarded, WriteOnly
      <3>3. Guarded => Deed(s, "seen", o) = {} /\ Deed(s, "altered", o) = {}
        BY <3>1, <3>2 DEF OwnHandle, Deed
      <3>4. "altered" \notin Deed(s, "seen", o)
        BY DEF Deed
      <3>5. CASE Read(s, h) \/ Fstat(s, h)
        <4>1. foreign' = foreign \cup Deed(s, "seen", o)
          BY <3>5 DEF Read, Fstat
        <4> HIDE DEF o
        <4> QED BY <1>1, <3>3, <3>4, <4>1, Deeds DEF FilesInv
      <3>6. CASE Write(s, h) \/ FSetStat(s, h)
        <4>1. foreign' = foreign \cup Deed(s, "altered", o) /\ mode # "ro"
          BY <3>1, <3>6 DEF Write, FSetStat, OwnHandle
        <4> HIDE DEF o
        <4> QED BY <1>1, <3>3, <4>1, Deeds DEF FilesInv
      <3> QED BY <2>1, <3>5, <3>6
    <2>2. ASSUME NEW q \in Path, Guarded, tree[q] # 0, OwnPath(s, q), NEW verb
          PROVE  Deed(s, verb, tree[q]) = {}
      BY <2>2 DEF OwnPath, Deed
    <2>3. ASSUME NEW w \in wrote[s] PROVE w[2] \in Path /\ OwnPath(s, w[2])
      BY DEF FilesInv, FilesType, OwnPaths
    <2>4. Guarded => WriteOnly
      BY DEF Guarded, WriteOnly
    <2>5. ASSUME NEW p \in Path, Stat(s, p)
          PROVE  OnlyOwnFiles'
      <3>1. PICK q \in Visible(s, p) :
               /\ tree[q] # 0
               /\ foreign' = foreign \cup
                     (IF WriteOnly /\ IsDir(q) THEN {} ELSE Deed(s, "seen", tree[q]))
        BY <2>5 DEF Stat, Exists
      <3>2. PICK D : D = (IF WriteOnly /\ IsDir(q) THEN {} ELSE Deed(s, "seen", tree[q]))
        OBVIOUS
      <3>3. Guarded => D = {}
        <4> SUFFICES ASSUME Guarded PROVE D = {}
          OBVIOUS
        <4>1. CASE IsDir(q)
          BY <2>4, <3>2, <4>1
        <4>2. CASE ~ IsDir(q)
          <5>1. q \in {w[2] : w \in {v \in wrote[s] : v[1] = p}}
            BY <2>4, <3>1, <4>2 DEF Visible
          <5>2. q \in Path /\ OwnPath(s, q)
            BY <2>3, <5>1
          <5> QED BY <2>2, <3>1, <3>2, <4>2, <5>2
        <4> QED BY <4>1, <4>2
      <3>4. "altered" \notin D
        BY <3>2 DEF Deed
      <3> QED BY <1>1, <3>1, <3>2, <3>3, <3>4, Deeds DEF FilesInv
    <2>6. ASSUME NEW p \in Path, SetStat(s, p)
          PROVE  OnlyOwnFiles'
      <3>1. PICK q \in Changeable(s, p) :
               tree[q] # 0 /\ foreign' = foreign \cup Deed(s, "altered", tree[q])
        BY <2>6 DEF SetStat, Exists
      <3>2. mode # "ro"
        BY <3>1 DEF Changeable
      <3>3. Guarded => Deed(s, "altered", tree[q]) = {}
        <4> SUFFICES ASSUME Guarded PROVE Deed(s, "altered", tree[q]) = {}
          OBVIOUS
        <4>1. q \in {w[2] : w \in {v \in wrote[s] : v[1] = p}}
          BY <3>1 DEF Changeable, Guarded
        <4>2. q \in Path /\ OwnPath(s, q)
          BY <2>3, <4>1
        <4> QED BY <2>2, <3>1, <4>2
      <3> QED BY <1>1, <3>1, <3>2, <3>3, Deeds DEF FilesInv
    <2> QED BY <2>1, <2>5, <2>6 DEF UseFile
  <1> QED BY <1>2, <1>3 DEF FilesInv

-----------------------------------------------------------------------------
\* A session opens or closes something, or makes a directory.
LEMMA OpenStep ==
    ASSUME FilesInv, NEW s \in Session, NEW p \in Path, NEW flags, OpenPlain(s, p, flags)
    PROVE  FilesInv'
  <1>1. UNCHANGED <<mode, started, wrote, taken>> /\ ~ WriteOnly /\ (mode = "ro" => flags \subseteq {"READ"})
    BY DEF OpenPlain
  <1>2. FilesType /\ OwnHandles /\ OwnPaths /\ OnlyOwnFiles /\ mode # "wo" /\ ~ Guarded
    BY <1>1 DEF FilesInv, WriteOnly, Guarded
  <1>3. ASSUME NEW o \in Nat, o \in DOMAIN objects', AddHandle(s, Opened(o, flags)),
               objects' = objects \/ (\E q : Makes(s, q))
        PROVE  OwnHandles' /\ handles' \in [Session -> Table]
    <2>1. Adds(s, Opened(o, flags))
      BY <1>2, <1>3, OpenedHandle, AddedHandle
    <2>2. OwnHandle(s, Opened(o, flags), objects')
      BY <1>1, <1>3 DEF OwnHandle, Opened
    <2>3. PICK handle : handle = Opened(o, flags)
      OBVIOUS
    <2>4. Adds(s, handle) /\ OwnHandle(s, handle, objects')
      BY <2>1, <2>2, <2>3
    <2> QED BY <1>1, <1>2, <1>3, <2>4, HandlesKept DEF Adds
  <1>4. CASE /\ IsFile(p) /\ "EXCLUDE" \notin flags
             /\ foreign' = foreign \cup (IF "TRUNCATE" \in flags THEN Deed(s, "altered", tree[p])
                                                              ELSE {})
             /\ AddHandle(s, Opened(tree[p], flags))
             /\ UNCHANGED shared
    <2>1. tree' = tree /\ objects' = objects
      BY <1>4 DEF shared
    <2>2. tree[p] \in Nat /\ tree[p] \in DOMAIN objects
      BY <1>2, <1>4 DEF FilesType, IsFile, Exists
    <2>3. OwnHandles' /\ handles' \in [Session -> Table]
      BY <1>3, <1>4, <2>1, <2>2
    <2>4. FilesType' /\ OwnPaths'
      BY <1>1, <1>2, <2>1, <2>3 DEF FilesType, Made, OwnPaths, OwnPath, Guarded
    <2>5. PICK D : D = (IF "TRUNCATE" \in flags THEN Deed(s, "altered", tree[p]) ELSE {})
      OBVIOUS
    <2>6. mode = "ro" => D = {}
      BY <1>1, <2>5
    <2>7. OnlyOwnFiles'
      BY <1>1, <1>2, <1>4, <2>5, <2>6, Deeds
    <2> QED BY <2>3, <2>4, <2>7 DEF FilesInv
  <1>5. CASE Make(s, p, FALSE) /\ AddHandle(s, Opened(Fresh, flags)) /\ UNCHANGED foreign
    <2>1. Makes(s, p)
      BY <1>2, <1>5, MadeObject
    <2>2. Fresh \in Nat /\ Fresh \in DOMAIN objects'
      BY <1>2, <2>1 DEF Makes, FilesType
    <2>3. OwnHandles' /\ handles' \in [Session -> Table]
      BY <1>3, <1>5, <2>1, <2>2
    <2>4. OwnPaths'
      BY <1>1, <1>2, <2>1, PathsKept
    <2>5. FilesType'
      BY <1>1, <1>2, <2>1, <2>2, <2>3 DEF FilesType, Makes
    <2>6. OnlyOwnFiles'
      BY <1>1, <1>2, <1>5 DEF OnlyOwnFiles
    <2> QED BY <2>3, <2>4, <2>5, <2>6 DEF FilesInv
  <1> QED BY <1>4, <1>5 DEF OpenPlain

LEMMA UploadStep ==
    ASSUME FilesInv, NEW s \in Session, NEW p \in Path, NEW flags, OpenUpload(s, p, flags)
    PROVE  FilesInv'
  <1>1. /\ UNCHANGED <<mode, foreign, taken>> /\ WriteOnly
        /\ Make(s, Given(p), FALSE) /\ AddHandle(s, Opened(Fresh, flags))
        /\ wrote' = Recorded(s, p, Given(p))
    BY DEF OpenUpload, sftpHistory
  <1>2. FilesType /\ OwnHandles /\ OwnPaths /\ OnlyOwnFiles
    BY DEF FilesInv
  <1>3. Fresh \in Nat /\ Fresh <= MaxObjects /\ Fresh = Made + 1
    BY <1>1, <1>2 DEF Make, FilesType, Fresh, Made
  <1>4. Given(p) \in Path /\ (mode = "wo" => Given(p).serial = Fresh)
    <2>1. Unique(p, Fresh) \in Path /\ Unique(p, Fresh).serial = Fresh
      BY <1>3, SftpAssumption DEF Unique, Path
    <2> QED BY <2>1 DEF Given
  <1>5. Makes(s, Given(p))
    BY <1>1, <1>2, <1>4, MadeObject
  <1>6. Adds(s, Opened(Fresh, flags))
    BY <1>1, <1>2, <1>3, OpenedHandle, AddedHandle
  <1>7. Fresh \in DOMAIN objects' /\ objects'[Fresh].by = s
    BY <1>2, <1>3, <1>5 DEF Makes, FilesType
  <1>8. OwnHandle(s, Opened(Fresh, flags), objects')
    BY <1>1, <1>7 DEF OwnHandle, Opened, WriteOnly
  <1>9. PICK handle : handle = Opened(Fresh, flags)
    OBVIOUS
  <1>10. OwnHandles'
    BY <1>1, <1>2, <1>5, <1>6, <1>8, <1>9, HandlesKept
  <1>11. OwnPaths' /\ wrote' \in [Session -> SUBSET (Path \X Path)]
    BY <1>1, <1>2, <1>4, <1>5, PathsKept
  <1>12. FilesType'
    BY <1>1, <1>2, <1>3, <1>5, <1>6, <1>11 DEF FilesType, Makes, Adds
  <1>13. OnlyOwnFiles'
    BY <1>1, <1>2 DEF OnlyOwnFiles
  <1> QED BY <1>10, <1>11, <1>12, <1>13 DEF FilesInv

LEMMA TableStep ==
    ASSUME FilesInv, NEW s \in Session,
           (\E h : Close(s, h)) \/ (\E p \in Path : OpenDir(s, p))
    PROVE  FilesInv'
  <1>1. UNCHANGED <<mode, tree, objects, wrote, taken>>
    BY DEF Close, OpenDir, shared, sftpHistory
  <1>2. FilesType /\ OwnHandles /\ OwnPaths /\ OnlyOwnFiles
    BY DEF FilesInv
  <1>3. ASSUME NEW handle, Adds(s, handle), handle.kind # "file" PROVE OwnHandles'
    <2>1. OwnHandle(s, handle, objects')
      BY <1>3 DEF OwnHandle
    <2> QED BY <1>1, <1>2, <1>3, <2>1, HandlesKept
  <1>4. OwnHandles' /\ handles' \in [Session -> Table] /\ OnlyOwnFiles'
    <2>1. ASSUME NEW h, Close(s, h)
          PROVE  OwnHandles' /\ handles' \in [Session -> Table] /\ OnlyOwnFiles'
      <3>1. Adds(s, Closed)
        BY <1>2, <2>1, ClosedHandle DEF Close
      <3>2. Closed.kind # "file"
        BY DEF Closed
      <3>3. OnlyOwnFiles'
        BY <1>1, <1>2, <2>1 DEF Close, sftpHistory, OnlyOwnFiles
      <3> QED BY <1>3, <3>1, <3>2, <3>3 DEF Adds
    <2>2. ASSUME NEW p \in Path, OpenDir(s, p)
          PROVE  OwnHandles' /\ handles' \in [Session -> Table] /\ OnlyOwnFiles'
      <3>1. PICK handle \in Handle : handle = [Closed EXCEPT !.kind = "dir"]
        BY DEF Closed, Handle
      <3>2. handle.kind # "file"
        BY <3>1 DEF Closed
      <3>3. Adds(s, handle)
        BY <1>2, <2>2, <3>1, AddedHandle DEF OpenDir
      <3>4. PICK listed :
               foreign' = foreign \cup UNION {Deed(s, "seen", o) : o \in listed}
        BY <2>2 DEF OpenDir
      <3>5. PICK D : D = UNION {Deed(s, "seen", o) : o \in listed}
        OBVIOUS
      <3>6. "altered" \notin D
        BY <3>5 DEF Deed
      <3>7. ~ Guarded
        BY <2>2 DEF OpenDir, WriteOnly, Guarded
      <3>8. OnlyOwnFiles'
        BY <1>1, <1>2, <3>4, <3>5, <3>6, <3>7, Deeds
      <3> QED BY <1>3, <3>2, <3>3, <3>8 DEF Adds
    <2> QED BY <2>1, <2>2
  <1>5. FilesType' /\ OwnPaths'
    BY <1>1, <1>2, <1>4 DEF FilesType, Made, OwnPaths, OwnPath, Guarded
  <1> QED BY <1>4, <1>5 DEF FilesInv

LEMMA MkDirStep ==
    ASSUME FilesInv, NEW s \in Session, MkDir(s)
    PROVE  FilesInv'
  <1>1. /\ UNCHANGED <<mode, handles, foreign, taken>> /\ mode # "wo"
        /\ Make(s, At("top", "d"), TRUE)
        /\ wrote' = wrote \/ wrote' = Recorded(s, At("top", "d"), At("top", "d"))
    BY DEF MkDir, sftpHistory
  <1>2. FilesType /\ OwnHandles /\ OwnPaths /\ OnlyOwnFiles
    BY DEF FilesInv
  <1>3. At("top", "d") \in Path
    BY SftpAssumption DEF At, Path
  <1>4. PICK p \in Path : p = At("top", "d")
    BY <1>3
  <1>5. Makes(s, p)
    BY <1>1, <1>2, <1>4, MadeObject
  <1>6. OwnPaths' /\ wrote' \in [Session -> SUBSET (Path \X Path)]
    BY <1>1, <1>2, <1>4, <1>5, PathsKept
  <1>7. PICK handle : OwnHandle(s, handle, objects')
    <2>1. OwnHandle(s, Closed, objects')
      BY DEF OwnHandle, Closed
    <2> QED BY <2>1
  <1>8. OwnHandles'
    BY <1>1, <1>2, <1>5, <1>7, HandlesKept
  <1>9. FilesType'
    BY <1>1, <1>2, <1>5, <1>6 DEF FilesType, Makes
  <1>10. OnlyOwnFiles'
    BY <1>1, <1>2 DEF OnlyOwnFiles
  <1> QED BY <1>6, <1>8, <1>9, <1>10 DEF FilesInv

\* Where sessions may only write none of them moves or removes anything; the owner may.
LEMMA MoveStep ==
    ASSUME FilesInv,
           \/ \E s \in Session, p \in Path : Remove(s, p)
           \/ \E s \in Session, p, q \in Path : Rename(s, p, q) \/ HardLink(s, p, q)
           \/ \E p \in Path : TakeAway(p)
    PROVE  FilesInv'
  <1>1. FilesType /\ OwnHandles /\ OwnPaths /\ OnlyOwnFiles
    BY DEF FilesInv
  <1>2. UNCHANGED <<mode, objects, wrote, handles, foreign>>
    BY DEF Remove, Rename, HardLink, TakeAway, sftpHistory
  <1>3. tree' \in [Path -> 0 .. Made]
    BY <1>1 DEF Remove, Rename, HardLink, TakeAway, FilesType
  <1>4. FilesType' /\ OwnHandles'
    BY <1>1, <1>2, <1>3 DEF FilesType, Made, OwnHandles, OwnHandle, WriteOnly
  <1>5. OnlyOwnFiles' /\ OwnPaths'
    <2>1. CASE mode = "rw"
      BY <1>1, <1>2, <2>1 DEF OnlyOwnFiles, OwnPaths, OwnPath, Guarded
    <2>2. CASE mode # "rw"
      <3>1. PICK p \in Path : TakeAway(p)
        BY <2>2 DEF Remove, Rename, HardLink, RequireRw
      <3>2. taken' /\ tree' = [tree EXCEPT ![p] = 0]
        BY <3>1 DEF TakeAway
      <3>3. OnlyOwnFiles'
        BY <1>1, <1>2, <3>2 DEF OnlyOwnFiles
      <3>4. \A q \in Path : tree'[q] = tree[q] \/ tree'[q] = 0
        BY <1>1, <3>2 DEF FilesType
      <3>5. ASSUME NEW s \in Session, NEW w \in wrote[s] PROVE OwnPath(s, w[2])'
        <4>1. w[2] \in Path /\ OwnPath(s, w[2])
          BY <1>1 DEF FilesType, OwnPaths
        <4> QED BY <1>2, <3>2, <3>4, <4>1 DEF OwnPath, Guarded, Made
      <3> QED BY <1>2, <3>3, <3>5 DEF OwnPaths
    <2> QED BY <2>1, <2>2
  <1> QED BY <1>4, <1>5 DEF FilesInv

-----------------------------------------------------------------------------
LEMMA FilesStart == SftpInit => FilesInv
  <1> SUFFICES ASSUME SftpInit PROVE FilesInv
    OBVIOUS
  <1>1. PICK n \in {1, 2} : objects = [o \in 1 .. n |-> [dir |-> o = 2, by |-> "owner"]]
                            /\ tree \in [Path -> 0 .. n]
    <2>1. PICK dir \in BOOLEAN :
             /\ objects = [o \in 1 .. (IF dir THEN 2 ELSE 1) |-> [dir |-> o = 2, by |-> "owner"]]
             /\ tree = [p \in Path |-> IF p = At("top", "a") THEN 1
                                       ELSE IF p = At("top", "d") /\ dir THEN 2 ELSE 0]
      BY DEF SftpInit
    <2>2. CASE dir
      BY <2>1, <2>2
    <2>3. CASE ~ dir
      BY <2>1, <2>3
    <2> QED BY <2>2, <2>3
  <1>2. DOMAIN objects = 1 .. n /\ Made = n
    <2>1. DOMAIN objects = 1 .. n
      BY <1>1
    <2>2. 1 \in Int /\ n \in Int /\ n - 1 + 1 = n /\ ~ (1 > n)
      OBVIOUS
    <2>3. Cardinality(1 .. n) = n
      BY <2>2, FS_Interval
    <2> QED BY <2>1, <2>3 DEF Made
  <1>3. <<>> \in Table
    <2>1. <<>> \in [1 .. 0 -> Handle]
      OBVIOUS
    <2> QED BY <2>1 DEF Table
  <1>4. \A s \in Session : wrote[s] = {} /\ DOMAIN handles[s] = {}
    BY DEF SftpInit
  <1>5. FilesType
    BY <1>1, <1>2, <1>3 DEF SftpInit, FilesType
  <1> QED BY <1>4, <1>5 DEF SftpInit, FilesInv, OwnHandles, OwnPaths, OnlyOwnFiles

LEMMA FilesStep == FilesInv /\ [SftpNext]_sftpVars => FilesInv'
  <1> SUFFICES ASSUME FilesInv, [SftpNext]_sftpVars PROVE FilesInv'
    OBVIOUS
  <1>1. CASE UNCHANGED <<mode, tree, objects, wrote, handles, foreign, taken>>
    BY <1>1 DEF FilesInv, FilesType, Made, OwnHandles, OwnHandle, WriteOnly, OwnPaths, OwnPath,
                Guarded, OnlyOwnFiles
  <1>2. ASSUME NEW s \in Session, Start(s) PROVE FilesInv'
    BY <1>1, <1>2 DEF Start, shared, sftpHistory
  <1>3. ASSUME NEW s \in Session, Dispatch(s) PROVE FilesInv'
    BY <1>3, OpenStep, UploadStep, UseStep, TableStep, MkDirStep, MoveStep DEF Dispatch, UseFile
  <1>4. ASSUME NEW p \in Path, TakeAway(p) PROVE FilesInv'
    BY <1>4, MoveStep
  <1> QED BY <1>1, <1>2, <1>3, <1>4 DEF SftpNext, sftpVars, shared, sftpHistory

\* A read-only share is never altered, and a write-only session neither sees nor alters a file
\* that is not its own; in wo+ only as long as the owner takes nothing out of the directory
\* (open, dispatch, stat_path, setstat_path, unique_path).
THEOREM SharesAreKept == SftpSpec => []OnlyOwnFiles
  <1>1. FilesInv => OnlyOwnFiles
    BY DEF FilesInv
  <1> QED BY <1>1, FilesStart, FilesStep, PTL DEF SftpSpec

-----------------------------------------------------------------------------
(*****************************************************************************)
(* MapCache, for any number of processes and versions.  An entry is sound at *)
(* every moment because a fetch that stores an answer has the only one there *)
(* is, and no map that is older than the one on disk.                        *)
(*****************************************************************************)

Fetch == [at : Place, entry : Entry, answer : Version]

MapType ==
    /\ server \in Version
    /\ disk \in Entry
    /\ memory \in [Process -> Entry]
    /\ fetch \in [Process -> Fetch]

\* An entry that may be kept while the server serves version s.
Sound(e, s) == e.tag <= e.map /\ e.map <= s

\* A fetch between the two files has the map that is on disk, one that is going to replace the
\* map has no older one, and one that has replaced it finds its own there.
Fits(f, d, s) ==
    /\ f.at \in {"idle", "readTag", "ask"} => f.answer = 0
    /\ f.at = "readTag" => f.entry.map = d.map
    /\ f.at # "readTag" => Sound(f.entry, s)
    /\ f.answer # 0 => f.entry.map = f.answer
    /\ f.at = "rename" => d.map <= f.entry.map
    /\ f.at \in {"tag", "fill"} => d.map = f.entry.map

MapKept ==
    /\ Sound(disk, server)
    /\ \A p \in Process : Sound(memory[p], server) /\ Fits(fetch[p], disk, server)

\* Once fetches have overlapped the history variable says so for good.
MapInv == ~ overlapped => MapType /\ MapKept /\ ~ Overlap

-----------------------------------------------------------------------------
LEMMA VersionParts ==
    ASSUME NEW e \in Entry
    PROVE  e.map \in Nat /\ e.tag \in Nat /\ e.map \in Version /\ e.tag \in Version
  BY MapAssumption DEF Entry, Version

LEMMA FetchParts ==
    ASSUME MapType, NEW p \in Process
    PROVE  /\ fetch[p] \in Fetch /\ fetch[p].at \in Place /\ fetch[p].entry \in Entry
           /\ fetch[p].answer \in Version
  BY DEF MapType, Fetch

\* The fetch of p goes on at a place with an entry and an answer.
GoesOn(p, place, e, answer) ==
    /\ fetch' \in [Process -> Fetch]
    /\ fetch'[p].at = place /\ fetch'[p].entry = e /\ fetch'[p].answer = answer
    /\ \A q \in Process \ {p} : fetch'[q] = fetch[q]

LEMMA GoesTo ==
    ASSUME MapType, NEW p \in Process, NEW place \in Place, NEW e \in Entry,
           fetch' = To(p, place, e)
    PROVE  GoesOn(p, place, e, fetch[p].answer)
  <1>1. PICK f \in [Process -> Fetch] : f = [fetch EXCEPT ![p].at = place]
    BY DEF MapType, Fetch
  <1>2. /\ f[p].at = place /\ f[p].answer = fetch[p].answer
        /\ \A q \in Process \ {p} : f[q] = fetch[q]
    BY <1>1 DEF MapType, Fetch
  <1>3. fetch' = [f EXCEPT ![p].entry = e]
    BY <1>1 DEF To
  <1> QED BY <1>2, <1>3 DEF GoesOn, Fetch

\* What each step of a process makes of its fetch.
LEMMA Stays ==
    ASSUME MapType, NEW p \in Process, NEW place \in Place,
           fetch' = [fetch EXCEPT ![p].at = place]
    PROVE  GoesOn(p, place, fetch[p].entry, fetch[p].answer)
  BY DEF MapType, Fetch, GoesOn

LEMMA Ends ==
    ASSUME MapType, NEW p \in Process, fetch' = [fetch EXCEPT ![p] = NoFetch]
    PROVE  GoesOn(p, "idle", NoEntry, 0)
  <1>1. PICK f \in Fetch : f = NoFetch
    <2>1. NoEntry \in Entry /\ 0 \in Version
      BY MapAssumption DEF NoEntry, Entry, Version
    <2> QED BY <2>1 DEF Fetch, NoFetch, Place
  <1>2. f.at = "idle" /\ f.entry = NoEntry /\ f.answer = 0
    BY <1>1 DEF NoFetch
  <1>3. fetch' = [fetch EXCEPT ![p] = f]
    BY <1>1
  <1> QED BY <1>2, <1>3 DEF GoesOn, MapType

-----------------------------------------------------------------------------
\* Nobody else minds what a fetch does to the files while it stores an answer alone.
LEMMA KeptStep ==
    ASSUME MapType, MapKept, ~ Overlap, UNCHANGED server, NEW p \in Process,
           NEW place, NEW e, NEW a, GoesOn(p, place, e, a),
           disk' = disk \/ Stores(p), Sound(disk', server),
           memory' = memory \/ (\E m : memory' = [memory EXCEPT ![p] = m] /\ Sound(m, server)),
           Fits(fetch'[p], disk', server)
    PROVE  MapKept'
  <1>1. ASSUME NEW q \in Process PROVE Sound(memory'[q], server)
    BY DEF MapKept, MapType
  <1>2. ASSUME NEW q \in Process, q # p PROVE Fits(fetch'[q], disk', server)
    <2>1. fetch'[q] = fetch[q] /\ Fits(fetch[q], disk, server)
      BY <1>2 DEF GoesOn, MapKept
    <2>2. CASE disk' = disk
      BY <2>1, <2>2
    <2>3. CASE Stores(p)
      <3>1. ~ Stores(q) /\ fetch[q].at # "readTag"
        BY <1>2, <2>3 DEF Overlap
      <3> QED BY <2>1, <3>1 DEF Fits, Stores
    <2> QED BY <2>2, <2>3
  <1> QED BY <1>1, <1>2 DEF MapKept

LEMMA NoEntrySound ==
    ASSUME MapType PROVE NoEntry \in Entry /\ Sound(NoEntry, server) /\ NoEntry.map = 0
  BY MapAssumption DEF NoEntry, Entry, Version, Sound, MapType

LEMMA PartsKept ==
    ASSUME MapKept, NEW p \in Process
    PROVE  Fits(fetch[p], disk, server) /\ Sound(memory[p], server) /\ Sound(disk, server)
  BY DEF MapKept

\* A process looks for an entry, in its memory and on disk.
LEMMA LookStep ==
    ASSUME MapType, MapKept, ~ Overlap, NEW p \in Process, Recall(p) \/ ReadMap(p) \/ ReadTag(p)
    PROVE  MapKept' /\ fetch' \in [Process -> Fetch]
  <1>1. UNCHANGED <<server, disk, memory>>
    BY DEF Recall, ReadMap, ReadTag
  <1>2. "done" \in Place /\ "ask" \in Place /\ "readTag" \in Place
    BY DEF Place
  <1>3. ASSUME NEW place \in {"done", "ask"}, NEW e \in Entry, Sound(e, server),
               fetch' = To(p, place, e), fetch[p].at \in {"idle", "readTag"}
        PROVE  MapKept' /\ fetch' \in [Process -> Fetch]
    <2>1. fetch[p].answer = 0
      BY <1>3 DEF MapKept, Fits
    <2>2. GoesOn(p, place, e, 0)
      BY <1>2, <1>3, <2>1, GoesTo
    <2>3. Fits(fetch'[p], disk', server)
      BY <1>3, <2>2 DEF GoesOn, Fits
    <2> QED BY <1>1, <2>2, <2>3, KeptStep, PartsKept DEF GoesOn
  <1>4. CASE Recall(p)
    <2>1. memory[p] \in Entry /\ Sound(memory[p], server)
      BY PartsKept DEF MapType
    <2>2. \E place \in {"done", "ask"} : fetch' = To(p, place, memory[p])
      BY <1>4 DEF Recall, Found
    <2>3. fetch[p].at \in {"idle", "readTag"}
      BY <1>4 DEF Recall
    <2> QED BY <1>3, <2>1, <2>2, <2>3
  <1>5. CASE ReadMap(p) /\ disk.map = 0
    <2>1. fetch' = To(p, "ask", NoEntry) /\ fetch[p].at \in {"idle", "readTag"}
      BY <1>5 DEF ReadMap
    <2> QED BY <1>3, <2>1, NoEntrySound
  <1>6. CASE ReadMap(p) /\ disk.map # 0
    <2>0. 0 \in Version /\ disk \in Entry
      BY MapAssumption DEF MapType, Version
    <2>1. PICK e \in Entry : e = [disk EXCEPT !.tag = 0]
      BY <2>0 DEF Entry
    <2>2. e.map = disk.map
      BY <2>0, <2>1 DEF Entry
    <2>3. fetch' = To(p, "readTag", e) /\ fetch[p].at = "idle"
      BY <1>6, <2>1 DEF ReadMap
    <2>4. fetch[p].answer = 0
      BY <2>3 DEF MapKept, Fits
    <2>5. GoesOn(p, "readTag", e, 0)
      BY <1>2, <2>3, <2>4, GoesTo
    <2>6. Fits(fetch'[p], disk', server)
      BY <1>1, <2>2, <2>5 DEF GoesOn, Fits
    <2> QED BY <1>1, <2>5, <2>6, KeptStep, PartsKept DEF GoesOn
  <1>7. CASE ReadTag(p)
    <2>1. fetch[p].entry \in Entry /\ fetch[p].at = "readTag"
      BY <1>7, FetchParts DEF ReadTag
    <2>2. PICK e \in Entry : e = [fetch[p].entry EXCEPT !.tag = disk.tag]
      BY <2>1 DEF MapType, Entry
    <2>3. e.map = disk.map /\ e.tag = disk.tag
      BY <2>1, <2>2 DEF Entry, MapKept, Fits
    <2>4. Sound(e, server)
      BY <2>3 DEF MapKept, Sound
    <2>5. \E place \in {"done", "ask"} : fetch' = To(p, place, e)
      BY <1>7, <2>2 DEF ReadTag, Found
    <2> QED BY <1>3, <2>1, <2>4, <2>5
  <1> QED BY <1>4, <1>5, <1>6, <1>7

\* The server answers, with a map or with "Not Modified": the fetch has the map of the moment.
LEMMA AnswerStep ==
    ASSUME MapType, MapKept, ~ Overlap, NEW p \in Process, Answered(p) \/ NotModified(p)
    PROVE  MapKept' /\ fetch' \in [Process -> Fetch]
  <1>1. UNCHANGED <<server, disk, memory>>
    BY DEF Answered, NotModified
  <1>2. ASSUME NEW e \in Entry, e.tag <= e.map, e.map = server, GoesOn(p, "rename", e, server)
        PROVE  MapKept' /\ fetch' \in [Process -> Fetch]
    <2>1. Sound(e, server) /\ disk.map <= e.map
      BY <1>2, VersionParts DEF MapKept, Sound, MapType
    <2>2. Fits(fetch'[p], disk', server)
      BY <1>1, <1>2, <2>1 DEF GoesOn, Fits
    <2> QED BY <1>1, <1>2, <2>2, KeptStep, PartsKept DEF GoesOn
  <1>3. CASE Answered(p)
    <2>1. PICK tag \in {0, server} :
             fetch' = [fetch EXCEPT ![p] =
                          [at |-> "rename", answer |-> server,
                           entry |-> [map |-> server, tag |-> tag, fresh |-> TRUE]]]
      BY <1>3 DEF Answered
    <2>2. server \in Version /\ tag \in Version
      BY MapAssumption DEF MapType, Version
    <2>3. PICK e \in Entry : e = [map |-> server, tag |-> tag, fresh |-> TRUE]
      BY <2>2 DEF Entry
    <2>4. e.map = server /\ e.tag = tag
      BY <2>3
    <2>5. PICK f \in Fetch : f = [at |-> "rename", entry |-> e, answer |-> server]
      BY <2>2 DEF Fetch, Place
    <2>6. fetch' = [fetch EXCEPT ![p] = f]
      BY <2>1, <2>3, <2>5
    <2>7. GoesOn(p, "rename", e, server)
      BY <2>5, <2>6 DEF GoesOn, MapType
    <2>8. e.tag <= e.map
      <3>1. server \in Nat
        BY <2>2, MapAssumption DEF Version
      <3> QED BY <2>4, <3>1
    <2> QED BY <1>2, <2>4, <2>7, <2>8
  <1>4. CASE NotModified(p)
    <2>1. fetch[p].at = "ask" /\ fetch[p].entry.tag = server /\ fetch[p].entry \in Entry
      BY <1>4, FetchParts DEF NotModified
    <2>2. fetch[p].entry.map = server
      <3>1. Sound(fetch[p].entry, server)
        BY <2>1 DEF MapKept, Fits
      <3> QED BY <2>1, <3>1, VersionParts DEF Sound, MapType
    <2>3. PICK f \in [Process -> Fetch] : f = [fetch EXCEPT ![p].at = "rename", ![p].answer = server]
      <3>1. PICK f \in [Process -> Fetch] : f = [fetch EXCEPT ![p].at = "rename"]
        BY DEF MapType, Fetch, Place
      <3>2. [f EXCEPT ![p].answer = server] \in [Process -> Fetch]
        BY DEF MapType, Fetch
      <3> QED BY <3>1, <3>2
    <2>4. /\ f[p].at = "rename" /\ f[p].answer = server /\ f[p].entry = fetch[p].entry
          /\ \A q \in Process \ {p} : f[q] = fetch[q]
      BY <2>3 DEF MapType, Fetch
    <2>5. PICK e \in Entry : e = [fetch[p].entry EXCEPT !.fresh = TRUE]
      BY <2>1 DEF Entry
    <2>6. e.map = server /\ e.tag = server
      BY <2>1, <2>2, <2>5 DEF Entry
    <2>7. fetch' = [f EXCEPT ![p].entry = e]
      BY <1>4, <2>3, <2>4, <2>5 DEF NotModified
    <2>8. GoesOn(p, "rename", e, server)
      BY <2>4, <2>7 DEF GoesOn, Fetch
    <2>9. e.tag <= e.map
      BY <2>6, VersionParts
    <2> QED BY <1>2, <2>6, <2>8, <2>9
  <1> QED BY <1>3, <1>4

-----------------------------------------------------------------------------
\* A fetch that has an answer stores it.
LEMMA StoreStep ==
    ASSUME MapType, MapKept, ~ Overlap, NEW p \in Process,
           WriteFails(p) \/ ReplaceMap(p) \/ ClearTag(p) \/ FillTag(p) \/ TagFails(p)
    PROVE  MapKept' /\ disk' \in Entry /\ fetch' \in [Process -> Fetch]
  <1>1. UNCHANGED <<server, memory>>
    BY DEF WriteFails, ReplaceMap, ClearTag, FillTag, TagFails
  <1>2. PICK e \in Entry : e = fetch[p].entry
    BY FetchParts
  <1>3. Stores(p)
    BY DEF WriteFails, ReplaceMap, ClearTag, FillTag, TagFails, Stores
  <1>4. /\ Sound(e, server) /\ Sound(disk, server)
        /\ fetch[p].answer # 0 => e.map = fetch[p].answer
        /\ fetch[p].at = "rename" => disk.map <= e.map
        /\ fetch[p].at \in {"tag", "fill"} => disk.map = e.map
    BY <1>2, <1>3 DEF MapKept, Fits, Stores
  <1>5. PICK a \in Version : a = fetch[p].answer
    BY FetchParts
  <1>6. ASSUME NEW place \in {"tag", "fill", "insert"},
               fetch' = [fetch EXCEPT ![p].at = place],
               disk' \in Entry, Sound(disk', server), place # "insert" => disk'.map = e.map
        PROVE  MapKept' /\ disk' \in Entry /\ fetch' \in [Process -> Fetch]
    <2>1. GoesOn(p, place, e, a)
      BY <1>2, <1>5, <1>6, Stays DEF Place
    <2>2. Fits(fetch'[p], disk', server)
      BY <1>4, <1>5, <1>6, <2>1 DEF GoesOn, Fits
    <2> QED BY <1>1, <1>3, <1>6, <2>1, <2>2, KeptStep DEF GoesOn
  <1>7. disk \in Entry
    BY DEF MapType
  <1>8. CASE WriteFails(p) \/ TagFails(p)
    BY <1>4, <1>6, <1>7, <1>8 DEF WriteFails, TagFails, Skipped
  <1>9. CASE ReplaceMap(p)
    <2>1. disk' \in Entry /\ disk'.map = e.map /\ disk'.tag = disk.tag
      BY <1>2, <1>7, <1>9 DEF ReplaceMap, Entry
    <2>2. Sound(disk', server)
      BY <1>4, <1>7, <1>9, <2>1, VersionParts DEF ReplaceMap, Sound, MapType
    <2> QED BY <1>6, <1>9, <2>1, <2>2 DEF ReplaceMap
  <1>10. CASE ClearTag(p)
    <2>1. disk' \in Entry /\ disk'.map = disk.map /\ disk'.tag = 0
      BY <1>7, <1>10, MapAssumption DEF ClearTag, Entry, Version
    <2>2. Sound(disk', server)
      BY <1>4, <1>7, <2>1, VersionParts DEF Sound
    <2>3. PICK place \in {"fill", "insert"} : fetch' = [fetch EXCEPT ![p].at = place]
      BY <1>10 DEF ClearTag
    <2> QED BY <1>4, <1>6, <1>10, <2>1, <2>2, <2>3 DEF ClearTag
  <1>11. CASE FillTag(p)
    <2>1. disk' \in Entry /\ disk'.map = disk.map /\ disk'.tag = e.tag
      BY <1>2, <1>7, <1>11 DEF FillTag, Entry
    <2>2. Sound(disk', server)
      BY <1>4, <1>11, <2>1 DEF FillTag, Sound
    <2> QED BY <1>6, <1>11, <2>1, <2>2 DEF FillTag
  <1> QED BY <1>8, <1>9, <1>10, <1>11

\* It keeps the answer in memory, returns or ends.
LEMMA ReturnStep ==
    ASSUME MapType, MapKept, ~ Overlap, NEW p \in Process,
           Unanswered(p) \/ Insert(p) \/ Return(p) \/ Exit(p)
    PROVE  MapKept' /\ memory' \in [Process -> Entry] /\ fetch' \in [Process -> Fetch]
  <1>1. UNCHANGED <<server, disk>>
    BY DEF Unanswered, Insert, Return, Exit
  <1>2. NoEntry \in Entry /\ Sound(NoEntry, server)
    BY NoEntrySound
  <1>3. ASSUME fetch' = [fetch EXCEPT ![p] = NoFetch],
               memory' = memory \/ memory' = [memory EXCEPT ![p] = NoEntry]
        PROVE  MapKept' /\ memory' \in [Process -> Entry] /\ fetch' \in [Process -> Fetch]
    <2>1. GoesOn(p, "idle", NoEntry, 0)
      BY <1>3, Ends
    <2>2. Fits(fetch'[p], disk', server)
      BY <1>2, <2>1 DEF GoesOn, Fits
    <2>3. memory' \in [Process -> Entry]
      BY <1>2, <1>3 DEF MapType
    <2> QED BY <1>1, <1>2, <1>3, <2>1, <2>2, <2>3, KeptStep, PartsKept DEF GoesOn
  <1>4. CASE Return(p) \/ Exit(p)
    BY <1>3, <1>4 DEF Return, Exit
  <1>5. CASE Unanswered(p) /\ fetch[p].entry.map = 0
    BY <1>3, <1>5 DEF Unanswered
  <1>6. PICK e \in Entry : e = fetch[p].entry
    BY FetchParts
  <1>7. PICK a \in Version : a = fetch[p].answer
    BY FetchParts
  <1>8. "done" \in Place
    BY DEF Place
  <1>9. fetch[p].at # "readTag" => Sound(e, server) /\ (a # 0 => e.map = a)
    BY <1>6, <1>7 DEF MapKept, Fits
  <1>10. CASE Unanswered(p) /\ fetch[p].entry.map # 0
    <2>1. fetch' = To(p, "done", e) /\ fetch[p].at = "ask" /\ memory' = memory
      BY <1>6, <1>10 DEF Unanswered
    <2>2. GoesOn(p, "done", e, a)
      BY <1>7, <1>8, <2>1, GoesTo
    <2>3. Fits(fetch'[p], disk', server)
      BY <1>9, <2>1, <2>2 DEF GoesOn, Fits
    <2> QED BY <1>1, <2>1, <2>2, <2>3, KeptStep, PartsKept DEF GoesOn, MapType
  <1>11. CASE Insert(p)
    <2>1. /\ fetch' = [fetch EXCEPT ![p].at = "done"] /\ fetch[p].at = "insert"
          /\ memory' = [memory EXCEPT ![p] = e]
      BY <1>6, <1>11 DEF Insert
    <2>2. GoesOn(p, "done", e, a)
      BY <1>6, <1>7, <1>8, <2>1, Stays
    <2>3. Fits(fetch'[p], disk', server) /\ Sound(e, server)
      BY <1>9, <2>1, <2>2 DEF GoesOn, Fits
    <2>4. memory' \in [Process -> Entry]
      BY <2>1 DEF MapType
    <2> QED BY <1>1, <2>1, <2>2, <2>3, <2>4, KeptStep, PartsKept DEF GoesOn
  <1> QED BY <1>4, <1>5, <1>10, <1>11

\* The server publishes a map, and an hour passes.
LEMMA PublishStep ==
    ASSUME MapType, MapKept, Publish
    PROVE  MapKept' /\ server' \in Version
  <1>1. server' = server + 1 /\ UNCHANGED <<disk, memory, fetch>>
    BY DEF Publish
  <1>2. server' \in Version /\ server <= server' /\ server \in Nat /\ server' \in Nat
    BY <1>1, MapAssumption DEF Publish, MapType, Version
  <1>3. ASSUME NEW e \in Entry, Sound(e, server) PROVE Sound(e, server')
    BY <1>2, <1>3, VersionParts DEF Sound
  <1>4. Sound(disk, server')
    BY <1>3 DEF MapKept, MapType
  <1>5. ASSUME NEW p \in Process PROVE Sound(memory[p], server') /\ Fits(fetch[p], disk, server')
    <2>1. memory[p] \in Entry /\ fetch[p].entry \in Entry
      BY FetchParts DEF MapType
    <2>2. Sound(memory[p], server) /\ Fits(fetch[p], disk, server)
      BY DEF MapKept
    <2>3. Sound(fetch[p].entry, server) => Sound(fetch[p].entry, server')
      BY <1>3, <2>1
    <2> QED BY <1>3, <2>1, <2>2, <2>3 DEF Fits
  <1> QED BY <1>1, <1>2, <1>4, <1>5 DEF MapKept

LEMMA AgeStep ==
    ASSUME MapType, MapKept, Age
    PROVE  MapKept' /\ disk' \in Entry /\ memory' \in [Process -> Entry]
  <1>1. UNCHANGED <<server, fetch>>
    BY DEF Age
  <1>2. disk' \in Entry /\ disk'.map = disk.map /\ disk'.tag = disk.tag
    BY DEF Age, MapType, Entry
  <1>3. memory' \in [Process -> Entry]
    BY DEF Age, MapType, Entry
  <1>4. ASSUME NEW p \in Process
        PROVE  memory'[p].map = memory[p].map /\ memory'[p].tag = memory[p].tag
    BY DEF Age, MapType, Entry
  <1>5. Sound(disk', server)
    BY <1>2 DEF MapKept, Sound
  <1>6. ASSUME NEW p \in Process PROVE Sound(memory'[p], server) /\ Fits(fetch[p], disk', server)
    BY <1>2, <1>4 DEF MapKept, Sound, Fits
  <1> QED BY <1>1, <1>2, <1>3, <1>5, <1>6 DEF MapKept

-----------------------------------------------------------------------------
LEMMA MapStart == MapInit => MapInv
  <1> SUFFICES ASSUME MapInit PROVE MapInv
    OBVIOUS
  <1>1. 0 \in Version /\ 1 \in Version /\ 0 <= 0 /\ 0 <= 1
    BY MapAssumption DEF Version
  <1>2. NoEntry \in Entry /\ NoEntry.map = 0 /\ NoEntry.tag = 0
    BY <1>1 DEF NoEntry, Entry
  <1>3. NoFetch \in Fetch /\ NoFetch.at = "idle" /\ NoFetch.entry = NoEntry /\ NoFetch.answer = 0
    BY <1>1, <1>2 DEF NoFetch, Fetch, Place
  <1>4. MapType
    BY <1>1, <1>2, <1>3 DEF MapInit, MapType
  <1>5. Sound(NoEntry, server)
    BY <1>1, <1>2 DEF MapInit, Sound
  <1>6. ASSUME NEW p \in Process
        PROVE  memory[p] = NoEntry /\ fetch[p] = NoFetch
    BY DEF MapInit
  <1>7. MapKept
    BY <1>3, <1>5, <1>6 DEF MapInit, MapKept, Fits
  <1>8. ~ Overlap
    BY <1>3, <1>6 DEF Overlap, Stores
  <1> QED BY <1>4, <1>7, <1>8 DEF MapInv

LEMMA MapStep == MapInv /\ [MapNext]_mapVars => MapInv'
  <1> SUFFICES ASSUME MapInv, [MapNext]_mapVars, ~ overlapped' PROVE MapType' /\ MapKept' /\ ~ Overlap'
    BY DEF MapInv
  <1>1. CASE UNCHANGED mapVars
    BY <1>1 DEF mapVars, MapInv, MapType, MapKept, Overlap, Stores
  <1>2. CASE MapNext
    <2>1. ~ overlapped /\ ~ Overlap'
      BY <1>2 DEF MapNext
    <2>2. MapType /\ MapKept /\ ~ Overlap
      BY <2>1 DEF MapInv
    <2>3. CASE Publish
      <3>1. MapKept' /\ server' \in Version
        BY <2>2, <2>3, PublishStep
      <3> QED BY <2>1, <2>2, <2>3, <3>1 DEF Publish, MapType
    <2>4. CASE Age
      <3>1. MapKept' /\ disk' \in Entry /\ memory' \in [Process -> Entry]
        BY <2>2, <2>4, AgeStep
      <3> QED BY <2>1, <2>2, <2>4, <3>1 DEF Age, MapType
    <2>5. ASSUME NEW p \in Process, Step(p) PROVE MapType' /\ MapKept'
      <3>1. CASE Recall(p) \/ ReadMap(p) \/ ReadTag(p)
        <4>1. MapKept' /\ fetch' \in [Process -> Fetch]
          BY <2>2, <3>1, LookStep
        <4>2. UNCHANGED <<server, disk, memory>>
          BY <3>1 DEF Recall, ReadMap, ReadTag
        <4> QED BY <2>2, <4>1, <4>2 DEF MapType
      <3>2. CASE Answered(p) \/ NotModified(p)
        <4>1. MapKept' /\ fetch' \in [Process -> Fetch]
          BY <2>2, <3>2, AnswerStep
        <4>2. UNCHANGED <<server, disk, memory>>
          BY <3>2 DEF Answered, NotModified
        <4> QED BY <2>2, <4>1, <4>2 DEF MapType
      <3>3. CASE WriteFails(p) \/ ReplaceMap(p) \/ ClearTag(p) \/ FillTag(p) \/ TagFails(p)
        <4>1. MapKept' /\ disk' \in Entry /\ fetch' \in [Process -> Fetch]
          BY <2>2, <3>3, StoreStep
        <4>2. UNCHANGED <<server, memory>>
          BY <3>3 DEF WriteFails, ReplaceMap, ClearTag, FillTag, TagFails
        <4> QED BY <2>2, <4>1, <4>2 DEF MapType
      <3>4. CASE Unanswered(p) \/ Insert(p) \/ Return(p) \/ Exit(p)
        <4>1. MapKept' /\ memory' \in [Process -> Entry] /\ fetch' \in [Process -> Fetch]
          BY <2>2, <3>4, ReturnStep
        <4>2. UNCHANGED <<server, disk>>
          BY <3>4 DEF Unanswered, Insert, Return, Exit
        <4> QED BY <2>2, <4>1, <4>2 DEF MapType
      <3> QED BY <2>5, <3>1, <3>2, <3>3, <3>4 DEF Step
    <2> QED BY <1>2, <2>1, <2>3, <2>4, <2>5 DEF MapNext
  <1> QED BY <1>1, <1>2

LEMMA MapSafe == MapInv => AnsweredIsCurrent
  <1> SUFFICES ASSUME MapInv, ~ overlapped
               PROVE  /\ SoundEntry(disk)
                      /\ \A p \in Process :
                            /\ SoundEntry(memory[p])
                            /\ fetch[p].at # "readTag" => SoundEntry(fetch[p].entry)
                            /\ fetch[p].answer # 0 => fetch[p].entry.map = fetch[p].answer
    BY DEF AnsweredIsCurrent
  <1>1. MapKept
    BY DEF MapInv
  <1> QED BY <1>1 DEF MapKept, Fits, Sound, SoundEntry

\* Unless fetches overlap, what a fetch returns after an answer is the server's map of that
\* moment, and no tag stands beside an older map (fetch_derp_map_cached, write_disk_cache).
THEOREM AnswersAreCurrent == MapSpec => []AnsweredIsCurrent
  <1> QED BY MapStart, MapStep, MapSafe, PTL DEF MapSpec

-----------------------------------------------------------------------------
(*****************************************************************************)
(* KeyFiles, for any number of processes and keys.                           *)
(*****************************************************************************)

StartingType == [at : {"idle", "link", "load", "ready"}, key : Nat]
KeygenType == [at : {"idle", "fill", "rename"}, key : Nat]

\* A server links a key it made, and loads the file after one was published.
HostInv ==
    /\ hostKey \in Nat
    /\ starting \in [Server -> StartingType]
    /\ \A s \in Server :
          /\ starting[s].at = "link" => starting[s].key # 0
          /\ starting[s].at = "load" => hostKey # 0
    /\ presented \subseteq {hostKey} \ {0}

\* A genkey fills or renames a key it made, and a complete file has one.
SavedInv ==
    /\ saved \in [key : Nat, whole : BOOLEAN]
    /\ keygen \in [Keygen -> KeygenType]
    /\ \A g \in Keygen : keygen[g].at # "idle" => keygen[g].key # 0
    /\ saved.whole => saved.key # 0

KeyInv == made \in Nat /\ HostInv /\ SavedInv

-----------------------------------------------------------------------------
LEMMA KeyStarts == KeyInit => KeyInv
  BY DEF KeyInit, KeyInv, HostInv, SavedInv, NotStarted, NoFile, StartingType, KeygenType

LEMMA HostKept == ASSUME KeyInv, [KeyNext]_keyVars PROVE HostInv'
  <1> USE DEF KeyInv, HostInv, StartingType
  <1>1. ASSUME NEW s \in Server, UseExisting(s) PROVE HostInv'
    BY <1>1 DEF UseExisting, Goes
  <1>2. ASSUME NEW s \in Server, MakeHostKey(s) PROVE HostInv'
    BY <1>2 DEF MakeHostKey, NewKey
  <1>3. ASSUME NEW s \in Server, LinkHostKey(s) PROVE HostInv'
    <2>1. hostKey' \in Nat /\ hostKey' # 0
      BY <1>3 DEF LinkHostKey, Published
    <2>2. hostKey # 0 => hostKey' = hostKey
      BY <1>3 DEF LinkHostKey, Published
    <2> QED BY <1>3, <2>1, <2>2 DEF LinkHostKey, Goes
  <1>4. ASSUME NEW s \in Server, HostKeyFails(s) PROVE HostInv'
    BY <1>4 DEF HostKeyFails, NotStarted
  <1>5. ASSUME NEW s \in Server, LoadHostKey(s) PROVE HostInv'
    BY <1>5 DEF LoadHostKey, Goes
  <1>6. ASSUME NEW s \in Server, ServerEnds(s) PROVE HostInv'
    BY <1>6 DEF ServerEnds, NotStarted
  <1>7. CASE UNCHANGED hostVars
    BY <1>7 DEF hostVars
  <1>8. ASSUME NEW g \in Keygen,
               \/ CreateSaved(g) \/ FillSaved(g) \/ ForceSaved(g)
               \/ RenameSaved(g) \/ DeleteSaved(g) \/ KeygenEnds(g)
        PROVE  UNCHANGED hostVars
    BY <1>8 DEF CreateSaved, FillSaved, ForceSaved, RenameSaved, DeleteSaved, KeygenEnds, hostVars
  <1> QED
    BY <1>1, <1>2, <1>3, <1>4, <1>5, <1>6, <1>7, <1>8 DEF KeyNext, keyVars

LEMMA SavedKept == ASSUME KeyInv, [KeyNext]_keyVars PROVE SavedInv'
  <1> USE DEF KeyInv, SavedInv, KeygenType
  <1>1. ASSUME NEW g \in Keygen, CreateSaved(g) PROVE SavedInv'
    BY <1>1 DEF CreateSaved, NewKey
  <1>2. ASSUME NEW g \in Keygen, FillSaved(g) PROVE SavedInv'
    <2>1. saved' \in [key : Nat, whole : BOOLEAN] /\ (saved'.whole => saved'.key # 0)
      BY <1>2 DEF FillSaved
    <2> QED BY <1>2, <2>1 DEF FillSaved, NotStarted
  <1>3. ASSUME NEW g \in Keygen, ForceSaved(g) PROVE SavedInv'
    BY <1>3 DEF ForceSaved, NewKey
  <1>4. ASSUME NEW g \in Keygen, RenameSaved(g) PROVE SavedInv'
    BY <1>4 DEF RenameSaved, WholeKey, NotStarted
  <1>5. ASSUME NEW g \in Keygen, DeleteSaved(g) PROVE SavedInv'
    BY <1>5 DEF DeleteSaved, NoFile
  <1>6. ASSUME NEW g \in Keygen, KeygenEnds(g) PROVE SavedInv'
    BY <1>6 DEF KeygenEnds, NotStarted
  <1>7. CASE UNCHANGED savedVars
    BY <1>7 DEF savedVars
  <1>8. ASSUME NEW s \in Server,
               \/ UseExisting(s) \/ MakeHostKey(s) \/ LinkHostKey(s)
               \/ HostKeyFails(s) \/ LoadHostKey(s) \/ ServerEnds(s)
        PROVE  UNCHANGED savedVars
    BY <1>8 DEF UseExisting, MakeHostKey, LinkHostKey, HostKeyFails, LoadHostKey, ServerEnds
  <1> QED
    BY <1>1, <1>2, <1>3, <1>4, <1>5, <1>6, <1>7, <1>8 DEF KeyNext, keyVars

LEMMA KeyKept == KeyInv /\ [KeyNext]_keyVars => KeyInv'
  <1> SUFFICES ASSUME KeyInv, [KeyNext]_keyVars PROVE made' \in Nat
    BY HostKept, SavedKept DEF KeyInv
  <1> QED
    BY DEF KeyInv, KeyNext, keyVars, UseExisting, MakeHostKey, LinkHostKey, HostKeyFails,
           LoadHostKey, ServerEnds, CreateSaved, FillSaved, ForceSaved, RenameSaved,
           DeleteSaved, KeygenEnds, NewKey

\* The servers of a user present one host key, the one that was published (host_key).
THEOREM OneKeyIsPresented == KeySpec => []OneHostKey
  <1>1. KeyInv => OneHostKey
    BY DEF KeyInv, HostInv, OneHostKey
  <1> QED BY KeyStarts, KeyKept, <1>1, PTL DEF KeySpec

\* A complete saved key is only deleted or replaced by a complete one (secure_write).
THEOREM CompleteKeysStay == KeySpec => SavedKeyKept
  <1> DEFINE Kept ==
        saved.whole =>
          \/ saved' = saved \/ saved' = NoFile
          \/ saved'.whole /\ \E g \in Keygen : keygen[g] = [at |-> "rename", key |-> saved'.key]
  <1>1. ASSUME KeyInv, KeyNext PROVE Kept
    <2> USE DEF KeyInv, SavedInv, KeygenType
    <2>1. ASSUME NEW g \in Keygen, CreateSaved(g) PROVE Kept
      BY <1>1, <2>1 DEF CreateSaved
    <2>2. ASSUME NEW g \in Keygen, FillSaved(g) PROVE Kept
      BY <1>1, <2>2 DEF FillSaved
    <2>3. ASSUME NEW g \in Keygen, RenameSaved(g) PROVE Kept
      BY <1>1, <2>3 DEF RenameSaved, WholeKey
    <2>4. ASSUME NEW g \in Keygen, DeleteSaved(g) PROVE Kept
      BY <2>4 DEF DeleteSaved
    <2>5. ASSUME NEW g \in Keygen, ForceSaved(g) \/ KeygenEnds(g) PROVE Kept
      BY <2>5 DEF ForceSaved, KeygenEnds
    <2>6. ASSUME NEW s \in Server,
                 \/ UseExisting(s) \/ MakeHostKey(s) \/ LinkHostKey(s)
                 \/ HostKeyFails(s) \/ LoadHostKey(s) \/ ServerEnds(s)
          PROVE  Kept
      BY <2>6 DEF UseExisting, MakeHostKey, LinkHostKey, HostKeyFails, LoadHostKey, ServerEnds,
                  savedVars
    <2> QED BY <1>1, <2>1, <2>2, <2>3, <2>4, <2>5, <2>6 DEF KeyNext
  <1>2. KeyInv /\ [KeyNext]_keyVars => [Kept]_keyVars
    BY <1>1
  <1> QED BY KeyStarts, KeyKept, <1>2, PTL DEF KeySpec, SavedKeyKept
===============================================================================
