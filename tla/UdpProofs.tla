------------------------------ MODULE UdpProofs ------------------------------
(***************************************************************************)
(* Proofs about UdpFlows, for any flows, tokens, cap and backlog.          *)
(*                                                                         *)
(* The table and the tokens keep each other honest: an entry names a       *)
(* generation of its own flow (EntriesNameTheirFlow), and a generation     *)
(* that is still open is the whole entry of its flow (OpenIsCurrent).      *)
(* Without the second conjunct neither OneOpenStream nor SendsCurrent is   *)
(* inductive: Output would find an arbitrary entry under the flow.         *)
(***************************************************************************)
EXTENDS UdpFlows, FiniteSetTheorems, TLAPS

EntriesNameTheirFlow ==
    \A f \in Flow : \A g \in flows[f] : g \in used /\ flow_of[g] = f

OpenIsCurrent == \A g \in used \ closed : flows[flow_of[g]] = {g}

FlowInv ==
    /\ Shape /\ EntriesNameTheirFlow /\ OpenIsCurrent
    /\ SendsCurrent /\ OpenOwned

-----------------------------------------------------------------------------
\* Opening a flow whose entry is vacant or cancelled keeps the two invariants of
\* the table, wherever the stream goes.
LEMMA OpeningKeepsTable ==
    ASSUME Shape, EntriesNameTheirFlow, OpenIsCurrent,
           NEW f \in Flow, NEW g \in Generation,
           NewFlow(f, g), flows[f] \subseteq closed,
           closed \subseteq closed', closed' \subseteq closed \cup {g}
    PROVE  /\ flows' \in [Flow -> SUBSET Generation]
           /\ idle' \in [Flow -> BOOLEAN]
           /\ flow_of' \in [Generation -> Flow]
           /\ used' \subseteq Generation /\ closed' \subseteq used'
           /\ EntriesNameTheirFlow' /\ OpenIsCurrent'
  <1>1. /\ g \notin used /\ used' = used \cup {g}
        /\ flow_of' = [flow_of EXCEPT ![g] = f]
        /\ flows' = [flows EXCEPT ![f] = {g}]
        /\ idle' = [idle EXCEPT ![f] = FALSE]
    BY DEF NewFlow
  <1>2. /\ flows' \in [Flow -> SUBSET Generation]
        /\ idle' \in [Flow -> BOOLEAN]
        /\ flow_of' \in [Generation -> Flow]
        /\ used' \subseteq Generation /\ closed' \subseteq used'
    BY <1>1 DEF Shape
  <1>3. EntriesNameTheirFlow'
    BY <1>1 DEF Shape, EntriesNameTheirFlow
  <1>4. OpenIsCurrent'
    <2> SUFFICES ASSUME NEW h \in (used \ closed)'
                 PROVE  flows'[flow_of'[h]] = {h}
      BY DEF OpenIsCurrent
    <2>1. CASE h = g
      BY <2>1, <1>1 DEF Shape
    <2>2. CASE h # g
      <3>1. h \in used \ closed /\ flow_of'[h] = flow_of[h] /\ flow_of[h] \in Flow
        BY <2>2, <1>1 DEF Shape
      <3>2. flows[flow_of[h]] = {h}
        BY <3>1 DEF OpenIsCurrent
      <3>3. flow_of[h] # f
        BY <3>1, <3>2
      <3> QED BY <3>1, <3>2, <3>3, <1>1 DEF Shape
    <2> QED BY <2>1, <2>2
  <1> QED BY <1>2, <1>3, <1>4

LEMMA FlowInvInit == Init => FlowInv
  BY UdpAssumption DEF Init, FlowInv, Shape, EntriesNameTheirFlow, OpenIsCurrent,
                       SendsCurrent, OpenOwned

LEMMA FlowInvNext == FlowInv /\ [Next]_vars => FlowInv'
  <1> SUFFICES ASSUME FlowInv, [Next]_vars PROVE FlowInv'
    OBVIOUS
  <1> USE DEF FlowInv
  <1>1. CASE Expire
    <2>1. EntriesNameTheirFlow'
      BY <1>1 DEF Expire, EntriesNameTheirFlow, Shape
    <2>2. OpenIsCurrent'
      <3> SUFFICES ASSUME NEW h \in (used \ closed)'
                   PROVE  flows'[flow_of'[h]] = {h}
        BY DEF OpenIsCurrent
      <3>1. h \in used \ closed /\ h \notin Cancelled(Stale)
        BY <1>1 DEF Expire
      <3>2. flow_of[h] \in Flow /\ flows[flow_of[h]] = {h}
        BY <3>1 DEF OpenIsCurrent, Shape
      <3>3. flow_of[h] \notin Stale
        BY <3>1, <3>2 DEF Cancelled
      <3> QED BY <3>2, <3>3, <1>1 DEF Expire
    <2>3. Cancelled(Stale) \subseteq used
      BY DEF Cancelled, Stale, EntriesNameTheirFlow
    <2> QED BY <1>1, <2>1, <2>2, <2>3 DEF Expire, Shape, SendsCurrent, OpenOwned
  <1>2. CASE Listen
    BY <1>2 DEF Listen, Shape, EntriesNameTheirFlow, OpenIsCurrent, SendsCurrent, OpenOwned
  <1>3. CASE DropListener
    BY <1>3 DEF DropListener, Shape, EntriesNameTheirFlow, OpenIsCurrent, SendsCurrent, OpenOwned
  <1>4. ASSUME NEW f \in Flow, Input(f) PROVE FlowInv'
    <2>1. CASE flows[f] \ closed # {}
      BY <1>4, <2>1 DEF Input, Shape, EntriesNameTheirFlow, OpenIsCurrent, SendsCurrent, OpenOwned
    <2>2. ASSUME NEW g \in Generation, flows[f] \ closed = {}, NewFlow(f, g), Place(g)
          PROVE  FlowInv'
      <3>1. /\ closed \subseteq closed' /\ closed' \subseteq closed \cup {g}
            /\ held' \cup backlog' \cup closed' = (held \cup backlog \cup closed) \cup {g}
            /\ held' \subseteq held \cup {g} /\ backlog' \subseteq backlog \cup {g}
        BY <2>2 DEF Place
      <3>2. /\ flows' \in [Flow -> SUBSET Generation]
            /\ idle' \in [Flow -> BOOLEAN]
            /\ flow_of' \in [Generation -> Flow]
            /\ used' \subseteq Generation /\ closed' \subseteq used'
            /\ EntriesNameTheirFlow' /\ OpenIsCurrent'
        BY <2>2, <3>1, OpeningKeepsTable
      <3>3. used' = used \cup {g}
        BY <2>2 DEF NewFlow
      <3>4. UNCHANGED <<serving, claimed, pending, out>>
        BY <1>4 DEF Input
      <3> QED BY <3>1, <3>2, <3>3, <3>4 DEF Shape, SendsCurrent, OpenOwned
    <2>3. ASSUME flows[f] \ closed = {}, flows' = [flows EXCEPT ![f] = {}],
                 UNCHANGED <<idle, flow_of, used, closed, held, backlog>>
          PROVE  FlowInv'
      <3>1. OpenIsCurrent'
        <4> SUFFICES ASSUME NEW h \in used \ closed
                     PROVE  flows'[flow_of[h]] = {h}
          BY <2>3 DEF OpenIsCurrent
        <4>1. flow_of[h] \in Flow /\ flows[flow_of[h]] = {h}
          BY DEF OpenIsCurrent, Shape
        <4>2. flow_of[h] # f
          BY <4>1, <2>3
        <4> QED BY <4>1, <4>2, <2>3 DEF Shape
      <3>2. UNCHANGED <<serving, claimed, pending, out>>
        BY <1>4 DEF Input
      <3> QED BY <3>1, <3>2, <2>3 DEF Shape, EntriesNameTheirFlow, SendsCurrent, OpenOwned
    <2> QED BY <1>4, <2>1, <2>2, <2>3 DEF Input
  <1>5. ASSUME NEW f \in Flow, Dial(f) PROVE FlowInv'
    <2>1. PICK g \in Generation :
              /\ NewFlow(f, g)
              /\ \/ held' = held \cup {g} /\ UNCHANGED closed
                 \/ closed' = closed \cup {g} /\ UNCHANGED held
      BY <1>5 DEF Dial
    <2>2. flows[f] = {} /\ UNCHANGED <<serving, claimed, backlog, pending, out>>
      BY <1>5 DEF Dial
    <2>3. /\ flows' \in [Flow -> SUBSET Generation]
          /\ idle' \in [Flow -> BOOLEAN]
          /\ flow_of' \in [Generation -> Flow]
          /\ used' \subseteq Generation /\ closed' \subseteq used'
          /\ EntriesNameTheirFlow' /\ OpenIsCurrent'
      BY <2>1, <2>2, OpeningKeepsTable
    <2>4. used' = used \cup {g}
      BY <2>1 DEF NewFlow
    <2> QED BY <2>1, <2>2, <2>3, <2>4 DEF Shape, SendsCurrent, OpenOwned
  <1>6. ASSUME NEW f \in Flow, GrowIdle(f) PROVE FlowInv'
    BY <1>6 DEF GrowIdle, Shape, EntriesNameTheirFlow, OpenIsCurrent, SendsCurrent, OpenOwned
  <1>7. ASSUME NEW g \in Generation, Submit(g) PROVE FlowInv'
    BY <1>7 DEF Submit, Shape, EntriesNameTheirFlow, OpenIsCurrent, SendsCurrent, OpenOwned
  <1>8. ASSUME NEW g \in Generation, Output(g) PROVE FlowInv'
    <2>1. CASE StillOpen(g)
      <3>1. g \in used \ closed
        BY <1>8, <2>1 DEF Output, StillOpen, Shape
      <3>2. flows[flow_of[g]] = {g}
        BY <3>1 DEF OpenIsCurrent
      <3>3. out' = out \cup {[by |-> g, current |-> {g}]}
        BY <1>8, <2>1, <3>2 DEF Output
      <3>4. SendsCurrent'
        BY <3>3 DEF SendsCurrent
      <3>5. Shape' /\ OpenOwned'
        <4>1. idle' \in [Flow -> BOOLEAN] /\ pending' \subseteq used
          BY <1>8, <2>1 DEF Output, Shape
        <4>2. out' \subseteq [by : Generation, current : SUBSET Generation]
          BY <3>3 DEF Shape
        <4> QED BY <1>8, <4>1, <4>2 DEF Output, Shape, OpenOwned
      <3>6. EntriesNameTheirFlow' /\ OpenIsCurrent'
        BY <1>8 DEF Output, EntriesNameTheirFlow, OpenIsCurrent
      <3> QED BY <3>4, <3>5, <3>6
    <2>2. CASE ~ StillOpen(g)
      BY <1>8, <2>2 DEF Output, Shape, EntriesNameTheirFlow, OpenIsCurrent, SendsCurrent, OpenOwned
    <2> QED BY <2>1, <2>2
  <1>9. ASSUME NEW g \in Generation, Drop(g) PROVE FlowInv'
    BY <1>9 DEF Drop, Shape, EntriesNameTheirFlow, OpenIsCurrent, SendsCurrent, OpenOwned
  <1>10. ASSUME NEW g \in Generation, Accept(g) PROVE FlowInv'
    BY <1>10 DEF Accept, Shape, EntriesNameTheirFlow, OpenIsCurrent, SendsCurrent, OpenOwned
  <1>11. CASE UNCHANGED vars
    BY <1>11 DEF vars, Shape, EntriesNameTheirFlow, OpenIsCurrent, SendsCurrent, OpenOwned
  <1> QED BY <1>1, <1>2, <1>3, <1>4, <1>5, <1>6, <1>7, <1>8, <1>9, <1>10, <1>11 DEF Next

LEMMA FlowInvariant == Spec => []FlowInv
  BY FlowInvInit, FlowInvNext, PTL DEF Spec

-----------------------------------------------------------------------------
\* However often a flow is closed, expired and opened again, at most one stream
\* of it is open (UdpFlow::drop, udp_input, Command::DialUdp).
THEOREM OneStreamPerFlow == Spec => []OneOpenStream
  <1>1. FlowInv => OneOpenStream
    <2> SUFFICES ASSUME FlowInv, NEW g \in used \ closed, NEW h \in used \ closed,
                        flow_of[g] = flow_of[h]
                 PROVE  g = h
      BY DEF OneOpenStream
    <2>1. flows[flow_of[g]] = {g} /\ flows[flow_of[h]] = {h}
      BY DEF FlowInv, OpenIsCurrent
    <2> QED BY <2>1
  <1> QED BY FlowInvariant, <1>1, PTL

\* A send queued by an earlier stream of a flow never reaches the wire through
\* the entry of its successor (udp_output).
THEOREM SendsGoThroughTheirOwnEntry == Spec => []SendsCurrent
  BY FlowInvariant, PTL DEF FlowInv

\* Every open stream is held by an application or waits in a Listener: none is
\* left open with nobody to close it (udp_input, Listener).
THEOREM NoStreamIsLost == Spec => []OpenOwned
  BY FlowInvariant, PTL DEF FlowInv

-----------------------------------------------------------------------------
\* The bounds need the sets to be finite, and one lemma for each way to grow.
Bounds ==
    /\ Cardinality(Occupied) <= MaxFlows
    /\ IsFiniteSet(backlog) /\ Cardinality(backlog) <= Backlog

LEMMA OccupiedFinite == IsFiniteSet(Occupied) /\ Cardinality(Occupied) \in Nat
  <1>1. Occupied \in SUBSET Flow
    BY DEF Occupied
  <1> QED BY <1>1, UdpAssumption, FS_Subset, FS_CardinalityType

\* Removing entries keeps the table under its cap.
LEMMA RemovalKeepsCap ==
    ASSUME Cardinality(Occupied) <= MaxFlows, Occupied' \subseteq Occupied
    PROVE  Cardinality(Occupied)' <= MaxFlows
  <1>1. IsFiniteSet(Occupied) /\ Cardinality(Occupied) \in Nat
    BY OccupiedFinite
  <1>2. IsFiniteSet(Occupied') /\ Cardinality(Occupied') <= Cardinality(Occupied)
    BY <1>1, FS_Subset
  <1>3. Cardinality(Occupied') \in Nat
    BY <1>2, FS_CardinalityType
  <1> QED BY <1>1, <1>2, <1>3, UdpAssumption

\* HasRoom guards every insertion.
LEMMA OpeningKeepsCap ==
    ASSUME Shape, NEW f \in Flow, NEW g \in Generation, NewFlow(f, g), HasRoom(f)
    PROVE  Cardinality(Occupied)' <= MaxFlows
  <1>1. IsFiniteSet(Occupied \ {f}) /\ Cardinality(Occupied \ {f}) \in Nat
    BY OccupiedFinite, FS_RemoveElement, FS_CardinalityType
  <1>2. Occupied' = (Occupied \ {f}) \cup {f}
    BY DEF Occupied, NewFlow, Shape
  <1>3. Cardinality((Occupied \ {f}) \cup {f}) = Cardinality(Occupied \ {f}) + 1
    BY <1>1, FS_AddElement
  <1>4. Cardinality(Occupied)' = Cardinality(Occupied')
    OBVIOUS
  <1> QED BY <1>1, <1>2, <1>3, <1>4, UdpAssumption DEF HasRoom

\* A stream enters the backlog only when it has room; streams leave it one at a
\* time or all together.
LEMMA BacklogBounded ==
    ASSUME IsFiniteSet(backlog), Cardinality(backlog) <= Backlog, NEW g,
           \/ backlog' = backlog \cup {g} /\ Cardinality(backlog) < Backlog
           \/ backlog' \subseteq backlog
    PROVE  IsFiniteSet(backlog') /\ Cardinality(backlog') <= Backlog
  <1>1. Cardinality(backlog) \in Nat
    BY FS_CardinalityType
  <1>2. CASE backlog' = backlog \cup {g} /\ Cardinality(backlog) < Backlog
    <2>1. IsFiniteSet(backlog') /\ Cardinality(backlog') <= Cardinality(backlog) + 1
      <3>1. /\ IsFiniteSet(backlog \cup {g})
            /\ \/ Cardinality(backlog \cup {g}) = Cardinality(backlog)
               \/ Cardinality(backlog \cup {g}) = Cardinality(backlog) + 1
        BY FS_AddElement, Zenon
      <3> DEFINE c == Cardinality(backlog \cup {g})
      <3>2. c <= Cardinality(backlog) + 1
        BY <1>1, <3>1
      <3> QED BY <1>2, <3>1, <3>2
    <2>2. Cardinality(backlog') \in Nat
      BY <2>1, FS_CardinalityType
    <2> QED BY <1>1, <1>2, <2>1, <2>2, UdpAssumption
  <1>3. CASE backlog' \subseteq backlog
    <2>1. IsFiniteSet(backlog') /\ Cardinality(backlog') <= Cardinality(backlog)
      BY <1>3, FS_Subset
    <2>2. Cardinality(backlog') \in Nat
      BY <2>1, FS_CardinalityType
    <2> QED BY <1>1, <2>1, <2>2, UdpAssumption
  <1> QED BY <1>2, <1>3

LEMMA BoundsInit == Init => Bounds
  <1> SUFFICES ASSUME Init PROVE Bounds
    OBVIOUS
  <1>1. Occupied = {} /\ backlog = {}
    BY DEF Init, Occupied
  <1> QED BY <1>1, FS_EmptySet, UdpAssumption DEF Bounds

LEMMA BoundsNext == FlowInv /\ Bounds /\ [Next]_vars => Bounds'
  <1> SUFFICES ASSUME FlowInv, Bounds, [Next]_vars PROVE Bounds'
    OBVIOUS
  <1>1. Cardinality(Occupied)' <= MaxFlows
    <2>1. ASSUME NEW f \in Flow, Input(f) PROVE Cardinality(Occupied)' <= MaxFlows
      <3>1. ASSUME NEW g \in Generation, NewFlow(f, g), HasRoom(f)
            PROVE  Cardinality(Occupied)' <= MaxFlows
        BY <3>1, OpeningKeepsCap DEF FlowInv
      <3>2. ASSUME flows' = [flows EXCEPT ![f] = {}] \/ flows' = flows
            PROVE  Cardinality(Occupied)' <= MaxFlows
        <4>1. Occupied' \subseteq Occupied
          BY <3>2 DEF Occupied, FlowInv, Shape
        <4> QED BY <4>1, RemovalKeepsCap DEF Bounds
      <3> QED BY <2>1, <3>1, <3>2 DEF Input
    <2>2. ASSUME NEW f \in Flow, Dial(f) PROVE Cardinality(Occupied)' <= MaxFlows
      BY <2>2, OpeningKeepsCap DEF Dial, FlowInv
    <2>3. CASE Expire
      <3>1. Occupied' \subseteq Occupied
        BY <2>3 DEF Expire, Occupied
      <3> QED BY <3>1, RemovalKeepsCap DEF Bounds
    <2>4. CASE UNCHANGED flows
      <3>1. Occupied' \subseteq Occupied
        BY <2>4 DEF Occupied
      <3> QED BY <3>1, RemovalKeepsCap DEF Bounds
    <2> QED BY <2>1, <2>2, <2>3, <2>4
            DEF Next, vars, Listen, DropListener, GrowIdle, Submit, Output, Drop, Accept
  <1>2. /\ IsFiniteSet(backlog') /\ Cardinality(backlog') <= Backlog
    <2>1. ASSUME NEW f \in Flow, Input(f)
          PROVE  \E g : \/ backlog' = backlog \cup {g} /\ Cardinality(backlog) < Backlog
                        \/ backlog' \subseteq backlog
      BY <2>1 DEF Input, Place
    <2>2. \E g : \/ backlog' = backlog \cup {g} /\ Cardinality(backlog) < Backlog
                 \/ backlog' \subseteq backlog
      BY <2>1 DEF Next, vars, Expire, Listen, DropListener, Dial, GrowIdle, Submit,
                  Output, Drop, Accept
    <2> QED BY <2>2, BacklogBounded DEF Bounds
  <1> QED BY <1>1, <1>2 DEF Bounds

\* The table never exceeds MAX_CONNECTIONS, nor a Listener its queue, and every
\* token stays well typed (udp_input, Command::DialUdp, Listener).
THEOREM TypeCorrect == Spec => []TypeOK
  <1>1. Spec => []Bounds
    BY FlowInvariant, BoundsInit, BoundsNext, PTL DEF Spec
  <1>2. FlowInv /\ Bounds => TypeOK
    BY DEF FlowInv, Bounds, TypeOK
  <1> QED BY FlowInvariant, <1>1, <1>2, PTL
=============================================================================
