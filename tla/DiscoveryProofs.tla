--------------------------- MODULE DiscoveryProofs ---------------------------
(***************************************************************************)
(* Proofs about Discovery, for any clients, endpoints, table sizes and     *)
(* lifetimes.                                                              *)
(*                                                                         *)
(* The inductive invariant ties each piece of state to the packets it came *)
(* from: transaction ids are drawn once (UniqueTxids), a recorded probe    *)
(* stands for the one ping that carries its id (ProbesSent), and a pong    *)
(* was made from such a ping, at the ping's destination (PongsAnswer).     *)
(***************************************************************************)
EXTENDS Discovery, SequenceTheorems, TLAPS

UniqueTxids ==
    /\ \A q \in pings : q.txid \in used /\ q.at <= now
    /\ \A q1, q2 \in pings : q1.txid = q2.txid => q1 = q2

ProbesSent ==
    \A n \in Node : \A pr \in probes[n] :
        /\ pr.sent <= now
        /\ \E q \in pings :
               /\ q.txid = pr.txid /\ q.from = n /\ q.to = pr.peer
               /\ q.dst = pr.ep /\ q.at = pr.sent

PongsAnswer ==
    \A r \in pongs :
        /\ r.at <= now
        /\ \E q \in pings :
               /\ q.txid = r.txid /\ q.from = r.to /\ q.to = r.from
               /\ q.at <= r.at

PathInv == Shape /\ UniqueTxids /\ ProbesSent /\ PongsAnswer /\ DirectProven

-----------------------------------------------------------------------------
LEMMA RememberType ==
    ASSUME NEW list \in Seq(Endpoint), NEW ep \in Endpoint
    PROVE  Remember(list, ep) \in Seq(Endpoint)
  BY DiscoveryAssumption DEF Remember

LEMMA AnnouncedType ==
    ASSUME NEW eps \in Seq(Endpoint)
    PROVE  Announced(eps) \in Seq(Endpoint)
  <1>1. Len(eps) \in Nat /\ MaxCandidates \in Nat
    BY DiscoveryAssumption
  <1> QED BY <1>1, SubSeqProperties DEF Announced

LEMMA RangeType ==
    ASSUME NEW s \in Seq(Endpoint)
    PROVE  Range(s) \subseteq Endpoint
  BY DEF Range

\* Starting probes keeps the tables well typed and only adds probes and pings.
LEMMA StartProbesType ==
    ASSUME Shape, NEW n \in Node, NEW targets \in SUBSET (Node \X Endpoint),
           StartProbes(n, targets)
    PROVE  /\ used' \subseteq Txid
           /\ probes' \in [Node -> SUBSET Probe]
           /\ pings' \subseteq Ping
  <1>1. PICK granted \in SUBSET targets : \E id \in Injection(granted, Txid \ used),
                                               src \in [granted -> addr[n]] :
            /\ used' = used \cup Range(id)
            /\ probes' = [probes EXCEPT ![n] = @ \cup
                   {[txid |-> id[t], peer |-> t[1], ep |-> t[2], sent |-> now] : t \in granted}]
            /\ pings' = pings \cup
                   {[txid |-> id[t], from |-> n, to |-> t[1], src |-> src[t],
                     dst |-> t[2], at |-> now] : t \in granted}
    BY DEF StartProbes
  <1>2. PICK id \in Injection(granted, Txid \ used), src \in [granted -> addr[n]] :
            /\ used' = used \cup Range(id)
            /\ probes' = [probes EXCEPT ![n] = @ \cup
                   {[txid |-> id[t], peer |-> t[1], ep |-> t[2], sent |-> now] : t \in granted}]
            /\ pings' = pings \cup
                   {[txid |-> id[t], from |-> n, to |-> t[1], src |-> src[t],
                     dst |-> t[2], at |-> now] : t \in granted}
    BY <1>1
  <1>3. id \in [granted -> Txid \ used]
    BY <1>2 DEF Injection
  <1>4. \A t \in granted : /\ id[t] \in Txid /\ src[t] \in Endpoint
                            /\ t[1] \in Node /\ t[2] \in Endpoint
    BY <1>2, <1>3 DEF Shape
  <1>5. {[txid |-> id[t], peer |-> t[1], ep |-> t[2], sent |-> now] : t \in granted}
            \subseteq Probe
    BY <1>4 DEF Shape, Probe
  <1>6. {[txid |-> id[t], from |-> n, to |-> t[1], src |-> src[t],
          dst |-> t[2], at |-> now] : t \in granted} \subseteq Ping
    BY <1>4 DEF Shape, Ping
  <1>7. used' \subseteq Txid
    BY <1>2, <1>3 DEF Shape, Range
  <1> QED BY <1>2, <1>5, <1>6, <1>7 DEF Shape

LEMMA AllTargetsType ==
    ASSUME NEW n \in Node, NEW ps \in SUBSET Node
    PROVE  AllTargets(n, ps) \in SUBSET (Node \X Endpoint)
  BY DEF AllTargets

LEMMA AdvertiseType ==
    ASSUME Shape, NEW n \in Node, NEW ps \in SUBSET Node,
           NEW eps \in Seq(Endpoint), Advertise(n, ps, eps)
    PROVE  /\ calls' \subseteq Call
           /\ used' \subseteq Txid
           /\ probes' \in [Node -> SUBSET Probe]
           /\ pings' \subseteq Ping
  <1>1. calls' \subseteq Call
    BY DEF Advertise, Shape, Call
  <1> QED BY <1>1, AllTargetsType, StartProbesType DEF Advertise

\* Every reachable state is well typed.
LEMMA TypeStep == Shape /\ [Next]_vars => Shape'
  <1> SUFFICES ASSUME Shape, [Next]_vars PROVE Shape'
    OBVIOUS
  <1>1. CASE Elapse
    BY <1>1 DEF Elapse, Shape
  <1>2. ASSUME NEW c \in Clients, Register(c) PROVE Shape'
    <2>1. c \in Node /\ Server \in Node
      BY DEF Node
    <2>2. peers' \in [Node -> SUBSET Node] /\ peers'[Server] \in SUBSET Node
      BY <1>2, <2>1 DEF Register, Shape
    <2>3. Advertise(Server, peers'[Server], endpoints[Server]) /\ endpoints[Server] \in Seq(Endpoint)
      BY <1>2, <2>1 DEF Register, Shape
    <2> QED BY <1>2, <2>1, <2>2, <2>3, AdvertiseType DEF Register, Shape
  <1>3. ASSUME NEW n \in Node, PeriodicAdvertise(n) PROVE Shape'
    <2>1. peers[n] \in SUBSET Node /\ endpoints[n] \in Seq(Endpoint)
      BY DEF Shape
    <2> QED BY <1>3, <2>1, AdvertiseType DEF PeriodicAdvertise, Shape
  <1>4. ASSUME NEW n \in Node, LearnEndpoint(n) PROVE Shape'
    <2>1. peers[n] \in SUBSET Node /\ endpoints' \in [Node -> Seq(Endpoint)]
      <3>1. PICK ep \in addr[n] : endpoints' = [endpoints EXCEPT ![n] = Remember(@, ep)]
        BY <1>4 DEF LearnEndpoint
      <3> QED BY <3>1, RememberType DEF Shape
    <2>2. endpoints'[n] \in Seq(Endpoint)
      BY <2>1
    <2> QED BY <1>4, <2>1, <2>2, AdvertiseType DEF LearnEndpoint, Shape
  <1>5. ASSUME NEW n \in Node, Timers(n) PROVE Shape'
    BY <1>5 DEF Timers, Shape
  <1>6. ASSUME NEW n \in Node, NEW m \in calls, ReceiveCall(n, m) PROVE Shape'
    <2>1. m.from \in Node /\ m.eps \in Seq(Endpoint)
      BY DEF Shape, Call
    <2>2. Announced(m.eps) \in Seq(Endpoint)
      BY <2>1, AnnouncedType
    <2>3. ({m.from} \X Range(Announced(m.eps))) \in SUBSET (Node \X Endpoint)
      BY <2>1, <2>2, RangeType
    <2>4. CASE m.from \in peers[n]
      <3>1. /\ candidates' = [candidates EXCEPT ![n][m.from] = Announced(m.eps)]
            /\ StartProbes(n, {m.from} \X Range(Announced(m.eps)))
        BY <1>6, <2>4 DEF ReceiveCall
      <3>2. candidates' \in [Node -> [Node -> Seq(Endpoint)]]
        BY <3>1, <2>1, <2>2 DEF Shape
      <3> QED BY <1>6, <2>3, <3>1, <3>2, StartProbesType DEF ReceiveCall, Shape
    <2>5. CASE m.from \notin peers[n]
      BY <1>6, <2>5 DEF ReceiveCall, Shape
    <2> QED BY <2>4, <2>5
  <1>7. ASSUME NEW n \in Node, NEW q \in pings, ReceivePing(n, q) PROVE Shape'
    <2>1. q \in Ping
      BY DEF Shape
    <2>2. pongs' \subseteq Ping
      <3>1. PICK src \in addr[n] : pongs' = pongs \cup
                {[txid |-> q.txid, from |-> n, to |-> q.from, src |-> src,
                  dst |-> q.src, at |-> now]}
        BY <1>7 DEF ReceivePing
      <3>2. src \in Endpoint /\ now \in Nat
        BY DEF Shape
      <3> QED BY <2>1, <3>1, <3>2 DEF Shape, Ping
    <2>3. {<<q.from, q.src>>} \in SUBSET (Node \X Endpoint)
      BY <2>1 DEF Ping
    <2>4. CASE q.src \in Range(candidates[n][q.from])
      BY <1>7, <2>2, <2>4 DEF ReceivePing, Shape
    <2>5. CASE q.src \notin Range(candidates[n][q.from])
      <3>1. /\ candidates' = [candidates EXCEPT ![n][q.from] = Remember(@, q.src)]
            /\ StartProbes(n, {<<q.from, q.src>>})
        BY <1>7, <2>5 DEF ReceivePing
      <3>2. Remember(candidates[n][q.from], q.src) \in Seq(Endpoint)
        BY <2>1, RememberType DEF Shape, Ping
      <3>3. candidates' \in [Node -> [Node -> Seq(Endpoint)]]
        BY <2>1, <3>1, <3>2 DEF Shape, Ping
      <3> QED BY <1>7, <2>2, <2>3, <3>1, <3>3, StartProbesType DEF ReceivePing, Shape
    <2> QED BY <2>4, <2>5
  <1>8. ASSUME NEW n \in Node, NEW r \in pongs, ReceivePong(n, r) PROVE Shape'
    <2>1. r.from \in Node
      BY DEF Shape, Ping
    <2>2. PICK pr \in probes[n] :
              /\ probes' = [probes EXCEPT ![n] = @ \ {pr}]
              /\ direct' = [direct EXCEPT ![n][r.from] = {[ep |-> pr.ep, when |-> now]}]
      BY <1>8 DEF ReceivePong
    <2>3. pr.ep \in Endpoint
      BY <2>2 DEF Shape, Probe
    <2>4. [ep |-> pr.ep, when |-> now] \in Path
      BY <2>3 DEF Shape, Path
    <2>5. direct' \in [Node -> [Node -> SUBSET Path]]
      BY <2>1, <2>2, <2>4 DEF Shape
    <2> QED BY <1>8, <2>2, <2>5 DEF ReceivePong, Shape
  <1>9. ASSUME NEW n \in Node, NEW ep \in Endpoint, Move(n, ep) PROVE Shape'
    BY <1>9 DEF Move, Shape
  <1>10. CASE UNCHANGED vars
    BY <1>10 DEF vars, Shape
  <1> QED
    BY <1>1, <1>2, <1>3, <1>4, <1>5, <1>6, <1>7, <1>8, <1>9, <1>10 DEF Next

LEMMA TypeInit == Init => Shape
  <1> SUFFICES ASSUME Init PROVE Shape
    OBVIOUS
  <1>1. PICK first \in Injection(Node, Endpoint) :
            /\ addr = [n \in Node |-> {first[n]}]
            /\ held = {<<n, first[n]>> : n \in Node}
            /\ endpoints = [n \in Node |-> IF n \in Public THEN <<first[n]>> ELSE <<>>]
    BY DEF Init
  <1>2. /\ addr \in [Node -> SUBSET Endpoint]
        /\ held \subseteq Node \X Endpoint
        /\ endpoints \in [Node -> Seq(Endpoint)]
    <2>1. first \in [Node -> Endpoint]
      BY DEF Injection
    <2>2. \A n \in Node : <<first[n]>> \in Seq(Endpoint) /\ <<>> \in Seq(Endpoint)
      BY <2>1
    <2> QED BY <1>1, <2>1, <2>2
  <1>3. peers \in [Node -> SUBSET Node]
    BY DEF Init, Node
  <1>4. candidates \in [Node -> [Node -> Seq(Endpoint)]]
    BY DEF Init
  <1> QED BY <1>2, <1>3, <1>4 DEF Init, Shape

-----------------------------------------------------------------------------
\* Starting probes for n draws ids nobody used, so ids stay unique, every
\* recorded probe keeps the ping it stands for, and no ping is forgotten.
LEMMA StartProbesKeeps ==
    ASSUME Shape, UniqueTxids, ProbesSent, now' = now, NEW n \in Node,
           NEW targets \in SUBSET (Node \X Endpoint), StartProbes(n, targets)
    PROVE  UniqueTxids' /\ ProbesSent' /\ pings \subseteq pings'
  <1>1. PICK granted \in SUBSET targets : \E id \in Injection(granted, Txid \ used),
                                               src \in [granted -> addr[n]] :
            /\ used' = used \cup Range(id)
            /\ probes' = [probes EXCEPT ![n] = @ \cup
                   {[txid |-> id[t], peer |-> t[1], ep |-> t[2], sent |-> now] : t \in granted}]
            /\ pings' = pings \cup
                   {[txid |-> id[t], from |-> n, to |-> t[1], src |-> src[t],
                     dst |-> t[2], at |-> now] : t \in granted}
    BY DEF StartProbes
  <1>2. PICK id \in Injection(granted, Txid \ used), src \in [granted -> addr[n]] :
            /\ used' = used \cup Range(id)
            /\ probes' = [probes EXCEPT ![n] = @ \cup
                   {[txid |-> id[t], peer |-> t[1], ep |-> t[2], sent |-> now] : t \in granted}]
            /\ pings' = pings \cup
                   {[txid |-> id[t], from |-> n, to |-> t[1], src |-> src[t],
                     dst |-> t[2], at |-> now] : t \in granted}
    BY <1>1
  <1> DEFINE sent(t) == [txid |-> id[t], from |-> n, to |-> t[1], src |-> src[t],
                         dst |-> t[2], at |-> now]
             noted(t) == [txid |-> id[t], peer |-> t[1], ep |-> t[2], sent |-> now]
  <1>3. /\ id \in [granted -> Txid \ used]
        /\ \A t1, t2 \in granted : id[t1] = id[t2] => t1 = t2
    BY <1>2 DEF Injection, IsInjective
  <1>4. pings' = pings \cup {sent(t) : t \in granted}
    BY <1>2
  <1>5. probes' = [probes EXCEPT ![n] = @ \cup {noted(t) : t \in granted}]
    BY <1>2
  <1>6. \A t \in granted : sent(t).txid = id[t] /\ id[t] \in used' /\ id[t] \notin used
    BY <1>2, <1>3 DEF Range
  <1>7. used \subseteq used'
    BY <1>2
  <1>8. ASSUME NEW q \in pings' PROVE q.txid \in used' /\ q.at <= now'
    <2>1. \A t \in granted : sent(t).at = now
      OBVIOUS
    <2>2. now \in Nat
      BY DEF Shape
    <2> QED BY <1>4, <1>6, <1>7, <2>1, <2>2 DEF UniqueTxids
  <1>9. ASSUME NEW q1 \in pings', NEW q2 \in pings', q1.txid = q2.txid PROVE q1 = q2
    <2>1. CASE q1 \in pings /\ q2 \in pings
      BY <1>9, <2>1 DEF UniqueTxids
    <2>2. CASE q1 \in pings /\ q2 \notin pings
      <3>1. q1.txid \in used
        BY <2>2 DEF UniqueTxids
      <3>2. q2.txid \notin used
        BY <1>4, <1>6, <2>2
      <3> QED BY <1>9, <3>1, <3>2
    <2>3. CASE q1 \notin pings /\ q2 \in pings
      <3>1. q2.txid \in used
        BY <2>3 DEF UniqueTxids
      <3>2. q1.txid \notin used
        BY <1>4, <1>6, <2>3
      <3> QED BY <1>9, <3>1, <3>2
    <2>4. CASE q1 \notin pings /\ q2 \notin pings
      <3>1. PICK t1 \in granted : q1 = sent(t1)
        BY <1>4, <2>4
      <3>2. PICK t2 \in granted : q2 = sent(t2)
        BY <1>4, <2>4
      <3>3. t1 = t2
        BY <1>3, <1>6, <1>9, <3>1, <3>2
      <3> QED BY <3>1, <3>2, <3>3
    <2> QED BY <2>1, <2>2, <2>3, <2>4
  <1>10. UniqueTxids'
    BY <1>8, <1>9 DEF UniqueTxids
  <1>11. ASSUME NEW m \in Node, NEW pr \in probes'[m]
         PROVE  /\ pr.sent <= now'
                /\ \E q \in pings' :
                       /\ q.txid = pr.txid /\ q.from = m /\ q.to = pr.peer
                       /\ q.dst = pr.ep /\ q.at = pr.sent
    <2>1. CASE pr \in probes[m]
      BY <2>1, <1>4 DEF ProbesSent
    <2>2. CASE pr \notin probes[m]
      <3>1. m = n
        BY <1>5, <2>2 DEF Shape
      <3>2. PICK t \in granted : pr = noted(t)
        BY <1>5, <2>2, <3>1 DEF Shape
      <3>3. sent(t) \in pings'
        BY <1>4
      <3>4. now \in Nat
        BY DEF Shape
      <3> QED BY <3>1, <3>2, <3>3, <3>4
    <2> QED BY <2>1, <2>2
  <1>12. ProbesSent'
    BY <1>11 DEF ProbesSent
  <1> QED BY <1>4, <1>10, <1>12

\* Facts about pongs and paths survive when pings and pongs are only added.
LEMMA PathsKept ==
    ASSUME Shape, DirectProven, direct' = direct,
           pings \subseteq pings', pongs \subseteq pongs'
    PROVE  DirectProven'
  BY DEF DirectProven

LEMMA PongsKept ==
    ASSUME Shape, PongsAnswer, pongs' = pongs, now' = now, pings \subseteq pings'
    PROVE  PongsAnswer'
  BY DEF PongsAnswer

LEMMA ProbingKeepsPathInv ==
    ASSUME PathInv, Shape', now' = now, direct' = direct, pongs' = pongs,
           UniqueTxids', ProbesSent', pings \subseteq pings'
    PROVE  PathInv'
  BY PathsKept, PongsKept DEF PathInv

LEMMA PathStep == PathInv /\ [Next]_vars => PathInv'
  <1> SUFFICES ASSUME PathInv, [Next]_vars PROVE PathInv'
    OBVIOUS
  <1> USE DEF PathInv
  <1>0. Shape'
    BY TypeStep
  <1>1. CASE Elapse
    <2>1. now \in Nat /\ now' = now + 1
      BY <1>1 DEF Elapse, Shape
    <2>2. ProbesSent'
      BY <1>1, <2>1 DEF Elapse, ProbesSent, Shape, Probe
    <2>3. PongsAnswer'
      BY <1>1, <2>1 DEF Elapse, PongsAnswer, Shape, Ping
    <2>4. UniqueTxids'
      BY <1>1, <2>1 DEF Elapse, UniqueTxids, Shape, Ping
    <2> QED BY <1>0, <1>1, <2>2, <2>3, <2>4 DEF Elapse, DirectProven
  <1>2. ASSUME NEW c \in Clients, Register(c) PROVE PathInv'
    <2>1. Server \in Node /\ peers'[Server] \in SUBSET Node
      BY <1>0 DEF Node, Shape
    <2>2. StartProbes(Server, AllTargets(Server, peers'[Server])) /\ now' = now
      BY <1>2 DEF Register, Advertise
    <2>3. UniqueTxids' /\ ProbesSent' /\ pings \subseteq pings'
      BY <2>1, <2>2, AllTargetsType, StartProbesKeeps
    <2> QED BY <1>0, <1>2, <2>3, ProbingKeepsPathInv DEF Register
  <1>3. ASSUME NEW n \in Node, PeriodicAdvertise(n) PROVE PathInv'
    <2>1. peers[n] \in SUBSET Node
      BY DEF Shape
    <2>2. StartProbes(n, AllTargets(n, peers[n])) /\ now' = now
      BY <1>3 DEF PeriodicAdvertise, Advertise
    <2>3. UniqueTxids' /\ ProbesSent' /\ pings \subseteq pings'
      BY <2>1, <2>2, AllTargetsType, StartProbesKeeps
    <2> QED BY <1>0, <1>3, <2>3, ProbingKeepsPathInv DEF PeriodicAdvertise
  <1>4. ASSUME NEW n \in Node, LearnEndpoint(n) PROVE PathInv'
    <2>1. peers[n] \in SUBSET Node
      BY DEF Shape
    <2>2. StartProbes(n, AllTargets(n, peers[n])) /\ now' = now
      BY <1>4 DEF LearnEndpoint, Advertise
    <2>3. UniqueTxids' /\ ProbesSent' /\ pings \subseteq pings'
      BY <2>1, <2>2, AllTargetsType, StartProbesKeeps
    <2> QED BY <1>0, <1>4, <2>3, ProbingKeepsPathInv DEF LearnEndpoint
  <1>5. ASSUME NEW n \in Node, Timers(n) PROVE PathInv'
    <2>1. \A m \in Node : probes'[m] \subseteq probes[m]
      BY <1>5 DEF Timers, Shape
    <2>2. ProbesSent'
      BY <1>5, <2>1 DEF Timers, ProbesSent
    <2> QED BY <1>0, <1>5, <2>2 DEF Timers, UniqueTxids, PongsAnswer, DirectProven
  <1>6. ASSUME NEW n \in Node, NEW m \in calls, ReceiveCall(n, m) PROVE PathInv'
    <2>1. CASE m.from \in peers[n]
      <3>1. StartProbes(n, {m.from} \X Range(Announced(m.eps))) /\ now' = now
        BY <1>6, <2>1 DEF ReceiveCall
      <3>2. m.from \in Node /\ Announced(m.eps) \in Seq(Endpoint)
        BY AnnouncedType DEF Shape, Call
      <3>3. ({m.from} \X Range(Announced(m.eps))) \in SUBSET (Node \X Endpoint)
        BY <3>2, RangeType
      <3>4. UniqueTxids' /\ ProbesSent' /\ pings \subseteq pings'
        BY <3>1, <3>3, StartProbesKeeps
      <3> QED BY <1>0, <1>6, <3>4, ProbingKeepsPathInv DEF ReceiveCall
    <2>2. CASE m.from \notin peers[n]
      BY <1>0, <1>6, <2>2
         DEF ReceiveCall, UniqueTxids, ProbesSent, PongsAnswer, DirectProven
    <2> QED BY <2>1, <2>2
  <1>7. ASSUME NEW n \in Node, NEW q \in pings, ReceivePing(n, q) PROVE PathInv'
    <2>1. q \in Ping /\ now \in Nat
      BY DEF Shape
    <2>2. UniqueTxids' /\ ProbesSent' /\ pings \subseteq pings'
      <3>1. CASE q.src \in Range(candidates[n][q.from])
        BY <1>7, <3>1 DEF ReceivePing, UniqueTxids, ProbesSent
      <3>2. CASE q.src \notin Range(candidates[n][q.from])
        <4>1. StartProbes(n, {<<q.from, q.src>>}) /\ now' = now
          BY <1>7, <3>2 DEF ReceivePing
        <4>2. {<<q.from, q.src>>} \in SUBSET (Node \X Endpoint)
          BY <2>1 DEF Ping
        <4> QED BY <4>1, <4>2, StartProbesKeeps
      <3> QED BY <3>1, <3>2
    <2>3. PongsAnswer'
      <3>1. SUFFICES ASSUME NEW r \in pongs'
                     PROVE  /\ r.at <= now'
                            /\ \E p \in pings' :
                                   /\ p.txid = r.txid /\ p.from = r.to /\ p.to = r.from
                                   /\ p.at <= r.at
        BY DEF PongsAnswer
      <3>2. CASE r \in pongs
        BY <1>7, <2>2, <3>2 DEF PongsAnswer, ReceivePing
      <3>3. CASE r \notin pongs
        <4>1. PICK src \in addr[n] :
                  r = [txid |-> q.txid, from |-> n, to |-> q.from, src |-> src,
                       dst |-> q.src, at |-> now]
          BY <1>7, <3>3 DEF ReceivePing
        <4>2. q \in pings' /\ q.to = n /\ now' = now
          BY <1>7, <2>2 DEF ReceivePing, Arrives
        <4>3. q.at <= now
          BY DEF UniqueTxids
        <4> QED BY <2>1, <4>1, <4>2, <4>3
      <3> QED BY <3>2, <3>3
    <2>4. DirectProven'
      BY <1>7, <2>2, PathsKept DEF ReceivePing
    <2> QED BY <1>0, <2>2, <2>3, <2>4
  <1>8. ASSUME NEW n \in Node, NEW r \in pongs, ReceivePong(n, r) PROVE PathInv'
    <2>1. PICK pr \in probes[n] :
              /\ Answers(r, pr)
              /\ probes' = [probes EXCEPT ![n] = @ \ {pr}]
              /\ direct' = [direct EXCEPT ![n][r.from] = {[ep |-> pr.ep, when |-> now]}]
      BY <1>8 DEF ReceivePong
    <2>2. \A m \in Node : probes'[m] \subseteq probes[m]
      BY <2>1 DEF Shape
    <2>3. ProbesSent'
      BY <1>8, <2>2 DEF ReceivePong, ProbesSent
    <2>4. PICK q \in pings :
              /\ q.txid = pr.txid /\ q.from = n /\ q.to = pr.peer
              /\ q.dst = pr.ep /\ q.at = pr.sent
      BY DEF ProbesSent
    <2>5. PICK q2 \in pings :
              /\ q2.txid = r.txid /\ q2.from = r.to /\ q2.to = r.from
              /\ q2.at <= r.at
      BY DEF PongsAnswer
    <2>6. q2 = q
      BY <2>1, <2>4, <2>5 DEF Answers, UniqueTxids
    <2>7. r.at <= now /\ r.from \in Node /\ r.to = n
      BY <1>8 DEF PongsAnswer, Shape, Ping, ReceivePong, Arrives
    <2>8. /\ pr.peer = r.from /\ pr.ep = r.src
          /\ now - pr.sent < ProbeTtl /\ pr.sent <= now
      BY <2>1 DEF Answers, ProbesSent
    <2>9. now < pr.sent + ProbeTtl
      BY <2>8, DiscoveryAssumption DEF Shape, Probe
    <2>10. DirectProven'
      <3>1. SUFFICES ASSUME NEW m \in Node, NEW p \in Node, NEW d \in direct'[m][p]
                     PROVE  \E q1 \in pings, r1 \in pongs :
                              /\ q1.from = m /\ q1.to = p /\ q1.dst = d.ep
                              /\ r1.from = p /\ r1.to = m /\ r1.src = d.ep
                              /\ r1.txid = q1.txid
                              /\ q1.at <= r1.at /\ r1.at <= d.when
                              /\ d.when < q1.at + ProbeTtl
        BY <1>8 DEF DirectProven, ReceivePong
      <3>2. CASE m = n /\ p = r.from
        <4>1. d = [ep |-> pr.ep, when |-> now]
          BY <2>1, <3>2 DEF Shape
        <4> QED BY <2>1, <2>4, <2>5, <2>6, <2>7, <2>8, <2>9, <3>2, <4>1 DEF Answers
      <3>3. CASE ~ (m = n /\ p = r.from)
        <4>1. d \in direct[m][p]
          BY <2>1, <2>7, <3>3 DEF Shape
        <4> QED BY <4>1 DEF DirectProven
      <3> QED BY <3>2, <3>3
    <2> QED BY <1>0, <1>8, <2>3, <2>10 DEF ReceivePong, UniqueTxids, PongsAnswer
  <1>9. ASSUME NEW n \in Node, NEW ep \in Endpoint, Move(n, ep) PROVE PathInv'
    BY <1>0, <1>9 DEF Move, UniqueTxids, ProbesSent, PongsAnswer, DirectProven
  <1>10. CASE UNCHANGED vars
    BY <1>0, <1>10 DEF vars, UniqueTxids, ProbesSent, PongsAnswer, DirectProven
  <1> QED
    BY <1>1, <1>2, <1>3, <1>4, <1>5, <1>6, <1>7, <1>8, <1>9, <1>10 DEF Next

LEMMA PathInit == Init => PathInv
  <1> SUFFICES ASSUME Init PROVE PathInv
    OBVIOUS
  <1>1. Shape
    BY TypeInit
  <1>2. UniqueTxids /\ ProbesSent /\ PongsAnswer
    BY DEF Init, UniqueTxids, ProbesSent, PongsAnswer
  <1>3. DirectProven
    BY DEF Init, DirectProven
  <1> QED BY <1>1, <1>2, <1>3 DEF PathInv

\* A direct path is used only after the peer itself answered a probe from it.
THEOREM PathsAreProven == Spec => []DirectProven
  <1>1. PathInv => DirectProven
    BY DEF PathInv
  <1> QED BY <1>1, PathInit, PathStep, PTL DEF Spec

\* A packet goes straight to an endpoint only while the peer was seen answering
\* there less than ProbeTtl + DirectTtl ago, for any values of the two lifetimes.
THEOREM BlackholesAreBounded == Spec => []BlackholeBounded
  <1>1. PathInv => BlackholeBounded
    <2> SUFFICES ASSUME PathInv, NEW n \in Node, NEW p \in Node,
                        NEW ep \in NextHop(n, p)
                 PROVE  \E r \in pongs :
                            /\ r.from = p /\ r.to = n /\ r.src = ep
                            /\ now < r.at + ProbeTtl + DirectTtl
      BY DEF BlackholeBounded
    <2>1. PICK d \in direct[n][p] : ep = d.ep /\ now - d.when < DirectTtl
      BY DEF NextHop
    <2>2. PICK q \in pings, r \in pongs :
              /\ q.from = n /\ q.to = p /\ q.dst = d.ep
              /\ r.from = p /\ r.to = n /\ r.src = d.ep
              /\ r.txid = q.txid
              /\ q.at <= r.at /\ r.at <= d.when
              /\ d.when < q.at + ProbeTtl
      BY DEF PathInv, DirectProven
    <2>3. now \in Nat /\ d.when \in Nat /\ q.at \in Nat /\ r.at \in Nat
      <3>1. d \in Path /\ now \in Nat
        BY DEF PathInv, Shape
      <3>2. q \in Ping /\ r \in Ping
        BY DEF PathInv, Shape
      <3> QED BY <3>1, <3>2 DEF Path, Ping
    <2>4. now < r.at + ProbeTtl + DirectTtl
      BY <2>1, <2>2, <2>3, DiscoveryAssumption
    <2> QED BY <2>1, <2>2, <2>4
  <1> QED BY <1>1, PathInit, PathStep, PTL DEF Spec

-----------------------------------------------------------------------------
(***************************************************************************)
(* Whose endpoint it is: every endpoint in a table or a packet is or was   *)
(* the address of the node it is listed for.                               *)
(***************************************************************************)
Owned(p, eps) == \A ep \in eps : <<p, ep>> \in held

OwnedInv ==
    /\ Shape
    /\ \A n \in Node : Owned(n, addr[n])
    /\ \A n \in Node : Owned(n, Range(endpoints[n]))
    /\ \A n, p \in Node : Owned(p, Range(candidates[n][p]))
    /\ \A m \in calls : Owned(m.from, Range(m.eps))
    /\ \A q \in pings : <<q.from, q.src>> \in held /\ <<q.to, q.dst>> \in held

LEMMA RememberRange ==
    ASSUME NEW list \in Seq(Endpoint), NEW ep \in Endpoint
    PROVE  Range(Remember(list, ep)) \subseteq Range(list) \cup {ep}
  <1>1. CASE ep \in Range(list)
    BY <1>1 DEF Remember
  <1>2. CASE ep \notin Range(list)
    <2> DEFINE kept == IF Len(list) = MaxCandidates THEN Tail(list) ELSE list
    <2>1. kept \in Seq(Endpoint) /\ Range(kept) \subseteq Range(list)
      BY DiscoveryAssumption DEF Range
    <2>2. Remember(list, ep) = Append(kept, ep)
      BY <1>2 DEF Remember
    <2> HIDE DEF kept
    <2>3. Range(Append(kept, ep)) \subseteq Range(kept) \cup {ep}
      BY <2>1 DEF Range
    <2> QED BY <2>1, <2>2, <2>3
  <1> QED BY <1>1, <1>2

LEMMA AnnouncedRange ==
    ASSUME NEW eps \in Seq(Endpoint)
    PROVE  Range(Announced(eps)) \subseteq Range(eps)
  <1>1. Len(eps) \in Nat /\ MaxCandidates \in Nat
    BY DiscoveryAssumption
  <1> DEFINE n == IF Len(eps) < MaxCandidates THEN Len(eps) ELSE MaxCandidates
  <1>2. n \in Nat /\ n <= Len(eps)
    BY <1>1
  <1>3. Announced(eps) = SubSeq(eps, 1, n)
    BY DEF Announced
  <1> HIDE DEF n
  <1>4. /\ Len(SubSeq(eps, 1, n)) = n
        /\ \A i \in 1 .. n : SubSeq(eps, 1, n)[i] = eps[i]
    BY <1>2
  <1>5. SubSeq(eps, 1, n) \in Seq(Endpoint)
    BY <1>2
  <1> QED BY <1>2, <1>3, <1>4, <1>5 DEF Range

LEMMA StartProbesOwned ==
    ASSUME OwnedInv, NEW n \in Node, NEW targets,
           \A t \in targets : t \in held, targets \subseteq Node \X Endpoint,
           StartProbes(n, targets)
    PROVE  \A q \in pings' : <<q.from, q.src>> \in held /\ <<q.to, q.dst>> \in held
  <1>1. PICK granted \in SUBSET targets : \E id \in Injection(granted, Txid \ used),
                                               src \in [granted -> addr[n]] :
            pings' = pings \cup
                   {[txid |-> id[t], from |-> n, to |-> t[1], src |-> src[t],
                     dst |-> t[2], at |-> now] : t \in granted}
    BY DEF StartProbes
  <1>2. PICK id \in Injection(granted, Txid \ used), src \in [granted -> addr[n]] :
            pings' = pings \cup
                   {[txid |-> id[t], from |-> n, to |-> t[1], src |-> src[t],
                     dst |-> t[2], at |-> now] : t \in granted}
    BY <1>1
  <1>3. \A t \in granted : <<t[1], t[2]>> \in held
    BY DEF OwnedInv
  <1>4. \A t \in granted : <<n, src[t]>> \in held
    BY <1>2 DEF OwnedInv, Owned
  <1>5. ASSUME NEW q \in pings', q \notin pings
        PROVE  <<q.from, q.src>> \in held /\ <<q.to, q.dst>> \in held
    <2>1. PICK t \in granted :
              q = [txid |-> id[t], from |-> n, to |-> t[1], src |-> src[t],
                   dst |-> t[2], at |-> now]
      BY <1>2, <1>5
    <2>2. q.from = n /\ q.src = src[t] /\ q.to = t[1] /\ q.dst = t[2]
      BY <2>1
    <2> QED BY <1>3, <1>4, <2>2
  <1> QED BY <1>5 DEF OwnedInv

LEMMA AdvertiseOwned ==
    ASSUME OwnedInv, NEW n \in Node, NEW ps \in SUBSET Node, NEW eps,
           Owned(n, Range(eps)), Advertise(n, ps, eps), held' = held
    PROVE  /\ \A m \in calls' : Owned(m.from, Range(m.eps))'
           /\ \A q \in pings' : <<q.from, q.src>> \in held' /\ <<q.to, q.dst>> \in held'
  <1>1. \A t \in AllTargets(n, ps) : t \in held
    BY DEF OwnedInv, Owned, AllTargets
  <1>2. \A q \in pings' : <<q.from, q.src>> \in held' /\ <<q.to, q.dst>> \in held'
    BY <1>1, AllTargetsType, StartProbesOwned DEF Advertise
  <1>3. calls' = calls \cup {[from |-> n, to |-> p, eps |-> eps] : p \in ps}
    BY DEF Advertise
  <1>4. \A m \in calls' : Owned(m.from, Range(m.eps))
    BY <1>3 DEF OwnedInv
  <1> QED BY <1>2, <1>4 DEF Owned

LEMMA OwnedStep == OwnedInv /\ [Next]_vars => OwnedInv'
  <1> SUFFICES ASSUME OwnedInv, [Next]_vars PROVE OwnedInv'
    OBVIOUS
  <1>0. Shape /\ Shape'
    BY TypeStep DEF OwnedInv
  <1>1. CASE Elapse
    BY <1>0, <1>1 DEF Elapse, OwnedInv, Owned
  <1>2. ASSUME NEW c \in Clients, Register(c) PROVE OwnedInv'
    <2>1. Server \in Node /\ peers'[Server] \in SUBSET Node
      BY <1>0 DEF Node, Shape
    <2>2. Owned(Server, Range(endpoints[Server]))
      BY <2>1 DEF OwnedInv
    <2> QED BY <1>0, <1>2, <2>1, <2>2, AdvertiseOwned DEF Register, OwnedInv, Owned
  <1>3. ASSUME NEW n \in Node, PeriodicAdvertise(n) PROVE OwnedInv'
    <2>1. peers[n] \in SUBSET Node
      BY <1>0 DEF Shape
    <2>2. Owned(n, Range(endpoints[n]))
      BY DEF OwnedInv
    <2> QED BY <1>0, <1>3, <2>1, <2>2, AdvertiseOwned DEF PeriodicAdvertise, OwnedInv, Owned
  <1>4. ASSUME NEW n \in Node, LearnEndpoint(n) PROVE OwnedInv'
    <2>1. peers[n] \in SUBSET Node /\ endpoints[n] \in Seq(Endpoint)
      BY <1>0 DEF Shape
    <2>2. PICK ep \in addr[n] :
              /\ ep \in Endpoint
              /\ endpoints' = [endpoints EXCEPT ![n] = Remember(@, ep)]
              /\ endpoints'[n] = Remember(endpoints[n], ep)
      BY <1>0, <1>4 DEF LearnEndpoint, Shape
    <2>3. Owned(n, Range(endpoints'[n]))
      BY <2>1, <2>2, RememberRange DEF OwnedInv, Owned
    <2>4. held' = held
      BY <1>4 DEF LearnEndpoint
    <2>5. \A m \in Node : Owned(m, Range(endpoints[m]))'
      BY <1>0, <2>2, <2>3, <2>4 DEF OwnedInv, Owned, Shape
    <2>6. /\ \A m \in calls' : Owned(m.from, Range(m.eps))'
          /\ \A q \in pings' : <<q.from, q.src>> \in held' /\ <<q.to, q.dst>> \in held'
      BY <1>4, <2>1, <2>3, <2>4, AdvertiseOwned DEF LearnEndpoint
    <2> QED BY <1>0, <1>4, <2>5, <2>6 DEF LearnEndpoint, OwnedInv, Owned
  <1>5. ASSUME NEW n \in Node, Timers(n) PROVE OwnedInv'
    BY <1>0, <1>5 DEF Timers, OwnedInv, Owned
  <1>6. ASSUME NEW n \in Node, NEW m \in calls, ReceiveCall(n, m) PROVE OwnedInv'
    <2>1. m.from \in Node /\ m.eps \in Seq(Endpoint) /\ Announced(m.eps) \in Seq(Endpoint)
      BY <1>0, AnnouncedType DEF Shape, Call
    <2>2. Owned(m.from, Range(Announced(m.eps)))
      BY <2>1, AnnouncedRange DEF OwnedInv, Owned
    <2>3. CASE m.from \in peers[n]
      <3>1. /\ candidates' = [candidates EXCEPT ![n][m.from] = Announced(m.eps)]
            /\ StartProbes(n, {m.from} \X Range(Announced(m.eps)))
            /\ held' = held
        BY <1>6, <2>3 DEF ReceiveCall
      <3>2. \A t \in {m.from} \X Range(Announced(m.eps)) : t \in held
        BY <2>2 DEF Owned
      <3>3. {m.from} \X Range(Announced(m.eps)) \subseteq Node \X Endpoint
        BY <2>1, RangeType
      <3>4. \A q \in pings' : <<q.from, q.src>> \in held' /\ <<q.to, q.dst>> \in held'
        BY <3>1, <3>2, <3>3, StartProbesOwned
      <3>5. \A k, p \in Node : Owned(p, Range(candidates[k][p]))'
        BY <1>0, <2>2, <3>1 DEF OwnedInv, Owned, Shape
      <3> QED BY <1>0, <1>6, <3>4, <3>5 DEF ReceiveCall, OwnedInv, Owned
    <2>4. CASE m.from \notin peers[n]
      BY <1>0, <1>6, <2>4 DEF ReceiveCall, OwnedInv, Owned
    <2> QED BY <2>3, <2>4
  <1>7. ASSUME NEW n \in Node, NEW q \in pings, ReceivePing(n, q) PROVE OwnedInv'
    <2>1. q \in Ping /\ candidates[n][q.from] \in Seq(Endpoint)
      BY <1>0 DEF Shape, Ping
    <2>2. <<q.from, q.src>> \in held
      BY DEF OwnedInv
    <2>3. CASE q.src \in Range(candidates[n][q.from])
      BY <1>0, <1>7, <2>3 DEF ReceivePing, OwnedInv, Owned
    <2>4. CASE q.src \notin Range(candidates[n][q.from])
      <3>1. /\ candidates' = [candidates EXCEPT ![n][q.from] = Remember(@, q.src)]
            /\ StartProbes(n, {<<q.from, q.src>>})
            /\ held' = held
        BY <1>7, <2>4 DEF ReceivePing
      <3>2. Owned(q.from, Range(Remember(candidates[n][q.from], q.src)))
        BY <2>1, <2>2, RememberRange DEF OwnedInv, Owned, Ping
      <3>3. \A k, p \in Node : Owned(p, Range(candidates[k][p]))'
        BY <1>0, <2>1, <3>1, <3>2 DEF OwnedInv, Owned, Shape
      <3>4. \A t \in {<<q.from, q.src>>} : t \in held
        BY <2>2
      <3>5. {<<q.from, q.src>>} \subseteq Node \X Endpoint
        BY <2>1 DEF Ping
      <3>6. \A p \in pings' : <<p.from, p.src>> \in held' /\ <<p.to, p.dst>> \in held'
        BY <3>1, <3>4, <3>5, StartProbesOwned
      <3> QED BY <1>0, <1>7, <3>3, <3>6 DEF ReceivePing, OwnedInv, Owned
    <2> QED BY <2>3, <2>4
  <1>8. ASSUME NEW n \in Node, NEW r \in pongs, ReceivePong(n, r) PROVE OwnedInv'
    BY <1>0, <1>8 DEF ReceivePong, OwnedInv, Owned
  <1>9. ASSUME NEW n \in Node, NEW ep \in Endpoint, Move(n, ep) PROVE OwnedInv'
    <2>1. PICK kept \in SUBSET addr[n] :
              addr' = [addr EXCEPT ![n] = kept \cup {ep}] /\ held' = held \cup {<<n, ep>>}
      BY <1>9 DEF Move
    <2>2. \A k \in Node : Owned(k, addr[k])'
      BY <1>0, <2>1 DEF OwnedInv, Owned, Shape
    <2> QED BY <1>0, <1>9, <2>1, <2>2 DEF Move, OwnedInv, Owned
  <1>10. CASE UNCHANGED vars
    BY <1>0, <1>10 DEF vars, OwnedInv, Owned
  <1> QED
    BY <1>1, <1>2, <1>3, <1>4, <1>5, <1>6, <1>7, <1>8, <1>9, <1>10 DEF Next

LEMMA OwnedInit == Init => OwnedInv
  <1> SUFFICES ASSUME Init PROVE OwnedInv
    OBVIOUS
  <1>1. Shape
    BY TypeInit
  <1>2. PICK first \in Injection(Node, Endpoint) :
            /\ addr = [n \in Node |-> {first[n]}]
            /\ held = {<<n, first[n]>> : n \in Node}
            /\ endpoints = [n \in Node |-> IF n \in Public THEN <<first[n]>> ELSE <<>>]
    BY DEF Init
  <1>4. ASSUME NEW n \in Node
        PROVE  Owned(n, addr[n]) /\ Owned(n, Range(endpoints[n]))
    <2>1. endpoints[n] = <<>> \/ endpoints[n] = <<first[n]>>
      BY <1>2
    <2>2. Range(<<>>) = {} /\ Range(<<first[n]>>) = {first[n]}
      BY DEF Range
    <2> QED BY <1>2, <2>1, <2>2 DEF Owned
  <1>3. \A n, p \in Node : Range(candidates[n][p]) = {}
    BY DEF Init, Range
  <1> QED BY <1>1, <1>3, <1>4 DEF Init, OwnedInv, Owned

\* Endpoints learned from or about one peer are never tried for another, for
\* any number of peers: a probe always goes to a present or past address of the
\* peer it is meant for.
THEOREM ProbesReachOnlyThePeer == Spec => []ProbesFollowThePeer
  <1>1. OwnedInv => ProbesFollowThePeer
    BY DEF OwnedInv, ProbesFollowThePeer
  <1> QED BY <1>1, OwnedInit, OwnedStep, PTL DEF Spec

-----------------------------------------------------------------------------
\* remember_endpoint keeps a list within its cap and free of repetitions.
LEMMA RememberSound ==
    ASSUME NEW list \in Seq(Endpoint), NEW ep \in Endpoint, SoundList(list)
    PROVE  SoundList(Remember(list, ep))
  <1>1. CASE ep \in Range(list)
    BY <1>1 DEF Remember
  <1>2. CASE ep \notin Range(list)
    <2> DEFINE kept == IF Len(list) = MaxCandidates THEN Tail(list) ELSE list
    <2>1. Len(list) \in Nat /\ Len(list) <= MaxCandidates /\ MaxCandidates \in Nat \ {0}
      BY DiscoveryAssumption DEF SoundList
    <2>2. \A i \in 1 .. Len(list) : list[i] # ep
      BY <1>2 DEF Range
    <2>3. /\ kept \in Seq(Endpoint) /\ Len(kept) < MaxCandidates
          /\ \A i \in 1 .. Len(kept) : kept[i] # ep
          /\ \A i, j \in 1 .. Len(kept) : kept[i] = kept[j] => i = j
      <3>1. CASE Len(list) = MaxCandidates
        <4>1. kept = Tail(list) /\ list # <<>>
          BY <2>1, <3>1
        <4>2. /\ Tail(list) \in Seq(Endpoint) /\ Len(Tail(list)) = Len(list) - 1
              /\ \A i \in 1 .. Len(Tail(list)) : Tail(list)[i] = list[i + 1]
          BY <4>1
        <4> HIDE DEF kept
        <4> QED BY <2>1, <2>2, <3>1, <4>1, <4>2 DEF SoundList
      <3>2. CASE Len(list) # MaxCandidates
        BY <2>1, <2>2, <3>2 DEF SoundList
      <3> QED BY <3>1, <3>2
    <2>4. Remember(list, ep) = Append(kept, ep)
      BY <1>2 DEF Remember
    <2> HIDE DEF kept
    <2>5. /\ Len(Append(kept, ep)) = Len(kept) + 1
          /\ \A i \in 1 .. Len(kept) : Append(kept, ep)[i] = kept[i]
          /\ Append(kept, ep)[Len(kept) + 1] = ep
          /\ DOMAIN Append(kept, ep) = 1 .. Len(kept) + 1
      BY <2>3
    <2>6. SoundList(Append(kept, ep))
      BY <2>1, <2>3, <2>5 DEF SoundList
    <2> QED BY <2>4, <2>6
  <1> QED BY <1>1, <1>2

LEMMA AnnouncedSound ==
    ASSUME NEW eps \in Seq(Endpoint), SoundList(eps)
    PROVE  Announced(eps) = eps
  <1>1. Len(eps) \in Nat /\ Len(eps) <= MaxCandidates /\ MaxCandidates \in Nat
    BY DiscoveryAssumption DEF SoundList
  <1>2. Announced(eps) = SubSeq(eps, 1, Len(eps))
    BY <1>1 DEF Announced
  <1> QED BY <1>1, <1>2, SubSeqFull

LEMMA AdvertiseSound ==
    ASSUME CandidateListsSound, NEW n \in Node, NEW ps, NEW eps,
           SoundList(eps), Advertise(n, ps, eps)
    PROVE  \A m \in calls' : SoundList(m.eps)
  BY DEF Advertise, CandidateListsSound

LEMMA SoundStep == Shape /\ CandidateListsSound /\ [Next]_vars => CandidateListsSound'
  <1> SUFFICES ASSUME Shape, CandidateListsSound, [Next]_vars PROVE CandidateListsSound'
    OBVIOUS
  <1>1. CASE Elapse
    BY <1>1 DEF Elapse, CandidateListsSound
  <1>2. ASSUME NEW c \in Clients, Register(c) PROVE CandidateListsSound'
    <2>1. Server \in Node
      BY DEF Node
    <2>2. SoundList(endpoints[Server])
      BY <2>1 DEF CandidateListsSound
    <2> QED BY <1>2, <2>1, <2>2, AdvertiseSound DEF Register, CandidateListsSound
  <1>3. ASSUME NEW n \in Node, PeriodicAdvertise(n) PROVE CandidateListsSound'
    <2>1. SoundList(endpoints[n])
      BY DEF CandidateListsSound
    <2> QED BY <1>3, <2>1, AdvertiseSound DEF PeriodicAdvertise, CandidateListsSound
  <1>4. ASSUME NEW n \in Node, LearnEndpoint(n) PROVE CandidateListsSound'
    <2>1. endpoints[n] \in Seq(Endpoint)
      BY DEF Shape
    <2>2. PICK ep \in addr[n] : endpoints' = [endpoints EXCEPT ![n] = Remember(@, ep)]
      BY <1>4 DEF LearnEndpoint
    <2>3. endpoints'[n] = Remember(endpoints[n], ep) /\ ep \in Endpoint
      BY <2>2 DEF Shape
    <2>4. SoundList(endpoints'[n])
      BY <2>1, <2>3, RememberSound DEF CandidateListsSound
    <2>5. \A m \in Node : SoundList(endpoints'[m])
      BY <2>2, <2>4 DEF CandidateListsSound, Shape
    <2> QED BY <1>4, <2>4, <2>5, AdvertiseSound DEF LearnEndpoint, CandidateListsSound
  <1>5. ASSUME NEW n \in Node, Timers(n) PROVE CandidateListsSound'
    BY <1>5 DEF Timers, CandidateListsSound
  <1>6. ASSUME NEW n \in Node, NEW m \in calls, ReceiveCall(n, m) PROVE CandidateListsSound'
    <2>1. m.from \in Node /\ m.eps \in Seq(Endpoint) /\ SoundList(m.eps)
      BY DEF Shape, Call, CandidateListsSound
    <2>2. CASE m.from \in peers[n]
      <3>1. candidates' = [candidates EXCEPT ![n][m.from] = m.eps]
        BY <1>6, <2>1, <2>2, AnnouncedSound DEF ReceiveCall
      <3>2. \A k, p \in Node : SoundList(candidates'[k][p])
        BY <2>1, <3>1 DEF CandidateListsSound, Shape
      <3> QED BY <1>6, <3>2 DEF ReceiveCall, CandidateListsSound
    <2>3. CASE m.from \notin peers[n]
      BY <1>6, <2>3 DEF ReceiveCall, CandidateListsSound
    <2> QED BY <2>2, <2>3
  <1>7. ASSUME NEW n \in Node, NEW q \in pings, ReceivePing(n, q) PROVE CandidateListsSound'
    <2>1. q.from \in Node /\ q.src \in Endpoint /\ candidates[n][q.from] \in Seq(Endpoint)
      BY DEF Shape, Ping
    <2>2. SoundList(Remember(candidates[n][q.from], q.src))
      BY <2>1, RememberSound DEF CandidateListsSound
    <2>3. \/ candidates' = candidates
          \/ candidates' = [candidates EXCEPT ![n][q.from] = Remember(@, q.src)]
      BY <1>7 DEF ReceivePing
    <2>4. ASSUME NEW k \in Node, NEW p \in Node PROVE SoundList(candidates'[k][p])
      <3>1. \/ candidates'[k][p] = candidates[k][p]
            \/ candidates'[k][p] = Remember(candidates[n][q.from], q.src)
        <4>1. CASE candidates' = candidates
          BY <4>1
        <4>2. CASE candidates' = [candidates EXCEPT ![n][q.from] = Remember(@, q.src)]
          <5>1. candidates \in [Node -> [Node -> Seq(Endpoint)]]
            BY DEF Shape
          <5> QED BY <2>1, <4>2, <5>1
        <4> QED BY <2>3, <4>1, <4>2
      <3>2. SoundList(candidates[k][p])
        BY DEF CandidateListsSound
      <3> QED BY <2>2, <3>1, <3>2
    <2> QED BY <1>7, <2>4 DEF ReceivePing, CandidateListsSound
  <1>8. ASSUME NEW n \in Node, NEW r \in pongs, ReceivePong(n, r) PROVE CandidateListsSound'
    BY <1>8 DEF ReceivePong, CandidateListsSound
  <1>9. ASSUME NEW n \in Node, NEW ep \in Endpoint, Move(n, ep) PROVE CandidateListsSound'
    BY <1>9 DEF Move, CandidateListsSound
  <1>10. CASE UNCHANGED vars
    BY <1>10 DEF vars, CandidateListsSound
  <1> QED
    BY <1>1, <1>2, <1>3, <1>4, <1>5, <1>6, <1>7, <1>8, <1>9, <1>10 DEF Next

LEMMA SoundInit == Init => CandidateListsSound
  <1> SUFFICES ASSUME Init PROVE CandidateListsSound
    OBVIOUS
  <1>1. \A n \in Node : endpoints[n] = <<>> \/ \E ep : endpoints[n] = <<ep>>
    BY DEF Init
  <1>2. SoundList(<<>>) /\ \A ep : SoundList(<<ep>>)
    BY DiscoveryAssumption DEF SoundList
  <1> QED BY <1>1, <1>2 DEF Init, CandidateListsSound

\* remember_endpoint keeps every endpoint list within MAX_CANDIDATES and free of
\* repetitions, in the tables and on the wire, for every value of the cap.
THEOREM ListsAreSound == Spec => []CandidateListsSound
  BY TypeInit, TypeStep, SoundInit, SoundStep, PTL DEF Spec

\* Type correctness of the discovery tables, with their caps, for every set of nodes,
\* every endpoint set and every table size.
THEOREM TypeCorrect == Spec => []TypeOK
  <1>1. Shape /\ CandidateListsSound => TypeOK
    BY DEF TypeOK
  <1> QED BY <1>1, TypeInit, TypeStep, SoundInit, SoundStep, PTL DEF Spec

=============================================================================
