-------------------------- MODULE MembershipProofs --------------------------
(***************************************************************************)
(* Proofs about Membership, for any clients, calls and caps, any number of *)
(* restarts and any loss and reordering in the relay.                      *)
(*                                                                         *)
(* Success reaches a caller in a message, so the invariant says what each  *)
(* message on the wire stands for (AcksAreEarned, PongsAreEarned).  An     *)
(* allowlist only ever grows from the configured one (ListGrows); without  *)
(* that, an empty list in force could let anybody in.                      *)
(***************************************************************************)
EXTENDS Membership, FiniteSetTheorems, TLAPS

Joined(c) == c \in registered /\ (restarts = 0 => c \in peers)

ListGrows == configured \subseteq allowed

AcksAreEarned == \A c \in Client : <<"ack", c>> \in wire => Joined(c)

PongsAreEarned ==
    \A p \in Call :
        /\ <<"ping", p>> \in wire => p.disco
        /\ <<"pong", p>> \in wire => p.disco /\ p \in heard

JoinInv ==
    /\ Shape /\ ListGrows /\ OnlyAllowedPeers
    /\ AcksAreEarned /\ PongsAreEarned /\ AnswersAreEarned

-----------------------------------------------------------------------------
\* A call is a record of a client and a flag.
LEMMA CallFields ==
    ASSUME NEW p \in Call PROVE p.by \in Client /\ p.disco \in BOOLEAN
  BY MembershipAssumption

\* A set of messages survives on a smaller wire, or on one that gained requests.
LEMMA RequestIsMessage ==
    ASSUME NEW p \in Call
    PROVE  /\ Request(p) \in Message
           /\ \A c : Request(p) # <<"ack", c>>
           /\ \A q : Request(p) # <<"pong", q>>
           /\ \A q : Request(p) = <<"ping", q>> => q.disco
  BY CallFields DEF Request, Message

\* What a success means depends on four variables only.
LEMMA EarnedKept ==
    ASSUME JoinInv, UNCHANGED <<peers, restarts, registered, heard>>,
           NEW W \in SUBSET Call, wire' \subseteq wire \cup {Request(p) : p \in W},
           \A p \in Call : caller'[p] = "ok" => caller[p] = "ok"
    PROVE  AcksAreEarned' /\ PongsAreEarned' /\ AnswersAreEarned' /\ wire' \subseteq Message
  <1>1. /\ \A c : <<"ack", c>> \in wire' => <<"ack", c>> \in wire
        /\ \A p : <<"pong", p>> \in wire' => <<"pong", p>> \in wire
        /\ \A p : <<"ping", p>> \in wire' => <<"ping", p>> \in wire \/ p.disco
        /\ wire' \subseteq Message
    BY RequestIsMessage DEF JoinInv, Shape
  <1> QED BY <1>1 DEF JoinInv, AcksAreEarned, PongsAreEarned, AnswersAreEarned, Joined

LEMMA JoinInit == Init => JoinInv
  BY MembershipAssumption DEF Init, JoinInv, Shape, ListGrows, OnlyAllowedPeers,
                              AcksAreEarned, PongsAreEarned, AnswersAreEarned

LEMMA JoinNext == JoinInv /\ [Next]_vars => JoinInv'
  <1> SUFFICES ASSUME JoinInv, [Next]_vars PROVE JoinInv'
    OBVIOUS
  <1> USE DEF JoinInv
  <1>1. CASE Restart
    <2>1. restarts' \in 0 .. MaxRestarts /\ restarts' # 0
      BY <1>1, MembershipAssumption DEF Restart, Shape
    <2> QED BY <1>1, <2>1 DEF Restart, Shape, ListGrows, OnlyAllowedPeers, AcksAreEarned,
                              PongsAreEarned, AnswersAreEarned, Joined
  <1>2. ASSUME NEW c \in Client, Timers(c) PROVE JoinInv'
    <2>1. PICK old, due \in SUBSET Of(c) : Tick(c, old, due)
      BY <1>2 DEF Timers
    <2>2. pings' \subseteq pings /\ due \in SUBSET Call
      BY <2>1 DEF Tick, Survivors, Waiting, Of, Shape
    <2>3. caller' = [p \in Call |-> IF p \in old THEN "expired" ELSE caller[p]]
      BY <2>1 DEF Tick
    <2>4. wire' \subseteq wire \cup {Request(p) : p \in due}
      BY <2>1 DEF Tick, Resent
    <2>5. UNCHANGED <<configured, patient, allowed, peers, restarts, commands, registered, heard>>
      BY <2>1 DEF Tick
    <2>6. AcksAreEarned' /\ PongsAreEarned' /\ AnswersAreEarned' /\ wire' \subseteq Message
      BY <2>2, <2>3, <2>4, <2>5, EarnedKept
    <2> QED BY <2>2, <2>3, <2>5, <2>6 DEF Shape, ListGrows, OnlyAllowedPeers
  <1>3. ASSUME NEW c \in Client, ReceiveMeow(c) PROVE JoinInv'
    <2>1. /\ peers \subseteq peers' /\ peers' \subseteq peers \cup {c}
          /\ peers' # peers => MayJoin(c)
      BY <1>3 DEF ReceiveMeow, Added
    <2>2. registered' = registered \cup peers'
      BY <1>3 DEF ReceiveMeow
    <2>3. UNCHANGED <<configured, patient, allowed, restarts, caller, commands, pings, heard>>
      BY <1>3 DEF ReceiveMeow
    <2>4. \A m \in wire' : m \in wire \/ (m = <<"ack", c>> /\ c \in peers')
      BY <1>3 DEF ReceiveMeow, Acknowledged
    <2>5. wire' \subseteq Message
      BY <2>4 DEF Shape, Message
    <2>6. OnlyAllowedPeers' /\ ListGrows'
      BY <2>1, <2>3 DEF OnlyAllowedPeers, ListGrows, MayJoin
    <2>7. \A d \in Client : Joined(d) => Joined(d)'
      BY <2>1, <2>2, <2>3 DEF Joined
    <2>8. c \in peers' => Joined(c)'
      BY <2>2 DEF Joined
    <2>9. AcksAreEarned'
      <3> SUFFICES ASSUME NEW d \in Client, <<"ack", d>> \in wire' PROVE Joined(d)'
        BY DEF AcksAreEarned
      <3>1. CASE <<"ack", d>> \in wire
        BY <3>1, <2>7 DEF AcksAreEarned
      <3>2. CASE <<"ack", d>> = <<"ack", c>> /\ c \in peers'
        BY <3>2, <2>8
      <3> QED BY <3>1, <3>2, <2>4
    <2>10. PongsAreEarned'
      BY <2>3, <2>4 DEF PongsAreEarned
    <2>11. AnswersAreEarned'
      BY <2>3, <2>7, CallFields DEF AnswersAreEarned, Joined
    <2> QED BY <2>1, <2>2, <2>3, <2>5, <2>6, <2>9, <2>10, <2>11 DEF Shape
  <1>4. ASSUME NEW c \in Client, ReceiveAck(c) PROVE JoinInv'
    <2>1. Joined(c)
      BY <1>4 DEF ReceiveAck, AcksAreEarned
    <2>2. caller' = [p \in Call |-> IF p \in Waiting(c) /\ ~ p.disco THEN "ok" ELSE caller[p]]
      BY <1>4 DEF ReceiveAck
    <2>3. UNCHANGED <<configured, patient, allowed, peers, restarts, commands, registered, heard>>
      BY <1>4 DEF ReceiveAck
    <2>4. wire' \subseteq wire /\ pings' \subseteq pings
      BY <1>4 DEF ReceiveAck
    <2>5. AnswersAreEarned'
      BY <2>1, <2>2, <2>3 DEF AnswersAreEarned, Joined, Waiting, Of
    <2> QED BY <2>2, <2>3, <2>4, <2>5 DEF Shape, ListGrows, OnlyAllowedPeers, AcksAreEarned,
                                        PongsAreEarned, Joined
  <1>5. ASSUME NEW c \in Client, Allow(c) PROVE JoinInv'
    BY <1>5 DEF Allow, Shape, ListGrows, OnlyAllowedPeers, AcksAreEarned, PongsAreEarned,
                AnswersAreEarned, Joined
  <1>6. ASSUME NEW p \in Call, Ask(p) PROVE JoinInv'
    <2>1. \A q \in Call : caller'[q] = "ok" => caller[q] = "ok"
      BY <1>6 DEF Ask, Shape
    <2>2. AcksAreEarned' /\ PongsAreEarned' /\ AnswersAreEarned'
      BY <1>6, <2>1, EarnedKept DEF Ask
    <2> QED BY <1>6, <2>2 DEF Ask, Shape, ListGrows, OnlyAllowedPeers
  <1>7. ASSUME NEW p \in Call, GiveUp(p) PROVE JoinInv'
    <2>1. \A q \in Call : caller'[q] = "ok" => caller[q] = "ok"
      BY <1>7 DEF GiveUp, Shape
    <2>2. AcksAreEarned' /\ PongsAreEarned' /\ AnswersAreEarned'
      BY <1>7, <2>1, EarnedKept DEF GiveUp
    <2> QED BY <1>7, <2>2 DEF GiveUp, Shape, ListGrows, OnlyAllowedPeers
  <1>8. ASSUME NEW p \in Call, TakePing(p) PROVE JoinInv'
    <2>1. /\ commands' \subseteq Call /\ pings' \subseteq Call
          /\ wire' \subseteq wire \cup {Request(q) : q \in {p}}
          /\ caller' = caller \/ caller' = [caller EXCEPT ![p] = "refused"]
          /\ UNCHANGED <<configured, patient, allowed, peers, restarts, registered, heard>>
      BY <1>8 DEF TakePing, Shape, Kept, Waiting, Of
    <2>2. /\ \A q \in Call : caller'[q] = "ok" => caller[q] = "ok"
          /\ caller' \in [Call -> {"idle", "waiting", "ok", "expired", "refused", "gone"}]
      BY <2>1 DEF Shape
    <2>3. AcksAreEarned' /\ PongsAreEarned' /\ AnswersAreEarned' /\ wire' \subseteq Message
      BY <2>1, <2>2, EarnedKept
    <2> QED BY <2>1, <2>2, <2>3 DEF Shape, ListGrows, OnlyAllowedPeers
  <1>9. ASSUME NEW p \in Call, ReceivePing(p) PROVE JoinInv'
    <2>1. p.disco
      BY <1>9 DEF ReceivePing, PongsAreEarned
    <2>2. \A m \in wire' : m \in wire \/ (m = <<"pong", p>> /\ p \in heard')
      BY <1>9 DEF ReceivePing
    <2>3. heard \subseteq heard' /\ heard' \subseteq heard \cup {p}
      BY <1>9 DEF ReceivePing
    <2>4. UNCHANGED <<configured, patient, allowed, peers, restarts, caller, commands, pings, registered>>
      BY <1>9 DEF ReceivePing
    <2>5. wire' \subseteq Message
      BY <2>2 DEF Shape, Message
    <2>6. AcksAreEarned'
      BY <2>2, <2>4 DEF AcksAreEarned, Joined
    <2>7. PongsAreEarned'
      <3> SUFFICES ASSUME NEW q \in Call
                   PROVE  /\ <<"ping", q>> \in wire' => q.disco
                          /\ <<"pong", q>> \in wire' => q.disco /\ q \in heard'
        BY DEF PongsAreEarned
      <3>1. <<"ping", q>> \in wire' => q.disco
        BY <2>2 DEF PongsAreEarned
      <3>2. <<"pong", q>> \in wire' => q.disco /\ q \in heard'
        BY <2>1, <2>2, <2>3 DEF PongsAreEarned
      <3> QED BY <3>1, <3>2
    <2>8. AnswersAreEarned'
      BY <2>3, <2>4 DEF AnswersAreEarned
    <2> QED BY <2>3, <2>4, <2>5, <2>6, <2>7, <2>8 DEF Shape, ListGrows, OnlyAllowedPeers
  <1>10. ASSUME NEW p \in Call, ReceivePong(p) PROVE JoinInv'
    <2>1. p.disco /\ p \in heard
      BY <1>10 DEF ReceivePong, PongsAreEarned
    <2>2. caller' = [q \in Call |->
                        IF q \in Matches(p) /\ caller[q] = "waiting" THEN "ok" ELSE caller[q]]
      BY <1>10 DEF ReceivePong
    <2>3. Matches(p) \subseteq {p}
      BY DEF Matches
    <2>4. UNCHANGED <<configured, patient, allowed, peers, restarts, commands, registered, heard>>
      BY <1>10 DEF ReceivePong
    <2>5. wire' \subseteq wire /\ pings' \subseteq pings
      BY <1>10 DEF ReceivePong
    <2>6. AnswersAreEarned'
      BY <2>1, <2>2, <2>3, <2>4 DEF AnswersAreEarned
    <2> QED BY <2>2, <2>4, <2>5, <2>6 DEF Shape, ListGrows, OnlyAllowedPeers, AcksAreEarned,
                                        PongsAreEarned, Joined
  <1>11. ASSUME NEW m \in wire, Lose(m) PROVE JoinInv'
    BY <1>11 DEF Lose, Shape, ListGrows, OnlyAllowedPeers, AcksAreEarned, PongsAreEarned,
                 AnswersAreEarned, Joined
  <1>12. CASE UNCHANGED vars
    BY <1>12 DEF vars, Shape, ListGrows, OnlyAllowedPeers, AcksAreEarned, PongsAreEarned,
                 AnswersAreEarned, Joined
  <1> QED
    BY <1>1, <1>2, <1>3, <1>4, <1>5, <1>6, <1>7, <1>8, <1>9, <1>10, <1>11, <1>12 DEF Next

\* A server started with an allowlist never has a peer outside the list in force,
\* however often it restarts and whatever is added at run time.
THEOREM OnlyTheAllowedJoin == Spec => []OnlyAllowedPeers
  <1>1. JoinInv => OnlyAllowedPeers
    BY DEF JoinInv
  <1> QED BY <1>1, JoinInit, JoinNext, PTL DEF Spec

\* A ping that succeeds was answered by a server that had taken its client, or,
\* for a disco ping, that had heard this very ping.
THEOREM SuccessIsEarned == Spec => []AnswersAreEarned
  <1>1. JoinInv => AnswersAreEarned
    BY DEF JoinInv
  <1> QED BY <1>1, JoinInit, JoinNext, PTL DEF Spec

-----------------------------------------------------------------------------
\* The two caps, with the finiteness that makes cardinalities meaningful.
Bounds ==
    /\ IsFiniteSet(peers) /\ Cardinality(peers) <= MaxPeers
    /\ \A c \in Client : IsFiniteSet(Of(c)) /\ Cardinality(Of(c)) <= MaxPings

\* The caps allow dropping entries.
LEMMA FewerPings ==
    ASSUME Bounds, pings' \subseteq pings
    PROVE  \A c \in Client : IsFiniteSet(Of(c)') /\ Cardinality(Of(c)') <= MaxPings
  <1> SUFFICES ASSUME NEW c \in Client
               PROVE  IsFiniteSet(Of(c)') /\ Cardinality(Of(c)') <= MaxPings
    OBVIOUS
  <1>1. Of(c)' \subseteq Of(c)
    BY DEF Of
  <1>2. IsFiniteSet(Of(c)') /\ Cardinality(Of(c)') <= Cardinality(Of(c))
    BY <1>1, FS_Subset DEF Bounds
  <1>3. Cardinality(Of(c)) \in Nat /\ Cardinality(Of(c)') \in Nat /\ MaxPings \in Nat
    BY <1>2, FS_CardinalityType, MembershipAssumption DEF Bounds
  <1> QED BY <1>2, <1>3 DEF Bounds

\* What is kept of the pending pings is finite and within the cap.
LEMMA KeptFinite ==
    ASSUME Bounds, NEW c \in Client
    PROVE  IsFiniteSet(Kept(c)) /\ Cardinality(Kept(c)) \in Nat
  <1>1. Kept(c) \subseteq Of(c)
    BY DEF Kept, Waiting
  <1> QED BY <1>1, FS_Subset, FS_CardinalityType DEF Bounds

LEMMA BoundsInit == Init => Bounds
  <1> SUFFICES ASSUME Init PROVE Bounds
    OBVIOUS
  <1>1. IsFiniteSet({}) /\ Cardinality({}) = 0
    BY FS_EmptySet
  <1>2. peers = {} /\ \A c \in Client : Of(c) = {}
    BY DEF Init, Of
  <1>3. 0 <= MaxPeers /\ 0 <= MaxPings
    BY MembershipAssumption
  <1> QED BY <1>1, <1>2, <1>3 DEF Bounds

LEMMA BoundsNext == Shape /\ Bounds /\ [Next]_vars => Bounds'
  <1> SUFFICES ASSUME Shape, Bounds, [Next]_vars PROVE Bounds'
    OBVIOUS
  <1>1. ASSUME UNCHANGED peers, pings' \subseteq pings PROVE Bounds'
    BY <1>1, FewerPings DEF Bounds
  <1>2. CASE Restart
    <2>1. IsFiniteSet({}) /\ Cardinality({}) = 0
      BY FS_EmptySet
    <2>2. peers' = {} /\ pings' \subseteq pings
      BY <1>2 DEF Restart
    <2> QED BY <2>1, <2>2, FewerPings, MembershipAssumption DEF Bounds
  <1>3. ASSUME NEW c \in Client, Timers(c) PROVE Bounds'
    BY <1>1, <1>3 DEF Timers, Tick, Survivors, Waiting, Of
  <1>4. ASSUME NEW c \in Client, ReceiveMeow(c) PROVE Bounds'
    <2>1. pings' \subseteq pings
      BY <1>4 DEF ReceiveMeow
    <2>2. CASE peers' = peers
      BY <1>1, <2>1, <2>2
    <2>3. CASE peers' # peers
      <3>1. c \notin peers /\ Cardinality(peers) < MaxPeers /\ peers' = peers \cup {c}
        BY <1>4, <2>3 DEF ReceiveMeow, Added
      <3>2. /\ IsFiniteSet(peers \cup {c})
            /\ Cardinality(peers \cup {c}) = Cardinality(peers) + 1
            /\ Cardinality(peers) \in Nat
        BY <3>1, FS_AddElement, FS_CardinalityType DEF Bounds
      <3>3. IsFiniteSet(peers') /\ Cardinality(peers') <= MaxPeers
        BY <3>1, <3>2, MembershipAssumption
      <3> QED BY <2>1, <3>3, FewerPings DEF Bounds
    <2> QED BY <2>2, <2>3
  <1>5. ASSUME NEW c \in Client, ReceiveAck(c) PROVE Bounds'
    BY <1>1, <1>5 DEF ReceiveAck
  <1>6. ASSUME NEW c \in Client, Allow(c) PROVE Bounds'
    BY <1>1, <1>6 DEF Allow
  <1>7. ASSUME NEW p \in Call, Ask(p) PROVE Bounds'
    BY <1>1, <1>7 DEF Ask
  <1>8. ASSUME NEW p \in Call, GiveUp(p) PROVE Bounds'
    BY <1>1, <1>8 DEF GiveUp
  <1>9. ASSUME NEW p \in Call, TakePing(p) PROVE Bounds'
    <2>1. UNCHANGED peers
      BY <1>9 DEF TakePing
    <2>2. CASE pings' \subseteq pings
      BY <1>1, <2>1, <2>2
    <2>3. CASE Fits(p.by) /\ pings' = (pings \ Of(p.by)) \cup Kept(p.by) \cup {p}
      <3>1. p.by \in Client
        BY CallFields
      <3>2. Of(p.by)' = Kept(p.by) \cup {p}
        BY <2>3 DEF Of, Kept, Waiting
      <3>3. IsFiniteSet(Kept(p.by)) /\ Cardinality(Kept(p.by)) \in Nat
        BY <3>1, KeptFinite
      <3>4. /\ IsFiniteSet(Kept(p.by) \cup {p})
            /\ Cardinality(Kept(p.by) \cup {p}) <= Cardinality(Kept(p.by)) + 1
        <4> DEFINE K == Kept(p.by)
        <4> HIDE DEF K
        <4>1. IsFiniteSet(K) /\ Cardinality(K) \in Nat
          BY <3>3 DEF K
        <4>2. IsFiniteSet(K \cup {p}) /\ Cardinality(K \cup {p}) = IF p \in K THEN Cardinality(K) ELSE Cardinality(K) + 1
          BY <4>1, FS_AddElement
        <4>3. IsFiniteSet(K \cup {p}) /\ Cardinality(K \cup {p}) <= Cardinality(K) + 1
          BY <4>1, <4>2
        <4> QED BY <4>3 DEF K
      <3>5. IsFiniteSet(Kept(p.by) \cup {p}) /\ Cardinality(Kept(p.by) \cup {p}) <= MaxPings
        <4>1. Cardinality(Kept(p.by) \cup {p}) \in Nat
          BY <3>4, FS_CardinalityType
        <4>2. Cardinality(Kept(p.by)) < MaxPings
          BY <2>3 DEF Fits
        <4> QED BY <3>3, <3>4, <4>1, <4>2, MembershipAssumption
      <3>6. \A c \in Client : c # p.by => Of(c)' = Of(c)
        BY <2>3 DEF Of, Kept, Waiting
      <3>7. ASSUME NEW c \in Client
            PROVE  IsFiniteSet(Of(c)') /\ Cardinality(Of(c)') <= MaxPings
        <4>1. CASE c = p.by
          BY <4>1, <3>2, <3>5
        <4>2. CASE c # p.by
          BY <4>2, <3>6 DEF Bounds
        <4> QED BY <4>1, <4>2
      <3> QED BY <2>1, <3>7 DEF Bounds
    <2> QED BY <1>9, <2>2, <2>3 DEF TakePing, Kept, Waiting, Of
  <1>10. ASSUME NEW p \in Call, ReceivePing(p) PROVE Bounds'
    BY <1>1, <1>10 DEF ReceivePing
  <1>11. ASSUME NEW p \in Call, ReceivePong(p) PROVE Bounds'
    BY <1>1, <1>11 DEF ReceivePong
  <1>12. ASSUME NEW m \in wire, Lose(m) PROVE Bounds'
    BY <1>1, <1>12 DEF Lose
  <1>13. CASE UNCHANGED vars
    BY <1>1, <1>13 DEF vars
  <1> QED
    BY <1>2, <1>3, <1>4, <1>5, <1>6, <1>7, <1>8, <1>9, <1>10, <1>11, <1>12, <1>13 DEF Next

\* The peer table and the pending pings keep to their caps, for any caps.
THEOREM TypeCorrect == Spec => []TypeOK
  <1>1. JoinInv /\ Bounds => TypeOK
    BY DEF JoinInv, Bounds, TypeOK
  <1>2. JoinInv /\ Bounds /\ [Next]_vars => (JoinInv /\ Bounds)'
    BY JoinNext, BoundsNext DEF JoinInv
  <1> QED BY <1>1, <1>2, JoinInit, BoundsInit, PTL DEF Spec

-----------------------------------------------------------------------------
\* Which calls have a place, and what became of them, is all that PendingOnce is about.
LEMMA PendingKept ==
    PendingOnce /\ UNCHANGED <<caller, commands, pings>> => PendingOnce'
  BY DEF PendingOnce

LEMMA PendingNext == Shape /\ PendingOnce /\ [Next]_vars => PendingOnce'
  <1> SUFFICES ASSUME Shape, PendingOnce, [Next]_vars PROVE PendingOnce'
    OBVIOUS
  <1>1. caller \in [Call -> {"idle", "waiting", "ok", "expired", "refused", "gone"}]
    BY DEF Shape
  <1>2. ASSUME NEW p \in Call, Ask(p) PROVE PendingOnce'
    BY <1>1, <1>2 DEF Ask, PendingOnce
  <1>3. ASSUME NEW p \in Call, GiveUp(p) PROVE PendingOnce'
    BY <1>1, <1>3 DEF GiveUp, PendingOnce
  \* The actor takes a command: it joins the list, or its call is over already.
  <1>4. ASSUME NEW p \in Call, TakePing(p) PROVE PendingOnce'
    <2>1. commands' = commands \ {p} /\ p \in commands /\ p \notin pings
      BY <1>4 DEF TakePing, PendingOnce
    <2>2. CASE caller[p] # "waiting" /\ UNCHANGED <<caller, pings>>
      BY <2>1, <2>2 DEF PendingOnce
    <2>3. \A q \in Call : caller[q] = "waiting" =>
             (q \in pings <=> q \in (pings \ Of(p.by)) \cup Kept(p.by))
      BY DEF Kept, Waiting, Of
    <2>4. (pings \ Of(p.by)) \cup Kept(p.by) \subseteq pings
      BY DEF Kept, Waiting, Of
    <2>5. CASE /\ caller[p] = "waiting"
               /\ pings' = (pings \ Of(p.by)) \cup Kept(p.by)
               /\ caller' = [caller EXCEPT ![p] = "refused"]
      BY <1>1, <2>1, <2>3, <2>4, <2>5 DEF PendingOnce
    <2>6. CASE /\ caller[p] = "waiting" /\ UNCHANGED caller
               /\ pings' = (pings \ Of(p.by)) \cup Kept(p.by) \cup {p}
      BY <2>1, <2>3, <2>4, <2>6 DEF PendingOnce
    <2> QED BY <1>4, <2>2, <2>5, <2>6 DEF TakePing
  \* A tick takes places away from calls without a caller, and from those it fails.
  <1>5. ASSUME NEW c \in Client, Timers(c) PROVE PendingOnce'
    <2>1. PICK old \in SUBSET Of(c), due \in SUBSET Of(c) : Tick(c, old, due)
      BY <1>5 DEF Timers
    <2>2. /\ old \subseteq Waiting(c)
          /\ pings' = (pings \ Of(c)) \cup (Waiting(c) \ old)
          /\ caller' = [p \in Call |-> IF p \in old THEN "expired" ELSE caller[p]]
          /\ commands' = commands
      BY <2>1 DEF Tick, Survivors
    <2>3. \A q \in Call : q \in old => q \in pings /\ caller[q] = "waiting" /\ q \notin pings'
      BY <2>2 DEF Waiting, Of
    <2>4. \A q \in Call : q \notin old /\ caller[q] = "waiting" => (q \in pings <=> q \in pings')
      BY <2>2 DEF Waiting, Of
    <2>5. pings' \subseteq pings
      BY <2>2 DEF Waiting, Of
    <2>6. ASSUME NEW q \in Call
          PROVE  /\ caller'[q] = "waiting" => q \in commands' \cup pings'
                 /\ q \in commands' \cup pings' => caller'[q] \in {"waiting", "gone"}
                 /\ q \notin commands' \cap pings'
      <3>1. CASE q \in old
        BY <2>2, <2>3, <3>1 DEF PendingOnce
      <3>2. CASE q \notin old
        BY <2>2, <2>4, <2>5, <3>2 DEF PendingOnce
      <3> QED BY <3>1, <3>2
    <2> QED BY <2>6 DEF PendingOnce
  \* An answer resolves the calls it takes out of the list.
  <1>6. ASSUME NEW c \in Client, ReceiveAck(c) PROVE PendingOnce'
    <2>1. /\ pings' = {p \in pings : p.by # c \/ p.disco}
          /\ caller' = [p \in Call |-> IF p \in Waiting(c) /\ ~ p.disco THEN "ok" ELSE caller[p]]
          /\ commands' = commands
      BY <1>6 DEF ReceiveAck
    <2>2. ASSUME NEW q \in Call
          PROVE  /\ caller'[q] = "waiting" => q \in commands' \cup pings'
                 /\ q \in commands' \cup pings' => caller'[q] \in {"waiting", "gone"}
                 /\ q \notin commands' \cap pings'
      <3>1. CASE q \in Waiting(c) /\ ~ q.disco
        <4>1. q \in pings /\ q.by = c /\ q \notin pings' /\ caller'[q] = "ok"
          BY <2>1, <3>1 DEF Waiting, Of
        <4> QED BY <2>1, <4>1 DEF PendingOnce
      <3>2. CASE ~ (q \in Waiting(c) /\ ~ q.disco)
        <4>1. caller'[q] = caller[q]
          BY <2>1, <3>2
        <4>2. caller[q] = "waiting" /\ q \in pings => q \in pings'
          BY <2>1, <3>2 DEF Waiting, Of
        <4> QED BY <2>1, <4>1, <4>2 DEF PendingOnce
      <3> QED BY <3>1, <3>2
    <2> QED BY <2>2 DEF PendingOnce
  <1>7. ASSUME NEW p \in Call, ReceivePong(p) PROVE PendingOnce'
    <2>1. /\ pings' = pings \ Matches(p)
          /\ caller' = [q \in Call |->
                IF q \in Matches(p) /\ caller[q] = "waiting" THEN "ok" ELSE caller[q]]
          /\ commands' = commands
      BY <1>7 DEF ReceivePong
    <2>2. Matches(p) \subseteq pings
      BY DEF Matches, Of
    <2> QED BY <1>1, <2>1, <2>2 DEF PendingOnce
  <1>8. ASSUME NEW c \in Client, ReceiveMeow(c) \/ Allow(c) PROVE PendingOnce'
    BY <1>8, PendingKept DEF ReceiveMeow, Allow
  <1>9. ASSUME NEW p \in Call, ReceivePing(p) PROVE PendingOnce'
    BY <1>9, PendingKept DEF ReceivePing
  <1>10. ASSUME NEW m \in wire, Lose(m) PROVE PendingOnce'
    BY <1>10, PendingKept DEF Lose
  <1>11. CASE Restart \/ UNCHANGED vars
    BY <1>11, PendingKept DEF Restart, vars
  <1> QED
    BY <1>2, <1>3, <1>4, <1>5, <1>6, <1>7, <1>8, <1>9, <1>10, <1>11 DEF Next

\* Every call that waits has exactly one place where its answer or its timeout finds it, and
\* a call that is over has none: in any order of answers, timeouts and departures.
THEOREM EachCallPendsOnce == Spec => []PendingOnce
  <1>1. Init => PendingOnce
    BY DEF Init, PendingOnce
  <1>2. JoinInv => Shape
    BY DEF JoinInv
  <1> QED BY <1>1, <1>2, JoinInit, JoinNext, PendingNext, PTL DEF Spec
=============================================================================
