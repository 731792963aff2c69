------------------------------ MODULE TcpProofs -------------------------------
(*****************************************************************************)
(* Proofs about one TCP connection (TcpStream), for buffers of any size, any *)
(* number of bytes each way and any failure of the network: its links, pipes *)
(* and sockets implement HalfClose, and a drain is answered only when        *)
(* nothing can be lost any more.                                             *)
(*                                                                           *)
(* Bytes are numbered as they are written, so wherever some of them are,     *)
(* they are a run of consecutive numbers (Run).  Way says it of the places   *)
(* one direction passes through, of the reader's end backwards: what it has  *)
(* read, its pipe, its socket's buffer, and the part of the writer's buffer  *)
(* that starts dlv bytes before, then the writer's pipe.  It is an operator  *)
(* on two links, so that the lemmas about it (WayKept ... WayFresh) know     *)
(* nothing of the actions that use them.                                     *)
(*****************************************************************************)
EXTENDS TcpStream, Integers, TLAPS

\* There are two ends, each the other one's other.
LEMMA Ends2 ==
    ASSUME NEW e \in End
    PROVE  Other(e) \in End /\ Other(e) # e /\ Other(Other(e)) = e /\ End = {e, Other(e)}
  BY DEF End, Other

\* Bytes are numbered as they are written: s is a run of them after the first a.
Run(s, a) == \A i \in 1 .. Len(s) : s[i] = a + i

LEMMA RunSame ==
    ASSUME NEW s \in Seq(Nat), NEW t \in Seq(Nat), NEW a \in Int, Run(s, a), Run(t, a),
           Len(s) = Len(t)
    PROVE  s = t
  BY DEF Run

LEMMA RunParts ==
    ASSUME NEW s \in Seq(Nat), NEW a \in Int, Run(s, a), NEW n \in 0 .. Len(s)
    PROVE  /\ Front(s, n) \in Seq(Nat) /\ Len(Front(s, n)) = n /\ Run(Front(s, n), a)
           /\ Rest(s, n) \in Seq(Nat) /\ Len(Rest(s, n)) = Len(s) - n /\ Run(Rest(s, n), a + n)
  <1>1. Front(s, n) \in Seq(Nat) /\ Len(Front(s, n)) = n
    BY DEF Front
  <1>2. \A i \in 1 .. n : Front(s, n)[i] = s[i]
    BY DEF Front
  <1>3. Rest(s, n) \in Seq(Nat) /\ Len(Rest(s, n)) = Len(s) - n
    BY DEF Rest
  <1>4. \A i \in 1 .. Len(s) - n : Rest(s, n)[i] = s[n + i]
    BY DEF Rest
  <1>5. \A i \in 1 .. Len(s) - n : n + i \in 1 .. Len(s)
    OBVIOUS
  <1> QED BY <1>1, <1>2, <1>3, <1>4, <1>5 DEF Run

LEMMA Joined ==
    ASSUME NEW s \in Seq(Nat), NEW t \in Seq(Nat)
    PROVE  s \o t \in Seq(Nat) /\ Len(s \o t) = Len(s) + Len(t)
  OBVIOUS

LEMMA RunJoined ==
    ASSUME NEW s \in Seq(Nat), NEW t \in Seq(Nat), NEW a \in Int, Run(s, a), Run(t, a + Len(s))
    PROVE  s \o t \in Seq(Nat) /\ Len(s \o t) = Len(s) + Len(t) /\ Run(s \o t, a)
  <1>1. s \o t \in Seq(Nat) /\ Len(s \o t) = Len(s) + Len(t)
    OBVIOUS
  <1>2. ASSUME NEW i \in 1 .. Len(s) + Len(t) PROVE (s \o t)[i] = a + i
    <2>1. CASE i <= Len(s)
      BY <2>1 DEF Run
    <2>2. CASE i > Len(s)
      <3>1. i - Len(s) \in 1 .. Len(t) /\ (s \o t)[i] = t[i - Len(s)]
        BY <2>2
      <3>2. t[i - Len(s)] = (a + Len(s)) + (i - Len(s))
        BY <3>1 DEF Run
      <3> QED BY <3>1, <3>2
    <2> QED BY <2>1, <2>2
  <1> QED BY <1>1, <1>2 DEF Run

LEMMA RunLonger ==
    ASSUME NEW s \in Seq(Nat), NEW a \in Int, Run(s, a), NEW b \in Nat, b = a + Len(s) + 1
    PROVE  Append(s, b) \in Seq(Nat) /\ Len(Append(s, b)) = Len(s) + 1 /\ Run(Append(s, b), a)
  BY DEF Run

LEMMA RunShorter ==
    ASSUME NEW s \in Seq(Nat), NEW a \in Int, Run(s, a), s # <<>>
    PROVE  /\ Head(s) = a + 1 /\ Head(s) \in Nat /\ Len(s) \in Nat \ {0}
           /\ Tail(s) \in Seq(Nat) /\ Len(Tail(s)) = Len(s) - 1 /\ Run(Tail(s), a + 1)
  <1>1. Len(s) \in Nat \ {0} /\ Head(s) = s[1] /\ Tail(s) \in Seq(Nat) /\ Len(Tail(s)) = Len(s) - 1
    OBVIOUS
  <1>2. \A i \in 1 .. Len(s) - 1 : Tail(s)[i] = s[i + 1]
    OBVIOUS
  <1>3. 1 \in 1 .. Len(s) /\ \A i \in 1 .. Len(s) - 1 : i + 1 \in 1 .. Len(s)
    BY <1>1
  <1> QED BY <1>1, <1>2, <1>3 DEF Run

\* The first bytes of x went to the end of y.
Moved(x, y, x2, y2) == \E m \in 0 .. Len(x) : x2 = Rest(x, m) /\ y2 = y \o Front(x, m)

LEMMA MovedLengths ==
    ASSUME NEW x \in Seq(Nat), NEW y \in Seq(Nat), NEW x2, NEW y2, Moved(x, y, x2, y2)
    PROVE  /\ x2 \in Seq(Nat) /\ y2 \in Seq(Nat) /\ Len(x2) \in Nat /\ Len(y2) \in Nat
           /\ Len(x2) + Len(y2) = Len(x) + Len(y) /\ Len(y) <= Len(y2)
           /\ x = <<>> => x2 = x /\ Len(y2) = Len(y)
  <1>1. PICK m \in 0 .. Len(x) : x2 = Rest(x, m) /\ y2 = y \o Front(x, m)
    BY DEF Moved
  <1>2. PICK f : f = Front(x, m)
    OBVIOUS
  <1>3. f \in Seq(Nat) /\ Len(f) = m /\ x2 \in Seq(Nat) /\ Len(x2) = Len(x) - m
    BY <1>1, <1>2 DEF Front, Rest
  <1>4. y \o f \in Seq(Nat) /\ Len(y \o f) = Len(y) + Len(f)
    BY <1>3, Joined
  <1> QED BY <1>1, <1>2, <1>3, <1>4

LEMMA RunMoved ==
    ASSUME NEW x \in Seq(Nat), NEW y \in Seq(Nat), NEW x2, NEW y2, Moved(x, y, x2, y2),
           NEW a \in Int, Run(y, a), Run(x, a + Len(y))
    PROVE  Run(y2, a) /\ Run(x2, a + Len(y2))
  <1>1. PICK m \in 0 .. Len(x) : x2 = Rest(x, m) /\ y2 = y \o Front(x, m)
    BY DEF Moved
  <1>2. PICK c \in Int : c = a + Len(y)
    OBVIOUS
  <1>3. PICK f : f = Front(x, m)
    OBVIOUS
  <1>4. f \in Seq(Nat) /\ Len(f) = m /\ Run(f, c) /\ Run(x2, c + m)
    BY <1>1, <1>2, <1>3, RunParts
  <1>5. Run(y \o f, a) /\ Len(y \o f) = Len(y) + Len(f)
    BY <1>2, <1>4, RunJoined
  <1>6. c + m = a + Len(y2)
    BY <1>1, <1>2, <1>3, <1>4, <1>5
  <1> QED BY <1>1, <1>3, <1>4, <1>5, <1>6

LEMMA RunEmpty == ASSUME NEW a PROVE <<>> \in Seq(Nat) /\ Len(<<>>) = 0 /\ Run(<<>>, a)
  BY DEF Run

-----------------------------------------------------------------------------
(* One direction of a connection.                                            *)

\* What the user of end r has and is going to read of what the other end sent.
Received(g, r) == Len(g) + Len(r.outb) + Len(r.rx)

\* The bytes after the first n are in the socket and the pipe of the sending end t, of s.
Sends(s, t, n) ==
    /\ Run(t.tx, n - t.dlv) /\ Run(t.inb, n - t.dlv + Len(t.tx))
    /\ Len(s) = n - t.dlv + Len(t.tx) + Len(t.inb)

FinStates == {"FinWait1", "Closing", "LastAck"}
NoSocket == {"Closed", "None"}

\* One direction: s was written, and sh ended, at the end with link t; g was read at the
\* end with link r, whose user is lost when it has left.
Way(s, sh, t, r, g, lost) ==
    /\ Run(s, 0) /\ Run(g, 0)
    /\ t.dlv <= Len(t.tx)
    /\ t.state \in FinStates => sh /\ t.inb = <<>>
    /\ t.finin => sh /\ t.inb = <<>> /\ t.dlv = Len(t.tx)
    /\ ~ lost =>
          /\ Run(r.outb, Len(g)) /\ Run(r.rx, Len(g) + Len(r.outb))
          /\ Received(g, r) <= Len(s)
          /\ t.finin => Len(s) = Received(g, r)
          /\ t.state \notin NoSocket => Sends(s, t, Received(g, r))

LEMMA LinkParts ==
    ASSUME NEW l \in LinkType
    PROVE  /\ l.state \in TcpState /\ l.app \in {"kept", "given"}
           /\ l.inb \in Seq(Nat) /\ l.tx \in Seq(Nat) /\ l.rx \in Seq(Nat) /\ l.outb \in Seq(Nat)
           /\ l.dlv \in Nat
           /\ l.finin \in BOOLEAN /\ l.eof \in BOOLEAN /\ l.read_closed \in BOOLEAN
           /\ Len(l.inb) \in Nat /\ Len(l.tx) \in Nat /\ Len(l.rx) \in Nat /\ Len(l.outb) \in Nat
  BY DEF LinkType

LEMMA Lengths ==
    ASSUME NEW l \in LinkType
    PROVE  Len(l.inb) \in Nat /\ Len(l.tx) \in Nat /\ Len(l.rx) \in Nat /\ Len(l.outb) \in Nat
  BY DEF LinkType

LEMMA ReceivedIsNat ==
    ASSUME NEW g, Len(g) \in Nat, NEW r \in LinkType
    PROVE  Received(g, r) \in Nat
  <1>1. PICK a \in Nat, b \in Nat, c \in Nat : a = Len(g) /\ b = Len(r.outb) /\ c = Len(r.rx)
    BY Lengths
  <1>2. a + b + c \in Nat
    OBVIOUS
  <1> QED BY <1>1, <1>2 DEF Received

\* What a change of a link's other fields has to keep: l has the data of k as a sending end,
\* or as a receiving end, and its socket has not come to life.
SameSent(l, k) == l.inb = k.inb /\ l.tx = k.tx /\ l.dlv = k.dlv /\ l.finin = k.finin
SameRead(l, k) == l.rx = k.rx /\ l.outb = k.outb
Onward(l, k) ==
    /\ l.state \in FinStates => k.state \in FinStates
    /\ l.state \notin NoSocket => k.state \notin NoSocket

\* A direction is unaffected by flags, by the writer's end and the reader's departure.
LEMMA WayKept ==
    ASSUME NEW s, NEW g, NEW sh, NEW sh2, NEW lost, NEW lost2,
           NEW t, NEW t2, NEW r, NEW r2, Way(s, sh, t, r, g, lost),
           SameSent(t2, t), SameRead(r2, r), Onward(t2, t), sh => sh2, lost => lost2
    PROVE  Way(s, sh2, t2, r2, g, lost2)
  BY DEF Way, SameSent, SameRead, Onward, Received, Sends

\* Write: one more byte in the writer's pipe.
LEMMA WayWritten ==
    ASSUME NEW s \in Seq(Nat), NEW g, Len(g) \in Nat, NEW sh, NEW lost,
           NEW t \in LinkType, NEW t2 \in LinkType, NEW r \in LinkType, NEW r2,
           Way(s, sh, t, r, g, lost), ~ sh,
           t2.state = t.state, t2.tx = t.tx, t2.dlv = t.dlv, t2.finin = t.finin,
           NEW b, b = Len(s) + 1, t2.inb = Append(t.inb, b), SameRead(r2, r)
    PROVE  Way(Append(s, b), sh, t2, r2, g, lost)
  <1>1. PICK x, y, x2, d : x = t.inb /\ y = t.tx /\ x2 = t2.inb /\ d = t.dlv
    OBVIOUS
  <1>2. /\ x \in Seq(Nat) /\ d \in Nat /\ b \in Nat /\ x2 = Append(x, b)
        /\ Len(x) \in Nat /\ Len(y) \in Nat /\ Len(s) \in Nat
    BY <1>1, LinkParts, Lengths
  <1>3. Run(s, 0) /\ 0 \in Int /\ b = 0 + Len(s) + 1
    BY <1>1, <1>2 DEF Way
  <1>4. PICK s2 : s2 = Append(s, b)
    OBVIOUS
  <1>5. Len(s2) = Len(s) + 1 /\ Run(s2, 0)
    BY <1>2, <1>3, <1>4, RunLonger
  <1>6. t.state \notin FinStates /\ ~ t.finin /\ t.dlv <= Len(t.tx) /\ Run(g, 0)
    BY DEF Way
  <1>7. PICK n \in Nat : n = Received(g, r)
    BY ReceivedIsNat
  <1>8. n = Received(g, r2) /\ r2.outb = r.outb /\ r2.rx = r.rx
    BY <1>7 DEF Received, SameRead
  <1>9. PICK k \in Nat, l \in Nat, m \in Nat : k = Len(x) /\ l = Len(y) /\ m = Len(s)
    BY <1>2
  <1>10. ASSUME Run(x, n - d + Len(y)), Len(s) = n - d + Len(y) + Len(x)
        PROVE  Run(x2, n - d + Len(y)) /\ Len(s2) = n - d + Len(y) + Len(x2)
    <2>1. PICK a \in Int : a = n - d + l
      BY <1>2
    <2>2. m = a + k /\ b = m + 1
      BY <1>1, <1>10, <1>9, <2>1
    <2>3. b = a + k + 1 /\ Run(x, a)
      BY <1>10, <1>9, <2>1, <2>2
    <2>4. Len(x2) = k + 1 /\ Run(x2, a)
      BY <1>2, <1>9, <2>3, RunLonger
    <2>5. Len(s2) = m + 1
      BY <1>5, <1>9
    <2>6. m + 1 = a + (k + 1)
      BY <2>2
    <2> QED BY <1>9, <2>1, <2>4, <2>5, <2>6
  <1>11. Sends(s, t, n) => Sends(s2, t2, n)
    BY <1>1, <1>10 DEF Sends
  <1>12. n <= Len(s) => n <= Len(s2)
    <2>1. n <= m => n <= m + 1
      OBVIOUS
    <2> QED BY <1>5, <1>9, <2>1
  <1>13. Way(s2, sh, t2, r2, g, lost)
    BY <1>5, <1>6, <1>7, <1>8, <1>11, <1>12 DEF Way
  <1> QED BY <1>1, <1>4, <1>13

\* Take: from the writer's pipe into its socket.
LEMMA WayTaken ==
    ASSUME NEW s, NEW g, Len(g) \in Nat, NEW sh, NEW lost,
           NEW t \in LinkType, NEW t2 \in LinkType, NEW r \in LinkType,
           Way(s, sh, t, r, g, lost),
           t2.state = t.state, t2.dlv = t.dlv, t2.finin = t.finin,
           Moved(t.inb, t.tx, t2.inb, t2.tx)
    PROVE  Way(s, sh, t2, r, g, lost)
  <1>1. PICK x, y, x2, y2, d : x = t.inb /\ y = t.tx /\ x2 = t2.inb /\ y2 = t2.tx /\ d = t.dlv
    OBVIOUS
  <1>2. x \in Seq(Nat) /\ y \in Seq(Nat) /\ d \in Nat /\ Moved(x, y, x2, y2)
    BY <1>1, LinkParts
  <1>3. /\ Len(x2) + Len(y2) = Len(x) + Len(y) /\ Len(y) <= Len(y2)
        /\ x = <<>> => x2 = x /\ Len(y2) = Len(y)
    BY <1>2, MovedLengths
  <1>4. PICK k \in Nat, l \in Nat, k2 \in Nat, l2 \in Nat :
           k = Len(x) /\ l = Len(y) /\ k2 = Len(x2) /\ l2 = Len(y2)
    BY <1>1, Lengths
  <1>5. k2 + l2 = k + l /\ l <= l2 /\ d <= l
    BY <1>1, <1>3, <1>4 DEF Way
  <1>6. d <= l2
    BY <1>2, <1>5
  <1>7. PICK n \in Nat : n = Received(g, r)
    BY ReceivedIsNat
  <1>8. ASSUME Run(y, n - d), Run(x, n - d + Len(y)), Len(s) = n - d + Len(y) + Len(x)
        PROVE  Run(y2, n - d) /\ Run(x2, n - d + Len(y2)) /\ Len(s) = n - d + Len(y2) + Len(x2)
    <2>1. PICK a \in Int : a = n - d
      BY <1>2
    <2>2. Run(y, a) /\ Run(x, a + Len(y))
      BY <1>8, <2>1
    <2>3. Run(y2, a) /\ Run(x2, a + Len(y2))
      BY <1>2, <2>2, RunMoved
    <2>4. Len(s) = a + l + k
      BY <1>4, <1>8, <2>1
    <2>5. a + l + k = a + l2 + k2
      BY <1>5
    <2> QED BY <1>4, <2>1, <2>3, <2>4, <2>5
  <1>9. Sends(s, t, n) => Sends(s, t2, n)
    BY <1>1, <1>8 DEF Sends
  <1>10. t2.finin => sh /\ t2.inb = <<>> /\ t2.dlv = Len(t2.tx)
    BY <1>1, <1>3 DEF Way
  <1> QED BY <1>1, <1>3, <1>4, <1>6, <1>7, <1>9, <1>10 DEF Way

\* Take, after the last byte: the FIN is on its way.
LEMMA WayEnded ==
    ASSUME NEW s, NEW g, NEW sh, NEW lost,
           NEW t, NEW t2, NEW r,
           Way(s, sh, t, r, g, lost), sh, t.inb = <<>>, t.state \notin NoSocket, SameSent(t2, t)
    PROVE  Way(s, sh, t2, r, g, lost)
  BY DEF Way, SameSent, Received, Sends

\* Push: from the reader's socket into its pipe.
LEMMA WayPushed ==
    ASSUME NEW s, NEW g, Len(g) \in Nat, NEW sh, NEW lost,
           NEW t \in LinkType, NEW r \in LinkType, NEW r2 \in LinkType,
           Way(s, sh, t, r, g, lost), Moved(r.rx, r.outb, r2.rx, r2.outb)
    PROVE  Way(s, sh, t, r2, g, lost)
  <1>1. PICK x, y, x2, y2, a : x = r.rx /\ y = r.outb /\ x2 = r2.rx /\ y2 = r2.outb /\ a = Len(g)
    OBVIOUS
  <1>2. x \in Seq(Nat) /\ y \in Seq(Nat) /\ Moved(x, y, x2, y2) /\ a \in Int /\ a \in Nat
    BY <1>1, LinkParts
  <1>3. Len(x2) + Len(y2) = Len(x) + Len(y)
    BY <1>2, MovedLengths
  <1>4. PICK k \in Nat, l \in Nat, k2 \in Nat, l2 \in Nat :
           k = Len(x) /\ l = Len(y) /\ k2 = Len(x2) /\ l2 = Len(y2)
    BY <1>1, Lengths
  <1>5. k2 + l2 = k + l
    BY <1>3, <1>4
  <1>6. Received(g, r2) = Received(g, r)
    <2>1. a + l + k = a + l2 + k2
      BY <1>2, <1>5
    <2> QED BY <1>1, <1>4, <2>1 DEF Received
  <1>7. ASSUME Run(y, a), Run(x, a + Len(y))
        PROVE  Run(y2, a) /\ Run(x2, a + Len(y2))
    BY <1>2, <1>7, RunMoved
  <1> QED BY <1>1, <1>6, <1>7 DEF Way

\* Read: the reader gets the next byte, which was written.
LEMMA WayRead ==
    ASSUME NEW s, Len(s) \in Nat, NEW g \in Seq(Nat), NEW sh, NEW lost, ~ lost,
           NEW t, NEW r \in LinkType, NEW r2 \in LinkType,
           Way(s, sh, t, r, g, lost), r.outb # <<>>,
           r2.outb = Tail(r.outb), r2.rx = r.rx
    PROVE  /\ Way(s, sh, t, r2, Append(g, Head(r.outb)), lost)
           /\ Head(r.outb) = Len(g) + 1 /\ Len(g) < Len(s)
  <1>1. PICK x, y, y2, b : x = r.rx /\ y = r.outb /\ y2 = r2.outb /\ b = Head(r.outb)
    OBVIOUS
  <1>2. PICK k \in Nat, l \in Nat, m \in Nat, n \in Nat :
           k = Len(x) /\ l = Len(y) /\ m = Len(g) /\ n = Len(s)
    BY <1>1, Lengths
  <1>3. /\ y \in Seq(Nat) /\ y # <<>> /\ y2 = Tail(y) /\ b = Head(y)
        /\ Run(g, 0) /\ Run(y, m) /\ Run(x, m + l)
    BY <1>1, <1>2, LinkParts DEF Way
  <1>4. m + l + k <= n
    BY <1>1, <1>2 DEF Way, Received
  <1>5. b = m + 1 /\ b \in Nat /\ l \in Nat \ {0} /\ Len(y2) = l - 1 /\ Run(y2, m + 1)
    BY <1>2, <1>3, RunShorter
  <1>6. PICK g2 : g2 = Append(g, b)
    OBVIOUS
  <1>7. Len(g2) = m + 1 /\ Run(g2, 0)
    BY <1>2, <1>3, <1>5, <1>6, RunLonger
  <1>8. (m + 1) + (l - 1) = m + l /\ m < n
    BY <1>4, <1>5
  <1>9. Run(x, Len(g2) + Len(y2)) /\ Run(y2, Len(g2))
    BY <1>3, <1>5, <1>7, <1>8
  <1>10. Received(g2, r2) = Received(g, r)
    BY <1>1, <1>2, <1>5, <1>7, <1>8 DEF Received
  <1>11. Way(s, sh, t, r2, g2, lost)
    BY <1>1, <1>7, <1>9, <1>10 DEF Way
  <1> QED BY <1>1, <1>2, <1>5, <1>6, <1>8, <1>11

\* Deliver: the next byte is at both ends until it is acknowledged.
LEMMA WayDelivered ==
    ASSUME NEW s, Len(s) \in Nat, NEW g, Len(g) \in Nat, NEW sh, NEW lost,
           NEW t \in LinkType, NEW t2, NEW r \in LinkType, NEW r2,
           Way(s, sh, t, r, g, lost), t.state \notin NoSocket, t.dlv < Len(t.tx),
           t2.state = t.state, t2.inb = t.inb, t2.tx = t.tx, t2.dlv = t.dlv + 1,
           t2.finin = t.finin, r2.rx = Append(r.rx, t.tx[t.dlv + 1]), r2.outb = r.outb
    PROVE  Way(s, sh, t2, r2, g, lost)
  <1>1. PICK i, y, x, w, d, b : /\ i = t.inb /\ y = t.tx /\ x = r.rx /\ w = r2.rx /\ d = t.dlv
                                /\ b = t.tx[t.dlv + 1]
    OBVIOUS
  <1>2. PICK k \in Nat, l \in Nat, m \in Nat, n \in Nat, o \in Nat, j \in Nat :
           /\ k = Len(x) /\ l = Len(y) /\ m = Len(g) /\ n = Len(s) /\ o = Len(r.outb)
           /\ j = Len(i)
    BY <1>1, Lengths
  <1>3. d \in Nat /\ d < l /\ y \in Seq(Nat) /\ x \in Seq(Nat) /\ w = Append(x, b) /\ b = y[d + 1]
    BY <1>1, <1>2, LinkParts
  <1>4. d + 1 \in 1 .. l /\ d + 1 <= l /\ d # l
    BY <1>3
  <1>5. b \in Nat
    BY <1>2, <1>3, <1>4
  <1>6. ~ t.finin
    BY <1>1, <1>2, <1>4 DEF Way
  <1>7. PICK p \in Nat : p = m + o + k
    OBVIOUS
  <1>8. Received(g, r) = p
    BY <1>1, <1>2, <1>7 DEF Received
  <1>9. Len(w) = k + 1
    BY <1>2, <1>3, <1>5
  <1>10. Received(g, r2) = p + 1
    <2>1. m + o + (k + 1) = p + 1
      BY <1>7
    <2> QED BY <1>1, <1>2, <1>9, <2>1 DEF Received
  <1>11. ASSUME ~ lost
         PROVE  /\ Run(r2.outb, Len(g)) /\ Run(r2.rx, Len(g) + Len(r2.outb))
                /\ p + 1 <= Len(s) /\ Sends(s, t2, p + 1)
    <2>1. Run(y, p - d) /\ Run(i, p - d + l) /\ n = p - d + l + j
      BY <1>1, <1>2, <1>8, <1>11 DEF Way, Sends
    <2>2. Run(r.outb, m) /\ Run(x, m + o)
      BY <1>1, <1>2, <1>11 DEF Way
    <2>3. b = (p - d) + (d + 1)
      BY <1>2, <1>3, <1>4, <2>1 DEF Run
    <2>4. PICK c \in Nat : c = m + o
      OBVIOUS
    <2>5. b = c + k + 1
      BY <1>3, <1>7, <2>3, <2>4
    <2>6. Run(w, c)
      BY <1>2, <1>3, <1>5, <2>2, <2>4, <2>5, RunLonger
    <2>7. p + 1 <= n /\ (p + 1) - (d + 1) = p - d
      BY <1>3, <1>4, <2>1
    <2>8. Sends(s, t2, p + 1)
      BY <1>1, <1>2, <2>1, <2>7 DEF Sends
    <2> QED BY <1>1, <1>2, <2>2, <2>4, <2>6, <2>7, <2>8
  <1>12. t2.dlv <= Len(t2.tx)
    BY <1>1, <1>2, <1>4
  <1> QED BY <1>6, <1>10, <1>11, <1>12 DEF Way

\* Ack: the writer's socket forgets what was delivered.
LEMMA WayAcked ==
    ASSUME NEW s, Len(s) \in Nat, NEW g, Len(g) \in Nat, NEW sh, NEW lost,
           NEW t \in LinkType, NEW t2, NEW r \in LinkType,
           Way(s, sh, t, r, g, lost),
           t2.state = t.state, t2.inb = t.inb, t2.finin = t.finin, t2.dlv = 0,
           t2.tx = Rest(t.tx, t.dlv)
    PROVE  Way(s, sh, t2, r, g, lost)
  <1>1. PICK i, y, y2, d : i = t.inb /\ y = t.tx /\ y2 = t2.tx /\ d = t.dlv
    OBVIOUS
  <1>2. PICK l \in Nat, n \in Nat, j \in Nat : l = Len(y) /\ n = Len(s) /\ j = Len(i)
    BY <1>1, Lengths
  <1>3. d \in 0 .. l /\ y \in Seq(Nat) /\ y2 = Rest(y, d)
    BY <1>1, <1>2, LinkParts DEF Way
  <1>4. Len(y2) = l - d
    BY <1>2, <1>3 DEF Rest
  <1>5. PICK p \in Nat : p = Received(g, r)
    BY ReceivedIsNat
  <1>6. ASSUME Run(y, p - d), Run(i, p - d + l), n = p - d + l + j
        PROVE  Run(y2, p - 0) /\ Run(i, p - 0 + Len(y2)) /\ n = p - 0 + Len(y2) + j
    <2>1. PICK a \in Int : a = p - d
      BY <1>3
    <2>2. Run(y, a)
      BY <1>6, <2>1
    <2>3. Run(y2, a + d)
      BY <1>2, <1>3, <2>2, RunParts
    <2>4. a + d = p - 0 /\ p - d + l = p - 0 + (l - d) /\ n = p - 0 + (l - d) + j
      BY <1>3, <1>6, <2>1
    <2> QED BY <1>4, <1>6, <2>3, <2>4
  <1>7. Sends(s, t, p) => Sends(s, t2, p)
    BY <1>1, <1>2, <1>6 DEF Sends
  <1>8. 0 <= l - d /\ (d = l => 0 = l - d)
    BY <1>3
  <1>9. t2.dlv <= Len(t2.tx) /\ (t2.finin => t2.dlv = Len(t2.tx))
    BY <1>1, <1>2, <1>4, <1>8 DEF Way
  <1> QED BY <1>5, <1>7, <1>9 DEF Way

\* DeliverFin: the FIN is in order, so every byte is at the reader's end.
LEMMA WayFin ==
    ASSUME NEW s, Len(s) \in Nat, NEW g, Len(g) \in Nat, NEW sh, NEW lost,
           NEW t \in LinkType, NEW t2, NEW r \in LinkType,
           Way(s, sh, t, r, g, lost), t.state \in FinStates, t.dlv = Len(t.tx),
           t2.state = t.state, t2.inb = t.inb, t2.tx = t.tx, t2.dlv = t.dlv
    PROVE  Way(s, sh, t2, r, g, lost)
  <1>1. PICK l \in Nat, n \in Nat, p \in Nat : l = Len(t.tx) /\ n = Len(s) /\ p = Received(g, r)
    BY Lengths, ReceivedIsNat
  <1>2. t.inb = <<>> /\ sh /\ Len(<<>>) = 0
    BY DEF Way
  <1>3. t.state \notin NoSocket
    BY DEF FinStates, NoSocket
  <1>4. ASSUME Sends(s, t, p) PROVE Sends(s, t2, p) /\ n = p
    <2>1. n = p - l + l + 0
      BY <1>1, <1>2, <1>4 DEF Sends
    <2>2. n = p
      BY <2>1
    <2> QED BY <1>4, <2>2 DEF Sends
  <1> QED BY <1>1, <1>2, <1>3, <1>4 DEF Way

\* AckFin: the writer's socket has nothing more to do.
LEMMA WayFinAcked ==
    ASSUME NEW s, Len(s) \in Nat, NEW g, Len(g) \in Nat, NEW sh, NEW lost,
           NEW t, NEW t2, NEW r \in LinkType,
           Way(s, sh, t, r, g, lost), t.finin, t2.state \notin FinStates,
           t2.inb = t.inb, t2.tx = <<>>, t2.dlv = 0
    PROVE  Way(s, sh, t2, r, g, lost)
  <1>1. PICK n \in Nat, p \in Nat : n = Len(s) /\ p = Received(g, r)
    BY ReceivedIsNat
  <1>2. t2.inb = <<>> /\ sh /\ Len(<<>>) = 0 /\ 0 <= 0
    BY DEF Way
  <1>3. Run(<<>>, p - 0) /\ Run(<<>>, p - 0 + 0) /\ p = p - 0 + 0 + 0
    BY <1>2 DEF Run
  <1>4. n = p => Sends(s, t2, p)
    BY <1>1, <1>2, <1>3 DEF Sends
  <1> QED BY <1>1, <1>2, <1>4 DEF Way

\* Reap, of the writer's link.
LEMMA WayReapedWriter ==
    ASSUME NEW s, NEW g, NEW sh, NEW lost, NEW t, NEW t2, NEW r,
           Way(s, sh, t, r, g, lost), t2.state = "None",
           t2.finin = t.finin, t2.inb = <<>>, t2.tx = <<>>, t2.dlv = 0
    PROVE  Way(s, sh, t2, r, g, lost)
  <1>1. Len(<<>>) = 0 /\ 0 <= 0
    OBVIOUS
  <1> QED BY <1>1 DEF Way, FinStates, NoSocket

\* Reap, of the reader's link: its pipe remains.
LEMMA WayReapedReader ==
    ASSUME NEW s, NEW g, NEW sh, NEW lost, NEW t, NEW r, NEW r2,
           Way(s, sh, t, r, g, lost), lost \/ r.rx = <<>>,
           r2.outb = r.outb, r2.rx = <<>>
    PROVE  Way(s, sh, t, r2, g, lost)
  BY DEF Way, Received

\* Dial, SynArrives: nothing was written yet.
LEMMA WayFresh ==
    ASSUME NEW sh, NEW lost, NEW t, NEW r,
           t.state \notin FinStates, ~ t.finin, t.inb = <<>>, t.tx = <<>>, t.dlv = 0,
           r.outb = <<>>, r.rx = <<>>
    PROVE  Way(<<>>, sh, t, r, <<>>, lost)
  <1>1. Len(<<>>) = 0 /\ 0 <= 0 /\ 0 + 0 + 0 = 0 /\ 0 - 0 + 0 + 0 = 0
    OBVIOUS
  <1>2. \A a : Run(<<>>, a)
    BY <1>1 DEF Run
  <1>3. Received(<<>>, r) = 0
    BY <1>1 DEF Received
  <1>4. Sends(<<>>, t, 0)
    BY <1>1, <1>2 DEF Sends
  <1> QED BY <1>1, <1>2, <1>3, <1>4 DEF Way

-----------------------------------------------------------------------------
(*****************************************************************************)
(* The inductive invariant.  DrainSound says of a FIN what is true only      *)
(* because the bytes before it are where Ways says, because a link reports   *)
(* the end of the file only in a state that follows the FIN (Pipes), and     *)
(* because the states of the two sockets agree about both FINs (Fins).       *)
(*****************************************************************************)

\* The end of the pipe that the application of e holds is no longer read.
Lost(e) == link[e].app = "given" /\ Dropped(e)

Handshaking == {"Listen", "SynSent", "SynReceived"}
Ended == {"CloseWait", "Closing", "LastAck", "TimeWait", "Closed", "None"}

StreamType ==
    /\ link \in [End -> LinkType]
    /\ ack3 \in BOOLEAN /\ broken \in BOOLEAN
    /\ dial \in {"none", "waiting", "ok", "err", "cancelled"}
    /\ sent \in [End -> Seq(Nat)] /\ got \in [End -> Seq(Nat)]
    /\ shut \in [End -> BOOLEAN] /\ gone \in [End -> BOOLEAN] /\ seen \in [End -> BOOLEAN]
    /\ drain \in [End -> {"no", "waiting", "done"}]

\* Nothing was written, handed over or received before the handshake.
Untouched(e) ==
    /\ link[e].app = "kept" /\ link[e].state \in Handshaking \cup NoSocket
    /\ link[e].inb = <<>> /\ link[e].tx = <<>> /\ link[e].dlv = 0 /\ ~ link[e].finin
    /\ link[e].rx = <<>> /\ link[e].outb = <<>>
    /\ ~ shut[e] /\ ~ gone[e] /\ ~ seen[e] /\ sent[e] = <<>> /\ got[e] = <<>>
    /\ drain[e] = "no"

Quiet == ~ ack3 => \A e \in End : Untouched(e)

\* Who dials and who listens, and what a caller that went away leaves.
Handshake ==
    /\ link["client"].state \notin {"Listen", "SynReceived"}
    /\ link["client"].state = "SynSent" => ~ ack3
    /\ link["server"].state # "SynSent"
    /\ dial = "none" => link["client"].state = "None" /\ ~ ack3
    /\ dial \in {"none", "waiting"} => link["client"].app = "kept"
    /\ dial = "cancelled" /\ link["client"].app = "given" =>
          broken /\ link["client"].state \in NoSocket

WayFrom(e) ==
    Way(sent[e], shut[e], link[e], link[Other(e)], got[Other(e)], Lost(Other(e)))

Ways == \A e \in End : WayFrom(e)

\* The user's end: end of file only after the last byte, nobody served before the handshake.
Pipe(e) ==
    /\ gone[e] => shut[e]
    /\ Len(link[e].outb) <= Cap
    /\ link[e].read_closed \/ link[e].eof =>
          Lost(e) \/ (link[e].rx = <<>> /\ link[e].state \in Ended)
    /\ seen[e] => link[e].eof /\ link[e].outb = <<>>
    /\ link[e].app = "given" => link[e].state \notin Handshaking
    /\ link[e].state \in Handshaking => ~ link[e].eof /\ ~ link[e].read_closed
    /\ drain[e] # "no" => link[e].app = "given"

Pipes == \A e \in End : Pipe(e)

\* Unless the connection was cut, the state of each socket tells which FINs were delivered.
Fin(e) == LET o == Other(e) IN
    /\ link[e].state \in {"SynReceived", "Established", "FinWait1", "FinWait2"} => ~ link[o].finin
    /\ link[e].state \in Ended => link[o].finin
    /\ link[e].state \in {"SynReceived", "Established", "CloseWait"} => ~ link[e].finin
    /\ link[e].state \in {"FinWait2", "TimeWait", "Closed", "None"} => link[e].finin
    /\ link[e].state \notin {"Listen", "SynSent"}
    /\ drain[e] = "done" => link[e].finin

Fins == ack3 /\ ~ broken => \A e \in End : Fin(e)

StreamInv == StreamType /\ Quiet /\ Handshake /\ Ways /\ Pipes /\ Fins

LEMMA InitInv == Init => StreamInv
  <1> SUFFICES ASSUME Init PROVE StreamInv
    OBVIOUS
  <1>1. \A e \in End : link[e] = Fresh("None") /\ sent[e] = <<>> /\ got[e] = <<>>
    BY DEF Init
  <1>2. <<>> \in Seq(Nat) /\ Len(<<>>) = 0
    OBVIOUS
  <1>3. Fresh("None") \in LinkType
    BY <1>2 DEF Fresh, LinkType, TcpState
  <1>4. StreamType
    BY <1>2, <1>3 DEF Init, StreamType
  <1>5. ASSUME NEW e \in End PROVE Untouched(e) /\ Pipe(e) /\ WayFrom(e)
    <2>1. link[e] = Fresh("None") /\ link[Other(e)] = Fresh("None") /\ got[Other(e)] = <<>>
      BY <1>1, Ends2
    <2>2. Untouched(e)
      BY <1>1 DEF Init, Untouched, Fresh, NoSocket
    <2>3. Pipe(e)
      BY <1>1, <1>2, StreamAssumption
         DEF Init, StreamAssumption, Pipe, Fresh, Handshaking, Ended
    <2>4. WayFrom(e)
      BY <1>1, <2>1, WayFresh DEF WayFrom, Fresh, FinStates
    <2> QED BY <2>2, <2>3, <2>4
  <1>6. Handshake /\ Fins
    BY <1>1 DEF Init, Handshake, Fins, Fresh, End
  <1> QED BY <1>4, <1>5, <1>6 DEF StreamInv, Quiet, Ways, Pipes

LEMMA LinkAt ==
    ASSUME StreamInv, NEW e \in End
    PROVE  /\ link[e] \in LinkType /\ Len(sent[e]) \in Nat /\ Len(got[e]) \in Nat
           /\ sent[e] \in Seq(Nat) /\ got[e] \in Seq(Nat)
  <1>1. link[e] \in LinkType /\ sent[e] \in Seq(Nat) /\ got[e] \in Seq(Nat)
    BY DEF StreamInv, StreamType
  <1> QED BY <1>1

\* Only the flags, or the state of a socket, change.
LEMMA WaysKept ==
    ASSUME Ways, sent' = sent, got' = got,
           \A x \in End : /\ SameSent(link'[x], link[x]) /\ SameRead(link'[x], link[x])
                          /\ Onward(link'[x], link[x])
                          /\ shut[x] => shut'[x]
                          /\ Lost(x) => Lost(x)'
    PROVE  Ways'
  <1> SUFFICES ASSUME NEW e \in End PROVE WayFrom(e)'
    BY DEF Ways
  <1>1. Other(e) \in End
    BY Ends2
  <1>2. Way(sent[e], shut[e], link[e], link[Other(e)], got[Other(e)], Lost(Other(e)))
    BY DEF Ways, WayFrom
  <1>3. Way(sent[e], shut'[e], link'[e], link'[Other(e)], got[Other(e)], Lost(Other(e))')
    BY <1>1, <1>2, WayKept
  <1> QED BY <1>3 DEF WayFrom

LEMMA FinsKept ==
    ASSUME Fins, UNCHANGED <<ack3, broken, drain>>,
           \A x \in End : link'[x].state = link[x].state /\ link'[x].finin = link[x].finin
    PROVE  Fins'
  <1>1. ASSUME ack3, ~ broken, NEW x \in End PROVE Fin(x)'
    BY <1>1, Ends2 DEF Fins, Fin
  <1> QED BY <1>1 DEF Fins

LEMMA Touched ==
    ASSUME StreamInv, NEW e \in End,
           link[e].app = "given" \/ link[e].state \notin Handshaking \cup NoSocket
    PROVE  ack3
  BY DEF StreamInv, Quiet, Untouched

LEMMA DialInv ==
    ASSUME StreamInv, Dial PROVE StreamInv'
  <1> USE DEF StreamInv
  <1>1. /\ link["client"].state = "None" /\ link["client"].app = "kept"
        /\ ~ ack3 /\ "client" \in End /\ Untouched("client") /\ Untouched("server")
    BY DEF Dial, Handshake, Quiet, End
  <1>2. CASE dial' = "err" /\ link' = link
    <2>1. /\ dial' = "err" /\ UNCHANGED <<link, ack3, sent, shut, gone, got, seen, drain, broken>>
          /\ dial = "none"
      BY <1>2 DEF Dial, users
    <2>2. StreamType' /\ Quiet' /\ Handshake' /\ Fins'
      BY <1>1, <2>1 DEF StreamType, Quiet, Untouched, Handshake, Fins
    <2>3. \A x \in End : Lost(x)' = Lost(x)
      BY <2>1 DEF Lost, Dropped
    <2>4. Ways'
      BY <2>1, <2>3, WaysKept DEF SameSent, SameRead, Onward
    <2>5. Pipes'
      BY <2>1, <2>3 DEF Pipes, Pipe
    <2> QED BY <2>2, <2>4, <2>5
  <1>3. CASE dial' = "waiting" /\ link' = [link EXCEPT !["client"] = Fresh("SynSent")]
    <2>1. /\ dial' = "waiting" /\ UNCHANGED <<ack3, sent, shut, gone, got, seen, drain, broken>>
          /\ dial = "none"
      BY <1>3 DEF Dial, users
    <2>2. <<>> \in Seq(Nat) /\ Len(<<>>) = 0 /\ Len(<<>>) <= Cap
      BY StreamAssumption DEF StreamAssumption
    <2>3. /\ link'["client"] = Fresh("SynSent") /\ link'["server"] = link["server"]
          /\ Fresh("SynSent") \in LinkType
      BY <1>3, <2>2 DEF StreamType, End, Fresh, LinkType, TcpState
    <2>4. StreamType'
      BY <1>3, <2>1, <2>3 DEF StreamType
    <2>5. Quiet' /\ Handshake' /\ Fins'
      BY <1>1, <2>1, <2>3 DEF Quiet, Untouched, Handshake, Fins, Fresh, End, Handshaking
    <2>6. ASSUME NEW x \in End PROVE WayFrom(x)'
      <3>1. Other(x) \in End /\ End = {"client", "server"}
        BY Ends2 DEF End
      <3>2. Untouched(x)' /\ Untouched(Other(x))'
        BY <1>1, <2>1, <2>5, <3>1 DEF Quiet
      <3> QED BY <3>2, WayFresh DEF WayFrom, Untouched, Handshaking, NoSocket, FinStates
    <2>7. ASSUME NEW x \in End PROVE Pipe(x)'
      BY <1>1, <2>1, <2>2, <2>3, <2>7
         DEF Pipes, Pipe, Lost, Dropped, End, Fresh, Handshaking, Untouched
    <2> QED BY <2>4, <2>5, <2>6, <2>7 DEF Ways, Pipes
  <1> QED BY <1>2, <1>3 DEF Dial

LEMMA CancelInv ==
    ASSUME StreamInv, Cancel PROVE StreamInv'
  <1> USE DEF StreamInv
  <1>1. /\ dial = "waiting" /\ dial' = "cancelled"
        /\ UNCHANGED <<link, ack3, sent, shut, gone, got, seen, drain, broken>>
        /\ link["client"].app = "kept"
    BY DEF Cancel, users, Handshake
  <1>2. StreamType' /\ Quiet' /\ Handshake' /\ Fins'
    BY <1>1 DEF StreamType, Quiet, Untouched, Handshake, Fins, Fin
  <1>3. \A x \in End : Lost(x)' = Lost(x)
    BY <1>1 DEF Lost, Dropped
  <1>4. Ways'
    BY <1>1, <1>3, WaysKept DEF SameSent, SameRead, Onward
  <1>5. Pipes'
    BY <1>1, <1>3 DEF Pipes, Pipe
  <1> QED BY <1>2, <1>4, <1>5

LEMMA SynArrivesInv ==
    ASSUME StreamInv, SynArrives PROVE StreamInv'
  <1> USE DEF StreamInv
  <1> DEFINE l == link["server"]
             l2 == IF l.state = "None" THEN Fresh("SynReceived")
                   ELSE [l EXCEPT !.state = "SynReceived"]
  <1>1. /\ link' = [link EXCEPT !["server"] = l2]
        /\ UNCHANGED <<ack3, dial, sent, shut, gone, got, seen, drain, broken>>
        /\ link["client"].state = "SynSent" /\ ~ ack3 /\ l.state \in {"None", "Listen"}
    BY DEF SynArrives, users, Handshake
  <1>2. Untouched("client") /\ Untouched("server") /\ l \in LinkType
    BY <1>1 DEF Quiet, End, StreamType
  <1>3. <<>> \in Seq(Nat) /\ Len(<<>>) = 0 /\ Len(<<>>) <= Cap
    BY StreamAssumption DEF StreamAssumption
  <1>4. /\ l2 \in LinkType /\ l2.state = "SynReceived" /\ l2.app = "kept"
        /\ l2.inb = <<>> /\ l2.tx = <<>> /\ l2.dlv = 0 /\ ~ l2.finin
        /\ l2.rx = <<>> /\ l2.outb = <<>>
    BY <1>1, <1>2, <1>3 DEF Untouched, Fresh, LinkType, TcpState
  <1>5. ~ l2.eof /\ ~ l2.read_closed
    BY <1>1, <1>2 DEF Pipes, Pipe, End, Fresh, LinkType, Handshaking
  <1>6. link'["server"] = l2 /\ link'["client"] = link["client"]
    BY <1>1 DEF StreamType, End
  <1> HIDE DEF l, l2
  <1>7. StreamType'
    BY <1>1, <1>4 DEF StreamType
  <1>8. Quiet' /\ Handshake' /\ Fins'
    BY <1>1, <1>2, <1>4, <1>6 DEF Quiet, Untouched, Handshake, Fins, End, Handshaking
  <1>9. ASSUME NEW x \in End PROVE WayFrom(x)'
    <2>1. Other(x) \in End
      BY Ends2
    <2>2. Untouched(x)' /\ Untouched(Other(x))'
      BY <1>1, <1>8, <2>1 DEF Quiet
    <2> QED BY <2>2, WayFresh DEF WayFrom, Untouched, Handshaking, NoSocket, FinStates
  <1>10. ASSUME NEW x \in End PROVE Pipe(x)'
    BY <1>1, <1>2, <1>3, <1>4, <1>5, <1>6, <1>10
       DEF Pipes, Pipe, Lost, Dropped, End, Handshaking, Untouched
  <1> QED BY <1>7, <1>8, <1>9, <1>10 DEF Ways, Pipes

LEMMA SynAckInv ==
    ASSUME StreamInv, SynAck PROVE StreamInv'
  <1> USE DEF StreamInv
  <1> DEFINE l == link["client"]
             l2 == [l EXCEPT !.state = "Established"]
  <1>1. /\ link' = [link EXCEPT !["client"] = l2] /\ ack3'
        /\ UNCHANGED <<dial, sent, shut, gone, got, seen, drain, broken>>
        /\ l.state = "SynSent" /\ link["server"].state = "SynReceived" /\ ~ ack3
    BY DEF SynAck, users, Handshake
  <1>2. Untouched("client") /\ Untouched("server") /\ l \in LinkType /\ End = {"client", "server"}
    BY <1>1 DEF Quiet, End, StreamType
  <1>3. /\ l2 \in LinkType /\ l2.state = "Established" /\ SameSent(l2, l) /\ SameRead(l2, l)
        /\ l2.eof = l.eof /\ l2.read_closed = l.read_closed /\ l2.app = l.app
    BY <1>2 DEF LinkType, TcpState, SameSent, SameRead
  <1>4. link'["client"] = l2 /\ link'["server"] = link["server"]
    BY <1>1, <1>2 DEF StreamType
  <1> HIDE DEF l2
  <1>5. StreamType' /\ Quiet'
    BY <1>1, <1>3 DEF StreamType, Quiet
  <1>6. Handshake'
    BY <1>1, <1>2, <1>3, <1>4 DEF Handshake, Untouched
  <1>7. Fins'
    BY <1>1, <1>2, <1>3, <1>4
       DEF Fins, Fin, Untouched, SameSent, Other, Ended
  <1>8. \A x \in End : /\ SameSent(link'[x], link[x]) /\ SameRead(link'[x], link[x])
                       /\ Onward(link'[x], link[x]) /\ Lost(x)' = Lost(x)
    BY <1>1, <1>2, <1>3, <1>4
       DEF SameSent, SameRead, Onward, Lost, Dropped, FinStates, NoSocket
  <1>9. Ways'
    BY <1>1, <1>8, WaysKept
  <1>10. ASSUME NEW x \in End PROVE Pipe(x)'
    BY <1>1, <1>2, <1>3, <1>4, <1>8, <1>10 DEF Pipes, Pipe, SameRead, Handshaking, Untouched
  <1> QED BY <1>5, <1>6, <1>7, <1>9, <1>10 DEF Pipes

LEMMA HandshakeAckInv ==
    ASSUME StreamInv, HandshakeAck PROVE StreamInv'
  <1> USE DEF StreamInv
  <1> DEFINE l == link["server"]
             l2 == [l EXCEPT !.state = "Established"]
  <1>1. /\ link' = [link EXCEPT !["server"] = l2] /\ ack3
        /\ UNCHANGED <<ack3, dial, sent, shut, gone, got, seen, drain, broken>>
        /\ l.state = "SynReceived"
    BY DEF HandshakeAck, Net, users
  <1>2. l \in LinkType /\ End = {"client", "server"}
    BY DEF End, StreamType
  <1>3. /\ l2 \in LinkType /\ l2.state = "Established" /\ SameSent(l2, l) /\ SameRead(l2, l)
        /\ l2.eof = l.eof /\ l2.read_closed = l.read_closed /\ l2.app = l.app
    BY <1>2 DEF LinkType, TcpState, SameSent, SameRead
  <1>4. link'["server"] = l2 /\ link'["client"] = link["client"]
    BY <1>1, <1>2 DEF StreamType
  <1> HIDE DEF l2
  <1>5. StreamType' /\ Quiet'
    BY <1>1, <1>3 DEF StreamType, Quiet
  <1>6. Handshake'
    BY <1>1, <1>3, <1>4 DEF Handshake
  <1>7. Fins'
    BY <1>1, <1>2, <1>3, <1>4
       DEF Fins, Fin, SameSent, Other, Ended
  <1>8. \A x \in End : /\ SameSent(link'[x], link[x]) /\ SameRead(link'[x], link[x])
                       /\ Onward(link'[x], link[x]) /\ Lost(x)' = Lost(x)
    BY <1>1, <1>2, <1>3, <1>4
       DEF SameSent, SameRead, Onward, Lost, Dropped, FinStates, NoSocket
  <1>9. Ways'
    BY <1>1, <1>8, WaysKept
  <1>10. ASSUME NEW x \in End PROVE Pipe(x)'
    BY <1>1, <1>2, <1>3, <1>4, <1>8, <1>10 DEF Pipes, Pipe, SameRead, Handshaking
  <1> QED BY <1>5, <1>6, <1>7, <1>9, <1>10 DEF Pipes

LEMMA AgeInv ==
    ASSUME StreamInv, NEW e \in End, Age(e) PROVE StreamInv'
  <1> USE DEF StreamInv
  <1>1. /\ link' = [link EXCEPT ![e] = [link[e] EXCEPT !.old = TRUE]]
        /\ UNCHANGED <<ack3, dial, sent, shut, gone, got, seen, drain, broken>>
    BY DEF Age, users
  <1>2. /\ [link[e] EXCEPT !.old = TRUE] \in LinkType /\ "client" \in End /\ "server" \in End
    BY DEF StreamType, LinkType, End
  <1>3. ASSUME NEW x \in End
        PROVE  /\ SameSent(link'[x], link[x]) /\ SameRead(link'[x], link[x])
               /\ link'[x].state = link[x].state /\ link'[x].app = link[x].app
               /\ link'[x].eof = link[x].eof /\ link'[x].read_closed = link[x].read_closed
    BY <1>1, <1>2 DEF StreamType, LinkType, SameSent, SameRead
  <1>4. StreamType'
    BY <1>1, <1>2 DEF StreamType
  <1>5. Quiet' /\ Handshake'
    BY <1>1, <1>2, <1>3 DEF Quiet, Untouched, Handshake, SameSent, SameRead
  <1>6. ASSUME NEW x \in End, ack3, ~ broken PROVE Fin(x)'
    BY <1>1, <1>3, <1>6, Ends2 DEF Fins, Fin, SameSent
  <1>7. \A x \in End : Lost(x)' = Lost(x) /\ Onward(link'[x], link[x])
    BY <1>1, <1>3 DEF Lost, Dropped, Onward
  <1>8. Ways'
    BY <1>1, <1>3, <1>7, WaysKept
  <1>9. ASSUME NEW x \in End PROVE Pipe(x)'
    BY <1>1, <1>3, <1>7, <1>9 DEF Pipes, Pipe, SameRead
  <1> QED BY <1>1, <1>4, <1>5, <1>6, <1>8, <1>9 DEF Pipes, Fins

\* A step of an application that leaves the links and the bytes alone.
LEMMA UserInv ==
    ASSUME StreamInv, NEW e \in End, link[e].app = "given",
           UNCHANGED <<link, ack3, dial, sent, got, broken>>,
           StreamType', Pipes',
           \A x \in End : (shut[x] => shut'[x]) /\ (gone[x] => gone'[x]),
           \A x \in End : drain'[x] = "done" /\ drain[x] # "done" /\ ~ broken => link[x].finin
    PROVE  StreamInv'
  <1> USE DEF StreamInv
  <1>1. ack3
    BY Touched
  <1>2. Quiet' /\ Handshake'
    BY <1>1 DEF Quiet, Handshake
  <1>3. \A x \in End : Lost(x) => Lost(x)'
    BY DEF Lost, Dropped
  <1>4. Ways'
    BY <1>3, WaysKept DEF SameSent, SameRead, Onward
  <1>5. Fins'
    BY <1>1 DEF Fins, Fin
  <1> QED BY <1>2, <1>4, <1>5

LEMMA ShutdownInv ==
    ASSUME StreamInv, NEW e \in End, Shutdown(e) PROVE StreamInv'
  <1>1. /\ shut' = [shut EXCEPT ![e] = TRUE] /\ link[e].app = "given"
        /\ UNCHANGED <<link, ack3, dial, sent, gone, got, seen, drain, broken>>
    BY DEF Shutdown, Holds
  <1>2. StreamType' /\ \A x \in End : shut[x] => shut'[x]
    BY <1>1 DEF StreamInv, StreamType
  <1>3. Pipes'
    BY <1>1, <1>2 DEF StreamInv, Pipes, Pipe, Lost, Dropped
  <1> QED BY <1>1, <1>2, <1>3, UserInv

LEMMA ReadEofInv ==
    ASSUME StreamInv, NEW e \in End, ReadEof(e) PROVE StreamInv'
  <1>1. /\ seen' = [seen EXCEPT ![e] = TRUE] /\ link[e].app = "given"
        /\ link[e].outb = <<>> /\ link[e].eof
        /\ UNCHANGED <<link, ack3, dial, sent, shut, gone, got, drain, broken>>
    BY DEF ReadEof, Holds
  <1>2. StreamType' /\ \A x \in End : x # e => seen'[x] = seen[x]
    BY <1>1 DEF StreamInv, StreamType
  <1>3. Pipes'
    BY <1>1, <1>2 DEF StreamInv, Pipes, Pipe, Lost, Dropped
  <1> QED BY <1>1, <1>2, <1>3, UserInv

LEMMA DropInv ==
    ASSUME StreamInv, NEW e \in End, Drop(e) PROVE StreamInv'
  <1>1. /\ shut' = [shut EXCEPT ![e] = TRUE] /\ gone' = [gone EXCEPT ![e] = TRUE]
        /\ link[e].app = "given"
        /\ UNCHANGED <<link, ack3, dial, sent, got, seen, drain, broken>>
    BY DEF Drop, Holds
  <1>2. /\ StreamType' /\ gone'[e] /\ shut'[e]
        /\ \A x \in End : /\ shut[x] => shut'[x]
                          /\ gone[x] => gone'[x]
                          /\ x # e => gone'[x] = gone[x]
    BY <1>1 DEF StreamInv, StreamType
  <1>3. \A x \in End : Lost(x) => Lost(x)'
    BY <1>1, <1>2 DEF Lost, Dropped
  <1>4. Pipes'
    BY <1>1, <1>2, <1>3 DEF StreamInv, Pipes, Pipe
  <1> QED BY <1>1, <1>2, <1>4, UserInv

LEMMA DrainInv ==
    ASSUME StreamInv, NEW e \in End, Drain(e) PROVE StreamInv'
  <1>1. /\ drain' = [drain EXCEPT ![e] = "waiting"] /\ link[e].app = "given"
        /\ UNCHANGED <<link, ack3, dial, sent, shut, gone, got, seen, broken>>
    BY DEF Drain
  <1>2. StreamType' /\ \A x \in End : drain'[x] = IF x = e THEN "waiting" ELSE drain[x]
    BY <1>1 DEF StreamInv, StreamType
  <1>3. Pipes'
    BY <1>1, <1>2 DEF StreamInv, Pipes, Pipe, Lost, Dropped
  <1> QED BY <1>1, <1>2, <1>3, UserInv

\* A drain is answered in a state that comes after the FIN was acknowledged.
LEMMA AnswerDrainInv ==
    ASSUME StreamInv, NEW e \in End, AnswerDrain(e) PROVE StreamInv'
  <1>1. /\ drain' = [drain EXCEPT ![e] = "done"] /\ drain[e] = "waiting" /\ Drained(link[e])
        /\ UNCHANGED <<link, ack3, dial, sent, shut, gone, got, seen, broken>>
    BY DEF AnswerDrain
  <1>2. link[e].app = "given"
    BY <1>1 DEF StreamInv, Pipes, Pipe
  <1>3. StreamType' /\ \A x \in End : drain'[x] = IF x = e THEN "done" ELSE drain[x]
    BY <1>1 DEF StreamInv, StreamType
  <1>4. ~ broken => link[e].finin
    BY <1>1, <1>2, Touched DEF StreamInv, Fins, Fin, Drained
  <1>5. Pipes'
    BY <1>1, <1>2, <1>3 DEF StreamInv, Pipes, Pipe, Lost, Dropped
  <1> QED BY <1>1, <1>2, <1>3, <1>4, <1>5, UserInv

LEMMA WriteInv ==
    ASSUME StreamInv, NEW e \in End, Write(e) PROVE StreamInv'
  <1> USE DEF StreamInv
  <1> DEFINE l == link[e]
             b == Len(sent[e]) + 1
             l2 == [l EXCEPT !.inb = Append(@, b)]
             o == Other(e)
  <1>1. /\ link' = [link EXCEPT ![e] = l2] /\ sent' = [sent EXCEPT ![e] = Append(@, b)]
        /\ l.app = "given" /\ ~ shut[e]
        /\ UNCHANGED <<ack3, dial, shut, gone, got, seen, drain, broken>>
    BY DEF Write, Holds
  <1>2. /\ l \in LinkType /\ sent[e] \in Seq(Nat) /\ Len(sent[e]) \in Nat /\ Len(got[e]) \in Nat
        /\ o \in End /\ o # e /\ Other(o) = e /\ End = {e, o} /\ link[o] \in LinkType
        /\ Len(got[o]) \in Nat
    BY LinkAt, Ends2
  <1>3. b \in Nat /\ Append(l.inb, b) \in Seq(Nat)
    <2>1. b \in Nat /\ l.inb \in Seq(Nat)
      BY <1>2, LinkParts
    <2> QED BY <2>1
  <1>4. /\ l2 \in LinkType /\ l2.state = l.state /\ l2.tx = l.tx /\ l2.dlv = l.dlv
        /\ l2.finin = l.finin /\ l2.inb = Append(l.inb, b) /\ SameRead(l2, l)
        /\ l2.eof = l.eof /\ l2.read_closed = l.read_closed /\ l2.app = l.app
    BY <1>2, <1>3 DEF LinkType, SameRead
  <1>5. /\ link'[e] = l2 /\ link'[o] = link[o] /\ sent'[e] = Append(sent[e], b)
        /\ sent'[o] = sent[o]
    BY <1>1, <1>2 DEF StreamType
  <1>6. ack3
    BY <1>1, Touched
  <1> HIDE DEF l2, b, o
  <1>7. StreamType' /\ Quiet'
    BY <1>1, <1>2, <1>3, <1>4, <1>6 DEF StreamType, Quiet
  <1>8. \A x \in End : link'[x].state = link[x].state /\ link'[x].app = link[x].app
    BY <1>2, <1>4, <1>5
  <1>9. Handshake'
    BY <1>1, <1>8 DEF Handshake, End
  <1>10. \A x \in End : Lost(x)' = Lost(x)
    BY <1>1, <1>8 DEF Lost, Dropped
  <1>11. WayFrom(e)'
    <2>1. Way(sent[e], shut[e], l, link[o], got[o], Lost(o))
      BY <1>2 DEF Ways, WayFrom, o
    <2>2. SameRead(link[o], link[o]) /\ b = Len(sent[e]) + 1
      BY DEF SameRead, b
    <2>3. Way(Append(sent[e], b), shut[e], l2, link[o], got[o], Lost(o))
      BY <1>1, <1>2, <1>4, <2>1, <2>2, WayWritten
    <2> QED BY <1>1, <1>2, <1>5, <1>10, <2>3 DEF WayFrom, o
  <1>12. WayFrom(o)'
    <2>1. Way(sent[o], shut[o], link[o], l, got[e], Lost(e))
      BY <1>2 DEF Ways, WayFrom
    <2>2. Way(sent[o], shut[o], link[o], l2, got[e], Lost(e))
      BY <1>4, <2>1, WayKept DEF SameSent, Onward
    <2> QED BY <1>1, <1>2, <1>5, <1>10, <2>2 DEF WayFrom
  <1>13. Fins'
    BY <1>1, <1>2, <1>4, <1>5 DEF Fins, Fin
  <1>14. ASSUME NEW x \in End PROVE Pipe(x)'
    BY <1>1, <1>2, <1>4, <1>5, <1>10, <1>14 DEF Pipes, Pipe, SameRead
  <1> QED BY <1>2, <1>7, <1>9, <1>11, <1>12, <1>13, <1>14 DEF Ways, Pipes

LEMMA ReadInv ==
    ASSUME StreamInv, NEW e \in End, Read(e)
    PROVE  /\ StreamInv'
           /\ Head(link[e].outb) = Len(got[e]) + 1 /\ Len(got[e]) < Len(sent[Other(e)])
  <1> USE DEF StreamInv
  <1> DEFINE l == link[e]
             l2 == [l EXCEPT !.outb = Tail(@)]
             b == Head(l.outb)
             o == Other(e)
  <1>1. /\ link' = [link EXCEPT ![e] = l2] /\ got' = [got EXCEPT ![e] = Append(@, b)]
        /\ l.app = "given" /\ ~ Dropped(e) /\ l.outb # <<>>
        /\ UNCHANGED <<ack3, dial, sent, shut, gone, seen, drain, broken>>
    BY DEF Read, Holds
  <1>2. /\ l \in LinkType /\ got[e] \in Seq(Nat) /\ Len(sent[o]) \in Nat /\ Len(got[e]) \in Nat
        /\ o \in End /\ o # e /\ Other(o) = e /\ End = {e, o} /\ link[o] \in LinkType
        /\ Len(got[o]) \in Nat
    BY LinkAt, Ends2
  <1>3. l.outb \in Seq(Nat)
    BY <1>2, LinkParts
  <1>4. Tail(l.outb) \in Seq(Nat) /\ b \in Nat /\ Len(Tail(l.outb)) <= Len(l.outb)
    BY <1>1, <1>3
  <1>5. /\ l2 \in LinkType /\ l2.state = l.state /\ SameSent(l2, l)
        /\ l2.rx = l.rx /\ l2.outb = Tail(l.outb)
        /\ l2.eof = l.eof /\ l2.read_closed = l.read_closed /\ l2.app = l.app
    BY <1>2, <1>4 DEF LinkType, SameSent
  <1>6. /\ link'[e] = l2 /\ link'[o] = link[o] /\ got'[e] = Append(got[e], b)
        /\ got'[o] = got[o]
    BY <1>1, <1>2 DEF StreamType
  <1>7. ack3
    BY <1>1, Touched
  <1> HIDE DEF l2, b, o
  <1>8. StreamType' /\ Quiet'
    BY <1>1, <1>2, <1>4, <1>5, <1>7 DEF StreamType, Quiet
  <1>9. \A x \in End : link'[x].state = link[x].state /\ link'[x].app = link[x].app
    BY <1>2, <1>5, <1>6
  <1>10. Handshake'
    BY <1>1, <1>9 DEF Handshake, End
  <1>11. (\A x \in End : Lost(x)' = Lost(x)) /\ ~ Lost(e)
    BY <1>1, <1>9 DEF Lost, Dropped
  <1>12. WayFrom(e)'
    <2>1. Way(sent[e], shut[e], l, link[o], got[o], Lost(o))
      BY <1>2 DEF Ways, WayFrom, o
    <2>2. Way(sent[e], shut[e], l2, link[o], got[o], Lost(o))
      BY <1>5, <2>1, WayKept DEF SameRead, Onward
    <2> QED BY <1>1, <1>2, <1>6, <1>11, <2>2 DEF WayFrom, o
  <1>13. WayFrom(o)' /\ b = Len(got[e]) + 1 /\ Len(got[e]) < Len(sent[o])
    <2>1. Way(sent[o], shut[o], link[o], l, got[e], Lost(e))
      BY <1>2, <1>11 DEF Ways, WayFrom
    <2>2. /\ Way(sent[o], shut[o], link[o], l2, got'[e], Lost(e))
          /\ b = Len(got[e]) + 1 /\ Len(got[e]) < Len(sent[o])
      BY <1>1, <1>2, <1>5, <1>6, <1>11, <2>1, WayRead DEF b
    <2> QED BY <1>1, <1>2, <1>6, <1>11, <2>2 DEF WayFrom
  <1>14. Fins'
    BY <1>1, <1>2, <1>5, <1>6 DEF Fins, Fin, SameSent
  <1>15. ASSUME NEW x \in End PROVE Pipe(x)'
    <2>1. CASE x = e
      <3>1. Pipe(e) /\ Len(l2.outb) <= Cap
        <4>1. Len(l.outb) <= Cap /\ Len(l.outb) \in Nat /\ Len(l2.outb) \in Nat /\ Cap \in Nat
          BY <1>2, <1>5, Lengths, StreamAssumption DEF Pipes, Pipe, StreamAssumption
        <4> QED BY <1>4, <1>5, <4>1 DEF Pipes
      <3> QED BY <1>1, <1>5, <1>6, <1>11, <2>1, <3>1 DEF Pipe
    <2>2. CASE x = o
      BY <1>1, <1>2, <1>6, <1>11, <2>2 DEF Pipes, Pipe
    <2> QED BY <1>2, <2>1, <2>2
  <1> QED BY <1>2, <1>8, <1>10, <1>12, <1>13, <1>14, <1>15 DEF Ways, Pipes, b, o

\* A socket closes, or falls back to listening.
LEMMA StateInv ==
    ASSUME StreamInv, NEW e \in End, NEW S, link[e].state # "None",
           S = "Closed" \/ (S = "Listen" /\ link[e].state = "SynReceived"),
           link' = [link EXCEPT ![e] = [link[e] EXCEPT !.state = S]],
           UNCHANGED <<ack3, dial, sent, shut, gone, got, seen, drain>>,
           broken' \in BOOLEAN, broken => broken',
           ack3 /\ ~ broken' => S = "Closed" /\ link[e].finin /\ link[Other(e)].finin
    PROVE  StreamInv'
  <1> USE DEF StreamInv
  <1> DEFINE l == link[e]
             l2 == [l EXCEPT !.state = S]
             o == Other(e)
  <1>1. l \in LinkType /\ o \in End /\ o # e /\ Other(o) = e /\ End = {e, o}
    BY LinkAt, Ends2
  <1>2. /\ l2 \in LinkType /\ l2.state = S /\ SameSent(l2, l) /\ SameRead(l2, l)
        /\ l2.eof = l.eof /\ l2.read_closed = l.read_closed /\ l2.app = l.app
    BY <1>1 DEF LinkType, TcpState, SameSent, SameRead
  <1>3. link'[e] = l2 /\ link'[o] = link[o]
    BY <1>1 DEF StreamType
  <1> HIDE DEF l2, o
  <1>4. StreamType'
    BY <1>2 DEF StreamType, l2
  <1>5. Quiet'
    BY <1>1, <1>2, <1>3 DEF Quiet, Untouched, SameSent, SameRead, Handshaking, NoSocket
  <1>6. Handshake'
    <2>1. CASE e = "client"
      <3>1. o = "server"
        BY <1>1, <2>1 DEF End
      <3> QED BY <1>2, <1>3, <2>1, <3>1 DEF Handshake, NoSocket
    <2>2. CASE e = "server"
      <3>1. o = "client"
        BY <1>1, <2>2 DEF End
      <3> QED BY <1>2, <1>3, <2>2, <3>1 DEF Handshake, NoSocket
    <2> QED BY <2>1, <2>2 DEF End
  <1>7. \A x \in End : /\ SameSent(link'[x], link[x]) /\ SameRead(link'[x], link[x])
                       /\ Onward(link'[x], link[x]) /\ Lost(x)' = Lost(x)
    BY <1>1, <1>2, <1>3 DEF SameSent, SameRead, Onward, Lost, Dropped, FinStates, NoSocket
  <1>8. Ways'
    BY <1>7, WaysKept
  <1>9. ASSUME NEW x \in End PROVE Pipe(x)'
    BY <1>1, <1>2, <1>3, <1>7, <1>9 DEF Pipes, Pipe, SameRead, Handshaking, Ended
  <1>10. ASSUME ack3, ~ broken', NEW x \in End PROVE Fin(x)'
    BY <1>1, <1>2, <1>3, <1>10 DEF Fins, Fin, SameSent, Ended, o
  <1> QED BY <1>4, <1>5, <1>6, <1>8, <1>9, <1>10 DEF Pipes, Fins

LEMMA TimeWaitOverInv ==
    ASSUME StreamInv, NEW e \in End, TimeWaitOver(e) PROVE StreamInv'
  <1>1. /\ link[e].state = "TimeWait"
        /\ link' = [link EXCEPT ![e] = [link[e] EXCEPT !.state = "Closed"]]
        /\ UNCHANGED <<ack3, dial, sent, shut, gone, got, seen, drain, broken>>
    BY DEF TimeWaitOver, Net, users
  <1>2. broken' \in BOOLEAN
    BY <1>1 DEF StreamInv, StreamType
  <1>3. ack3 /\ ~ broken' => link[e].finin /\ link[Other(e)].finin
    BY <1>1 DEF StreamInv, Fins, Fin, Ended
  <1> QED BY <1>1, <1>2, <1>3, StateInv

LEMMA TimeoutInv ==
    ASSUME StreamInv, NEW e \in End, Timeout(e) PROVE StreamInv'
  <1>1. /\ link[e].state # "None" /\ broken'
        /\ link' = [link EXCEPT ![e] = [link[e] EXCEPT !.state = "Closed"]]
        /\ UNCHANGED <<ack3, dial, sent, shut, gone, got, seen, drain>>
    BY DEF Timeout, users, Sending, FinSent
  <1>2. broken' \in BOOLEAN
    BY <1>1 DEF Timeout
  <1> QED BY <1>1, <1>2, StateInv

LEMMA ResetInv ==
    ASSUME StreamInv, NEW e \in End, Reset(e) PROVE StreamInv'
  <1> DEFINE S == IF link[e].state = "SynReceived" THEN "Listen" ELSE "Closed"
             o == Other(e)
  <1>1. /\ link' = [link EXCEPT ![e] = [link[e] EXCEPT !.state = S]]
        /\ UNCHANGED <<ack3, dial, sent, shut, gone, got, seen, drain, broken>>
    BY DEF Reset, Net, users
  <1>2. link[e].state # "None" /\ o \in End /\ Other(o) = e
    BY Ends2 DEF Reset, Sending, FinSent
  <1>3. broken' \in BOOLEAN
    BY <1>1 DEF StreamInv, StreamType
  <1>4. ASSUME ack3, ~ broken PROVE S = "Closed" /\ link[e].finin /\ link[o].finin
    <2>1. Fin(e) /\ Fin(o)
      BY <1>2, <1>4 DEF StreamInv, Fins
    <2>2. link[o].state \in {"None", "Closed"}
      BY <1>2, <2>1 DEF Reset, Fin
    <2>3. link[o].finin /\ link[e].finin
      BY <1>2, <2>1, <2>2 DEF Fin, Ended
    <2> QED BY <2>1, <2>3 DEF Fin
  <1> HIDE DEF S, o
  <1>5. S = "Closed" \/ (S = "Listen" /\ link[e].state = "SynReceived")
    BY DEF S
  <1> QED BY <1>1, <1>2, <1>3, <1>4, <1>5, StateInv DEF o

LEMMA DeliverInv ==
    ASSUME StreamInv, NEW e \in End, Deliver(e) PROVE StreamInv'
  <1> USE DEF StreamInv
  <1> DEFINE l == link[e]
             o == Other(e)
             r == link[o]
             b == l.tx[l.dlv + 1]
             l2 == [l EXCEPT !.dlv = @ + 1]
             r2 == [r EXCEPT !.rx = Append(@, b)]
  <1>1. /\ l.state \in FinStates \cup {"Established", "CloseWait"} /\ l.dlv < Len(l.tx)
        /\ r.state \in {"Established", "FinWait1", "FinWait2"}
        /\ UNCHANGED <<ack3, dial, sent, shut, gone, got, seen, drain, broken>>
    BY DEF Deliver, Net, users, FinSent, FinStates
  <1>2. /\ l \in LinkType /\ r \in LinkType /\ Len(sent[e]) \in Nat /\ Len(got[e]) \in Nat
        /\ o \in End /\ o # e /\ Other(o) = e /\ End = {e, o} /\ Len(got[o]) \in Nat
    BY LinkAt, Ends2
  <1>3. l.dlv + 1 \in Nat /\ b \in Nat
    <2>1. PICK s, d : s = l.tx /\ d = l.dlv
      OBVIOUS
    <2>2. s \in Seq(Nat) /\ d \in Nat /\ d < Len(s)
      BY <1>1, <1>2, <2>1, LinkParts
    <2>3. d + 1 \in 1 .. Len(s)
      BY <2>2
    <2> QED BY <2>1, <2>2, <2>3
  <1>4. Append(r.rx, b) \in Seq(Nat)
    <2>1. r.rx \in Seq(Nat)
      BY <1>2, LinkParts
    <2> QED BY <1>3, <2>1
  <1>5. /\ l2 \in LinkType /\ l2.state = l.state /\ l2.inb = l.inb /\ l2.tx = l.tx
        /\ l2.dlv = l.dlv + 1 /\ l2.finin = l.finin /\ SameRead(l2, l)
        /\ l2.eof = l.eof /\ l2.read_closed = l.read_closed /\ l2.app = l.app
    BY <1>2, <1>3 DEF LinkType, SameRead
  <1>6. /\ r2 \in LinkType /\ r2.state = r.state /\ SameSent(r2, r) /\ r2.outb = r.outb
        /\ r2.rx = Append(r.rx, b)
        /\ r2.eof = r.eof /\ r2.read_closed = r.read_closed /\ r2.app = r.app
    BY <1>2, <1>4 DEF LinkType, SameSent
  <1>7. link' = [[link EXCEPT ![o] = r2] EXCEPT ![e] = l2]
    <2>1. link' = [link EXCEPT ![o].rx = Append(@, b), ![e].dlv = @ + 1]
      BY DEF Deliver, Net
    <2> QED BY <1>2, <2>1 DEF StreamType
  <1>8. link'[e] = l2 /\ link'[o] = r2
    BY <1>2, <1>7 DEF StreamType
  <1>9. ack3
    BY <1>1, Touched DEF Handshaking, NoSocket, FinStates
  <1> HIDE DEF l2, r2, b, o
  <1>10. StreamType' /\ Quiet'
    BY <1>1, <1>2, <1>5, <1>6, <1>7, <1>9 DEF StreamType, Quiet
  <1>11. \A x \in End : /\ link'[x].state = link[x].state /\ link'[x].app = link[x].app
                        /\ link'[x].finin = link[x].finin
    BY <1>2, <1>5, <1>6, <1>8 DEF SameSent
  <1>12. Handshake'
    BY <1>1, <1>11 DEF Handshake, End
  <1>13. \A x \in End : Lost(x)' = Lost(x)
    BY <1>1, <1>11 DEF Lost, Dropped
  <1>14. WayFrom(e)'
    <2>1. Way(sent[e], shut[e], l, r, got[o], Lost(o)) /\ l.state \notin NoSocket
      BY <1>1, <1>2 DEF Ways, WayFrom, o, NoSocket, FinStates
    <2>2. r2.rx = Append(r.rx, l.tx[l.dlv + 1])
      BY <1>6 DEF b
    <2>3. Way(sent[e], shut[e], l2, r2, got[o], Lost(o))
      BY <1>1, <1>2, <1>5, <1>6, <2>1, <2>2, WayDelivered
    <2> QED BY <1>1, <1>2, <1>8, <1>13, <2>3 DEF WayFrom, o
  <1>15. WayFrom(o)'
    <2>1. Way(sent[o], shut[o], r, l, got[e], Lost(e))
      BY <1>2 DEF Ways, WayFrom
    <2>2. Onward(r2, r)
      BY <1>6 DEF Onward
    <2>3. Way(sent[o], shut[o], r2, l2, got[e], Lost(e))
      BY <1>5, <1>6, <2>1, <2>2, WayKept
    <2> QED BY <1>1, <1>2, <1>8, <1>13, <2>3 DEF WayFrom
  <1>16. Fins'
    BY <1>1, <1>11, FinsKept
  <1>17. ASSUME NEW x \in End PROVE Pipe(x)'
    <2>1. CASE x = e
      BY <1>1, <1>2, <1>5, <1>8, <1>13, <2>1 DEF Pipes, Pipe, SameRead
    <2>2. CASE x = o
      BY <1>1, <1>2, <1>6, <1>8, <1>13, <2>2 DEF Pipes, Pipe, Ended
    <2> QED BY <1>2, <2>1, <2>2
  <1> QED BY <1>2, <1>10, <1>12, <1>14, <1>15, <1>16, <1>17 DEF Ways, Pipes

LEMMA AckInv ==
    ASSUME StreamInv, NEW e \in End, Ack(e) PROVE StreamInv'
  <1> USE DEF StreamInv
  <1> DEFINE l == link[e]
             o == Other(e)
             y == Rest(l.tx, l.dlv)
             l2 == [l EXCEPT !.tx = y, !.dlv = 0]
  <1>1. /\ l.dlv > 0
        /\ UNCHANGED <<ack3, dial, sent, shut, gone, got, seen, drain, broken>>
    BY DEF Ack, Net, users
  <1>2. /\ l \in LinkType /\ Len(sent[e]) \in Nat /\ Len(got[e]) \in Nat
        /\ o \in End /\ o # e /\ Other(o) = e /\ End = {e, o} /\ Len(got[o]) \in Nat
        /\ link[o] \in LinkType
    BY LinkAt, Ends2
  <1>3. y \in Seq(Nat)
    <2>1. PICK s \in Seq(Nat), d \in Nat : s = l.tx /\ d = l.dlv
      BY <1>2, LinkParts
    <2>2. Rest(s, d) \in Seq(Nat)
      BY <2>1 DEF Rest
    <2> QED BY <2>1, <2>2
  <1>4. ack3
    <2>1. l.dlv # 0
      BY <1>1, <1>2, LinkParts
    <2> QED BY <2>1 DEF Quiet, Untouched
  <1>5. link' = [link EXCEPT ![e] = l2]
    BY DEF Ack, Net, StreamType
  <1> HIDE DEF y
  <1>6. /\ l2 \in LinkType /\ l2.state = l.state /\ l2.inb = l.inb /\ l2.tx = y
        /\ l2.dlv = 0 /\ l2.finin = l.finin /\ SameRead(l2, l)
        /\ l2.eof = l.eof /\ l2.read_closed = l.read_closed /\ l2.app = l.app
    BY <1>2, <1>3 DEF LinkType, SameRead
  <1>7. link'[e] = l2 /\ link'[o] = link[o]
    BY <1>2, <1>5 DEF StreamType
  <1> HIDE DEF l2, o
  <1>8. StreamType' /\ Quiet'
    BY <1>1, <1>2, <1>4, <1>6, <1>5 DEF StreamType, Quiet
  <1>9. \A x \in End : /\ link'[x].state = link[x].state /\ link'[x].app = link[x].app
                       /\ link'[x].finin = link[x].finin
    BY <1>2, <1>6, <1>7
  <1>10. Handshake'
    BY <1>1, <1>9 DEF Handshake, End
  <1>11. \A x \in End : Lost(x)' = Lost(x)
    BY <1>1, <1>9 DEF Lost, Dropped
  <1>12. WayFrom(e)'
    <2>1. Way(sent[e], shut[e], l, link[o], got[o], Lost(o))
      BY <1>2 DEF Ways, WayFrom, o
    <2>2. l2.tx = Rest(l.tx, l.dlv)
      BY <1>6 DEF y
    <2>3. Way(sent[e], shut[e], l2, link[o], got[o], Lost(o))
      BY <1>2, <1>6, <2>1, <2>2, WayAcked
    <2> QED BY <1>1, <1>2, <1>7, <1>11, <2>3 DEF WayFrom, o
  <1>13. WayFrom(o)'
    <2>1. Way(sent[o], shut[o], link[o], l, got[e], Lost(e))
      BY <1>2 DEF Ways, WayFrom
    <2>2. SameSent(link[o], link[o]) /\ Onward(link[o], link[o])
      BY DEF SameSent, Onward
    <2>3. Way(sent[o], shut[o], link[o], l2, got[e], Lost(e))
      BY <1>6, <2>1, <2>2, WayKept
    <2> QED BY <1>1, <1>2, <1>7, <1>11, <2>3 DEF WayFrom
  <1>14. Fins'
    BY <1>1, <1>9, FinsKept
  <1>15. ASSUME NEW x \in End PROVE Pipe(x)'
    BY <1>1, <1>2, <1>6, <1>7, <1>11, <1>15 DEF Pipes, Pipe, SameRead
  <1> QED BY <1>2, <1>8, <1>10, <1>12, <1>13, <1>14, <1>15 DEF Ways, Pipes

LEMMA DeliverFinInv ==
    ASSUME StreamInv, NEW e \in End, DeliverFin(e) PROVE StreamInv'
  <1> USE DEF StreamInv
  <1> DEFINE l == link[e]
             o == Other(e)
             r == link[o]
             S == CASE r.state = "Established" -> "CloseWait"
                    [] r.state = "FinWait1" -> "Closing"
                    [] r.state = "FinWait2" -> "TimeWait"
             l2 == [l EXCEPT !.finin = TRUE]
             r2 == [r EXCEPT !.state = S]
  <1>1. /\ l.state \in FinStates /\ l.dlv = Len(l.tx) /\ ~ l.finin
        /\ r.state \in {"Established", "FinWait1", "FinWait2"}
        /\ UNCHANGED <<ack3, dial, sent, shut, gone, got, seen, drain, broken>>
    BY DEF DeliverFin, Net, users, FinSent, FinStates
  <1>2. /\ l \in LinkType /\ r \in LinkType /\ Len(sent[e]) \in Nat /\ Len(got[e]) \in Nat
        /\ o \in End /\ o # e /\ Other(o) = e /\ End = {e, o} /\ Len(got[o]) \in Nat
    BY LinkAt, Ends2
  <1>3. /\ r.state = "Established" => S = "CloseWait"
        /\ r.state = "FinWait1" => S = "Closing"
        /\ r.state = "FinWait2" => S = "TimeWait"
    OBVIOUS
  <1>4. link' = [[link EXCEPT ![e] = l2] EXCEPT ![o] = r2]
    <2>1. link' = [link EXCEPT ![e].finin = TRUE, ![o].state = S]
      BY <1>2 DEF DeliverFin, Net, StreamType
    <2> QED BY <1>2, <2>1 DEF StreamType
  <1> HIDE DEF S
  <1>5. S \in {"CloseWait", "Closing", "TimeWait"}
    BY <1>1, <1>3
  <1>6. /\ l2 \in LinkType /\ l2.state = l.state /\ l2.inb = l.inb /\ l2.tx = l.tx
        /\ l2.dlv = l.dlv /\ l2.finin = TRUE /\ SameRead(l2, l)
        /\ l2.eof = l.eof /\ l2.read_closed = l.read_closed /\ l2.app = l.app
    BY <1>2 DEF LinkType, SameRead
  <1>7. /\ r2 \in LinkType /\ r2.state = S /\ SameSent(r2, r) /\ SameRead(r2, r)
        /\ r2.eof = r.eof /\ r2.read_closed = r.read_closed /\ r2.app = r.app
        /\ r2.finin = r.finin
    BY <1>2, <1>5 DEF LinkType, TcpState, SameSent, SameRead
  <1>8. link'[e] = l2 /\ link'[o] = r2
    BY <1>2, <1>4 DEF StreamType
  <1>9. ack3
    BY <1>1, Touched DEF Handshaking, NoSocket, FinStates
  <1> HIDE DEF l2, r2, o
  <1>10. StreamType' /\ Quiet'
    BY <1>1, <1>2, <1>4, <1>6, <1>7, <1>9 DEF StreamType, Quiet
  <1>11. Handshake'
    <2>1. CASE e = "client"
      <3>1. o = "server"
        BY <1>2, <2>1 DEF End
      <3> QED BY <1>1, <1>5, <1>6, <1>7, <1>8, <2>1, <3>1 DEF Handshake, NoSocket
    <2>2. CASE e = "server"
      <3>1. o = "client"
        BY <1>2, <2>2 DEF End
      <3> QED BY <1>1, <1>5, <1>6, <1>7, <1>8, <2>2, <3>1 DEF Handshake, NoSocket
    <2> QED BY <2>1, <2>2 DEF End
  <1>12. \A x \in End : Lost(x)' = Lost(x)
    BY <1>1, <1>2, <1>6, <1>7, <1>8 DEF Lost, Dropped
  <1>13. WayFrom(e)'
    <2>1. Way(sent[e], shut[e], l, r, got[o], Lost(o))
      BY <1>2 DEF Ways, WayFrom, o
    <2>2. Way(sent[e], shut[e], l2, r, got[o], Lost(o))
      BY <1>1, <1>2, <1>6, <2>1, WayFin
    <2>3. SameSent(l2, l2) /\ Onward(l2, l2)
      BY DEF SameSent, Onward
    <2>4. Way(sent[e], shut[e], l2, r2, got[o], Lost(o))
      BY <1>7, <2>2, <2>3, WayKept
    <2> QED BY <1>1, <1>2, <1>8, <1>12, <2>4 DEF WayFrom, o
  <1>14. WayFrom(o)'
    <2>1. Way(sent[o], shut[o], r, l, got[e], Lost(e))
      BY <1>2 DEF Ways, WayFrom
    <2>2. Onward(r2, r)
      BY <1>1, <1>3, <1>7 DEF Onward, FinStates, NoSocket
    <2>3. Way(sent[o], shut[o], r2, l2, got[e], Lost(e))
      BY <1>6, <1>7, <2>1, <2>2, WayKept
    <2> QED BY <1>1, <1>2, <1>8, <1>12, <2>3 DEF WayFrom
  <1>15. ASSUME ack3, ~ broken, NEW x \in End PROVE Fin(x)'
    <2>1. Fin(e) /\ Fin(o)
      BY <1>2, <1>15 DEF Fins
    <2>2. CASE x = e
      BY <1>1, <1>2, <1>3, <1>6, <1>7, <1>8, <2>1, <2>2 DEF Fin, o, Ended, FinStates
    <2>3. CASE x = o
      BY <1>1, <1>2, <1>3, <1>6, <1>7, <1>8, <2>1, <2>3 DEF Fin, Ended, FinStates
    <2> QED BY <1>2, <2>2, <2>3
  <1>16. ASSUME NEW x \in End PROVE Pipe(x)'
    <2>1. CASE x = e
      BY <1>1, <1>2, <1>6, <1>8, <1>12, <2>1 DEF Pipes, Pipe, SameRead
    <2>2. CASE x = o
      BY <1>1, <1>2, <1>5, <1>7, <1>8, <1>12, <2>2 DEF Pipes, Pipe, SameRead, Handshaking, Ended
    <2> QED BY <1>2, <2>1, <2>2
  <1> QED BY <1>1, <1>2, <1>10, <1>11, <1>13, <1>14, <1>15, <1>16 DEF Ways, Pipes, Fins

LEMMA AckFinInv ==
    ASSUME StreamInv, NEW e \in End, AckFin(e) PROVE StreamInv'
  <1> USE DEF StreamInv
  <1> DEFINE l == link[e]
             o == Other(e)
             S == CASE l.state = "FinWait1" -> "FinWait2"
                    [] l.state = "Closing" -> "TimeWait"
                    [] l.state = "LastAck" -> "Closed"
             l2 == [l EXCEPT !.tx = <<>>, !.dlv = 0, !.state = S]
  <1>1. /\ l.state \in FinStates /\ l.finin
        /\ UNCHANGED <<ack3, dial, sent, shut, gone, got, seen, drain, broken>>
    BY DEF AckFin, Net, users, FinSent, FinStates
  <1>2. /\ l \in LinkType /\ Len(sent[e]) \in Nat /\ Len(got[e]) \in Nat
        /\ o \in End /\ o # e /\ Other(o) = e /\ End = {e, o} /\ Len(got[o]) \in Nat
        /\ link[o] \in LinkType
    BY LinkAt, Ends2
  <1>3. /\ l.state = "FinWait1" => S = "FinWait2"
        /\ l.state = "Closing" => S = "TimeWait"
        /\ l.state = "LastAck" => S = "Closed"
    OBVIOUS
  <1>4. link' = [link EXCEPT ![e].tx = <<>>, ![e].dlv = 0, ![e].state = S]
    BY DEF AckFin, Net
  <1> HIDE DEF S
  <1>5. link' = [link EXCEPT ![e] = l2]
    BY <1>2, <1>4 DEF StreamType
  <1>6. S \in {"FinWait2", "TimeWait", "Closed"}
    BY <1>1, <1>3 DEF FinStates
  <1>7. /\ l2 \in LinkType /\ l2.state = S /\ l2.inb = l.inb /\ l2.tx = <<>>
        /\ l2.dlv = 0 /\ l2.finin = l.finin /\ SameRead(l2, l)
        /\ l2.eof = l.eof /\ l2.read_closed = l.read_closed /\ l2.app = l.app
    BY <1>2, <1>6, RunEmpty DEF LinkType, TcpState, SameRead
  <1>8. link'[e] = l2 /\ link'[o] = link[o]
    BY <1>2, <1>5 DEF StreamType
  <1>9. ack3
    BY <1>1, Touched DEF Handshaking, NoSocket, FinStates
  <1> HIDE DEF l2, o
  <1>10. StreamType' /\ Quiet'
    BY <1>1, <1>2, <1>5, <1>7, <1>9 DEF StreamType, Quiet
  <1>11. Handshake'
    <2>1. CASE e = "client"
      <3>1. o = "server"
        BY <1>2, <2>1 DEF End
      <3> QED BY <1>1, <1>6, <1>7, <1>8, <2>1, <3>1 DEF Handshake, NoSocket, FinStates
    <2>2. CASE e = "server"
      <3>1. o = "client"
        BY <1>2, <2>2 DEF End
      <3> QED BY <1>1, <1>6, <1>7, <1>8, <2>2, <3>1 DEF Handshake, NoSocket, FinStates
    <2> QED BY <2>1, <2>2 DEF End
  <1>12. \A x \in End : Lost(x)' = Lost(x)
    BY <1>1, <1>2, <1>7, <1>8 DEF Lost, Dropped
  <1>13. WayFrom(e)'
    <2>1. Way(sent[e], shut[e], l, link[o], got[o], Lost(o))
      BY <1>2 DEF Ways, WayFrom, o
    <2>2. l2.state \notin FinStates
      BY <1>6, <1>7 DEF FinStates
    <2>3. Way(sent[e], shut[e], l2, link[o], got[o], Lost(o))
      BY <1>1, <1>2, <1>7, <2>1, <2>2, WayFinAcked
    <2> QED BY <1>1, <1>2, <1>8, <1>12, <2>3 DEF WayFrom, o
  <1>14. WayFrom(o)'
    <2>1. Way(sent[o], shut[o], link[o], l, got[e], Lost(e))
      BY <1>2 DEF Ways, WayFrom
    <2>2. SameSent(link[o], link[o]) /\ Onward(link[o], link[o])
      BY DEF SameSent, Onward
    <2>3. Way(sent[o], shut[o], link[o], l2, got[e], Lost(e))
      BY <1>7, <2>1, <2>2, WayKept
    <2> QED BY <1>1, <1>2, <1>8, <1>12, <2>3 DEF WayFrom
  <1>15. ASSUME ack3, ~ broken, NEW x \in End PROVE Fin(x)'
    <2>1. Fin(e) /\ Fin(o)
      BY <1>2, <1>15 DEF Fins
    <2>2. CASE x = e
      BY <1>1, <1>2, <1>3, <1>7, <1>8, <2>1, <2>2 DEF Fin, o, Ended, FinStates
    <2>3. CASE x = o
      BY <1>1, <1>2, <1>3, <1>7, <1>8, <2>1, <2>3 DEF Fin, Ended, FinStates
    <2> QED BY <1>2, <2>2, <2>3
  <1>16. ASSUME NEW x \in End PROVE Pipe(x)'
    <2>1. CASE x = e
      BY <1>1, <1>2, <1>3, <1>7, <1>8, <1>12, <2>1
         DEF Pipes, Pipe, SameRead, Handshaking, Ended, FinStates
    <2>2. CASE x = o
      BY <1>1, <1>2, <1>8, <1>12, <2>2 DEF Pipes, Pipe
    <2> QED BY <1>2, <2>1, <2>2
  <1> QED BY <1>1, <1>2, <1>10, <1>11, <1>13, <1>14, <1>15, <1>16 DEF Ways, Pipes, Fins

-----------------------------------------------------------------------------
\* The invariant, were l the link of end e: poll_links() works on it step by step.
LinkNew(l) ==
    /\ l.app = "kept" /\ l.state \in Handshaking \cup NoSocket
    /\ l.inb = <<>> /\ l.tx = <<>> /\ l.dlv = 0 /\ ~ l.finin
    /\ l.rx = <<>> /\ l.outb = <<>>

LostWith(e, l) == l.app = "given" /\ Dropped(e)

StateWith(e, l, br) ==
    /\ l \in LinkType /\ l.finin = link[e].finin /\ br \in BOOLEAN /\ (broken => br)
    /\ ~ ack3 => LinkNew(l)
    /\ e = "client" => /\ l.state \notin {"Listen", "SynReceived"}
                       /\ l.state = "SynSent" => ~ ack3
    /\ e = "server" => l.state # "SynSent"
    /\ Cancelled(e) /\ l.app = "given" => br /\ l.state \in NoSocket

WaysWith(e, l) ==
    /\ Way(sent[e], shut[e], l, link[Other(e)], got[Other(e)], Lost(Other(e)))
    /\ Way(sent[Other(e)], shut[Other(e)], link[Other(e)], l, got[e], LostWith(e, l))

PipeWith(e, l) ==
    /\ Len(l.outb) <= Cap
    /\ l.read_closed \/ l.eof => LostWith(e, l) \/ (l.rx = <<>> /\ l.state \in Ended)
    /\ seen[e] => l.eof /\ l.outb = <<>>
    /\ l.app = "given" => l.state \notin Handshaking
    /\ l.state \in Handshaking => ~ l.eof /\ ~ l.read_closed
    /\ drain[e] # "no" => l.app = "given"

FinWith(e, l, br) ==
    ack3 /\ ~ br =>
        /\ l.state \in {"SynReceived", "Established", "FinWait1", "FinWait2"} => ~ link[Other(e)].finin
        /\ l.state \in Ended => link[Other(e)].finin
        /\ l.state \in {"SynReceived", "Established", "CloseWait"} => ~ l.finin
        /\ l.state \in {"FinWait2", "TimeWait", "Closed", "None"} => l.finin
        /\ l.state \notin {"Listen", "SynSent"}

With(e, l, br) == StateWith(e, l, br) /\ WaysWith(e, l) /\ PipeWith(e, l) /\ FinWith(e, l, br)

LEMMA WithNow ==
    ASSUME StreamInv, NEW e \in End
    PROVE  With(e, link[e], broken)
  <1> USE DEF StreamInv
  <1>1. link[e] \in LinkType /\ Other(e) \in End /\ Other(Other(e)) = e /\ broken \in BOOLEAN
    BY LinkAt, Ends2 DEF StreamType
  <1>2. StateWith(e, link[e], broken)
    BY <1>1 DEF StateWith, LinkNew, Quiet, Untouched, Handshake, End, Cancelled
  <1>3. WaysWith(e, link[e])
    <2>1. LostWith(e, link[e]) = Lost(e)
      BY DEF LostWith, Lost
    <2> QED BY <1>1, <2>1 DEF WaysWith, Ways, WayFrom
  <1>4. PipeWith(e, link[e])
    BY DEF PipeWith, Pipes, Pipe, LostWith, Lost
  <1>5. FinWith(e, link[e], broken)
    BY DEF FinWith, Fins, Fin
  <1> QED BY <1>2, <1>3, <1>4, <1>5 DEF With

LEMMA WithHandover ==
    ASSUME StreamInv, NEW e \in End, NEW l, With(e, l, broken), NEW l2, l2 = Handover(e, l), NEW br,
           br = (broken \/ (l2.state = "Closed" /\ l.state # "Closed"))
    PROVE  With(e, l2, br)
  <1> USE DEF With
  <1>1. br \in BOOLEAN /\ (broken => br) /\ l \in LinkType
    BY DEF StateWith
  <1>2. CASE l2 = l
    BY <1>1, <1>2 DEF StateWith, FinWith
  <1>3. CASE /\ l.app = "kept" /\ l.state \in {"Established", "CloseWait"}
             /\ l2 = [l EXCEPT !.app = "given", !.state = IF Cancelled(e) THEN "Closed" ELSE @]
    <2>1. /\ l2 \in LinkType /\ SameSent(l2, l) /\ SameRead(l2, l) /\ l2.app = "given"
          /\ l2.state = IF Cancelled(e) THEN "Closed" ELSE l.state
          /\ l2.eof = l.eof /\ l2.read_closed = l.read_closed
      BY <1>1, <1>3 DEF LinkType, TcpState, SameSent, SameRead
    <2>2. ack3
      BY <1>3 DEF StateWith, LinkNew, Handshaking, NoSocket
    <2>3. StateWith(e, l2, br)
      BY <1>1, <1>3, <2>1, <2>2 DEF StateWith, SameSent, NoSocket
    <2>4. WaysWith(e, l2)
      <3>1. Onward(l2, l) /\ (LostWith(e, l) => LostWith(e, l2))
        BY <1>3, <2>1 DEF Onward, LostWith, FinStates, NoSocket
      <3>2. SameSent(link[Other(e)], link[Other(e)]) /\ SameRead(link[Other(e)], link[Other(e)])
            /\ Onward(link[Other(e)], link[Other(e)])
        BY DEF SameSent, SameRead, Onward
      <3> QED BY <2>1, <3>1, <3>2, WayKept DEF WaysWith
    <2>5. PipeWith(e, l2)
      BY <1>3, <2>1 DEF PipeWith, LostWith, SameRead, Ended, Handshaking
    <2>6. FinWith(e, l2, br)
      BY <1>1, <1>3, <2>1 DEF FinWith, SameSent
    <2> QED BY <2>3, <2>4, <2>5, <2>6
  <1>4. CASE l.app = "kept" /\ l2 = Abort(l)
    <2>1. /\ l2 \in LinkType /\ SameSent(l2, l) /\ SameRead(l2, l) /\ l2.app = "kept"
          /\ l2.state = "Closed"
          /\ l2.eof = l.eof /\ l2.read_closed = l.read_closed
      BY <1>1, <1>4 DEF Abort, LinkType, TcpState, SameSent, SameRead
    <2>2. StateWith(e, l2, br)
      BY <1>1, <1>4, <2>1 DEF StateWith, LinkNew, SameSent, SameRead, NoSocket
    <2>3. WaysWith(e, l2)
      <3>1. Onward(l2, l) /\ (LostWith(e, l) => LostWith(e, l2))
        BY <1>4, <2>1 DEF Onward, LostWith, FinStates, NoSocket
      <3>2. SameSent(link[Other(e)], link[Other(e)]) /\ SameRead(link[Other(e)], link[Other(e)])
            /\ Onward(link[Other(e)], link[Other(e)])
        BY DEF SameSent, SameRead, Onward
      <3> QED BY <2>1, <3>1, <3>2, WayKept DEF WaysWith
    <2>4. PipeWith(e, l2)
      BY <1>4, <2>1 DEF PipeWith, LostWith, SameRead, Ended, Handshaking
    <2>5. FinWith(e, l2, br)
      BY <1>1, <1>4, <2>1 DEF FinWith, SameSent, Ended
    <2> QED BY <2>2, <2>3, <2>4, <2>5
  <1> QED BY <1>2, <1>3, <1>4 DEF Handover

LEMMA SmallerIs ==
    ASSUME NEW m \in Nat, NEW n \in Nat
    PROVE  Smaller(m, n) \in 0 .. m /\ Smaller(m, n) <= n
  BY DEF Smaller

LEMMA WithTake ==
    ASSUME StreamInv, NEW e \in End, NEW br, NEW l, With(e, l, br), NEW l2, l2 = Take(e, l)
    PROVE  With(e, l2, br)
  <1> USE DEF With
  <1> DEFINE o == Other(e)
  <1>1. /\ l \in LinkType /\ link[o] \in LinkType /\ o \in End
        /\ Len(got[o]) \in Nat /\ Len(got[e]) \in Nat
    BY Ends2, LinkAt DEF StateWith
  <1>2. SUFFICES ASSUME CanSend(l), l.app # "kept", ~ l.write_closed PROVE With(e, l2, br)
    BY DEF Take
  <1>3. l.app = "given" /\ l.state \in {"Established", "CloseWait"} /\ Len(l.tx) < Cap
    BY <1>1, <1>2, LinkParts DEF CanSend
  <1>4. ack3 /\ ~ Cancelled(e)
    BY <1>3 DEF StateWith, LinkNew, NoSocket
  <1>5. CASE /\ l.inb = <<>> /\ (shut[e] \/ Dropped(e))
             /\ l2 = Close([l EXCEPT !.write_closed = TRUE])
    <2>1. shut[e]
      BY <1>4, <1>5 DEF Dropped, Cancelled, StreamInv, Pipes, Pipe
    <2>2. /\ l2 \in LinkType /\ SameSent(l2, l) /\ SameRead(l2, l) /\ l2.app = "given"
          /\ l2.state = IF l.state = "Established" THEN "FinWait1" ELSE "LastAck"
          /\ l2.eof = l.eof /\ l2.read_closed = l.read_closed
      BY <1>1, <1>3, <1>5 DEF Close, LinkType, TcpState, SameSent, SameRead
    <2>3. StateWith(e, l2, br)
      BY <1>3, <1>4, <2>2 DEF StateWith, SameSent
    <2>4. WaysWith(e, l2)
      <3>1. Way(sent[e], shut[e], l2, link[o], got[o], Lost(o))
        BY <1>3, <1>5, <2>1, <2>2, WayEnded DEF WaysWith, NoSocket
      <3>2. Way(sent[o], shut[o], link[o], l2, got[e], LostWith(e, l2))
        <4>1. SameSent(link[o], link[o]) /\ Onward(link[o], link[o])
              /\ (LostWith(e, l) => LostWith(e, l2))
          BY <1>3, <2>2 DEF SameSent, Onward, LostWith
        <4> QED BY <2>2, <4>1, WayKept DEF WaysWith
      <3> QED BY <3>1, <3>2 DEF WaysWith
    <2>5. PipeWith(e, l2)
      BY <1>3, <2>2 DEF PipeWith, LostWith, SameRead, Ended, Handshaking
    <2>6. FinWith(e, l2, br)
      BY <1>3, <2>2 DEF FinWith, SameSent, Ended
    <2> QED BY <2>3, <2>4, <2>5, <2>6
  <1>6. ASSUME NEW n, n = Smaller(Len(l.inb), Cap - Len(l.tx)),
               l2 = [l EXCEPT !.tx = @ \o Front(l.inb, n), !.inb = Rest(@, n)]
        PROVE  With(e, l2, br)
    <2>1. PICK x \in Seq(Nat), y \in Seq(Nat) : x = l.inb /\ y = l.tx
      BY <1>1, LinkParts
    <2>2. n \in 0 .. Len(x)
      <3>1. Len(x) \in Nat /\ Cap - Len(y) \in Nat
        BY <1>3, <2>1, StreamAssumption DEF StreamAssumption
      <3> QED BY <1>6, <2>1, <3>1, SmallerIs
    <2>3. Moved(x, y, Rest(x, n), y \o Front(x, n))
      BY <2>2 DEF Moved
    <2>4. Rest(x, n) \in Seq(Nat) /\ y \o Front(x, n) \in Seq(Nat)
      BY <2>3, MovedLengths
    <2>5. PICK x2 \in Seq(Nat), y2 \in Seq(Nat) :
             /\ x2 = Rest(x, n) /\ y2 = y \o Front(x, n)
             /\ l2 = [l EXCEPT !.tx = y2, !.inb = x2]
      BY <1>6, <2>1, <2>4
    <2>6. /\ l2 \in LinkType /\ l2.state = l.state /\ l2.dlv = l.dlv /\ l2.finin = l.finin
          /\ l2.inb = x2 /\ l2.tx = y2 /\ SameRead(l2, l) /\ l2.app = "given"
          /\ l2.eof = l.eof /\ l2.read_closed = l.read_closed
      BY <1>1, <1>3, <2>5 DEF LinkType, SameRead
    <2>7. StateWith(e, l2, br)
      BY <1>3, <1>4, <2>6 DEF StateWith
    <2>8. WaysWith(e, l2)
      <3>1. Moved(l.inb, l.tx, l2.inb, l2.tx)
        BY <2>1, <2>3, <2>5, <2>6
      <3>2. Way(sent[e], shut[e], l2, link[o], got[o], Lost(o))
        BY <1>1, <2>6, <3>1, WayTaken DEF WaysWith
      <3>3. Way(sent[o], shut[o], link[o], l2, got[e], LostWith(e, l2))
        <4>1. SameSent(link[o], link[o]) /\ Onward(link[o], link[o])
              /\ (LostWith(e, l) => LostWith(e, l2))
          BY <1>3, <2>6 DEF SameSent, Onward, LostWith
        <4> QED BY <2>6, <4>1, WayKept DEF WaysWith
      <3> QED BY <3>2, <3>3 DEF WaysWith
    <2>9. PipeWith(e, l2)
      BY <1>3, <2>6 DEF PipeWith, LostWith, SameRead
    <2>10. FinWith(e, l2, br)
      BY <2>6 DEF FinWith
    <2> QED BY <2>7, <2>8, <2>9, <2>10
  <1>7. CASE ~ (l.inb = <<>> /\ (shut[e] \/ Dropped(e)))
    BY <1>2, <1>6, <1>7 DEF Take
  <1>8. CASE l.inb = <<>> /\ (shut[e] \/ Dropped(e))
    BY <1>2, <1>5, <1>8 DEF Take
  <1> QED BY <1>7, <1>8

LEMMA WithPush ==
    ASSUME StreamInv, NEW e \in End, NEW br, NEW l, With(e, l, br), NEW l2, l2 = Push(e, l)
    PROVE  With(e, l2, br)
  <1> USE DEF With
  <1> DEFINE o == Other(e)
  <1>1. /\ l \in LinkType /\ link[o] \in LinkType /\ o \in End
        /\ Len(got[o]) \in Nat /\ Len(got[e]) \in Nat
    BY Ends2, LinkAt DEF StateWith
  <1>2. SUFFICES ASSUME l.app # "kept", l.rx # <<>> PROVE With(e, l2, br)
    BY DEF Push
  <1>3. l.app = "given" /\ ack3
    BY <1>1, <1>2, LinkParts DEF StateWith, LinkNew
  <1>4. CASE Dropped(e)
    <2>1. l2 = [l EXCEPT !.rx = <<>>, !.read_closed = TRUE]
      BY <1>2, <1>4 DEF Push
    <2>2. /\ l2 \in LinkType /\ SameSent(l2, l) /\ l2.state = l.state /\ l2.app = "given"
          /\ l2.rx = <<>> /\ l2.outb = l.outb /\ l2.eof = l.eof /\ l2.read_closed
      BY <1>1, <1>3, <2>1, RunEmpty DEF LinkType, SameSent
    <2>3. StateWith(e, l2, br)
      BY <1>3, <2>2 DEF StateWith, SameSent
    <2>4. WaysWith(e, l2)
      <3>1. Way(sent[e], shut[e], l2, link[o], got[o], Lost(o))
        <4>1. Onward(l2, l) /\ SameRead(link[o], link[o])
          BY <2>2 DEF Onward, SameRead
        <4> QED BY <2>2, <4>1, WayKept DEF WaysWith
      <3>2. Way(sent[o], shut[o], link[o], l2, got[e], LostWith(e, l2))
        <4>1. LostWith(e, l) /\ LostWith(e, l2)
          BY <1>3, <1>4, <2>2 DEF LostWith
        <4> QED BY <4>1 DEF WaysWith, Way
      <3> QED BY <3>1, <3>2 DEF WaysWith
    <2>5. PipeWith(e, l2)
      BY <1>3, <1>4, <2>2 DEF PipeWith, LostWith
    <2>6. FinWith(e, l2, br)
      BY <2>2 DEF FinWith, SameSent
    <2> QED BY <2>3, <2>4, <2>5, <2>6
  <1>5. ASSUME ~ Dropped(e), NEW n, n = Smaller(Len(l.rx), Cap - Len(l.outb)),
               l2 = [l EXCEPT !.outb = @ \o Front(l.rx, n), !.rx = Rest(@, n)]
        PROVE  With(e, l2, br)
    <2>1. PICK x \in Seq(Nat), y \in Seq(Nat) : x = l.rx /\ y = l.outb
      BY <1>1, LinkParts
    <2>2. PICK k \in Nat, m \in Nat, c \in Nat : k = Len(x) /\ m = Len(y) /\ c = Cap /\ m <= c
      BY <1>1, <2>1, StreamAssumption DEF StreamAssumption, PipeWith
    <2>3. n \in 0 .. k /\ n <= c - m
      <3>1. c - m \in Nat
        BY <2>2
      <3> QED BY <1>5, <2>1, <2>2, <3>1, SmallerIs
    <2>4. Moved(x, y, Rest(x, n), y \o Front(x, n))
      BY <2>2, <2>3 DEF Moved
    <2>5. Rest(x, n) \in Seq(Nat) /\ y \o Front(x, n) \in Seq(Nat)
      BY <2>4, MovedLengths
    <2>6. Len(y \o Front(x, n)) <= Cap
      <3>1. Front(x, n) \in Seq(Nat) /\ Len(Front(x, n)) = n
        BY <2>2, <2>3 DEF Front
      <3>2. PICK f \in Seq(Nat) : f = Front(x, n) /\ Len(f) = n
        BY <3>1
      <3>3. Len(y \o f) = m + n
        BY <2>2, <3>2, Joined
      <3> QED BY <2>2, <2>3, <3>2, <3>3
    <2>7. PICK x2 \in Seq(Nat), y2 \in Seq(Nat) :
             /\ x2 = Rest(x, n) /\ y2 = y \o Front(x, n) /\ Len(y2) <= Cap
             /\ l2 = [l EXCEPT !.outb = y2, !.rx = x2]
      BY <1>5, <2>1, <2>5, <2>6
    <2>8. /\ l2 \in LinkType /\ l2.state = l.state /\ SameSent(l2, l)
          /\ l2.rx = x2 /\ l2.outb = y2 /\ l2.app = "given"
          /\ l2.eof = l.eof /\ l2.read_closed = l.read_closed
      BY <1>1, <1>3, <2>7 DEF LinkType, SameSent
    <2>9. ~ LostWith(e, l) /\ LostWith(e, l2) = LostWith(e, l)
      BY <1>5 DEF LostWith
    <2>10. StateWith(e, l2, br)
      BY <1>3, <2>8 DEF StateWith, SameSent
    <2>11. WaysWith(e, l2)
      <3>1. Moved(l.rx, l.outb, l2.rx, l2.outb)
        BY <2>1, <2>4, <2>7, <2>8
      <3>2. Way(sent[e], shut[e], l2, link[o], got[o], Lost(o))
        <4>1. Onward(l2, l) /\ SameRead(link[o], link[o])
          BY <2>8 DEF Onward, SameRead
        <4> QED BY <2>8, <4>1, WayKept DEF WaysWith
      <3>3. Way(sent[o], shut[o], link[o], l, got[e], LostWith(e, l))
        BY DEF WaysWith
      <3>4. Way(sent[o], shut[o], link[o], l2, got[e], LostWith(e, l))
        BY <1>1, <2>8, <3>1, <3>3, WayPushed
      <3> QED BY <2>9, <3>2, <3>4 DEF WaysWith
    <2>12. PipeWith(e, l2)
      BY <1>2, <1>3, <2>7, <2>8, <2>9 DEF PipeWith
    <2>13. FinWith(e, l2, br)
      BY <2>8 DEF FinWith, SameSent
    <2> QED BY <2>10, <2>11, <2>12, <2>13
  <1>6. CASE ~ Dropped(e)
    BY <1>2, <1>5, <1>6 DEF Push
  <1> QED BY <1>4, <1>6

LEMMA WithFinish ==
    ASSUME StreamInv, NEW e \in End, NEW br, NEW l, With(e, l, br), NEW l2, l2 = Finish(l)
    PROVE  With(e, l2, br)
  <1> USE DEF With
  <1> DEFINE o == Other(e)
  <1>1. SUFFICES ASSUME ~ MayRecv(l), l.app # "kept",
                        l2 = [l EXCEPT !.read_closed = TRUE, !.eof = TRUE]
                 PROVE  With(e, l2, br)
    BY DEF Finish
  <1>2. l \in LinkType /\ l.app = "given"
    BY <1>1 DEF StateWith, LinkType
  <1>3. l.rx = <<>> /\ l.state \in Ended
    BY <1>1, <1>2 DEF MayRecv, PipeWith, LinkType, TcpState, Ended, Handshaking
  <1>4. /\ l2 \in LinkType /\ SameSent(l2, l) /\ SameRead(l2, l) /\ l2.state = l.state
        /\ l2.app = "given" /\ l2.eof
    BY <1>1, <1>2 DEF LinkType, SameSent, SameRead
  <1>5. StateWith(e, l2, br)
    BY <1>2, <1>4 DEF StateWith, SameSent, LinkNew
  <1>6. WaysWith(e, l2)
    <2>1. /\ Onward(l2, l) /\ (LostWith(e, l) => LostWith(e, l2))
          /\ SameSent(link[o], link[o]) /\ SameRead(link[o], link[o]) /\ Onward(link[o], link[o])
      BY <1>2, <1>4 DEF Onward, LostWith, SameSent, SameRead
    <2> QED BY <1>4, <2>1, WayKept DEF WaysWith
  <1>7. PipeWith(e, l2)
    BY <1>2, <1>3, <1>4 DEF PipeWith, SameRead, LostWith
  <1>8. FinWith(e, l2, br)
    BY <1>4 DEF FinWith, SameSent
  <1> QED BY <1>5, <1>6, <1>7, <1>8

LEMMA WithReap ==
    ASSUME StreamInv, NEW e \in End, NEW br, NEW l, With(e, l, br), NEW l2, l2 = Reap(l)
    PROVE  With(e, l2, br)
  <1> USE DEF With
  <1> DEFINE o == Other(e)
  <1>1. SUFFICES ASSUME l.state = "Closed", l.rx = <<>> \/ l.read_closed,
                        l2 = [Fresh("None") EXCEPT !.app = l.app, !.outb = l.outb, !.eof = TRUE,
                                                   !.finin = l.finin]
                 PROVE  With(e, l2, br)
    BY DEF Reap
  <1>2. l \in LinkType
    BY DEF StateWith
  <1>3. /\ l2 \in LinkType /\ l2.state = "None" /\ l2.app = l.app /\ l2.outb = l.outb
        /\ l2.finin = l.finin /\ l2.inb = <<>> /\ l2.tx = <<>> /\ l2.dlv = 0 /\ l2.rx = <<>>
        /\ l2.eof
    <2>1. PICK a, b, f : a = l.app /\ b = l.outb /\ f = l.finin
      OBVIOUS
    <2>2. a \in {"kept", "given"} /\ b \in Seq(Nat) /\ f \in BOOLEAN /\ <<>> \in Seq(Nat)
      BY <1>2, <2>1, LinkParts, RunEmpty
    <2>3. l2 = [Fresh("None") EXCEPT !.app = a, !.outb = b, !.eof = TRUE, !.finin = f]
      BY <1>1, <2>1
    <2>4. l2 = [Fresh("None") EXCEPT !.app = a, !.outb = b, !.eof = TRUE, !.finin = f] =>
          l2 = [state |-> "None", app |-> a, inb |-> <<>>, tx |-> <<>>, dlv |-> 0,
                finin |-> f, rx |-> <<>>, outb |-> b, eof |-> TRUE,
                write_closed |-> FALSE, read_closed |-> FALSE, old |-> FALSE]
      BY DEF Fresh
    <2>5. l2 = [state |-> "None", app |-> a, inb |-> <<>>, tx |-> <<>>, dlv |-> 0,
                finin |-> f, rx |-> <<>>, outb |-> b, eof |-> TRUE,
                write_closed |-> FALSE, read_closed |-> FALSE, old |-> FALSE]
      BY <2>3, <2>4
    <2> QED BY <2>1, <2>2, <2>5 DEF LinkType, TcpState
  <1>4. LostWith(e, l2) = LostWith(e, l) /\ (LostWith(e, l) \/ l.rx = <<>>)
    BY <1>1, <1>3 DEF LostWith, PipeWith
  <1>5. StateWith(e, l2, br)
    BY <1>1, <1>2, <1>3 DEF StateWith, LinkNew, NoSocket
  <1>6. WaysWith(e, l2)
    <2>1. Way(sent[e], shut[e], l2, link[o], got[o], Lost(o))
      BY <1>3, WayReapedWriter DEF WaysWith
    <2>2. Way(sent[o], shut[o], link[o], l2, got[e], LostWith(e, l))
      BY <1>3, <1>4, WayReapedReader DEF WaysWith
    <2> QED BY <1>4, <2>1, <2>2 DEF WaysWith
  <1>7. PipeWith(e, l2)
    BY <1>1, <1>3, <1>4 DEF PipeWith, Handshaking, Ended
  <1>8. FinWith(e, l2, br)
    BY <1>1, <1>3 DEF FinWith, Ended
  <1> QED BY <1>5, <1>6, <1>7, <1>8

\* A whole pass of poll_links() over the link of e.
LEMMA PollInv ==
    ASSUME StreamInv, NEW e \in End, Poll(e) PROVE StreamInv'
  <1> USE DEF StreamInv
  <1> DEFINE o == Other(e)
  <1> DEFINE offered == Handover(e, link[e])
             taken == Take(e, offered)
             pushed == Push(e, taken)
             l == Reap(Finish(pushed))
  <1>1. /\ link' = [link EXCEPT ![e] = l]
        /\ dial' = IF e = "server" \/ dial # "waiting" THEN dial
                   ELSE IF l.app = "given" THEN "ok"
                   ELSE IF l.state = "None" THEN "err"
                   ELSE dial
        /\ broken' = (broken \/ (offered.state = "Closed" /\ link[e].state # "Closed"))
    BY DEF Poll
  <1> HIDE DEF offered, taken, pushed, l
  <1>2. With(e, l, broken')
    <2>1. With(e, offered, broken')
      BY <1>1, WithNow, WithHandover DEF offered
    <2>2. With(e, taken, broken')
      BY <2>1, WithTake DEF taken
    <2>3. With(e, pushed, broken')
      BY <2>2, WithPush DEF pushed
    <2>4. With(e, Finish(pushed), broken')
      BY <2>3, WithFinish
    <2> QED BY <2>4, WithReap DEF l
  <1>3. /\ link[e].state # "None" /\ UNCHANGED <<ack3, sent, shut, gone, got, seen, drain>>
    BY DEF Poll, users
  <1>4. /\ o \in End /\ o # e /\ Other(o) = e /\ End = {e, o} /\ End = {"client", "server"}
    BY Ends2 DEF End
  <1>5. l \in LinkType /\ l.finin = link[e].finin /\ broken' \in BOOLEAN /\ (broken => broken')
    BY <1>2 DEF With, StateWith
  <1>6. link'[e] = l /\ link'[o] = link[o]
    BY <1>1, <1>4 DEF StreamType
  <1>7. dial' = "cancelled" <=> dial = "cancelled"
    BY <1>1
  <1>8. Lost(e)' = LostWith(e, l) /\ Lost(o)' = Lost(o)
    BY <1>3, <1>6, <1>7 DEF Lost, LostWith, Dropped
  <1>9. StreamType'
    BY <1>1, <1>3, <1>5 DEF StreamType
  <1>10. Quiet'
    BY <1>2, <1>3, <1>4, <1>6 DEF Quiet, Untouched, With, StateWith, LinkNew
  <1>11. Handshake'
    <2>1. CASE e = "client"
      <3>1. o = "server" /\ dial # "none"
        BY <1>3, <1>4, <2>1 DEF Handshake
      <3>2. link'["client"] = l /\ link'["server"] = link["server"]
        BY <1>6, <2>1, <3>1
      <3>3. l.app \in {"kept", "given"}
        BY <1>5, LinkParts
      <3> QED BY <1>1, <1>2, <1>3, <1>5, <2>1, <3>1, <3>2, <3>3
              DEF Handshake, With, StateWith, Cancelled, StreamType
    <2>2. CASE e = "server"
      <3>1. o = "client"
        BY <1>4, <2>2
      <3>2. link'["server"] = l /\ link'["client"] = link["client"]
        BY <1>6, <2>2, <3>1
      <3> QED BY <1>1, <1>2, <1>3, <1>5, <2>2, <3>1, <3>2 DEF Handshake, With, StateWith
    <2> QED BY <1>4, <2>1, <2>2
  <1>12. WayFrom(e)' /\ WayFrom(o)'
    BY <1>2, <1>3, <1>4, <1>6, <1>8 DEF WayFrom, With, WaysWith
  <1>13. Pipe(e)' /\ Pipe(o)'
    BY <1>2, <1>3, <1>4, <1>6, <1>8 DEF Pipes, Pipe, With, PipeWith
  <1>14. ASSUME ack3, ~ broken' PROVE Fin(e)' /\ Fin(o)'
    <2>1. Fin(e) /\ Fin(o)
      BY <1>4, <1>5, <1>14 DEF Fins
    <2> QED BY <1>2, <1>3, <1>4, <1>5, <1>6, <1>14, <2>1 DEF Fin, With, FinWith
  <1> QED BY <1>3, <1>4, <1>9, <1>10, <1>11, <1>12, <1>13, <1>14 DEF Ways, Pipes, Fins

LEMMA StreamStep == StreamInv /\ [Next]_vars => StreamInv'
  <1> SUFFICES ASSUME StreamInv, [Next]_vars PROVE StreamInv'
    OBVIOUS
  <1>1. CASE Dial \/ Cancel \/ SynArrives \/ SynAck \/ HandshakeAck
    BY <1>1, DialInv, CancelInv, SynArrivesInv, SynAckInv, HandshakeAckInv
  <1>2. ASSUME NEW e \in End, Poll(e) \/ Age(e) PROVE StreamInv'
    BY <1>2, PollInv, AgeInv
  <1>3. ASSUME NEW e \in End,
               \/ Write(e) \/ Shutdown(e) \/ Read(e) \/ ReadEof(e) \/ Drop(e)
               \/ Drain(e) \/ AnswerDrain(e)
        PROVE  StreamInv'
    BY <1>3, WriteInv, ShutdownInv, ReadInv, ReadEofInv, DropInv, DrainInv, AnswerDrainInv
  <1>4. ASSUME NEW e \in End,
               \/ Deliver(e) \/ Ack(e) \/ DeliverFin(e) \/ AckFin(e)
               \/ TimeWaitOver(e) \/ Reset(e) \/ Timeout(e)
        PROVE  StreamInv'
    BY <1>4, DeliverInv, AckInv, DeliverFinInv, AckFinInv, TimeWaitOverInv, ResetInv, TimeoutInv
  <1>5. CASE UNCHANGED vars
    BY <1>5 DEF vars, users, StreamInv, StreamType, Quiet, Untouched, Handshake, Ways, WayFrom,
                Pipes, Pipe, Fins, Fin, Lost, Dropped
  <1> QED BY <1>1, <1>2, <1>3, <1>4, <1>5 DEF Next

\* The two ends of a connection agree: the bytes of each direction are in order and once
\* in the places between its writer and its reader, the FIN after them, whatever the
\* network drops and whoever goes away (poll_links, tick).
THEOREM StreamsAreConsistent == Spec => []StreamInv
  BY InitInv, StreamStep, PTL DEF Spec

\* An answered drain has its FIN delivered, and before it every byte.
LEMMA DrainIsSound == StreamInv => DrainSound
  <1> SUFFICES ASSUME StreamInv, NEW e \in End, drain[e] = "done", ~ broken
               PROVE  /\ shut[e] /\ link[e].finin
                      /\ \/ gone[Other(e)]
                         \/ sent[e] = got[Other(e)] \o link[Other(e)].outb \o link[Other(e)].rx
    BY DEF DrainSound
  <1> DEFINE o == Other(e)
             r == link[o]
  <1>1. ack3
    BY Touched DEF StreamInv, Pipes, Pipe
  <1>2. /\ o \in End /\ r \in LinkType /\ sent[e] \in Seq(Nat) /\ got[o] \in Seq(Nat)
        /\ Way(sent[e], shut[e], link[e], r, got[o], Lost(o))
    BY LinkAt, Ends2 DEF StreamInv, Ways, WayFrom
  <1>3. link[e].finin
    BY <1>1 DEF StreamInv, Fins, Fin
  <1>4. CASE Lost(o)
    BY <1>2, <1>3, <1>4 DEF Lost, Dropped, StreamInv, Handshake, Way
  <1>5. CASE ~ Lost(o)
    <2>1. PICK s, g, x, y : s = sent[e] /\ g = got[o] /\ x = r.outb /\ y = r.rx
      OBVIOUS
    <2>2. s \in Seq(Nat) /\ g \in Seq(Nat) /\ x \in Seq(Nat) /\ y \in Seq(Nat)
      BY <1>2, <2>1, LinkParts
    <2>3. PICK a \in Nat, b \in Nat, c \in Nat : a = Len(g) /\ b = Len(x) /\ c = Len(y)
      BY <2>2
    <2>4. /\ Run(s, 0) /\ Run(g, 0) /\ Run(x, a) /\ Run(y, a + b) /\ Len(s) = a + b + c
          /\ shut[e]
      BY <1>2, <1>3, <1>5, <2>1, <2>3 DEF Way, Received
    <2>5. g \o x \in Seq(Nat) /\ Len(g \o x) = a + b /\ Run(g \o x, 0)
      <3>1. 0 \in Int /\ Run(x, 0 + Len(g))
        BY <2>3, <2>4
      <3> QED BY <2>2, <2>3, <2>4, <3>1, RunJoined
    <2>6. PICK h \in Seq(Nat) : h = g \o x
      BY <2>5
    <2>7. h \o y \in Seq(Nat) /\ Len(h \o y) = a + b + c /\ Run(h \o y, 0)
      <3>1. 0 \in Int /\ Run(y, 0 + Len(h)) /\ Len(h) = a + b /\ Run(h, 0)
        BY <2>3, <2>4, <2>5, <2>6
      <3> QED BY <2>2, <2>3, <3>1, RunJoined
    <2>8. s = h \o y
      <3>1. PICK k \in Seq(Nat) : k = h \o y
        BY <2>7
      <3>2. Len(s) = Len(k) /\ Run(s, 0) /\ Run(k, 0) /\ 0 \in Int
        BY <2>4, <2>7, <3>1
      <3> QED BY <2>2, <3>1, <3>2, RunSame
    <2> QED BY <1>3, <2>1, <2>4, <2>6, <2>8
  <1> QED BY <1>4, <1>5

\* A drain is answered only when the other end has all that was written, and the FIN (tick).
THEOREM DrainsLoseNothing == Spec => []DrainSound
  BY StreamsAreConsistent, DrainIsSound, PTL

-----------------------------------------------------------------------------
(* TcpStream implements HalfClose.                                           *)

LEMMA PromiseInit == Init => Promise!Init
  BY DEF Init, Promise!Init, End, Promise!End

LEMMA OtherEnd == Promise!End = End /\ \A e : Promise!Other(e) = Other(e)
  BY DEF Promise!End, End, Promise!Other, Other

\* The end of file comes after the last byte.
LEMMA EofIsTrue ==
    ASSUME StreamInv, NEW e \in End, ReadEof(e)
    PROVE  broken \/ (shut[Other(e)] /\ got[e] = sent[Other(e)])
  <1> SUFFICES ASSUME ~ broken PROVE shut[Other(e)] /\ got[e] = sent[Other(e)]
    OBVIOUS
  <1> DEFINE o == Other(e)
             r == link[e]
  <1>1. r.app = "given" /\ ~ Dropped(e) /\ r.outb = <<>> /\ r.eof
    BY DEF ReadEof, Holds
  <1>2. ~ Lost(e) /\ ack3
    BY <1>1, Touched DEF Lost
  <1>3. r.rx = <<>> /\ r.state \in Ended
    BY <1>1, <1>2 DEF StreamInv, Pipes, Pipe
  <1>4. link[o].finin
    BY <1>2, <1>3 DEF StreamInv, Fins, Fin
  <1>5. /\ o \in End /\ Other(o) = e /\ r \in LinkType /\ sent[o] \in Seq(Nat)
        /\ got[e] \in Seq(Nat) /\ Len(got[e]) \in Nat
    BY LinkAt, Ends2
  <1>6. Way(sent[o], shut[o], link[o], r, got[e], Lost(e))
    BY <1>5 DEF StreamInv, Ways, WayFrom
  <1>7. Received(got[e], r) = Len(got[e])
    <2>1. PICK n \in Nat : n = Len(got[e])
      BY <1>5
    <2>2. n + 0 + 0 = n /\ Len(<<>>) = 0
      OBVIOUS
    <2> QED BY <1>1, <1>3, <2>1, <2>2 DEF Received
  <1>8. Len(sent[o]) = Len(got[e]) /\ Run(sent[o], 0) /\ Run(got[e], 0) /\ shut[o]
    BY <1>2, <1>4, <1>6, <1>7 DEF Way
  <1>9. got[e] = sent[o]
    BY <1>5, <1>8, RunSame
  <1> QED BY <1>8, <1>9

\* Each step is one of the promise's, or changes nothing its users see.
LEMMA PromiseStep == StreamInv /\ [Next]_vars => [Promise!Next]_(Promise!vars)
  <1> SUFFICES ASSUME StreamInv, [Next]_vars,
                      ~ UNCHANGED <<sent, shut, got, seen, broken>>
               PROVE  Promise!Next
    BY DEF Promise!vars
  <1> USE DEF Promise!vars
  <1>1. CASE Dial \/ Cancel \/ SynArrives \/ SynAck \/ HandshakeAck
    BY <1>1 DEF Dial, Cancel, SynArrives, SynAck, HandshakeAck, Net, users
  <1>2. ASSUME NEW e \in End, Poll(e) \/ Timeout(e) PROVE Promise!Next
    <2>1. UNCHANGED <<sent, shut, got, seen>>
      BY <1>2 DEF Poll, Timeout, users
    <2>2. broken \in BOOLEAN /\ broken' \in BOOLEAN /\ (broken => broken')
      <3>1. CASE Poll(e)
        BY <3>1 DEF Poll, StreamInv, StreamType
      <3>2. CASE Timeout(e)
        BY <3>2 DEF Timeout, StreamInv, StreamType
      <3> QED BY <1>2, <3>1, <3>2
    <2> QED BY <2>1, <2>2 DEF Promise!Next, Promise!Break
  <1>3. ASSUME NEW e \in End, Write(e) PROVE Promise!Next
    <2>1. Promise!Write(e)
      BY <1>3 DEF Write, Promise!Write
    <2> QED BY <2>1, OtherEnd DEF Promise!Next
  <1>4. ASSUME NEW e \in End, Shutdown(e) PROVE Promise!Next
    <2>1. Promise!Shutdown(e)
      BY <1>4 DEF Shutdown, Promise!Shutdown
    <2> QED BY <2>1, OtherEnd DEF Promise!Next
  <1>5. ASSUME NEW e \in End, Drop(e) PROVE Promise!Next
    <2>1. /\ shut' = [shut EXCEPT ![e] = TRUE] /\ shut \in [End -> BOOLEAN]
          /\ UNCHANGED <<sent, got, seen, broken>>
      BY <1>5 DEF Drop, StreamInv, StreamType
    <2>2. ~ shut[e]
      BY <2>1
    <2>3. Promise!Shutdown(e)
      BY <2>1, <2>2 DEF Promise!Shutdown
    <2> QED BY <2>3, OtherEnd DEF Promise!Next
  <1>6. ASSUME NEW e \in End, Read(e) PROVE Promise!Next
    <2> DEFINE o == Other(e)
               n == Len(got[e])
    <2>1. Head(link[e].outb) = n + 1 /\ n < Len(sent[o])
      BY <1>6, ReadInv
    <2>2. ~ seen[e]
      BY <1>6 DEF Read, StreamInv, Pipes, Pipe
    <2>3. sent[o][n + 1] = n + 1
      <3>1. /\ o \in End /\ n \in Nat /\ Len(sent[o]) \in Nat /\ Run(sent[o], 0)
        BY LinkAt, Ends2 DEF StreamInv, Ways, WayFrom, Way
      <3>2. n + 1 \in 1 .. Len(sent[o]) /\ 0 + (n + 1) = n + 1
        BY <2>1, <3>1
      <3> QED BY <3>1, <3>2 DEF Run
    <2>4. /\ got' = [got EXCEPT ![e] = Append(@, sent[o][n + 1])]
          /\ UNCHANGED <<sent, shut, seen, broken>>
      BY <1>6, <2>1, <2>3 DEF Read
    <2>5. Promise!Read(e)
      BY <2>1, <2>2, <2>4, OtherEnd DEF Promise!Read
    <2> QED BY <2>5, OtherEnd DEF Promise!Next
  <1>7. ASSUME NEW e \in End, ReadEof(e) PROVE Promise!Next
    <2>1. Promise!ReadEof(e)
      BY <1>7, EofIsTrue, OtherEnd DEF ReadEof, Promise!ReadEof
    <2> QED BY <2>1, OtherEnd DEF Promise!Next
  <1>8. ASSUME NEW e \in End,
               \/ Age(e) \/ Drain(e) \/ AnswerDrain(e)
               \/ Deliver(e) \/ Ack(e) \/ DeliverFin(e) \/ AckFin(e)
               \/ TimeWaitOver(e) \/ Reset(e)
        PROVE  FALSE
    <2>1. UNCHANGED <<sent, shut, got, seen, broken>>
      BY <1>8 DEF Age, Drain, AnswerDrain, Deliver, Ack, DeliverFin, AckFin, TimeWaitOver, Reset,
                  Net, users
    <2> QED BY <2>1
  <1>9. CASE UNCHANGED vars
    BY <1>9 DEF vars, users
  <1> QED BY <1>1, <1>2, <1>3, <1>4, <1>5, <1>6, <1>7, <1>8, <1>9 DEF Next

\* The runtime's streams implement HalfClose: both directions deliver in order and once,
\* with the end of file after the last byte, each on its own (poll_links).
THEOREM StreamsKeepTheirPromise == Spec => PromiseKept
  <1>1. Init => Promise!Init
    BY PromiseInit
  <1>2. StreamInv /\ [Next]_vars => [Promise!Next]_(Promise!vars)
    BY PromiseStep
  <1> QED BY <1>1, <1>2, StreamsAreConsistent, PTL DEF Spec, PromiseKept, Promise!Spec
=============================================================================
