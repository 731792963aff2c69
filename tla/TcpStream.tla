------------------------------ MODULE TcpStream ------------------------------
(***************************************************************************)
(* One TCP connection of the runtime actor (src/src/runtime.rs), at both   *)
(* ends: the application's DuplexStream, the Link that pumps it, and the   *)
(* smoltcp socket underneath.                                              *)
(*                                                                         *)
(*   application  -- inb -->  Link  -- tx -->  socket  ~~>  the other end  *)
(*   application  <-- outb -- Link  <-- rx --  socket  <~~  the other end  *)
(*                                                                         *)
(* The operators from Handover to Reap are the steps of poll_links() on    *)
(* one link, in their order; Poll is the whole pass.  The socket is        *)
(* external: smoltcp as the code uses it, a stream that retransmits until  *)
(* acknowledged, gives up after 60 s (Timeout), and answers a segment for  *)
(* no socket with a reset (Reset).  Bytes are numbered, so a lost,         *)
(* repeated or reordered one shows.                                        *)
(***************************************************************************)
EXTENDS Naturals, Sequences, FiniteSets

CONSTANTS
    Cap,        \* BUFFER_SIZE, of each of the four buffers
    MaxBytes,   \* MaxBytes[e]: bound on the bytes end e writes
    MaxDrains,  \* bound on the drains
    MayFail     \* whether the network may fail for 60 seconds

End == {"client", "server"}
Other(e) == IF e = "client" THEN "server" ELSE "client"

ASSUME StreamAssumption ==
    /\ Cap \in Nat \ {0}
    /\ MaxBytes \in [End -> Nat]
    /\ MaxDrains \in 0 .. 2
    /\ MayFail \in BOOLEAN

VARIABLES
    link,     \* link[e]: the Link of end e with its socket and its pipe
    ack3,     \* the client's last handshake ACK is on its way or received
    dial,     \* the dialing caller: its oneshot and what came of it
    sent,     \* sent[e]: the bytes e's application wrote
    shut,     \* shut[e]: e's application ended its writing
    gone,     \* gone[e]: e's application dropped the stream
    got,      \* got[e]: the bytes e's application read
    seen,     \* seen[e]: e's application read the end of file
    drain,    \* drain[e]: a Drain command of e's actor
    broken    \* history: the connection was cut

users == <<sent, shut, gone, got, seen, drain>>
vars == <<link, ack3, dial, users, broken>>

TcpState == {"None", "Listen", "SynSent", "SynReceived", "Established",
             "FinWait1", "FinWait2", "CloseWait", "Closing", "LastAck",
             "TimeWait", "Closed"}

LinkType ==
    [state : TcpState,          \* "None" when there is no link
     app : {"kept", "given"},   \* Link.app: Some until handed over
     inb : Seq(Nat), tx : Seq(Nat),
     dlv : Nat,                 \* bytes of tx delivered, not yet acknowledged
     finin : BOOLEAN,           \* the FIN was delivered
     rx : Seq(Nat), outb : Seq(Nat),
     eof : BOOLEAN,             \* the pipe to the application ends after outb
     write_closed : BOOLEAN, read_closed : BOOLEAN,
     old : BOOLEAN]             \* Link.started is more than 20 s ago

\* A new Link around a socket in the given state.
Fresh(state) ==
    [state |-> state, app |-> "kept", inb |-> <<>>, tx |-> <<>>, dlv |-> 0,
     finin |-> FALSE, rx |-> <<>>, outb |-> <<>>, eof |-> FALSE,
     write_closed |-> FALSE, read_closed |-> FALSE, old |-> FALSE]

Smaller(m, n) == IF m < n THEN m ELSE n
Front(s, n) == SubSeq(s, 1, n)
Rest(s, n) == SubSeq(s, n + 1, Len(s))

-----------------------------------------------------------------------------
(* smoltcp, as poll_links() sees it.                                       *)

MayRecv(l) == l.state \in {"Established", "FinWait1", "FinWait2"} \/ l.rx # <<>>
CanSend(l) == l.state \in {"Established", "CloseWait"} /\ Len(l.tx) < Cap
Abort(l) == [l EXCEPT !.state = "Closed"]
Close(l) == [l EXCEPT !.state = IF @ = "Established" THEN "FinWait1" ELSE "LastAck"]

FinSent(l) == l.state \in {"FinWait1", "Closing", "LastAck"}
Sending(l) == FinSent(l) \/ (l.state \in {"Established", "CloseWait"} /\ l.tx # <<>>)

-----------------------------------------------------------------------------
(* poll_links(), step by step, on the link l of end e.                     *)

\* The application end of the pipe does not exist any more: dropped by its
\* owner, or never taken because the dialing caller went away.
Dropped(e) == gone[e] \/ (e = "client" /\ dial = "cancelled")

Cancelled(e) == e = "client" /\ dial = "cancelled"

\* An established connection is handed to the dialing caller or its handler;
\* a caller that went away, or a handshake older than 20 seconds, aborts it.
\* The mutant waits for the handshake for ever.
HandoverPatient(e, l) ==
    IF l.app = "kept" /\ l.state \in {"Established", "CloseWait"}
      THEN [l EXCEPT !.app = "given", !.state = IF Cancelled(e) THEN "Closed" ELSE @]
    ELSE l

Handover(e, l) ==
    IF l.app = "kept" /\ l.state \in {"Established", "CloseWait"}
      THEN [l EXCEPT !.app = "given", !.state = IF Cancelled(e) THEN "Closed" ELSE @]
    ELSE IF l.app = "kept" /\ (Cancelled(e) \/ l.old)
      THEN Abort(l)
    ELSE l

\* From the pipe into the socket, and a FIN after the last byte.
Take(e, l) ==
    IF ~ CanSend(l) \/ l.write_closed \/ l.app = "kept" THEN l
    ELSE IF l.inb = <<>> /\ (shut[e] \/ Dropped(e))
      THEN Close([l EXCEPT !.write_closed = TRUE])
    ELSE LET n == Smaller(Len(l.inb), Cap - Len(l.tx))
         IN  [l EXCEPT !.tx = @ \o Front(l.inb, n), !.inb = Rest(@, n)]

\* From the socket into the pipe, as much as fits; what a departed reader
\* would have read is thrown away.  The mutants consume all of it, and keep it for
\* a departed reader.
PushKeeps(e, l) ==
    IF l.app = "kept" \/ l.rx = <<>> \/ Dropped(e) THEN l
    ELSE LET n == Smaller(Len(l.rx), Cap - Len(l.outb))
         IN  [l EXCEPT !.outb = @ \o Front(l.rx, n), !.rx = Rest(@, n)]

PushAll(e, l) ==
    IF l.app = "kept" \/ l.rx = <<>> THEN l
    ELSE IF Dropped(e) THEN [l EXCEPT !.rx = <<>>, !.read_closed = TRUE]
    ELSE LET n == Smaller(Len(l.rx), Cap - Len(l.outb))
         IN  [l EXCEPT !.outb = @ \o Front(l.rx, n), !.rx = <<>>]

Push(e, l) ==
    IF l.app = "kept" \/ l.rx = <<>> THEN l
    ELSE IF Dropped(e) THEN [l EXCEPT !.rx = <<>>, !.read_closed = TRUE]
    ELSE LET n == Smaller(Len(l.rx), Cap - Len(l.outb))
         IN  [l EXCEPT !.outb = @ \o Front(l.rx, n), !.rx = Rest(@, n)]

\* poll_shutdown once nothing more can be received.  The mutant never does it.
FinishNever(l) == l

Finish(l) ==
    IF MayRecv(l) \/ l.read_closed \/ l.app = "kept" THEN l
    ELSE [l EXCEPT !.read_closed = TRUE, !.eof = TRUE]

\* A closed link goes, together with its socket and its end of the pipe, unless
\* received bytes wait for the application.
Reap(l) ==
    IF l.state = "Closed" /\ (l.rx = <<>> \/ l.read_closed)
      THEN [Fresh("None") EXCEPT !.app = l.app, !.outb = l.outb, !.eof = TRUE,
                                 !.finin = l.finin]
      ELSE l

\* One pass of poll_links() over the link of end e.
Poll(e) ==
    \E offered \in {Handover(e, link[e])} :
    \E taken \in {Take(e, offered)} :
    \E pushed \in {Push(e, taken)} :
    \E after \in {Reap(Finish(pushed))} :
        /\ link[e].state # "None"
        /\ link' = [link EXCEPT ![e] = after]
        /\ dial' = IF e = "server" \/ dial # "waiting" THEN dial
                   ELSE IF after.app = "given" THEN "ok"
                   ELSE IF after.state = "None" THEN "err"
                   ELSE dial
        /\ broken' = (broken \/ (offered.state = "Closed" /\ link[e].state # "Closed"))
        /\ UNCHANGED <<ack3, users>>

-----------------------------------------------------------------------------
(* Commands and applications.                                              *)

\* Command::Dial: a link in SynSent, or an error when the table is full.
Dial ==
    /\ dial = "none"
    /\ \/ dial' = "waiting" /\ link' = [link EXCEPT !["client"] = Fresh("SynSent")]
       \/ dial' = "err" /\ UNCHANGED link
    /\ UNCHANGED <<ack3, users, broken>>

\* The caller drops its dial, or the 20 seconds of dial_tcp() end.
Cancel ==
    /\ dial = "waiting"
    /\ dial' = "cancelled"
    /\ UNCHANGED <<link, ack3, users, broken>>

\* receive_ip() on a SYN for a served port: a link in Listen, which takes the
\* SYN; a socket that fell back to Listen takes a repeated one.
SynArrives ==
    /\ link["client"].state = "SynSent"
    /\ link["server"].state \in {"None", "Listen"}
    /\ link' = [link EXCEPT !["server"] =
           IF @.state = "None" THEN Fresh("SynReceived") ELSE [@ EXCEPT !.state = "SynReceived"]]
    /\ UNCHANGED <<ack3, dial, users, broken>>

\* Link.started turns older than 20 seconds.
Age(e) ==
    /\ link[e].state # "None" /\ link[e].app = "kept" /\ ~ link[e].old
    /\ link' = [link EXCEPT ![e].old = TRUE]
    /\ UNCHANGED <<ack3, dial, users, broken>>

Holds(e) ==
    /\ link[e].app = "given"
    /\ ~ Dropped(e)

Write(e) ==
    /\ Holds(e) /\ ~ shut[e] /\ link[e].state # "None"
    /\ Len(link[e].inb) < Cap /\ Len(sent[e]) < MaxBytes[e]
    /\ link' = [link EXCEPT ![e].inb = Append(@, Len(sent[e]) + 1)]
    /\ sent' = [sent EXCEPT ![e] = Append(@, Len(@) + 1)]
    /\ UNCHANGED <<ack3, dial, shut, gone, got, seen, drain, broken>>

Shutdown(e) ==
    /\ Holds(e) /\ ~ shut[e]
    /\ shut' = [shut EXCEPT ![e] = TRUE]
    /\ UNCHANGED <<link, ack3, dial, sent, gone, got, seen, drain, broken>>

Read(e) ==
    /\ Holds(e) /\ link[e].outb # <<>>
    /\ got' = [got EXCEPT ![e] = Append(@, Head(link[e].outb))]
    /\ link' = [link EXCEPT ![e].outb = Tail(@)]
    /\ UNCHANGED <<ack3, dial, sent, shut, gone, seen, drain, broken>>

ReadEof(e) ==
    /\ Holds(e) /\ link[e].outb = <<>> /\ link[e].eof /\ ~ seen[e]
    /\ seen' = [seen EXCEPT ![e] = TRUE]
    /\ UNCHANGED <<link, ack3, dial, sent, shut, gone, got, drain, broken>>

Drop(e) ==
    /\ Holds(e)
    /\ gone' = [gone EXCEPT ![e] = TRUE]
    /\ shut' = [shut EXCEPT ![e] = TRUE]
    /\ UNCHANGED <<link, ack3, dial, sent, got, seen, drain, broken>>

\* Command::Drain, from a user of the stream.
Drain(e) ==
    /\ Cardinality({x \in End : drain[x] # "no"}) < MaxDrains
    /\ link[e].app = "given" /\ ~ Cancelled(e) /\ drain[e] = "no"
    /\ drain' = [drain EXCEPT ![e] = "waiting"]
    /\ UNCHANGED <<link, ack3, dial, sent, shut, gone, got, seen, broken>>

\* The states in which tick() answers the drains.  The mutants answer once the
\* FIN is on its way, and wait for the other side to finish too.
DrainedBothWays(l) == l.state \in {"None", "Closed", "TimeWait"}

DrainedOnFin(l) == l.state \in {"None", "Closed", "TimeWait", "FinWait1", "FinWait2", "LastAck"}

Drained(l) == l.state \in {"None", "Closed", "TimeWait", "FinWait2"}

AnswerDrain(e) ==
    /\ drain[e] = "waiting" /\ Drained(link[e])
    /\ drain' = [drain EXCEPT ![e] = "done"]
    /\ UNCHANGED <<link, ack3, dial, sent, shut, gone, got, seen, broken>>

-----------------------------------------------------------------------------
(* The network and the sockets.                                            *)

Net(newLink) ==
    /\ link' = newLink
    /\ UNCHANGED <<ack3, dial, users, broken>>

\* The server's SYN|ACK reaches the client; the client's ACK the server.
SynAck ==
    /\ link["client"].state = "SynSent" /\ link["server"].state = "SynReceived"
    /\ link' = [link EXCEPT !["client"].state = "Established"]
    /\ ack3' = TRUE
    /\ UNCHANGED <<dial, users, broken>>

HandshakeAck ==
    /\ ack3 /\ link["server"].state = "SynReceived"
    /\ Net([link EXCEPT !["server"].state = "Established"])

\* The next byte of e reaches the other end, which has room for it.
Deliver(e) ==
    LET o == Other(e) IN
    /\ FinSent(link[e]) \/ link[e].state \in {"Established", "CloseWait"}
    /\ link[e].dlv < Len(link[e].tx)
    /\ link[o].state \in {"Established", "FinWait1", "FinWait2"}
    /\ Len(link[o].rx) < Cap
    /\ Net([link EXCEPT ![o].rx = Append(@, link[e].tx[link[e].dlv + 1]),
                        ![e].dlv = @ + 1])

Ack(e) ==
    /\ link[e].dlv > 0
    /\ Net([link EXCEPT ![e].tx = Rest(@, link[e].dlv), ![e].dlv = 0])

\* The FIN of e follows its last byte.
DeliverFin(e) ==
    LET o == Other(e) IN
    /\ FinSent(link[e]) /\ ~ link[e].finin
    /\ link[e].dlv = Len(link[e].tx)
    /\ link[o].state \in {"Established", "FinWait1", "FinWait2"}
    /\ Net([link EXCEPT ![e].finin = TRUE,
                        ![o].state = CASE @ = "Established" -> "CloseWait"
                                       [] @ = "FinWait1" -> "Closing"
                                       [] @ = "FinWait2" -> "TimeWait"])

AckFin(e) ==
    /\ FinSent(link[e]) /\ link[e].finin
    /\ Net([link EXCEPT ![e].tx = <<>>, ![e].dlv = 0,
                        ![e].state = CASE @ = "FinWait1" -> "FinWait2"
                                       [] @ = "Closing" -> "TimeWait"
                                       [] @ = "LastAck" -> "Closed"])

\* The 10 seconds of TIME-WAIT end.
TimeWaitOver(e) ==
    /\ link[e].state = "TimeWait"
    /\ Net([link EXCEPT ![e].state = "Closed"])

\* A segment of e meets no connection at the other end, which answers with a
\* reset.  A socket that was listening listens again.
Reset(e) ==
    /\ \/ /\ Sending(link[e]) \/ link[e].state = "SynReceived"
          /\ link[Other(e)].state \in {"None", "Listen", "Closed"}
       \/ link[e].state = "SynSent" /\ link[Other(e)].state = "None"
    /\ Net([link EXCEPT ![e].state = IF @ = "SynReceived" THEN "Listen" ELSE "Closed"])

\* Nothing e sends is acknowledged for 60 seconds.
Timeout(e) ==
    /\ MayFail /\ Sending(link[e])
    /\ link' = [link EXCEPT ![e].state = "Closed"]
    /\ broken' = TRUE
    /\ UNCHANGED <<ack3, dial, users>>

-----------------------------------------------------------------------------
Init ==
    /\ link = [e \in End |-> Fresh("None")]
    /\ ack3 = FALSE
    /\ dial = "none"
    /\ sent = [e \in End |-> <<>>]
    /\ shut = [e \in End |-> FALSE]
    /\ gone = [e \in End |-> FALSE]
    /\ got = [e \in End |-> <<>>]
    /\ seen = [e \in End |-> FALSE]
    /\ drain = [e \in End |-> "no"]
    /\ broken = FALSE

Next ==
    \/ Dial \/ Cancel \/ SynArrives \/ SynAck \/ HandshakeAck
    \/ \E e \in End :
          \/ Poll(e) \/ Age(e)
          \/ Write(e) \/ Shutdown(e) \/ Read(e) \/ ReadEof(e) \/ Drop(e)
          \/ Drain(e) \/ AnswerDrain(e)
          \/ Deliver(e) \/ Ack(e) \/ DeliverFin(e) \/ AckFin(e)
          \/ TimeWaitOver(e) \/ Reset(e) \/ Timeout(e)

Spec == Init /\ [][Next]_vars

\* Each actor ticks every 2 ms and its links grow old.
\* An established connection retransmits, and an application that holds a
\* stream keeps reading; these steps are finitely many in any run, so it is
\* enough that one is taken while some are possible.  No handshake has to
\* succeed, and nobody has to write, finish, drop or drain.
Progress(e) ==
    \/ AnswerDrain(e) \/ Read(e) \/ ReadEof(e)
    \/ Deliver(e) \/ Ack(e) \/ DeliverFin(e) \/ AckFin(e)
    \/ TimeWaitOver(e)
    \/ Sending(link[e]) /\ Reset(e)

FairSpec ==
    /\ Spec
    /\ \A e \in End : WF_vars(Poll(e)) /\ WF_vars(Age(e))
    /\ WF_vars(\E e \in End : Progress(e))

-----------------------------------------------------------------------------
(***************************************************************************)
(* Properties                                                              *)
(***************************************************************************)

\* Links, pipes and sockets implement the stream promised to their users: bytes
\* in order and once, end of file after the last byte and only once the writer
\* has finished, each direction on its own (poll_links).
Promise == INSTANCE HalfClose WITH
    sent <- sent, shut <- shut, got <- got, seen <- seen, broken <- broken
PromiseKept == Promise!Spec

\* A drain is answered only when nothing this end wrote can be lost by closing
\* the actor: unless the connection was cut, the application had finished, and
\* the other end's socket has all of its bytes and its FIN (tick).
DrainSound ==
    \A e \in End : LET o == Other(e) IN
        drain[e] = "done" /\ ~ broken =>
            /\ shut[e] /\ link[e].finin
            /\ gone[o] \/ (sent[e] = got[o] \o link[o].outb \o link[o].rx)

\* A dial that waits is answered, accepted or refused, whatever the server and
\* the network do (poll_links: the 20 second abort, the reap).
DialResolved == dial = "waiting" ~> dial # "waiting"

\* Half-close: once one application ends its writing, the other one reads all of
\* it and its end of file, whether or not it ever finishes itself.
ShutdownArrives ==
    \A e \in End : shut[e] ~> (broken \/ gone[Other(e)] \/
                            (seen[Other(e)] /\ got[Other(e)] = sent[e]))

\* A drain after the end of writing completes even when the other side goes on.
DrainEnds == \A e \in End : drain[e] = "waiting" /\ shut[e] ~> drain[e] = "done"

\* Once both applications have dropped the stream both links are reclaimed, so
\* that they do not count against MAX_CONNECTIONS for ever.
LinksReclaimed ==
    (\A e \in End : gone[e]) ~> (\A e \in End : link[e].state = "None")
=============================================================================
