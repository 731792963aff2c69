----------------------------- MODULE ShellProofs -----------------------------
(***************************************************************************)
(* Proofs about ShellSession, for queues, pipes and inputs of any size.    *)
(*                                                                         *)
(* No chunk of output is lost while the client is there: what the program  *)
(* and the processes it left behind wrote is delivered, queued or in the   *)
(* pipe (Conserved), and a session that ended in order had drained both,   *)
(* with nobody left to write more (EndedDrained).                          *)
(***************************************************************************)
EXTENDS ShellSession, TLAPS

Counts ==
    /\ kind \in {"pty", "pipes", "exec"} /\ over \in {"no", "status", "failed"}
    /\ asked \in Nat /\ waiting \in Nat /\ waiting <= asked
    /\ written \in Nat /\ delivered \in Nat /\ tout \in Nat /\ outq \in Nat
    /\ inside \in BOOLEAN /\ stdin \in BOOLEAN

\* A chunk held by the input side was sent.
InputWasAsked == inside => asked > 0

Conserved == client # "closed" => written = delivered + outq + tout

EndedDrained ==
    client # "closed" =>
        /\ over = "status" => Drained
        /\ over = "failed" => kind = "exec" /\ asked > 0

OutputInv == Counts /\ InputWasAsked /\ Conserved /\ EndedDrained

-----------------------------------------------------------------------------
LEMMA OutputInit == Init => OutputInv
  <1> SUFFICES ASSUME Init PROVE OutputInv
    OBVIOUS
  <1>1. Counts
    <2>1. kind \in {"pty", "pipes", "exec"} /\ over = "no" /\ ~ inside /\ stdin
      BY DEF Init
    <2>2. asked = 0 /\ waiting = 0 /\ written = 0 /\ delivered = 0 /\ tout = 0 /\ outq = 0
      BY DEF Init
    <2>3. inside \in BOOLEAN /\ stdin \in BOOLEAN
      BY Zenon DEF Init
    <2> QED BY <2>1, <2>2, <2>3 DEF Counts
  <1>2. InputWasAsked
    BY DEF Init, InputWasAsked
  <1>3. Conserved
    BY DEF Init, Conserved
  <1>4. EndedDrained
    BY DEF Init, EndedDrained
  <1> QED BY <1>1, <1>2, <1>3, <1>4 DEF OutputInv

LEMMA OutputStep == OutputInv /\ [Next]_vars => OutputInv'
  <1> SUFFICES ASSUME OutputInv, [Next]_vars PROVE OutputInv'
    OBVIOUS
  <1> USE DEF OutputInv, Counts, InputWasAsked, Conserved, EndedDrained, fixed, input, processes, output,
             Drained, Alive
  <1>1. CASE Send
    BY <1>1 DEF Send
  <1>2. ASSUME NEW how \in {"eof", "closed"}, Finish(how) PROVE OutputInv'
    BY <1>2 DEF Finish
  <1>3. CASE TakeChunk
    BY <1>3 DEF TakeChunk
  <1>4. CASE PassChunk
    BY <1>4 DEF PassChunk
  <1>5. CASE PassFails
    BY <1>5 DEF PassFails
  <1>6. CASE WriterThread
    BY <1>6 DEF WriterThread
  <1>7. CASE NoticeEnd
    BY <1>7 DEF NoticeEnd, Kills, Killed
  <1>8. CASE ReaderThread
    BY <1>8 DEF ReaderThread
  <1>9. CASE Deliver
    BY <1>9 DEF Deliver, Free, Killed
  <1>10. CASE Reap
    BY <1>10 DEF Reap
  <1>11. CASE EndSession
    <2>1. Drained
      BY <1>11 DEF EndSession, Done
    <2> QED BY <1>11, <2>1 DEF EndSession
  <1>12. CASE Read
    BY <1>12 DEF Read
  <1>13. CASE Write
    <2>1. over # "status" \/ client = "closed"
      BY <1>13 DEF Write
    <2> QED BY <1>13, <2>1 DEF Write
  <1>14. CASE CloseOutput
    BY <1>14 DEF CloseOutput
  <1>15. CASE Exit
    BY <1>15 DEF Exit
  <1>16. CASE Fork
    BY <1>16 DEF Fork
  <1>17. CASE UNCHANGED vars
    BY <1>17 DEF vars
  <1> QED
    BY <1>1, <1>2, <1>3, <1>4, <1>5, <1>6, <1>7, <1>8, <1>9, <1>10, <1>11, <1>12, <1>13,
       <1>14, <1>15, <1>16, <1>17 DEF Next

\* A session that ended while its client was there delivered all output, whatever
\* the sizes of the queues and the timing of the program's end; an exec session
\* may fail instead when the program left input unread.
THEOREM NoOutputIsLost == Spec => []OutputComplete
  <1>1. OutputInv => OutputComplete
    BY DEF OutputInv, Counts, Conserved, EndedDrained, Drained, OutputComplete
  <1> QED BY <1>1, OutputInit, OutputStep, PTL DEF Spec
=============================================================================
