---------------------------- MODULE ShellSession ----------------------------
(***************************************************************************)
(* One session of a client with a program run for it: an SSH session with  *)
(* a terminal (run_pty) or without (run_pipes, both in                     *)
(* src/src/services/shell.rs), or a connection of the exec service         *)
(* (exec_handler, src/src/services/process.rs).                            *)
(*                                                                         *)
(*   client -> input side -> [in_tx 8] -> PTY or pipe -> program           *)
(*   client <------------- [out_rx 8] <- PTY or pipe <- program            *)
(*                                                                         *)
(* The two queues exist with a terminal only, where one loop also serves   *)
(* both directions and the end of the program; without one they are        *)
(* separate tasks.  Data is counted in chunks.  The client reads what it   *)
(* is sent.  The program is external, and may start other processes that   *)
(* share its input and output and outlive it.  Those of a filter read a    *)
(* chunk, write it back and end with their input; deaf ones never read,    *)
(* may write, and may close their output and go on; all may end at any     *)
(* time.  The session knows and kills only the process it started, and     *)
(* with a terminal only hangs up on it, on Unix.  Stderr goes the way of   *)
(* stdout.                                                                 *)
(***************************************************************************)
EXTENDS Naturals

CONSTANTS
    QueueCap,    \* the 8 chunks of in_tx and out_tx
    PipeCap,     \* what a pipe, or a direction of the PTY, holds
    MaxInput,    \* bound on the chunks of a client
    MaxOutput    \* bound on the chunks a deaf program writes

ASSUME SessionAssumption ==
    /\ QueueCap \in Nat \ {0} /\ PipeCap \in Nat \ {0}
    /\ MaxInput \in Nat /\ MaxOutput \in Nat

VARIABLES
    kind,       \* "pty", "pipes" or "exec"
    style,      \* the program is a "filter" or "deaf"
    immune,     \* it ignores hangups
    asked,      \* chunks the client has sent
    client,     \* its input is "open", at "eof", or the session is "closed"
    waiting,    \* chunks on their way to the input side
    noticed,    \* what the input side knows of client
    inside,     \* the input side waits to pass a chunk on
    stdin,      \* the session still holds the program's input
    inq,        \* chunks in in_tx
    tin,        \* chunks in the program's input pipe
    program,    \* the process the session started is "running" or has "exited"
    others,     \* processes it started run
    hand,       \* a filter has read a chunk and not written it yet
    outopen,    \* those that run hold their output, or the terminal, open
    written,    \* chunks the program wrote
    tout,       \* chunks in its output pipe
    outq,       \* chunks in out_tx
    delivered,  \* chunks the client got
    reaped,     \* the session has seen the program end
    over        \* "no", "status" when it ended in order, else "failed"

input == <<asked, client, waiting, noticed, inside, stdin, inq, tin>>
processes == <<program, others>>
output == <<outopen, written, tout, outq, delivered>>
fixed == <<kind, style, immune>>
vars == <<fixed, input, processes, hand, output, reaped, over>>

-----------------------------------------------------------------------------
(* The client.                                                             *)

Send ==
    /\ client = "open" /\ over = "no" /\ asked < MaxInput
    /\ asked' = asked + 1
    /\ waiting' = waiting + 1
    /\ UNCHANGED <<fixed, client, noticed, inside, stdin, inq, tin, processes, hand,
                   output, reaped, over>>

Finish(how) ==
    /\ over = "no"
    /\ \/ client = "open" /\ how = "eof"
       \/ client # "closed" /\ how = "closed"
    /\ client' = how
    /\ UNCHANGED <<fixed, asked, waiting, noticed, inside, stdin, inq, tin, processes,
                   hand, output, reaped, over>>

-----------------------------------------------------------------------------
(* The session.                                                            *)

\* Room in a queue or pipe.
Room(n, cap) == n < cap

Alive == program = "running" \/ others

\* Some process can read the input.
Readers == Alive /\ (kind = "pty" => outopen)

\* The part of the session that serves the output is not held up.  With a
\* terminal it is the loop that passes input on.  The mutant has one loop always.
FreeInOneLoop == over = "no" /\ ~ inside

Free == over = "no" /\ (kind = "pty" => ~ inside)

\* The input side takes a chunk; without the program's input it is discarded.
TakeChunk ==
    /\ over = "no" /\ ~ inside /\ waiting > 0 /\ noticed # "closed"
    /\ waiting' = waiting - 1
    /\ inside' = stdin
    /\ UNCHANGED <<fixed, asked, client, noticed, stdin, inq, tin, processes, hand,
                   output, reaped, over>>

\* It passes the chunk on, once there is room.
PassChunk ==
    /\ over = "no" /\ inside /\ Readers
    /\ IF kind = "pty" THEN Room(inq, QueueCap) /\ inq' = inq + 1 /\ UNCHANGED tin
                       ELSE Room(tin, PipeCap) /\ tin' = tin + 1 /\ UNCHANGED inq
    /\ inside' = FALSE
    /\ UNCHANGED <<fixed, asked, client, waiting, noticed, stdin, processes, hand,
                   output, reaped, over>>

\* Nobody reads any more: passing on a chunk fails.  A session of the exec
\* service gives up at once (try_join), the others do without input.
PassFails ==
    /\ over = "no" /\ inside /\ ~ Readers
    /\ inside' = FALSE
    /\ stdin' = (stdin /\ kind = "pty")
    /\ over' = IF kind = "exec" THEN "failed" ELSE over
    /\ UNCHANGED <<fixed, asked, client, waiting, noticed, inq, tin, processes, hand,
                   output, reaped>>

\* The thread that writes into the PTY.
WriterThread ==
    /\ inq > 0
    /\ IF ~ Readers THEN inq' = 0 /\ UNCHANGED tin
       ELSE Room(tin, PipeCap) /\ inq' = inq - 1 /\ tin' = tin + 1
    /\ UNCHANGED <<fixed, asked, client, waiting, noticed, inside, stdin, processes,
                   hand, output, reaped, over>>

\* The output has ended and has all been passed on.
Drained == tout = 0 /\ outq = 0 /\ ~ (Alive /\ outopen)

\* The one process that is killed; with a terminal it is sent a hangup.
Killed == IF kind = "pty" /\ immune THEN program ELSE "exited"

\* Whether the end of the SSH channel kills it.  Without a terminal the end is
\* listened for until the output has ended.  The mutant takes it for the end of
\* the input.
KillsNothing == FALSE

Kills ==
    /\ client = "closed"
    /\ kind = "pty" \/ (kind = "pipes" /\ ~ Drained)

\* The end of the client's input closes the program's; the end of the channel may
\* kill the program, and ends a session without a terminal, whatever other
\* processes still do.
NoticeEnd ==
    /\ over = "no" /\ ~ inside /\ waiting = 0 /\ noticed # client
    /\ noticed' = client
    /\ stdin' = FALSE
    /\ program' = IF Kills THEN Killed ELSE program
    /\ over' = IF Kills /\ kind = "pipes" THEN "status" ELSE over
    /\ UNCHANGED <<fixed, asked, client, waiting, inside, inq, tin, others, hand, output,
                   reaped>>

\* The thread that reads from the PTY.
ReaderThread ==
    /\ kind = "pty" /\ tout > 0 /\ Room(outq, QueueCap)
    /\ tout' = tout - 1
    /\ outq' = outq + 1
    /\ UNCHANGED <<fixed, input, processes, hand, outopen, written, delivered, reaped, over>>

\* A chunk goes to the client.  Once the client is gone that may fail, which ends
\* the session and kills the program (KillOnDrop, kill_on_drop).
Deliver ==
    /\ Free
    /\ IF kind = "pty" THEN outq > 0 /\ outq' = outq - 1 /\ UNCHANGED tout
                       ELSE tout > 0 /\ tout' = tout - 1 /\ UNCHANGED outq
    /\ \/ delivered' = delivered + 1 /\ UNCHANGED <<over, program>>
       \/ /\ client = "closed"
          /\ over' = "failed"
          /\ program' = Killed
          /\ UNCHANGED delivered
    /\ UNCHANGED <<fixed, input, others, hand, outopen, written, reaped>>

\* The loop of a terminal session sees the program end, and closes its input.
Reap ==
    /\ Free /\ kind = "pty" /\ program = "exited" /\ ~ reaped
    /\ reaped' = TRUE
    /\ stdin' = FALSE
    /\ UNCHANGED <<fixed, asked, client, waiting, noticed, inside, inq, tin, processes,
                   hand, output, over>>

\* When the session is over.  The mutants end with the program, whatever output is
\* left, and wait for the client to end its input.
DoneAtExit == program = "exited"

DoneWithInput == program = "exited" /\ Drained /\ ~ stdin

Done ==
    CASE kind = "pty"   -> reaped /\ Drained
      [] kind = "pipes" -> program = "exited" /\ Drained
      [] kind = "exec"  -> program = "exited" /\ Drained /\ ~ stdin

EndSession ==
    /\ Free /\ Done
    /\ over' = "status"
    /\ UNCHANGED <<fixed, input, processes, hand, output, reaped>>

-----------------------------------------------------------------------------
(* The program, and other processes that share its input and output.      *)

\* One of them reads, or they meet the end of their input and end.
Read ==
    /\ Alive /\ style = "filter" /\ ~ hand
    /\ \/ tin > 0 /\ tin' = tin - 1 /\ hand' = TRUE /\ UNCHANGED processes
       \/ /\ tin = 0 /\ inq = 0 /\ ~ inside /\ ~ stdin
          /\ program' = "exited" /\ others' = FALSE
          /\ UNCHANGED <<tin, hand>>
    /\ UNCHANGED <<fixed, asked, client, waiting, noticed, inside, stdin, inq, output,
                   reaped, over>>

Write ==
    /\ Alive /\ outopen /\ Room(tout, PipeCap)
    /\ IF style = "filter" THEN hand ELSE written < MaxOutput
    /\ hand' = FALSE
    /\ written' = written + 1
    /\ tout' = tout + 1
    /\ UNCHANGED <<fixed, input, processes, outopen, outq, delivered, reaped, over>>

CloseOutput ==
    /\ Alive /\ style = "deaf" /\ outopen
    /\ outopen' = FALSE
    /\ UNCHANGED <<fixed, input, processes, hand, written, tout, outq, delivered, reaped, over>>

Fork ==
    /\ program = "running"
    /\ others' = TRUE
    /\ UNCHANGED <<fixed, input, program, hand, output, reaped, over>>

\* The program ends, or the others do.
Exit ==
    /\ \/ program' = "exited" /\ UNCHANGED others
       \/ others' = FALSE /\ UNCHANGED program
    /\ UNCHANGED <<fixed, input, hand, output, reaped, over>>

-----------------------------------------------------------------------------
Init ==
    /\ kind \in {"pty", "pipes", "exec"}
    /\ style \in {"filter", "deaf"}
    /\ asked = 0 /\ client = "open" /\ waiting = 0 /\ noticed = "open"
    /\ inside = FALSE /\ stdin = TRUE
    /\ inq = 0 /\ tin = 0 /\ tout = 0 /\ outq = 0
    /\ immune \in IF kind = "pty" THEN BOOLEAN ELSE {FALSE}
    /\ program = "running" /\ others = FALSE /\ hand = FALSE /\ outopen = TRUE
    /\ written = 0 /\ delivered = 0
    /\ reaped = FALSE
    /\ over = "no"

Next ==
    \/ Send \/ \E how \in {"eof", "closed"} : Finish(how)
    \/ TakeChunk \/ PassChunk \/ PassFails \/ WriterThread \/ NoticeEnd
    \/ ReaderThread \/ Deliver \/ Reap \/ EndSession
    \/ Read \/ Write \/ CloseOutput \/ Fork \/ Exit

Spec == Init /\ [][Next]_vars

\* The tasks and threads of the session run, the client reads, and a filter reads
\* and writes.  The select of a loop is fair to each of its branches.  Nothing
\* else has to happen: no client sends or finishes, no process ends on its own.
FairSpec ==
    /\ Spec
    /\ WF_vars(TakeChunk) /\ WF_vars(PassChunk) /\ WF_vars(PassFails)
    /\ WF_vars(WriterThread) /\ WF_vars(ReaderThread)
    /\ SF_vars(NoticeEnd) /\ SF_vars(Deliver) /\ SF_vars(Reap) /\ SF_vars(EndSession)
    /\ WF_vars(Read) /\ WF_vars(style = "filter" /\ Write)

-----------------------------------------------------------------------------
(***************************************************************************)
(* Properties                                                              *)
(***************************************************************************)

\* "SSH exit status is sent after output is drained": a session that ended while
\* its client was there delivered all that the program wrote.  The one exception
\* is the exec service, which fails when its client sends more than the program
\* cared to read.
OutputComplete ==
    over # "no" /\ client # "closed" =>
        \/ delivered = written
        \/ kind = "exec" /\ over = "failed" /\ asked > 0

\* A session ends with its program, whatever the client does and however full the
\* queues are, unless processes that the program left behind hold its output (without
\* a terminal) or the terminal.  The exec service also waits for the end of the input.
ExitEndsSession ==
    (program = "exited" /\ (kind = "exec" => ~ others /\ client # "open")
                        /\ (others => ~ outopen)) ~> over # "no"

\* All queues of a terminal session are full: the loop waits for room for input
\* and does not look at the output that would make room.
Cycle == kind = "pty" /\ inside /\ hand /\ inq = QueueCap /\ tin = PipeCap
              /\ outq = QueueCap /\ tout = PipeCap

\* After the client has ended its input, a filter gets it all, ends, and so does the
\* session; a terminal session that does not is for ever in the cycle above.
FilterEnds ==
    (style = "filter" /\ client = "eof") ~> (over # "no" \/ client = "closed" \/ []Cycle)

\* A program does not outlive its client's SSH channel.  The exceptions: it ignores the
\* hangup of its terminal; it leaves its input unread while the session waits to pass
\* that on; it has no terminal and has closed its output.  Other processes may outlive it.
GoneClientKills ==
    (client = "closed" /\ kind # "exec") ~>
        (program = "exited" \/ immune \/ []inside \/ (kind = "pipes" /\ []~outopen))
=============================================================================
