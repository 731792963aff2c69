---------------------------- MODULE PerfSession -----------------------------
(***************************************************************************)
(* Performance tests (src/src/perf.rs): the server runs one at a time.  A  *)
(* test has a control connection, over which the two sides exchange        *)
(* messages in order, and data streams, which reach the server on          *)
(* connections or flows of their own and name their test.                  *)
(*                                                                         *)
(* A test stands for its id.  Bytes, statistics, pings and progress        *)
(* reports are left out, and so are requests no client of this program     *)
(* makes: invalid parameters, and stream numbers that are repeated or out  *)
(* of range.                                                               *)
(***************************************************************************)
EXTENDS Naturals, Sequences

CONSTANTS
    Test,       \* the tests that clients try
    Kinds,      \* the parameters that the tests may have: a set of functions
    NoTest      \* no test

ASSUME PerfAssumption == NoTest \notin Test

Side == {"client", "server"}
Peer(x) == IF x = "client" THEN "server" ELSE "client"

VARIABLES
    kind,       \* kind[t]: Params.proto, dir and streams
    at,         \* at[t][x]: where each side of the test is
    told,       \* told[t][x]: the messages it has sent on the control connection
    heard,      \* heard[t][x]: how many of its peer's it has read
    active,     \* Server.active
    coming,     \* coming[t]: the data streams whose first bytes are on the way
    given,      \* given[t]: the data streams the server's test has, with the test each is of
    sending,    \* sending[t][x]: the streams on which x has more to send
    ended,      \* ended[t][x]: those whose end, sent by x, is on the way
    receiving,  \* receiving[t][x]: the streams on which x expects more
    gaveUp      \* history: the tests that a side gave up or that timed out

control == <<at, told, heard>>
dataVars == <<coming, given>>
transfer == <<sending, ended, receiving>>
perfVars == <<kind, control, active, dataVars, transfer, gaveUp>>

Streams(t) == 1 .. kind[t].streams

\* Params.sends().
Sends(t, x) == kind[t].dir \in {"both", IF x = "client" THEN "up" ELSE "down"}

Placed(t, x, place) == [at EXCEPT ![t][x] = place]
Tell(t, x, m) == [told EXCEPT ![t][x] = Append(@, m)]

\* The next message for x, and what x has heard with it.
Hears(t, x, m) ==
    /\ heard[t][x] < Len(told[t][Peer(x)])
    /\ told[t][Peer(x)][heard[t][x] + 1] = m
    /\ heard' = [heard EXCEPT ![t][x] = @ + 1]
Knows(t, x, m) == \E k \in 1 .. heard[t][x] : told[t][Peer(x)][k] = m
HasTold(t, x, m) == \E k \in 1 .. Len(told[t][x]) : told[t][x][k] = m

Over == {"done", "failed"}
IsOver(t, x) == at[t][x] \in Over
Live(t, x) == at[t][x] # "idle" /\ ~ IsOver(t, x)

-----------------------------------------------------------------------------
\* run_client(): connect and say hello.
Connect(t) ==
    /\ at[t]["client"] = "idle"
    /\ at' = Placed(t, "client", "hello")
    /\ told' = Tell(t, "client", "hello")
    /\ UNCHANGED <<kind, heard, active, dataVars, transfer, gaveUp>>

\* handle_tcp(): a test claims the server or is refused.  The mutant lets the test that is
\* refused drop the claim of the other.
RefusedDrops == NoTest

RefusedLeaves == active

Hello(t) ==
    /\ at[t]["server"] = "idle" /\ Hears(t, "server", "hello")
    /\ IF active = NoTest
       THEN /\ active' = t
            /\ at' = Placed(t, "server", "setup")
            /\ told' = Tell(t, "server", "ok")
       ELSE /\ active' = RefusedLeaves
            /\ at' = Placed(t, "server", "failed")
            /\ told' = Tell(t, "server", "error")
    /\ UNCHANGED <<kind, dataVars, transfer, gaveUp>>

\* The client opens the data streams.
OpenStreams(t) ==
    /\ at[t]["client"] = "hello" /\ Hears(t, "client", "ok")
    /\ at' = Placed(t, "client", "setup")
    /\ coming' = [coming EXCEPT ![t] = Streams(t)]
    /\ UNCHANGED <<kind, told, active, given, transfer, gaveUp>>

\* A UDP stream announces itself every 200 ms, until the server is ready.
Announce(t, i) ==
    /\ at[t]["client"] = "setup" /\ kind[t].udp
    /\ coming' = [coming EXCEPT ![t] = @ \cup {i}]
    /\ UNCHANGED <<kind, control, active, given, transfer, gaveUp>>

LoseAnnouncement(t, i) ==
    /\ kind[t].udp /\ i \in coming[t]
    /\ coming' = [coming EXCEPT ![t] = @ \ {i}]
    /\ UNCHANGED <<kind, control, active, given, transfer, gaveUp>>

\* attach(): a stream goes to the test it names, if that is the one now.  The mutant
\* gives it to any of its protocol.
NamesAny(t) == active # NoTest /\ kind[active].udp = kind[t].udp

Names(t) == active = t

Attach(t, i) ==
    /\ i \in coming[t]
    /\ coming' = [coming EXCEPT ![t] = @ \ {i}]
    /\ given' = IF Names(t) /\ at[active]["server"] = "setup"
                THEN [given EXCEPT ![active] = @ \cup {<<t, i>>}] ELSE given
    /\ UNCHANGED <<kind, control, active, transfer, gaveUp>>

\* run() begins with a task for each stream and direction it uses.
Begins(t, x) ==
    /\ at' = Placed(t, x, "run")
    /\ sending' = [sending EXCEPT ![t][x] = IF Sends(t, x) THEN Streams(t) ELSE {}]
    /\ receiving' = [receiving EXCEPT ![t][x] = IF Sends(t, Peer(x)) THEN Streams(t) ELSE {}]
    /\ UNCHANGED ended

Ready(t) ==
    /\ at[t]["server"] = "setup" /\ {g[2] : g \in given[t]} = Streams(t)
    /\ Begins(t, "server")
    /\ told' = Tell(t, "server", "ready")
    /\ UNCHANGED <<kind, heard, active, dataVars, gaveUp>>

ClientReady(t) ==
    /\ at[t]["client"] = "setup" /\ Hears(t, "client", "ready")
    /\ Begins(t, "client")
    /\ UNCHANGED <<kind, told, active, dataVars, gaveUp>>

-----------------------------------------------------------------------------
\* send_data(): a stream has sent all, and its end with it.
SendEnd(t, x, i) ==
    /\ at[t][x] = "run" /\ i \in sending[t][x]
    /\ sending' = [sending EXCEPT ![t][x] = @ \ {i}]
    /\ ended' = [ended EXCEPT ![t][x] = @ \cup {i}]
    /\ UNCHANGED <<kind, control, active, dataVars, receiving, gaveUp>>

\* The end of a UDP stream is three datagrams, which may all be lost.
LoseEnd(t, x, i) ==
    /\ kind[t].udp /\ i \in ended[t][x]
    /\ ended' = [ended EXCEPT ![t][x] = @ \ {i}]
    /\ UNCHANGED <<kind, control, active, dataVars, sending, receiving, gaveUp>>

\* receive_data(): the end arrives, or has not arrived some seconds after the peer said that
\* it sent all.  The mutant waits on.
WaitOn(t, x) == FALSE

PastDeadline(t, x) == Knows(t, x, "done")

ReceiveEnd(t, x, i) ==
    /\ at[t][x] = "run" /\ i \in receiving[t][x]
    /\ i \in ended[t][Peer(x)] \/ PastDeadline(t, x)
    /\ receiving' = [receiving EXCEPT ![t][x] = @ \ {i}]
    /\ ended' = [ended EXCEPT ![t][Peer(x)] = @ \ {i}]
    /\ UNCHANGED <<kind, control, active, dataVars, sending, gaveUp>>

\* run(): each side says what it sent and what it received,
Report(t, x) ==
    /\ at[t][x] = "run"
    /\ \/ /\ Sends(t, x) /\ sending[t][x] = {} /\ ~ HasTold(t, x, "done")
          /\ told' = Tell(t, x, "done")
       \/ /\ Sends(t, Peer(x)) /\ receiving[t][x] = {} /\ ~ HasTold(t, x, "result")
          /\ told' = Tell(t, x, "result")
    /\ UNCHANGED <<kind, at, heard, active, dataVars, transfer, gaveUp>>

\* reads what the other says,
Listen(t, x) ==
    /\ at[t][x] = "run"
    /\ \E m \in {"done", "result"} : Hears(t, x, m)
    /\ UNCHANGED <<kind, at, told, active, dataVars, transfer, gaveUp>>

\* and is done with both.
Complete(t, x) ==
    /\ Sends(t, x) => HasTold(t, x, "done") /\ Knows(t, x, "result")
    /\ Sends(t, Peer(x)) => HasTold(t, x, "result") /\ Knows(t, x, "done")

\* A side of a test is over; the server's claim is dropped with it, whatever the reason.
Leave(t, x, place) ==
    /\ at' = Placed(t, x, place)
    /\ active' = IF x = "server" THEN NoTest ELSE active
    /\ UNCHANGED <<kind, told, dataVars, transfer>>

Finish(t, x) ==
    /\ at[t][x] = "run" /\ Complete(t, x)
    /\ Leave(t, x, "done")
    /\ UNCHANGED <<heard, gaveUp>>

\* A side that reads the control connection, as the server does not in "setup", fails with
\* "error" or the end of it.
Refused(t) ==
    /\ at[t]["client"] = "hello" /\ Hears(t, "client", "error")
    /\ Leave(t, "client", "failed")
    /\ UNCHANGED gaveUp

PeerClosed(t, x) ==
    /\ IsOver(t, Peer(x)) /\ heard[t][x] = Len(told[t][Peer(x)])
    /\ at[t][x] \in {"hello", "run"} \/ (x = "client" /\ at[t][x] = "setup")
    /\ at[t][x] = "run" => ~ Complete(t, x)
    /\ Leave(t, x, "failed")
    /\ UNCHANGED <<heard, gaveUp>>

\* The server waits 15 seconds for the data streams.
SetupTimeout(t) ==
    /\ at[t]["server"] = "setup"
    /\ Leave(t, "server", "failed")
    /\ UNCHANGED <<heard, gaveUp>>

\* A client is stopped or no longer waits, or a test takes more than 630 seconds.
GiveUp(t, x) ==
    /\ Live(t, x) /\ (x = "server" => at[t][x] = "run")
    /\ gaveUp' = gaveUp \cup {t}
    /\ Leave(t, x, "failed")
    /\ UNCHANGED heard

-----------------------------------------------------------------------------
PerfInit ==
    /\ kind \in Kinds
    /\ at = [t \in Test |-> [x \in Side |-> "idle"]]
    /\ told = [t \in Test |-> [x \in Side |-> <<>>]]
    /\ heard = [t \in Test |-> [x \in Side |-> 0]]
    /\ active = NoTest
    /\ coming = [t \in Test |-> {}]
    /\ given = [t \in Test |-> {}]
    /\ sending = [t \in Test |-> [x \in Side |-> {}]]
    /\ ended = [t \in Test |-> [x \in Side |-> {}]]
    /\ receiving = [t \in Test |-> [x \in Side |-> {}]]
    /\ gaveUp = {}

\* What is bound to happen.
Advance(t) ==
    \/ Hello(t) \/ OpenStreams(t) \/ Ready(t) \/ ClientReady(t) \/ Refused(t)
    \/ SetupTimeout(t)
    \/ \E x \in Side :
          \/ Report(t, x) \/ Listen(t, x) \/ Finish(t, x) \/ PeerClosed(t, x)
          \/ \E i \in Streams(t) : SendEnd(t, x, i) \/ ReceiveEnd(t, x, i)

PerfNext ==
    \E t \in Test :
       \/ Connect(t) \/ Advance(t)
       \/ \E i \in Streams(t) : Announce(t, i) \/ LoseAnnouncement(t, i) \/ Attach(t, i)
       \/ \E x \in Side :
             GiveUp(t, x) \/ \E i \in Streams(t) : LoseEnd(t, x, i)

\* Tasks of both processes run, the control connection delivers, and timers fire.  Nothing
\* makes a data stream arrive.
PerfFairness == \A t \in Test : WF_perfVars(Advance(t))

PerfSpec == PerfInit /\ [][PerfNext]_perfVars /\ PerfFairness

-----------------------------------------------------------------------------
(***************************************************************************)
(* Properties                                                              *)
(***************************************************************************)

\* "the server is busy with another test": the claim is held by the one test that the
\* server sets up or runs, however tests end, are refused or are given up, and a test
\* has no data stream of another, although streams arrive after their test is over
\* (handle_tcp, Release, attach).
OneTestAtATime ==
    /\ \A t \in Test :
          /\ active = t <=> at[t]["server"] \in {"setup", "run"}
          /\ given[t] \subseteq {t} \X Streams(t)

\* The server is not busy for ever; and a test it got ready for ends well on both sides,
\* with all results exchanged, unless one gives it up, although the ends of UDP streams
\* may be lost (receive_data, run).
EndsWell(t) == t \in gaveUp \/ \A x \in Side : at[t][x] = "done"

TestsEnd ==
    \A t \in Test :
       active = t ~> active # t /\ (HasTold(t, "server", "ready") => EndsWell(t))
=============================================================================
