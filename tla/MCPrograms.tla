----------------------------- MODULE MCPrograms -----------------------------
(***************************************************************************)
(* What server commands offer, the files that processes share and the      *)
(* programs built on the library, checked in one run: each behaviour is    *)
(* one of Serving, SftpFiles, MapCache, KeyFiles, PerfSession, SocksProxy  *)
(* or BrowserEngine, which have no variable in common, while the others    *)
(* rest.                                                                   *)
(***************************************************************************)
EXTENDS Serving, SftpFiles, MapCache, KeyFiles, PerfSession, SocksProxy, BrowserEngine

CONSTANTS
    port80, port22, port5201,   \* ports
    t1, t2                      \* tests of throughput

VARIABLE subject    \* the component of this behaviour

Subject == {"serving", "sftp", "map", "key", "perf", "socks", "browser"}

programsVars == <<servingVars, sftpVars, mapVars, keyVars, perfVars, socksVars,
                  browserVars, subject>>

\* All services and options, with no port, one that no service has and the services' own.
AllCommandLines ==
    {line \in CommandLine :
        line.ports \in {{}, {port80}, {port22, port80}, {port5201}}}

\* Reading; changing a file there is; uploading in the ways clients do.
OpenFlags == {{"READ"}, {"READ", "WRITE"}, {"APPEND"}, {"WRITE", "CREATE"},
              {"WRITE", "CREATE", "TRUNCATE"}, {"WRITE", "CREATE", "EXCLUDE"}}

\* Two tests over TCP, one of them in both directions; and one over UDP with two streams
\* and one over TCP.
Params(udp, dir, streams) == [udp |-> udp, dir |-> dir, streams |-> streams]
Pair(first, second) == [t \in {t1, t2} |-> IF t = t1 THEN first ELSE second]

TestKinds ==
    {Pair(Params(FALSE, "both", 1), Params(FALSE, "up", 1)),
     Pair(Params(TRUE, "down", 2), Params(FALSE, "down", 1))}

\* The line of behaviours in which the server rests.
NoLine == [names |-> {}, ports |-> {}, share |-> FALSE, command |-> FALSE, keys |-> FALSE]

\* A component that rests does so in one of its initial states.
ProgramsInit ==
    /\ ServingInit /\ SftpInit /\ MapInit /\ KeyInit /\ PerfInit /\ SocksInit /\ BrowserInit
    /\ subject \in Subject
    /\ subject # "serving" => asked = NoLine
    /\ subject # "sftp" => mode = "ro" /\ IsDir(At("top", "d"))
    /\ subject # "perf" => ~ kind[t1].udp
    /\ subject # "browser" => listener

ServingSteps ==
    /\ subject = "serving" /\ ServingNext
    /\ UNCHANGED <<sftpVars, mapVars, keyVars, perfVars, socksVars, browserVars, subject>>
SftpSteps ==
    /\ subject = "sftp" /\ SftpNext
    /\ UNCHANGED <<servingVars, mapVars, keyVars, perfVars, socksVars, browserVars, subject>>
MapSteps ==
    /\ subject = "map" /\ MapNext
    /\ UNCHANGED <<servingVars, sftpVars, keyVars, perfVars, socksVars, browserVars, subject>>
KeySteps ==
    /\ subject = "key" /\ KeyNext
    /\ UNCHANGED <<servingVars, sftpVars, mapVars, perfVars, socksVars, browserVars, subject>>
PerfSteps ==
    /\ subject = "perf" /\ PerfNext
    /\ UNCHANGED <<servingVars, sftpVars, mapVars, keyVars, socksVars, browserVars, subject>>
SocksSteps ==
    /\ subject = "socks" /\ SocksNext
    /\ UNCHANGED <<servingVars, sftpVars, mapVars, keyVars, perfVars, browserVars, subject>>
BrowserSteps ==
    /\ subject = "browser" /\ BrowserNext
    /\ UNCHANGED <<servingVars, sftpVars, mapVars, keyVars, perfVars, socksVars, subject>>

ProgramsNext ==
    \/ ServingSteps \/ SftpSteps \/ MapSteps \/ KeySteps
    \/ PerfSteps \/ SocksSteps \/ BrowserSteps

\* A test that has not begun has nothing that is bound to happen.
ProgramsSpec == ProgramsInit /\ [][ProgramsNext]_programsVars /\ PerfFairness
=============================================================================
