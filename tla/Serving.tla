------------------------------- MODULE Serving ------------------------------
(***************************************************************************)
(* What a server offers: the command line of serve and recv               *)
(* (src/src/cli/serving.rs), the handlers it becomes, and the SSH          *)
(* connections that the one of port 22 serves (src/src/services/mod.rs).   *)
(*                                                                         *)
(* The programs that a session runs are in ShellSession, file requests in  *)
(* SftpFiles, performance tests in PerfSession and the admission of        *)
(* clients in Membership.  Environment variables and terminals are left    *)
(* out, and so is the time that connections take.                          *)
(***************************************************************************)
EXTENDS Naturals

CONSTANTS
    Port,         \* the TCP ports that clients try
    SshPort,      \* 22
    PerfPort,     \* 5201
    CommandLines, \* the command lines tried
    Visitor,      \* connections of clients
    Channel       \* channels of an SSH connection

ServiceName == {"ssh", "no-auth-ssh", "files", "exec", "exit-node", "perf"}

\* The names of services and the ports given, and whether there is --files (or the command
\* is recv), a command after "--" and --ssh-authorized-keys.
CommandLine ==
    [names : SUBSET ServiceName, ports : SUBSET Port,
     share : BOOLEAN, command : BOOLEAN, keys : BOOLEAN]

NoChannel == 0    \* where a connection has none

ASSUME ServingAssumption ==
    /\ NoChannel \notin Channel
    /\ {SshPort, PerfPort} \subseteq Port /\ SshPort # PerfPort
    /\ CommandLines \subseteq CommandLine

VARIABLES
    asked,        \* the command line
    phase,        \* "starting", "refused", "serving", "draining" or "closed"
    handler,      \* handler[v]: what a visitor's connection is given to
    user,         \* user[v]: whom an SSH connection was opened for
    channel,      \* channel[v][i]: where a channel of it is
    served        \* history: what was done for visitors, on which channel

visits == <<handler, user, channel>>
servingVars == <<asked, phase, visits, served>>

-----------------------------------------------------------------------------
\* The services, with those that options imply.
Shells == {"ssh", "no-auth-ssh"} \cap asked.names

Services ==
    asked.names
    \cup (IF asked.share THEN {"files"} ELSE {})
    \cup (IF asked.command /\ Shells = {} THEN {"exec"} ELSE {})

Acceptable ==
    /\ ~ ("perf" \in Services /\ PerfPort \in asked.ports)
    /\ "exec" \in Services => asked.command
    /\ ~ (asked.command /\ Shells # {} /\ "files" \in Services)
    /\ Shells # {"ssh", "no-auth-ssh"}
    /\ asked.keys <=> "ssh" \in Services

OneShot == asked.ports = {} /\ Services = {}

\* SshConfig: there is one for shells and for files.
Ssh == {"ssh", "no-auth-ssh", "files"} \cap Services # {}
SshShell == Shells # {}
AuthorizedKeys == "ssh" \in Services

\* served_tcp_ports, and what on_tcp gives a connection to one of them.
ServedTcpPorts ==
    IF OneShot \/ {"exit-node", "exec"} \cap Services # {} THEN Port
    ELSE asked.ports \cup (IF Ssh THEN {SshPort} ELSE {})
                     \cup (IF "perf" \in Services THEN {PerfPort} ELSE {})

OnTcp(p) ==
    IF p = PerfPort /\ "perf" \in Services THEN "perf"
    ELSE IF p = SshPort /\ Ssh THEN "ssh"
    ELSE IF OneShot THEN "stdout"
    ELSE IF p \in asked.ports THEN "port"
    ELSE IF "exec" \in Services THEN "exec"
    ELSE IF "exit-node" \in Services THEN "any port"
    ELSE "none"

\* What is done for v on channel i.
Done(v, i, what) == [to |-> v, on |-> i, what |-> what]
Serve(v, i, what) == served' = served \cup {Done(v, i, what)}

-----------------------------------------------------------------------------
StartServer ==
    /\ phase = "starting" /\ Acceptable
    /\ phase' = "serving"
    /\ UNCHANGED <<asked, visits, served>>

\* Or a file, a key, the command or the relay fails.
Refuse ==
    /\ phase = "starting"
    /\ phase' = "refused"
    /\ UNCHANGED <<asked, visits, served>>

\* Connections are taken until the server is closed.
Open == phase \in {"serving", "draining"}

HandedOver(v, what) ==
    /\ Open /\ handler[v] = "none"
    /\ handler' = [handler EXCEPT ![v] = what]
    /\ served' = served \cup {Done(v, NoChannel, w) : w \in {what} \ {"ssh"}}
    /\ UNCHANGED <<asked, phase, user, channel>>

DialPort(v, p) == p \in ServedTcpPorts /\ OnTcp(p) # "none" /\ HandedOver(v, OnTcp(p))

\* A TCP connection or a UDP flow to an address beyond the server.
DialBeyond(v) == "exit-node" \in Services /\ HandedOver(v, "beyond")

\* A UDP flow to the server itself.
DialUdp(v) == "perf" \in Services /\ HandedOver(v, "perf")

\* A connection ends; the one that was copied to the standard output ends the server.
HangUp(v) ==
    /\ handler[v] \notin {"none", "over"}
    /\ handler' = [handler EXCEPT ![v] = "over"]
    /\ channel' = [channel EXCEPT ![v] =
                      [i \in Channel |-> IF @[i] = "pending" THEN "over" ELSE @[i]]]
    /\ phase' = IF handler[v] = "stdout" /\ phase = "serving" THEN "draining" ELSE phase
    /\ UNCHANGED <<asked, user, served>>

Stop ==
    /\ phase = "serving"
    /\ phase' = "draining"
    /\ UNCHANGED <<asked, visits, served>>

\* Or its address cannot be written where it was asked for.
CloseServer ==
    /\ Open
    /\ phase' = "closed"
    /\ handler' = [v \in Visitor |-> "over"]
    /\ UNCHANGED <<asked, user, channel, served>>

-----------------------------------------------------------------------------
\* auth_none() and auth_publickey(), for a client without a listed key and for one with it.
Authenticate(v, listed) ==
    /\ handler[v] = "ssh" /\ user[v] = "nobody"
    /\ AuthorizedKeys => listed
    /\ user' = [user EXCEPT ![v] = IF AuthorizedKeys THEN "listed" ELSE "anyone"]
    /\ UNCHANGED <<asked, phase, handler, channel, served>>

Becomes(v, i, place) == channel' = [channel EXCEPT ![v][i] = place]

OpenChannel(v, i) ==
    /\ handler[v] = "ssh" /\ user[v] # "nobody" /\ channel[v][i] = "none"
    /\ Becomes(v, i, "pending")
    /\ UNCHANGED <<asked, phase, handler, user, served>>

CloseChannel(v, i) ==
    /\ handler[v] = "ssh" /\ channel[v][i] = "pending"
    /\ Becomes(v, i, "over")
    /\ UNCHANGED <<asked, phase, handler, user, served>>

\* start_shell(), for the requests of a shell and of a command; run() puts the forced
\* command in the place of either.
Program ==
    IF ~ SshShell THEN "notice" ELSE IF asked.command THEN "forced" ELSE "shell"

ShellRequest(v, i) ==
    /\ handler[v] = "ssh" /\ channel[v][i] = "pending"
    /\ Becomes(v, i, "started")
    /\ Serve(v, i, Program)
    /\ UNCHANGED <<asked, phase, handler, user>>

\* subsystem_request(): SFTP, in the shared directory or everywhere.  The mutant does not
\* look for a forced command.
OffersAnySftp == SshShell \/ "files" \in Services

OffersSftp == ~ asked.command /\ (SshShell \/ "files" \in Services)

SubsystemRequest(v, i) ==
    /\ handler[v] = "ssh" /\ channel[v][i] = "pending"
    /\ IF OffersSftp
       THEN /\ Becomes(v, i, "started")
            /\ Serve(v, i, IF "files" \in Services THEN "share" ELSE "all files")
       ELSE UNCHANGED <<channel, served>>
    /\ UNCHANGED <<asked, phase, handler, user>>

\* What was started ends, and so does its channel.
ServiceEnds(v, i) ==
    /\ channel[v][i] = "started"
    /\ Becomes(v, i, "over")
    /\ UNCHANGED <<asked, phase, handler, user, served>>

-----------------------------------------------------------------------------
ServingInit ==
    /\ asked \in CommandLines
    /\ phase = "starting"
    /\ handler = [v \in Visitor |-> "none"]
    /\ user = [v \in Visitor |-> "nobody"]
    /\ channel = [v \in Visitor |-> [i \in Channel |-> "none"]]
    /\ served = {}

ServingNext ==
    \/ StartServer \/ Refuse \/ Stop \/ CloseServer
    \/ \E v \in Visitor :
          \/ DialBeyond(v) \/ DialUdp(v) \/ HangUp(v)
          \/ \E p \in Port : DialPort(v, p)
          \/ \E listed \in BOOLEAN : Authenticate(v, listed)
          \/ \E i \in Channel :
                \/ OpenChannel(v, i) \/ CloseChannel(v, i)
                \/ ShellRequest(v, i) \/ SubsystemRequest(v, i) \/ ServiceEnds(v, i)

ServingSpec == ServingInit /\ [][ServingNext]_servingVars

-----------------------------------------------------------------------------
(***************************************************************************)
(* Properties                                                              *)
(***************************************************************************)

\* What may be done for v, by the words of the command line.
Permitted(v, what) ==
    LET names == asked.names
        ssh == \/ "no-auth-ssh" \in names
               \/ "ssh" \in names /\ asked.keys /\ user[v] = "listed"
    IN
    \/ what = "shell" /\ ssh /\ ~ asked.command
    \/ what = "forced" /\ ssh /\ asked.command
    \/ what = "all files" /\ ssh /\ ~ asked.command /\ ~ asked.share
    \/ what = "share" /\ (asked.share \/ "files" \in names) /\ ("ssh" \in names => ssh)
    \/ what = "notice" /\ "ssh" \notin names
    \/ what = "exec" /\ asked.command /\ ("exec" \in names \/ Shells = {})
    \/ what = "port" /\ asked.ports # {}
    \/ what \in {"any port", "beyond"} /\ "exit-node" \in names
    \/ what = "perf" /\ "perf" \in names
    \/ what = "stdout" /\ names = {} /\ asked.ports = {} /\ ~ asked.share /\ ~ asked.command

\* Nothing is done that the command line did not ask for, through any port, SSH channel
\* or order of requests: no shell without the key it requires, nothing beside a forced
\* command, no file outside a share; and a channel starts one thing (serve, on_tcp,
\* SshSession).  Every port that is let through has a handler.
ServedAsAsked ==
    /\ \A s \in served :
          /\ Permitted(s.to, s.what)
          /\ \A t \in served : s.to = t.to /\ s.on = t.on => s = t
    /\ Open => \A p \in Port : p \in ServedTcpPorts <=> OnTcp(p) # "none"
    /\ phase \in {"starting", "refused"} => served = {}
=============================================================================
