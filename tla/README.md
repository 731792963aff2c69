# TLA+ specifications of tailcat-rs

tailcat connects a client and a server, each identified by a WireGuard key, over
a DERP relay and, when the network allows it, directly over UDP. On top of that
tunnel it offers TCP and UDP streams, and on those a shell, file transfer,
forwarding and so on. This directory models the parts whose correctness depends
on the order of events: who may join, which path packets take, what becomes of
streams when either side, the network or a caller goes away, and what the services
and programs on top of the streams do when they share files, tables and handles. Paths such as
`runtime.rs` are relative to `src/src/`.

- TLC checks the modules on small instances (`tlc -config X.cfg M`).
- TLAPS proves `TcpProofs`, `DiscoveryProofs`, `MembershipProofs`, `DerpProofs`,
  `ShellProofs`, `UdpProofs`, `ServerProofs` and `ClientsProofs` for all values of the
  constants (`tlapm M.tla`).
- `PROJECT.json` maps each definition to the lines it models, and lists the
  runs, the mutation of the model each property rejects, the hazards and the
  theorems.

## 1. Inventory

### How the program is built

Each client and each server is one **actor** (`runtime.rs`), a task that owns all
protocol state: the smoltcp interface, `links`, `udp_flows`, `listeners`, `peers`,
`pings`, `probes` and `drains`. Its loop (598-621) takes one event (a command from
a handle, a packet from the relay, a UDP packet, or a 2 ms tick) and then always
runs `tick()`: expire UDP flows, poll the stack, pump the links, poll again, send
what is to be sent, run the 250 ms timers, advertise every 5 s, answer drains. So
no two handlers of one actor interleave. What does interleave is

- the two actors of a connection, through a relay and a UDP network that lose,
  delay, reorder and (UDP) repeat;
- each actor and the applications that hold its handles and streams. They share
  bounded channels, oneshot answers and cancellation tokens, and a caller may be
  dropped at any await;
- time: 20 s for a dial and for a half-open link, 10 s for a ping and a probe,
  15 s for a direct path, the idle timeout of UDP flows;
- on the service side, tasks that copy between bounded channels;
- processes of one user, which share files: the DERP map and its tag, the SSH host key,
  saved keys, a shared directory.

### Components

| component | state | operations | correct when | status |
|---|---|---|---|---|
| joining (`runtime.rs` 703-840, 1018-1044) | `allowed_clients`, `peers` (≤ 1024), `pings` (≤ 128) | `Client::ping`, `disco_ping`, `Command::Allow`, meow, ack, disco ping/pong, timers | no peer outside the list; success means joined; callers that leave free their slot; retries get through | `Membership` |
| direct paths (`runtime.rs` 943-1300, 1371-1382) | `Peer.candidates` (≤ 32), `Peer.direct`, `probes` (≤ 4096), own endpoints | `advertise`, call-me-maybe, ping, pong, STUN answer, `send_packet` | a direct path was proven, by that peer, and recently; candidates are the peer's own | `Discovery` |
| TCP streams (`runtime.rs` 398-480, 640-700, 905-942, 1046-1160) | `links` (≤ 256), their sockets and pipes, `drains` | `dial_tcp`, SYN, `poll_links`, `drain_tcp`, application reads and writes | bytes in order and once, independent ends of file, nothing lost after a drain, no slot kept for ever | `TcpStream`, `HalfClose`, `TcpAccept` |
| UDP flows and listeners (`runtime/datagram.rs`, `runtime.rs` 350-397, 730-760) | `udp_flows` (≤ 256), tokens, `listeners` | packet in, `dial_udp`, `send`, `expire_udp`, `listen`, `accept`, drops | one open stream per flow, no send through a successor, no lost stream | `UdpFlows` |
| WireGuard tunnel, status, STUN request | boringtun tunnels | encapsulate, decapsulate, timers | vendored library | not modelled |
| start, close, public handles | command sender, cancellation | `connect`, `serve`, `close` | callers learn of the end | partly (ping timeouts) |
| DERP transport (`derp.rs` 383-476) | session, bounded queues, backoff | connect, send, receive, reconnect | packets in order and once, queues move, reconnects | `DerpRelay` (TLS, authentication, backoff lengths left out) |
| local test relay (`derp.rs` 494-624) | registered clients | register, forward, remove | an entry stands until its own connection is cleaned up | `DerpRelay` |
| addresses, DERP map, DNS (`protocol.rs` 624-835) | map cache in memory and in two files | parse, format, fetch with ETag, expand | a tag never confirms a map that is not its own | `MapCache` (the cache; the rest are conversions and single requests) |
| shell (`services/shell.rs` 257-446) | PTY or pipes, two bounded queues | input, output, reap, end | no output lost, ends with its program, ends it when the channel ends, never stuck on itself | `ShellSession` (window sizes, modes and environment left out) |
| files (`services/files.rs`) | access mode, open handles, the names given to a session | SFTP requests | stays in the root, in the mode; a write-only session with its own files | `SftpFiles` (symbolic links, attributes and contents left out) |
| host keys, authorized keys (`services/mod.rs` 61-110, `authorized_keys.rs`) | key file | load or create, parse | all processes use the published key | `KeyFiles` (key parsing left out) |
| exec (`services/process.rs` 62-98) | child process | copy both ways | no output lost, ends with its program and its input | `ShellSession` |
| performance tests (`perf.rs`) | one test claim, data streams | start, attach, transfer, report, end | tests exclude each other; streams belong to the current test; both sides agree that it ended | `PerfSession` (statistics, pings and output left out) |
| CLI clients (`cli/clients.rs`) | cached SOCKS clients, UDP association and its routes | connect, forward | one client per address; a packet reaches a route that runs | `SocksProxy` (pipe, forward and ssh left out) |
| CLI serving, arguments, keys, utilities (`cli/serving.rs`, `cli/keys.rs`, ...) | saved keys; handlers of the server | parse, start, write keys | offers what was asked and nothing else; a saved key is complete | `Serving`, `KeyFiles` (parsers, printing and update left out) |
| browser engine (`src/wasm`) | links by socket handle and generation, WebSocket, dial | tick, dial, read, close, reconnect | a reused handle does not mix connections | `BrowserEngine` (relay frames, tunnel and peers left out) |
| web demo (`webdemo.rs`) | none | serve files | | not modelled |

### What is hard

The hazards are listed with their lines in `PROJECT.json`. The main groups:

- *Late answers.* Pongs, acknowledgements, queued `SendUdp` commands and repeated
  SYNs arrive after the state they refer to has gone or was replaced.
- *Callers that leave.* Dials, pings, streams and listeners are dropped while the
  actor works for them; every table has a cap that a leak would use up.
- *Backpressure.* A byte passes four bounded buffers between two applications,
  and a close handshake may overtake bytes that wait in one of them.
- *The end of things.* Half-close, drain, the 20 s abort and the reaping of links
  meet in one pass of `poll_links`.
- *Shared names.* Handles, file names, test ids and addresses are used again while
  somebody still holds the old one: socket handles of the browser engine, names in a
  write-only share, destinations of SOCKS routes, ids of performance tests.
- *Files of several processes.* Map and tag are two files; keys are made by whoever comes
  first; any process may be killed between two steps.
- *Restarts and address changes.* A server that restarts has forgotten its peers
  and additions to its allowlist; an address that moved is a black hole.

## 2. Modules

### `Discovery` (`MCDiscovery`): direct paths

All nodes of a run at once. `peers`, `candidates`, `direct`, `probes` and
`endpoints` are the fields of each node's actor. `calls` are call-me-maybe messages
in the relay; `pings` and `pongs` hold every UDP packet ever sent, so that any of
them can still arrive, more than once, in any order or never. `addr` is where nodes
really are: a node may have several addresses and loses or gains them with `Move`.
One action per event: a periodic advertise, a client taken as a peer, a STUN
answer, the receipt of a call, a ping or a pong, the timers, the clock.

- A handler includes the advertise and the probes it triggers. `StartProbes` draws
  fresh transaction ids, as `probe` draws random ones, and stops at the cap.
- Sealed packets carry `from` and `to`, which the network cannot change.
- Time advances in steps of a few seconds. `ProbeTtl` and `DirectTtl` are the 10 s
  and 15 s of the code.

### `HalfClose`, `TcpStream` (`MCTcpStream`): one TCP connection

`HalfClose` is the promise to applications: two directions, each a growing sequence
of bytes read in order, ended by an end of file only after its writer has finished
and all was read, or early if the connection was cut.

`TcpStream` is how it is kept: for each end an application, the `DuplexStream` pipe
(`inb`, `outb`), the `Link`, and the smoltcp socket (`tx`, `rx`, TCP state). `Poll` is
one pass of `poll_links` over a link: `Handover`, `Take`, `Push`, `Finish`, `Reap`, in
the order of the code. The socket is external. It delivers bytes and FINs in order,
retransmits, times out after 60 s and is reset by a segment that finds no socket.
Actions of the applications are dialing, cancelling, writing, ending, reading,
dropping and draining.

`TcpStream` implements `HalfClose` with `sent`, `shut`, `got`, `seen` and `broken` of the
same names; links, pipes and sockets are the detail (`PromiseKept`).

### `TcpAccept`: many connections

The server's side of the handshake for several flows that compete for the table:
`receive_ip` (the duplicate and cap checks, the listening socket it creates),
`poll_links` (handover to a handler with its `ConnectionInfo`, the 20 s abort, the
removal). Sockets live in slots searched in order, as in smoltcp's socket set.
`stray`, chosen at the start, says whether a SYN may outlive its dial (the client
gives up during the handshake, or the network delays a copy).

### `UdpFlows`: UDP flows and the listener

A *generation* is one `CancellationToken`, shared by the actor's `UdpFlow` and the
application's `DatagramStream`; either side cancels it when dropped. `flows` is the
table; `pending` holds the `SendUdp` commands between `DatagramStream::send` and
`udp_output`; `backlog` is the listener's queue. `serving`, chosen at the start, says
whether the actor is a server (flows open on packets) or a client (flows open on
`dial_udp`).

### `Membership` (`MCMembership`): who joins

Clients ask through a relay that loses and reorders. The callers (`caller`), the
commands on their way to the client's actor, its `pings`, and the server's
`allowed` and `peers` are separate, because a caller may leave between any two
steps. `Restart` empties the server's state. `patient`, chosen at the start, selects
behaviours in which no caller gives up or expires, for the liveness property.

### `DerpRelay` (`MCDerpRelay`): the relay connection

Clients, their `relay_session`s and the local relay's task for each connection
(`local_relay_client`), which share nothing but a byte stream in each direction and the
relay's table `clients`. A session does one thing at a time, `busy`: it writes a frame,
waits for the actor to take a packet, or picks the next branch of its `select!`.
Frames are read by a task of their own, so `up` and `down` stand for the stream and the
channel of that task together. A connection is a key and a number. Its predecessor's
task lingers at the relay until it notices the cut (`HandlerEnds`) and then, in a
separate step, takes the lock of the table (`Cleanup`). A reconnection takes three steps
of two tasks: the client dials (`Dial`), the relay's task enters the connection into the
table when it has the client's info (`Register`), and the client has the answer
(`Answer`). Each side has timeouts of its own, so the client may give up in between
(`Cut`) and dial again, and the relay still register the connection later, or find that it
is gone (`Reject`). `last` is history: the connection registered last. `local`, chosen at the
start, says whether the relay stops reading while it writes, as the one in `derp.rs`
does, or not, as hosted relays; the latter are external. The other modules rely on
no more than what `InOrder` grants: packets may be lost, and overtake each other
when their sender reconnects.

### `ShellSession`: a client and its program

One session, of a `kind` chosen at the start: `run_pty`, `run_pipes` or `exec_handler`.
All three move chunks between a client and a program over bounded pipes; they
differ in the tasks that do it. `run_pty` is one loop that serves output, input and the
end of the program, with a queue of 8 and a blocking thread in each direction; while
it waits for room in the input queue (`inside`) it serves nothing else (`Free`).
`run_pipes` has a task for input beside its output, `exec_handler` two futures under
one `try_join`. `Done` says what each waits for at its end, `PassFails` what a program
that no longer reads does to it, and `Kills` when the end of the client ends the
program. The program is external: a *filter* (reads, writes, ends with its input) or
*deaf* (never reads; writes, closes its output or stays silent), `style`. It may start
other processes (`Fork`), which share its input and output and may outlive it (`others`).
The session has one process to wait for and to kill, the one it started (`program`,
`Killed`): `child.kill()` without a terminal, and with one the killer of the PTY library,
on Unix a hangup that the program may ignore (`immune`).

### `Serving` (`MCPrograms`): what a server offers

The command line of `serve` and `recv` is a record: the services and ports it names, and
whether it has `--files`, a command after `--` and `--ssh-authorized-keys`.
`Services`, `Acceptable`, `Ssh`, `ServedTcpPorts` and `OnTcp` are `serve()`, from the line to
the handlers. A visitor's connection is handed to one of them (`HandedOver`), and one
to port 22 is an SSH connection, with authentication, channels and their requests
(`SshSession`). `served` records what was done for whom. Programs are in `ShellSession`,
file requests in `SftpFiles`, tests in `PerfSession`.

### `SftpFiles` (`MCPrograms`): a shared directory

Sessions of one share in one of the modes `ro`, `rw`, `wo`, `wo+`. `tree` maps paths to objects,
`handles` and `wrote` are the fields of `Files`, and the owner of the directory takes files
away (`TakeAway`). Each packet of `dispatch()` is one action, since a session processes
its requests in order and each is done before the next. Contents are not modelled:
`foreign` records who saw or altered an object that is not theirs.

### `MapCache` (`MCPrograms`): the DERP map

Processes with a map in memory and two files on disk. `fetch_derp_map_cached()` is split
wherever another process, a failure or an exit may come between: the two reads, the
request, the rename of the map, the truncation and the writing of the tag, the insertion
into memory. `server` is the version the map's server publishes, and tags are versions.

### `KeyFiles` (`MCPrograms`): host keys and saved keys

`host_key()` and `secure_write()`, split at each file operation that others can see.
Keys are numbered as they are made. Processes fail or are killed at every step.

### `PerfSession` (`MCPrograms`): performance tests

Both sides of several tests. `told` holds the messages of each control connection, read in
order (`heard`); `coming` the data streams on their way; `given` those that the server's test
has taken; `sending`, `ended` and `receiving` are the streams on which a side has more to send,
whose end travels, and on which more is expected. Announcements and ends of UDP streams may
be lost, and sides give up at any time.

### `SocksProxy` (`MCPrograms`): the SOCKS proxy

Whoever waits for a client, a connection or a UDP route, is a *getter* with a `place`.
`lock` is the mutex of the cache, held while a client connects; `clients` counts the clients
that exist, in the table or being connected; a getter that fails, times out or is dropped
takes its unfinished client and the lock with it (`Dropped`). `table` and `route` are the
association's routes.

### `BrowserEngine` (`MCPrograms`): the browser's engine

The loop of `run_engine()` with its ticks, and the JavaScript program between two of them.
`links` are by socket handle, with their generation and the state of the socket, which is
external. `got` and `closedBy` record what was read from, and what was done to, each
generation.

### How they compose

The modules divide one actor by the state they touch, and the seams are these. A
peer in `Membership` is what `Register` adds in `Discovery`; `Discovery` keeps the cap
but not the allowlist. `Discovery!NextHop` decides how the packets of the other
modules travel, which is why these take packets as lost, delayed and, for TCP,
retransmitted. A dial of `TcpAccept` that has its handler is a connection of
`TcpStream`. `UdpFlows` and `TcpStream` share the actor but no state. A session of
`ShellSession` runs on a stream of `TcpStream` (exec) or on an SSH channel within one;
it relies on order and ends of file, which `HalfClose` promises. `Serving` decides which
connections become sessions of `ShellSession`, `SftpFiles` or `PerfSession`. The clients that
`SocksProxy` caches are the clients of `Membership`; `KeyFiles` makes the keys they have, and
that two clients with one key must not run at once is what `DerpRelay` says of a key
with two connections. `MapCache` is read when a client or server starts.

`MCPrograms` puts seven modules without common variables into one run: `subject`,
chosen at the start, names the one that takes steps. Every reachable state of each module is
reached, and nothing is lost, because the modules do not interact.

## 3. Runs

Every property below is also run against a mutated definition (a dropped guard, a
swapped order, a missing release) that must break it.

| run | properties | bounds |
|---|---|---|
| `discovery` | `TypeOK`, `DirectProven`, `BlackholeBounded`, `ProbesFollowThePeer` | a client, a server, 3 endpoints, 2 probes, clock to 2 with lifetimes 1, one address change, lists of 1; or 2 clients, 4 endpoints, 2 probes, two address changes of clients, no time |
| `tcp_stream` | `DrainSound`, `PromiseKept` | buffers of 1 byte; 2 bytes one way, 1 the other; one drain, of either end; timeouts |
| `tcp_stream_live` | `DialResolved`, `ShutdownArrives`, `DrainEnds`, `LinksReclaimed` | buffers of 1 byte, 1 byte one way, one drain |
| `tcp_accept` | `LinksOneToOne`, `ToldTheRemoteInOrder`, `HalfOpenEnds` | 3 dials, 2 links, 3 slots |
| `tcp_accept_stray` | `ToldTheRemote` (violated, see section 5) | 2 dials, 2 links |
| `udp_flows` | `OneOpenStream`, `SendsCurrent`, `OpenOwned`, `Released` | 2 flows, 3 generations, table and backlog of 1 |
| `membership` | `TypeOK`, `OnlyAllowedPeers`, `AnswersAreEarned`, `PendingOnce`, `MeowGetsThrough`, `CancellationReleases` | 2 clients, 3 calls (one disco), 1 peer, 1 pending ping, 1 restart |
| `derp_relay` | `RegistrationStands`, `InOrder`, `QueueMoves` | 2 clients, queues and streams of 1; scenarios with 2 or 3 packets one way and 2 connections each, or 5 packets both ways, or 2 packets to a client with 3 connections |
| `derp_late_registration` | `ChannelsSurvive` (violated, see section 5) | a client with 3 connections, no packets |
| `shell_session` | `OutputComplete`, `ExitEndsSession`, `FilterEnds`, `GoneClientKills` | queues and pipes of 1 chunk, 6 chunks from the client, 2 from a deaf program; the program and what it left behind |
| `programs` | `ServedAsAsked`, `OnlyOwnFiles`, `AnsweredIsCurrent`, `OneHostKey`, `SavedKeyKept`, `OneTestAtATime`, `TestsEnd`, `OneClientPerAddress`, `RoutesSound`, `ConnectionsIsolated` | 2048 command lines, a visitor with 2 channels; 2 SFTP sessions with a handle each, 3 objects; 2 processes and 2 versions of the map; 2 servers, 2 genkeys, 3 keys; 2 tests of up to 2 streams, both directions, TCP and UDP; a connection, 2 routes started, a table and a queue of 1; 2 handles, 2 generations |
| `sftp_taken_away` | `SessionCreatedOnly` (violated, see section 5) | 2 SFTP sessions with a handle each, 3 objects |

### What they show, and why the bounds are enough

- **Paths.** A direct path stands for a probe to that endpoint, answered by that
  peer from that endpoint within the probe's lifetime, whatever old pongs the
  network still holds; and a packet is sent directly only within
  `ProbeTtl + DirectTtl` of the moment the peer was really there. Going wrong takes
  one probe that is answered late, from elsewhere, or after a move: two ids, three
  endpoints and three instants hold those cases. The proofs remove the bounds.
- **Peers.** Probing the wrong peer's endpoint takes two peers and an address that
  passes from one to the other: one address change in which the first client loses it and
  one in which the second gains it, after which the server probes the same endpoint for
  both. Time and the server's own address play no part in it, so both stand still. `resting`
  of `MCDiscovery`, chosen at the start, is the client that takes no part in a behaviour of
  the first kind, and empty in one of this kind.
- **Streams.** With one-byte buffers every buffer is full most of the time, and two
  bytes show loss, repetition and reordering behind a full one. `DrainSound` says
  that `drain_tcp` does not answer before the other socket holds every byte and the
  FIN; `DrainEnds` that it does answer although the other direction is still open.
  `ShutdownArrives` and `LinksReclaimed` are the two ends a link can have.
- **Accepting.** Two links are full with a third flow waiting, one more slot than the
  cap would show an overrun, and a repeated SYN of every flow is possible in every
  state when `stray` holds.
- **UDP.** Three generations allow a flow to be opened, replaced and opened again
  while a send of the first is queued; a table and a backlog of one are full after
  one stream.
- **Joining.** One place for two clients makes the table full; with one pending
  ping the second call of a client is refused unless the first is over; one restart separates *was a
  peer* from *is a peer*. `PendingOnce` says that the list that every tick rebuilds
  neither loses a caller that waits nor keeps one that was answered: with one slot, the
  other call of the same client is in the queue of commands meanwhile.
  `CancellationReleases` is about a full list whose caller has left.
- **Relay.** Replacing a registration takes two connections, and registering one late that
  was given up takes three. `RegistrationStands` says what the table holds in any order of
  dials, registrations and cleanups: the last one registered, until its own cleanup. That
  this one is the connection the client uses is more than the code keeps
  (`ChannelsSurvive`, section 5). Overtaking takes two
  packets, a second connection of the receiver, and the first one lingering. A session
  held up for good takes three packets: one in the stream, one being written, one
  queued. `QueueMoves` has one exception. When a session writes while its stream is full,
  and the local relay's task for it does the same in the other direction (`Cycle`),
  neither reads on, and their read timeouts do not run because both reading tasks
  wait on full channels. It takes heavy traffic both ways through the local relay, which
  serves tests and development only; with a relay that goes on reading there is no
  exception.
- **Sessions.** A terminal session is full from end to end with one chunk in the hands
  of the program and of the loop, and one in each of four places: six chunks, the
  bound on the input. In that state (`Cycle`) the loop waits for the program to read,
  the program for the loop to take its output, and nothing moves again: a filter that
  is pasted much more than the queues hold into a terminal stops for good. `FilterEnds`
  shows that this is the only way in which a filter does not end after its input has,
  and that sessions without a terminal have none. `OutputComplete` has one exception
  as well: the exec service drops what the program wrote when the client sends input
  to a program that no longer reads. `ExitEndsSession` has the processes that a program
  left behind: while one holds the output, or the terminal, the session goes on, and the
  exec service also waits for the end of the input. `GoneClientKills` is about the one
  process that the session started, and names the cases in which that one
  outlives its SSH channel: it ignores the hangup of its terminal; the loop waits for room in an input that is
  never read; or the program has closed its output, after which `run_pipes` does not
  listen for the end of the channel any more. Processes that it started are not killed
  (`shell.rs:315`, 437) and may outlive the channel in any case. No text of the repository promises
  otherwise, so these are described here and not listed as findings.

- **What is offered.** All sets of services, with and without files, command and keys,
  and four sets of ports are 2048 command lines, of which every acceptable one runs.
  `ServedAsAsked` compares what a visitor obtained, on which channel, with the words of
  the line; requests of a visitor touch no other's, so one visitor with two channels is
  enough.
- **Shared files.** Two sessions, a directory, and a third object show every way to meet
  somebody else's file. `OnlyOwnFiles` holds in `wo`, where names are random, whatever the
  owner does, and in `wo+` until the owner takes a file away. After that a name may be given
  to another session while the session that had it before still goes by it; what the
  documentation says of that case is `SessionCreatedOnly`, which the code does not keep
  (section 5).
- **The map.** Two processes and two versions are enough for a stale tag. Where the two
  files are stored by one fetch at a time, `AnsweredIsCurrent` holds through crashes and
  failed writes, because the map is replaced before the tag. Two fetches that overlap can
  leave an old map beside a new tag, on disk or in the memory of the one that reads
  meanwhile, and every 304 then confirms the old map until the next version.
- **Keys.** Three keys let a server fail, another publish and a third lose the race.
- **Tests.** Two tests compete for the server with streams of either still on their way.
  `TestsEnd` needs the ends of UDP streams to be lost, which one stream each way shows.
- **The proxy.** A route that ends, one that runs and a full table need two routes.
- **The browser engine.** One handle that is used twice needs two generations; two handles
  show two links of one flow.

Deadlock is not checked: dials, calls and generations are finite, so every instance
comes to a legitimate end.

## 4. Fairness

- *Actors run.* The run loop wakes every 2 ms whatever happens, and `tick` does all of
  its parts each time. So `Poll`, `Expire`, `StartHandler`, `Remove`, `TakePing` and
  `Timers` are weakly fair.
- *Time passes.* `Age` (a half-open link turns 20 s old) is weakly fair.
- *Established TCP makes progress.* `Progress` in `TcpStream` is weakly fair: smoltcp
  retransmits, and an application that holds a stream reads it. One fairness
  condition over all of these steps is enough, since only finitely many of them
  fit into a behaviour. No handshake step is fair: `DialResolved` holds even if the
  server is silent. No write, shutdown, drop or drain is fair.
- *Retries get through.* `Membership` assumes strong fairness of receiving a meow and
  an ack, a relay that does not lose every one of infinitely many copies, and weak
  fairness of the retransmission of each pending ping, which comes due every second.
  It assumes nothing for disco pings.
- `tcp_stream_live` excludes the 60 s timeout (`MayFail = FALSE`): a broken network
  may prevent any delivery. `tcp_stream` includes it.

- *The relay connection runs.* `Progress` of `DerpRelay` holds the steps of sessions and of
  the relay's tasks, the actor's receiving, the noticing of a cut (heartbeats and read
  timeouts) and a reconnection that is dialed, registered and answered. One weak fairness
  condition is enough, since packets and connections are finite. Cuts, giving up and closing
  are not fair.
- *Sessions run.* Threads and tasks of `ShellSession` are weakly fair. The branches of
  the loop's `select!`, which picks among the ready ones at random, are strongly fair:
  a branch that is ready again and again between two waits is taken. The client
  reads, and a filter reads and writes. That the client sends or goes away, or that a
  program exits, is not fair.

- *Tests run.* `PerfFairness` is weak fairness of `Advance` for each test: both processes run,
  the control connection delivers, and timers fire (`SetupTimeout`, and the deadlines in
  `ReceiveEnd`). That a data stream arrives, or that anybody gives up, is not fair.

Readers that stop reading stay outside: without them the end of a stream need not
arrive, in the code as in the model.

## 5. Findings

**Whose connection it is** (`tcp_accept_stray`). `poll_links` tells a handler who it talks to (`ConnectionInfo`,
`TAILCAT_PEER_KEY`) from `Link.flow`, the flow of the SYN that created the link
(`runtime.rs:1087`). smoltcp puts a listening socket whose handshake is reset back
into LISTEN, and a socket in LISTEN takes any SYN for its port. When a client gives
up its dial during the handshake, its answer to the SYN|ACK is a reset, and for the
rest of the link's 20 seconds another client's SYN may land on that socket. Its
handler is then told the first client's key and address, while the comment at
`runtime.rs:45` calls this *authenticated metadata*. The run shows
the steps; `ToldTheRemoteInOrder` shows that nothing of the kind happens while every
SYN belongs to a dial under way.

**A late registration** (`derp_late_registration`). The local relay enters a connection into its
table whenever it has the client's info (`derp.rs:579`), within five seconds of its own
(567). The client gives up after five seconds (88) and dials again. When the given-up
connection is entered after the new one, it displaces it; when its task then fails, the
cleanup (616-621) finds its own channel in the table and removes it. The new connection goes
on, with heartbeats answered, and its client cannot be reached until it reconnects for another
reason, while the module's comment (`derp.rs:2`) says *Datagram channels survive relay
reconnections*. It takes a relay task that is held up for seconds, and the local relay serves
tests and development.

**Files that were taken away** (`sftp_taken_away`). `docs/repository-map.md:174` allows a `wo+`
session to change metadata of *session-created files only*. `setstat_path` (`files.rs:403`) goes by
the names the session was given (`wrote`), and an entry outlives its file. When the owner of
the directory takes the file away and another session is given the same name, the first one
changes permissions, times and size of the other's file. In `wo` this cannot happen, since
names are random.

## 6. Proofs

Every invariant and every action property of a passing run is also a theorem, for all values
of the constants, and so is the refinement of `HalfClose`. Each section names the inductive
invariant and what it adds to the property.

`TcpProofs`, from `StreamAssumption` (buffers hold at least one byte):

| theorem | states |
|---|---|
| `StreamsKeepTheirPromise` | `Spec => PromiseKept`: `TcpStream` implements `HalfClose` |
| `DrainsLoseNothing` | `Spec => []DrainSound` |
| `StreamsAreConsistent` | `Spec => []StreamInv`, on which the other two rest |

Bytes are numbered, so *in order and once* means that wherever bytes are, they are consecutive
numbers (`Run`). `Way` says so of one direction: counted from the reader backwards, what it has
read, its pipe and its socket's buffer continue one another, the writer's socket holds the same
run from `dlv` bytes before, its pipe the rest, and together they are all that was written. It
stops counting at a reader that has left (`Lost`), since what is for it is thrown away, and at a
writer whose socket is closed. `Way` relates two links and mentions no action; the lemmas
`WayKept` to `WayFresh` say what each kind of step does to it, once for both directions.
That is not enough for the end of file: that a reader has seen the last byte when its pipe ends
depends on its socket being in a state that only the other side's FIN leads to (`Pipes`), on the
states of the two sockets agreeing about both FINs while the connection is not cut (`Fins`), and
on nothing having moved before the handshake (`Quiet`, `Handshake`). A whole pass of
`poll_links()` is one step of the model; its proof takes it apart into the code's five steps,
each of which keeps the invariant with the link under work in the place of the link of its end
(`With`, `WithHandover` ... `WithReap`).

The refinement is a step simulation: `Write`, `Read` and `ReadEof` are steps of the same name
(`EofIsTrue` is the guard of the last one), a drop is a shutdown unless there was one, a pass or a
timeout that cuts the connection is `Break`, and everything else is a stutter.

`DiscoveryProofs`, from `DiscoveryAssumption` (the server is not a client; caps and
lifetimes are naturals, the candidate cap positive):

| theorem | states |
|---|---|
| `TypeCorrect` | `Spec => []TypeOK` |
| `PathsAreProven` | `Spec => []DirectProven` |
| `BlackholesAreBounded` | `Spec => []BlackholeBounded` |
| `ProbesReachOnlyThePeer` | `Spec => []ProbesFollowThePeer` |
| `ListsAreSound` | `Spec => []CandidateListsSound`, the part of `TypeOK` about endpoint lists |

`DirectProven` is not inductive: that a pong answers a probe says nothing unless the
probe's id belongs to one ping only. `PathInv` adds that ids are drawn once
(`UniqueTxids`), that a recorded probe stands for the one ping with its id
(`ProbesSent`), and that a pong was made from such a ping (`PongsAnswer`).
`BlackholeBounded` follows from the same invariant. `ProbesFollowThePeer` needs that
every endpoint in a candidate list, an announcement or a packet's source was its
node's own address at some time (`OwnedInv`).

`UdpProofs`, from `UdpAssumption` (positive caps; finitely many flows):

| theorem | states |
|---|---|
| `TypeCorrect` | `Spec => []TypeOK`, with both caps |
| `OneStreamPerFlow` | `Spec => []OneOpenStream` |
| `SendsGoThroughTheirOwnEntry` | `Spec => []SendsCurrent` |
| `NoStreamIsLost` | `Spec => []OpenOwned` |

The key of `FlowInv` is `OpenIsCurrent`: a token that is not cancelled is the one in
the table for its flow. From it, an open sender is the sender in the table, and two
open streams of one flow are the same. `Bounds` adds the two caps with the library's
facts about cardinalities.

`MembershipProofs`, from `MembershipAssumption`:

| theorem | states |
|---|---|
| `OnlyTheAllowedJoin` | `Spec => []OnlyAllowedPeers` |
| `SuccessIsEarned` | `Spec => []AnswersAreEarned` |
| `EachCallPendsOnce` | `Spec => []PendingOnce` |
| `TypeCorrect` | `Spec => []TypeOK`, with both caps |

Success reaches a caller in a message, so `JoinInv` adds what each message on the wire
stands for (`AcksAreEarned`, `PongsAreEarned`), and that the allowlist in force contains
the configured one (`ListGrows`): were it empty, everybody could join. `PendingOnce` is
inductive with the types: calls move from the queue of commands to the list of pings, and a
caller's state changes in the step that takes its call from either.

`DerpProofs`, from `RelayAssumption`:

| theorem | states |
|---|---|
| `RegistrationsStand` | `Spec => []RegistrationStands` |
| `PacketsArriveInOrder` | `Spec => []InOrder` |

For `RegistrationStands`, `RegisterInv` adds that the connection registered last has been
dialed and that its task is past the greeting, and that connections to come have no task
(`Numbers`): a cleanup then finds either its own connection in the table, which was the last
to register, or another one, which stays. `InOrder` speaks of what has arrived. `OrderInv` follows a packet on
its whole way, from its sender's queue over the two connections and the relay's queues to the
reader: per connection that it was sent over, the numbers on each way rise (`Lines`), what waits
further back has higher ones (`Outgoing`), no packet is on two connections to the relay
(`Uploads`), and a connection that is to come carries nothing (`Sessions`). A packet that the
relay queues for an older connection, registered late, leaves the way.

`ShellProofs`, from the definitions alone:

| theorem | states |
|---|---|
| `NoOutputIsLost` | `Spec => []OutputComplete` |

Until the client goes away, what the program wrote is delivered, queued or in the pipe
(`Conserved`); a session that ended in order had both empty, and one that failed was an
exec session that had been sent input (`EndedDrained`, `InputWasAsked`).

`ServerProofs`, one part for each module:

| theorem | module | states |
|---|---|---|
| `FlowsHaveOneLink` | `TcpAccept` | `Spec => []LinksOneToOne` |
| `HandlersKnowTheirClient` | `TcpAccept` | `Spec => []ToldTheRemoteInOrder` |
| `OnlyWhatWasAsked` | `Serving` | `ServingSpec => []ServedAsAsked` |
| `SharesAreKept` | `SftpFiles` | `SftpSpec => []OnlyOwnFiles` |
| `AnswersAreCurrent` | `MapCache` | `MapSpec => []AnsweredIsCurrent` |
| `OneKeyIsPresented` | `KeyFiles` | `KeySpec => []OneHostKey` |
| `CompleteKeysStay` | `KeyFiles` | `KeySpec => SavedKeyKept`, an action property |

- `TcpAccept`, from `AcceptAssumption`. `LinksOneToOne` is inductive with its types; that a
  SYN is given a slot nobody has rests on `LowestIsIn` (a set of slots has a lowest element) and
  on counting: while there are fewer links than slots, one is free. Who a handler is told
  about is settled when its link is made and used when its handshake ends, so
  `HandshakesInOrder` says of the time between that a socket talks to the flow of its link and
  none is left listening; that holds only while no SYN is stray.
- `Serving`, from `ServingAssumption` (`NoChannel`, for what is not served on one, is no channel). What is served was started earlier, so the invariant says
  in which phase, on which connection and by which user (`ServedInOrder`), and that it was
  started once (`OnceEach`).
- `SftpFiles`, from `SftpAssumption`. A session acts through handles and paths it was given, and
  the guards looked at the file only then. `OwnHandles` says that no handle leads to a file that
  its session may not touch; `OwnPaths` that in the write-only modes what is now at a path that a
  session was given is its own, because suffixed names are not used again. In `wo+` that holds until
  the owner takes a file away, and so does the theorem.
- `MapCache`, from `MapAssumption`. While no two fetches overlap, one fetch at most is between
  its two files, and `Fits` says for each place in it how the entry in hand compares with the
  two files on disk: the tag never runs ahead of the map (`Sound`).
- `KeyFiles`, from `KeyAssumption`. `OneHostKey` needs that a server which loads the file does so
  after one was published, and that the keys on their way were made (`HostInv`);
  `SavedKeyKept` that a complete file has a key, so that `CreateSaved` finds no file in its
  place (`SavedInv`).

`ClientsProofs`, in the same way:

| theorem | module | states |
|---|---|---|
| `TestsExcludeEachOther` | `PerfSession` | `PerfSpec => []OneTestAtATime` |
| `ClientsAreShared` | `SocksProxy` | `SocksSpec => []OneClientPerAddress` |
| `RoutesAnswerTheirSource` | `SocksProxy` | `SocksSpec => []RoutesSound` |
| `BrowserConnectionsIsolated` | `BrowserEngine` | `BrowserSpec => []ConnectionsIsolated` |

- `PerfSession`, from `PerfAssumption`. `OneTestAtATime` is inductive once the server's side of
  a test is known to be in one of five places (`PlaceInv`): no other place could drop the claim.
- `SocksProxy`, from `SocksAssumption`. The holder of the lock is the only getter that connects
  (`LockHeld`), so dropping any set of getters drops at most one client (`DroppedIsOne`); a
  route that starts was idle, because routes are numbered in the order they start (`InOrder`).
  For `RoutesSound`, `RouteInv` adds that the table is finite and names the destination of each
  of its routes, and that routes run only in an association that is open and has its source:
  the routes retained are then those that run (`RetainedSound`), so a full table is full of
  them (`FullOfRunning`).
- `BrowserEngine`, from its assumption on handles and generations. That a program's handle
  reaches the connection it was made for needs that a dial's engine has no link before the dial
  (`Dialing`) and that a link its program has closed was closed under its own generation
  (`Closing`).

Only model-checked: the liveness properties of `TcpStream`, `TcpAccept`, `UdpFlows`,
`Membership`, `ShellSession`, `DerpRelay` and `PerfSession`, which are out of the prover's reach
together with `ENABLED`. The other way round, the type invariant of `UdpFlows`, with the caps of
its table and of its backlog, is proved for all sizes and has no run of its own.

## 7. Not modelled

- Encryption and encodings (boringtun, disco seals, smoltcp's wire formats): vendored
  or external, assumed to do what the code relies on.
- The content of UDP payloads and the queue of received packets, logging, status.
- STUN and UDP sockets beyond *a node learns one of its addresses*.
- TCP options, windows and congestion control; simultaneous open, which two actors
  cannot produce because a dialing socket is not a listening one.
- Address resolution and closing an actor (section 1, start and close).
- In the shell: which program runs, its environment, terminal modes, window sizes.
- Of the CLI: parsing, printing, terminals, the clients that only start the library and copy
  bytes, and `update`. Parsers and the encoding of addresses are conversions from text whose
  result the other modules take as given.
- Of SFTP: symbolic links and what the `openat` calls make of them, contents, attributes and
  error replies. That a path stays in the root is a property of the operating system's calls.
- The web demo: static files and one handler without state.

## 8. Observations

Behaviour met while modelling, about which no text of the repository is wrong enough, or
no property general enough, to be a finding:

- A command after `--` together with `--files` and no SSH service is accepted
  (`cli/serving.rs:96`): the command becomes the exec service, and also the forced command of
  the SSH service that files need (179). SFTP is then refused (`services/mod.rs:292`), while a
  shell is answered with *only offers file transfer (SFTP)* (161): the files are offered to nobody.
- A server without ports and services copies a connection to the standard output and ends. It
  accepts further connections until the first has ended, and while it drains.
- Two overlapping fetches of the DERP map (section 3).
- A terminal session lasts while a background process of its program holds the terminal, although
  the program has exited (`shell.rs:418`), and one whose program ignores hangups lasts after the
  client is gone (437).
- In `dial()` of the browser engine, a refused connection is never seen as `State::Closed`: the
  tick that closes the socket removes its link, and `dial` fails with *connection closed*
  (`wasm/src/lib.rs:282`) before it looks. The engine, which the other two failures close, goes on
  running (`DialLost`). For the same reason `close()` on a client's connection whose link is gone
  does not close its engine.
- `genkey` without `--force`, killed while it writes, leaves an incomplete file under the
  name (`FillSaved`, `KeygenEnds`).

## 9. Plan

Done: the actor, the relay connection, sessions, and after these the shared files, the
services' tables and the command line. What is left, in order of worth:

1. Closing an actor with its handles, streams and sessions in use.
2. Endpoint expansion, region choice, NAT64 and the parsers of ports, against reference
   definitions over bounded inputs.
