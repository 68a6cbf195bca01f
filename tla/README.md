# A TLA+ model of Scramjet-App and wireproxy

Scramjet-App is a web proxy: a page in the browser (`public/`), a Node server
(`src/`) that tunnels the TCP streams of that page over a WebSocket (wisp), and
`wireproxy` (Go, `wireproxy/`), a userspace WireGuard client whose SOCKS5
endpoints the Node server uses to rotate its egress address. A remote browser
(Neko) is shown instead of the proxied page for YouTube.

The modules here model the parts of that system that keep state and meet
concurrency or failure. Every definition is translated from the code; what is
not in the repository (Node's sockets, the loops of wisp-js, the Go runtime, the
peers, the user) is modelled from how the code uses it.

## Inventory

| part | state | operations | what is hard | what makes it correct | module |
|---|---|---|---|---|---|
| data queue of a stream, `class AsyncQueue` in `src/socksTcpSocket.js` | queue, waiting puts and gets, closed | put, get, close and their continuations | continuations that run later, wake-ups handed over one by one, close with data left | order, no lost chunk or wake-up, bounded size, an end only after everything | `AsyncQueue`, abstractly `ByteStream` |
| outbound socket of a stream, `class RotatingSocksTCPSocket` | socket, paused, the queue | connect, events data/close/error/end, recv, send, pause, resume, close | pauses, ends, resets and closes in any order; Node's own buffer | nothing missing after a FIN, no reader stuck behind a paused socket, no socket forgotten | `RotatingSocket`, abstractly `ProxiedStream` |
| SOCKS pool, `src/socksPool.js`, and the upgrade handler of `src/index.js` | endpoints, counter | parse, isEnabled, pickSocksEndpoint, upgrade | dials that overlap share the counter | egress rotates, a dead endpoint does not starve everybody | `SocksPool` |
| page, `public/index.js`, `public/index.css` | the active frame, the Neko frame, toolbar, omnibox | submit of the form (asynchronous), omnibox, urlchange, Back/Forward/Reload, Home | handlers that wait while the user goes on; a frame that navigates, and tells of it, in its own time | one view at a time, with its toolbar and its address | `ClientView` |
| UDP tunnel, `wireproxy/udp_proxy.go` | session map, sessions, mutex, time | packet from a client, handler, cleaner | eviction against use, late handlers, a Dial under the mutex | the map holds live sessions, nobody removes another's session, idle ones go | `UdpProxyTunnel` |
| TCP tunnels, `wireproxy/routine.go`, and HTTP proxy, `wireproxy/http.go` | the two connections of an accepted connection | accept, resolve, dial, read request, authenticate, answer, two copies | both copies close both connections while the other one runs; failures on the way | answers first, no truncation of the direction that ends first, both released | `ProxyConnection`, `Forwarding` |
| health endpoint, `wireproxy/routine.go` | PingRecord | pings, `/readyz` | a map read without its lock; whole seconds | the status is right about every address | `PingHealth` |
| SOCKS5 server, `routine.go` | none of its own | start; the rest is the library go-socks5 | | it may bind its address | its start in `Startup` |
| configuration, `wireproxy/config.go` | none | parse an INI file, its sections and keys | defaults, references to variables, values that only a later stage rejects | what is accepted can be started, or fails for a known reason | `Configuration` |
| WireGuard device, `wireproxy/wireguard.go` | strategy and routes | CreateIPCRequest, StartWireguard | default routes of one peer against those of another | every route leads to a peer that claims it | `Device` |
| name resolution, `routine.go` | none | lookup, choice by family, address and port | a strategy that is neither ipv4 nor ipv6; rights the process has given up | an address is found if there is one | `Device`, `Startup` |
| start-up and lockdown, `cmd/wireproxy/main.go`, `systemd/wireproxy.service` | stage, rights, standard output and routines of a process; the daemon | lock, lockNetwork, daemonise, start, spawn, SIGINT, restart | rights are given up before the daemon is executed and before the routines bind; one routine's error ends all | every routine may do what it has to and no more; one server; every failure that can be mended is, by a restart | `Startup` |
| TURN credentials, `src/turnCreds.js`, and the rest of `src/index.js` | none | one request to Cloudflare, a filter | | port 53 is filtered out | not modelled |
| URL parsing, `public/search.js`, `public/ytdetect.js` | none | pure functions | | | not modelled |
| service worker, `public/sw.js`, `public/register-sw.js` | none of its own | calls of libraries | | | not modelled; a failure of it is in `ClientView` |
| containers and scripts | none | start processes | | | not modelled |

How the parts interact: the page opens a WebSocket to the Node server; the
upgrade handler chooses the kind of socket (`SocksPool`); wisp-js creates one
`RotatingSocksTCPSocket` per TCP stream, which picks a SOCKS endpoint of
wireproxy and pipes what arrives through an `AsyncQueue`; wireproxy's tunnels
and proxies dial through WireGuard and copy (`ProxyConnection`,
`UdpProxyTunnel`); its health endpoint reads what its pings write
(`PingHealth`). All of these are goroutines of a process that has got through
its stages (`Startup`) with a file that was accepted (`Configuration`) and a
device made from it (`Device`). `RotatingSocket` composes `AsyncQueue` with its
users, `ProxyConnection` extends `Forwarding`, and `Startup` extends `Device`,
which extends `Configuration`. `Lists` is shared by the two parsers of
comma-separated lists.

The hazards of each part are listed, with the line where they bite and the
properties that watch them, in `PROJECT.json`.

## Modules

**ByteStream** is the abstract stream: chunks arrive numbered, the reader gets
each once and in order, and the end only when the source has closed and nothing
is left.

**AsyncQueue**: chunks are their numbers of arrival. `put_callbacks` holds the
chunks of the waiting `put()`s; resolving a promise moves one to `put_ready`,
and `PutResume` is the continuation after the `await`. `getter` does the same
for the one waiting `get()`. The module's head explains which steps the event
loop allows at which time: 'data' and 'close' are macrotasks, continuations are
microtasks. `arrived`, `delivered` and `ended` are history.

**RotatingSocket**: `Connected`, `ConnectFails`, `close`, `pause`, `resume`,
`Recv`, `Send`, `WriteDone` are the methods; `NodeData`, `CloseEvent`,
`ResetEvent` the event handlers together with the behaviour of Node they rely
on: a paused socket still reads ahead up to `HighWater` chunks, 'close' needs
the FIN to have been read, which a paused socket with an empty buffer does too,
and a reset destroys what was not emitted. The two loops of wisp-js are
external: to the browser recv, pause, send, resume; to the server one `send()`
after the other.

**ProxiedStream** is what a stream promises to the browser: what the server
sends, each chunk once and in order; the end once, after a FIN only with
everything; and, as long as the browser keeps its stream, both of them at some
time. `RotatingSocket` implements it with `sent` its `srvSent`, `received` the
queue's `delivered`, `told` the reader that is done. Its fairness
(`DeliversChunks`, `DeliversEnd`) is weak fairness of `Receive` and of `End`, with
the guards of the two actions in the place of ENABLED. The refinement has one
premise for the first, that the browser takes what is sent to it
(`BrowserTakes`), and another one for the second, that the server does
(`ServerTakes`): Node emits 'close' only when what was written has gone out.

**Lists**: `Without` drops an element from a list. Both parsers do so with what
is empty between two commas.

**SocksPool**: `Init` takes any short `WIREPROXY_SOCKS` (well-formed, malformed
and blank tokens); `Start` is the load of the module, `Upgrade` the choice per
WebSocket, `Connect` everything in `connect()` up to its `await`, `Dialed` the
rest.

**ClientView**: `SubmitForm`, `Registered`, `TransportReady` are the pieces of
the submit handler between its awaits, for several submits under way; the other
handlers are one action each. A page is its URL. `go()` only starts a navigation
(`loading`): the document (`page`) changes later (`PageChanges`), to the URL that
was asked for, to one it redirects to, or to where a click takes it, and the
event "urlchange" that tells of it waits in `notices` until the listener runs
(`UrlChange`). An event may therefore be of an earlier page than the one that was
submitted last; with the frame its events go, too. Typing (`TypeAddress`,
`TypeOmnibox`) and submitting are steps of their own, and `edited` remembers that
the omnibox holds what the user typed. `hidden` is the attribute of an element,
`Shown` what the CSS makes of it.

**UdpProxyTunnel**: `Receive`, `DialFails`/`DialSucceeds`, `Write` are the main
loop, `CheckClosed` ... `CloseConn` a handler, `TakeTime` and `Sweep` the
cleaner. A critical section is one step, except for the `Dial` inside
`getOrCreateSession`, during which `MutexFree` is false. `age` counts ticks of
five seconds since lastActive, `lag` those since the cleaner took its `now`, and
`stall` those since the main loop looked its session up. Time passes wherever the
goroutines are; the one thing asked of the scheduler is `MaxStallAssumption`: the
main loop, which holds no lock at that place, is not held up between the lookup
and the write for as long as the inactivity timeout. If it were, it would write
to an evicted session.

**Forwarding** and **ProxyConnection**: four counters per direction (sent by
the peer, read, written, taken by the other peer) and the state of each copying
goroutine. A write has no deadline: with `Window` chunks that its peer has not
taken it waits, and a closed connection or an RST ends it (`WriteReturns`). An RST
may follow a FIN. `stage` is how
far the handler of the connection is; `early` counts what stays behind in the
HTTP proxy's buffered reader. A refused or failed connection is not closed by
the code: `Finalized` is the Go runtime closing an unreachable one.

**Configuration** is the parser: no state, one predicate per parse function over
sections whose keys are reduced to the forms these functions tell apart (absent,
plain, a `$VAR` that is set or not, not a number) and to a value. An address has
a port and a host, which is every interface, an IP or a name that has to be
resolved (`HostResolves`), for a client tunnel and an endpoint while the file is
parsed. Reading the INI text is the library's. `ParseConfig` says which files
are accepted; `ParsedStrategy` what becomes of `[Resolve]`.

**Device**: `CreateIPCRequest` is the sequence of lines it writes, `IpcSet` what
wireguard-go makes of them (external), `IpcAccepts` what it rejects although the
parser did not. `DeviceStrategy` and `ResolveAddr` are the choice of a family.

**Startup**: a process is a record: `pc` is the stage of `main()`, `files`,
`bind` and `connect` the rights it has left, `stdout` where `os.Stdout` points,
`output` what a STDIO tunnel captured, `starting` and `serving` its routines, and
`reason` why it ended. `Boot` ... `Spawn` are the stages in the order of the
code, one action each with every early exit; `Fork` creates process `p + 1`, which runs
before its parent has returned (`ForkReturns`);
`RoutineStarts` is a goroutine from its start to its loop, with the lookup of its
host (`HostFound`), the port of the device (`BesideDevice`) and the routines that
serve already (`Distinct`: two addresses with one port go together, unless one of
them is all interfaces); `AcceptFails` any
error of `Accept`. `HostRecovers` is the host, `Restart` systemd. A right can
only be dropped: a Landlock domain is inherited by the child, while pledge and
unveil end at exec.

**PingHealth**: the clock is in ticks, the map in seconds, and the clock moves
between any two steps. `PongTimed` and `PongStored` are the two halves of the
store under the lock, which the handler of `/readyz` does not take; the handler
goes through the map address by address, `Look` reading an entry and `Compare`
the clock. `asked` remembers when the request came, and `looked` also the pong
behind an entry. `CheckAliveInterval` is any integer, as for the code.

`AsyncQueueProofs`, `RotatingSocketProofs`, `SocksPoolProofs`,
`ClientViewProofs`, `UdpProxyTunnelProofs`, `ProxyConnectionProofs`,
`PingHealthProofs` and `StartupProofs` hold the theorems.

Each `MC` module gives one instance for TLC. Operators whose comment begins with
"Mutant:" are plausible bugs; `PROJECT.json` says which property catches which.

## Runs

| run | shows | bounds |
|---|---|---|
| `queue` | order, wake-ups, backpressure, completeness of the end; the queue implements `ByteStream` with its liveness: every chunk is delivered, also one whose put() waits | max_size 2, 7 chunks: the queue fills to max_size + 1, three put()s wait at once, and there are chunks left for after |
| `socket` | no loss after a FIN, pauses never outlive one send, no socket let go without end(); the whole stream implements `ProxiedStream` with its liveness: what the server sent reaches the browser, and so does its FIN | max_size 1, 4 chunks, two sends, two chunks read ahead, a browser and a server that may stop reading: enough to fill the queue, make a put() wait, pause, and leave chunks in Node's buffer |
| `pool` | rotation of overlapping dials | up to 3 tokens over 2 endpoints, 2 streams, 6 picks: two rotations of the longest pool |
| `view` | one view, a toolbar that is not marked hidden, an omnibox that names the page once the frame has settled | 2 sites, one of them the search engine, and YouTube; 2 submits under way; 2 events that wait, so that one is of an earlier page |
| `udp` | live map, channels closed once, writes to mapped sessions, justified removal, eviction and release | 2 clients, 2 sessions, timeout of 2 ticks, lag of 1, a main loop that is late by 1: both clients have a session, or one has a new session while the old one's handler is still there |
| `connection` | preamble first, nothing left at the target, first end complete, both released unless the other peer stops reading | 2 chunks per direction, of which a peer leaves 1 unread: one held by the copy, one that waits in a write or is still to read |
| `readyz` | 200 means fresh, 503 means silent | 2 addresses (interchangeable, so with symmetry), interval 1 s, half-second ticks, 3 s from the start: a map that has never been written is stale at once, and an answer of the first round grows stale by rounding while later ones come |
| `startup` | one server, the rights it needs and no other, a start that fails only for what the host does, standard output, name resolution, routes, recovery under the supervisor | 26 files: six sets of routines that are served, two that a lock refuses, eight that are refused everywhere, nine that differ in the device, and one that cannot be read, so that every early exit is taken, names are resolved in every place, and routines share a port on different addresses, with all interfaces and with the device; four platforms; with and without `--info`, as a daemon, as a test of the file, under systemd; three processes, so that a child could have a child; a port held by another program; one error of Accept |

Deadlock is checked in `view` and `udp`. The other models may stop: a stream,
a connection or the bounded clock comes to its end, a process that serves waits
for nothing that is in the model.

Four runs end in a violation, each of one statement of the repository:

| run | statement | what happens |
|---|---|---|
| `socket_reset` | the buffered tail still reaches the browser, also after an RST (`socksTcpSocket.js:109`, `116`) | a reset that is noticed with a chunk not yet emitted loses it, and the browser is told a clean end. In the trace the socket is not paused: the chunk is in the kernel, and the reset meets a pending write. What a paused socket has read ahead is lost in the same way |
| `view_back` | Back tears down the Neko view (design document, line 146) | `withFrame` returns, nothing happens |
| `readyz_crash` | `/readyz` answers 503, otherwise 200 (`wireproxy/README.md:246`) | the map is iterated while a pong is stored, and the Go runtime aborts |
| `tunnel_listens` | a TCPClientTunnel is "a tunnel listening on your machine" (`wireproxy/README.md:110`) | where Landlock has rules for TCP, `lockNetwork` grants connecting to the tunnel's own port, binding it is refused, and the error ends the program |

More disagreements are visible in the models without a run of their own.

In the page: the toolbar is "shown only once a frame exists" (`index.html:66`), but
its `display: flex` (`index.css:48`) overrides the attribute hidden, and there is no
rule for it as there is for the Neko frame (`index.css:38`), so that it is on the
landing page, too (`HiddenRules`, `Shown`, and the initial state; `OneView` is about
the attribute).

In the Node server: `send()` resolves also with the error of a failed write
(`socksTcpSocket.js:132-137`, `ResetEvent`); `close()` while paused drops the
reference that `resume()` needs, so that the Node socket stays paused
(`socksTcpSocket.js:123`, `156`, `close` and `resume`).

In wireproxy's data path: a 503 may be sent up to one second earlier than the
README says (`UnavailableMeansSilent` states the bound that holds); a tunnel
whose target half-closes drops what the client still sends
(`FirstFinIsComplete` holds for the direction that ends first only).

In wireproxy's start: the definitions that show it are named, and `StartableOn`
collects what a file needs beyond being accepted by `-n`.
  - The certificate of an HTTPS proxy is read after `lock("ready")` has taken the
    files away (`CertificateLoads`).
  - A `[Socks5]` or `[http]` section without BindAddress, or with a service name
    for a port, passes `-n`, and `extractPort` panics (`RulesExtractable`).
  - A tunnel without BindAddress gets a port nobody knows (`parseTCPAddr`).
  - An empty `[Resolve]` section, or one with an unknown strategy, replaces
    "auto" and resolves nothing (`ParsedStrategy`, `ResolveAddr`).
  - `$VAR` is not expanded for PreSharedKey, Endpoint and numbers (`ParsePeer`),
    and the errors of Username, Password, CertFile and KeyFile are dropped
    (`parseHTTPConfig`).
  - With the network locked, an answer of the system's resolver that needs TCP is
    refused (`NamesResolve`); the daemon's child, which parses the file again
    under the locks of its parent, is exposed to it too.
  - A STDIO tunnel of a daemon writes to `/dev/null` (`StdoutIsTunnels`).

## Fairness

Weak fairness is given to what the scheduler of Node or Go runs: continuations,
callbacks of Node, goroutines that can go on, reads that have a deadline. In
`UdpProxyTunnel` the two critical sections that compete for the mutex and the
clock get strong fairness: Go's mutex hands itself to a waiter after a
millisecond, and a step of the main loop that holds the clock back ends. A
`Dial` ends. In `Startup` a process goes on (`WF_vars(Step(p))`) and systemd
restarts what failed (`WF_vars(Restart)`); that the host's resolver comes up and
that other programs let go of their ports is a premise of `Recovers`, not an
assumption of the specification, and `MaxFaults` bounds the errors of Accept: a
listener that fails for ever is never up for good. `SocksPool`, `ClientView` and
`PingHealth` have no liveness property and no fairness.

Nothing is promised of a peer, a browser or a user; every liveness property
starts from something that has happened already. That includes taking what is
sent to them: `io.Copy` sets no deadline, so a peer that stops reading and stays
holds on to a pair of connections for ever. What depends on it has it as a
premise. `EndReleasesBoth` supposes that writes to the other peer go on returning
(`WriteReturns`), `ImplementsProxiedStream` that the browser or the server takes
what it gets (`BrowserTakes`, `ServerTakes`); the actions of peers, `Resume` and
`WriteDone` have no fairness.

## Proofs

Every safety invariant and action property that a passing run checks is also a
theorem, for every value of the constants. Where a run checks a liveness
property, part of what it rests on is proved too, as facts about states and
steps: that somebody who is waited for can take a step and, but for the two
streams, that each such step brings the end nearer.

`AsyncQueueProofs` proves, for every `max_size` and any number of chunks, the
type invariant, `InOrder`, `NoLostWakeup`, `Backpressure` and `EndIsComplete`,
and that every step of the queue is a step of `ByteStream` or a stutter. The
inductive invariant `IInv` is their conjunction with `Wakeups`: a `get()` that
was woken finds a chunk unless the queue is closed and dry, and no `put()` waits
on a closed queue. Without it nothing rules out that a woken `get()` finds the
queue empty and reports the end of an open stream. The lemmas about numbered
sequences carry `InOrder`; there is one lemma per action.

`SocksPoolProofs` proves the type invariant and `RotationCovers` for every
`WIREPROXY_SOCKS`, pool and interleaving of the dials, and that if the pool has a
live entry, among as many attempts in a row as it has entries one is made through
a live one (`AttemptsGetThrough`). The invariant says that the i-th pick was
`(i - 1) % n + 1`, which needs `counter = Len(picks)`; a stretch of n picks then
covers the pool because of a lemma on remainders (`EveryRemainder`). What
`parseEndpoints` returns is computed by a recursive function, and the lemmas about
it (`WithoutSeq`: a sequence of elements of the list, none of them blank) take
induction. The library's induction theorems have an operator as their parameter
and cannot be cited; the least element of a set of numbers, `WFMin` and
`NatLessThanWellFounded`, can, and `Induction` is derived from it for sets.

`UdpProxyTunnelProofs` proves the type invariant, `MapIsLive`,
`ChannelFollowsMap`, `WriteHitsMappedSession` and the action property
`OnlyIdleOrFailed`, for every set of sources, number of sessions, timeout and
lag, and that with a timeout of 0 only an error of the network removes a
session. The inductive invariant adds what the main loop relies on (`MainLoop`:
while it dials, no one else gives its source a session; a session it is about to
write to is no older than the main loop is late, and that is less than the
timeout), that a handler which leaves its loop with its session still in the map
has met an error (`ExitsOnError`), and that the map holds created sessions only.
`EvictedIsNearRelease` is what `EvictedIsReleased` rests on: a session whose
channel is closed keeps it closed, has its connection open exactly while its
handler has `StepsLeft`, at most four, and every step of the handler takes at
least one away, also the one that forwards a last datagram. `IdleIsNearEviction`
is what `IdleIsEvicted` rests on: a session that is not used grows older with
every tick, up to `MaxAge`; once it is old enough when the cleaner takes the
time it stays so, however long the cleaner waits for the lock, and the sweep
does not pass it over.

`ProxyConnectionProofs` proves, for any number of chunks, the type invariant,
`PreambleFirst`, `OverMeansNoTarget`, `FirstFinIsComplete` and
`DoneMeansBothClosed`. The key of `FirstFinIsComplete` is `Culprit`: once a copy
has returned, some peer has sent an RST, or has sent a FIN and all of its chunks
were written; a copy that was stopped by a connection closed under it is never
the first one. `CopiesWaitForPeersOnly` and `CopiesRunOut` are what
`EndReleasesBoth` rests on: a copy is doomed once its source has ended or was
closed; then it can go on (`CanGoOn`, its guards) or holds a chunk for a peer that
is there and has not taken what it got, never for the other copy; and `Left`, what
it still has to read, write and close, decreases with every step of its own and
increases with no other one. When one copy is done, the other is doomed and waits
for nobody.

`StartupProofs` proves the type invariant, `OneServer`, `ExactRights`,
`StartableStarts`, `StdoutIsTunnels` and `StrategyResolves` for every set of
files, platforms, addresses of `--info` and ports. The inductive invariant is
`TypeOK`, `Lineage` (who may exist, beside a parent that has not returned yet, and
who still carries `-d`) and, for every
process, `Good`: `Streams` (standard output by stage), `FilesKept` (who is going
to fork can still execute), `NetKept` (a process never has less than its rules
grant, and no more once the network is locked: this is what carries over the
exec of the daemon, whose child inherits the domain and restricts itself by the
same rules again), `Checked` (what the stages passed have established, also for
the child that starts from the beginning), `Serving` (a routine that serves had
what it needed, pairwise without a conflict) and `Reasons`. The assumptions are
`GenerationsAssumption` (there is room for a daemon), `PlatformsAssumption` (the
forms of lock the code knows) `PortsAssumption` (`Ports` holds every port of
the files, also after wrapping: a process starts with the right to all of them)
and `FilesAssumption` (the peers and the AllowedIPs of a file are finite lists).

It also proves `RoutesAsConfigured`, for every list of peers and of AllowedIPs.
`DeviceRouted` relates the device of a process to its file, and `RequestRoutes`
goes through the request: the lines of a peer follow each other (`JoinedExist`,
`FlattenJoins`), a line "allowed_ip" belongs to the peer of the last "public_key"
before it (`RequestFollows`), and so the last line that names a route is one of
the last peer that claims it. The lemmas on induction and on `Without` are those
of `SocksPoolProofs`, stated again.

`SupervisedRecovers` is what `Recovers` rests on. Once the host is in order
(`Orderly`), a supervised server that can be served serves, or has a step to
take, or can be restarted (`GoesOn`); and each of its steps is the next stage or
one more routine that serves, never an exit (`OnlyForward`): an exit for a reason
of the file would contradict the invariant of the next state. Only an error of
Accept, of which there are `MaxFaults`, throws it back. `Supervision` is the
invariant this adds: a supervised process that was not interrupted ends only with
a failure systemd sees.

`RotatingSocketProofs` proves the type invariant, `FinIsComplete`, `PauseAgrees`
and `DroppedSocketIsEnded` for every size of the queue and of Node's buffer. It
uses the invariant of `AsyncQueueProofs` by an instance: every step of the socket
is a step of its queue or leaves it alone (`QueueStepIInv`). What it adds is
`Lifecycle` (before `connect()` has succeeded there is nothing but the queue),
`Chunks` (only the event 'close' closes the queue, after a FIN with every chunk
in it) and `Writes`. `FinIsComplete` then follows from the queue's
`EndIsComplete`.

It proves two more things. `SocketImplementsProxiedStream` is the safety half of
`ImplementsProxiedStream`: step by step, every action is a step of the abstract
stream or leaves it unchanged. `NobodyIsStuck` is freedom from deadlock between
put(), get(), pause(), resume() and the events: while the browser keeps its
stream and is owed a chunk or the end, the Node socket or the loop to the
browser has a step to take, or it waits for the browser to take a chunk
(`WaitsForBrowser`) or, with everything delivered, for the server to take a last
write (`WaitsForServer`). The guards of these steps are written out
(`NodeCanGoOn`, `LoopCanGoOn`), because the prover does not know ENABLED. Beyond
`IInv` it takes `Attached`: an open stream that is connected has its socket and
a loop that reads.

`ClientViewProofs` proves the type invariant, `OneView` and `OmniboxNamesPage`
for every set of sites, of submits under way and every number of events that wait.
Their conjunction is not inductive: `LastNoticeIsPage` says that the last event
that waits is of the page in the frame, however many came before it, and that
without a frame none waits. It rests on two things that are not in the repository:
events are dispatched in the order of the navigations, and die with their frame.

`PingHealthProofs` proves the type invariant, `OkMeansFresh` and
`UnavailableMeansSilent` for every set of addresses, interval and resolution of
the clock. The invariant relates the map to the history (`MapHoldsPongs`:
`PingRecord[a]` is `lastPong[a]` in whole seconds), a store to what it replaces
(`StoresLater`: its time was taken under the lock, so pongs only get younger) and a
request to what it has seen (`HandlerKnows`): the clock runs on while the request
is handled, but an address it has passed was fresh when the request came, and
stays so in that sense; the entry it compares was in the map when it looked. The
lemmas on `\div` carry the rounding.

The other assumptions are those of the constants (`MaxSize \in Nat`, bounds that
are numbers, and so on); TLC evaluates all of them in the runs.

Only model-checked: liveness itself, since fairness and ENABLED are out of the
prover's reach. That is `Recovers`, `IdleIsEvicted`, `EvictedIsReleased`,
`EndReleasesBoth` and the liveness halves of `ImplementsByteStream` and
`ImplementsProxiedStream`. Where a progress theorem above has the guards and the
variant (the first four), the step left to TLC is from "it can go on, and each
step brings it nearer" to "eventually". The two streams have deadlock freedom
only (`NoLostWakeup`, `NobodyIsStuck`), and no variant.
The statements that the four runs refute are not theorems, of course.

## Not modelled

What the libraries do (Fastify, wisp-js, go-socks5, wireguard-go, Scramjet,
BareMux) beyond what the code relies on; the text of URLs, credentials and
tokens, which are abstracted to their kinds; `/metrics`, a reformatting of what
the device prints; the copies of a STDIO tunnel, which run `connForward` on
files (its start is in `Startup`); the INI text; pre-shared keys and keepalives,
which are checked and not carried along; the pure functions of `public/` and the
TURN filter, which keep no state and whose text a model would have to spell out;
libraries' routines behind `[Socks5]`; the reuse of addresses outside Linux,
where two sections may share a port that one of them has on all interfaces;
other programs that hold a port on one address only; WireGuard's choice of the
longest prefix where routes overlap; the service worker and the containers,
which only start what others do; sockets leaked by failed pings
(`routine.go:427`), of which the model keeps no count.

## Plan

Done, in this order: the queue and its abstract stream, the socket, the pool, the
page, the UDP tunnel, the health endpoint, the proxied connections, start-up with
configuration and device; proofs of every safety property of the runs; the
abstract stream of the socket; the progress theorems.

What could be added:

1. Variants for the two streams: what is left to do until the next chunk, or the
   end, reaches the reader.
2. The pure functions of `public/` and the TURN filter, against reference
   definitions over bounded inputs.
3. The STDIO tunnel, whose two copies end with the process.
