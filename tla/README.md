# Verification of Chimera Remote Port Forward

TLA+ models of the Go program in `src/`, model-checked with TLC and proved about
with TLAPS. A server (`src/internal/server`) gives every client that registers
over a WebSocket a TCP port from a configured range. When an administrator
enables the device, the server listens on that port and tunnels each external
connection through the WebSocket to the client (`src/internal/client`), which
connects it to a local service. A DLL (`src/cmd/dll`) runs several clients for a
host program.

## 1. Inventory

| Part | State | Operations | Hard part |
|---|---|---|---|
| Port pool, `port_pool.go` | `used`, `bindings`, `nextPort`, one mutex | `Allocate`, `Release` | wrap-around, exhaustion |
| Server, `server.go` | `devices`, `conns`, `proxies` under `s.mu`; `stopCh` | WebSocket handler per connection, `EnableDevice`, `DisableDevice`, heartbeat and expiry checkers, `Stop` | effects after the lock is released |
| TCP proxy, `proxy.go` | `conns` under `p.mu`, `connCount` under `connCountMu`, `stopped`, `stopCh` | `acceptLoop`, `readLoop` per user, `HandleFromClient`, `CloseConn`, `Stop` | accept racing Stop; sockets, map and counter kept apart |
| Client, `client.go` | `conn`, `localConns` under `c.mu`, `stopCh`, `doneCh` | `Start` (dial, register, run), `heartbeatLoop`, `readFromLocal`, `Stop` | goroutines of one session meeting the next; unlocked reads of `c.conn` |
| Multi-port manager and DLL, `multi_client.go`, `dll/main.go` | `clients` under `m.mu`, the global manager under `mcMu` | `Initialize`, `AddPort`, `RemovePort`, `Stop`, state callback | a client's end racing its successor of the same name; nested locks |
| Web admin, `web.go` | login sessions, `adminClients` under `w.mu` | login, enable, disable, admin WebSockets, broadcasts, `Stop` | broadcasts in no order and without a write lock |
| Logger, `logger.go` | current file, hour, mark | `write`, rotation, retention, `Close` | failure in the middle of a rotation; local dates read as UTC |
| Server program, `cmd/main.go` | none | wiring, signal, exit | two goroutines close the logger |
| Protocol, `message.go`; configuration, `config.go` | none | message types; load, defaults | none |

Interactions: handlers call the pool inside `s.mu` and the proxy outside it; the
proxy writes to the client's WebSocket under the device's `connMu`; the checkers
detach proxies or collect sockets under `s.mu` and stop or close them after
releasing it; closing a socket makes the handler's `ReadMessage` fail, and only
that runs `handleDisconnect`. Whoever changes the device table broadcasts it to the
admin pages after releasing `s.mu`. On the client, everything that fails leads back
to the dial loop through `c.conn` being closed. The manager starts a goroutine per
client, which deletes the client's entry when `Start` returns.

What makes each part correct, in a sentence: the **pool** never hands out a used
port and fails only when it is full; the **server's** maps, pool and listeners
describe the same devices, every listener has somebody who will close it, and no
frame crosses devices; the **proxy** keeps its limit, never writes after Stop and
leaves nothing behind; the **client** forgets no socket, carries no local
connection into the next session and dials again after a loss; the **manager**
lists what is served and loses no client; the **tunnel** drops no chunk whose
receiver is there, and its two ends forget a closed stream; the **admin pages**
catch up with the table while the server runs; the **logger** keeps a day of logs
for its days of retention (by UTC, section 6), opens the file of every hour, and lets the process end.

## 2. Modules

| Module | Models | Used by |
|---|---|---|
| `PortPool` | the pool, with `Allocate` in closed form | `Server`, `MCPortPool`, `PortPoolProofs` |
| `MCPortPool` | the same `Allocate` as the loop of the source, for comparison | run `port_pool`, `PortPoolProofs` |
| `PortLease` | abstract: leases and listeners, no maps, locks or goroutines | refined by `Server` |
| `Server` | `server.go`, with proxies as objects that listen or not | `MCServer`, `ServerProofs` |
| `MCServer` | symmetry sets | run `server_safety` |
| `ConnSlots` | abstract: a connection takes a slot, is opened, closed, gives the slot back | refined by `TcpProxy` |
| `TcpProxy` | the inside of one proxy | run `tcp_proxy`, `TcpProxyProofs` |
| `Client` | `client.go` | runs `client`, `client_panic`, `ClientProofs` |
| `ClientLife` | abstract: what Start and Stop of a client promise | refined by `Client`, used by `MultiClient` |
| `MultiClient` | `multi_client.go` and the exports of the DLL | runs `multi_client`, `stop_orphan`, `MultiClientProofs` |
| `Tunnel` | one stream through proxy, handler, WebSocket, client and local service | run `tunnel`, `TunnelProofs` |
| `WebAdmin` | `web.go`, and the broadcasts of `server.go` | runs `web_admin`, `broadcast_panic`, `WebAdminProofs` |
| `Logger` | `logger.go`, and `startServer`'s shutdown | run `logger`, `LoggerProofs` |

`Server`, `TcpProxy` and `Client` each model one part in full and let the others
do anything. `MultiClient` is a composition over the abstract client, which
`Client` is shown to implement. `Tunnel` composes the data path of `TcpProxy`,
`Server` and `Client`, where each is kept waiting by the next.

### Server

A step is one critical section of `s.mu` or one effect outside it. The maps are
the variables `devices`, `conns` and `proxies`; the pool's variables come from an
instance of `PortPool`. `obj` holds the proxies whose listener is open, whoever
still refers to them. `toStop` and `toClose` hold what a goroutine has collected
under the lock and not stopped or closed yet: `handleDisconnect`, `DisableDevice`,
`checkExpiredDevices` and `Stop` first `Detach` a proxy and then, in steps of
their own (`StopProxy`), stop it. `handleRegister` is three steps (`PassLimit`,
`Register`, `Announce`) because it takes the lock twice and answers outside it.
`handleData` is two (`ForwardData`, `WriteReturns`), because the write happens
after the lookup. Admin requests come while the admin pages are served
(`AdminServed`): `Stop` shuts them down first, and no request is taken to outlast
the two seconds that shutdown waits (`web.go:85`). The time-outs are the steps
`DeadlinePasses` and `FallSilent`, possible at any moment.

Left out: the contents of frames; a second `register` on one connection (the
client of this repository sends one, `client.go:147-168`). A connection or proxy
object that is finished and unreferenced stands for a new one, so a run with two
connections still covers any number of sessions, two at a time.

### TcpProxy

One proxy from `Start` to its last goroutine. A user stands for its TCP
connection and its connID (eight random characters, taken to be unique). Stop is
the six stages of its body; the accept loop's six statements and the four of the
read loop's deferred function are steps of their own, because Stop, the client's
`conn_close` and the WebSocket handler come between them. The handler may call at
any time, which is more than the server does: it reaches a proxy through the map
only. `ConnSlots` keeps of all this who holds a slot (`held <- Holders`, every user
between the count going up for it and going down again) and the last conn message
sent for it.

### Client and ClientLife

`main` is the program counter of `Start`'s goroutine; each session has its
heartbeat goroutine, each stream its reader. Where the source reads `c.conn`
without the lock (`client.go:161` and `208`) the read is a step, and the value
nil leads to the state `crashed`: the process is gone, and nothing else moves.
`sendMessage` is one step: the pointer it copied can at worst be closed before
the write, which is the same as failing. `ClientLife` keeps of all this only how
far Start and Stop are: Stop looks at `started` under the lock and waits only for
a client that has started.

### MultiClient

Threads of the host call the exports; the states of `thread` say which read or
write lock of `mcMu` a call holds or waits for, and a waiting writer keeps new
readers out, as Go's `RWMutex` does. A call that `m.mu` makes atomic is one step;
`client.Stop`, which is called outside it, is the steps of `ClientLife`. The
goroutine of a client reports, starts, reports again and deletes the entry of
its name. `mine` says whether its `m` is still the manager in use, `displaced`
remembers whose entry was deleted by another goroutine.

### Tunnel

One session and one stream at a time; a stream both sides have forgotten stands
for a new one. A write to the WebSocket first takes the lock of its side
(`device.connMu` or `c.connMu`), then waits until the message fits (`Cap`), then
releases it; the goroutine stays where it is meanwhile. The local service reads
nothing more until its answer has been read, which closes the circle. The
heartbeat's ticker does not wait for acknowledgements, so several heartbeats can be
under way; the checker closes the WebSocket while one is (`Outstanding`) and needs
no lock for it. Stop is not part of it: the proxy stops only with its handler.

### WebAdmin

A sender is a goroutine that broadcasts: the handler of a device or page, a
request, the expiry checker. Of the table it has read only its age is kept
(`fresh`), because that is what pages can show wrongly. Two writers to one page
are a data race inside gorilla/websocket: the one that notices panics, or the
page receives a broken frame and leaves. Both are steps. `Server.Stop` comes in
its order: it closes `stopCh` (`StopSignals`), on which the checker ends, at its
next look or after more ticks (`CheckerEnds`), and then collects and closes the
pages. That it empties the device table after that, without a broadcast, is left
out.

### Logger

The clock counts hours; a day has `DayHours` of them, so that a small instance
crosses a midnight. `West` is the distance of local time from UTC, a constant (a
change to summer time is left out), at most half a day; ahead of UTC it is negative
and not limited. `RemoveOld` removes any of the directories listed, since the errors
of `ReadDir` and `RemoveAll` are dropped. The mark
`needRotate`, the comparison and the rotation are separate steps of separate
goroutines. `main` and `sig` are the two goroutines of `startServer`; whichever
exits ends the process, and a second `close(stopCh)` does, too.

## 3. Runs

| Run | Instance | Shows |
|---|---|---|
| `port_pool` | 4 ports, 2 holders | the closed form takes the port, and leaves the state, that the loop does |
| `server_safety` | 2 names, 2 connections, 2 ports, 2 proxies, 2 admins, limit 1 | the safety properties of the server; nothing exposed after Stop; refinement of `PortLease` |
| `server_liveness` | 2 names and connections, one port | expiry, disconnect and silence end in closed listeners and free ports |
| `tcp_proxy` | 2 users, 1 slot | limit, map and client agree; no write and no read after Stop; everything drains; refinement of `ConnSlots` |
| `client` | 2 sessions, 2 streams at a time | nothing forgotten or carried over; one heartbeat; Stop wakes a message loop that reads; redial, Stop and goroutines end; refinement of `ClientLife` |
| `multi_client` | 2 names, 2 clients at a time, 2 threads | listed is served; lost only by the one delete; stopped once; awaited only if it will end; reports; every call returns |
| `tunnel` | one message fits into each direction | no chunk lost with its receiver there; no standstill but the one a heartbeat breaks; nobody waits for ever; both ends forget |
| `web_admin` | 1 page, 1 device, 1 request, the checker | no change missed; stale pages catch up unless the server stops; lost pages leave |
| `logger` | 2 writers, days of 4 hours, local time 2 hours behind UTC, 1 day kept, over a midnight | directories stay their days by the calendar of UTC and go after them; the file of the hour is opened in the end; the process ends |
| `client_panic`, `stop_orphan`, `broadcast_panic` | small | one disagreement each, section 6 |

The bounds are the smallest where the interesting cases meet: two devices that
compete for a name or a port, a port that passes from one device to the other
while the first listener is still open, an admin who disables while the expiry
checker has detached the same proxy, a proxy with more users than slots, a
goroutine of the last session that meets the next, a removed client beside its
successor and a third party that stops both. The device limit is 1 with two
registrations. `server_liveness` has one port and so one listener at a time,
which makes the two devices compete for it. In `tunnel` the circle of waiting
goroutines needs full queues, and a queue of one is full soonest. In `web_admin`
four goroutines send to one page, which is what its properties are about, page by
page. In `logger` half a day is the largest distance local time is behind UTC and
the midnight lies inside the run; with one day of retention the cleanup takes the
directory of today as well, so that rotation and retention meet in the same
directory. The safety properties of all parts are also proved for
every value of the constants.

Deadlock is not an error in any run but the pool's: the server, the proxy and the
client end after Stop, the client and the server when they panic, the logger with
its process; the manager and the tunnel may come to rest.

## 4. Fairness

*Server.* A handler that has a message finishes it (`HandlerStep`); goroutines
that collected proxies or sockets go on (`StopProxy`, `CloseConn`); tickers fire
while the server runs. Reading a closed connection ends in an error after finitely
many frames, hence strong fairness of `EndUnregistered \/ HandleDisconnect`. The
broadcast to admin pages and the writes to clients are taken to terminate and not
to panic; both are looked at in `WebAdmin`. External users read or go away
(`ReadersDrain`). Nothing is assumed of clients, admins or clocks.

*TcpProxy.* All goroutines run; Accept does not fail for ever while users wait
(strong fairness: the loop polls between errors); a closed connection has
finitely many bytes left. Users and the client need do nothing, and Stop need
not be called. A write to a user may block for ever; no property depends on it.

*Client.* Goroutines run, dialing and local writes terminate, the server answers
a registration or the connection ends, tickers tick. A vanished peer is taken to
be noticed by the keep-alive Go's dialer switches on. A local service that never
reads would block the message loop for ever and Stop with it; that is excluded, and
so is a server that leaves a registration without an answer: its read has no
deadline (section 6).

*MultiClient.* Goroutines and calls run, the host's callback returns, and Start
returns once its client is stopped, which the run `client` checks for one that
does not panic.

*Tunnel.* Goroutines run; whoever waits for a mutex gets it in the end (strong
fairness; Go's mutexes switch to starvation mode); the heartbeat ticks. Either
heartbeats are handled again and again, or the checker closes the connection: it
need not act as long as the handler sets `LastHeartbeat`. Users and services
may leave or not. No fairness of the local service to read: it is part of the circle.

*WebAdmin.* Goroutines run, the checker ticks every minute until it sees `stopCh`,
pages read what is sent to them or go away. Once Stop has been called a page may
keep an older table: `PagesCatchUp` says nothing of that time.

*Logger.* Something is always logged again, tickers tick, waiting for the mutex
and choosing between two ready channels is fair, and opening a file does not fail
for ever, nor does removing directories (strong fairness: failures are many, not all).

## 5. Proofs

All proofs are checked by tlapm from nothing; the only assumptions are the ones
named in the modules (ports are naturals, the limit of a proxy is positive, a
queue holds a message, no local time is more than half a day behind UTC (how far
it may be ahead is not limited), `None` is none of
the things it is distinguished from).

- `PortPoolProofs`. `PoolCorrect` is inductive as it stands. `ExhaustedMeansFull`
  and `FreePortIsFound` say that the search is complete: from any position the
  probes of the loop reach every port of the range, and the least free iteration
  exists because `<` on the naturals is well founded. `ClosedFormIsLoop` shows that
  the closed form of `Allocate`, which the other modules use, takes the port the
  loop of the source takes, for every range: `MCPortPool` writes the loop as two
  recursive functions of the iteration, and the position of the i-th probe is
  shown from the least i at which it would be another (`PositionIsProbe`). With it,
  `SearchFinds` and `SearchFails` give the loop's result from the first free probe
  and from none; `LoopReportsExhaustion` combines them: the loop gives up if and
  only if the pool is exhausted.
- `ServerProofs`. The properties are not inductive. That a listener on a port of
  another device cannot deliver (`NoMisdelivery`) needs to know what listeners
  outside the map still serve: their device, or a connection whose handler has
  ended, or a port that Stop left bound (`LingeringInv`). This in turn needs that
  a handler that has not registered has no device and no binding (`HandlerInv`,
  `UnboundInv`), that a proxy in the map serves the device of its port
  (`AttachedInv`), and that the target of a write in progress is the writer's own
  or dead (`WritingInv`). `IInv` is the conjunction, `Inductive` proves it with a
  lemma per action; `RegistryCorrect`, `DeadlinesEnd`, `ListenersOwned`, `NoLeak`,
  `Routing` and `Delivery` follow from it. `Refinement` maps every step to a step
  of `PortLease` or a stutter, with `lease <- bindings` and `listeners <-` the
  open proxies. `StopIsFinal` needs, besides `IInv`, that the map stays empty from
  Stop's critical section on (`Silenced`), so that whatever detaches proxies later
  detaches none and Stop's own list stays empty once it has been worked off
  (`StopperInv`); the owner of a listener that is still open is then somebody
  else.
- `TcpProxyProofs`. The limit is stated on sockets, the code counts in
  `connCount`; `SlotInv` ties the counter to the set of users that occupy a slot,
  `SocketInv` puts every open socket into that set. `QuietAfterStop` has two
  halves. That nobody writes (`NoWriteAfterStop`) needs that a handler past the
  check writes to a connection Stop still finds in the map, or has collected, or
  that is closed (`CallInv`), and that needs what the client has been told
  (`ToldInv`). That nobody reads (`NoReadAfterStop`) needs that a read loop past
  its look at `stopCh` reads from a connection that Stop will find in the map or
  has collected, or that is closed (`ReadInv`). `ProxyInductive` proves the
  conjunction, `LimitKept`, `SilentAfterStop`, `MapFollowsClient` and `ProxyTyped`
  follow. `ProxyKeepsSlots` maps every step to a step of `ConnSlots` or a stutter:
  `Admit` takes a slot, `Announce` opens, `TellClosed` closes, `FreeSlot` gives
  back, and the counter equals the number of holders, so that its comparison with
  the limit is that of `ConnSlots`.
- `ClientProofs`. Three parts make the client's properties inductive: `MainInv`
  says which session the main goroutine holds at each point and that its heartbeat
  has not been told to end before the message loop has; `TakenInv` that Stop
  closes the connection it took before it waits; `LocalInv` that every open local
  connection is in the map, which is why `cleanup` leaves none for the next
  session. `ClientInductive` proves the conjunction with a lemma per goroutine.
  `SessionsSeparate` and `HeartbeatKept` follow. `StopIsHeard` needs `StopInv` as
  well: once Stop has taken `c.conn`, a main goroutine that is past its look at
  `stopCh` (`AfterLook`) finds `c.conn` nil, so whatever `run` still reads from has
  been closed. The read of the registration's answer comes without such a look, and
  the theorem says nothing of it (section 6). `ClientKeepsPromise` shows that the steps of Start and Stop are
  those of `ClientLife` and that all others leave them alone.
- `MultiClientProofs`. The safety properties are inductive together, once
  `Bookkeeping` says that a living goroutine has a name and that a call has
  clients to stop only while it stops them. The interesting step is `DeleteEntry`:
  it keeps `ListedIsServed` because a listed client is still being served, so its
  own goroutine cannot be the one that ends, and `LostOnlyByDelete` only because
  the client it drops is remembered in `displaced`. `NobodyAwaitedInVain` says that
  no two calls stop one client, because a call takes the entry out of the map before
  it stops the client, and that who is waited for will end, because a client is in
  Start only while its own goroutine is (`OwnGoroutine`).
- `WebAdminProofs`. `NoChangeMissed` is about pages that read; `Covered` says it
  from the moment a page is in the map. It needs that senders have pages before
  them only while they broadcast (`JobInv`) and that the map holds no page before
  its upgrade (`PageInv`). That the change itself keeps it is the reason why all
  senders' tables grow old at once and the one who changed it has yet to collect.
- `LoggerProofs`. That the directory in use stays (`TodayIsKept`) rests on
  arithmetic that one lemma states: the midnight of today, taken as UTC, is not
  before a cutoff two days back, if local time is at most half a day behind UTC.
  The invariant adds that what was listed as old is old for good (`DoomedInv`),
  since the clock only advances. The same gives the theorems about retention:
  what is removed lies before the cutoff, and `CutoffIsPast` turns that into days of
  the calendar of UTC, `MaxAge` of them (`KeptByUTC`). That calendar is a day ahead of
  the local one at most (`NextDay`), so of local days there are `MaxAge - 1` anywhere
  (`EarlyByADayAtMost`), and the documented `MaxAge` where local time is UTC or ahead
  of it (`KeptForTheirDays`, which assumes `West <= 0`). `FailureIsSeen` says that a file closed by a rotation that then failed is
  never taken for the file of the hour (`FailedRotationIsSeen`), the safety half
  of `FileFollowsClock`; it rests on `RotateInv`: while no file is open, the hour
  of the closed one is over.
- `TunnelProofs`. `DataFindsReceiver` looks at the head of a queue and at a map;
  `DownInv` and `UpInv` connect the two with everything still under way.
  `DownInv`: unless the service has left, nothing of the stream comes before its
  `conn_open` or after its `conn_close`, and while data is under way or the read
  loop may send more, the client has a local connection or is about to dial.
  `UpInv`: unless an end has left, nobody says that the stream is closed, and the
  user's connection is in the map for as long as anything of the stream is.
  `OpenInv` says that a `conn_open` is under way once. `StandstillIsSeen` starts
  from a state in which nobody can go on. Whoever holds a lock is sending, and an
  open local connection has its reader (`LockInv`, proved as `HoldersSend`; it
  needs that the last stream's reader has ended before the next stream opens,
  `PumpInv`). If the handler is not acknowledging, it reads and finds nothing, so
  there is room towards the server, nobody sends there, the main loop has read the
  other queue, and nobody waits at all. If it is, the queue to the client is full
  because the main loop waits, for the service or for `c.connMu`, and both lead to
  a full queue to the server. What "cannot go on" means is written out in
  `SomebodyGoesOn`, the guards of the goroutines' own steps, because `ENABLED` is
  out of the prover's reach. Lemmas about the queues say what appending and taking
  the head do to their contents and their order.

Only model-checked: every liveness property. They are about fair behaviours, and
fairness is stated with ENABLED, which the prover does not handle; the safety
halves of the most important ones are proved instead (`NobodyAwaitedInVain` and
the message loop's half in `StopIsHeard` for calls that return, `StandstillIsSeen` for goroutines that wait,
`FailureIsSeen` for rotation, `StopIsFinal` for listeners that close). Every
invariant, action property and refinement the passing runs check is proved. That
no deadline outlives its enabling (`DeadlinesEnd`) is proved without a run of its own.

## 6. Where the code and its documentation disagree

With a run each:

1. `client_panic`: a heartbeat that fails can make the message loop call
   `ReadMessage` on nil (`client.go:208`, `235`).
2. `stop_orphan`: a client that ends deletes the entry of its successor
   (`multi_client.go:114`); Stop does not find that one and leaves it running.
3. `broadcast_panic`: two broadcasts to one page panic (`web.go:438`); in
   `handleRegister` the device stays registered without a handler.

Met while modelling, without a run:

- `max_devices` can be exceeded by registrations that overlap (`server.go:224-239`).
- `conn_open` can reach a client before `assigned` (`server.go:266-280`); the
  client then drops the connection.
- Enabling can fail because the listener that the last disable detached is still
  open (`server.go:550`).
- An external user that keeps its socket and does not read blocks the device's
  handler (`proxy.go:226`): the heartbeat checker closes the device's socket, yet the
  device keeps its name and port. An admin page that does the same blocks whoever
  broadcasts, the expiry checker included (`web.go:438`, `server.go:594`).
- Stop can find `c.conn` nil while Start dials. Start then puts the new connection
  there, registers and reads the answer without a deadline and without a look at
  `stopCh` (`client.go:126-161`), on a connection nobody closes, while Stop waits for
  it; `client.go:94` says that the closed `stopCh` lets the other goroutines know.
  Stop returns when the server answers or the connection ends, which the fairness
  of `Client` assumes (`StopTerminates`); `StopWakesReader` is about the message loop.
- "The days logs are kept" (`README.md:130`), after which directories are removed
  (`docs/logging.md:153`), are `RetentionKept` in `Logger`. The code names directories
  by local date and reads the names as UTC (`logger.go:262-268`): west of UTC they go
  up to half a day too early, and with one day of retention the directory in use is
  removed. The run checks the promise that is kept, `RetentionByUTC`; the documented
  one is proved for UTC and the zones ahead of it.
- At shutdown two goroutines close the logger (`main.go:154`, `170`): the second
  `close(stopCh)` panics, or the exit code is 1 after an orderly stop. The process
  ends in any case, which is what `ProcessEnds` says.
- A late `disconnected` of a removed client can be the last the host hears of a
  name that is in use again (`multi_client.go:110`), and `StateConnected` is never
  reported, because nothing calls `OnConnected` (`multi_client.go:200`).

## 7. What is not modelled

- `config.go`, `message.go`, flag parsing, the HTML and script of the admin pages,
  `build.py` and `test_port.py` keep no state that a step of another part could
  disturb. Their values are constants, their messages actions.
- `GetPortCount` and `GetPortInfo` of the DLL read the list `MultiClient` calls
  `Listed`, each time in another order (`dll/main.go:157`).
- `startClient`'s shutdown has the shape of `startServer`'s around the client's
  Stop, whose end the run `client` checks.
- An admin request that outlasts the two seconds `web.go:85` waits for it at
  shutdown, and could enable a device while `Stop` runs.
- A second `register` on one connection, half-closed TCP connections, and a
  standard output nobody reads (every line is written under the logger's mutex).
- The two halves of `Tunnel` share no variables with `TcpProxy` and `Client`, so
  that they agree is a matter of the lines both translate, not of a refinement.
