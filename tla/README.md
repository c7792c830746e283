# A TLA+ model of tg-ws-proxy

tg-ws-proxy is a local proxy for Telegram clients. A client speaks obfuscated
MTProto to it over TCP; the proxy forwards the session, re-encrypted, through a
WebSocket to Telegram's data centre (DC), through a Cloudflare-proxied domain or
worker, or over plain TCP. This directory holds TLA+ modules for the parts of
the program whose correctness depends on order, concurrency and failure, the
TLC configurations that check them, and TLAPS proofs about them.

`PROJECT.json` is the index: components, runs, mutants, the source lines each
definition stands for, hazards, findings and theorems.

## 1. The system and its parts

| Part | Code | State | Operations | Talks to |
|---|---|---|---|---|
| Server loop | `proxy/tg_ws_proxy.py` `_run` | listening socket, `_client_tasks`, stop event, watchdog | start, accept, watch and replace a dead listener, stop | creates a handler task per client; resets and warms up the pools |
| Client handler | `_handle_client` | `ws_blacklist`, `dc_fail_until`, `ip_fail_until` (shared by all handlers) | decide on a route, dial the DC, note failures, fall back | pools, balancer, fallbacks, bridge |
| Client handshake | `_read_client_init`, `proxy/fake_tls.py` | read buffer of the fake TLS stream | PROXY header, ClientHello check, masking relay, obfuscated init | handler |
| Fallback | `proxy/bridge.py` `do_fallback` | none | CF worker, CF domain, TCP, in this order | CF worker pool, balancer, bridge |
| DC pool | `proxy/pool.py` `_WsPool` | a deque per (dc, media), marks of running refills and rotations, back-off, `try_fronting_first` | get, refill, rotate, warm up, reset | `RawWebSocket.connect`, handlers |
| CF worker pool | `proxy/pool.py` `_CfWorkerPool` | a deque per DC, marks of running refills | get, refill, warm up, reset | fallback |
| WebSocket | `proxy/raw_websocket.py` | `_closed`, `_frag` | connect, send, recv, close | pools, bridge |
| Bridge | `proxy/bridge.py` `bridge_ws_reencrypt`, `_bridge_tcp_reencrypt` | two tasks, cipher positions | relay both directions, tear down | WebSocket, client |
| Splitter | `proxy/bridge.py` `MsgSplitter` | buffer, `_disabled` | cut the stream at packet boundaries, flush | bridge |
| Balancer | `proxy/balancer.py`, refresh thread in `proxy/config.py` | domain list, domain per DC | choose, update, replace the list | CF fallback; a thread beside the event loop |
| Tray lifecycle | `utils/tray_common.py`, callbacks in `windows.py`, `linux.py`, `macos.py` | `_proxy_thread`, `_async_stop`, `_ui_queue` on macOS | start, stop, restart and exit from several threads | server loop, the user |
| Instance lock | `utils/tray_common.py`, `windows.py` | lock files | acquire, release | other processes |
| Updates | `utils/update_check.py`, `windows.py` | cache file, `_state`, the program's files | check, download, rename, relaunch | GitHub, file system |

The proxy proper is one asyncio event loop: tasks interleave only at awaits, so
what stands between two awaits is one action of a model. Real threads are only
those of the tray program and the domain refresh.

What is hard, and what each part has to keep:

- **DC pool.** Gets, refills, rotations and closing peers overlap. Never two
  refills for a key; never more than `pool_size` sockets idle or on their way; a
  socket has one owner; a stale one is not lent and does not stay; a refill ends.
- **Handler and fallback.** Handlers share three tables, write them late with an
  early clock reading, and give up a DC for good. The relay init is written to
  one connection only; no allowed way is skipped; each client gets an answer; a
  cool-down is shortened by no more than a handler's own time and prolonged by
  none; which upstream connections a handler leaves open.
- **Bridge, WebSocket, splitter.** Two tasks share a socket that either side may
  close at any moment, frames arrive in fragments with PINGs between, and the
  handler may be cancelled at any await. No frame after a close; nothing lost,
  repeated or re-cut; both connections released.
- **Server loop.** The listener dies, a stop comes at any time, clients connect
  while the stop path waits. The run ends when told to and the listener returns,
  unless a session that does not end keeps them.
- **CF worker pool.** Like the DC pool without rotation and back-off: bounded, one
  owner per connection, no stale one lent.
- **Balancer and refresh.** Threads replace the list while the event loop reads it,
  and a restart leaves older threads behind. The user's own domains are the only
  ones used; a client tries a whole list; superseded threads end.
- **Client handshake.** Records are cut anywhere and read in two ways over one
  buffer; a client that fails the check is relayed to the masking domain. The
  stream is exact, such a client learns nothing, the relay ends.
- **Tray lifecycle.** Restarts, the first start and the exit run on threads of their
  own over two unprotected variables, with joins that time out. One proxy, with
  the newest settings; who is told to stop stops, unless a box or a session keeps
  it; the program exits.
- **Lock and updates.** Processes share lock files, a cache file and the program's
  own file, and may crash between any two accesses. One instance; refused only
  for another one; a program that can be run stays on the disk; an offer is new
  and its assets are its own.

The list of hazards, each at its line, is in `PROJECT.json`.

## 2. Modules

| Module | Models | Checked by |
|---|---|---|
| `SocketPool` | what a socket pool promises its callers, without its tasks | implemented by `WsPool` (`PoolContract`) |
| `WsPool` | `_WsPool` | `MCWsPool.cfg`, `MCWsPoolTwo.cfg` |
| `WsPoolProofs` | theorems about `WsPool`, and that it implements `SocketPool` | TLAPS |
| `ClientRouter` | `_handle_client` from the routing on, `do_fallback` and its methods | `MCClientRouter.cfg`, `MCClientRouterLog.cfg` |
| `MsgSplitter` | `MsgSplitter` | `MCMsgSplitter.cfg` |
| `Bridge` | `bridge_ws_reencrypt` with `RawWebSocket.send/recv/close`; EXTENDS `MsgSplitter` and uses its `Split` and `Flush` as parts of its own steps | `MCBridge.cfg` |
| `BridgeProofs` | theorems about `MsgSplitter` and `Bridge` | TLAPS |
| `ServerRun` | `_run` and the clean-up of its caller | `MCServerRun.cfg`, `MCServerRunNew.cfg` |
| `ServerRunProofs` | theorems about `ServerRun` | TLAPS |
| `ClientRouterProofs` | theorems about `ClientRouter` | TLAPS |
| `CfWorkerPool` | `_CfWorkerPool`; implements `SocketPool` | through `CfFallback` |
| `DomainRefresh` | `_Balancer`, the refresh threads, the choice of a list by `_run` | through `CfFallback` |
| `CfFallback` | EXTENDS both: clients in `_cfproxy_worker_fallback` and `_cfproxy_fallback`, restarts | `MCCfFallback.cfg` |
| `CfFallbackProofs` | theorems about the three | TLAPS |
| `FakeTls` | `FakeTlsStream`, the record reader | through `ClientInit` |
| `ClientInit` | EXTENDS it: `_read_client_init`, the decision after it, the masking relay | `MCClientInit.cfg` |
| `ClientInitProofs` | theorems about the two | TLAPS |
| `TrayLifecycle` | proxy threads, start, stop, restart, exit, message boxes | `MCTray.cfg` |
| `TrayProofs` | theorems about `TrayLifecycle` | TLAPS |
| `InstanceLock` | `acquire_lock`, `release_lock`, the mutex of Windows | through `Installation` |
| `UpdateCheck` | `run_check` and its cache file | through `Installation` |
| `Installation` | EXTENDS both: processes that start, update the program and crash | `MCInstallation.cfg` |
| `InstallationProofs` | theorems about the three | TLAPS |
| `MC*` | the constants of the runs | |

An operator named `X_Y` next to `X` is a faulty variant of `X`, as a plausible
slip would write it; no action uses it. It documents which property would catch
the slip, and the mutants of `PROJECT.json` replay it.

### How state and actions correspond to the code

**`WsPool`.** `idle` is `_idle` without the order inside a deque: the order is that
of the ages, so `Hit` takes the oldest usable socket and discards the stale
ones that stand before it. `refilling`, `rotating`, `failures` and `backoff` are
the dictionaries of the class; `rpc`, `conn` and `connected` are the locals of
the `_refill` task, `rot` and `timer` those of `_rotate`. One task record per key
suffices because there is at most one task per key, which is itself an invariant
(`SingleFlight`, proved; `Watched`, which a mutant breaks). `Get` is
`get()` with all it calls (the pops, `_quiet_close` tasks, `report_success`, the
refill); `RefillCollect` is one turn of the awaiting loop up to the next task
that is still running, with the bookkeeping at the end when it was the last;
`RotateWake` is the body of the rotation from the end of its sleep to the next
one. `Restart` is the end of a run together with `reset()`. `inUse`, `closing` and
`lost` say who holds a socket that left its deque. Time is relative: ages count
up to just above the limit, sleeps and delays count down, `Tick` moves them all.

**`ClientRouter`.** A record per client is the local state of its handler. `lag`
is how long ago it read the clock into `now`. `Barred` and `Cooling` are the
routing condition, `WsFail` one attempt at a domain with all that is noted down
after the last one (`Marks`), `Enter` the next method of `do_fallback`, `MethodOk`
and `MethodFail` its outcomes. `SendOk` and `SendFail` are the write of
`relay_init`. The pools are seen from outside: a hit or a miss. CF domains are
tried in any order after the balancer's choice, as the code shuffles them. `todo` is
the rest of the list of methods, whose order is fixed (`First`). `BridgeEnd` is the
end of a session: `ws.close()` returns at once when Telegram's OP_CLOSE was seen and
leaves the transport open, and otherwise drains an OP_CLOSE of its own (`bye`, up to
`SaidBye`) before it closes it. The stop of the server cancels every handler; where
that decides what stays open it is a step: in `SendFail`, in `BridgeEnd`, in
`CancelDial` (a `connect()` does not close what it has opened) and in `CancelBye`.
`up` of a closed client is thus the connection it leaves open. `barred` is a history:
how long an IP has been cooling down without a break.

**`MsgSplitter`.** The plain and the cipher buffer hold the same positions of the
stream, so a frame is the position where it ends and the buffer is what lies
between the last such position and `fed`. `PartsAt` is one turn of the loop of
`split()` and `Walk` the whole of it.

**`Bridge`.** `up`, `down` and `main` are program counters whose values are the
awaits: `drain` and `flush` in `tcp_to_ws`; `recv`, `drain`, `pong` and `bye` in
`ws_to_tcp`; `wait`, `cancel`, `ws` and `client` in the bridge. `closedBy` is
`_closed` with the side that set it. Without a splitter each chunk is one frame;
this is the behaviour of a disabled splitter, and `Init` starts with either.
Fragments are lengths. Cancellation of the handler in `await t` or in the last
`wait_closed()` is swallowed by the code and changes nothing; it matters at
`asyncio.wait` and in the drain of `ws.close()`, where it is an action.

**`ServerRun`.** `pc` follows `_run`: `serving` is the `asyncio.wait`, `gather` the
wait for the cancelled clients, `stopping` and `closing` the two waits for the
listener to close, `delay` the pause before a new one, `returned` and `cleanup`
the caller. `waits` is what `Server.wait_closed()` does, one of `WaitKinds`: since
Python 3.12.1 it waits for the server's connections, before it did not. A handler,
cancelled or not, ends at any time or never.

**`CfWorkerPool`.** `idle` is `_idle` without the order in a deque, as in `WsPool`;
staleness is an event, `GoesStale`, because age and peer have the same effect on
`get()`. `needed` is the loop variable of `_refill`, `New` before the task first
runs. `Hit` and `Miss` are the two ends of `get()`, with the stale sockets it met;
only `Hit` calls `ScheduleRefill`, as in the code. `report_failure()` returns at
once in the code, so a failed worker leaves no trace.

**`DomainRefresh`.** `at` is where each refresh thread, and the event loop as a user
of the same function, is. `Install`, `Build` and `Store` are the three accesses of
`update_domains_list`: the list, the choice for the DC, the entry. `Check` reads the
configuration and `Fetched` comes later. `NewRun` sets the event of the newest
thread and counts the next one; `Wait` is each thread's own event. A list that
equals the current one is "nothing to do", and leaves a DC's entry that an older
update had yet to store; the user's list is therefore assumed to be none of the
published ones (`OwnAssumption`).

**`CfFallback`.** A client is in `workers`, in its `first` domain (read when its
generator starts) or in the `rest` (the list read after that one failed). `Restart`
is the end of a run with all its clients, the reset of the pool and the new list.

**`FakeTls`, `ClientInit`.** Records are lengths, payload bytes are numbered, and each
record says how many come before it (`from`), so that what a call returns is known
from the record alone. `Sendable` is what a client can send: any records in any
order, only the last one cut short (`WireAssumption`). `Payload` is one `_read_tls_payload` that returns any part of what has arrived; `FillInit` and
`TakeInit` are `readexactly`, `ReadBuffered` and `ReadPayload` the two branches of
`read`. `at` follows `_read_client_init`; `relay` holds the two tasks of the masking
relay, with `write` for a drain and `closing` for `wait_closed()`. A cancellation of
the handler while the relay runs is `CancelMask`: a relay that reads or writes takes
it for the end of its source, closes its destination and waits for that, and
`gather()` with it; one that was closing already is gone, and the handler leaves.
Elsewhere it is `Cancelled`. That a cancelled relay may still wait is hazard
`fake_tls.py:235`.

**`TrayLifecycle`.** `thread` is where each proxy thread is in `_run_proxy_thread`, `op`
where each caller is in `stop_proxy` and `start_proxy`; every read or write of
`_proxy_thread` and `_async_stop` that another thread can separate from the next is
a step. `StartProxy` holds the `is_alive()` check (`Running`) and `StartThread` makes
the thread, so two callers can both pass the check. `gather` and `cleanup` are the two
waits of a thread that ends: `_run` for the sessions it cancelled, and `wait_closed()`
with the caller's wait for what is left on the loop; `ServerRun` has them in detail. `boxes` and `modal` are the queue of
`macos.py` and the box its main thread shows. `Gone` sets all but the platform back,
as daemon threads end with the process. Ports are told apart by `PortOf`: a thread
that does not end keeps its port, and a new one on the same port fails.

**`InstanceLock`, `UpdateCheck`, `Installation`.** A process is a process id with a
birth, which stands for the create time. `FindLocks`, `Look`, `RemoveStale`,
`CreateLock` and `FillLock` are the accesses of `acquire_lock`. Releases are numbers
in the order of `_version_gt`; an assets list and an ETag are named by the release
they came with. The hour of the cache is one bit, `recent`. `RenameAway`, `RenameIn`,
`Restore` and `HandOver` are the file operations of `_perform_update`, each of which
a crash (`Ends`) may follow. Of Windows it is assumed that a running file can be
renamed but not removed, that a rename does not overwrite, and that `CreateMutexW`
works.

## 3. Runs and bounds

| Run | Instance | Shows |
|---|---|---|
| `pool_one_key` | one key, pool of two, two sockets, ages to 2, back-off to 2 | `PoolBounded`, `Watched`, `BackoffEarned`; liveness `RefillEnds`, `StaleLeaves` |
| `pool_two_keys` | two keys, pool of one, three interchangeable sockets | `OneOwner`, `NoOrphan`, refinement `PoolContract` |
| `router` | two clients, three keys (plain and test key of a configured DC, one DC that is not), two WS domains, two CF domains, a worker | `RelayOnce`, `NoWaySkipped`, `UpstreamClosed`, `CooldownNotProlonged`, action property `CooldownKept`, liveness `Answered` |
| `router_log` | the same | the log line "blacklisted for WS (all 302)" is not always true |
| `splitter` | all streams of up to six bytes over four values, all chunkings, three transports | `FramesArePackets`, `HoldsOnlyBeginning`, `NothingDropped` |
| `bridge` | three streams, with and without splitter, up to five bytes down, message limit three | `UplinkExact`, `DownlinkExact`, `Released`, `NoFrameAfterClose`, `TearsDown` |
| `server` | three sessions, both kinds of `wait_closed()` | `SweepLeavesOnlyLate`, liveness `ListenerReplaced`, `StopEnds` |
| `server_wait_closed` | three sessions, `wait_closed()` since 3.12.1 | `ListenerRestored` fails |
| `cf_fallback` | one client, one worker or none, a pool of one with two sockets, two refresh threads, a default list, one downloaded list that shares a domain with it, the user's list | `OwnDomains`, `TriesAll`, refinement `WorkerContract`, liveness `SupersededEnds` |
| `client_init` | fourteen streams of records, an init of two bytes, reads of two, two bytes each way through the relay | `StreamExact`, `Disguised`, liveness `MaskEnds` |
| `tray` | the first start, one restart and the exit, two settings with different ports, both kinds of platform | `OneProxy`, `ServesLatest`, liveness `ToldEnds`, `ExitEnds` |
| `installation` | two process ids, three processes, three releases, the latest one changed once; packaged or not, Windows or not | `OneInstance`, `ProgramKept`, `OfferSound`, action property `RefusedRightly` |

The type invariants and `SingleFlight` are no properties of runs: they are proved
instead, for each module of a component (section 4).

Why these bounds are enough to be worth checking:

- A pool of two with two sockets has a refill that gets one connection and still
  waits for the other while the first one is taken, grows old or is closed; one
  key is where all the marks of a key meet. Two keys with three sockets are what
  ownership across keys needs, and a socket identity that can be closed and used
  again. `MaxAge` 2 with `CheckInterval` 1 lets a rotation wake before and at the
  expiry; `Doublings` 1 lets the delay grow once and saturate.
- Two clients are the fewest that race for the shared tables, and every table is
  keyed so that they can meet in one entry (one IP, a common key) or not.
  `IpCooldown` and `DcCooldown` are above `MaxLag`, as 3600 s and 60 s are above a few
  attempts (`LagAssumption`); this is an assumption, because the handshake's
  time-out is per line (see the hazards). An age of 1 already lets one client read
  the clock before a cool-down begins and write after it, which is what both
  cool-down properties are about.
- Three sessions are one that ends, one that does not and one that arrives while the
  stop path waits.
- In `MCMsgSplitter` a word has one byte where the code has four, so that short
  packets, long headers, empty packets and the quick-ack bit all fit into six
  bytes. The intermediate header is complete with four bytes.
- `MaxDown` 5 and `MaxMessage` 3 allow messages of several fragments, an oversized
  one, an empty one, and something after each of them.

- In `cf_fallback` the second refresh thread makes the first one superseded while it
  is anywhere, and a run of the user's own can come before, between and after
  them. One client suffices for its generator: `OtherClient` moves the entry of
  the DC under it. `WithWorkers` keeps the product of pool and threads small.
- The fourteen streams of `client_init` hold an init over several records, one that
  ends inside a record, change-cipher-spec records before, between and after, an
  empty record, another type, and an end in a header, in a record and in an
  ignored one.
- One restart beside the first start and the exit already gives two operations
  that overlap, a join that times out and a handle cleared by a late thread;
  two settings tell old from new, and two ports a taken one from a free one.
- Two process ids used three times give an id used again, two starts that meet, and
  an updater, its child and a crash. Three releases with a change give an offer
  that is withdrawn and one that is replaced. Process ids are interchangeable.
  That the new program could be refused by a third live instance needs a third id,
  which the run does not have; `RefusedRightlyHolds` covers any number.

A splitter run stops after `flush()`, a client that left and a program that exited do
nothing more, and the bound on processes stops `installation`, hence
`CHECK_DEADLOCK FALSE` there.

### Fairness

The event loop runs every task that is ready and every timer that is due: weak
fairness of those steps, never of a client's, a peer's or a user's action.
`WsPool` also assumes that the clock moves and that a connect ends: each of its
awaits has a time-out, though a peer that sends one header line after the other
can stretch it (see the hazards). `ClientRouter` assumes the same of every await up to the bridge
and nothing of the session itself; the drain of `relay_init` has no time-out in the
code, so `Answered` holds of clients whose upstream takes these bytes. `Bridge` assumes fairness only of the steps
that need no peer: `TearsDown` therefore ends where the bridge starts to wait for
the peer in `ws.close()`. In `ServerRun` only `_run` and its caller are fair. Nothing is
assumed of a handler, not even of a cancelled one: it may wait for ever for the
drain of an OP_CLOSE, for a `wait_closed()` or in the masking relay, and the gather of
the stop path has no time-out. So `StopEnds` and `ListenerReplaced` name what may
stand in their way for ever (`Held`, and a live session under the newer
`wait_closed()`), and show that nothing else does. In `TrayLifecycle` threads run, a
sleep and a join with a time-out end and Tk calls the pump, but nothing is assumed of
the user or of the sessions: a box may stay open, which is the one obstacle
`ExitEnds` names, and a thread may wait for its sessions, which with the box is what
`ToldEnds` names (`Waits`). In `CfFallback` only the refresh threads
are fair: a download and a wait have time-outs. In `ClientInit` a relay reads the
end of a connection the other one has closed, and `gather()` returns when both are
done; nothing is assumed of a peer, so `MaskEnds` names a write or a closing that
waits for it. `Installation` states no liveness: a crash may end
anything.

### Findings

- `router_log`: a redirect from the first domain and a time-out from the second one
  blacklist the DC for the rest of the run, although the log message says that all
  answers were 302: the time-out branch does not clear `all_redirects`.
- `server_wait_closed`: with Python 3.12.1 or later, which the Dockerfile uses, a
  listener that died is not replaced as long as one session goes on. `ListenerReplaced`
  of the run `server` shows that this is the only obstacle, and that the older kind has
  none.

Weaknesses that the properties name as their exceptions, because no text of the
repository promises otherwise:

- A download that passed its check before a restart with the user's own domains
  still replaces them (`late` in `OwnDomains`).
- Restarts that overlap, or that give up on a thread after five seconds, can leave
  two proxies, or one that no handle names (`disturbed` in `OneProxy`).
- Two instances that start together can both be up, and so can two when a lock file
  could not be written (`met` in `OneInstance`). A lock file without content keeps
  the process with its id out (`RefusedRightly`).
- A crash between the two renames of an update leaves the program under its old
  name only, and a download cut short is put in place like a complete one
  (`torn` and `Cut` in `ProgramKept`).
- A handler leaves its upstream WebSocket open when Telegram closed it first, when
  `relay_init` could not be written, or when it was cancelled in a `connect()` or in
  the drain of its OP_CLOSE (`UpstreamClosed`, and `Released` for the bridge).
- A stop waits as long as one cancelled session does, and under the newer
  `wait_closed()` as long as one that came late (`Held` in `StopEnds`).
- A PROXY line that is none is consumed, so the masking domain does not get it.

## 4. Proofs

Every safety property that a run checks is also a theorem, for every value of
the constants. What the constants are assumed to be is in the named assumptions
of the modules; none is stronger than the code justifies, but for those named in
section 3 (`LagAssumption`) and section 2 (`OwnAssumption`).

**`WsPoolProofs`**, for every set of keys, pool size, time limit and finite set of
sockets:

- `TypeCorrect`, by one step per action;
- `SingleFlightHolds`: the mark, the task and its connections go together. It is
  inductive with the type invariant, and what the next one rests on;
- `PoolBoundedHolds`: the idle sockets and the outstanding connections of a key are
  at most `PoolSize`. Inductive only together with `SingleFlight`: a refill counts
  what it needs when it starts, so there must be no other one. The core is
  `GainedBound`: a collected batch is no larger than the tasks it came from;
- `WatchedHolds`: a deque with sockets in it has a rotation;
- `OwnedHolds`: `OneOwner` and `NoOrphan` together, which need each other: a new
  socket comes from outside `open`, so it is nobody's;
- `BackoffEarnedHolds`;
- `ContractKept`: `WsPool` implements `SocketPool`. The mapping counts a socket still
  held by a refill as pooled, so a finished connect is the step `Add`, a hit is
  `Lend`, a miss or a rotation `Discard`, the clock and a peer that closes are
  `Spoil`, and what a refill or a rotation does otherwise is a stutter. It rests on
  the invariants above and two more: a socket outside a deque has age 0 (else
  collecting it could make it stale or fresh), and one found shut is open (else an
  identity used again could be stale at birth). That a new connection fits the
  bound is `RoomForOne`: its own task leaves the outstanding ones.

**`BridgeProofs`**, for every stream of bytes, every way it is cut into chunks and
each transport, first about the splitter:

- `WalkEquation`: the recursion of the loop defines a function at all, since each
  turn looks only further on;
- `PartsAgree` and `PartsRight`: one turn at a position finds the packet that the
  header claims, if the turns further on do right. `WalkRight` puts the turns
  together: `Parted` says that the frames follow each other, each is one packet up
  to an empty one, and what is left begins one packet and does not end it;
- `SplitInvHolds`, the inductive invariant, from which `FramesArePacketsHolds`,
  `HoldsOnlyBeginningHolds` and `NothingDroppedHolds` follow. `FramesArePackets` is
  not inductive alone: a frame added later is one packet only because what was
  held back began at a packet's beginning (`Rest`), or splitting was already off,
  which needs an empty packet to have been met (`MeetsVoid`).

Then about the bridge: `DownlinkHolds`; `FramesWrittenHolds`; `UplinkExactHolds`, which
adds that the splitter's frames stay a chain up to what was fed (`FedInv`) and that
`flush` leaves nothing; `ReleasedHolds`; and the action property
`NoFrameAfterCloseHolds`: each step that writes a frame is one whose guard sees the
close frame of either side. `BridgeTypes` needs `FedInv` as well: no more frames are
on the wire than the splitter made, since it takes none back (`EndsGrow`).

**`ServerRunProofs`**: `TypeCorrect` and `SweepHolds` for every number of clients and both kinds of
`wait_closed()`.

**`ClientRouterProofs`**, for any number of clients and every configuration:
`RouterTypes`, `RelayOnceHolds`, `NoWaySkippedHolds` and `UpstreamClosedHolds`. The
inductive invariant is `RouteInv`: each client's own record is sound, whatever the
tables hold. Its core is that the methods refused, the one being tried and those
left are together the allowed ones; and a finished handler with an open upstream
is one of those `UpstreamClosed` names, for which a client that says goodbye (`bye`)
must have a WebSocket. `CooldownKeptHolds` is an action property about the shared tables: a
cool-down that is written counts from a clock reading at most `MaxLag` old. It needs
`MaxLag` to be at least 1, which `LagAssumption` says: were it 0, the clock's own
step would already be more than what a handler may take off.
`CooldownNotProlongedHolds` rests on `BarInv`: a client that still dials an IP that
is cooling down read its clock before that began, since the routing lets no other
one pass (`Cooling`), so what its own time-out writes ends no later.

**`CfFallbackProofs`**, for any number of clients, refresh threads, domains and
workers:

- `OwnDomainsHolds`, under `OwnAssumption`. `OwnInv` strengthens it by what must hold
  while the list is being installed, and by "without own domains the list is never
  the user's", which is why the next install is not skipped as equal;
- `TriesAllHolds`: the domains tried and left cover a list that was in force
  (`TriesInv`);
- `WorkerContractHolds`: the worker pool implements `SocketPool`. `PoolInv` bounds
  the idle sockets and those a refill still connects together, as `SingleFlight`
  does for the DC pool;
- `FallbackTypes`, for all variables of the three modules: `ListTypes` puts the worker
  pool, the refresh threads and the clients together.

**`ClientInitProofs`**, for every sequence of records a client can send and every way
they arrive:

- `StreamExactHolds`. `WireInv` says where the reader is: between two records the
  wire is the rest of the client's sequence, within one its first record is the
  rest of that one, and `count` is the number of payload bytes before. `Faces` is
  the same for what the next call finds, once the change-cipher-spec records are
  dropped; `PayloadKeeps` says that a call keeps the place, `OverSaid` that one which
  finds nothing has met the end of what the client said. `BufInv` follows the
  bytes through the buffer; it needs that `read()` is never called before
  `readexactly()` has returned, hence `at`;
- `DisguisedHolds`. `PathInv` ties every place of the handler to what the client has
  proved, `OutInv` says what it can have got, `MaskInv` that the bytes passed on are
  numbered from the ClientHello on. A relay exists only for a client that failed,
  which is what keeps the masking domain's bytes from a good one;
- `InitTypes`, for all variables of the two modules. Those of the reader follow from
  `WireInv` and `BufInv`, the bytes for the masking domain from `MaskInv`.

**`TrayProofs`**: `TrayTypes`, `OneProxyHolds` and `ServesLatestHolds` for any number of
restarts and settings. `OneInv` adds that at most one operation is active, that one
past its join finds no working thread, and that a join waits for the thread the
handle names. `TrayTypes` includes the queue of `macos.py` and its box (`BoxTypes`). `LatestInv` adds that what a start has applied is at least as recent
as the last request.

**`InstallationProofs`**: `InstallTypes`, `OfferHolds`, `ProgramKeptHolds`,
`OneInstanceHolds` and `RefusedRightlyHolds` for any number of processes and
releases. `OfferInv` carries the agreement of release, assets and ETag through what
each process has loaded; `KeptInv` says that while the program's own name has no
complete program, every instance runs from the other file, which therefore cannot
be removed; `OneInv` says that an instance on its way to its lock file has yet to
look at the file of the one that is up; `RefuseInv` says that who holds the mutex is
up and stays, and that a start never finds its own create time in a lock file, so
a process id used again does not keep it out.

Two of these proofs need an induction over data, the turns of `split()` and the
records of a stream. The rule of induction of the library takes a predicate as a
parameter, which the provers cannot instantiate; `LeastNat` takes its place: were a
statement wrong for some number, it would be wrong for a least one. It follows
from the well-foundedness of the order on the natural numbers, a theorem of the
library.

Before a proof was tried, TLC checked its inductive invariant on the run's own
instance.

Model-checked only: the liveness properties, `RefillEnds`, `StaleLeaves`, `Answered`,
`ListenerReplaced`, `StopEnds`, `TearsDown`, `ToldEnds`, `ExitEnds`, `MaskEnds` and
`SupersededEnds`, because fairness and ENABLED are out of the prover's reach; and the
two violations of section 3.

## 5. What is abstracted or left out

Bytes, ciphers, HMACs, HTTP text and names are model values, lengths or outcomes.
Ciphers keep positions, which is all the splitter and the bridge need. Counters in
`stats.py` decide nothing. Packaging, translations and log texts have no protocol
state.

Not modelled, and why:

- The choice between a direct and a fronted connection in `_connect_one` and the
  shared `try_fronting_first`. It decides which of two connections is tried first
  and how long an attempt takes; `WsPool` has an attempt of any length with either
  outcome.
- The exact moment at which a pooled socket was connected, as opposed to stamped:
  the code's limit is on the stamp.
- `_bridge_tcp_reencrypt`: the two tasks of `Bridge` over a byte stream, without
  frames, fragments, splitter or close handshake.
- `RawWebSocket.connect` is the set of its outcomes. It keeps no state; the parsing
  of a response is a function of its text.
- An attempt of the router ends as a redirect, a time-out or another error. What a
  failed `connect()` leaves open (a header line longer than the reader's limit raises
  past its `writer.close()`) is not followed; a cancelled one is.
- Records of length zero: `FakeTlsStream` takes one for the end of the stream, and so
  does the model (`Said`); what stands after it is not required to arrive.
- Command line and configuration parsing, ciphers and key derivation: pure
  functions of their input, covered by unit tests.
- Widgets, menus, autostart entries, clipboard, the message texts, and the window
  thread of `ensure_ctk_thread`.
- A `CreateMutexW` that fails, and a clock that goes back, which would change what
  "less than an hour old" means.

## 6. What is left to do

The modules of the plan are written, in the order pool, router, bridge, server,
worker pool and domains, tray, handshake, installation, and what the runs check of
safety is proved. Possible extensions are the TCP bridge as a second teardown in
`Bridge`, the router over `SocketPool` in place of hits and misses, and the pools'
contract carried into the router's theorems by that composition.
