# zhac-net-core in TLA+

Models, model-checking runs and proofs for the firmware of the network core: the ESP32-S3 that
connects a Zigbee core, the "P4", with browsers, MQTT and two clouds. The modules are translated
from the C and C++ sources; `PROJECT.json` names, for every definition, the lines it stands for.

    tlc -workers 2 -config MCWsServer_gate.cfg MCWsServer     # one run
    tlapm HapRoundtrip_proofs.tla                             # the proofs of one module

## 1. The system

The S3 talks HAP, a framed protocol, to the P4 over SPI, and serves everybody else over IP.
FreeRTOS tasks on two cores share most state; what protects it is a handful of mutexes,
atomics, event groups and queues, and in some places only a comment.

| Component | State | Operations | Talks to | Hard part |
|---|---|---|---|---|
| `main/hap_bridge.cpp`, correlation | table of 8 waiters, counting semaphore, streak of timeouts | `hap_roundtrip_v2`, `waiter_claim/deliver/release` | any task calls; any task delivers | late, duplicated and mistyped answers; slots and numbers used again |
| `main/hap_bridge.cpp`, link | `s_synced`, uptime and age of the last heartbeat, silence flag | loop of TaskHAP, SYNC_ACK, HEARTBEAT, link death | P4, hap_session, alerts to browsers | restarts of the P4, lost frames, a flag set and cleared on different tasks |
| `main/hap_bridge.cpp`, attr.bulk | one buffer, its length and count | `bulk_append`, `bulk_flush` | P4 to browsers | no lock between the tasks that drive it, boundary of the buffer |
| `main/hap_bridge.cpp`, alerts | ring of 32, its copy in a file | ALERT case, task that saves, load at the start | P4, flash, `alerts.get` | torn files, one notification for many alerts |
| `components/hap_master` | `s_spi_mutex`, `s_dispatch_buf` | `do_two_stage_exchange` | SPI, callback into hap_bridge | full duplex: the sender handles what it receives, and handlers send |
| `components/ws_server` | client table, signed-in marks, two mutexes, token | adopt, sign in, broadcast, reply, evict, rotate | HTTP server, all tasks that publish | socket numbers that are used again between a check and a send |
| `main/ws_bridge.cpp` | slab, queue of 24 broadcasts, drop counter | `ws_event_broadcast`, worker | all tasks to ws_server | shared slab, full queue |
| `main/log_ring.cpp` | ring of 128 lines, sinks | append, `logs.get`, sinks | every task, ws_bridge | a reader that lets go of the lock; sending logs, and log lines are sent |
| `components/remote_client` | state, event bits, two queues, credentials, the client handle | `task_remote`, connect, disconnect, publish | cloud, API, Wi-Fi events | bits taken together, a task that deletes itself, connections that change under a queue |
| `components/rainmaker_gw`, `main/api_rainmaker.cpp` | state of the agent, registry, throttle keys, persisted table | expose, unexpose, report, write, restore | SDK, its work queue, P4 | a lock released while objects are built, objects freed through a queue |
| `main/api_devices.cpp`, `dgm_store.cpp` | list cache, staged options, mirror of group membership | `device.list`, options, groups of a device | P4, flash | a list in pages, deferred commits, a mirror that lags |
| `main/groups_store.cpp`, `api_groups.cpp` | records and bitmap in flash | create, update, delete, list | API tasks | failing writes, power loss |
| `main/api_system.cpp`, settings | RAM and flash copies | `settings.set` | flash | a request refused half-way |
| `main/main.cpp`, credentials | token, password, lock-out table | sign-in, rotation | HTTP server, flash | partial writes, eviction |
| `main/main.cpp`, updates | two tasks, four semaphores, offsets | `task_ota`, `task_p4_ota` | server, P4, browsers | lost answers, late answers, broken downloads |
| `main/wifi_mgr.cpp` | retry counter, access point, two timers, credentials | Wi-Fi events, timers, Improv, API | driver, console, browsers | three tasks and a driver that posts events; the wipe of credentials |
| REST and API handlers | none | JSON to HAP and back | `hap_roundtrip` | (stateless) |

What makes each part correct: a caller gets its own answer or none, and every call returns (correlation);
an unsynced link is synced again and a silent or restarted P4 is noticed (link); updates reach the browser
whole, in order and once, while no two tasks meet in the coalescer (attr.bulk); alerts are listed in order
and the last one reaches the file (alerts); a handler sees the frame it handles (exchange); nobody
receives what they did not sign in for and lost connections are closed (ws_server); events of a task
arrive in order or are counted as dropped (ws_bridge); the last call decides whether the cloud client
runs, and it is only READY when accepted (remote_client); no freed object is used and the bridge knows
what the cloud was last told (rainmaker_gw); a store keeps what it acknowledged (stores); a hub with
credentials keeps a way back, if it can erase those it gives up (wifi_mgr); an update that was announced
ends in a result (updates).

The hazards are listed in `PROJECT.json` with the line where they bite, and the property that
covers each or the reason why none does.

## 2. Modules

| Module | Models | Composes / uses |
|---|---|---|
| `HapRoundtrip`, `HapRoundtrip_proofs` | waiter table of hap_bridge | |
| `HapExchange` | do_two_stage_exchange with the frame callback inside it | |
| `UpdateStream` | what a browser is promised of attr.bulk | |
| `HapBulk` | the coalescer, access by access | implements `UpdateStream` |
| `HapLink` | sync, restart detection, silence alert | |
| `HapTask_proofs` | proofs about `HapLink` and `HapBulk`, the two jobs of `task_hap` | `UpdateStream` |
| `WsServer`, `WsServer_proofs` | table, gate, sending | token check of ws_bridge, rotation of main |
| `RemoteClient`, `RemoteClient_proofs` | task_remote, library, cloud, API | |
| `EventQueue`, `LogRing` | slab, queue and worker; the ring of lines | |
| `Events` | the two together | `EventQueue`, `LogRing` |
| `Frames_proofs` | proofs about frames on their way: `HapExchange` between the chips, `Events` to the browsers | |
| `DeviceList`, `DeviceOptions`, `GroupStore`, `GroupMirror`, `Settings`, `Credentials` | one store each | |
| `SignIn` | the lock-out as a function of a history of attempts | |
| `Stores`, `Stores_proofs` | the API tasks that serve all stores | the six stores |
| `RainmakerGw` | uplink selector, life of the agent | |
| `Rainmaker`, `Rainmaker_proofs` | registry, work queue, callers, persisted table | `RainmakerGw` |
| `RmkTypemap` | type map and conversions, pure operators | |
| `WifiMgr` | station, access point, timers, Improv | |
| `Ota` | updates of both chips | |
| `AlertLog` | ring, file, load | |
| `Node_proofs` | proofs about `WifiMgr` and `AlertLog` | `MCNode` |

`MC...` modules give the instances. Two of them put components side by side that share no
variable: `MCHapTask` (HapLink and HapBulk, the two jobs of `task_hap`) and `MCNode` (WifiMgr, Ota and
AlertLog). A behaviour chooses its `part` and moves only that one, so the run explores the sum of
the components and not their product, which nothing in the code would tell apart; the fairness of
each is that of its module, while it moves. In the same way `MCEvents` and `MCHapRoundtrip` split their
behaviours: a walk of the log and the sending of frames meet in one frame at most, and the calls
are three of one type or two of two.

### HapRoundtrip
A caller's `pc` walks through `hap_roundtrip_v2`: `take` (unit of `s_waiter_free_sem`), `claim`
and `draw` (under `s_waiter_table_mutex`), send, wait, read, `release`, `give`. `in_flight` is
the set of frames still on the way; `Deliver` may take any of them, again and again, so that
loss, delay, duplication and reordering come for free. Numbers are `1..MaxSeq` and wrap. The
call a frame answers is a history value (`call`); the code never looks at it.
`FramesExpire` is an assumption about hap_session and the P4: no frame is older than a cycle of
65535 numbers. The reply's identity needs it; the other properties are proved without it.

### HapExchange
`calls[t]` is the stack of exchanges of a task: a handler that answers pushes another. `Give`
gives the mutex, `Handle` reads `s_dispatch_buf` later: what lies between the two is the point
of the module. `alone` is chosen once: behaviours in which only TaskHAP makes exchanges, for which
more is promised, and those in which the HTTP server sends too. A bad transfer, a bad CRC and an
empty slot are one outcome, "nothing".

### HapBulk and UpdateStream
Every unlocked access of `s_bulk_buf`, `s_bulk_len`, `s_bulk_count` is a step (`Separator`, `Copy`,
`Grow`, `Count`, `CloseArray`, `Emit`, `ResetLen`, `ResetCount`), of any task of `BulkDrivers`: whichever
task exchanges frames handles updates (`hap_master.cpp:237`). `met` is history: a task came in while
another was inside. A byte of an update is its owner and its position, so a mixed array shows.
`UpdateStream` has `pending` updates and emitted `events`; `HapBulk` maps them to the buffer up to its
length and to the output, both read as a browser would (`Items`: the updates in the order of their first
cells). Once an array has been sent, and before the length is reset, nothing is pending (`Pending`).

### HapLink
Time passes in heartbeat intervals (`Tick`). `window` is the boot of the P4 whose numbers the
receive window follows, `heard_boot` and `quiet` are history. `calm` is chosen once: calm weather,
in which no heartbeat is lost or handled off TaskHAP and a P4 runs for `CalmUptime` intervals
before it restarts, or rough weather without these promises. The handler of a heartbeat is cut
where the code is not atomic: `HbCheck` (compare uptimes), `HbStore`, `HbEdge` (clear the flag),
`Announce` (broadcast the alert); and so is the loop: `LoopSilence` (raise the flag), then `Raise`, its
`Announce`. Whoever is held up between flag and alert may announce its edge after a later one.

### WsServer
An action is a critical section of `s_mutex`, a call into the HTTP server, or one of the two
sends of a frame. A connection is a number that is never used twice, a socket number (`fd`) is:
`conn[f]` is the connection behind it. `reuse` (numbers pass to new connections) and `control`
(clients send PING) are chosen once per behaviour: what the server keeps to only without them
says so in its property. `Rotators` are the tasks that rotate the token. `TriggerClose`
(`httpd_sess_trigger_close`) may be refused by the server, `MaxRefused` times; the code does not look at
the result, and `refused` is the history of the connections it left open.

### RemoteClient
`at` is the place of the task in its loop: `wait`, `rx` (frames of this turn), `act` (the switch
on the state), `tx`, `backoff`, `dying`, `gone`. `bits` is the event group, `taken` the bits of
this turn. Frames and events carry `mine`: whether they belong to the present connection; a
stopped client turns all of them foreign. `setting`, chosen once, says whether the uplink is
`wired`, whether the cloud sends `commands`, and which of three real `races` may happen: `hasty`
callers, a spawned task that `overtake`s its spawner, a network that `flap`s within a turn.

### EventQueue, LogRing, Events
`ws_event_broadcast` is `Make` and the steps of `HandOver`: take the mutex, format in the slab, copy it,
give the mutex, queue. A frame is its task and its number there; formatting by a second task shows as a
frame that is not the one handed over. The worker takes a frame and sends it client by client. `LogRing`
has one step for the bounds and one per entry of `logs.get`. `Events` joins them by `dispatch_to_sinks`: a
line goes into the ring and, unless it is logged inside the send loop, into the queue, where a line about
a failed send is a frame again.

### Stores
Each store module has its own state, a `Request`, the `Step`s of a task inside a call, and what a
restart leaves. `Stores` gives each of two API tasks one call at a time over all of them and shares
one restart. In flash, `DeviceOptions` and `GroupStore` tell written from committed; `Credentials` numbers the
secrets that are drawn, so that a salt of one password with the digest of another shows. `SignIn`
is a fold over a history of attempts, compared in `MCStores` (ASSUME `Lockout`) with a reference
that keeps every failure, for all histories of the instance; ASSUME `Mirrors` compares the table operations of
`dgm_store.cpp` with the relation they stand for.

### RainmakerGw and Rainmaker
The gateway follows the agent's events in `s_state`. An entry of `reg` with `dev = Nil` is a reservation
whose objects are being built with the lock released; `queue` is the SDK's, and `worker` the write that is
being run (it blocks for a round trip to the P4). Callers are an API task, `task_hap` and the boot restore.
`Publish` is the SDK's call whose result the bridge ignores: the value reaches the cloud, or it is lost.

On which task the SDK runs writes, the source says two things. The comment above the callback
(`rmk_bridge.c:289-292`) says the task of the work queue, where a teardown cannot come in between; those
of unexpose (`rmk_bridge.c:624-627`), of rename (`:1081-1085`) and of `device.rainmaker.remove`
(`api_rainmaker.cpp:614-632`) accept that a delete frees what a write in progress holds, which takes a
second task. The SDK is not part of the repository, so `writeTask` is chosen once: `"queue"`, where
writes wait in `queue` with reports and teardowns, or `"own"`, where they run beside it.

`lost` and `crossed` are history, per object: its last value to publish did not reach the cloud; its
last write ended while a report of it was waiting, or was overtaken by one.

### WifiMgr
The handler of the esp_event task takes the head of `events`, which the driver posts; the driver, the
timers and `task_improv` move in between. The grace timer's callback is two steps (`GraceFires` has read
the flags, `DropAp` acts), the wipe is two (`Disconnected` decides, `clear_sta_creds` erases), Improv
three. `router`, outages and failing handshakes are the environment, and so are the writes to NVS that
fail (`Faulty`, at most `MaxFaults`), which no caller notices: what was stored stays, or a part of a new
pair replaces it. `kept` is history: credentials were given up and could not be erased, and nothing was
tried since.

### Ota and AlertLog
`Ota` counts chunks. `toP4` and `fromP4` are the frames between the chips, in order, of which some
are lost; `expected` is the P4's. Each wait has a time limit, so it may always end. `AlertLog` numbers the
alerts; `file` is the set with the one file, or empty while it is truncated; a restart loads what is there.
`Listed` are the entries that `alerts.get` lists: an alert of `Size` is passed over if it exceeds what the
older ones have left of `Room`, the reply.

## 3. Runs

| Run | Shows | Bounds |
|---|---|---|
| `MCHapRoundtrip_calls` | replies end in the call they answer; units and free slots agree on every path; a slot that changes hands brings no foreign signal; no write after return | 2 calls of 2 types, or 3 of one, for 2 slots and 2 numbers |
| `MCHapExchange_exchange` | no task waits for itself; what is queued is fetched; with one task, payloads and order are right however deep exchanges nest | 1 or 2 tasks, 4 frames, depth 3 |
| `MCHapTask_loop` | alerts pair up, resync, report of silence, in calm weather a restart is noticed; arrays, and the refinement of `UpdateStream`, until two tasks meet in the coalescer | 2 tasks, 2 boots, 3 heartbeats each; 7 updates of length 1 to 5, buffer 6, 2 tasks in turns |
| `MCWsServer_gate` | signed-in marks follow the connection, also over reused numbers; without reuse no broadcast leaks | 2 or 3 connections on 2 numbers, rotation by Httpd, 1 refused close |
| `MCWsServer_sending` | no zombie and lost connections closed, unless the server refuses to close one; senders finish | 2 connections for 1 place, 2 broadcasts, dead peers, 1 refused close |
| `MCRemoteClient_safety` | READY only when accepted here; no client without a task | flapping Wi-Fi with all kinds of frames, or hasty callers and overtaking |
| `MCRemoteClient_liveness` | the last call takes effect | no races on Wi-Fi, flapping on Ethernet |
| `MCRainmaker_bridge` | no report or entry refers to a freed object, nor does a write on the task of the queue; throttle key and cloud agree but for lost publishes and crossings; no reservation stays, a connected and mapped node serves; by ASSUME the type map over all its range | 2 devices, 2 entries, queue of 2, writes on either task, any publish may be lost, 4 inputs, 1 restart |
| `MCEvents_browser` | order, counted drops, the walk of `logs.get`, the queue empties although sending logs | 2 tasks, 3 frames, queue of 2; a walk over a ring of 2 while 3 lines are written and 1 frame is sent |
| `MCStores_api` | gaps of a paged list bounded by the changes, pending options have a timer, saved groups stay listed, the mirror lists nothing false, live settings are stored | 2 tasks, 3 calls, 1 restart, 3 devices in pages of 2 |
| `MCNode_services` | a way back to the hub and a link in the end, unless credentials could not be erased; a result for each announced update; alerts in order through restarts and in the file | 2 networks, 1 outage, 1 failing handshake, 1 failing write, 2 requests over Wi-Fi; image of 3 chunks, 1 lost frame; ring of 2, 5 alerts of three lengths, room for 2, 2 restarts |
| `MCNode_ap_stays` | *violation*: the credentials are wiped with the access point gone | as above |

The violation is a disagreement between the code and a comment; `PROJECT.json` quotes the line and says
what the run shows. Each module has a type invariant (the stores one each), and `WsServer` has `TakeTurns`
(without PING no two tasks interleave on a socket); where these are not in a run they are theorems, and
adding them to any of the configurations checks them there.

### Further configurations, run by hand
Each shows a place where the code does less than a comment, or the README of the component, says;
the runs above leave the circumstance out by their constants, or by the premise of the property.

| Configuration | Shows | The text it is about |
|---|---|---|
| `MCHapExchange_shared_buffer` | another task's exchange fills the dispatch buffer before the handler reads it (`hap_master.cpp:237`) | "exclusively owned" (`:175`) |
| `MCHapTask_two_tasks`, `NoBrokenArray` | two tasks meet in the coalescer, which has no mutex (`hap_bridge.cpp:498`) | "run on task_hap exclusively" (`:479-482`) |
| `MCHapTask_loop` with `AlertsInTurn` | a task held up between flag and alert announces "silent" after another announced "recovered" (`hap_bridge.cpp:606-612`, `:1063-1070`) | |
| `MCWsServer_sending` with `NoneForgotten`, `AllLostAreClosed` | a close that the server refuses leaves an open connection without an entry, and nobody repeats it (`ws_server.cpp:95`, `:478-480`, `:506`) | "best effort" (`:478-480`) |
| `MCHapTask_loop` with `AnySilenceReported` | a P4 that never sent a heartbeat is never reported (`:1060`) | "if three heartbeat intervals have passed" (`:1054`) |
| `MCRemoteClient_claims`, `NoStaleEvent` | an event outlives its connection (`remote_client.cpp:535`) | "TX queue NEVER persists across disconnect" (`:12`) |
| the same, `NoEarlyCommand` | a command runs before the cloud accepted us (`:341`) | "must not reach command dispatch" (`:290-291`) |
| the same, `FreshCreds` | new credentials of a connected client are not used (`:431`) | "a live connection on stale creds is torn down" (`:429-430`) |
| `MCStores_claims`, `PasswordUsable` | salt of one password, digest of another (`main.cpp:203`) | |
| the same, `CacheFollowsPool` | a cached list is served after a join (`api_devices.cpp:297`) | "push events refresh the cache out-of-band" (`:133`) |
| the same, `RestartLosesNothing` | an option accepted between flush and restart is lost (`main.cpp:635`) | "nothing in-flight is lost" |
| the same, `SavedIsListed` | a group whose bit was not written is reported as saved (`groups_store.cpp:115`) | "a failed bitmap write otherwise leaves ..." |
| `MCNode_services` with `AlwaysTries` | a wipe that fails leaves credentials that nothing tries (`wifi_mgr.cpp:162-168`, `:281-283`) | |
| the same, `EndsWithNewest` | a list too long for the reply loses its end, the newest alerts (`api_system.cpp:355-356`) | |
| `MCRainmaker_deep` with `WritesAreSafe` | with writes on a task of their own, a teardown frees what a write holds (`rmk_bridge.c:582-587`) | accepted at `api_rainmaker.cpp:614-632`, excluded at `rmk_bridge.c:289-292` |
| the same, `CloudAgrees` | after a write and a report that cross, the throttle holds back the value the cloud lacks (`rmk_bridge.c:342-358`) | "last_reported can have drifted" (`:789-791`) |
| the same, `CountIsCommitted` | unexposing a reservation takes off a count that was never added (`rmk_bridge.c:605`) | |

Why the bounds are enough: every module's interesting case needs two actors that meet in one
place (two callers and a slot, two tasks and a buffer, an old and a new connection on one
number, a caller and the worker on an entry, a timer and the handler on the access point), and at
least one of each counter wrapping or each place being full. The bounds give exactly that, and one
more actor where it changes something. `CHECK_DEADLOCK FALSE` stands in the configurations of
WsServer, Events, Stores, Rainmaker and Node: connections, frames, calls and requests are bounded
there, so the system may run out of things to do.

### Fairness
Every task runs (weak fairness of its steps). Beyond that: a mutex that is taken with a timeout
is not missed for ever, and one that is waited for is given to each that waits (strong fairness of
`Lock` in HapExchange and WsServer, of `HandOver` in Events); a link that is
used again and again sometimes works (`Transmit`, `P4Answers`); the server handles its control
queue; a send to a dead peer ends (`SO_SNDTIMEO`). In RemoteClient a good cloud answers, a
connection that comes up is not for ever reported within the few milliseconds of a turn (`Connect`
at `wait`), and queues do not fill faster than they are emptied (`RxDone`, `TxDone`). In HapLink
some answer to a SYNC that is repeated for ever arrives, on whatever task. In WifiMgr an attempt
of the driver ends and timers fire; in Ota every wait ends, with an answer or at its limit; in
Rainmaker the callers run. HapRoundtrip, Ota,
AlertLog and Stores assume nothing of link, server and flash.

## 4. Proofs

`HapRoundtrip_proofs` proves, for any number of callers, slots, tries and sequence numbers:

- `TableInvariant`: `TableInv`, the inductive invariant. Its parts say who owns what: a
  live slot points to a caller that sits in it (`SlotsOwned`), a caller between claim and release
  owns its slot (`HoldersOwn`), the mutex is held across steps only in the draw loop
  (`DrawLocked`), units and callers add up (`UnitsConserved`), live numbers differ
  (`UniqueLiveSeqs`). None of these is inductive alone: the numbers stay unique only because the
  draw is locked, ownership only because a slot is free when it is drawn, and so on.
- `TypeCorrect`, `SeqsUnique`, `UnitsAreConserved` follow from it.
- `NoLateWrite`: a buffer only changes while its caller is in the call; a step property, by the
  ownership of the slot the delivery goes to.
- `ClaimSucceeds`: a caller with a unit finds a free slot, by counting: used slots map one to one
  into the holders of units.
- `CorrelationInvariant`, `ReplyIsMine`: with frames that expire, what a caller reads is the
  answer to its present call. `FramesOwned` says that no frame on the way carries the number of a
  slot it does not belong to; the guard on drawing numbers in use by frames preserves it.

- `WokenByTheOwn`: a signal in a slot was raised for the call that sits in it (`SignalsHeard`),
  because claiming drains what the previous user left and a deliverer checks the number under the
  mutex that a release takes too.

The assumptions are those named in `HapRoundtrip` (sizes are positive numbers, the set of
callers is finite).

`Frames_proofs` proves of `HapExchange`, for any number of tasks and frames and any depth of nesting:

- `ExchangeInvariant`: `StackInv`. Of a task's exchanges only the innermost moves; all outer ones
  wait in their callback (`OuterReplied`), and the holder of the mutex is, in its innermost
  exchange, between taking it and giving it (`MutexHeld`). The second needs the first: an outer
  exchange must not be a holder. The lemmas before it say what entering, leaving and moving do to
  a stack.
- `NeverWaitsForItself`: `NoSelfWait`, at once.
- `HandlerInvariant`: frames pass the queue in ascending order, and while TaskHAP is alone, the frame
  it is about to handle comes after all handled ones, before all queued ones, and lies in the
  buffer: nothing TaskHAP does between `Transmit` and `Handle` of one frame is another `Transmit`,
  since a reply starts after `Handle`.
- `NestedHandlersSeeTheirPayload` and `NestedHandlersKeepTheOrder` follow. Without `alone` the
  first is false, as `MCHapExchange_shared_buffer` shows.

and of `Events`, for any producers, depth of the queue, size of the ring and number of failures, lines
and walks:

- `QueueInvariant`, `FramesInOrder`. A task between the halves of `ws_event_broadcast` holds the
  mutex and finds its own event in the slab (`SlabIsMine`); a producer carries its newest frame, which
  is newer than all it sent (`HeldFrames`); what is queued and sent ascends task by task and is older
  than what is carried (`OrderedFrames`). `InOrder` is not inductive without the last two: a frame that is
  queued must be newer than all before it.
- `EveryDropCounted`: the account of all frames made is part of the same invariant (`Accounted`), since
  counting a frame needs that each busy producer has exactly one, with a number.
- `RingInvariant`, `WalkIsBounded`. From the head on the lines of the ring ascend (`RingOrder`); the
  writers follow a walk at a distance that only the lines written since shorten (`HeadFollows`), so a
  write replaces at most one entry that is still to be read, and that is one of the first
  `written + 1` (`WhereHit`). `LinesLost` counts old lines answered and still there together: reading one moves
  it from one count to the other, and a write takes off one at most.

They assume what `EventsAssumption` says: the worker is not a producer, and the ring has an entry.

`HapTask_proofs` proves of `HapLink`, for any tasks that handle heartbeats, any number of boots and any
uptime:

- `AlertsArePaired`, from `LinkInv`: alerts that are out, and those that tasks have still to announce,
  add up to the flag, and a task between comparing and storing holds a heartbeat. The order in which
  tasks announce is not promised (`AlertsInTurn`).
- `CalmInvariant`, `RestartIsNoticed`: in calm weather what TaskHAP knows of the uptime (`Known`, or
  what it is about to store) is at most one interval behind the P4 (`HeardThisBoot`), so the first
  heartbeat of the next boot is below it (`HeardOneBefore`). The last step needs
  `CalmUptime >= 3`, that is, a P4 which runs for three heartbeat intervals before it restarts:
  with 2, TLC finds a restart that looks like progress.

and of `HapBulk`, for any tasks that drive the coalescer, any updates of any length and any size of the
buffer. The comment says that TaskHAP alone drives it (`hap_bridge.cpp:479-482`); the code has every
exchanging task do it, so nothing is assumed of the tasks. The properties hold until two of them meet
inside (`~met`): what one task finds when its turn comes is what the one before it left. After a meeting
an array may be broken (`MCHapTask_two_tasks`).

- `BulkInvariant`, `ArraysAreWellFormed`, `NothingIsLost`. `InTurns`: until a meeting one task has the
  turn and the others are outside. Between two updates the buffer is an open array of whole updates with
  room for its end (`BufferIsOpen`), and the count is zero exactly if it is empty (`CountIsRight`); within
  one, `UpdateInHand` says how much of it is written. The room for the end is what the comparison with the
  size of the buffer buys, so a write never leaves the buffer and an update that does not fit goes out
  alone.
- `BulkImplementsStream`, of behaviours without a meeting: every step is one of `UpdateStream` or changes
  nothing there. An update is added with `Grow`, when its cells begin to count, and the batch goes out
  with `Emit`; all other steps map to a stutter, which is the larger part of the proof (`ItemsKept`,
  `ItemsGrown`: what a reader makes of cells that other steps leave alone).
- `UpdatesShownInSequence`: what `UpdateStream` promises (`InSequence`) by its own induction, and so what
  the browser sees.

`WsServer_proofs` proves, for any number of sockets, connections, tasks and broadcasts:

- `ServerInvariant`: the table has a socket once and its two arrays are of one length, the entries
  are open connections (`EntriesOpen`) and the marked ones once signed in (`EntriesTrusted`), Httpd
  works on a socket that is open (`CurOK`), and `s_tx_mutex` is held by the one task that is
  between its sends (`PlacesOK`). `FramesStayWhole` (`TakeTurns`) is the last part.
- `GateKeepsTheToken`: entries and the work of Httpd vouch for the token in force, over reused
  numbers too. It assumes `Rotators \subseteq {Httpd}`: a task that rotates between Httpd's look at the
  token and its mark leaves a mark for the old one. The API call that rotates is served by the
  HTTP server; the cloud's list of commands leaves it out (`remote_allow.cpp:70`).
- `GateIsKept`, `NoneIsForgotten`: what a task has taken from the table stays true of the connection
  behind the number (`SnapsStay`), as long as numbers are not reused, which is the premise of the
  two properties. It takes no assumption on the rotators. `NoZombie` excepts connections whose close
  the server refused: nothing but their end removes them from that set.

`RemoteClient_proofs` proves `ReadyIsAccepted` and `NoOrphanIsLeft` from `Inv`, for queues of any depth.
READY comes out of a frame of the queue, so the frames that accept must be of the present
connection (`FramesOK`), which holds because the queue is emptied between two sign-ins (`QueueOK`);
`BitsOK` keeps a late `AUTH_OK` from a turn in which it could be taken for another sign-in;
`TaskOK` says where a task without a client can be.

`Node_proofs` is about two components that share no variable:

- `WifiInvariant`, `NobodyIsStranded`. The proof gives more than the property: with credentials in
  flash the hub is always trying (`KeepsTrying`), whether or not its access point is up, unless it gave
  them up and the wipe failed (`kept`). Any other write may fail without harm to this. What
  carries it is `LinkOrDrop` (a GOT_IP that waits belongs to a link that is there, or its end waits
  behind it) and `StaWanted` (the driver has the credentials, or is about to get them).
- `AlertInvariant`, `AlertsAreListed`, for a ring of any size. `ImageOK` is what the ring in RAM, the
  copy that is written and the file have in common: read from their start, modulo the size, they
  ascend. The lemmas before it say what storing at the head does to every index. The lengths of alerts
  and of the reply are arbitrary; what fits is not in the invariant, since the list is a function of the ring.

`Stores_proofs` proves each store over its own variables: a step of `Stores` is a step of the store or
leaves it alone (`OptMoves`, `GrpMoves`, `SetMoves`, `ListMoves`, `DgmMoves`).

- `PendingStaysArmed`: what is pending has its timer, or a flush has been handed to a task
  (`ArmedOrDue`).
- `SavedGroupsStay`: of a saved group the record is in flash, and so is its bit unless the write of
  the bitmap failed (`SavedIsKept`); a call that deletes has taken it off the saved ones first
  (`CallKnows`), and the lock keeps others out meanwhile.
- `LiveStaysStored`: what is live and not stored waits for the end of a request that can no longer
  be refused (`StoredOrDue`, `Promised`). It assumes `OneServer`: one task serves `settings.set`, the HTTP
  server's, since the cloud's list leaves it out (`remote_allow.cpp:70`); two requests that cross
  could apply one value and store the other. The run has the second task serve the other calls.
- `GapsStayBounded`: a change of the pool moves at most one of the steady devices across any one
  place (`OneMoves`), since the last device takes the place of the one that leaves. So a list in
  progress is off by at most one device per change (`OffBy`), counted with the cursor, and a list
  without a change is the pool up to the cursor (`Prefix`).
- `MirrorStaysHonest`: a table lists a device once, each of its groups once, and only groups it was
  in (`HonestTable`). What a task has read from the P4 or is about to write must be as honest as the table,
  however long ago it was read, which holds because `everIn` only grows.

`Rainmaker_proofs` proves, for any devices, entries, callers and length of the queue:

- `BridgeInvariant`, `NoObjectDangles`: an object that is alive has one owner: an entry, the caller
  that has built it and not committed, the caller that has taken it off, or one teardown in the
  queue, which lies behind all reports of the object (`Entries`, `Held`, `Built`, `Going`, `Used`).
  `NoDangling` alone is not inductive: a teardown that runs needs the others to say that nothing
  else refers to what it frees. Reports and entries are safe wherever writes run; that a write in
  progress is, has `writeTask = "queue"` as its premise, for with a task of its own the window exists.
- `ThrottleIsRight`: for an object whose last publish was not lost and that no report and write have
  crossed, the value noted in the entry is that of the last report in the queue, or, without one, what
  the worker is about to show or to note, or else what the cloud was told (`Shown`, `InHand`). It rests
  on lemmas about the last report of a queue when something is appended or taken.
- `ConnectedServes`: `GwInv`. It assumes `~EarlyEvents`, that no event of the agent comes before
  `rainmaker_gw_init` has set the state after `esp_rmaker_start()` returned (`rainmaker_gw.c:226-232`).
  The code does not enforce it: the first event follows a claim or a TLS handshake, the
  assignment is the next statement. With early events TLC finds a connected node that stays in
  INIT_CLAIM, so the assumption cannot be dropped.
- `BrightnessInBounds`, `KelvinInBounds`, `SliderStays`, for every integer a device may report: the
  cloud is told a value on the parameter's scale, and what the slider is set to survives the way
  to the device and back.

Only model-checked:

- all liveness, which the prover cannot reason about;
- what a recursive definition computes for every input, where a proof is an induction over data: the
  lock-out (`SignIn`) and the type map's recursion over exposes;
- the fairness of `ImplementsStream`: the theorem is about `UpdateStream`'s steps, the run about its
  `Spec`;
- `Credentials` and `Ota`, about which the runs check liveness only, or which are in configurations
  run by hand.

## 5. What is not modelled

hap_session, the P4, the HTTP server, the WebSocket library, Wi-Fi, the RainMaker SDK and the
cloud are external: the modules give them the behaviour the code relies on, and more. Formatting,
JSON, logging and metrics are left out. The REST, rules and scripts handlers translate a request
to one round trip and keep nothing. The MQTT side hands bytes to a broker. The renaming of an
exposed device, which may use an object that is freed meanwhile, as the source itself says
(`rmk_bridge.c:1081-1090`), the scan and the framing of Improv are not modelled either; `PROJECT.json` says
for each component what is left out.

## 6. Plan

Every safety invariant and action property of the runs has a theorem. What would come next:

1. `HapStack`: `HapExchange` with `HapBulk` and `HapRoundtrip` on top, so that the premise `alone` and
   the turns of `HapBulk` are drawn from one place.
2. A safety property of `Ota` (an image is only marked valid after all its chunks were written and
   checked) as an invariant with its theorem.
3. The metrics of the MQTT side and the rate limit of its sink.
