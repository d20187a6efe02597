# Verification of the Xiaomi SDM660 common device tree

TLA+ models, TLC configurations and TLAPS proofs for the programs of this
repository: the location stack under `gps/`, the IPA tethering daemon and
offload HAL under `data-ipa-cfg-mgr/`, the power, light, USB and fingerprint
HALs, and the small Java applications. Everything below is translated from
`src/`; line numbers are those of the files named in `PROJECT.json`.

Contents: inventory of the system, the plan, the modules and how they
correspond to the code, the runs and their bounds, the proofs, what is only
model-checked, what is not modelled.

## 1. Inventory

The tree is a bag of independent daemons and libraries; they share no state
except through the kernel. Concurrency, ordering and failure live in four
places, which are the core of this project:

| Component | State | Operations | Interacts with |
|---|---|---|---|
| Interaction boost (`power-libperfmgr/disp-power`) | handler state, duration, eventfd, hint | Init, Exit, Acquire, the waiting thread | binder thread, HintManager, display idle node |
| AGPS data calls (`gps/gnss/Agps.*`) | one NIF state machine per bearer: state, subscriber list, APN/bearer | requestATL, releaseATL, open success/failed, closed, modem restart | modem (LocApi), framework status callback and its asynchronous answers |
| Timers (`gps/utils/LocTimer.cpp`, `LocHeap.cpp`) | heap of timers, one timerfd per container, epoll | start, stop, expire | client threads, MsgTask thread, poll thread |
| Message queue and tasks (`gps/utils/msg_q.c`, `MsgTask.cpp`, `LocThread.cpp`) | list, unblocked flag, mutex and condition; message loop thread | snd, rcv, rmv, flush, unblock, destroy | every adapter of the location stack |
| IPACM command queue and dispatcher (`ipacm/src/IPACM_CmdQueue.cpp`, `IPACM_EvtDispatcher.cpp`) | two queues, listener list | PostEvt, registr, deregistr, ProcessEvt | netlink, conntrack and offload threads |
| IPACM NAT cache (`IPACM_Conntrack_NATApp.cpp`) | cache of connections, power-save list, hardware table | AddTable, DeleteTable, AddEntry, DeleteEntry, power-save updates | conntrack listener, ipanat driver |
| IPACM offload manager and HAL (`IPACM_OffloadManager.cpp`, `hal/src/HAL.cpp`) | registered callbacks, event cache, prefixes, upstream | init/stop offload, add/remove downstream, set upstream, quota | framework tethering, IPACM event queue |
| IPACM interfaces (`IPACM_Wan/Lan/Wlan/LanToLan/Iface*.cpp`) | per-interface rules and handles | event callbacks per interface | dispatcher, IPA driver |
| ipanat driver library (`ipanat/src/ipa_nat_drvi.c`) | base, expansion and index tables in shared memory | add/del table, add/del rule, timestamp query | IPA hardware (DMA commands), IPACM |
| Location sessions (`gps/location`, `gps/gnss/GnssAdapter.cpp`, `gps/core/LocApiBase.cpp`, `LocAdapterBase.cpp`) | clients, sessions, masks, engine state | start/stop/update tracking, NI, config | clients, MsgTask, modem |
| Geofence and batching adapters | geofence map, batching sessions | add/remove/pause/resume, start/stop/flush | LocApi responses |
| System status observer (`gps/core/SystemStatus*.cpp`, `observer/`) | data-item cache, client index | subscribe, unsubscribe, notify | MsgTask, IPC |
| XTRA observer, LocIpc, loc_nmea, loc_cfg, SkipList, LogBuffer | sockets, parsers, containers | text and I/O | - |
| HIDL front ends (`gps/android/*`) | proxies of the location API | binder calls | LocationAPI |
| Light, USB, fingerprint HALs, init, DeviceDoze, DeviceSettings, IFAA, libshims, rootdir | small | pass-through to sysfs, vendor libraries | - |

Hard behaviours, component by component (the lines are in `PROJECT.json`
`hazards`):

* *Interaction boost*: a request may land while the thread polls, between poll
  and `Release`, or before it read the duration; the eventfd must be consumed
  by the wait it was written for; `Exit` races the thread.
* *AGPS*: the framework answers asynchronously; answers to abandoned requests
  arrive late; a modem restart drops subscribers but not the connection state.
* *Timers*: `stop` races expiry; the expiry is a message in a queue, and by the
  time it is processed the heap may have another head.
* *Message queue*: sends race the destruction of the consumer; a stopping
  thread must neither lose nor process a message twice.
* *IPACM*: callbacks change the listener list that is being walked; caches and
  hardware tables must agree when one step of several fails.

## 2. Plan

Order of work: first the parts whose correctness hangs on interleavings and
lost or late events, then the ones whose difficulty is volume. Every module
has its parameters as CONSTANTS with named assumptions, one action per
operation, and no RECURSIVE operator, so that it can be proved about.

| Step | Modules | Abstract specification | Theorems | State |
|---|---|---|---|---|
| 1 | `InteractionHandler` | - | types, stale aborts, deadlines, lost wake-ups | done |
| 2 | `Agps` | - | types, released machines, acquired machines, pending calls, the handles of the modem | done |
| 3 | `LocTimer` | `LocTimerService` | types, delegate ownership, arming, refinement | done |
| 4 | `MsgQ` | - | types, wake-ups, freeing, order | done |
| 5 | `IpaNat` | - | types, cache against table, what the cache remembers | done |
| 6 | `NatTable` (ipa_nat_drvi): base, expansion and index tables | `RuleSet`, which is what `IpaNat` assumes of the driver | the refinement, the links, the leaks | done |
| 7 | `Tracking`: sessions multiplexed on one engine session | - | no answer is lost but where the code drops one, no session outlives its client's interest, clients have what they asked, the engine does what is asked | done |
| 8 | `Upstream`: HAL, offload manager, dispatcher, uplinks and the access point composed | what the framework wants (`want`) | the chosen upstream is served and no other, nothing after a removal, the flags, the firewall, the access point's rules | done |
| 9 | `WlanClients`: the array of Wi-Fi clients, their headers and rules | - | rules belong to clients, clients are served, nothing leaks, the count | done |

`LocTimer` stands on `MsgQ` (its `queue` is that of a MsgTask) and uses of it
what `MsgQ` shows: messages arrive, once and in order. `Agps` and `Tracking`
use the same of their queues. `IpaNat` assumes of the driver what `NatTable`
shows, a set of rules. `Upstream` composes five components of IPACM; the rules
it counts per family and access point are, client by client, the subject of
`WlanClients`.

## 3. The modules and the code

Names of operators are those of the code where TLA+ allows it. `PROJECT.json`
`map` gives the lines of every definition. Operators whose name has an
underscore (`Signal_None`, `Take_Newest`) are no part of the model: they are
plausible wrong versions of the operator they precede, which the properties
must tell from the right one.

### 3.1 `InteractionHandler` (`power-libperfmgr/disp-power/InteractionHandler.cpp`)

Binder threads call `Acquire`, the owner calls `InitHandler` and Exit
(`ExitBegin`, `ExitNotify`, `ExitJoin`: the three pieces between which the lock
is free), and one Routine thread runs `RoutineTop`, `ReadDuration`, the two
polls, the `pread` of the idle node and `Release`. Everything under `mLock` is
one action; the duration that the thread reads after it has unlocked is an
action of its own. Time is relative: `age` is the time since `mLastTimespec`
and saturates, `left` is what remains of a poll, and `owed` is a history
variable: what the requests made so far still ask for. `duration + 650` may
overflow an `int`; `FinalDurations` has both outcomes a build may produce.

### 3.2 `Agps` (`gps/gnss/Agps.cpp`, the data-call handlers of `GnssAdapter.cpp`)

One state machine for each network interface. The modem's requests and the
framework's answers reach the machines through the queue of the adapter's
MsgTask; `ProcessMsg` runs one message to its end, as the thread does. The
framework is external: it serves each interface's requests in order, answers
when it likes, and connections drop on their own. `deleteSubscriber` goes on
comparing list elements with the element it has just freed; `Deleted` lets
that read give any of `FreedReads`. `behind` keeps of the list's order what
this needs. The modem is what its own callbacks tell it (`modem`). Subscribers
that wait for the close (`WaitsForClose`) keep a machine RELEASING until it is
reported. `requestATL` makes none today (Agps.cpp:593), and the run `agps` has
none; the machine is written for them, `agps_hostile` has one, and the theorems
are about any number.

### 3.3 `LocTimer` and `LocTimerService` (`gps/utils/LocTimer.cpp`)

Clients start and stop timers under their own lock, so both are one action.
The container, its heap and its timerfd belong to the MsgTask thread, which
receives `push`, `remove` and `expire`; `expire()` is split where the code
gives up or does not hold the lock: the copy of `mClient` (`Pop`), the forced
stop (`ForceStop`), the callback, and the loop. The poll thread disarms,
leaves epoll and posts in three steps. The heap is a set, of which any soonest
element may be the top (`Tops`): its shape is not modelled. One container
stands for the two (wake-up timers and others), which share no timer; a
delegate's `mFutureTime` reads 0 once deleted. `LocTimerService` is what
`LocTimer.h` promises a client, and `LocTimer!Service` the mapping to it.

### 3.4 `MsgQ` (`gps/utils/msg_q.c`, `MsgTask.cpp`, `LocThread.cpp`)

The list, its mutex and its condition variable; each critical section is one
action and a wait gives the mutex up at its own action. `RcvBegin`, `WakeUp`,
`SpuriousWakeUp` and `Proc` are MTRunnable::run, `Stop`, `Unblock` and
`StopReturns` are LocThread::stop. The runnable is a shared pointer: `refs` is
who holds it, and the last holder flushes and frees the queue.

### 3.5 `IpaNat` (`ipacm/src/IPACM_Conntrack_NATApp.cpp`, `IPACM_ConntrackListener.cpp`)

All handlers run on the dispatcher thread: an action is a handler with all the
NatApp calls it makes. `nat` is the NatApp object: `tbl` whether
`nat_table_hdl` is set, `pub` and `pre` the public address and the one before,
`saving` the power-save list, `cache` for each key whether the connection is
not cached, cached without a rule (`off`) or enabled (`on`), `temp` the
temporary entries, and `hw`, which is the hardware's: how many rules of a key
the table holds. NatApp's operations are operators from object to object, and
the listener's handlers (`TriggerWANUp`, `CtNew`, `HandleNeighIpAddrAddEvt`,
...) compose them as the code does. What the driver and the sizes of its arrays
refuse are parameters of the actions: `refused` (no room in cache, temporary
list or table) and `stuck` (a rule it fails to delete).

A key is a connection and the private address its rule has: that of its
source, or the WAN address, which the code puts there for connections of hosts
on interfaces without NAT ("dummy rules"). The memory that NatApp never
initialises is `Garbage`. Left out: ports and protocols (part of the
connection), the filter rules of a PCIe modem (Q6_MHI_WAN), pass-through mode,
ALG ports, UDP time stamps, CT_OPT, targets that are themselves clients, the
replay of the kernel's connections at the start, the limit of 32 power-save
places, and the failure of CheckNatIface.

### 3.6 `NatTable` and `RuleSet` (`ipanat/src/ipa_nat_drvi.c`)

The NAT table in the memory that the hardware reads. An operation is computed
when it is called and becomes a list of writes (`todo`), as one thread calls
the library; `Step` does one of them, and every state in between is one in
which the hardware may look up a packet. `AddWrites` and `DelWrites` are the
writes of `ipa_nati_copy_ipv4_rule_to_hw` and `ipa_nati_del_ipv4_rule` with
its DMA commands, in the code's order: index before rule (`DmaCmds`), then what
the CPU tidies up (`RuleCleanup`, `IndexCleanup`), then the heads deleted
earlier whose chain has become empty (`DeadHeads`). A `Place` is where a rule
goes: the entry of its hash, or the first free expansion entry behind the last
of the chain. Hashes are constants of the rules. `Faults` are ioctls of an
addition that may be refused. `RuleSet` is the promise: rules come and go one
at a time and have handles; `IsRuleSet` maps to it what the hardware finds by
walking the chains in both directions. Left out: sizes and mapping of the
table, check sums, PDNs, time stamps, dumps.

### 3.7 `Tracking` (`gps/location`, `gps/gnss/GnssAdapter.cpp`, `gps/core`)

Clients call `startTracking`, `updateTrackingOptions`, `stopTracking` and
leave; each call is a message to the adapter's MsgTask, and each answer of the
engine is one as well (`msgQ`; a message carries the captures of the code's
lambdas). The adapter keeps time-based and distance-based sessions in two maps
and multiplexes the first kind on the one fix the engine has: `StartMultiplex`,
`UpdateMultiplex` and `StopMultiplex` decide which request, if any, is sent.
`client` is the side of LocationAPIClientBase: its flag and the queue of calls
whose answers it awaits; two fields are history, kept for the properties: the
options it gave last, and how many of these calls the adapter has dropped, which
is to say handled without an answer. The handlers that drop are `HandleStart`
for a rejected call (CALLBACK_MISSING, INVALID_PARAMETER) and `AnswerRedo` for
an engine that refuses to stop a distance-based session. A rejected call has
options with no interval. `pending` are the messages that wait for the engine's
capabilities. The LocApi's thread has a queue of its own (`apiQ`), through
which restarts of the engine come; with refusals the engine may also refuse to
open, and is not opened again. Where the engine is *basic*,
`isMessageSupported` says no and a session with a distance is time-based
(`ByDistance`). `Environments` are sets of what may happen besides calls; a
behaviour has one of them. Left out: position reports, network initiated
requests, configuration values, and the fixed rate at which an engine plugin may
need positions (`checkAndSetSPEToRunforNHz`).

### 3.8 `Upstream` (`hal/src/HAL.cpp`, `ipacm/src/IPACM_OffloadManager.cpp`, `IPACM_Wan.cpp`, `IPACM_Wlan.cpp`, `IPACM_Lan.cpp`, `IPACM_IfaceManager.cpp`, `IPACM_EvtDispatcher.cpp`, `IPACM_CmdQueue.cpp`)

From the framework's call to the rules. The HAL's calls run on its own thread:
a call looks at the configured interfaces (`Call`), then acts (`Act`), and the
other thread may run in between when the environment is `concurrent`. Events
go to the internal or the external queue; `Process` takes one, the internal
queue first, and runs the handlers of all instances in the order of their
registration. `ipacm` is the daemon as one record: the manager's choice and
cache, the instances of uplinks, the globals of IPACM_Wan (`wan_up`), and the
access point with, per family, whether it knows the uplink to be up and which
uplinks' rules it has installed. `net` is the kernel. `want` remembers what the
framework asked for last, and the properties compare it with the rules once
nothing is queued. Rules of the firewall are the version of the file they were
made from. Left out: an IPv6 gateway of all zeros, which `setUpstream` ignores
(IPACM_OffloadManager.cpp:503), its results, interfaces the kernel has no index
for, and the second IPv4 downstream that is refused under address translation
(IPACM_Wlan.cpp:565), which one access point cannot be.

### 3.9 `WlanClients` (`ipacm/src/IPACM_Wlan.cpp`)

The array of clients of each access point, the count of all of them, the
headers and routing rules. `slot` is what a place holds and `asleep` the
power-save flag, which is a variable of its own because the move of clients to
lower places copies every field but that one. Events run one at a time. A
handler works on a pair of a client and the IPA's rules: `UnrouteV4`, `RouteV6`
and the others take one and give one. The pipe a rule leads to is left out:
`handle_SCC_MCC_switch` would change it, but IPACM_IfaceManager.cpp:414
registers access points for these events only outside Android.
`world` is what driver and kernel announced. `LinkDown` is the event, which
corrects the total, and `HandleDown` the `handle_down_evt` it calls. Left out:
the test of an IPv6 address's prefix (IPACM_Wlan.cpp:1409), as all addresses
announced here have it; link-local addresses, which `handle_wlan_client_reset_rt`
forgets with the others although the client keeps them (section 7); and a
departure that ends half-way because the IPA refuses to delete something
(IPACM_Wlan.cpp:1802 to 1830).

### Environments

`Tracking`, `Upstream` and `WlanClients` describe programs that are correct only
under some circumstances. Rather than leave the others out, each has a constant
set of environments, an environment is a set of kinds of event, and a behaviour
picks one at the start. The MC modules list those the code copes with, as large
as they could be made; section 7 says which ones it does not cope with and what
goes wrong, and TLC shows it when such an environment is put into the list.

## 4. The runs

| Run | Question | Bounds and why they are enough |
|---|---|---|
| `interaction_handler` | Do aborts reach the wait they are for, do timeouts honour every request, is no request or exit slept through, do boosts end and does Exit return? | First poll 1, durations clamped to 2..5, slack 1, `IntMax` 9: requests below, within and above the clamp, covered and uncovered ones, an overflow, and every order of them against the polls fit into two rounds of the longest duration. |
| `agps` | Without restarts, bad APNs and subscribers that wait for the close: is every pending machine going to be answered, every call tracked, every open call backed? Is each open request answered in the end? | Two handles make every combination of first, last and other subscriber; both interfaces; `MaxInFlight` 4 stops the modem and the network from adding messages, not the framework from answering: a request, an abandonment, a second request and its answers overlap. |
| `agps_hostile` | With modem restarts, unusable APNs, a subscriber that waits for the close, and arbitrary reads of freed memory: what still holds? | One interface, as interfaces share only the lookup of a handle. `MaxInFlight` 3. |
| `loc_timer` | Do delegates live exactly as long as they are used, is the soonest timer armed, do clients see `LocTimerService`, liveness included? | Two clients and two addresses, which are reused (a restarted timer may get the old address); delays 0 and 1, clock 0..2: due together, one after the other, and due in the past. |
| `msg_q` | Is any message slept through, overtaken, handled twice, forgotten, or used after the queue is freed? | Four messages: one processed, one current, one waiting, one sent late. |
| `ipa_nat` | Do the cache and the table agree, is a connection that ended forgotten, one that is cached restored, whatever fails? | One NAT client with a connection to an STA client, one host with a dummy connection, two WAN addresses (alike, hence the symmetry: no connection of the run has a WAN address of its own), two STA clients for one place. The driver serves a step in full or refuses what concerns one connection; one deletion fails in all (`MaxFailures`), as orphan rules add up without bound. Connections share nothing but the address they are found by, so two, with different kinds of key, are enough. |
| `nat_table` | Does the table look like a set of rules to hardware that reads it between any two writes? Do back links agree, are entries given back? | Five connections: four share a target hash and, not the same ones, four a source hash; two free expansion entries in each table. Every chain gets a first, a middle and a last entry, two chains compete for the free entries, and either table may be the one that is full. |
| `tracking` | Once nothing is on its way, does the engine run what the clients asked for and no more, and are the answers still missing exactly those of the calls the adapter drops? | Two clients, four kinds of options (each asks for more in one respect and less in another; distance-based ones too), rejected calls of either kind, four calls, one restart: a third session or call adds no new relation between two. Six environments: restarts and configuration calls, distance-based sessions, an engine without them, updates of them, and refusals with restarts and with updates; rejected calls in three. |
| `tracking_impatient` | Is a session that is stopped gone for good? No (section 7). | Without the patience of `tracking`'s clients. |
| `upstream` | Once nothing is queued, are the routes, the firewall and the access point's rules those of what the framework wants? | One station, one interface of the modem, one access point; four calls, one loss, restart or change of the file, a cache of two entries (full, and wrapped around), two pending events when the kernel makes another. Nine environments, each of the hazards in at least one; the access point is shared (`Shares`) in four. |
| `wlan_clients` | Do rules and headers belong to the clients that are there, and can each be reached? | Three clients for the places of two access points, three addresses of each family, two for a client: a client moves, is moved over, and addresses change hands. One environment with everything the code copes with. |
| `wlan_sleepers` | Has a sleeping client no rule, wherever it moves? No (section 7). | As `wlan_clients`; clients leave while others sleep. |

Type invariants are not in the runs: they are proved (section 5), and were
checked by TLC before. Some further configurations are not among the runs of
`PROJECT.json` and reproduce the disagreements of section 7: `AgpsBadApn.cfg`,
`AgpsLateAnswer.cfg`, `LocTimerEarly.cfg`, `LocTimerDead.cfg`,
`IpaNatPowerSave.cfg`, `NatTableRefused.cfg`, `UpstreamDualStack.cfg`,
`TrackingRejected.cfg` and `TrackingBasic.cfg`. (The last two run with
`MCTracking.tla`.)

Deadlock is checked except where the system really stops: a timer service
whose clients are all destroyed with nothing left, a freed queue, and the
bounded numbers of calls and events of `Tracking`, `Upstream` and `WlanClients`.

### Fairness

* `InteractionHandler`: the Routine thread runs when it can, time passes, and
  whoever called Exit gets through it. The code has nothing that could hold
  one of them for ever: `mLock` is never held over a wait. Requests, idle
  events, poll errors and spurious wake-ups need not happen.
* `Agps`: the MsgTask thread runs and the framework answers. The second is the
  contract of the framework's callbacks; `OpeningIsAnswered` is worth nothing
  without it, as the code has no time-out of its own.
* `LocTimer`: MsgTask and poll threads run and time passes. Clients need not act.
* `MsgQ`: the receiver runs when it can (not when only a spurious wake-up could
  wake it), and a stop that began goes on.
* `IpaNat`, `NatTable` and `WlanClients` state no liveness: nothing there waits.
  In `Tracking` and `Upstream` what must happen in the end is stated of the
  states in which nothing is on its way any more: queues there only shrink
  without calls, so such a state is always reached.

## 5. The proofs

Each proof module proves one inductive invariant, one step per action, and the
theorems follow from it. TLC has checked the invariants on the runs' instances
first. The assumptions are those named in the modules (`BoundsAssumption`,
`AgpsAssumption`, `LocTimerAssumption`, and of `IpaNat` also
`AddressesAssumption` and `FlowsAssumption`, of `WlanClients`
`ClientsAssumption`, of `NatTable` `TableAssumption`, of
`Tracking` `TrackingAssumption`, of `Upstream` `UpstreamAssumption`), all of which hold of the code's
constants; every theorem holds for all values that satisfy them.

* `InteractionHandlerProofs`. `IInv` adds to the properties *Lifecycle* (which
  places of the thread go with which state, with and without an Exit under
  way), *Aborts* (outside a wait the eventfd is clear, so that `NoStaleAbort`
  survives the start of a wait) and *Deadlines*. The last carries the main
  result: the time owed is at most the duration minus the age, the thread's
  limit is the current duration as long as the state is still WAITING, and the
  second poll never ends before it. A request that the held hint covers
  changes nothing but `owed`, and that is within the bound by the test that
  covered it.
* `AgpsProofs`. Types and `ReleasedIsEmpty` together are inductive. For
  `AcquiredMeansConnected` the missing half is *OpensAreCurrent*: an "open"
  in the queue finds the connection up, or the news of its end behind it in the
  same queue. It survives because the queue is first-in first-out, which is why
  the proof is by positions in the queue. For the calls of the modem, *Event*
  says what one event does to one handle (it asks, releases, or leaves it), and
  `StepKinds` that every step is a post of the modem, its restart, or an event
  of every handle. *Life* is the discipline of the modem: between two requests
  of a handle there is a release. Each theorem names the environments in which
  it holds, and TLC finds a counterexample in the others: `PendingIsAnswered`
  needs that no APN is refused (a call refused for its APN is not asked for
  again), `HandlesAreTracked` that no freed subscriber is read,
  `OpenCallsAreBacked` also that a restart of the modem does not meet a call
  that waits for its close.
* `LocUtilsProofs`. *Life* is the ownership argument: a client's timer and the
  timer's client point at each other (*Running*, *Owned*), messages name live
  delegates (*QueueLive*), a remove message is the last that names its delegate
  (*LastMsg*), and a live delegate without a client has one on its way
  (*WillBeDeleted*). *Arming* adds that a thread about to set the timerfd has
  registered it; that the heap has a top at all, for a set of any size, is
  `TopExists`, from the well-foundedness of the naturals. `ImplementsService`
  is the refinement: every step is one of `LocTimerService` or a stutter.
* `LocUtilsProofs`. *Held* says who holds the queue where: it is freed only by the
  last holder and the thread touches it only while it holds. *OrderMoves* is
  what a step can do to `done \o current \o list` (nothing, append at its end,
  or cut off with the queue); `InOrder` and `HandledOnce` follow from it.
* `IpaNatProofs`. The operations of NatApp are lemmas about one object, for any
  set of refused or stuck rules; the handlers chain them. *Follows* says that
  an operation leaves the same table, every enabled connection with a rule in
  it (*Backed*) and an exact table exact (*Exact*). Only taking the table down
  and putting up the next does not follow: between the two no connection is
  enabled (*Off*), which is why the new, empty table is backed as well. The
  invariant adds `TableIsOfWan`, without which the handlers do not compose: a
  connection cached while the WAN is down must not meet a table. For the other
  two properties *Remembered* and *Waits* name what the object remembers of
  connections and what waits without a rule; an operation is *Quiet* if it adds
  to neither. What is not quiet is a new connection, which is live, a departure,
  whose client is then away, and the WAN, whose return leaves nothing waiting.
  That a destroyed connection is found where it waits is `ClientRule`: a NAT
  client's connection has the same key for as long as it lives. The count of
  STA clients is a cardinality and rests on `FiniteSetTheorems`.
* `NatTableProofs`. An operation is a list of writes and the hardware looks
  between any two, so the invariant is about the memory and the writes still to
  come. *Settled* is the table between two operations: links, back links, flags,
  handles and indices agree. *Safe*(m, c) says that the memory m is good (no
  index dangles; the next write is one step of `RuleSet` or none), that this
  holds after each of the writes c, and that the last leaves a settled table: a
  set of pairs of memory and rest that the writes do not leave (*Chases*). The
  invariant is that the memory is safe for `todo`; what is to prove is that an
  addition (`AddSafe`) and a deletion (`DelSafe`) are safe from every settled
  table. *Through* composes the parts of an operation, and *Off* says that a
  write changes what the hardware sees of no entry but the operation's own,
  which is itself hidden: for an addition until the enable flag, for a deletion
  from the first DMA command on. A chain is the least set that its links do not
  leave (`ChainLeast`, `ChainClosed`, the second by counting the entries of the
  expansion table), from which follows what a chain becomes when an entry is
  appended (`ChainAppend`) or cut out (`ChainUnlink`). `NothingLeaks` compares
  two cardinalities by the bijection of handles and indices. The theorems have
  the premise `Faults = {}`: an addition whose last ioctl is refused leaves a
  table that is not settled, and `NatTableRefused.cfg` is the counterexample
  (section 7).
* `TrackingProofs`. No answer gets lost but where the code drops one: a
  conservation law. *Tallied* says, of every session, that what is on
  its way for it - the calls among the messages, the messages that wait for the
  capabilities, the answers the engine owes or that are on their way back -
  and the calls that were dropped are together as many as its client waits
  for. Around it
  stand *Owned* (what is on its way names the client whose it is), *Waiting* (a
  client that waits has a call in its queue) and the types. A handler is
  described by its *Effect*, what it takes from and adds to each of the places,
  and `EffectKeeps` shows the invariant once for all of them; that each outcome
  of each handler has such an effect is one lemma per handler. The removal of a
  client stops its sessions one after the other and configures the engine
  between: the messages are a FlattenSeq, whose facts are shown by an induction
  over its prefixes. A call is dropped by a rejected start or a refused update of
  a distance-based session, both counted where they happen, and by nothing else.
  The only premise of `EveryCallIsAnswered` is that the engine has
  distance-based sessions; the run has an environment where it has not.
  The second invariant, *Ordered*, follows each session. `StartFirst` is the
  order of the message queue: nothing about a session, nor the removal of its
  client, comes before its start. *Stage* says where a session is: in one of the
  two maps, or on its way into one, never both. *Ghosts* says that a session in
  a map, or whose start is on its way, is its client's, or has its end (a stop
  or the removal of the client) on its way behind it: with nothing on its way
  that is `NoGhost`. *Owed* says the same of options: of the messages that carry
  a session's options (*Carriers*: its start, an update, and the steps in which
  an update passes through the engine) the last in the queue has those its
  client gave last, and when none is left the map has them; with nothing on its
  way that is `HasWhatItAsked`. A handler that works on one session is *Local*,
  and `LocalKeeps` shows the invariant once for all of these; `SameKeeps` does
  for a step that moves no session, and a client's departure, a restart and the
  engine's answers have lemmas of their own. The premise of the second
  argument, *Orderly*, has two halves. The engine refuses nothing and has
  distance-based sessions, and no call is rejected (*Accepted*: all options
  have an interval); these cases are model-checked. And clients of
  distance-based sessions wait for their answers if there are updates or calls
  before the capabilities. Without that
  `NoGhost` is false: `tracking_impatient` is the counterexample with updates,
  and a distance-based start that waits for the capabilities, whose stop is
  handled before it is posted again, is the one without (TLC finds it with the
  environment {"distance", "early"}).
  The third invariant, *Engaged*, looks ahead in the queue of requests. The fix
  the engine comes to is the one of the last start or stop in the queue, or the
  one it has when there is none, and that is *Right*: it is off if there
  is no time-based session, and serves all of them unless a restart of the
  sessions is on its way. What the engine comes to of a distance-based session
  is the last start or stop of it, and that is a start if and only if the
  session is *Wanted*: in the map, with no answer on its way that takes it out
  or starts it again. The multiplexing lemmas give the request of one handler; a
  client's removal makes a series of them, and *Chained* says of a series that
  it serves the sessions at its end (the induction over prefixes again). With
  the queues empty that is `Served`. The premise *Steady* adds to *Orderly* that
  distance-based sessions meet no restart and no configuration call, which start
  a session again that is being stopped (section 7): there `Served` is false.
* `WlanClientsProofs`. A handler works on one client and the rules, next to
  the other clients. *Keeps* says what such a pair has to satisfy beside a set
  of handles that others hold: its rules are those the client and the others
  hold, none is held by both, the client's lead to it, the others' are what they
  were. Each operation on rules keeps it (a fresh handle is one no rule has:
  pigeon-hole on a finite set, `FreshIsNew`), so does each handler, and the
  *Table* lemmas lift it to all clients: storing a client, removing a set of
  clients, and moving clients to other places by a bijection (`TableMove`),
  which is what a departure does. The invariant says nothing of the power-save
  flags, and `RoutesOwned` therefore holds in every environment, also where a
  flag stays with the wrong client.
  The second part goes on from there with what was announced of the
  clients. *Seats*: the places of an access point hold its announced clients,
  each once, with its addresses. *Rests*: a place's flag is set if and only if
  its client sleeps, and a client that is awake has its rules, one that sleeps
  none. Each is kept by the ways in which a handler changes an access point: a
  new place, a change of one client, a removal (the bijection of places again).
  A removal leaves the flags behind, and so keeps *Rests* only if every client
  is awake; the run `wlan_sleepers` shows that this premise is needed. Headers
  are each client's own in every environment. The count over all access points
  changes with one pair at a time, or by the pairs of an access point that goes
  down, which a bijection counts. The three theorems about properties each name
  the events they exclude: `TotalIsExact` only the client that joins twice,
  `AwakeAreServed` also the departure while another sleeps, `NoneLeaks` also the
  refused header. The run `wlan_clients` checks all three in one environment
  without these events.
* `UpstreamProofs`. What the HAL decides goes through a queue to the uplinks, so
  an invariant that compares the two has to look ahead. A *View* is what routes
  depend on: which uplinks have an instance, and each instance without its
  firewall rules. *Step* says what one event makes of a view, and *Leads*
  (e, a, q, b) that the events q take the view a to b, through views that are in
  order (*ViewOK*: routes are held by one uplink only, and for addresses it has;
  a route that waits for a header waits for a neighbour) and that each of them
  finds in the state it is meant for (*Guard*: a route that is deleted does not
  wait for a header, one that is added meets no other uplink's). The invariant
  is that the pending events lead from the uplinks as they are to a *Final* view:
  it has the kernel's links, addresses and neighbours, holds no route but those
  of the HAL's choice, and all of these unless the interface was lost. *Final*
  needs no word on the order of the kernel's events, the framework's and the
  daemon's. The rest is the HAL: *AskedOK*, *EntriesOK* and *CallOK* say that it
  has asked for what the framework wants, or that a call, or the one cached
  call for an upstream, will. The handlers are lemmas of the form
  *Handled* (the handler does to the state what *Step* does to its view) and
  those that post events of the form *Reaches* or *LeadsOn* (what was posted
  leads on from the end). The search of the cache is a recursive function
  without an induction theorem: `SearchInduction` is an induction over a set
  (`NaturalSet`), as is `FallMany`, for the links a restart takes down, however
  many. When the queues are empty the view is its own end, and *Final* is
  `UpstreamServed` and `RemovedCarryNothing`. `FlagsAgree` and
  `FirewallIsCurrent` come from *RulesOK*: the rules are those of the file, or
  news of the file is pending. The premise of all theorems is that each
  environment is one the daemon copes with (*Copes*), of the last two also that it
  is *Steady*; both are defined in `Upstream`, the run `upstream` evaluates
  them for its nine environments, and section 7 says what happens without
  each conjunct. Otherwise the environments are arbitrary: the theorems hold for
  every combination of kinds that satisfies the premise, for any number of
  interfaces, calls and losses, and for queues of any length.
  `AccessPointFollows` adds a second invariant, *LInv*. The access point has a
  view of its own (is it up, its addresses, its downstreams), which the pending
  events lead, in the same way (*ApLeads*), to the kernel's link and addresses
  and the framework's downstreams (*ApFinal*). Its rules also depend on
  what the uplinks tell it through the daemon's own queue: *NewsOK*, what is
  on its way there is still true and comes from the kind of uplink in use;
  *Knows*, the access point knows what is up unless it has still to be told; and
  *RulesNow*, its rules are those of what it knows. The daemon takes an event of
  the other queue only when its own is empty (`Process`), so a handler finds
  an access point that knows (*Heard*), and each handler is a lemma that it
  leaves one that knows or news of what it does not (*LanStep*). This holds where
  `Shares` does, and `LanAgrees` says so itself; both are in `Upstream`.

## 6. What is only model-checked

Liveness (`HintEventuallyReleased`, `ExitReturns`, `OpeningIsAnswered`,
`Handled`, `StopFrees`, and the two fairness conjuncts of `LocTimerService`):
temporal reasoning under fairness and ENABLED is beyond the prover's backends.
`NoGhost` of `Tracking` where the engine refuses requests for sessions without
a distance, and `NoGhost`, `HasWhatItAsked` and `Served` where calls are
rejected, and all properties of `Tracking` where the engine has no
distance-based sessions. Nothing is claimed of `NatTable` where ioctls of an
addition are refused (section 7).

## 7. Where the code disagrees with its own words

Each of these is a violation TLC finds. The first two are runs of
`PROJECT.json` with an entry in `findings`, the others have the configuration
named with them.

1. `tracking_impatient`: an update of a distance-based session saves the
   session in the callback of the engine's answer, whatever happened in between.
   A stop, or the removal of the client, handled before the answer leaves a
   session that nobody has and nobody can stop, and the engine runs on.
2. `wlan_sleepers`: when a client leaves, the clients behind it move down, with
   every field except the power-save flag. A sleeping client gets rules.
3. `AgpsBadApn.cfg`: an open connection with an unusable APN is reported closed
   (GnssAdapter.cpp:5067). A PENDING machine ignores that (Agps.cpp:234), so its
   subscribers wait for ever, though the comment at GnssAdapter.cpp:5063 says
   "In case of failure reporting the same".
4. `AgpsLateAnswer.cfg`: an answer does not say which request it answers. A call
   abandoned and made again can leave a connection up that nobody subscribes
   to; Agps.cpp:132 says "If no subscribers in list, release data connection".
5. `LocTimerEarly.cfg`: an expiry message pops the top of the heap whatever its
   time, though LocTimer.cpp:379 says "pop everything in the heap that outRanks
   now". If its timer was stopped meanwhile, the next one expires early. The
   heap that became empty leaves its timerfd set, since the old and the new top
   are both NULL and compare equal, so the same can happen to a timer started
   much later.
6. `LocTimerDead.cfg`: `expire()` copies the client without the lock and may use
   it after the client's destruction (LocTimer.cpp:521; the comment at 484
   promises the contrary).
7. `IpaNatPowerSave.cfg`: the WAN goes and comes back with its address while a
   client saves power; AddTable gives the client its rules back, though such a
   client is to be cached only (IPACM_Conntrack_NATApp.cpp:457).
8. `NatTableRefused.cfg`: an addition whose last ioctl is refused leaves its
   entry linked and free. The next addition to the chain takes that entry as the
   free one and as its predecessor and links it to itself; the index table has a
   check against it (ipa_nat_drvi.c:1395), the rule table has none.
9. `UpstreamDualStack.cfg`: the neighbour event of a station's IPv4 gateway
   returns because the IPv6 gateway is not known, and that of the IPv6 gateway
   because a header is set already (IPACM_Wan.cpp:2382): neither default route
   that waits for the header is installed.

10. `TrackingRejected.cfg`: a start without the callbacks or parameters it needs
    ends in its handler with the error in a local variable
    (GnssAdapter.cpp:2881 to 2884): nothing is answered, though LocationAPI.h:68
    says "responseCallback returns" CALLBACK_MISSING or INVALID_PARAMETER. The
    client goes on waiting, with `mTracking` set and no session. The property
    `Answered` of the run `tracking` counts these calls, and shows that no other
    answer is missing but that of an update of a distance-based session
    which the engine refuses to stop (GnssAdapter.cpp:3149).
11. `TrackingBasic.cfg`: on an engine without distance-based sessions the update
    of a time-based session to one with a distance stops the fix and saves the
    session as time-based again (GnssAdapter.cpp:3103 to 3114): the session is
    there and has no fix, though the comment at GnssAdapter.cpp:3110 says "saves
    as distance based Session".

Environments the code does not cope with; TLC shows each when it is added to
the list in the MC module:

* `Tracking`. A restart or a configuration call while a distance-based session
  is being stopped starts it again, and the adapter then erases it: the engine
  keeps it for ever. A distance-based start before the capabilities are known,
  stopped before they are, is a ghost as well. Without patience, answers given
  at once overtake those of the engine and are taken for the answer of another
  call, and a refused update saves a session again that was stopped.
  *refusal* with *distance*: a session the engine refuses to stop stays in the
  map, and `NoGhost` leaves this case out. An engine that refuses to open is not
  opened again, and what waits for its capabilities waits on: `Answered` speaks
  of states with nothing waiting.
* `Upstream`. *eager* without *patient*: removing an upstream leaves cached
  calls for it, whose replay brings it back. *eager* with *concurrent*: the
  interface is configured, and its cache searched, between the look and the
  caching, and nothing replays the call. *losses* or *ssr* with *concurrent*:
  a station goes and comes back between the look and the act; its route waits
  for a header, is removed without effect and comes up with the neighbour.
  *eager*, *losses* and *stop*: the same happens to a cached call, but takes
  seven pending events (`MaxQueue`). *late* without *patient*: a removed
  route that waits for a header comes up with the neighbour; *late* with *v6* is
  item 9. *narrow* with
  *losses* or *file* on the modem: `is_default_gateway` is one flag for two
  families, so the loss, or the new firewall, passes the family that is left.
  What the access point follows, `LanAgrees`, is limited to `Shares`. *eager*: a
  downstream may be cached; it is replayed for an access point that is lost
  already, and so tethers its next life, or finds the cache full and is
  forgotten. *stop*: stopping offload leaves the downstream, and a later upstream
  serves an access point nobody tethers. *ssr*: the downstream goes through
  the cache as well; only that of IPv4 is restored, and also one nobody asked
  for (*untethered*). *v6* with *halfway* or *concurrent*: an access point with
  an address of one family takes the other's uplink for up and never hears that
  it went.
* `WlanClients`. *rejoin*: a client announced twice has two places. *refuse*:
  when the second header is refused the first stays. *restless*: item 2.

Met while reading, and not the subject of a configuration:

* The listener changes `isMCC_Mode` with every message of the driver
  (IPACM_Main.cpp:657), and rules are written after it, but no interface is
  registered for the event in an Android build (IPACM_IfaceManager.cpp:414):
  existing rules stay on the other pipe. The handler, where it is registered,
  would pass IPv6 rules too: its loop begins where they end
  (IPACM_Wlan.cpp:2341).
* `AgpsManager::handleModemSSR` is never called: a restarted modem's
  subscribers stay (`ModemRestarts` models that). The type and APN mask of one
  request are overwritten by the next.
* Exit in the middle of a boost leaves the hint on; the next boost or its end
  clears it.
* ResetPwrSaveIf adds rules without a table: a client that returns, or wakes,
  during an outage loses all its cached connections from the cache.
* The rule of a host without NAT is keyed by the WAN address of the moment.
  Destroyed during an outage, or after a change of address, it stays cached.
  `NoStaleConnection` is therefore about clients of NAT interfaces.
* TriggerWANUp ignores AddTable's result. After a failure `WanUp` is true with
  no table, WAN down fails on the missing handle, and only another address
  ends that state.
* CheckSTAClient looks at the first `StaClntCnt` places although departures
  leave holes.
* The conntrack replay: two threads may both run it, and UDP connections in it
  carry a type for which there is no case.
* `mTracking` stays true after a start that failed; the test
  `!destroyCompleteCb` in LocationAPI.cpp is the wrong way round; a start
  that joins a fix keeps the power mode of the session with the smallest
  interval, not the strongest.
* A full cache of the offload manager answers FAIL_HARDWARE; a firewall change
  installs the IPv6 rules with only IPv4 up.
* `handle_wlan_client_reset_rt` forgets every IPv6 address of a client when the
  prefix goes, also a link-local one, which the client keeps.
* The suffix of a header's name is cut to one digit (IPACM_Wlan.cpp:1173); a
  client's fourth IPv6 address is never served. A departure whose deletions the
  IPA refuses ends half-way, with the client in its place.
* sendMsg ignores a refusal of msg_q_snd: the message is not deleted.
  LocTimerContainer::get reads its pointer without the lock.
* A NAT table whose deletion is refused is unmapped and still valid: the next
  rule is written through a dead mapping (ipa_nat_drvi.c:997).
* `setMode(SUSTAINED_PERFORMANCE, false)` in `Power.cpp` sets the flag it should
  clear.

## 8. What is not modelled

`PROJECT.json` `components` lists every part with its status and what is left
out of a part that is modelled partly. IPACM_LanToLan, the rules between
clients of two downstreams, is compiled and never started: IPACM_Main.cpp:955
needs FEATURE_ETH_BRIDGE_LE, which Android.mk sets for msmnile and kona only,
and this device is an sdm660. IPACM's neighbour cache, the replay of the kernel's
connections, geofences and batching, and the system status observer are
programs of their own that no module describes yet. The rest is input, output
and translation: parsers of NMEA, configuration and netlink, serialisation,
HIDL and AIDL proxies, sysfs writes, ioctl wrappers, the Java applications, and
the device tree's configuration data. IPACM_Wan, IPACM_Lan and IPACM_Wlan are
mostly the filling-in of ioctl structures, one per rule; `Upstream` and
`WlanClients` model when these rules come and go and not what is in them.

## 9. Running

`tlasany M.tla` parses a module, `tlc -config R.cfg M` makes the run R of
`PROJECT.json`, `tlapm M.tla` checks the proofs of M. The longest runs,
`ipa_nat` and `wlan_clients`, take about two minutes with two workers, `upstream`
and `tracking` one; the others take seconds.
