# A TLA+ verification project for the PTP operator

This directory holds TLA+ models of the parts of this repository where several
goroutines, processes, containers or controllers act on shared state, the TLC
configurations that check them on small instances, and TLAPS proofs of the
properties that matter most for every instance. Paths below are relative to
`pkg/linuxptp-daemon/` unless they say otherwise.

* [1. The system](#1-the-system)
* [2. The modules](#2-the-modules)
* [3. The runs](#3-the-runs)
* [4. Fairness](#4-fairness)
* [5. The proofs](#5-the-proofs)
* [6. What the code does that its text does not say](#6-what-the-code-does-that-its-text-does-not-say)
* [7. What is not modelled](#7-what-is-not-modelled)
* [8. Plan](#8-plan)

## 1. The system

The PTP operator computes which PTP profiles a node gets and deploys, on every
node, a *linuxptp-daemon* that runs the linuxptp programs (ptp4l, phc2sys,
ts2phc, synce4l, pmc, ...) and a *cloud-event proxy* that tells subscribers
about changes of the clock states.

```
 PtpConfig, HardwareConfig, PtpOperatorConfig, secrets
      | operator: three reconcilers over the API server
      v
 ConfigMap, DaemonSet ---> profile file, secret files on the node
      | two readers, the hardware reconciler
      v
 Daemon.applyNodePTPProfiles
      |  stop all, remove clocks, add clocks, set pins, create + start processes
      v
 children, DPLL monitors, GNSS, PMC --> eventsIn --> ProcessManager.processEvents
                                                      | starts, stops, restarts
                                                      v
 holdover timers ----------------------------------> eventsOut
                                                      v
                     ClockManager.ProcessEvents --> clocks (BC/OC, T-BC, GM, HA) --> PMC: what ptp4l announces
                                                      | state changes
                                                      v
                     ipc.Cache --outCh--> ipc.Link --socket--> proxy: EventCache --> subscribers
                           ^------- status_request / snapshot -------|

 log lines --> PTP plugin of pkg/cloud-event-proxy (the proxy in use without IPC) --> subscribers
```

### Inventory

| component | state | operations | interacts with | hard because | correct when |
|---|---|---|---|---|---|
| clock manager (`pkg/clockmgr`) with BC/OC clocks (`pkg/clock/bc.go`) | registry of clocks by config name, shared system-clock state, per clock: sync state, overall state, clock class, holdover timer and generation | ProcessEvents, AddClock, RemoveAllClocks, reset, AddEvent, timer expiry | fed by the process manager and by timers, sends to the IPC cache | expiry events race re-locks; clocks are replaced under the same name; events are dropped at full channels | a holdover ends, and only by its own timer; overall states are the worst of the clock's and the system clock's; the IPC cache is current |
| process manager (`pkg/daemon/process_manager.go`, `pkg/process`) | processes, waiting list, two bounded channels, latched conditions | StartProcesses, stopAllProcesses, processEvents, evalActions, handleProcessDown | starts and stops processes, forwards events to the clock manager, driven by the apply | the loop and the apply work on the same objects without a common lock | no process has two children, dead ones are restarted, waiting ones start |
| processes (`ptp_process.go`, `pmc.go`, `gpsd.go`, `chronyd.go`) | state, stop channel, child | Start, run, Stop | report Up and Down, their log lines become events | exit races Stop and restart | as above |
| log parsing (`log_parsing.go`, `pkg/parser`) | follower interface, offset source | one event per line | non-blocking sends into eventsIn | one-shot events are lost when the channel is full | what a port does reaches its clock |
| node configuration (`daemon.go`, `config.go`, `cmd/main.go`, `pkg/controller`) | profile file, remembered text, profiles, flag of changed secrets, hardware configurations | UpdateConfig, TriggerRestart, Run, applyNodePTPProfiles, reconcile | ConfigMap and secret volumes, process and clock manager | readers of the file replace what an apply is walking; a failed apply | what runs is what is remembered; the last file and secret reach the node |
| hardware configuration (`pkg/hardwareconfig`) | configs with their commands; pins and sysfs of the host | resolution, delay compensation, apply of conditions, reset of defaults | apply, ptp4l and DPLL notifications, reconciler | four parties write pins without a lock; read-backs fail | after an undisturbed apply the pins are as configured |
| IPC cache and link (`pkg/ipc`) | last value per key, bounded channel, connection | Send, Clear, Run, serve, writeSnapshot | clock manager on one side, proxy on the other | dropped messages, failed writes, snapshots that overlap updates | once all has arrived the proxy shows what the cache holds |
| cloud-event proxy (`pkg/cep`, `cmd/cloud-event-proxy`) | event per resource, subscriptions, file | accept loop, Listen, EventCache.Update, publish, Subscribe, Unsubscribe, save, load | link, HTTP subscribers | restarts, slot reuse, stop between write and rename | events hold the latest values; index, slots and file agree |
| PMC monitor (`pkg/daemon/pmc.go`, `pkg/pmc`) | last parent data set | Poll, monitor, handleParentDS | pmc child, clock manager | poll and monitor race; the data set is remembered even when its event is dropped | the clock learns of every change |
| T-BC clock (`pkg/clock/tbc.go`) | sync state, data of DPLL/ts2phc/ptp4l, announce token | AddEvent, fetches, announcements | PMC commands in goroutines | fetches and commands are unordered | downstream ports announce one grandmaster, the current one |
| GM clock (`pkg/clock/gm.go`) | GNSS/DPLL/ts2phc states, clock class | AddEvent, announcements | DPLL monitors, GNSS, ts2phc | PMC fails, zero values after a Reset | what is published is the state the clock has |
| HA clock (`pkg/clock/ha.go`) | member states, active member | AddEvent, SystemClockUpdate | member clocks | members and source selection interleave | the best member counts |
| DPLL monitor (`pkg/dpll/dpll.go`) | lock status, holdover flags | dump, notifications, stateDecision, holdover goroutine | netlink, clock manager | goroutine and monitor write the same fields; close requests can be lost | at most one ramp; it ends; each state is told |
| GNSS and leap seconds (`gpsd.go`, `pkg/ublox`, `pkg/leap`) | receiver process, last messages; leap file and flag | poll, restart, commands; maintenance | ubxtool, pmc, a configmap | hanging tools, late acknowledgements, silent pmc | a lost source is told; no false leap |
| SyncE (`pkg/synce`) | quality level per interface | one event per line | synce4l log | two lines make one level | no mixed level is told |
| plugin ntpfailover (`addons/generic`) | failover state machine | OnPTPConfigChange, conditions | process manager, GNSS | outlives applies | chronyd takes over while GNSS is lost |
| plugin phc-first-step (`addons/phcfirststep`) | none of its own; the hardware clock | OnPTPConfigChange: measure, read, set, at most twice | ptp4l, phc_ctl, runs inside an apply | 64-bit times at both ends of the range, clocks that run on | the clock lands within a second of the master, or the plugin fails |
| operator controllers (`controllers/`, `pkg/apply`, repository root) | Kubernetes objects | three reconcilers, recommend, merge | API server, each other | stale reads, conflicts, order of lists | nodes get what is recommended, secrets stay mounted |
| PTP plugin of `pkg/cloud-event-proxy` (repository root) | state per clock, port roles, timers, overall state | one handler per log line, settle, holdover timer, CurrentState | log socket, subscribers | timers take no lock; restarts | what is pulled agrees with what was pushed |
| device status, webhooks, state store, metrics, encoders | Kubernetes status, counters | | | | |

PROJECT.json lists all components, the ones that are only data transformation
or device I/O too, and the hazards with the line where each one bites.

## 2. The modules

| module | models | extends |
|---|---|---|
| `PTPStates` | the clock states, their conversion for IPC and `worstOfState` | |
| `ClockData` | `event.DataHolder`: per process and interface the last states and offsets, their age and the worst state; in-sync and out-of-spec decisions | |
| `ClockManager` | clock manager, BC/OC clocks, holdover timers, the producers of their events, forwarding, removal and registration by an apply | `PTPStates` |
| `HoldoverClock` | abstract: what a BC/OC clock promises | |
| `TBCClock` | T-BC clock, its upstream ptp4l, fetch and announce goroutines | `PTPStates`, `ClockData` |
| `DpllSetup` | which DPLLs a profile watches and with which limits | |
| `DpllMonitor` | the DPLL monitor of each NIC and its holdover goroutine | `DpllSetup` |
| `GMClock` | GM clock over `DpllMonitor`, GNSS and ts2phc | `PTPStates`, `ClockData`, `DpllMonitor` |
| `HAClock` | HA clock over its members | `PTPStates` |
| `PMCMonitor` | PMC monitor and client | |
| `GNSSReceiver`, `UbxCommand` | gpsd, its monitor over ubxtool and broker; acknowledgements | |
| `LeapSeconds` | leap-second manager | |
| `SyncE` | reading of synce4l | `PTPStates` |
| `PhcFirstStep` | plugin phc-first-step: the profile's checks, the measurements, the arithmetic | |
| `IPCLink` | `ipc.Cache`, `ipc.Link`, the proxy's accept loop and event cache | |
| `EventCache` | values of the proxy's events, publication, CurrentState | |
| `Sublists` | the elements of a sequence that are in a set, in order | |
| `SubscriptionStore` | slots, free list, index and file of the subscriptions | `Sublists` |
| `ProcessManager` | event loop, process goroutines, stop-all and start-all of an apply | `Sublists` |
| `StartConditions` | the conditions of a profile's processes and the ntpfailover plugin | |
| `NodeConfig` | from the profile file, secrets and HardwareConfigs to running processes | |
| `ClockChain`, `HardwarePins` | resolution of a HardwareConfig; the commands and the parties that send them | `HardwarePins` extends `ClockChain` |
| `Recommend`, `OperatorSync` | recommendation as operators; the operator's reconcilers | `OperatorSync` extends `Recommend` |
| `ProxyEvents` | PTP plugin of the log-reading proxy | |
| `MC...` | instances for TLC; `MCServices` and `MCPlatform` explore modules that share no state in one run, each from initial states of its own | |
| `ClockManager_proofs` | TypeCorrect, HoldoverIsTimed, Reconciled, SnapshotIsCurrent, OneExpiry, OwnTimer, PromiseKept | `ClockManager` |
| `EventPath_proofs` | LinkTypes, ProxyUpToDate; PulledIsPushed, UndisciplinedFreerun; EventsAreCurrent | `IPCLink`, `ProxyEvents`, `EventCache` |
| `NodeConfig_proofs` | NodeTypesHold, RunsWhatIsRemembered, SecretIsNotForgotten, HardwareIsApplied | `NodeConfig`, `Data_proofs` |
| `ProcessManager_proofs` | ProcessTypes, NeverTwoChildren | `ProcessManager`, `Data_proofs` |
| `TBCClock_proofs` | UpstreamIsFollowed, LocalDataIsAnnounced, UpstreamLossIsSeen | `TBCClock`, `Data_proofs` |
| `GMClock_proofs` | OneHoldoverEach, PublishedIsCurrent, StateIsDelivered | `GMClock`, `Data_proofs` |
| `Services_proofs` | BestMemberIsPublished, LevelIsAnnounced, FirstStepAlwaysLands, NeverFalseLeap, StoreKeepsSubscriptions, AckIsAttributed, OnlyOwnerUnmounts, DataIsDetermined | the six modules of these services and `OperatorSync`, `Data_proofs` |
| `Data_proofs` | lemmas about sequences and the operators of `ClockData` and `Sublists` | `ClockData`, `Sublists` |

Definitions keep the names of the code. Those whose names end in `_Something`
and whose comment begins with "Mutant" are variants with a plausible mistake;
PROJECT.json says which property each one must break. They are not part of any
specification.

### ClockManager and HoldoverClock

*State.* `registered` is the key set of `ClockManager.clocks`. The maps
`syncState`, `overall`, `clockClass`, `iface`, `holdoverGen` and `armed` are the
fields of the `BCClock` registered under a name, and `inst` counts the objects
that have been registered under it, because config names (`ptp4l.0.config`, ...)
are reused by every apply. A timer goroutine is in `sleeping` until its timeout
or cancellation and in `firing` while it is blocked in `sendEvent`. `eventsIn`
and `events` are the two bounded channels, `store` and `classStore` the part of
`ipc.Cache` that these clocks write.

*Actions.* `PortSlave`, `Ptp4lOffset`, `PortFaulty`, `PmcParentDS`,
`OsClockSample` and `Ts2phcDown` are the producers; the sends that are a
`select` with a `default` in the code are `Offer`, which drops the event at a
full channel. `Forward` is the process manager. `ProcessEvents` takes one event
under `clockManagementMu` and is the disjunction of its handlers.
`RemoveAllClocks` and `AddClock` are the steps of an apply, which holds the lock
only within each. An offset is only in range or not.

*Refinement.* `HoldoverClock` has no goroutines, generations or event kinds for
timers: a clock is locked, in a holdover that has time left or not, or runs
free. `KeepsPromise` maps "has time left" to "its own timer sleeps" and shows
that `ClockManager` implements it while no name is registered twice.

### ProcessManager and StartConditions

`ProcessManager` has small steps and abstract conditions. A process object is
`<<name, apply>>`. `state` is its `process.State`, `runs` the goroutines of
`run()` with their program counter, `process` and `waiting` the two lists of the
manager, `loop` and `daemon` the program counters of the event loop and of the
goroutine that applies profiles. `RunReadState` and `RunSetState` are two steps
because reading and setting the state are two locked sections. `Start` returns
an error, and is retried by `startProcessWithRetry`, only when the process is
Stopping; it is called for objects just seen Created, Stopped or Dead, which no
other goroutine turns into Stopping, so the retry loop is not modelled.

`StartConditions` has the real conditions (Immediate, OnProcessUp, CountSamples,
All, Any and those of ntpfailover) and coarse steps: Start and Stop take effect
at once. `latched` is the memory of the stateful All, `pcfsm` the state machine
of the plugin. Time passes only when the plugin is not in its failover state,
and a LOCKED line of phc2sys restarts it while chronyd runs, as the code does.

### TBCClock, GMClock, DpllMonitor, HAClock

Handlers of the clocks are one step each, because the clock manager's loop runs
them one at a time. What they start runs beside them: `fetches` and `locals` of
`TBCClock` are goroutines with their own steps (`FetchReads`, `FetchReadsTime`,
`FetchFails`, `handleDownstreamAnnounceIWF`, `LocalDone`), and the holdover
goroutine of `DpllMonitor` reads, writes and sends without the monitor's lock.
Offsets stand for ranges; windows have one sample. A *scenario* names the NICs,
profile, inputs and faults of a behaviour, so that one run covers the
combinations that matter and none of the product of all.

### PMCMonitor, GNSSReceiver, UbxCommand, LeapSeconds, SyncE

`PMCMonitor`: the polls and the handlers of data sets are goroutines; `clean`
records that no update was dropped and no two handlers overlapped.
`GNSSReceiver`: `tools` are the ubxtool processes made so far, each with its
status, alive and hung; an epoch is a name free when the epoch begins.
`UbxCommand`: answers are picked by number alone, so `air` holds those still
under way. `LeapSeconds` counts time in maintenance periods; the week and day of
an indication are taken for the end of that day, when a leap second happens
(days count from 1, as they do for GPS and Galileo). `Indicated` is what
NAV-TIMELS may say: the announced leap with its date, or no change, with the date
of the last leap (`timeToLsEvent` negative) or one to come about which nothing is
known; `processLeapIndication` dates these two differently. The validity flags
are set. `SyncE` has the lines of one device. `PhcFirstStep` has the arithmetic
of the code on a small range of integers, with quotient and remainder that round
towards zero.

### IPCLink, EventCache, SubscriptionStore

`IPCLink`: `link` is dialing, serving, or broken (the peer is gone and the link
has not noticed); `snap` is what is left of a snapshot, a set because the code
ranges over a map; `conns` are the connections in the listen backlog with their
unread bytes. `missed`, `dropped` and `clearLost` are history variables.
`EventCache` looks into one event: data values per interface, posts that fail.
`SubscriptionStore` splits a save into write and rename, with a crash anywhere.

### NodeConfig, ClockChain, HardwarePins

`NodeConfig`: the two assignments of `UpdateConfig` are two steps, because it
takes no lock; `apply` is the program counter of `applyNodePTPProfiles`, which
walks `profiles` while others replace them. `secret` counts the contents of the
secret files. What a change is to the file system is a choice
of `SecretChanges`: `below` the mount folder, where no watch is, `hidden`, and the
`op` of the event. `Watched` says whether there is a watcher at all (`New` goes on
without one when it cannot be made or the folder is not there yet). Only events
that pass the filters of `Run` (`Counts`) set the flag. `noticed` is
history: the last content whose change was reported by such an event. The
watcher's channels are closed only by its own `Close`, so its recreation in `Run`
is not modelled. `ClockChain` has the resolution of a config as operators over
the profile and the vendor's template; `HardwarePins` turns the result into
batches of commands, and `job` holds what each of the four parties has still to
send.

### Recommend, OperatorSync

A name is the sequence of its parts between underscores, which makes
`SplitN(name, "_", 2)` a head and a tail. The stable sort of the recommended
profiles is a rank: a profile's place is the number of chosen profiles that sort
before it, by name and then by place in the list. Each reconciler reads and writes the
API server in steps; an update fails when the object has changed since it was
read, and a failed reconcile is queued again.

### ProxyEvents

A log line is a step and says anything, since lines are lost while the socket
reconnects; each publication is then the event, the comparison of the overall
state and its update, in steps of their own. The timer goroutine takes no lock.
`silent` is history: it tells whether the main clock changed state without an
event, or reader and timer published at the same time (`torn`).

## 3. The runs

Run one with `tlc -config Services.cfg MCServices`.

| run | config, module | instance | properties | distinct states |
|---|---|---|---|---|
| `bc_holdover` | `ClockManager_holdover.cfg`, `MCClockManager` | one BC with ts2phc, one apply, repeated holdovers | TypeOK, OneExpiryPerHoldover, HoldoverEnds, ExpiryFromOwnTimer, KeepsPromise | 579,717 |
| `bc_pair` | `ClockManager_pair.cfg`, `MCClockManager` | two clocks sharing the system clock, two applies; symmetric | OverallReconciled, SnapshotCurrent | 2,467,373 |
| `ipc_settle` | `IPCLink_settle.cfg`, `MCIPCLink` | three keys, two resources, a write timeout, a restart | UpToDate, Settles | 217,673 |
| `pm_lifecycle` | `ProcessManager_lifecycle.cfg`, `MCProcessManager` | ptp4l, pmc and a phc2sys with conditions; two deaths, or a second apply | OneChild, DeadIsRestarted, WaitingIsStarted | 105,665 |
| `tbc_announce` | `TBCClock_announce.cfg`, `MCTBCClock` | a T-BC in several scenarios | DownstreamFollowsUpstream, LocalDataAnnounced, UpstreamLossSeen | 628,412 |
| `gm_holdover` | `GMClock_holdover.cfg`, `MCGMClock` | a GM with one and two NICs | OneHoldover, StateDelivered, PublishedCurrent, ToldHoldoverEnds | 116,493 |
| `services` | `Services.cfg`, `MCServices` | PMC monitor, subscriptions, GNSS, u-blox, leap seconds, HA, SyncE, first step | SubscriptionsKept, AckAttributed, NoFalseLeap, BestMemberPublished, LevelAnnounced, FirstStepLands, ParentDSRecovers, SourceLossTold | 331,469 |
| `operator` | `Operator.cfg`, `MCOperator` | three reconcilers, two PtpConfigs, a secret, an edit, an error | NodeDataDetermined, UnmountedByOwner, Converges | 445,207 |
| `node` | `Node.cfg`, `MCNode` | two readers of the file, one HardwareConfig, four kinds of change of a secret, two events of the world | RunsWhatItRemembers, SecretNotForgotten, HardwareApplied, FileReachesNode | 600,598 |
| `platform` | `Platform.cfg`, `MCPlatform` | pins of an E825 pair; processes of a T-BC and of a GM with failover; the proxy's events | PinsAsConfigured, EventsCurrent, PlatformStarts | 180,911 |
| `proxy` | `Proxy.cfg`, `MCProxy` | an OC, a GM beside chronyd, a T-BC | PullAgreesWithPush, UndisciplinedIsFreerun, ProxyHoldoverEnds | 650,153 |
| `proxy_freerun` | `Proxy_freerun.cfg`, `MCProxy` | an OC | FreerunTold is **violated** (section 6) | |

*Why the bounds are enough to be interesting.* Channels hold tens or hundreds of
elements in the code; a capacity of one or two makes "full" a matter of one or
two events, so every non-blocking send is explored both ways and every blocking
one is blocked in some behaviour. Two applies are what it takes for an object of
the first to meet its successor; `MaxGen` lets a clock enter a second holdover
while the expiry of the first is asleep, firing or queued. Two connections in
the backlog are one the link has given up and one it waits on. `Budgets` of the
process manager and the scenarios of `TBCClock` and `GMClock` say which faults a
behaviour may have together: two deaths, or a second apply; one NIC with all
inputs, or two with few; the leap of `services` comes late enough to be announced, waited
for and missed; the scenario `Relocks` of the T-BC has a clock that loses
and regains its lock while a fetch is under way. Windows of samples have one or two elements, enough for
a sample to be too old or too few. In `PhcFirstStep` the range -5..4 with a
"second" of 2 has a part of a second below the smallest quotient, and six steps
of time let both adjustments come late. Deadlock is checked where producers can
always act (`ClockManager`, `Operator`); elsewhere the bounded environment stops in the end,
so the configurations say `CHECK_DEADLOCK FALSE`, and the liveness properties say
that the system does not stop too early.

*What the properties say.* Each has a comment in its module. In short:

* `OneExpiryPerHoldover`, `ExpiryFromOwnTimer`, `HoldoverEnds`: what generation
  and cancel function of a clock are for. `KeepsPromise`: the refinement of
  section 2. `OverallReconciled`, `SnapshotCurrent`: three pieces of state that
  the handlers update at different places agree.
* `UpToDate`: with nothing in flight the proxy shows what the cache holds, if no
  message was dropped at a full channel and no `cache_clear` was lost. `Settles`:
  it gets there.
* `OneChild`: the state machine of a process excludes two children, whoever
  starts it. `DeadIsRestarted`, `WaitingIsStarted`, `PlatformStarts`: processes
  start when they should (the last one with the real conditions, and with chronyd
  taking over while GNSS is lost).
* `DownstreamFollowsUpstream`, `LocalDataAnnounced`: controlled ports announce
  one grandmaster, the current one, or the node's own data, whatever goroutines
  are still on their way. `UpstreamLossSeen`: the clock does not stay LOCKED
  without an upstream.
* `OneHoldover`, `StateDelivered`, `ToldHoldoverEnds`: a NIC never has two
  holdover goroutines that could both set the state, what the DPLL is in is what
  the clock was told, and a holdover it was told of ends. `PublishedCurrent`: the
  cache and ptp4l have the state of the GM once PMC works.
* `ParentDSRecovers`, `SourceLossTold`, `NoFalseLeap`, `AckAttributed`,
  `LevelAnnounced`, `BestMemberPublished`, `SubscriptionsKept`, `FirstStepLands`:
  the promise of each service under its own faults.
* `NodeDataDetermined`: what a node gets does not depend on the order of lists,
  unless names collide. `UnmountedByOwner`, `Converges`: reconcilers that write
  one DaemonSet keep what the other owns and come to rest.
* `RunsWhatItRemembers`, `SecretNotForgotten`, `HardwareApplied`,
  `FileReachesNode`: at rest the node runs the last good file with the current
  hardware, and with a secret no older than the last change that the watcher
  reported. This is not always the secret on the node (section 6). `PinsAsConfigured`: after an undisturbed apply a read
  of the pins gives what the configuration says. `EventsCurrent`: subscribers
  were told the latest values.
* `PullAgreesWithPush`, `UndisciplinedIsFreerun`, `ProxyHoldoverEnds`: the
  log-reading proxy tells one story, pulled or pushed.

## 4. Fairness

No property relies on ports, grandmasters, users, faults or restarts ever doing
anything.

* `ClockManager`: weak fairness of the loop and of forwarding (goroutines that
  are always ready to receive), and of a timer's timeout. Posting an expiry
  needs strong fairness: the timer goroutine blocks on a channel that other
  producers may fill again and again. Go serves blocked senders of a channel in
  the order they came, so it is served after finitely many receives.
* `IPCLink`: weak fairness of the link goroutine (its dial loop retries for
  ever) and of the proxy's accept loop; strong fairness of answering a request,
  because `select` chooses at random among the ready cases and cannot pass over
  one of them for ever.
* `ProcessManager`: weak fairness of the loop, of the apply and of the process
  goroutines; a child whose stop channel is closed exits (`Stop` has sent
  it SIGTERM); strong fairness of the two blocking status sends, for the
  same reason as above.
* `GMClock` with `DpllMonitor`: weak fairness of the clock's handler and of each
  holdover goroutine (a ticker and a timeout).
* `PMCMonitor`: weak fairness of worker, monitor, polls, handlers and clock.
  `GNSSReceiver`: weak fairness of gpsd's goroutine, the monitor and the clock;
  strong fairness of tick, message and receiver, because one `select` waits for
  both and the receiver sends every second.
* `StartConditions`: weak fairness of the event loop and of time; strong
  fairness of the blocking status sends, and of the offset lines of a running
  program, which it prints every second.
* `NodeConfig`: weak fairness of the daemon's loop, of senders that wait for the
  channel, of the hardware reconciler, of an update in progress and of the
  ticker's read; strong fairness of the event of a secret, one of several cases
  of a `select`.
* `OperatorSync`: weak fairness of the steps of each reconciler (the work queue
  calls it again after an error). `ProxyEvents`: weak fairness of the holdover
  timer and of a publication in progress.

## 5. The proofs

`tlapm <module>` checks every step of the eight theorem modules of section 2.
The theorems hold for every value of the constants, the bounds included, under
the assumptions named in each module's ASSUME, which TLC evaluates on every run;
a theorem that needs more says so. `Data_proofs` has
the lemmas the others share: what the loop that filters a slice returns,
that an event changes the detail of its own process and interface and no other,
and the unfolding of a recursive function (`Recursion`) and induction
(`SetInduction`) for a measure in the naturals.

### ClockManager_proofs

* **TypeCorrect**: `Spec => []TypeOK`. Inductive as it stands.
* **HoldoverIsTimed**: `Spec => []HoldoverHasExpiry`. A clock in HOLDOVER
  always has its own expiry asleep, firing or queued, across any number of
  applies and resets and whatever events are dropped. Inductive given TypeOK: a
  timer leaves `sleeping` only through its timeout or a cancel, which also takes
  the clock out of HOLDOVER or bumps the generation; its send blocks, so it is
  never dropped; and the event leaves the queue only when the handler takes the
  clock out of HOLDOVER.
* **Reconciled** and **SnapshotIsCurrent**: `OverallReconciled` and
  `SnapshotCurrent`, assuming `Ts2phcCfgs = {}`. The assumption is needed: a
  Reset of one clock resets the system clock that all share, and clears the cache
  (section 6). The inductive invariant adds that neither channel holds a Reset;
  the second rests on the first, because a message is only sent on a change of
  the overall state.
* **OneExpiry** and **OwnTimer**: `OneExpiryPerHoldover` and the action property
  `ExpiryFromOwnTimer`, assuming `MaxApplies <= 1`, without which the first
  recipe of section 6 is a counterexample. Neither is inductive. `ExpiryInv` adds
  that every timer and every queued expiry belongs to an object registered under
  its name with a generation it has reached (`TimersOwned`, `ExpiriesPosted`),
  that a cancel function is kept exactly in HOLDOVER (`ArmedInHoldover`), and that
  a name is registered at most once (`AppliedOnce`).
* **PromiseKept**: `Spec => KeepsPromise`, the refinement of `HoldoverClock`,
  under the same assumption and from the same invariant. Every handler maps to
  one abstract step: an expiry that counts to `Expire`, because its timer no longer
  sleeps (OneExpiry), the timeout of a timer to `TimeUp`, its send to `Idle`.

### EventPath_proofs

Of `IPCLink`:

* **LinkTypes**: `TypeOK`, with the shape of the backlog: only the youngest
  connection is open.
* **ProxyUpToDate**: `UpToDate`, for any keys, capacities, updates, clears,
  restarts and write timeouts. The invariant `Truthful`, for each resource of
  the proxy: the channel's last word about it is true or there is none; what a
  snapshot still has to say is true unless the channel overrules it; and where no
  snapshot will be asked for, the last word on the connections, or what the proxy
  shows already, is true. It holds as long as no message was dropped and no
  `cache_clear` lost, which is the hypothesis of `UpToDate`.

Of `ProxyEvents`, for any ports and any profiles of the three types
(`ProxyAssumption`), over `ProxySpec` without its fairness:

* **PulledIsPushed**: `PullAgreesWithPush`. The property speaks of the moment both
  queues of publications are empty, which says nothing of the steps before. The
  invariant says of each queue what subscribers will have been told when it is
  empty, provided the other queue is (`ClaimInv`): for the system clock and the
  PTP clock the last event of the type, told or waiting, has the stored state; for
  the node the queue ends in an update to the worst of both, or in a comparison
  that will find it. Reader and timer share the overall state, so that `OverallInv`
  ties what was told of the node to what is remembered, except in the one step
  between the event and its update. What a pull reads also depends on which
  records a profile can have at all (`ProfileFits`), and on the timer publishing
  only for an OC (`TimerFits`).
* **UndisciplinedFreerun**: `UndisciplinedIsFreerun`. The window of phc2sys is
  found undisciplined only over a system clock with a record in FREERUN, and a
  source is selected only over one with a record (`WindowInv`).

Of `EventCache`, over `EventSpec`:

* **EventsAreCurrent**: `EventsCurrent`, for any message types, values and
  subscribers, any clears, posts that fail and subscriptions. The publication under
  way carries the event the cache holds (`PostCarriesEntry`); a subscriber that no
  post is on its way to and whose last one came through has that event
  (`HeardEntry`); the event holds, once each, the values of the last message of
  every interface heard of since the last clear, and no others
  (`EntryHoldsLatest`). `setDataValues` overwrites a value in place or appends it,
  and the lemmas say what one call does to the set of values and their keys.
  The theorem needs `EventCacheAssumption`: every type has its interfaces, and those of the
  system clock and of the node have only one, as messages of phc2sys and chronyd
  always name CLOCK_REALTIME and those of the node name none. With
  two, the second would overwrite the first, since their resource address does
  not contain the interface.

### NodeConfig_proofs

For every set of files, writers, HardwareConfigs and events, and every capacity
of the update channel. `NodeConfigAssumption` asks that a file has a profile of
each name once, which the operator's `qualifyProfileName` sees to; the sort of the
daemon has no order for two of one name. The sort is a rank, and the lemmas prove
that ranks are places: it loses nothing, and sorting a sorted list changes
nothing.

* **NodeTypesHold**: the types, with what each stage of `UpdateConfig` has read.
* **RunsWhatIsRemembered**: `RunsWhatItRemembers`. As long as no two writers
  interleaved, what is remembered is what the profiles hold, as loaded or sorted,
  but for the one writer between its two assignments (`ConfInv`). An apply walks
  the profiles while others replace them, so the second half speaks only of an
  apply after which none is pending: it works on profiles that are in order, has
  built a process for each of the first ones and numbers them by place; and when
  nothing is pending and the last apply did not fail, exactly these processes run
  (`RunInv`).
* **SecretIsNotForgotten**: `SecretNotForgotten`, for any changes of the secrets,
  with or without a watcher. A change that passes the filters of `Run` is in the
  watcher's channel, in the flag, with a writer or asked for as an update, or
  whatever runs or is built has a secret at least as new as `noticed` (`SecInv`). A
  process is built with the secret that is there, which is never older
  (`SecTypes`). About changes that are not reported the theorem says nothing.
* **HardwareIsApplied**: `HardwareApplied`. The manager holds what the reconciler
  remembers except during an update; what runs or is built knows its
  HardwareConfigs, or a restart is due on account of a profile that is there
  (`HwInv`).

### ProcessManager_proofs

* **ProcessTypes**: `TypeOK`, with the count of applies.
* **NeverTwoChildren**: `OneChild`, for any processes, conditions, deaths and
  applies, assuming `FailuresContained`: a process whose `cmd.Start` may fail has
  no conditions and there is one apply. Otherwise it is false, as the recipe for
  `OneChild` in section 6 shows. The invariant says that
  of the goroutines of an object all but one have only their Down to report
  (`Exclusive`), that the object's state is that one's and makes `Start` return
  early (`StateHeld`), that processes without conditions are never listed as
  waiting (`OnlyConditional`), and, for a process that may fail, that its
  Down is sent once and after its goroutine is gone (`FailsOnce`).

### TBCClock_proofs

For every list of scenarios `IsScenario` admits.

* **UpstreamIsFollowed** and **LocalDataIsAnnounced**:
  `DownstreamFollowsUpstream` and `LocalDataAnnounced`. One invariant, `AnnounceInv`,
  for both: tokens are handed out once and the clock has the last
  (`TokensOnce`); what a fetch with that token has read is the grandmaster's
  data or there is a report of another to come (`FetchSettles`); with no such
  fetch, clock and ports hold such data (`Announced`); and a clock that coasts
  has each of its commands issued or waiting with its class (`CoastAnnounced`).
  What updateState may decide is a lemma for each of its branches, so that the
  proof of a step looks at the decision and never at offsets or windows.
* **UpstreamLossIsSeen**: `UpstreamLossSeen`, assuming `OnePort`: one upstream port,
  whose reports the wall clock does not date back. With two it is false (section
  6), and `Data.AddEvent` leaves a report out that is older than the one before.

### GMClock_proofs

For every list of scenarios.

* **OneHoldoverEach**: `OneHoldover`, from its own strengthening (`Guarded`): a
  DPLL has no goroutine, or one, and then a flag that makes `stateDecision` start
  no other.
* **PublishedIsCurrent**: `PublishedCurrent`. The cache has nothing or what the
  clock is in, and ptp4l has the class that counts as announced.
* **StateIsDelivered**: `StateDelivered`. For each DPLL whose goroutine is not
  between a change and its report, the last event of it in the channel has its
  state, or there is none and the clock's data has it (`DeliveryInv`).

### Services_proofs

* **BestMemberIsPublished** of `HAClock`: its state is the best member's after
  every step, not only when it publishes.
* **LevelIsAnnounced** of `SyncE`, with levels other than the default that marks
  a half that has not been read (`SynceAssumption`): half of an announcement is
  never combined with half of another (`HalfRead`, `ToldRight`).
* **FirstStepAlwaysLands** of `PhcFirstStep`, for every width of a number and
  length of a second: the division of the code loses and adds nothing, and both
  clocks run at one pace until one is set (`StepInv`).
* **NeverFalseLeap** of `LeapSeconds`, for any leap times in `Int`: file,
  configmap and indications are about the leap there is or about past ones. An
  indication without a change is dated by the receiver only when it tells of the
  past, and by the clock otherwise; either way the entry is out of the window in
  which ptp4l is told (`IndRight`).
* **StoreKeepsSubscriptions** of `SubscriptionStore`: `SubscriptionsKept`. The
  invariant has the converse of each part (an inactive slot is in the free list,
  once, and an active one in the index of its resource, once), and that what waits
  to be renamed is what the store holds.
* **AckIsAttributed** of `UbxCommand`: `AckAttributed`, for any lists of commands of
  any length. The walk of the code over the arguments (`GroupsFrom`) and the
  receiver's own idea of them (`Operations`) find the same operations in the same
  order with the same numbers of answers, which an induction from the last
  argument to the first shows; so cutting the answers by number gives each
  operation its own. `UbxInv` says that until a command is given up, what was
  collected and what is under way are together all the answers to the command
  being run. `UbxAssumption` has the commands well-formed: the value of a flag
  is not itself a flag, and a command says SAVE at most once. `Operations`
  tells a flag from a value by the first; nothing in the code checks either.
* **OnlyOwnerUnmounts** of `OperatorSync`: the action property `UnmountedByOwner`,
  for any resources, secrets, edits and errors. A reconciler writes a whole
  DaemonSet that it read earlier. `OperatorInv` says that a copy whose version is
  still current is the object on the server (`FreshIsCurrent`), so that a write
  that passes the version check takes away what this reconciler decided to and no
  more, and that every DaemonSet, also one in a reconcile, mounts what it has
  volumes of.
* **DataIsDetermined**: `NodeDataDetermined`, for any worlds of resources. What is in
  the ConfigMap was computed from some list of the installed resources
  (`MapComputed`). Two lists of the same resources are tied by the map from a place
  in one to the place of the same resource in the other; it is one-to-one, takes the
  chosen profiles to the chosen ones, keeps the order of their names, hence their
  number and ranks, and what a reference resolves to, since no two resources have
  the profile it names. `OperatorAssumption` asks that resources and their
  lists of profiles are finite and that names are taken once in a namespace, as
  Kubernetes has it; profiles of one name within a resource are
  kept apart by their places.

### Left to TLC

Liveness, and whatever needs fairness or ENABLED: `HoldoverEnds`, `Settles`,
`DeadIsRestarted`, `WaitingIsStarted`, `ToldHoldoverEnds`, `ParentDSRecovers`,
`SourceLossTold`, `Converges`, `FileReachesNode`, `PlatformStarts`,
`ProxyHoldoverEnds`, `FreerunTold`.

One invariant: `PinsAsConfigured` of `HardwarePins`, which compares folds over the
lists of commands, merged, batched and in every order of a map, with their last
word on each pin. Every other invariant and action property of a passing run is
proved.

The induction theorems of the library take an operator as parameter, which the
provers cannot instantiate, and so do its theorems on recursive definitions.
Where a proof needs one, `Data_proofs` gets it from the well-foundedness of
the naturals, with the set of arguments for which a fact holds, or a function, in
place of the operator. The folds of the community modules choose the order in
which they go through a set and take an operator, which is why `PinsAsConfigured`
is out of their reach.

## 6. What the code does that its text does not say

`proxy_freerun` is a run: `GenPTPEvent` leaves the FREERUN event of a PTP clock
in HOLDOVER to the holdover timer (`metrics/manager.go:507`), but stores FREERUN
first, and the timer publishes only while it finds HOLDOVER stored. Subscribers
are not told.

The following are shown by a passing run's configuration with the constants
below and the one property named, checked under `SPECIFICATION Spec` where
it is an invariant or an action property of `ClockManager`, `IPCLink` or
`ProcessManager`.

| configuration | constants | property | what happens |
|---|---|---|---|
| `ClockManager_holdover.cfg` | `Ts2phcCfgs = {}`, `OutCap = 1`, `MaxApplies = 2`, `MaxGen = 1` | PROPERTY `ExpiryFromOwnTimer`, also `KeepsPromise` | `RemoveAllClocks` (`clockmgr.go:164`) drops clocks and leaves their timers; names and generations start over, so an old timer can end the first holdover of the new clock |
| same | `Ts2phcCfgs = {}`, `OutCap = 1`, `MaxGen = 1` | INVARIANT `SourceLossReachesClock` | the only SourceLost event of a port fault is dropped at a full channel (`log_parsing.go:257`); the clock stays LOCKED without a source |
| `IPCLink_settle.cfg` | `Keys = {k1, k3}`, `OutCap = 1`, `SockCap = 2` | INVARIANT `MissedIsRepaired` | a value dropped at a full channel (`ipc/cache.go:58`) is repaired by the snapshot and then overwritten by the older value still queued |
| `ProcessManager_lifecycle.cfg` | `Names = {ptp4l, phc2sys}`, `Pmcs = {}`, `MayFail = {}`, `InCap = 2`, `MaxStarts = 3`, `Budgets <- MCConditions` | INVARIANT `NoPanic` | an event that arrives while a process with conditions is Starting or Stopping reaches `panic("unhandled default case")` (`process_manager.go:202`) |
| same | `Names = {ptp4l}`, `Pmcs = {}`, `StopOnHalt = {}`, `MayFail = {}`, `InCap = 2`, `MaxStarts = 3`, `Budgets <- MCReapplyDeath` | INVARIANT `NoOrphan` | a process that dies just before an apply is restarted (`process_manager.go:257`) after the apply has passed over it, and then forgotten |
| same | as before with `MayFail = {ptp4l}` | INVARIANT `OneChild` | `handleProcessDown` finds processes by name: a late Down event of the old object restarts the new one while its goroutine is still cleaning up |
| same | `Names = {ptp4l, pmc}`, `StopOnHalt = {}`, `MayFail = {}`, `InCap = 2`, `MaxStarts = 3`, `Budgets <- MCReapply`, `SPECIFICATION FairSpec` | PROPERTY `EveryApplyStarts` | in a second apply the Up event of ptp4l may be handled before the waiting processes are listed (`process_manager.go:103`); pmc is then never started. `ImmediateStopped` and `ImmediateRuns` hold in this instance |
| `TBCClock_announce.cfg` | `Scenarios <- MCTwoPorts` | INVARIANT `UpstreamLossSeen` | with two upstream ports the loss of the last one is told under the interface that changed (`ptp_process.go:246`), which need not be the one the clock looks at |
| same | `clean'` in `evaluateState` without its conjunct `~(pmc /\ Pending)` | INVARIANT `DownstreamFollowsUpstream` | LOCKED, HOLDOVER, LOCKED asks for a fetch; a parent data set that equals the one announced before, or that of a free-running grandmaster, asks for none of its own (`tbc.go:255`), so the fetch under way still has the current token, is applied (`tbc.go:468`), and the ports announce the grandmaster it has read, although the comment at `tbc.go:60` says that a token keeps stale data out |
| `Node.cfg` | `SecretChanges <- MCMounted` | INVARIANT `SecretsReachProcesses` | `New` watches the folder of the secrets and not the directories in it (`daemon.go:307`), where the operator mounts each secret (`controllers/ptpconfig_controller.go:559`): a new content raises no event and processes keep the old one until another apply, against the comments at `daemon.go:344` and `controllers/ptpconfig_controller.go:335`. A watcher that could not be made leaves the same |
| `Node.cfg` | | INVARIANT `NoRemovedHardware` | removing the last HardwareConfig triggers no restart (`hardwareconfig_controller.go:250`, against the comment at line 64) |
| `Node.cfg` | | INVARIANT `SettingsFromHardware` | the upstream port written into a profile at one apply is taken for the user's at the next (`hardwareconfig.go:541`) |
| `Platform.cfg` | `HwConfigSets <- MCTwoSubsystems` | INVARIANT `DelaysCountedOnce` | the delays of the first subsystem are added again for the second (`hardwareconfig.go:598`) |
| `Operator.cfg` | `Worlds = {{"A", "B"}}`, `Secrets = {}`, `MaxErrors = 0` | PROPERTY `HardwareStatusCurrent` | the status of a HardwareConfig keeps nodes of a profile that is gone (`controllers/hardwareconfig_controller.go:112`, against `api/v2alpha1/hardwareconfig_types.go:875`) |

Seen while modelling, in the models, without an instance of their own:

* `BaseClock.Reset` (`pkg/clock/baseclock.go:73`) sets the system-clock state
  that all clocks share; the overall states of the others are stale until the
  next sample. `bc.go:127` speaks of dropping "straight to FREERUN" where the code
  leaves a state other than LOCKED as it is, NOTSET included.
* A `cache_clear` lost with a failed write or at a full channel is never
  repeated (`pkg/ipc/cache.go:83`); the proxy keeps entries of the old profile.
  Its event cache mixes clock classes with and without an interface, keeps the
  value of a port that is gone, and does not repeat a post that failed.
* The list of waiting processes is that of the previous apply until
  `StartProcesses` replaces it (`process_manager.go:219`). A start condition met
  between a failed start and its cleanup starts a second goroutine for the same
  object (`ptp_process.go:415`).
* `handleParentDS` (`pmc.go:326`) remembers a data set whose event is dropped, and
  two handlers may overlap; `ParentDSRecovers` holds as long as neither happens.
* `RunPMCExpGetGMSettings` returns zero settings without an error when pmc stays
  silent, from which the leap manager concludes a leap second (`leap-file.go:264`).
  `NoFalseLeap` leaves out these settings.
* `GPSD.Stop` panics while the process is Starting (`process_cmd.go:53`), returns
  early when the child is gone, and can leave a ubxtool running when the monitor
  finds its subscription closed first. A ubxtool that cannot be started on a tick
  is never started again.
* `setupDPLL` keeps the limits and the clock id of one interface for the next
  (`daemon.go:1161`). Overlapping `announceLocalData` goroutines may leave the
  older data announced (`tbc.go:391`).
* Hardware: `BatchPinSet` returns nil when a read-back fails (`utils.go:685`);
  four writers of pins share no lock; sysfs files are written before pins, against
  the comment at `hardwareconfig.go:1888`; the removal of a config sends its
  frequency and phase again (2126); an edited PtpConfig does not cause an unchanged
  HardwareConfig to be resolved again.
* phc-first-step without a timeout waits for ptp4l without end, inside the apply.
* Log-reading proxy: a dead ts2phc sets FREERUN silently; a crash between
  publication and `UpdateSyncState` repeats or loses an event; saved port roles
  are never restored; `ProfileType` T-GM is never assigned; chronyd stays in the
  overall state after phc2sys is back; a profile file that is missing at the start
  leaves a T-BC without type (`ptp_operator_plugin.go:190`).

## 7. What is not modelled

Rendering of configuration files and command lines, regular expressions,
metrics, logging; netlink, sysfs and serial I/O, the parsing of ubxtool's output
and of devlink; the vendor tables of the hardware configuration; the vendor
plugins (`addons/intel`), which write sysfs files when a profile changes and are
superseded by the hardware configuration; device status reporting, webhooks and
API types; leader election of controller-runtime and the operator's main; the
frame of the log-reading proxy (REST API, storage). PROJECT.json gives
the reason for each. Data races are interleavings of whole reads and writes in
the models, never torn values.

## 8. Plan

The core, the services, the node and the operator are modelled, and what can be
proved of their runs' properties is. In order of use to the code:

1. instances of their own for the observations of section 6 that have none, as
   each of them is settled in the code one way or the other;
2. `PinsAsConfigured`, with the merge of commands stated per pin and field, so
   that the last command that names a field takes the place of the fold;
3. refinements: what `ProxyEvents` and `EventCache` promise their
   subscribers is one specification, an event per resource that follows its value.
