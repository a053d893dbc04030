# ENDAP firmware: TLA+ models, checks and proofs

ENDAP is the firmware of an ESP32 automation controller: a 1 ms control loop on
one core, and network, HTTP, cluster and housekeeping tasks on the other, that
share the state table, the fail-safe policy, the command queue and the pins.
This directory holds the models of that system, their TLC configurations and
the TLAPS proofs. `PROJECT.json` is the index: which definition models which
lines, which run checks which property, which mutant breaks it.

Contents: 1 the system; 2 plan; 3 the modules and the code; 4 the runs; 5 the
proofs; 6 disagreements between code and documents; 7 what is not modelled.

## 1. The system

### 1.1 Tasks

| task | core | what it runs | modelled as |
|---|---|---|---|
| control loop (`control_loop_run`) | 1 | released every 1 ms by a GPTimer; phases io, fieldbus, automation, io_apply, events | `ctl` (OutputPath, Automation), all of ControlLoop, turn "loop" of Rs485 |
| auxiliary task (`core_aux_task`) | 0 | every 20 ms: watchdog check, snapshot, ageing of nodes | `aux` (OutputPath, Snapshot), the check of Watchdog, `Process` and `AuxPublish` of Cluster |
| HTTP server | 0 | commands, policies, tests, rearm, configuration, programs, accounts, adoption of nodes | `http` (OutputPath, Automation, Adoption, Ladder), the operations of Failsafe, Auth, InstallationMap, IoBinding, Pve, a task of NetPolicy and of Network |
| cluster receiver | 0 | remote output commands, ownership updates, heartbeats, claims, remote change of the policy | `rx` (OutputPath, Cluster), `AnswerChecked` and `AnswerUsed` of Adoption, a task of NetPolicy |
| ESP-IDF event loop and timers | 0 | Wi-Fi, IP and Ethernet events, the grace timer of the access point | a task of Network |
| telemetry task | 0 | sensors into process variables | a task of Pve |

Almost nothing between the two cores is locked: the command queue and the
watchdog table have a lock, `pending_mask`, the rule tables, the fail-safe table
and the RS-485 driver do not.

### 1.2 Components

| component | state it keeps | operations | interacts with | what makes it correct |
|---|---|---|---|---|
| state (`data/state`) | one integer per id | `state_set_int`, `state_get_int`, export/import | change hook of io_driver, event bus, snapshot | a changed value is noticed exactly once by every listener |
| io_driver | tables, `pending_mask`, `local_mask` | init, scan of inputs, `state_output_changed`, `io_driver_update` | state, cluster_io (ownership), fail-safe (start-up value) | pins follow the state; a remote output is off |
| io_command | ring of 32 commands | push, pop | HTTP pushes, scheduler pops one per cycle | bounded FIFO |
| event_bus | ring of 64 events, routes | publish, subscribe, dispatch (budget 1) | state, automation, cluster | FIFO; handlers called once per event |
| failsafe | policy per output, latch, NVS blob | boot, guard, apply, test, rearm, set policy, save/load | NVS, state, HTTP, failover, automation | a latched output keeps its safe value until rearmed; what was acknowledged survives a reset |
| automation | rules, timers, interlocks, NVS blob | event handler, tick, dispatch, add, remove, clear | event bus, state, fail-safe, cluster | an interlock that denies wins; delays and pulses measured right; a saved table loads |
| ladder | program, stack, timers, counters, NVS blob | deploy, load, scan, self-test | state, HTTP, control loop | blocks mean what series and parallel contacts mean; a timer waits its time |
| watchdog | table of entries | register, feed, check | every supervised task | restart iff a task is really late |
| control loop, phase monitor | expected time, counters | cycle, export | scheduler, probes, metrics | no drift; sustained misses abort; every loss and overrun counted |
| rs485 master, engine, HAL, fieldbus | node table, message id, retries, driver | poll, answer, time-out, retry | UART, cluster transport | one outstanding request; bounded retries; no stale answer; live nodes online, dead ones offline |
| cluster manager, discovery, io, failover | nodes, ages, owners | heartbeat, ageing, election, updates, takeover, failback, resynchronisation | fail-safe, io_driver, node registry | every loss is acted on; a lost gateway latches and nothing else does; the nodes settle on one master; what is local stays local |
| node registry, identity | table of nodes with state and profile, NVS blob | discover, adopt, configure, activate, revoke, replace, save/load | NVS, cluster, HTTP | a node once; flash follows the table; ACTIVE only with the node's consent |
| snapshot | pending flag, quiet time, NVS blob | mark, export, write, restore | state, NVS | every change is saved eventually; nothing pending means nothing unsaved |
| io_image | double buffers | set, scan, get | io_driver | nothing: no code reads it |
| authentication | accounts and their blob, one session, ring of audit events | bootstrap, login, edit, delete, migrate, export | HTTP, NVS | an enabled administrator always remains; the session is his; the audit is the tail of what happened |
| network policy (`device_profile`) | enabled transports, primary and fallback, onboarding flag, NVS blobs | template, set by HTTP, set by a gateway, claim, reset, load | NVS, onboarding, cluster transport | a restart brings back the policy in force; a claimed node has its profile |
| Wi-Fi, Ethernet, network_ready, choice of transport | mode of the radio, retries, links, route | configure, connect, events, fall back, publish, select | ESP-IDF, HTTP, cluster | published links are real; the cluster's route is not stale; the node can be reached again in the end |
| io binding | channel to pin, blobs of two sides, copy in the driver | bind, unbind, revert, start, migrate | NVS, device profile, io_driver | no pin is an input and an output; a start is stable |
| installation map (in `http_server.c`) | table of names, NVS blob | upsert, replace node, clone, template, command by name | NVS, cluster | a name keeps its meaning until it is edited |
| onboarding | state, profile and gateway, in RAM and NVS | claim, reset, load | cluster transport, NVS, HTTP | what was answered ok survives a power cut |
| pve and telemetry | process variables, alarms, their history, NVS blobs | sample, scale, judge, edit, self-test | io_driver, HTTP, NVS | a value beyond a limit shows its alarm; the history is the last changes |

The rest (pages and JSON of the HTTP server, ESP-IDF configuration, sensors and
GPIO access, catalogues) is I/O and formatting with little state of its own;
`PROJECT.json` lists it with its reason.

### 1.3 What is hard here

* **Interleaving of two cores without locks**: read-modify-write of
  `pending_mask`, guard-then-act on the fail-safe latch, rule tables shifted while
  they are visited, programs replaced while they are scanned, two senders on one
  half-duplex driver, two tasks that reconfigure one radio.
* **Time and wrap**: 32-bit ticks in the watchdog and the rule timers, 16-bit
  message ids, a hardware counter that reloads in the middle of a phase, and a loop
  that the erase of a flash page holds up for tens of milliseconds at any point
  (`realtime_constraints.md`).
* **Resets between two steps**: nearly everything that is configured changes in
  RAM first and is saved afterwards, often in two blobs, and a save may fail.
* **Order of callbacks**: links, nodes and routes are announced after the lock is
  left, so an older announcement may be handled after a newer one.
* **Unreliable media**: garbled, lost and late RS-485 frames; heartbeats that do
  not arrive.
* **Limits**: the command ring, the event bus, the rule table.
* **Promises about the future**: a hang leads to a restart, a pending output is
  driven, a dead node goes offline, a live one comes online.

`PROJECT.json` lists each hazard at its line with the properties that watch it. Known and
watched by no property: a full event bus drops events without a trace
(`event_bus.c:57`); the queue of remote commands holds 16 and drops what follows
(`automation_engine.c:546`); the table of nodes has ten places and frees none
(`cluster_manager.c:67`); nodes that do not hear each other are each their own
master (`cluster_io.c:242`); changes that never pause postpone the snapshot for
ever (`snapshot.c:288`). Section 6.2 lists hazards the code does not avert.

## 2. Plan

Done in this order, most important behaviour first:

1. `OutputPath` with `RingQueue`/`BoundedFifo` (the path of a value to a pin);
2. `Watchdog` and `ControlLoop` (the supervision and timing of the loop);
3. `Failsafe` (policies over resets) and `Automation` (rules);
4. `Rs485` (the field bus);
5. `Cluster` (nodes watching each other, ownership, failover);
6. `Adoption` (remote claim, node registry, onboarding);
7. the first proofs: OutputPath, RingQueue, ControlLoop, Failsafe, Rs485, Cluster,
   Adoption and Watchdog;
8. `Snapshot` (what survives a restart) and `Ladder`;
9. `Auth` (accounts, session, audit);
10. `Network` (radio, links, route of the cluster) and `NetPolicy` (what is
    configured of them, claimed and reset);
11. `IoBinding`, `InstallationMap` and `Pve`; `Services` puts these small services,
    `RingQueue` among them, side by side and `MCServices` runs them in one
    configuration;
12. proofs for Auth, Snapshot, NetPolicy, IoBinding and Pve, for Network and for
    Automation, and the one talker of Rs485;
13. proofs for the interlocks and the plain rules of Automation, for
    InstallationMap and Ladder, for the answers Rs485 accepts, and for the rings of
    the audit and of the alarms.

Left, in this order:

14. Remote outputs and the remote command queue in `Automation`.
15. Login with its back-off and the capabilities of roles, once the code checks
    a password: `auth_login` and `auth_validate_session` accept every request today.

Where the number of runs is limited, one run per module covers several
installations: an installation is a record (`Sites`, `Setups`) chosen in `Init` and never
changed, so the questions stay separate while one configuration answers them. `MCServices` does
the same with whole modules that share no state.

## 3. Modules and code

### 3.1 OutputPath (with MCOutputPath)

`state.c` (write and hook), `io_driver.c` (start-up, hook, `io_driver_update`),
`scheduler.c` (io, automation and io_apply phases), the guard and apply functions
of `failsafe.c`, and the HTTP, cluster and failover code that writes outputs.

* State: `value` (`int_values`), `gpio`, `pending` (`pending_mask`), `localMask`,
  `owned`, `active` and `lastApplied` (fail-safe entry), `cmds` (queue), and per
  task a control point `pc` with the locals `id`, `val`, `reg`.
* Actions: every task is a small program. `state_set_int` is two steps for the
  hook (load and store of the mask); `io_driver_update` is a scan of ownership
  and, per output, read, level, clear (again load and store). Manual commands ask the
  guard, then push. The auxiliary task walks the fail-safe table entry by entry.
* A start ends where `core_boot` leaves it: outputs with manual recovery are latched
  with their start-up value, and then the self-test of the ladder has set the
  first output to 0, latched or not (`OutInit`).
* `held` is a history variable: the value with which an output was latched while no
  other value was under way to it. `LatchKept` is about it.
* `services` is the installation: which writers exist (`manual`, `test`,
  `rearm`, `remote`, `failover`, `owner`, `automation`, `ladder`).
* Left out: active-low inversion (gpio is what the output means), debouncing of
  inputs. Policies are reduced to force-off/hold and automatic/manual recovery.

### 3.2 RingQueue and BoundedFifo

`io_command.c`: the array with head and tail modulo its size, push and pop. The
module is shown to implement `BoundedFifo`, a FIFO of `Size - 1` items, by the
mapping that reads the ring from tail to head. OutputPath uses the abstract queue.

### 3.3 Watchdog (with MCWatchdog)

`watchdog.c`: registration, feed (the tick is read before the lock is taken), the
check that counts misses, and the second look under the lock before the restart.
The tick wraps; `age` and `held` are history variables with the true ages.

### 3.4 ControlLoop (with MCControlLoop)

`control_loop.c` and `phase_monitor.c`: two clocks (`esp_timer` and the raw count
of the loop timer), notification take and drain, correction of the expected
start, glitch skip, the five phases measured with the raw count, the deadline
streak with its abort, and the export of metrics. Time may pass at every control
point, also with a notification pending: the loop has the highest priority on its
core, but a flash write stalls it wherever it is. `unseen` is a history variable: how
long, up to a period, the loop was held up outside the window from the read of
`start` to the read of `end` since it last waited with nothing pending.

### 3.5 Failsafe (with MCFailsafe)

`failsafe.c` over resets: policies in RAM, the blob in NVS (none, version 1,
version 2), load with migration and defaults, save that may fail, the reason of a
boot from the cause of the reset, start-up values, guard, test, loss and return of
the gateway, rearm. Operations are atomic here; OutputPath has their interleavings.

### 3.6 Automation (with MCAutomation)

`automation_engine.c` with its callers in `http_server.c`: rules of seven modes,
interlocks, the event handler, the tick, the event bus with its drop, adding
(whose first evaluation runs on the HTTP task), removing, clearing, saving and
loading.

* Where rules are edited (`Shared`), a task makes one read or write of a rule per
  step (`Found`, `Now`, `Later`: the condition, the decision on it, the timer, the
  output are apart), and a removal shifts nodes, interlocks and runtimes slot by
  slot, each a step (`Shift`), while the loop goes on visiting. Where only the control loop
  touches the tables a visit of one rule is one step.
* A start imports the start-up values of outputs and the levels of inputs without an
  event (`Starts`, `restored` of an installation); `stirred` is a history
  variable with the channels that have changed since.
* `missed` and `failed` are history variables: the bus dropped an event, the last
  save failed.

Durations are at most half the range of the tick, as 16-bit
durations and a 32-bit tick are; the inputs are finite in number, as a table of
pins is. Left out: outputs of other nodes, PVE scaling of inputs, the
`latched_true` flag, which only the JSON shows, the input and the output that the
ladder's self-test writes at the start (Snapshot has them), and a record of 20 or
so bytes that is itself copied in pieces.

### 3.7 Rs485 (with MCRs485)

`rs485_master.c`, the answering and receiving halves of `rs485_engine.c`,
`rs485.c` and `fieldbus.c`. One gateway polls the addresses; field nodes answer.

* State: the master's flags, ids and node table; `age` and `due` are its two
  time stamps relative to now; `tx` and `air` are the driver and the wire, `rx`
  what was received and not yet read, `ack` the pending answer of each node.
* `Millisecond` moves the wire and the field nodes; one action of `Loop` is one
  `fieldbus_tick`, with the early returns of `rs485_master_process_one` as
  alternatives: a checksum error or a frame ends the tick before any time-out is
  looked at. `ClusterSend` is the other core using the same driver, `Noise` and
  `SwitchOff` are the environment.
* `Stall` is a tick the gateway's loop does not run because something holds it up:
  the wire and the nodes go on, the driver keeps the line it has not turned round
  (`rs485_tx_service` runs in the tick), and answers wait. An installation says how
  many milliseconds there may be of it, more than a request takes in one of them.
* The address of a node is its identity modulo the number of addresses
  (`site.addr`), so two nodes may have one and answer both.
* A tick may be a fraction early or late, so a limit reached exactly is seen on
  either side (`age = ResponseTimeout`, `due = 0`).
* A frame carries, as history, whether it belongs to the request in progress
  (`cur`); the code has only the id, and `AckAnswersRequest` compares the two.
* Left out: late ticks of a field node and the line it then holds for longer than
  its answer, the engine's own node table (nothing reads it), the self-test
  (nothing enables it), two senders inside `rs485_send_bytes` at the same
  instant (the call is one step), and bytes of a frame that share a read with the
  end of the frame before.

### 3.8 Cluster (with MCCluster)

`cluster_manager.c`, `cluster_discovery.c`, `cluster_events.c`,
`cluster_failover.c`, `cluster_io.c`; the transport is a channel that loses
heartbeats and delays, repeats or loses frames. One unit of time is a heartbeat
period.

* State, per node: `state` and `age` (the manager's table), `rx` and `events`
  (what the receiver and the auxiliary task have changed under the lock and not
  yet published), `io` (`io_table`), `latched` (the fail-safe was applied for a
  lost gateway; Failsafe has what follows). `told` records the last event the
  handler was given about each node.
* Actions: `Heartbeat` (send, and the locked half of `cluster_manager_update_node`
  at each node reached), `Process` (the locked half of the ageing),
  `ReceiverPublish` and `AuxPublish` (the handler, one event), `Deliver` (an
  ownership update), `Tick`, `Crash`, `Boot`, `Heal`.
* `wraps` chooses whether the behaviour outlasts the 32-bit millisecond clock, in
  which case ages start again at 0.
* The registry is constant here (`Admitted`, `Gateways`); Adoption has its
  changes. A resynchronisation command is left out where the sender has no value
  for the output; in the model such a command is one that never arrives.
* A node's table never frees a place (`cluster_manager_remove_node` is called by
  the disabled self-test only), and two nodes that do not hear each other are both
  master: neither is promised otherwise by the code.

### 3.9 Adoption (with MCAdoption)

`cluster_transport_send_remote_claim` and the claim frames of
`cluster_transport.c`, `node_registry.c`, `endap_onboarding.c`, and the handlers of
`http_server.c` that call them.

* State: `entries` and `nvs` (the table and its blob), `http` (the request the one
  HTTP task is carrying out and where in it), `pending`, `sem`, `answer` (the
  transport's variables of a claim), `held` (an answer the receiver has checked and
  not yet used), `config` and `flash` of every field node. `submitted` records who
  answered a claim with success.
* A registry call is two steps: the change under the lock, and the write of the
  blob built under it, which may fail and then puts the old entry back. Heartbeats
  add entries between the two. A claim makes three calls and looks at no result.
* `setup` chooses what a behaviour contains: replacements, failing writes, a
  receiver that is held up for longer than a request takes. The passing run has
  replacements or failing writes, not both, and a prompt receiver; section 6.2 has
  what the others do.
* Left out: names and templates (a claim with another name is the alternative that
  writes again), run-time fields of an entry, the claim a node makes for itself
  on its own page, an erase that fails during a reset, `nodes_clone_handler`
  (it configures: `Operator("configure", ...)`).

### 3.10 Network (with MCNetwork)

`wifi_manager.c`, `ethernet_manager.c`, `network_ready.c`, the route of
`cluster_transport.c` and the polls of `core_boot.c`.

* State: the target mode, status and retry count of the Wi-Fi manager, the grace
  timer; the driver's radio, the cable and the queue of events; per task what it
  still has to do (`todo`); published links, the route, credentials and profile.
* Actions: what a handler does is a sequence of small operations; a task may be
  preempted between any two (`Step`), and a handler that makes one shared change
  is one step. `Handle` takes the next event; requests of the HTTP server, the
  timer and the polls begin their sequences; joining, losing and refusing are the
  environment.
* A join may end with an address, with a disconnection or never; a call to connect may
  fail, and its result is not looked at; an address may be lost with the association
  alive.
* `late` and `excuse` are history variables: a route was last set from a snapshot
  that was no longer true; two tasks reconfigured the radio at once, the driver
  refused the fallback, or a call to connect failed.
* Left out: the addresses themselves, captive DNS, the number of AP clients, failing UDP
  sockets, scan and auto-join (compiled out), `endap_network_v1`, which nothing calls.

### 3.11 NetPolicy

The network policy of `device_profile.c` with `device_profile_templates.c`, claim
and factory reset of `endap_onboarding.c`, and the requests of HTTP server and
cluster receiver that change them. Change in memory, copy into the blob and write
are separate steps of two tasks without a lock; power may be cut between any two.
`Normal` is the normalisation every load and change goes through, `Loaded` the
migration of the blobs of four versions.

### 3.12 IoBinding

`io_binding.c` with the edits of `http_server.c`: the tables, two blobs, the
conflict checks, and the start as a sequence of phases (load of each side, revert
of bad entries, resolution, migration, copy to the driver) with power cuts between
them and writes that may fail. A table is a function from channel to address. The
profile's pins, the reserved pins and the converter's pins are constants.

### 3.13 Auth, InstallationMap, Ladder, Snapshot, Pve

* **Auth**: accounts edited in memory, written whole and put back when the write
  fails; bootstrap, migration of the old blob, the one session that creating the
  first administrator opens, and the audit ring of event numbers. A start may fail to
  read the blob; it then seeds the node as new and saves that (`Starts`). `unread` is
  the history of it.
* **InstallationMap**: the table of names of `http_server.c`: `Upsert`, `Replace`,
  `Clone`, `ApplyTemplate`, a command by name (`Actuate`), load of two versions
  (a blob of the first version may hold more entries than there is room for, and
  the load takes those that fit).
* **Ladder**: one `Scan` is a run of the program (`Run`, a recursive function over
  the instructions): contacts, nested blocks on the
  stack, timers, counters and arithmetic. A deployment is four steps of the HTTP
  task with scans between them; the first empties memory under a scan (`Cut`), which
  ends at an instruction or inside one (`Torn`): a TON whose timer is cleared under it
  fires, and a timer or counter made after the clear stays for the next program.
  The self-test of the start loads its own program. Left out: slots a torn scan
  leaves taken count against the limit of timers; operands overwritten while they are
  read; a scan that outlasts the erase of the flash.
* **Snapshot**: state table, debounced inputs, the save of the auxiliary task value
  by value while others change, restore, startup policies and the ladder's
  self-test. A write may fail and is tried again; a commit may fail and nobody looks;
  a read at the start may fail. `missed` has the values that changed between
  export and clearing, `lost` a failed commit.
* **Pve**: an update stores the value, judges it, stores the alarm and logs it,
  each a step, in three tasks; edits store scale and limits apart. `raced` and
  `crossed` are history: two updates of one variable overlapped, two tasks stored
  in the history at once.

### 3.14 Services and MCServices

`Services` puts RingQueue and the modules of 3.11 to 3.13 side by side: each is an
instance with constants and variables of its own, told apart by a letter (`A` Auth,
`P` NetPolicy, `M` InstallationMap, `L` Ladder, `S` Snapshot, `B` IoBinding, `V`
Pve), their assumptions are stated there and their properties have aliases under
their own names. The proofs are about these instances. `MCServices` gives the
constants small values. Its initial state picks one service and only that one moves; a
service that stands still has one initial state. The states of the run are therefore
the sum and not the product of the eight.

## 4. Runs

All pass runs finish within one to three minutes on two cores. Deadlock is checked in all
runs but `watchdog` (the system restarts and the model ends), `control_loop`
(the abort, and the bound on time), `adoption`, `network` and `services` (the
bounds on requests and events).

| run | instance | states | what it shows |
|---|---|---|---|
| `output` | 2 outputs, one with manual recovery, queue of 1, 9 installations | 717 k | writes of the loop reach the pins (`LoopWritesConverge`), an output latched at boot or by a trip keeps its value until rearmed (`LatchKept`), pending bits are served (`PendingServed`) |
| `watchdog` | 2 entries, time-outs 2 and 3, tick modulo 13 | 495 k | a restart has a late task (`RestartJustified`), a hang is found (`HangDetected`) |
| `control_loop` | period 3, threshold 1, 17 ticks, stalls anywhere | 1.52 M | drift (`ExpectedTracks`), losses (`LostOnlyIfMissed`), abort (`FaultIsSustained`) |
| `failsafe` | 1 output, 3 policies, 2 old blobs, every reset cause | 111 k | `PersistedOrReported`, `OnlyRearmReleases` |
| `automation` | 2 inputs, 2 outputs, 2 rules, bus of 2, tick modulo 4, 9 installations | 2.3 M | `PulseEnds`, `RulesSurviveReset`, `InterlockHolds` |
| `rs485` | 2 addresses, the real time-outs in ms, ids modulo 4, 5 installations, up to 9 late ticks | 944 k | `RetriesBelongToRequest`, `OneTalker`, `AckAnswersRequest`, `SilentGoesOffline` |
| `cluster` | a gateway and a field node, a shared and a private output, ages modulo 5, one power cut | 152 k | `OwnIoKept`, `LossIsHandled`, `MasterAgreement`, `GatewayLossLatches` |
| `adoption` | 2 field nodes, 2 places, 3 requests, one failed write, one power cut or reset | 468 k | `OneEntryPerNode`, `RegistryDurable`, `ActiveProved`, `RequestsEnd` |
| `network` | 4 profiles, 1 retry, 1 waiting event, one upset | 413 k | published links are real (`LinksReal`), the route is not stale (`RouteFresh`), the node can be reached again (`EntryReturns`) |
| `services` | eight small instances | 300 k | ring: `ImplementsFifo`; Auth: `AdminRemains`; NetPolicy: `PolicyKept`, `ClaimedHasProfile`; InstallationMap: `NamesStay`; Ladder: `TonWaits`, `BlocksMean`; Snapshot: `CleanIsSaved`, `SavedInTheEnd`; IoBinding: `NoCrossPin`, `BootStable`; Pve: `AlarmShows` |

The two runs that end in a violation are in section 6.

Further properties are stated in the modules and hold in the same instances; a
configuration with one of them in place of its own list shows it: OutputPath
`OutTypeOK`, `CommandApplied`; Watchdog `ElapsedIsAge`; ControlLoop `TypeOK`,
`ExportShowsMiss`; Failsafe `TypeOK`, `ResetKeepsPolicies`; Automation
`OnDelayArmed`, `FollowsUnedited`, `InterlockAsked`; Rs485 `OneRequest`,
`IdsOutliveFrames`, `PromptComesOnline`; Cluster `FieldLossHarmless`; MCServices `TypeOK` (of the
ring), `SessionIsAdmin`, `AuditIsTail`, `RestartFlagged`, `HistoryIsTail`.

### 4.1 Bounds and why they suffice

* **OutputPath.** Races on the mask need two outputs (one bit lost by the update
  of the other) and one value that changes; a queue of one is already full and
  empty. The installations pair every writer that changes values with one that
  races it; the theorems of section 5 cover any number of outputs and any queue.
* **RingQueue.** Four slots see every relative position of head and tail, full
  and empty, and each wrap; the refinement is proved for every size.
* **Watchdog.** Two entries, so that one feeds while the other hangs. The modulus
  only has to exceed the largest true age (the assumption states it); 13 wraps
  many times. The check takes at most 2 ticks and a feed is held up by at most 1.
* **ControlLoop.** A period of three ticks lets a phase end on time, late, and
  after the next release; 17 ticks are five periods, more than the streak of
  `Threshold + 2` late cycles and two exports need, and a stall of several periods
  fits at each control point.
* **Failsafe.** Outputs do not influence each other, so one is enough; the
  policies differ in every field the properties look at.
* **Automation.** Two rules: one visited while the other moves. A duration of 2
  and a tick modulo 4 let timers expire across the wrap. A bus of two can be full.
  Six installations have one interlocked rule each, of every mode but ON_DELAY, and
  start with any levels; one has an ON_DELAY rule beside another; in one the HTTP
  task adds a rule of the input of a pulse; in one rules of one output are
  added, removed and saved, with failing saves. The theorems of section 5 cover every
  size where rules are not edited.
* **Rs485.** The time-outs are the code's (6, 2 and 4 ms, three attempts). Answers
  take 1 or 2 ms when prompt; slow ones 1, 4, 7, 11 or 18 ms, which reach the
  waiting time, the back-off, the next attempt, and the next request of the same
  node. Ids modulo 4 make each node see every id; the code's ids have 16 bits, so a
  frame that does not outlive a round of ids here (`IdsOutliveFrames`) is further
  from doing so there. At most two disturbances
  (`disturbances`); the liveness properties speak of the time after them. Late ticks:
  9 in an installation of prompt nodes, which outlast a poll, its answer and the
  time-out; 1 or 3 beside failing nodes, disturbances and two nodes at one address.
* **Cluster.** The hazards are between two tasks of one node and one silent peer,
  so two nodes are enough for them; the safety theorems hold for any number. The
  thresholds keep the code's ratios (3000 and 6000 ms to a period of 2500 ms), and
  ages modulo 5 wrap just after OFFLINE is reached. One power cut lets either node
  vanish and return. Three nodes exceed ten million states.
* **Adoption.** Two nodes are one to claim and one to confuse it with, or to
  replace; two places are both full and not. Three requests are claim, replace or
  revoke, and claim again; one power cut can fall between any two steps. One
  profile: the registry only tells a profile from none.
* **Network.** One retry tells the last from the others, a queue of one already
  delays an event behind a request, and one upset (a request, a refused call, a lost
  address, a restart) per behaviour meets every step of the event handlers. Wi-Fi
  with Ethernet behind it runs without upsets: its extra link multiplies the states.
* **NetPolicy.** Two requests or power cuts, one failed write, blobs of versions 0
  to 3; the offered policies change the primary, the mode and the fallback.
* **Auth.** Three places for three names, so that a place is reused; an audit of two
  events of five wraps twice.
* **InstallationMap.** Two nodes, three places: cloning two entries meets the limit,
  and a blob of the first version holds two entries, or four of which three fit.
* **Ladder.** Six programs with every instruction; nesting of two is what the stack
  of the instance holds, as deep as the compiler is asked to go here. Two
  deployments or starts.
* **Snapshot.** Two outputs with different policies and an input; three changes can
  fall before, during and after a save; one restart, one failed write, commit or read.
* **IoBinding.** Three channels per side: a default without a pin, a default on a
  pin of the bus or of the other side, an optional one. Every combination of old blobs.
* **Pve.** Readings at both ends of the scale, an inverted scale, one refused edit
  of each kind, a history of one. A larger instance (three readings, a history of
  two, three sets of limits, 7.4 million states) gave the same result.

### 4.2 Fairness

* OutputPath: weak fairness of the steps the control loop takes by itself. It is
  the highest-priority task of its core and a timer releases it every millisecond.
  Nothing is assumed of rules, of the network or of the other core.
* Watchdog: weak fairness of time, of the check (the auxiliary task runs every
  20 ms) and of a feed once begun (the lock is held for a few instructions).
  Nothing makes a task begin a feed: that is what hanging means.
* Rs485: weak fairness of time and of the loop's tick, as above. Disturbances have
  none, and a stall ends because an erase does: its milliseconds are bounded.
* Cluster: weak fairness of heartbeats, ageing, publishing and time: all are loops
  of tasks that never block for long. Neither a node's start nor a better network
  is assumed; `MasterAgreement` speaks of behaviours in which heartbeats arrive in
  the end.
* Adoption: weak fairness of the HTTP task's next step. The wait for an answer has a
  limit in the code; no frame is assumed to arrive.
* Network: weak fairness of every task's next operation, of the event loop and of the
  polls of the auxiliary task. Neither success nor a request is assumed, nor that a
  join ends: `EntryReturns` has that as its premise (`JoinsEnd`), because the code
  has no time-out for it.
* Services: only Snapshot has fairness, of time and of the auxiliary task's save.
  A write may fail as often as the bound allows and is tried again.
* ControlLoop, Failsafe and Automation, and the other services, check safety only.

## 5. Proofs

Every theorem holds for all values of the constants allowed by the named
assumptions in the modules. Eight modules hold the proofs; two of them prove about
two components that share no name, and there the specification of the second is
called `OutSpec` or `WdSpec`.

* **ControlLoop_proofs**, timing (`LoopAssumption`). `TypeCorrect`, `DriftBounded`,
  `LostNeedsMiss`, `FaultNeedsStreak`. The base is that both clocks agree
  (`now = alarms * Period + raw`) and that start and expected time lie in a window of
  the last release, three periods wide since a stall may delay the start past the
  next one; the losses and the streak are inductive relative to it. A release is lost
  only if a miss was counted or the loop was held up for a period where nothing is
  measured.
  `ExportsAgree` from `MissInv`: since the last export a miss was counted exactly if
  the maximum shows a late cycle, except after the abort, which exports no more.
* **ControlLoop_proofs**, output path (`OutputAssumption`). `OutputTypeCorrect`.
  `LoopOnlyConverges`: `LoopWritesConverge` alone is not inductive; the invariant adds
  that only the loop is between load and store (`LoopOnly`), that an output whose pin
  differs from its state is marked or about to be driven (`Marked`), and that the mask
  the loop has loaded is the one in memory (`LoopFresh`). `LatchHolds`: adds that no
  other value for an output with a `held` value is queued or in the hands of any task;
  the latch gives it that value only when this is so, the guard keeps it and only
  a rearm ends it.
* **Failsafe_proofs**, policies (`FailsafeAssumption`). `TypeCorrect`,
  `PersistedPolicies`, `RearmAlone`. `PoliciesOutliveReset`, an action property,
  needs besides `PersistedOrReported` that flash still loads as what the node had
  saved when it went down (`DownAsSaved`).
* **Failsafe_proofs**, watchdog (`WatchdogAssumption`). `NoFalseRestart` from `WdInv`:
  the wrapped difference of an entry is its true age or the age is beyond the counter,
  and that of a tick waiting for the lock is its true age (`AgesAgree`). So what
  looks expired is. No bound on the time between checks is needed for this half;
  `HangDetected` needs one and stays with TLC.
* **Automation_proofs** (`AutomationAssumption`: a table of at most half the range of the
  tick; a rule's duration is at most that by its type). `ResetKeepsRules` holds in every
  installation. A reset between requests is what `RulesSurviveReset` speaks of;
  the invariant says that flash loads as the table also while a rule is being added
  (`SavedInv`), and that at every step, the slots of a removal included, no two rules
  of the table conflict and each is valid (`Good`), because loading drops what
  does not fit and would otherwise not give back the table that is saved at the end. The other four are about installations in which the control loop alone
  works on the rules: section 6.2 shows what happens to each of them when rules are
  edited under it. There the HTTP task stays idle (`Solo`) and a visit is one step.
  `DelayIsArmed`: condition and timer of an ON_DELAY rule. `PulsesEnd` from `PulseInv`:
  an active pulse has its timer armed, and its deadline is ahead by at most its
  duration and at least 1, or 0 where the visit of the tick has yet to come (`Soonest`).
  `InterlocksHold` (`Guarded`: interlocks come from NVS, no output is commanded by
  hand, and the rules of a watched output share its interlock and are not
  ON_DELAY, or only switch off). `GuardInv` says where the remedy is while an output
  is on against its interlock and one of the channels has changed since the start
  (`Stirred`): an event that names one of them is in the queue, or is being handled
  and has not come to the rule. `OutputsFollow` from `FollowInv`: the newest event of
  an input that is queued carries its value, or none is queued and the rule has yet
  to be visited or its output already follows, or the input has not changed yet.
* **Rs485_proofs** (`Rs485Assumption`). `OneRequestAtATime` and `RetriesBounded`,
  from one invariant that joins both with the types of the master's variables: a
  time-out touches `retries[awaiting]`, which exists because a waiting master has
  an address. The frames on the wire play no part, so the result holds for any
  behaviour of the bus. It also shows that the branch of
  `rs485_master_process_one` for a bad `awaiting_node` is never taken.
  `OneTalkerOnly` (also `AnswerInTime`: the time-out is at least a poll, an answer and
  2 ms; the code has 6 ms and sends a poll or an answer in 2 ms): without slow nodes,
  disturbances and shared addresses, the line is in one of five situations
  (`CalmInv`): the poll is being sent, the line waits to be turned round, a node
  holds back its answer, it sends it, or all is silent. In each, the age of the
  request plus what is left to wait and to send is within the time-out, so the
  master repeats a request only into a silent line. Late ticks make a request older
  and never younger than that. What the theorem does not say is that the line is
  turned round in time: an answer that comes while a late tick holds it is lost
  (section 6.2).
  Two theorems share `AckAnswersRequest`. `IdsTellAnswers` holds in every
  installation from `AnswerInv`: an answer or a poll that is on the line, at a node or in the receive
  buffer and is not of the request in progress has another id. A new request keeps
  it only if its id is not in use any more, which is the hypothesis
  `IdsOutliveFrames`: an answer older than a whole round of ids would be accepted,
  and no constant of the code bounds how long a node may hold one back. The
  hypothesis holds in the instance of the run, slow nodes and disturbances included.
  `AnswersUntilWrap` does without it until the counter wraps for the first time
  (`GivenInv`: every id around is below the counter).
* **Cluster_proofs** (`ClusterAssumption`, `NoEntryAssumption`).
  `LossAlwaysHandled` from `LossInv`: the receiver still has to announce a node
  only while that node is ONLINE with age 0 (`ReceiverFresh`), and an event in the
  auxiliary task's buffer is what the table says unless the node came back meanwhile
  (`EventsCurrent`), so neither publisher can hide an OFFLINE.
  `OwnIoAlwaysKept`: with the types of tables and frames, takeover and failback
  change owners only and the update refuses what is local.
  `FieldLossNeverLatches` from `FieldInv`: no event in the auxiliary task's buffer is
  about the node itself, so a gateway does not latch for its own entry.
* **Adoption_proofs** (`AdoptionAssumption`). `NeverTwice` and `FlashIsTable` from
  one invariant `RegInv`: ids are unique in the table and in both blobs, and while
  a write is under way flash holds the table with the old entry put back
  (`Durable`). The lemmas say that an entry added by a heartbeat shows in no blob,
  that a move keeps ids unique, and that loading a blob gives back the table it
  was saved from. `ActiveByClaim` from `ClaimInv`: besides the table, flash, the blob
  being written and the entry to be put back hold only proved nodes; every positive
  answer on its way comes from a node that gave it (`AnswersTrue`), and while a claim
  waits, what the receiver holds or has delivered is from the node it waits for
  (`AnswersMeant`), which is where a receiver that was held up would break it.
* **Network_proofs** (`NetworkAssumption`), for any number of retries, events and
  upsets. Both properties speak of a moment at which everything is dealt with, so the
  invariants say what is still to come. `RouteIsFresh` from `RouteInv`: when no task
  holds a snapshot of the links and the last one told was current, the route is
  the best for the links. `LinksAreReal` from `LinkInv`: what the queued
  events will leave published is up (`PublishedUp`); the end of a transition is pending
  only after its mark (`ShutAfterMark`); a node whose radio is kept
  for ESP-NOW starts it before anything else can be marked (`Cold`). The theorem has a
  hypothesis, `NowPrimary`: such a profile has Wi-Fi as its primary. Without it
  `Cold` fails and so does the property (section 6.2).
* **Services_proofs**, one part per service (the assumptions are in `Services`).
  - Ring: `TypeCorrect` and `RingImplementsFifo`: the initial state maps to the empty
    queue and push and pop to the abstract ones; the lemmas say what the mapping does
    when head or tail moves across the end of the array.
  - Auth: `AuthAdminRemains` and `AuthSession` from `AuthInv`: once one was
    acknowledged, and until a start cannot read the accounts, flash and memory each
    hold an enabled administrator, and the
    account of the open session is the same in both. An edit refused for its password
    changes memory only, which is why both are needed. `AuditShowsTail` from `AudAt`,
    which gives the event at each place of the ring: before the index those of this
    round, behind it those of the round before, if there was one.
  - Snapshot: `SnapshotSaved` from `SnapInv`: what the save has copied so far is what the
    table holds, value by value, unless that value changed behind it or a commit
    failed, and a save under way is pending.
  - NetPolicy: `PolicyComesBack` from `PolicyInv`: while no task saves and no older copy
    was written last, the policy in memory is what flash loads as, normalised; the
    lemmas say that normalising is idempotent and that what loads is normal.
    `ClaimKeepsProfile` from `ClaimInv`: in what a task still has to do, a record
    comes after the profile, an erasure after the record is forgotten, and one
    request is under way at a time unless two crossed.
  - IoBinding: `BindingsApart` from `BindInv`: from the last validation of a start on
    the tables share no pin across sides, and the driver copies such tables. It assumes
    of a profile that its defaults share none (`BindingAssumption`).
    `RestartAnnounced` is inductive relative to it.
  - Pve: `PveAlarmShows` from `PveInv`: the alarm a task is about to store, and the
    one stored, is right for the value, unless two updates overlapped or an edit is
    about to judge the value anew. `PveHistoryShows` from `HistInv`: the ring shows the
    last changes, or will when the one task between store and advance has advanced.
  - InstallationMap: `NamesLeadOn` from `MapInv` (table and blob hold entries, no more
    than fit): what `Clone` appends never comes before an entry of the same name,
    `Replace` maps entry by entry, and a selection keeps the order of what it keeps.
  - Ladder: `TonsWait` from `LadInv`, which holds between scans, and `LadAt`, which
    holds after each instruction of one: the entry of a TON knows since when its
    rung is on, or is the one a cut scan left. The hypothesis `OwnTimers` says that
    only the TON and its resets write its entry; a store to the same entry would pass
    power at once, and nothing in the engine refuses such a program. `BlocksPassPower` carries `LadMid` (power and
    stack) through the twelve instructions of a block inside a branch of a block,
    for a stack of any depth from two. The scan is a recursive function; that
    it unfolds and keeps an invariant follows from the least instruction at which it would not.

`TypeCorrect` of ControlLoop, Failsafe and the ring, `OutputTypeCorrect`,
`OneRequestAtATime`, `AuthSession`, `DelayIsArmed`, `OutputsFollow`, `ExportsAgree`,
`PoliciesOutliveReset`, `FieldLossNeverLatches`, `AuditShowsTail`, `RestartAnnounced`
and `PveHistoryShows` are about properties that hold in the runs' instances and are
not in their lists (section 4).

Only model-checked:

* all liveness, since the prover has no fairness: `PendingServed`, `HangDetected`,
  `SilentGoesOffline`, `MasterAgreement`, `GatewayLossLatches`, `RequestsEnd`,
  `EntryReturns`, `SavedInTheEnd`;
* `IdsOutliveFrames`: whether a frame outlives a round of the ids depends on the
  delays of an installation, so it is checked for the configured ones;
* `BootStable`: it compares two whole starts, each a chain of nine steps, and what a
  start yields depends on the pins a profile's defaults share with the bus and with
  each other, so it is checked for the configured one;
* the further properties of section 4 that this section does not name.

## 6. Where code and documents disagree

### 6.1 Shown by a run

| run | what the code does |
|---|---|
| `output_lost_write` (`OutputsConverge`) | `io_driver_update` reads the state, sets the pin, then clears the bit; a write of another task between read and clear never reaches the pin (io_driver.c:641) |
| `startup_selftest` (`StartupKept`) | the ladder's self-test runs after the startup policies and writes the first input and the first output: an output that is to be restored or on starts off (core_boot.c:627) |

### 6.2 Further ones

Each is shown by the configuration named, with the property in place of those it
lists and, where given, the constant changed. They are not in the list of runs.

| configuration, change | property | what the code does |
|---|---|---|
| OutputPath | `LatchedHoldsSafeValue` | the self-test of the ladder sets the first output to 0 after it was latched with its start-up value (core_boot.c:627, ladder_engine.c:525) |
| OutputPath, `Setups <- MCOverride`, `Manual` and `Hold` `{2}` | `LatchedHoldsSafeValue` | the fail-safe guard is asked when a manual command is queued, not when it is applied; a latch in between is overridden (http_server.c:5775) |
| Failsafe | `AckSurvives` | a policy whose save failed is acknowledged when the request is repeated, and is gone after the next reset (failsafe.c:624) |
| Failsafe | `LatchedIsSafe` | a latch survives a change of the recovery mode to automatic and back, and then holds a commanded value (failsafe.c:629; docs/stable_release_software_memory.md:31) |
| Failsafe | `LoopFailureIsFault` | a restart by the software watchdog is booted as an ordinary start, not as a fault (failsafe.c:187; endap_tcc_current_state.md:39) |
| Automation, `Sites <- MCDelay` | `InterlockAsked` | an ON_DELAY rule fires although its interlock was lost during the delay (automation_engine.c:1370) |
| Automation, `Sites <- MCAdd` | `InterlockHolds` | a rule is stored and evaluated before its interlock is (http_server.c:9118) |
| Automation, `Sites <- MCByHand` | `InterlockHolds` | a manual command is not subject to interlocks (http_server.c:5775; ENDAP_FINAL_DEMO_SCRIPT.txt:74) |
| Automation, `Sites <- MCRemove` | `InterlockHolds` | a removal shifts the table under the visiting loop, which skips a rule (automation_engine.c:1306) |
| Automation | `InterlockHoldsAlways` | an output that a start switches on against its interlock stays on until a channel changes: start-up values and levels have no event (failsafe.c:701, io_driver.c:350) |
| Automation, `Sites <- MCCut` | `PulseEndsAlways` | a removal copies a runtime while the loop starts a pulse in it, between `pulse_active` and `timer_active`: the pulse has no timer and never ends (automation_engine.c:1306, 1055) |
| Automation, `Sites <- MCArmed` | `OnDelayArmed` | with the handler in two tasks, one finds the condition lost and the other arms the timer: the delay runs without its condition (automation_engine.c:1023, 1065) |
| Automation, `Sites <- MCStale` | `FollowsInput` | the HTTP task applies an input value older than the one the loop has handled (automation_engine.c:1212; endap_demo_flow_audit.md:34) |
| Automation, `Sites <- MCTwice` | `OthersKeepInterlock` | the interlock of a duplicate request replaces that of the last rule (http_server.c:9118) |
| ControlLoop, `Deadline <- MCDeadline` | `PhaseAttributed` | the loop's phase table and the monitor's are ordered differently: the second to fourth phases are compared with each other's deadlines and counted under each other's names (control_loop.c:92; docs/kernel.md:27) |
| ControlLoop, `Deadline <- MCDeadline` | `OverrunNoticed` | a phase that crosses the reload of the loop timer is measured as shorter than it was (control_loop.c:231; docs/kernel.md:26) |
| ControlLoop | `LostIsCounted` | the first take clears all pending releases, so those of a late cycle are never counted as overruns (control_loop.c:152; docs/kernel.md:25) |
| ControlLoop | `LossIsMissed` | a stall after the read of `end`, or before the read of `start`, loses releases and no deadline miss is counted (control_loop.c:152, 275) |
| Rs485 | `AnswerFindsLineFree` | the line is turned round by a tick of the loop; a tick that is late finds the answer of a prompt node on a line the gateway still drives, and the answer is lost (rs485.c:141; realtime_constraints.md:9) |
| Rs485, `Sites <- MCLate` | `LateAnswerKeepsOnline` | a node each of whose answers arrives during a back-off goes offline although it answered every poll (rs485_master.c:144) |
| Cluster | `ReturnResynced` | an id learned from another node is entered as this node's own (cluster_io.c:80), so every update about it is refused as a conflict; no output of another node is ever taken over, given back or, when the node returns, commanded again (PLANS.md:914) |
| Cluster | `ReturnIsHandled` | the receiver's ONLINE may be handled before an older SUSPECT or OFFLINE of the auxiliary task: a node that is back was last handled as lost (cluster_manager.c:185) |
| Adoption, `Setups <- MCReplaceSetups` | `ActiveOnlyByClaim` | a replacement makes the new node ACTIVE although it never answered a claim (node_registry.c:914; docs/adr/005-remote-claim.md:13) |
| Adoption, `Setups <- MCPreemptSetups` | `ActiveOnlyByClaim` | an answer that is checked before its claim times out and used after the next claim began activates the wrong node (cluster_transport.c:454) |
| Adoption, `Setups <- MCFailSetups` | `ClaimAckDurable` | a claim whose write failed is answered ok when repeated, without being written (endap_onboarding.c:162; docs/adr/003-onboarding-persistence.md:7) |
| Adoption, `Setups <- MCReplaceFailSetups` | `FailedReplaceUndone` | a replacement whose write fails is undone by an id the table no longer holds, so it stays in RAM (node_registry.c:935) |
| Network | `FailsOver` | with every link down the choice is ESP-NOW before RS-485, whatever the profile's fallback (cluster_transport.c:639) |
| Network | `RouteAlways` | an older set of links may be told after a newer one, and the route follows the older (network_ready.c:163) |
| Network | `StatusTrue` | an address event handled after the fallback to the access point leaves "connected" behind (wifi_manager.c) |
| Network | `EntryAlways` | two tasks that reconfigure the radio at once may leave it without station and access point for good (wifi_manager.c:639) |
| Network | `EntryWhenUnseen` | the result of `esp_wifi_connect` is not looked at: no event follows, no retry and no access point (wifi_manager.c:882, 915) |
| Network | `EntryWhenJoining` | an association without an answer of the DHCP server, or whose address is lost, lasts for ever: no time-out, no access point (wifi_manager.c:885, 972) |
| Network, a profile with the radio kept for ESP-NOW, primary ETHERNET, fallback WIFI, 2 upsets | `LinksReal` | credentials saved before `wifi_manager_init` leave a target that is not "none"; the start of the radio then publishes the station, which is not up (wifi_manager.c) |
| Services | `AdminAlways` | a start that cannot read the accounts seeds the node open and writes that over them (auth.c:602, 727) |
| Services | `PolicyKeptAlways` | of two tasks that change the policy, the older copy may be written last (device_profile.c:828) |
| Services | `FallbackUsable` | with a primary that is not an IP transport, Wi-Fi or Ethernet is kept as the fallback and disabled (device_profile.c:495) |
| Services | `OnboardingForced` | a start without a profile takes the onboarding flag from the blob |
| Services | `ResourceUnique` | two entries may have one name (docs/architecture/resource_registry.md:21) |
| Services | `OutputsUsable` | the entries of a template have channels 0 and 1, which no command by name accepts |
| Services | `DeployAtomic` | power cut between erase and write of a program loses the old and the new one |
| Services | `TofEnds` | `last_acc` keeps the output and not the rung, so every scan with the rung off restarts the timer and the output never goes off (ladder_engine.c:447) |
| Services | `TonWaitsAlways` | memory is emptied under a scan: a TON whose timer is cleared under it fires at once, and one that runs after the clear leaves a timer running for the next program (ladder_engine.c:148, 394) |
| Services, `lMaxOps = 3` | `ProgramKept` | the self-test's program replaces the deployed one at a start |
| Services | `CleanIsSavedAlways` | a value that changes after the save has read it is not saved, and nothing is pending (snapshot.c:221); the same after a commit that failed, whose result is not looked at (snapshot.c:75) |
| Services | `InputsSeen` | an input that is on at the start is shown as off until it changes |
| Services | `OutputsApart` | the revert of a bad entry may put two outputs on one pin; the next start refuses the blob and drops both |
| Services | `ConfigKept` | the self-test of the process variables resets their configuration at every start and saves it (core_boot.c:626) |
| Services, `vCap = 2` | `HistoryAlways` | two tasks store in the history at once and one change is lost (pve.c:207) |
| Services, a hysteresis of 0 in `MCAlarms` | `Steady` | the alarm of a value at its limit changes with every sample |

Seen while reading, without a model: `endap_rs485_failsafe_audit.md` (item 5) says
an RS-485 OFFLINE event triggers the fail-safe with COMM_LOSS; the TIMEOUT event
only updates bus statistics (`fieldbus_handle_event`) and nothing reads the node
tables. Item 3 says a field node that no longer hears its controller marks it
OFFLINE after 100 ms; the engine's table is only fed by answers and cluster
frames, never by polls. `core_boot.c:521` describes an auto-direction module
without DE/RE while the configuration below it drives both pins. ADR-003 says a
factory reset erases the namespace of the node registry too; `endap_factory_reset_full`
leaves it in place. `onboarding_claim_handler` answers ok whatever adopt, configure and activate
returned. A claim has no request id, so the late answer of an earlier claim of the
same node ends a newer one.

Also seen, part by part; the models contain them unless it says otherwise.

* Bindings: inputs are overwritten by the defaults at each start; renaming an analog
  input makes it digital; a digital input may share a pin with the converter; the
  default inputs lie on pins the bus uses; moving a default output makes the next
  start reset everything; entries without a pin make every start write both blobs.
* Network: the access point's link is published as down in the middle of a
  transition; a connect call on a connected station is ignored and leaves
  "connecting".
* Policy: the remote change is answered through a shared response, without a check
  of the target; all transports off is accepted; ESP-NOW as primary disables Wi-Fi;
  a failed write leaves memory changed; templates of field nodes set the onboarding
  flag.
* Accounts: an update refused for its password leaves role and enabled flag changed
  in memory; once the only session has ended no account can be changed.
* Installation map: replace and template answer ok whatever the write returned; a
  clone at the limit copies a part and answers ok.
* Ladder: a reset of a counter whose rung is on counts again; the done output of a
  CTD lasts one scan; blocks deeper than the stack are evaluated wrongly.
* Snapshot: the first output switches at each start.
* Control loop: after a stall the expected start may be up to three periods ahead.
* Field bus: two nodes with one address answer at once and garble each other.
* Process variables: an edit refused for its limits leaves the new scale in memory;
  a hysteresis wider than the band keeps LOW above the high limit; the end of an alarm is
  not logged; two events of the self-test are in the history after each start; a failed
  save is only logged. Not modelled: overflow of `raw - input_min`, failing writes of
  the self-test, telemetry overlapping it.

## 7. Not modelled

Planned parts are in section 2. Left out for good: pages, JSON and static files of
the HTTP server and the reading of requests, captive DNS, mDNS, the protocols of the
sensors, LED and GPIO access (pure I/O); metrics and traces (counters nothing
decides on); `io_image.c` (written and swapped, read by nothing); the control
kernel (a supervisor around placeholder ticks); input learning (a wizard that
suggests and changes nothing); the stubs and catalogue of v3; the self-test and
bench programs, except the two that run at each start; `cluster_io_map.c` (a duplicate of
`cluster_io.c` that nothing calls); checksum and hexadecimal coding of frames
(they only decide whether a frame is accepted).
