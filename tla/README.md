# CAUSEWAY in TLA+

CAUSEWAY is a userspace egress gateway: a daemon that listens on loopback
endpoints (one per *traffic class*), pipes each accepted connection into a local
adapter process (`sslocal` or `sing-box`) that talks to a remote *node*, and
keeps choosing a good node per class. Nodes come from *subscription profiles*
(manifests fetched from a remote source or read from local files). The daemon is
steered over a Unix control socket by a terminal dashboard.

This directory holds a TLA+ model of the parts where the daemon's promises
depend on ordering, interleaving, crashes and failures; the TLC instances that
check them; and TLAPS proofs. Paths below are relative to `src/src/` of the
repository.

## 1. Inventory

| Component | State | Operations | Hard part | What makes it correct |
|---|---|---|---|---|
| State file (`state.rs`) | active profile, flat node statistics, parked statistics, cache slots, source identities, pending markers, class entries | load, save, reconcile at startup, apply a new catalog, activate a profile | long sequences of edits, restarts and switches | every entry belongs to the source the catalog names; one copy of the active statistics |
| Subscription transaction (`supervisor.rs` 1055-1571, `subscription.rs`) | transaction mutex, prepared manifest, staged planes | prepare, gate, stage, cache commit, state commit, publish | crash or failure between any two steps; saves by others | atomic and durable: disk first, then live; a failed attempt leaves no trace |
| Startup, reload, exit (`supervisor.rs` run, reload) | process phase | offline start, quarantine, reload, graceful exit | a crash may precede any of them | a start serves only what the present source produced |
| Data-path life cycle (`supervisor.rs` try_activate ... stop_draining, `dataplane.rs`) | adapter processes, class runtimes, drain tasks | start, check, install, retire, drain, stop | connections and drains race; shutdown | one owner per process; a lease keeps its path; nothing survives the exit |
| Listener (`listener.rs`) | route table, leases, traffic counters | accept, capture route, pipe, drain | route flips while a connection captures it | bytes are counted for the profile they were routed under |
| Background loops and requests (`supervisor.rs` health_loop, probe_loop, egress observer, switch_to, switch_for_site) | transaction mutex, reconfiguration gate, class mutexes, failure streaks | tick, sample, book, recover, challenge, rebuild, switch | three lock levels, state read before a wait and used after it | no deadlock, no starvation, no stale install |
| Scoring (`score.rs`) | EMAs per node | record, compare, hysteresis | epsilon ties that are not transitive, a margin that depends on the incumbent | the best node is first up to ties; recent probes decide; small leads do not |
| Egress observer (`egress.rs`) | baseline, candidate, last transition | observe | flapping signatures, cooldown | only stable changes are delivered, none is missed for good |
| Control socket, daemon lock (`control.rs`, `daemon_lock.rs`) | socket file, lock file | lock, stale removal, bind, serve, drain, unlink | two daemons starting, one of them killed, a listener that dies slowly | at most one daemon serves; no live socket is removed |
| Status snapshot and event log (`supervisor.rs` class_snapshot, `events.rs`) | none of its own; ring buffer | read | reads while a transaction publishes | a snapshot is of one generation |
| Adapter processes (`dataplane.rs`) | reserved ports, private directories and credential files, children | reserve, write, spawn, check ownership, stop, sweep | the port is free between release and bind; a kill between any two steps; reused process numbers | ready means the child owns its ports; credentials of dead daemons are swept, those of live ones kept |
| Fetch and manifests (`subscription.rs`) | the curl process, its pipe | check URL, spawn, read, wait, parse, merge | failure after part of the body, a blocked process, dirty entries | only whole bodies; every process reaped; the first usable entry of a name |
| Health checks (`health.rs`) | sample, clock | dial, status line, write-through probe, timeout | optimistic answers, silence, shutdown within a tick | healthy means the destination answered each sample; ticks are bounded |
| Recovery backoff (`supervisor.rs` 85-128) | failures in a row, retry_not_before | record failure, reset | whoever installs a path | retries are spaced, and never stop |
| Dashboard (`switch.rs`) | requests in flight, last snapshot | poll, send mutation, reconcile | lost replies | no second mutation while the first is unknown |
| Configuration (`config.rs`) | - | validate path roles, profiles and the health policy; source identity | links, `..`, derived names | no writer meets another role; an identity names a file |
| Probes (`probe.rs`, `siteprobe.rs`, `peek.rs`), CLI (`main.rs`) | - | measure, classify, parse arguments | I/O | - |

Components meet at few places: the transaction mutex `ctx.subscription_txn`, the
read/write gate `ctx.reconfiguration` (every pool user reads, a transaction and
an egress rebuild write), one async mutex per class, the plain mutex of
`ctx.state`, the `RwLock` of `ctx.subscriptions` and of each route. Adapter
handles travel from `try_activate` to a class, then to a drain task. Files are
the state file, two cache slots per profile and the pre-slot legacy cache.

The full list of what is hard to test, line by line, is `hazards` in
`PROJECT.json`.

## 2. Modules

| Module | Models |
|---|---|
| `SubscriptionState` | the profile part of `StateFile` and its pure operations; wire form and load |
| `SubscriptionTxn` | disk, slots, memory and runtime; the transaction, start, exit, crash, edits, reload, probes that share the state |
| `AtomicSelection` | abstract specification: one selection, committed in one step, live in another |
| `PathLifecycle` | adapter processes, routes, leases, drains, staging and the ordered shutdown |
| `SupervisorTasks` | lock protocol and the tasks that move a class between nodes |
| `Dashboard` | the dashboard's request lanes and lost replies, with the daemon's status snapshot |
| `AdapterProcess` | one daemon's adapter: ports, private files, child, readiness, stop |
| `DaemonInstance` | lock file, control socket and instance directories of several daemons, with `AdapterProcess` |
| `EgressObserver`, `AutoRecovery`, `HealthCheck` | debounce of routing changes; recovery backoff; the sampled check (discrete clocks) |
| `ManifestFetch` | the fetcher process; the node pool of a manifest |
| `FileSave` | `save_atomic` step by step, two writers, crash and power loss |
| `Scoring`, `ConfigRoles` | scores and their order; roles of configured paths, health policy |
| `Decisions` | composes the seven modules from `EgressObserver` to `ConfigRoles`; a behaviour is about one of them |
| `MC...` | model values and small instances |
| `SubscriptionTxnProofs`, `SubscriptionTrustProofs` | theorems about `SubscriptionTxn`: types and slots; trust, statistics, restarts, the refinement |
| `PathLifecycleProofs`, `SupervisorTasksProofs`, `DaemonInstanceProofs`, `DashboardProofs`, `DecisionsProofs` | theorems about the module of that name |
| `ComputedProofs` | theorems about what `Decisions` computes: delays, pools, scores, paths |

### SubscriptionState and SubscriptionTxn

*State.* `disk` is the state file (wire form), `slotFile`/`bareFile` the cache
files, `mem` is `ctx.state`, `runtime` is `ctx.subscriptions`, `txn` and `probe`
the local variables of the transaction and of one on-demand probe request,
`config` the configuration file, `phase` the life of the process.

*Data.* A source identity is a model value; a manifest is the pair of the source
that delivered it and a version; a profile's statistics are the set of sources
whose nodes they hold samples of. That is enough to ask whose data is where.

*Actions.* `BeginSwitch`/`BeginReload` take the transaction mutex and read slot
and trust; `PrepareFresh` or `PrepareCached`; `AcquireGate`; `StageClasses`;
`CommitCache`; `CommitState`; `Publish`; `FinishTxn` (the diagnostic save).
`AbortBeforeCommit`, `CommitCacheFails` and `CommitStateFails` are the error
returns. `Start` is `run` up to the point where a snapshot is chosen or the start
is refused; `FinishBoot` ends initial activation. `Crash` is possible everywhere.
`ProbeCycle` and `HealthRecord` run under the read gate and are one step;
`ProbeNow...` is cut at the points where `probe_now` really holds nothing.
A save is one step: it succeeds (also when only the directory sync fails), or,
with the fault `"save"`, changes nothing.

*Left out.* Site verdicts, the version-1 migration, node counters, timestamps;
class entries of the state (ports are in `PathLifecycle`).

### PathLifecycle

*State.* `plane` (each adapter process: down or serving a class and a node of a
profile), `active` and `route` of each class, the recorded `ports`, one switching
operation per class (`work`), the transaction (`txn`), the `draining` tasks, each
connection (`conn`) with its lease, the live `profile`, the `traffic` counters and
the shutdown sequence (`stop`). A path is a number; `Free` picks one that is not in use.

*Actions* follow `try_candidates`, `try_activate`, `install_active` (cut at its
awaits: `InstallActive`, `FlipRoute`, `RecordPorts`, `RetireOld`),
`switch_subscription_locked` (`LockAll`, `StageClass`, `Publish`, `RetireAll`,
`AbortTxn`), `schedule_drain_with` (`GraceEnds`, `HardCap`, `DrainStop`),
`handle_conn` (`Accept`, `Capture`, `Finish`, `Drop`), and the exit of `run`
(`Signal`, `JoinWorkers`, `JoinListeners`, `StopActive`, `StopDraining`, `Exit`).

### SupervisorTasks

*State.* The three lock levels (`txnLock`, `gate` with tokio's first-come-first-
served queue, `classLock`), the live `pool`, the `active` node and failure streak
of each class, and for each task its program point and what it remembers.

*Tasks.* One health loop per class, the probe loop, the egress observer (which
only tries locks), and `Requests` control requests: manual switch, switch for a
site, subscription change. What a probe or pre-check answers is an arbitrary
choice, as is which candidate passes; region filters and candidate limits only
remove choices.

*Left out.* The recovery backoff timer (`RecoverRefused` is always possible; the
timer is in `AutoRecovery`) and shutdown (in `PathLifecycle`).

### Dashboard

*State.* `app` (class, epoch, last live snapshot, the lock
`subscription_outcome_unknown`, the probe round), the two lanes `status` and
`mutation`, the daemon's runtime, state and state file (`daemon`), and the
subscription changes in progress (`requests`; the counter
`subscription_txns_in_progress` is their number). The fields `life`, `prior`,
`fresh` and `floor` are not in the code: they tell lives of the daemon apart and
remember what was current, for the properties only.

*Actions.* A change is submitted, dispatched, waits for the mutex, is rejected or
committed, published in two steps (the state stays locked until the runtime is
replaced) and answered; `class_snapshot` is cut at each of its reads and starts
again when the generation moved. Any request may fail, a reply may be lost, the
daemon may die and resume the saved selection with generation zero.

*Assumed.* A request that times out was dispatched before (the client waits 300
seconds, the daemon reads the socket at once); a request that fails to connect is
not delivered.

*Left out.* The offline view read from the state file: it carries no generation
and authorises nothing, so it is the absence of a snapshot here.

### DaemonInstance and AdapterProcess

*State.* For each daemon its program point in `run`, the `flock` on
`run/daemon.lock`, the socket's path with the inode behind it, open and dying
listeners, its instance directory with marker and credential files, its
`ProcessIdentity` (boot, process number, start time), and its adapter: reserved
or bound ports, private files, child.

*Actions.* `Start` to `WriteMarker` follow the start (lock; inspect, connect,
recheck and remove of a socket that is there; bind; sweep of other instance
directories; own directory and marker), `Accept`/`Dispatch` a control
connection, `Shutdown` to `Unlock` the exit in the order values are dropped.
`Crash` and `Reboot` may strike anywhere; process numbers, start times of
another boot and inodes are used again as early as possible. A closed listener
may answer `DyingConnects` more connects. A daemon that predates the lock only
ends. Between `Spawn`, which releases the ports, and `ChildBinds` any process
may take a port.

*Left out.* The contents of configuration files; signals to the child one by one
(`FinishStop` is `stop_owned_child` as a whole); a failing removal at a clean exit
(section 5).

### The parts of Decisions

`EgressObserver` keeps instants as ages, capped at what the code compares them
with; a `table` is the set of default routes and `Signature` what `egress.rs`
makes of it. `AutoRecovery` is one class: streak, backoff as time still to wait,
and installs by anybody else. `HealthCheck` is one health loop: `check` is its
place in the exchange with a clock of its own; a timer that is due fires before
more time passes; `remote`, whether the destination answers, changes at any time,
and the adapter's answer to CONNECT does not depend on it. `ManifestFetch` has
the fetching task and curl with a pipe between them; a manifest's entries are
reduced to kind, name, completeness and plugin. `FileSave` has inodes with the
contents they have now and those the disk may hold, and the directory likewise;
its two writers are `save_state`, serialised by the state mutex, and the
transaction, which does not take it. `Scoring` is exact: rates in units of
1/`Scale`, averages rounded down. `ConfigRoles` has paths as sequences of
components over a small file system with links.

## 3. Runs

| Run | Instance | Shows |
|---|---|---|
| `TxnCatalog` | 2 profiles, 3 configurations edited at will, crashes, 2 publications per life | trust, slots, statistics and quarantine follow the catalog; a restart resumes exactly the committed selection |
| `TxnFaults` | source moves forward; failing saves, boots that save nothing, on-demand probes | what a restart with the present configuration reads is a manifest of its source |
| `TxnAtomic` | fixed configuration, p2 remote or local, 2 manifest versions, save and boot faults | refinement of `AtomicSelection`: what goes live is durable before |
| `PathLease` | 2 classes, 2 connections, 3 processes | leases, single ownership, partial staging, route and state agreement, traffic isolation, clean exit |
| `PathLive` | 1 class, 1 connection that may never end | retired paths stop; a signalled daemon exits |
| `TasksLocks` | 2 classes (one pinned), all loops, 1 request | no circular wait; pinned classes stay; an egress rebuild keeps the node |
| `TasksRequests` | 1 class, 2 requests of any kind, 2 pools, fair | no node of a replaced pool is installed; every operation ends, so nobody waits in a circle |
| `Dash` | 2 profiles, 2 classes, 2 changes, 2 faults (lost reply, other client, restart) | changes do not overlap, snapshots are coherent and current, lost outcomes are settled |
| `Instance` | 2 daemons and one without a lock, 2 process numbers, 2 boots, killed anywhere | one daemon serves; no live socket is removed and no start refused without cause; credentials are marked, swept and never taken from a live daemon; a clean exit leaves nothing; ready adapters own their ports |
| `Decisions` | the five state machines of section 2 in full; about 29,000 inputs of the pure parts | debounce, spacing of retries, sound and bounded health ticks, whole manifests, crash-safe saves, ranking, pools, path roles, tick budget |
| `TxnRaceSave` | violation | an ungated save undoes the commit before publication |
| `TornSave` | violation | two saves that overlap leave a torn state file |

Several properties of the runs are conjunctions of parts that are stated and
commented one by one in the modules:

| Property | Parts |
|---|---|
| `EntriesBound` | `CatalogBound`, `OneActiveCopy` |
| `SlotsServeTheirSource` | `LiveProfileTrusted`, `LiveSlotsTrusted`, `RestartableSlotsTrusted` |
| `RoutesSound` | `RouteServes`, `StateMatchesRoute` |
| `LockSound`, `SnapshotSound`, `ShownIsCurrent` | `OneOutstandingChange`, `LockExplained`; `SnapshotOfOneGeneration`, `QuietMeansFinished`; `NoOlderWorld`, `RoundMeasuredHere` |
| `SocketJudged` | `LiveSocketKept`, `RefusedOnlyByLive` |
| `NothingOrphaned` | `MarkerGuardsCredentials`, `CredentialsSwept`, `CredentialsOwned`, `CleanExit` |
| `FollowsStableRoutes` | `DeliveredWasStable`, `SilentOnlyInCooldown`, `BackupIgnored`, `StableIsKnown` |
| `BackoffSound` | `RetriesSpaced`, `CleanSlate` |
| `TickEndsInTime` | `TickWithinBudget`, `StopsWithinSample`, `TicksEnd` |
| `FetchEndsReaped` | `FetchEnds`, `FetcherReaped` |
| `RestartFindsReported` | `WholeUnlessOverlap`, `DurableSurvives`, `FailedCommitsNothing` |
| `RankingSound` | `RecentDecides`, `LeadMustBeClear`, `HeadNearBest` |
| `ConfigSound` | `WritesApart`, `DefaultServes`, `IdentityNamesFile`, `TickFits` |

Every module has a type invariant; the runs list the one of `SubscriptionTxn`. It
is proved, as are those of `PathLifecycle`, `SupervisorTasks`, `DaemonInstance` and
`Dashboard`; the others document the state.

The inductive invariants of the proofs have configurations of their own, so that
a change of the model is tried on an instance before the proofs are run again:
`TxnInv` (invariants of `SubscriptionTxn` over all edits), `TxnFixed` (`FixedInv`,
fixed configuration with failing saves; `ForwardInv` belongs to the constants of
`TxnFaults`, and passes when listed there), `PathInv`, `TasksInv`, `DashInv`,
`InstanceInv` and `DecisionsInv` (five invariants, one of each state machine), each with the MC module of its system. All pass,
with 0.1 to 2.5 million states.

*Bounds.* `MaxPublications` bounds publications per process life, not crashes,
restarts, edits or failed transactions, which are unbounded; two suffice for a
slot to be written, confirmed and written over. Two profiles and three sources
give switch, return and removal. Three processes cover old, new and draining of
one class, and two staged classes of which one replaces an incumbent; `PathLease`
permutes classes, profiles and connections, which nothing orders. `Candidates` bounds the
candidates of one operation, `MaxLate` the operations dispatched before the
shutdown signal that begin after it. `MaxEpoch = 3` lets the operator make two
changes or change class between them, `MaxFaults = 2` a lost reply and one more
disturbance. `Threshold = 1` makes recovery frequent and
`Threshold` also caps the modelled streak (the code saturates at `u32::MAX`).
In `Instance` `Confirmations` is 3 for the code's 5 and a dying listener answers
twice, one short of it; `MaxGrabs = 2` foreign processes take a port each: one
loses the race to bind, the other takes the port of a child that has just exited
(two, since a handle has two ports); two daemons, since every promise is between one that
starts and one that is there or gone. In `Decisions` times are scaled: what
matters is their order (an observation within and after `StableFor`, within and
after the cooldown; a backoff that doubles and meets its cap off a power of two;
a timeout longer than a unit and a pause); three samples have a first, a middle
and a last; a pipe of one chunk blocks at once, and bodies reach two chunks past
the limit; three saves are two that overlap and one that repairs, with documents
of two lengths so that one can leave the other's tail. Histories have up to four
probes, pools three nodes, manifests three entries in up to two files; the
configurations combine links, `..`, missing directories and derived names for
every role. Deadlock is checked except in `Instance` and `Decisions`, where
daemons end and pure inputs have no step.

*Fairness.* `PathLive`: every step of the daemon's own tasks is weakly fair (they
are tokio tasks whose waits all have timeouts: `try_activate`, drain grace and
hard cap, listener drain window); the end of a client's connection is *not* fair.
`TasksRequests`: the gate queue is modelled, the class and transaction mutexes are
not, so tokio's first-come-first-served service of those is strong fairness of
each waiting task.
`Decisions`: the health loop, the fetching task and clocks are weakly fair; curl is,
since `--max-time` ends it, except while it is blocked on its pipe; the
destination of a check is not. Safety runs assume no fairness.

## 4. Proofs

The theorems hold for every value of the constants that satisfies the assumptions
beside their declarations (bounds are naturals, `None` is not one of the values,
`DyingConnects < Confirmations`, pools are sets of nodes and so on); further
hypotheses are part of the statement. Each proof has one case per action and
under it one per conjunct the action can disturb; the conjuncts are named in the
model's module, where TLC checks them.

| Module | Theorem | States |
|---|---|---|
| `SubscriptionTxnProofs` | `TypeCorrect` | `TypeOK` |
| | `SlotsTrusted` (1, first half of 3) | `LiveSlotsTrusted`, `DurableSlotsTrusted` |
| `SubscriptionTrustProofs` | `EntriesAlwaysBound` | `EntriesBound` |
| | `QuarantineHolds` | `QuarantineLiftedByFreshTxn`, an action property |
| | `OnlyTrustedIsLive` (1, 2, 3) | `LiveProfileTrusted` |
| | `HistoriesNeverMix` (1, 2, 3, 4) | `StatsIsolated` |
| | `RestartResumes` (1, 2, 3, 4) | `RestartResumesCommitted` |
| | `DurableFirst` (4) | `DurableBeforeLive`, an action property |
| | `SelectionIsAtomic` (4, 5) | `ImplementsAtomicSelection`, the refinement |
| | `SlotsServe` (4 and 5, or 1, 2 and 3) | `SlotsServeTheirSource` |
| `PathLifecycleProofs` | `PathTypeCorrect` | `TypeOK` |
| | `ProcessesOwned`, `RoutesAlwaysSound`, `CountersIsolated`, `NothingLeftAtExit` | `HandleOwnedOnce`, `RoutesSound`, `TrafficIsolated`, `ExitLeavesNothing` |
| | `LeasesKept` | `LeaseKeepsPath`, an action property |
| `SupervisorTasksProofs` | `TasksTypeCorrect` | `TypeOK` |
| | `NodesOfThePool`, `DeadlockFree` | `ActiveInPool`, `NoCircularWait` |
| | `PinnedPathsStay`, `RebuildKeepsNode` | `PinnedStays`, `EgressKeepsNode`, action properties |
| `DaemonInstanceProofs` | `InstanceTypes` | `TypeOK` |
| | `OneDaemonOnly`, `SocketsJudgedRight`, `ReadyPortsOwned` | `OneDaemon`, `SocketJudged`, `ReadyOwnsPorts` |
| | `CredentialsAlwaysOwned` (6) | `NothingOrphaned` |
| `DashboardProofs` | `LockAlwaysSound`, `SnapshotsAlwaysSound`, `ShownNeverOlder` | `LockSound`, `SnapshotSound`, `ShownIsCurrent` |
| | `SettledWhenReconciled` | `ReconciledIsSettled`, an action property |
| `DecisionsProofs` | `HealthyIsAnswered`, `BodiesAreWhole` | `HealthyMeansAnswered`; `OnlyWholeBodies`, `FetcherReaped` |
| | `StableRoutesFollowed` | `FollowsStableRoutes` (three action properties and an invariant) |
| | `TicksKeepTheirBudget` | `TickWithinBudget`, `StopsWithinSample`, the safety parts of `TickEndsInTime` |
| | `RestartsFindReported` | `RestartFindsReported` |
| `ComputedProofs` | `RecoveriesSpaced` | `BackoffSound`, action properties |
| | `PoolsComplete`, `RanksSound`, `ConfigsSound` | `PoolIsFirstUsable`, `RankingSound`, `ConfigSound` |

*Hypotheses.* They exclude what the configurations of section 5 show to go wrong;
those give the counterexample without them.

1. `CachesKeepTheirOwner`: no two configurations give one cache file to two
   profile names. Validation ensures it within one configuration; over an edit the
   operator does (`TxnSwapCaches.cfg`).
2. `ChangedNamesStay`: a name whose source changes is in every configuration
   (`TxnRename.cfg`).
3. `Faults \subseteq {"probe"}`, saves succeed and a boot brings up a path, or
   `SourcesMoveForward`, a source once replaced under its name does not return to
   it. Where both fail a transaction can overwrite a slot that an old state file
   still gives to the source that comes back (`TxnUnsavedBoot.cfg`).
4. `"probe" \notin Faults`: no on-demand probe books the results of an old pool
   (`TxnRaceStats.cfg`) or saves the old state between state commit and publication
   (`TxnRaceSave`). Saves and boots may fail as far as 3 allows.
5. `Edits = {}` and `CachesUnshared`: the configuration file stays as it is, and no
   two of its profiles share a cache file, which validation refuses. The abstract
   specification knows of no edits; which of them are harmless is what 1 to 3 say.
6. `"stop" \notin Faults`: unlinking a credential file on stop does not fail. The
   sweep may (`"sweep"`).

*Subscription transaction.* A referenced slot holding the right bytes is not
inductive: a transaction picks the slot to write from what it read at its start,
and the file may differ from memory. `MemoryInv` adds that a
transaction before its publication still knows the slot memory confirms; that the
slot it has written holds the manifest it prepared from the source its catalog
names; and that the state about to be published is sound itself. It needs that a
start from the state file is sound, for which there are two arguments. While saves
succeed, `SlotInv` says that state file and memory agree on slots, identities and
markers outside the publication window. Where they fail, the file may be
older than memory by any number of transactions, and slots it references may have
been overwritten; `ForwardInv` orders the configurations instead: what the file
names is no later than the running one, that no later than the transaction's, and
that no later than the file the operator edits. An overwritten slot is then of a
source the transaction's configuration has replaced, which no later one brings
back, so reconciliation drops it at the next start. `EntryInv` says
the same of entries and needs no hypothesis, since it is about names and not about
files. `TrustInv` adds the legacy file: a trusted remote source without a slot is the
one the legacy file is of (`BareSound`), which is why a changed name must not leave
the catalog. `StatsInv` extends `StatsIsolated` to the state about to be published;
`ResumeInv` says which selection the file records at each program point, until the
first save of a life the one this start was made from.
For the refinement `FixedInv` drops the agreement of file and memory, which a
failing save breaks, in favour of agreement on the selection only, and then every
step maps to `Start`, `Commit`, `Publish` or `Stop` of `AtomicSelection` or to a
stutter.

*Data paths.* That a process has one holder is inductive only with what is known at
each program point: where the handles are while a class changes its path
(`WorkInv`) and while a transaction runs, which excludes all other work (`TxnInv`);
that route and ports follow the handle one step of `install_active` behind it
(`RouteInv`); that a connection's path was routed, so neither a candidate nor staged
(`ConnInv`); and what each stage of the shutdown has left behind (`StopInv`).
`PathInv` collects these.

*Locks.* `TasksInv` fixes for each program point which locks a task has; the queue
of the gate holds each task once, and nobody is both queued and inside. From it
`NoCircularWait` follows by cases on the set of tasks: if somebody in it holds a
class mutex, a holder in it can go on; otherwise whoever waits for a class mutex
waits for nobody in the set; otherwise the first of the set in the queue waits for
tasks outside it only; and if all of them wait for the transaction mutex, its owner
is not among them.

*Instances.* `SocketInv` ties listener, inode and path to program points under the
lock; `JudgeInv` counts the connects a dying listener has left against the
confirmations still needed, which is where `DyingConnects < Confirmations` is used;
`HandleInv` says that the check of who owns the ports stays true while the child
lives; `FilesInv`, `IdentityInv` and `SweepInv` account for each credential file through
creation, crash and sweep, although process numbers are used again.

*What a failed proof showed.* `ReadyOwnsPorts` used to say that at the step to
*ready* the child owns both ports, and one foreign process was modelled. It holds for
one and is false for two: the child passes the ownership check, exits, and both its
ports are bound by others before the connects that follow it. The adapter is then
taken for ready although its child is gone. The property is now an invariant of ready handles whose child runs, which is what the ownership check
can promise, and the run has two foreign processes.

*Dashboard.* `DashInv` says where the dashboard's one request is: awaited, or unknown
with every snapshot taken since marked busy (`RequestInv`, `MutationInv`); that a change
replaces the generation it met (`MetInv`); what `class_snapshot` knows after each of
its reads (`StatusInv`); how the snapshot on display and the probe round relate to
the daemon's generation, which only grows within a life (`ShownInv`, `RoundInv`); and,
while nobody interferes, that a change has not begun to show or shows in full
(`CourseInv`).

*Decisions.* `HealthInv`: the samples before the present one are proven; `TickInv` adds
that they took no more than their share of the tick's time. `FetchInv`: bytes
sent are those read plus those in the pipe. `EgressInv`: the signature read last is
the baseline, or the candidate and as old as it, and the observer's cooldown runs
from the last delivery.
`SaveInv` is about every directory and every content that a power loss may leave, not
only those of now: the temporary file is the state file of none of them (`TmpInv`),
two saves are of two documents and each knows whether the other has disturbed it
(`OverlapInv`), an undisturbed save finds the file it opened under its name and with
its document in it (`AloneInv`), and the state files on disk are whole, no older than
the durable save, and without a part of a document that has not been renamed yet
(`StateInv`). The disturbed case is short: then no save is alone and `clean` is false,
so nothing is promised until a save runs alone.

*Computed decisions.* These are functions of an input, so the state is no difficulty
and the data is: histories, pools, manifests and paths of any length. The models
compute over them with recursive functions, and the proofs are by induction on the
length. `Induction` is that principle for a set of numbers, from the
well-foundedness of `<`; every recursive function has a lemma that it exists, from which its
value follows at zero and at each step.

* *Backoff.* `RecoveryInv`: what has been waited since the last failure and what is
  still to wait make up its delay; `DelayIsDoubled`: doubling and capping step by step
  is doubling often and capping once.
* *Pools.* `PoolOf` is kept by every entry that joins (`PoolExtends`) and by every file
  (`FileExtends`): the position of a new first usable entry is behind those of the
  pool, and a name is in the pool exactly if a usable entry before bears it.
* *Scores.* After `Recent` successes, or failures, the rate is bounded by what they make
  of the worst rate before (`RisesLately`, `FadesLately`), as averaging is
  monotone also when it rounds down; `RecentAssumption` says that `Recent` is large
  enough for the bounds to be apart. Ties are not transitive, so the head of a
  ranking is not the best node; but an insertion loses one tie margin at most
  (`InsertedNear`, `HeadOfRanking`).
* *Configurations.* `CanonicalIsReached`: what `canonicalize` finds is where the kernel
  gets to, and `MissingIsSpelled`: behind the first missing component nothing is a
  link, so that `..`-free spelling is where the kernel will get to
  (`NormalizedIsReached`). Every path that is written is then a role, or lies in one
  under a name no other writer has (`WrittenFromBase`, `BaseRole`), and
  the collision check separates the roles (`BasesApart`, `BaseApartFromReader`).
  Where a path has a missing directory and a `..` behind it the argument fails, which
  is `LaterSourcesApart` in section 5. `FileSystemAssumption`
  has links in canonical places that name canonical places, and nobody else puts a
  link at a name the daemon makes in its own directories (`daemon.lock`, `causeway.jsonl`
  and so on).

*Only model-checked.* Liveness (`RetiredPathStops`, `ShutdownCompletes`,
`OperationsFinish`, `FailingIsRetried`, and the temporal parts of `TickEndsInTime` and
`FetchEndsReaped`): the prover has no reasoning about fairness.

## 5. Where code and comments disagree

Listed as findings with their runs: `TxnRaceSave` and `TornSave`. The latter in
full: `save_state` has synced `json.tmp` and not yet renamed it when the
transaction opens and truncates it; the rename makes the empty file the state
file. A daemon that dies now does not start again (`load` refuses it). If it goes
on, the transaction writes through its descriptor into the state file and its own
rename fails, so it takes back its staged paths although a restart would resume
them.

The same modules show more, each with a configuration kept here
(`tlc -config X.cfg MC...`) that TLC answers with a counterexample (where a
configuration has two properties, `-continue` shows both):

* `TxnRaceStats.cfg` (`StatsIsolated`): `probe_now_inner` copies the pool before it
  reads the era, so an old pool's results can be booked under the new profile;
  `supervisor.rs:2091` "results from a snapshot taken before a publication can
  never land in the new profile's statistics".
* `TasksLoops.cfg` (`VerdictBookedOnMeasured`): a manual switch takes the read
  gate too and installs a node between sampling and booking; `supervisor.rs:2409`
  "sampling, recording, and recovery must see the same active plane, or a verdict
  measured against the old path books against the new one".
* `DecisionsDocs.cfg` (`NoFlipFlop`): `score.rs:5` "avoiding flip-flopping between
  nodes". The margin grows with the incumbent's success rate, so a slow node at 0.7
  and a fast one at 0.51 each beat the other: the slow one by its rate (margin
  0.153), the fast one by its speed (the rates are within the margin 0.21).
* `DecisionsDocs.cfg` (`LaterSourcesApart`): a `url_file` whose path has a missing
  directory followed by `..` and a link is accepted although, once the directory
  exists, it names a file the daemon writes; `config.rs:1340` "It is conservative
  for read-only missing paths".
* `TxnSwapCaches.cfg` (`LiveProfileTrusted`): two profiles exchange `cache_file`;
  a reload writes the slot the other profile has confirmed and fails;
  `subscription.rs:492` "Commit into the slot not currently referenced by state."
* `TxnUnsavedBoot.cfg` (`LiveProfileTrusted`): no path comes up at boot, so the
  reconciled state is not saved, and a transaction overwrites the slot that the
  state file still references; same comment.
* `TxnRename.cfg` (`LiveProfileTrusted`): a profile removed while running and
  added offline under another source is adopted and served from the legacy cache;
  `state.rs:58` "prevents a legacy cache from crossing a same-name source change".
* `TxnBailDefault.cfg` (`QuarantineBailIsForDefault`): `supervisor.rs:2715`
  proposes "start with a different default profile", but the refused profile is
  the one the state selected whenever it is still configured.
* `TasksSite.cfg` (`SiteSwitchSeesIncumbent`): `supervisor.rs:1853`
  "re-checks the incumbent, so a concurrent manual switch is never clobbered
  blindly"; `switch_to` compares with the requested node only.
* `TasksSite.cfg` (`SiteReplyNamesInstalled`): `switch_for_site` ignores
  `SwitchOutcome.fallback` and reports the probed node although another was
  installed (`supervisor.rs:1928`, `control.rs:346`).
* `TasksLoops.cfg` (`ChallengerBeatsIncumbent`): the repository's
  `README.md:22` "a challenger must beat the incumbent by a clear, configurable
  margin"; when the winner fails its pre-check `switch_node` installs the next one.
* `DashStale.cfg` (`LockedOnlyByOthers`): `switch.rs:1807` "a different active
  profile or an unexpected generation could be a concurrent mutation (or daemon
  restart)"; also a second change picked before the refresh that follows the
  first: it records the profile and generation of the old snapshot, and if its
  reply is lost no snapshot of this daemon fits.

Two more that were read and have no configuration: `AdapterWorkspace::cleanup`
removes entries in directory order, so a daemon killed during a clean exit that
found leftover credential files can remove its marker first and orphan them; and
`switch.rs:1593` writes `<url_file>.tmp`, which is not among the roles that
`validate_filesystem_roles` keeps apart.

## 6. Plan

Done: the modules above. Next, in this order:

1. The accept-error throttle of the listener; the version-1 migration of the state
   file; site verdicts.

Not modelled at all: the syntax of TOML, YAML and HTTP, adapter configuration
files, the TCP and TLS probes, protocol classification, the event log, rendering
of the dashboard, argument parsing: input handling, I/O and output formatting
without state that outlives a call.
