--------------------------- MODULE SubscriptionTxn ---------------------------
(***************************************************************************)
(* The subscription transaction of the CAUSEWAY supervisor: prepare a      *)
(* profile, stage its data paths, commit its manifest to the cache slot    *)
(* the state does not reference, commit the selection to the state file,   *)
(* publish it live -- with process crashes between any two of these steps, *)
(* restarts that must serve only what a trusted source produced, edits of  *)
(* the configuration file, reloads, and the probe traffic that shares the  *)
(* state with the transaction.                                             *)
(*                                                                         *)
(* Two processes run inside the daemon: the transaction (serialised by     *)
(* ctx.subscription_txn) and at most one on-demand probe request           *)
(* (probe_now).  Work done under the read side of ctx.reconfiguration is   *)
(* one step that needs the gate free of its writer.                        *)
(*                                                                         *)
(* A crash is the death of the process: a rename(2) that returned is       *)
(* authoritative, a file being written is lost.                            *)
(***************************************************************************)
EXTENDS SubscriptionState, Naturals

CONSTANTS
    Configs,        \* the configuration files an operator may write
    Edits,          \* <<c, d>>: the operator may replace configuration c by d
    Caches,         \* cache_file paths
    CacheOf,        \* source -> its cache_file; None for a local file source
    Versions,       \* versions of the manifest a source may deliver
    Faults,         \* what may disturb the daemon, see below
    MaxPublications \* bound: publications in one life of the process

ASSUME CacheOfAssumption == CacheOf \in [Sources -> Caches \cup {None}]
ASSUME CachesAssumption  == None \notin Caches
ASSUME BoundAssumption   == MaxPublications \in Nat
ASSUME EditsAssumption   == Edits \subseteq Configs \X Configs

(***************************************************************************)
(* "save":  save_atomic and save_private_cache may fail (disk full, I/O).  *)
(* "boot":  no class gets a path while the daemon starts, so that nothing  *)
(*          saves the state before requests are served.                    *)
(* "probe": a probe_now request may be in flight at any time.              *)
(***************************************************************************)
ASSUME FaultsAssumption  == Faults \subseteq {"save", "boot", "probe"}
ASSUME ConfigsAssumption ==
    \A c \in Configs : c.cat \in Catalog /\ c.default \in Configured(c.cat)

VARIABLES
    config,     \* the configuration file on disk
    disk,       \* the state file on disk; None before the first save
    slotFile,   \* cache -> slot -> manifest in that slot file
    bareFile,   \* cache -> manifest in the pre-slot legacy cache file
    phase,      \* of the process: down, boot (paths come up), serve (requests too)
    bail,       \* why the last start refused to run; None if it did not
    mem,        \* ctx.state
    runtime,    \* ctx.subscriptions (SubscriptionRuntime)
    txn,        \* the subscription transaction in flight
    probe       \* the on-demand probe request in flight

vars == <<config, disk, slotFile, bareFile, phase, bail, mem, runtime, txn, probe>>

files  == <<disk, slotFile>>
daemon == <<mem, runtime>>

Config   == [cat : Catalog, default : Profiles]
Manifest == [src : Sources, ver : Versions]

ASSUME ManifestAssumption ==
    /\ None \notin Manifest /\ None \notin [src : Sources] /\ None \notin WireState
    /\ None \notin [profile : Profiles, src : Sources, ver : Versions \cup {None}]

IsLocal(src) == CacheOf[src] = None

(* SubscriptionRuntime; `default' is the default profile it was started with. *)
Runtime == [active : Profiles, pool : Manifest, cat : Catalog,
            generation : Nat, default : Profiles]

(***************************************************************************)
(* txn.pc: idle -> prepare -> (prepared) gate -> stage -> cache -> state   *)
(* -> publish -> save -> idle.  From "stage" on the transaction holds the  *)
(* write gate and every class lock.                                        *)
(***************************************************************************)
TxnPhases == {"idle", "prepare", "gate", "stage", "cache", "state", "publish", "save"}

Txn == [pc        : TxnPhases,
        target    : Profiles \cup {None},
        cat       : Catalog,
        reload    : BOOLEAN,
        confirmed : Slots \cup {None},   \* slot read from ctx.state at the start
        trusted   : BOOLEAN,
        prep      : Manifest \cup {None},
        fresh     : BOOLEAN,             \* PreparedSubscription::Fresh
        slot      : Slots \cup {None},   \* committed_slot
        next      : StateFile]           \* next_state

NoTxn == [pc |-> "idle", target |-> None, cat |-> [p \in Profiles |-> None],
          reload |-> FALSE, confirmed |-> None, trusted |-> FALSE,
          prep |-> None, fresh |-> FALSE, slot |-> None, next |-> DefaultState]

NoProbe == [pc |-> "idle", src |-> None, era |-> 0]

up == phase # "down"

GateHeld == txn.pc \in {"stage", "cache", "state", "publish", "save"}

(***************************************************************************)
(* TypeOK.  The variables have their types; a transaction or a probe in    *)
(* flight means a serving daemon, and a transaction past its preparation   *)
(* holds a manifest for a target its catalog configures.                   *)
(***************************************************************************)
TypeOK ==
    /\ config \in Configs
    /\ disk \in WireState \cup {None}
    /\ slotFile \in [Caches -> [Slots -> Manifest \cup {None}]]
    /\ bareFile \in [Caches -> Manifest \cup {None}]
    /\ phase \in {"down", "boot", "serve"}
    /\ bail \in [profile : Profiles, quarantined : BOOLEAN] \cup {None}
    /\ mem \in StateFile
    /\ IF up THEN runtime \in Runtime ELSE runtime = None
    /\ txn \in Txn
    /\ txn.pc # "idle" => phase = "serve" /\ txn.target \in Configured(txn.cat)
    /\ txn.pc \notin {"idle", "prepare"} => txn.prep \in Manifest
    /\ probe \in [pc : {"idle", "pool", "era", "save"},
                  src : Sources \cup {None}, era : Nat]
    /\ probe.pc # "idle" => phase = "serve" /\ probe.src \in Sources

(***************************************************************************)
(* The operator has written a configuration and may have primed legacy     *)
(* cache files with the manifest of the sources it configures.             *)
(***************************************************************************)
PrimedBy(c) ==
    {f \in [Caches -> Manifest \cup {None}] :
       \A x \in Caches : f[x] # None =>
           \E p \in Configured(c.cat) : f[x].src = c.cat[p] /\ CacheOf[c.cat[p]] = x}

Init ==
    /\ config \in Configs
    /\ bareFile \in PrimedBy(config)
    /\ disk = None
    /\ slotFile = [x \in Caches |-> [s \in Slots |-> None]]
    /\ phase = "down"
    /\ bail = None
    /\ mem = DefaultState
    /\ runtime = None
    /\ txn = NoTxn
    /\ probe = NoProbe

-----------------------------------------------------------------------------
(* Configuration, start, stop and crash.                                    *)

(* A configuration changes only after the daemon first recorded one. *)
EditConfig ==
    /\ disk # None
    /\ \E c \in Configs : <<config, c>> \in Edits /\ config' = c
    /\ bail' = None
    /\ UNCHANGED <<files, bareFile, phase, daemon, txn, probe>>

(* load, or the default state on the first run, reconciled with the catalog *)
BootState(d, c) ==
    ReconcileStartupSources(IF d = None THEN DefaultState ELSE LoadedState(d), c.cat)

BootProfile(st, c) ==
    IF st.active # None /\ st.active \in Configured(c.cat)
    THEN st.active ELSE c.default

(* load_profile_snapshot_from_slot: the manifests the call may return; a     *)
(* local file may hold any version of its source, or be unreadable.          *)
SnapshotFromSlot(src, slot) ==
    IF IsLocal(src)
    THEN [src : {src}, ver : Versions] \cup {None}
    ELSE {IF slot # None THEN slotFile[CacheOf[src]][slot] ELSE bareFile[CacheOf[src]]}

Quarantined(st, p, c) == st.slots[p] = None /\ ~SourceIsTrusted(st, p, c.cat[p])

StartupSnapshot(st, p, c) ==
    IF Quarantined(st, p, c) THEN {None} ELSE SnapshotFromSlot(c.cat[p], st.slots[p])

(* run, up to the point where the supervisor serves *)
Start ==
    /\ ~up
    /\ LET p  == BootProfile(BootState(disk, config), config)
           st == ActivateSubscription(BootState(disk, config), p)
       IN  \E m \in StartupSnapshot(st, p, config) :
             IF m = None
             THEN /\ bail' = [profile |-> p, quarantined |-> Quarantined(st, p, config)]
                  /\ UNCHANGED <<phase, daemon>>
             ELSE /\ bail' = None
                  /\ phase' = "boot"
                  /\ mem' = st
                  /\ runtime' = [active |-> p, pool |-> m, cat |-> config.cat,
                                 generation |-> 0, default |-> config.default]
    /\ UNCHANGED <<config, files, bareFile, txn, probe>>

Stopped == /\ phase' = "down"
           /\ mem' = DefaultState
           /\ runtime' = None
           /\ txn' = NoTxn
           /\ probe' = NoProbe
           /\ UNCHANGED <<config, slotFile, bareFile, bail>>

Crash == up /\ Stopped /\ UNCHANGED disk

(* save_atomic: the state file becomes st, or the save fails and changes nothing *)
SaveAtomic(st) ==
    \/ disk' = PersistedState(st)
    \/ "save" \in Faults /\ disk' = disk

(* Without statistics a startup probe round (ProbeCycle) comes first.  Every  *)
(* path brought up by activate_initial is then saved by install_active; only *)
(* after that are the control socket and the background loops served.        *)
FinishBoot ==
    /\ phase = "boot" /\ mem.nodes # {}
    /\ phase' = "serve"
    /\ SaveAtomic(mem) \/ ("boot" \in Faults /\ UNCHANGED disk)
    /\ UNCHANGED <<config, slotFile, bareFile, bail, daemon, txn, probe>>

(* Graceful exit: the transaction and the requests are joined, then saved. *)
Shutdown ==
    /\ phase = "serve" /\ txn.pc = "idle" /\ probe.pc = "idle"
    /\ SaveAtomic(mem)
    /\ Stopped

-----------------------------------------------------------------------------
(* The subscription transaction.                                            *)

(***************************************************************************)
(* Both entry points hold ctx.subscription_txn to the end, then read the   *)
(* confirmed slot and the trust of the target's source from ctx.state.     *)
(***************************************************************************)
BeginTxn(target, cat, reload) ==
    /\ txn.pc = "idle"
    /\ runtime.generation < MaxPublications
    /\ txn' = [NoTxn EXCEPT
                 !.pc        = "prepare",
                 !.target    = target,
                 !.cat       = cat,
                 !.reload    = reload,
                 !.confirmed = mem.slots[target],
                 !.trusted   = /\ SourceIsTrusted(mem, target, cat[target])
                               /\ runtime.cat[target] = cat[target]]
    /\ UNCHANGED <<config, files, bareFile, phase, bail, daemon, probe>>

(* switch_subscription: an unknown target is refused *)
BeginSwitch(target) ==
    /\ phase = "serve"
    /\ target \in Configured(runtime.cat)
    /\ BeginTxn(target, runtime.cat, FALSE)

(* reload: refused when the active profile left the configuration *)
BeginReload ==
    /\ phase = "serve"
    /\ runtime.active \in Configured(config.cat)
    /\ BeginTxn(runtime.active, config.cat, TRUE)

Advance(new) ==
    /\ txn' = new
    /\ UNCHANGED <<config, bareFile, phase, bail, probe>>

(* subscription_failure: the planes are stopped and every lock is released *)
Abort == Advance(NoTxn)

(* PrepareFresh that goes on after a failed fetch. *)
PrepareFreshUnfetched ==
    /\ txn.pc = "prepare"
    /\ Advance([txn EXCEPT !.pc = "gate", !.fresh = TRUE])
    /\ UNCHANGED <<files, daemon>>

(* prepare_profile: fetch the remote manifest or read the local files *)
PrepareFresh ==
    /\ txn.pc = "prepare"
    /\ \E v \in Versions :
         Advance([txn EXCEPT !.pc = "gate", !.fresh = TRUE,
                             !.prep = [src |-> txn.cat[txn.target], ver |-> v]])
    /\ UNCHANGED <<files, daemon>>

(* PrepareCached that falls back to the cache of an untrusted source. *)
PrepareCachedUntrusted ==
    /\ txn.pc = "prepare"
    /\ ~txn.reload /\ txn.target # runtime.active
    /\ \E m \in SnapshotFromSlot(txn.cat[txn.target], txn.confirmed) \ {None} :
         Advance([txn EXCEPT !.pc = "gate", !.prep = m])
    /\ UNCHANGED <<files, daemon>>

(* The fetch failed: an explicit switch to an inactive, trusted profile may  *)
(* use the last confirmed cache.                                             *)
PrepareCached ==
    /\ txn.pc = "prepare"
    /\ ~txn.reload /\ txn.target # runtime.active /\ txn.trusted
    /\ \E m \in SnapshotFromSlot(txn.cat[txn.target], txn.confirmed) \ {None} :
         Advance([txn EXCEPT !.pc = "gate", !.prep = m])
    /\ UNCHANGED <<files, daemon>>

(* The write gate, then every class lock in name order. *)
AcquireGate ==
    /\ txn.pc = "gate"
    /\ Advance([txn EXCEPT !.pc = "stage"])
    /\ UNCHANGED <<files, daemon>>

(* One pre-checked data plane per class, before the deadline. *)
StageClasses ==
    /\ txn.pc = "stage"
    /\ Advance([txn EXCEPT !.pc = "cache"])
    /\ UNCHANGED <<files, daemon>>

(* Failure or timeout of a step that has nothing to undo on disk. *)
AbortBeforeCommit ==
    /\ txn.pc \in {"prepare", "gate", "stage", "cache"}
    /\ Abort
    /\ UNCHANGED <<files, daemon>>

(* NextSlot that returns the confirmed slot. *)
NextSlotOverwrites == IF txn.confirmed = "a" THEN "a" ELSE "b"

NextSlot == IF txn.confirmed = "a" THEN "b" ELSE "a"

WritesCache == txn.fresh /\ ~IsLocal(txn.prep.src)

ReplaceSlot ==
    slotFile' = [slotFile EXCEPT ![CacheOf[txn.prep.src]][NextSlot] = txn.prep]

(* CommitCache that confirms a slot it has not written. *)
CommitCacheUnwritten ==
    /\ txn.pc = "cache"
    /\ Advance([txn EXCEPT !.pc = "state", !.slot = IF WritesCache THEN NextSlot ELSE None])
    /\ UNCHANGED <<files, daemon>>

(* commit_prepared_cache: only a fresh remote manifest has a pending cache *)
CommitCache ==
    /\ txn.pc = "cache"
    /\ IF WritesCache
       THEN ReplaceSlot /\ Advance([txn EXCEPT !.pc = "state", !.slot = NextSlot])
       ELSE UNCHANGED slotFile /\ Advance([txn EXCEPT !.pc = "state"])
    /\ UNCHANGED <<disk, daemon>>

(* save_private_cache renamed the file, then failed to sync its directory *)
CommitCacheFails ==
    /\ "save" \in Faults /\ txn.pc = "cache" /\ WritesCache
    /\ ReplaceSlot
    /\ Abort
    /\ UNCHANGED <<disk, daemon>>

(* NextState that forgets the slot the cache was committed to. *)
NextStateKeepsSlot ==
    ActivateSubscription(ApplySubscriptionCatalog(mem, runtime.cat, txn.cat,
                             IF txn.fresh THEN txn.target ELSE None),
                         txn.target)

NextState ==
    LET applied   == ApplySubscriptionCatalog(mem, runtime.cat, txn.cat,
                         IF txn.fresh THEN txn.target ELSE None)
        activated == ActivateSubscription(applied, txn.target)
    IN  IF txn.slot = None THEN activated
        ELSE [activated EXCEPT !.slots[txn.target] = txn.slot]

(* next_state is cloned from ctx.state and written without its mutex *)
CommitState ==
    /\ txn.pc = "state"
    /\ Advance([txn EXCEPT !.pc = "publish", !.next = NextState])
    /\ disk' = PersistedState(NextState)
    /\ UNCHANGED <<slotFile, daemon>>

CommitStateFails ==
    /\ "save" \in Faults /\ txn.pc = "state"
    /\ Abort
    /\ UNCHANGED <<files, daemon>>

(* Under every route lock and the state mutex: all classes flip at once. *)
Publish ==
    /\ txn.pc = "publish"
    /\ Advance([txn EXCEPT !.pc = "save", !.next = DefaultState])
    /\ mem' = txn.next
    /\ runtime' = [runtime EXCEPT !.active = txn.target, !.pool = txn.prep,
                                  !.cat = txn.cat, !.generation = @ + 1]
    /\ UNCHANGED files

(* The diagnostic save after the publication; then every lock is released. *)
FinishTxn ==
    /\ txn.pc = "save"
    /\ Abort
    /\ SaveAtomic(mem)
    /\ UNCHANGED <<slotFile, daemon>>

-----------------------------------------------------------------------------
(* Work that shares ctx.state with the transaction.                         *)

Record(src) == mem' = [mem EXCEPT !.nodes = @ \cup {src}]

(* probe_cycle: probe the pool and save, all under the read gate *)
ProbeCycle ==
    /\ up /\ ~GateHeld
    /\ Record(runtime.pool.src)
    /\ SaveAtomic(mem')
    /\ UNCHANGED <<config, slotFile, bareFile, phase, bail, runtime, txn, probe>>

(* record_health_outcome and a failed activation: recorded, not saved *)
HealthRecord ==
    /\ phase = "serve" /\ ~GateHeld
    /\ Record(runtime.pool.src)
    /\ UNCHANGED <<config, files, bareFile, phase, bail, runtime, txn, probe>>

ProbeStep(from, new) ==
    /\ "probe" \in Faults /\ probe.pc = from
    /\ probe' = new
    /\ UNCHANGED <<config, slotFile, bareFile, phase, bail, runtime, txn>>

(* probe_now_inner reads the pool first ... *)
ProbeNowPool ==
    /\ phase = "serve"
    /\ ProbeStep("idle", [pc |-> "pool", src |-> runtime.pool.src, era |-> 0])
    /\ UNCHANGED <<disk, mem>>

(* ... and the era of the pool afterwards, under a second lock acquisition *)
ProbeNowEra ==
    /\ phase = "serve"
    /\ ProbeStep("pool", [probe EXCEPT !.pc = "era", !.era = runtime.generation])
    /\ UNCHANGED <<disk, mem>>

(* probe_now_node: under the read gate, a snapshot of an older era is skipped *)
ProbeNowNode ==
    /\ ~GateHeld
    /\ ProbeStep("era", [probe EXCEPT !.pc = "save"])
    /\ IF probe.era = runtime.generation THEN Record(probe.src) ELSE UNCHANGED mem
    /\ UNCHANGED disk

(* probe_now saves after its tasks released the gate *)
ProbeNowSave ==
    /\ ProbeStep("save", NoProbe)
    /\ SaveAtomic(mem)
    /\ UNCHANGED mem

-----------------------------------------------------------------------------
TxnStep ==
    \/ PrepareFresh \/ PrepareCached \/ AcquireGate \/ StageClasses
    \/ AbortBeforeCommit
    \/ CommitCache \/ CommitCacheFails
    \/ CommitState \/ CommitStateFails
    \/ Publish \/ FinishTxn

SharedStep ==
    \/ ProbeCycle \/ HealthRecord
    \/ ProbeNowPool \/ ProbeNowEra \/ ProbeNowNode \/ ProbeNowSave

Next ==
    \/ EditConfig \/ Start \/ FinishBoot \/ Crash \/ Shutdown
    \/ \E p \in Profiles : BeginSwitch(p)
    \/ BeginReload
    \/ TxnStep
    \/ SharedStep

Spec == Init /\ [][Next]_vars

-----------------------------------------------------------------------------
(* What the transaction promises.                                           *)

(***************************************************************************)
(* A slot that st references belongs to a trusted profile and its file in  *)
(* sf holds a manifest fetched from exactly that profile's source.         *)
(***************************************************************************)
SlotsHoldTrustedSource(sf, st) ==
    \A p \in Profiles : st.slots[p] # None =>
        /\ st.ids[p] # None
        /\ st.pending[p] = None
        /\ ~IsLocal(st.ids[p])
        /\ sf[CacheOf[st.ids[p]]][st.slots[p]] # None
        /\ sf[CacheOf[st.ids[p]]][st.slots[p]].src = st.ids[p]

(***************************************************************************)
(* LiveSlotsTrusted.  While the daemon runs, every cache slot ctx.state    *)
(* references holds a manifest of that profile's trusted source: the A/B   *)
(* slots keep an unfinished or failed transaction away from the snapshot   *)
(* an offline fallback would load (commit_cache_slot, PrepareCached).      *)
(***************************************************************************)
LiveSlotsTrusted == up => SlotsHoldTrustedSource(slotFile, mem)

(***************************************************************************)
(* DurableSlotsTrusted.  The same of the state file: whatever step the     *)
(* process dies in, the slots a restart will read hold manifests of the    *)
(* source the state file says they came from.                              *)
(***************************************************************************)
DurableSlotsTrusted == disk # None => SlotsHoldTrustedSource(slotFile, disk)

(***************************************************************************)
(* RestartableSlotsTrusted.  The part of DurableSlotsTrusted a restart     *)
(* with the configuration file as it is now depends on.                    *)
(***************************************************************************)
RestartableSlotsTrusted ==
    disk # None =>
        \A p \in Profiles :
           disk.slots[p] # None /\ disk.ids[p] = config.cat[p] =>
               /\ slotFile[CacheOf[disk.ids[p]]][disk.slots[p]] # None
               /\ slotFile[CacheOf[disk.ids[p]]][disk.slots[p]].src = disk.ids[p]

(***************************************************************************)
(* LiveProfileTrusted.  The live pool is a manifest of the source the      *)
(* running catalog configures for the active profile, ctx.state agrees on  *)
(* the active profile, and that source is trusted: neither startup nor a   *)
(* cached fallback serves a manifest of a quarantined or foreign source.   *)
(***************************************************************************)
LiveProfileTrusted ==
    up => /\ mem.active = runtime.active
          /\ runtime.pool.src = runtime.cat[runtime.active]
          /\ SourceIsTrusted(mem, runtime.active, runtime.cat[runtime.active])

(***************************************************************************)
(* SlotsServeTheirSource.  What is live, what a cached fallback would take *)
(* and what a restart would read comes from the source it is trusted for,  *)
(* although saves fail and what startup decided is not saved (the three    *)
(* properties above, where sources move forward).                          *)
(***************************************************************************)
SlotsServeTheirSource ==
    LiveProfileTrusted /\ LiveSlotsTrusted /\ RestartableSlotsTrusted

(***************************************************************************)
(* CatalogBound.  Every configured profile is either trusted or pending    *)
(* under exactly the identity the running catalog gives it, never both and *)
(* never neither, and nothing is kept for a profile that left the catalog  *)
(* (apply_subscription_catalog, reconcile_startup_sources).                *)
(***************************************************************************)
BoundTo(st, cat) ==
    \A p \in Profiles :
        /\ {st.ids[p], st.pending[p]} = {None, cat[p]}
        /\ p \notin Configured(cat) => st.slots[p] = None /\ st.parked[p] = {}

CatalogBound == up => BoundTo(mem, runtime.cat)

StatsFrom(nodes, id) == nodes \subseteq {id}

(***************************************************************************)
(* StatsIsolated.  The statistics of a profile, flat or parked, in memory  *)
(* or on disk, contain samples of nodes of its trusted source only: a      *)
(* same-name source change or a profile switch never mixes two histories.  *)
(***************************************************************************)
StatsIsolated ==
    /\ up => \A p \in Profiles : StatsFrom(NodesForSubscription(mem, p), mem.ids[p])
    /\ disk # None => \A p \in Profiles : StatsFrom(disk.stats[p], disk.ids[p])

(***************************************************************************)
(* OneActiveCopy.  The active profile's statistics exist once: the flat    *)
(* view, never also a parked copy that a later activation would resurrect  *)
(* (the type-level invariant of StateFile).                                *)
(***************************************************************************)
OneActiveCopy == up => mem.parked[mem.active] = {}

(***************************************************************************)
(* EntriesBound.  What the state holds for a profile is bound to the       *)
(* running catalog and exists once, after any sequence of switches, source *)
(* changes and removals of profiles (CatalogBound, OneActiveCopy).         *)
(***************************************************************************)
EntriesBound == CatalogBound /\ OneActiveCopy

(* The profile, manifest and catalog whose selection is committed. *)
Committed ==
    IF txn.pc = "publish"
    THEN [active |-> txn.target, pool |-> txn.prep,
          cfg |-> [cat |-> txn.cat, default |-> runtime.default]]
    ELSE [active |-> runtime.active, pool |-> runtime.pool,
          cfg |-> [cat |-> runtime.cat, default |-> runtime.default]]

(***************************************************************************)
(* RestartResumesCommitted.  If the process died now and were restarted    *)
(* with the configuration it committed last, startup would select the same *)
(* profile and, for a remote source, load exactly the committed manifest;  *)
(* a half-done transaction leaves no trace.                                *)
(***************************************************************************)
RestartResumesCommitted ==
    up => LET c  == Committed.cfg
              p  == BootProfile(BootState(disk, c), c)
              st == ActivateSubscription(BootState(disk, c), p)
          IN  /\ p = Committed.active
              /\ ~Quarantined(st, p, c)
              /\ ~IsLocal(c.cat[p]) => StartupSnapshot(st, p, c) = {Committed.pool}

(***************************************************************************)
(* DurableBeforeLive.  A step that changes the live selection finds that   *)
(* selection already in the state file: profile, slots and identities of   *)
(* the published state are the ones on disk (the comment above save_atomic *)
(* in switch_subscription_locked).                                         *)
(***************************************************************************)
Selection(st) == [active |-> st.active, slots |-> st.slots, ids |-> st.ids]

DurableBeforeLive ==
    [][up /\ up' /\ runtime' # runtime =>
         disk # None /\ Selection(disk) = Selection(mem')]_vars

(***************************************************************************)
(* QuarantineLiftedByFreshTxn.  While the daemon runs, switches, reloads   *)
(* and probes included, the pending marker of a profile that stays in the  *)
(* catalog disappears only when a transaction that freshly fetched that    *)
(* very profile goes live.                                                 *)
(***************************************************************************)
QuarantineLiftedByFreshTxn ==
    [][\A p \in Profiles :
          (up /\ up' /\ mem.pending[p] # None /\ mem'.pending[p] = None
              /\ p \in Configured(runtime'.cat))
          => txn.pc = "publish" /\ txn.fresh /\ txn.target = p]_vars

(***************************************************************************)
(* QuarantineBailIsForDefault.  When startup refuses to run because of a   *)
(* quarantined source, the refused profile is the configured default, so   *)
(* that another default lets the daemon start -- the remedy the error      *)
(* message of run() proposes.                                              *)
(***************************************************************************)
QuarantineBailIsForDefault ==
    bail # None => (bail.quarantined => bail.profile = config.default)

-----------------------------------------------------------------------------
(* The transaction implements AtomicSelection.                              *)

(* A local file is read anew by every start, so its version is not selected. *)
SelectionOf(p, m) ==
    [profile |-> p, src |-> m.src, ver |-> IF IsLocal(m.src) THEN None ELSE m.ver]

(* What a start with the present files would serve, as long as the            *)
(* configuration file stays the same (no profile is then quarantined).        *)
ResumedProfile ==
    IF disk = None \/ disk.active = None THEN config.default ELSE disk.active

ResumedManifest ==
    LET src == config.cat[ResumedProfile]
    IN  CASE IsLocal(src) -> [src |-> src]
          [] ~IsLocal(src) /\ (disk = None \/ disk.slots[ResumedProfile] = None) ->
                 bareFile[CacheOf[src]]
          [] OTHER -> slotFile[CacheOf[src]][disk.slots[ResumedProfile]]

Resumed == IF ResumedManifest = None THEN None
           ELSE SelectionOf(ResumedProfile, ResumedManifest)

Served == IF up THEN SelectionOf(runtime.active, runtime.pool) ELSE None

Abstract == INSTANCE AtomicSelection WITH
    Selections <- [profile : Profiles, src : Sources, ver : Versions \cup {None}],
    Nothing    <- None,
    live       <- Served,
    saved      <- Resumed

(***************************************************************************)
(* ImplementsAtomicSelection.  While the configuration file stays the      *)
(* same, cache slots, state file, memory and runtime together behave as    *)
(* one value that switches durably in one step and goes live in another:   *)
(* no step of an unfinished, failed or interrupted transaction changes     *)
(* what a restart serves, and no restart serves anything else.             *)
(***************************************************************************)
ImplementsAtomicSelection == Abstract!Spec

-----------------------------------------------------------------------------
(* The inductive invariant behind LiveSlotsTrusted and DurableSlotsTrusted. *)

(***************************************************************************)
(* A cache file keeps its owner: no two configurations give one cache file *)
(* to two profile names.  (Config validation ensures it within one         *)
(* configuration only.)                                                    *)
(***************************************************************************)
CachesKeepTheirOwner ==
    \A c, d \in Configs : \A p, q \in Profiles :
        /\ c.cat[p] # None /\ d.cat[q] # None
        /\ ~IsLocal(c.cat[p])
        /\ CacheOf[c.cat[p]] = CacheOf[d.cat[q]]
        => p = q

(* Every identity st holds for a profile was configured for that profile. *)
IdsConfigured(st) ==
    \A p \in Profiles : st.ids[p] # None => \E c \in Configs : c.cat[p] = st.ids[p]

SoundState(sf, st) == SlotsHoldTrustedSource(sf, st) /\ IdsConfigured(st)

SameSlots(wire, st) ==
    wire.slots = st.slots /\ wire.ids = st.ids /\ wire.pending = st.pending

BeforePublication == {"prepare", "gate", "stage", "cache", "state"}

(***************************************************************************)
(* MemoryInv.  Memory and the state about to be published are sound; a     *)
(* running transaction still knows the slot that memory confirms; and a    *)
(* slot it has written is another one, holding the manifest it prepared    *)
(* from the source its catalog names.                                      *)
(***************************************************************************)
MemoryInv ==
    /\ up => SoundState(slotFile, mem) /\ \E c \in Configs : runtime.cat = c.cat
    /\ txn.pc # "idle" => \E c \in Configs : txn.cat = c.cat
    /\ txn.pc \in BeforePublication => txn.confirmed = mem.slots[txn.target]
    /\ txn.fresh => txn.prep.src = txn.cat[txn.target] /\ txn.pc # "prepare"
    /\ txn.pc = "state" /\ txn.slot # None =>
          /\ txn.fresh
          /\ ~IsLocal(txn.prep.src)
          /\ slotFile[CacheOf[txn.prep.src]][txn.slot] = txn.prep
    /\ txn.pc \notin {"state", "publish", "save"} => txn.slot = None
    /\ txn.pc = "publish" => SoundState(slotFile, txn.next)

(***************************************************************************)
(* SlotInv.  MemoryInv, and as long as saves succeed the state file is     *)
(* sound as well: outside the publication window it agrees with memory on  *)
(* slots and trust.                                                        *)
(***************************************************************************)
SlotInv ==
    /\ MemoryInv
    /\ disk # None => SoundState(slotFile, disk)
    /\ phase = "serve" /\ txn.pc \notin {"publish", "save"} =>
          disk # None /\ SameSlots(disk, mem)

(***************************************************************************)
(* EntryInv.  What EntriesBound and QuarantineLiftedByFreshTxn rest on: a  *)
(* saved profile is trusted or pending, not both, and the saved active     *)
(* profile is known; the state about to be published is bound to the       *)
(* catalog that is published with it and lifts one quarantine at most.     *)
(***************************************************************************)
BoundState(st, cat, p) ==
    BoundTo(st, cat) /\ p \in Configured(cat) /\ st.active = p /\ st.parked[p] = {}

SavedBound(d) ==
    /\ \A p \in Profiles : d.ids[p] = None \/ d.pending[p] = None
    /\ d.active # None => d.ids[d.active] # None \/ d.pending[d.active] # None

EntryInv ==
    /\ up => BoundState(mem, runtime.cat, runtime.active)
    /\ disk # None => SavedBound(disk)
    /\ txn.pc = "publish" =>
          /\ BoundState(txn.next, txn.cat, txn.target)
          /\ \A p \in Configured(txn.cat) :
                mem.pending[p] # None /\ txn.next.pending[p] = None =>
                    txn.fresh /\ txn.target = p

(***************************************************************************)
(* A profile name whose source may change is in every configuration: the   *)
(* operator edits its entry and never drops it in between.  (A name that   *)
(* was dropped is adopted with whatever its legacy cache file holds.)      *)
(***************************************************************************)
ChangedNamesStay ==
    \A c, d \in Configs : \A p \in Profiles :
        c.cat[p] # None /\ d.cat[p] # None /\ c.cat[p] # d.cat[p] =>
            \A e \in Configs : e.cat[p] # None

(* A trusted remote source without a slot is the one its legacy file is of. *)
BareSound(st) ==
    \A p \in Profiles :
        st.ids[p] # None /\ ~IsLocal(st.ids[p]) /\ st.slots[p] = None =>
            \/ bareFile[CacheOf[st.ids[p]]] = None
            \/ bareFile[CacheOf[st.ids[p]]].src = st.ids[p]

(***************************************************************************)
(* TrustInv.  What LiveProfileTrusted rests on, with EntryInv and SlotInv: *)
(* legacy cache files were primed before the first start, a name that is   *)
(* in every configuration is known to the state file, and a transaction    *)
(* holds a manifest of the source its catalog names, fetched, or cached    *)
(* while memory trusts that source.                                        *)
(***************************************************************************)
TrustInv ==
    /\ LiveProfileTrusted
    /\ up => BareSound(mem)
    /\ \E c \in Configs : bareFile \in PrimedBy(c) /\ (disk = None => c = config)
    /\ disk # None =>
          /\ BareSound(disk)
          /\ \A p \in Profiles : (\A c \in Configs : c.cat[p] # None) =>
                disk.ids[p] # None \/ disk.pending[p] # None
    /\ txn.pc \in BeforePublication /\ txn.trusted =>
          /\ SourceIsTrusted(mem, txn.target, txn.cat[txn.target])
          /\ runtime.cat[txn.target] = txn.cat[txn.target]
    /\ txn.pc \notin {"idle", "prepare"} =>
          /\ txn.prep.src = txn.cat[txn.target]
          /\ txn.fresh \/ txn.trusted
    /\ txn.pc = "state" /\ WritesCache => txn.slot # None
    /\ txn.pc = "publish" =>
          /\ BareSound(txn.next)
          /\ SourceIsTrusted(txn.next, txn.target, txn.cat[txn.target])

(***************************************************************************)
(* d is c, or follows c in some sequence of edits.                         *)
(***************************************************************************)
Later(c, d) ==
    \A S \in SUBSET Configs : c \in S /\ (\A e \in Edits : e[1] \in S => e[2] \in S) => d \in S

(* A source that was replaced under its name does not return to that name. *)
SourcesMoveForward ==
    \A c, d, e \in Configs : Later(c, d) /\ Later(d, e) =>
        \A p \in Profiles :
            c.cat[p] # None /\ c.cat[p] = e.cat[p] => d.cat[p] \in {None, c.cat[p]}

(* The slots of st that matter under the catalog cat hold what st says. *)
SoundUnder(sf, st, cat) ==
    \A p \in Profiles : st.slots[p] # None =>
        /\ st.ids[p] # None /\ st.pending[p] = None /\ ~IsLocal(st.ids[p])
        /\ st.ids[p] = cat[p] =>
              /\ sf[CacheOf[st.ids[p]]][st.slots[p]] # None
              /\ sf[CacheOf[st.ids[p]]][st.slots[p]].src = st.ids[p]

(* Every identity of st is of a configuration no later than c. *)
IdsBefore(st, c) ==
    \A p \in Profiles : st.ids[p] # None =>
        \E e \in Configs : Later(e, c) /\ e.cat[p] = st.ids[p]

(***************************************************************************)
(* ForwardInv.  What SlotsServeTheirSource rests on where saves fail and   *)
(* sources move forward.  The state file may be older than memory, and a   *)
(* slot it references may have been overwritten from a later source; but   *)
(* its identities are of configurations no later than the running one r,   *)
(* that is no later than the transaction's d, and that no later than the   *)
(* file's: the overwritten slot is of a source that does not return.       *)
(***************************************************************************)
ForwardInv ==
    /\ disk # None => \A f \in Configs : Later(config, f) => SoundUnder(slotFile, disk, f.cat)
    /\ \E r, d \in Configs :
          /\ Later(r, d) /\ Later(d, config)
          /\ up => runtime.cat = r.cat
          /\ txn.pc # "idle" => txn.cat = d.cat
          /\ disk # None => IdsBefore(disk, IF txn.pc = "publish" THEN d ELSE r)

(* StatsInv.  StatsIsolated, of the state about to be published too. *)
StatsInv ==
    /\ StatsIsolated
    /\ txn.pc = "publish" =>
          \A p \in Profiles : StatsFrom(NodesForSubscription(txn.next, p), txn.next.ids[p])

(***************************************************************************)
(* ResumeInv.  What RestartResumesCommitted rests on: the slot a selection *)
(* references holds exactly the manifest that was selected, and the state  *)
(* file records the selection of memory, or of the publication in flight;  *)
(* before the first save of a life it is what this start was made from.    *)
(***************************************************************************)
Serves(st, cat, p, m) ==
    ~IsLocal(cat[p]) => SnapshotFromSlot(cat[p], st.slots[p]) = {m}

SavedAs(d, st) == d # None /\ d.active = st.active /\ SameSlots(d, st)

StartedFrom(d) ==
    LET c == [cat |-> runtime.cat, default |-> runtime.default]
        p == BootProfile(BootState(d, c), c)
    IN  /\ p = runtime.active
        /\ SameSlots(ActivateSubscription(BootState(d, c), p), mem)

ResumeInv ==
    /\ up => Serves(mem, runtime.cat, runtime.active, runtime.pool)
    /\ up /\ txn.pc # "publish" => SavedAs(disk, mem) \/ StartedFrom(disk)
    /\ txn.pc \in {"gate", "stage", "cache", "state"} /\ ~txn.fresh =>
          Serves(mem, txn.cat, txn.target, txn.prep)
    /\ txn.pc = "publish" =>
          SavedAs(disk, txn.next) /\ Serves(txn.next, txn.cat, txn.target, txn.prep)

(***************************************************************************)
(* FixedInv.  What ImplementsAtomicSelection rests on, while the           *)
(* configuration file stays the same: every profile is trusted as the      *)
(* configuration says, memory and state file agree on the selection, even  *)
(* if nothing has been saved yet, and the files they reference hold what   *)
(* was selected, although a failed save may have left others behind.       *)
(***************************************************************************)
CachesUnshared ==
    \A c \in Configs : \A p, q \in Configured(c.cat) :
        ~IsLocal(c.cat[p]) /\ CacheOf[c.cat[p]] = CacheOf[c.cat[q]] => p = q

Settled(st) ==
    /\ \A p \in Profiles : st.ids[p] = config.cat[p] /\ st.pending[p] = None
    /\ st.active \in Configured(config.cat)
    /\ SlotsHoldTrustedSource(slotFile, st)

Agrees(d, st) ==
    IF d = None THEN st.active = config.default /\ \A p \in Profiles : st.slots[p] = None
    ELSE d.active = st.active /\ d.slots = st.slots

FixedInv ==
    /\ bareFile \in PrimedBy(config)
    /\ disk # None => Settled(disk)
    /\ up => /\ runtime.cat = config.cat /\ runtime.active = mem.active /\ Settled(mem)
             /\ runtime.pool.src = config.cat[runtime.active]
             /\ Serves(mem, config.cat, runtime.active, runtime.pool)
    /\ up /\ txn.pc # "publish" => Agrees(disk, mem)
    /\ txn.pc # "idle" => txn.cat = config.cat
    /\ txn.pc \in BeforePublication => txn.confirmed = mem.slots[txn.target]
    /\ txn.pc \notin {"idle", "prepare"} => txn.prep.src = config.cat[txn.target]
    /\ txn.pc \in BeforePublication \ {"prepare"} /\ ~txn.fresh =>
          Serves(mem, config.cat, txn.target, txn.prep)
    /\ txn.pc \in BeforePublication \ {"state"} => txn.slot = None
    /\ txn.pc = "prepare" => ~txn.fresh
    /\ txn.pc = "state" => (WritesCache <=> txn.slot # None)
    /\ txn.pc = "state" /\ WritesCache => slotFile[CacheOf[txn.prep.src]][txn.slot] = txn.prep
    /\ txn.pc = "publish" =>
          /\ disk # None /\ Settled(txn.next) /\ txn.next.active = txn.target
          /\ Agrees(disk, txn.next)
          /\ Serves(txn.next, config.cat, txn.target, txn.prep)

=============================================================================
