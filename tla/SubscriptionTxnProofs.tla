------------------------ MODULE SubscriptionTxnProofs ------------------------
(***************************************************************************)
(* Proofs about SubscriptionTxn, for every value of its constants.         *)
(***************************************************************************)
EXTENDS SubscriptionTxn, TLAPS

-----------------------------------------------------------------------------
(* The operations of the state file map state files to state files.         *)

(* Removing profiles yields a state file (remove_subscription). *)
LEMMA RemoveType ==
    ASSUME NEW st \in StateFile, NEW S
    PROVE  RemoveSubscriptions(st, S) \in StateFile
BY DEF RemoveSubscriptions, StateFile

(* Invalidating configured profiles yields a state file                      *)
(* (invalidate_subscription_source).                                         *)
LEMMA InvalidateType ==
    ASSUME NEW st \in StateFile, NEW cat \in Catalog, NEW S
    PROVE  InvalidateSources(st, S, cat) \in StateFile
BY DEF InvalidateSources, StateFile, Catalog

(* Trusting profiles yields a state file (trust_subscription_source). *)
LEMMA TrustType ==
    ASSUME NEW st \in StateFile, NEW cat \in Catalog, NEW S
    PROVE  TrustSources(st, S, cat) \in StateFile
BY DEF TrustSources, StateFile, Catalog

(* Activating a profile yields a state file (activate_subscription). *)
LEMMA ActivateType ==
    ASSUME NEW st \in StateFile, NEW p \in Profiles
    PROVE  ActivateSubscription(st, p) \in StateFile /\ ActivateSubscription(st, p).active = p
BY DEF ActivateSubscription, StateFile

(* Publishing a catalog yields a state file (apply_subscription_catalog). *)
LEMMA ApplyType ==
    ASSUME NEW st \in StateFile, NEW prev, NEW next \in Catalog, NEW fresh
    PROVE  ApplySubscriptionCatalog(st, prev, next, fresh) \in StateFile
BY RemoveType, InvalidateType, TrustType DEF ApplySubscriptionCatalog

(* Startup reconciliation yields a state file (reconcile_startup_sources). *)
LEMMA ReconcileType ==
    ASSUME NEW st \in StateFile, NEW cat \in Catalog
    PROVE  ReconcileStartupSources(st, cat) \in StateFile
BY RemoveType, InvalidateType, TrustType DEF ReconcileStartupSources

(* What save_atomic writes is a wire state, what load reads a state file. *)
LEMMA PersistType ==
    ASSUME NEW st \in StateFile
    PROVE  PersistedState(st) \in WireState
BY DEF PersistedState, NodesForSubscription, StateFile, WireState

(* A state read from disk is well typed. *)
LEMMA LoadType ==
    ASSUME NEW wire \in WireState
    PROVE  LoadedState(wire) \in StateFile
BY NoneAssumption DEF LoadedState, StateFile, WireState

(* The state of a first start is well typed. *)
LEMMA DefaultType == DefaultState \in StateFile
BY DEF DefaultState, StateFile

-----------------------------------------------------------------------------
(* Type correctness.                                                        *)

(* The state and the profile the daemon boots with are well typed, and the   *)
(* profile is one the configuration knows (run, before serving).             *)
LEMMA BootType ==
    ASSUME NEW d \in WireState \cup {None}, NEW c \in Configs
    PROVE  /\ BootState(d, c) \in StateFile
           /\ BootProfile(BootState(d, c), c) \in Configured(c.cat)
<1>1. c.cat \in Catalog /\ c.default \in Configured(c.cat)
  BY ConfigsAssumption
<1>2. BootState(d, c) \in StateFile
  BY <1>1, ReconcileType, LoadType, DefaultType DEF BootState
<1> QED
  BY <1>1, <1>2 DEF BootProfile

(* A snapshot that was found is a manifest                                   *)
(* (load_profile_snapshot_from_slot).                                        *)
LEMMA SnapshotType ==
    ASSUME NEW src \in Sources, NEW slot \in Slots \cup {None}, TypeOK
    PROVE  SnapshotFromSlot(src, slot) \subseteq Manifest \cup {None}
<1>1. CASE IsLocal(src)
  BY <1>1 DEF SnapshotFromSlot, Manifest
<1>2. CASE ~IsLocal(src)
  <2>1. CacheOf[src] \in Caches
    BY <1>2, CacheOfAssumption DEF IsLocal
  <2> QED
    BY <1>2, <2>1 DEF SnapshotFromSlot, TypeOK
<1> QED
  BY <1>1, <1>2

(* What a transaction commits is a state file (switch_subscription_locked). *)
LEMMA NextStateType ==
    ASSUME TypeOK, txn.pc = "state"
    PROVE  NextState \in StateFile
<1>1. txn \in Txn /\ mem \in StateFile /\ txn.target \in Configured(txn.cat)
  BY DEF TypeOK
<1>2. txn.cat \in Catalog /\ txn.target \in Profiles /\ txn.slot \in Slots \cup {None}
  BY <1>1 DEF Txn, Configured
<1> DEFINE A == ApplySubscriptionCatalog(mem, runtime.cat, txn.cat,
                    IF txn.fresh THEN txn.target ELSE None)
           B == ActivateSubscription(A, txn.target)
<1>3. A \in StateFile
  BY <1>1, <1>2, ApplyType
<1>4. B \in StateFile
  BY <1>2, <1>3, ActivateType
<1> HIDE DEF A, B
<1>5. [B EXCEPT !.slots[txn.target] = txn.slot] \in StateFile \/ txn.slot = None
  BY <1>2, <1>4 DEF StateFile
<1> QED
  BY <1>4, <1>5 DEF NextState, A, B

(* The idle transaction is well typed. *)
LEMMA NoTxnType == NoTxn \in Txn /\ NoTxn.pc = "idle"
BY DefaultType DEF NoTxn, Txn, TxnPhases, Catalog

(* Both entry points start a well-typed transaction (switch_subscription,    *)
(* reload).                                                                  *)
LEMMA BeginType ==
    ASSUME TypeOK, phase = "serve", NEW cat \in Catalog, NEW target \in Configured(cat),
           NEW reload \in BOOLEAN, BeginTxn(target, cat, reload)
    PROVE  TypeOK'
<1>1. target \in Profiles /\ mem.slots[target] \in Slots \cup {None}
  BY DEF TypeOK, StateFile, Configured
<1>2. (SourceIsTrusted(mem, target, cat[target]) /\ runtime.cat[target] = cat[target])
        \in BOOLEAN
  BY DEF SourceIsTrusted
<1>3. /\ txn' \in Txn
      /\ txn'.pc = "prepare" /\ txn'.target = target /\ txn'.cat = cat
  BY <1>1, <1>2, NoTxnType, ZenonT(40) DEF BeginTxn, Txn, TxnPhases
<1> QED
  BY <1>3 DEF BeginTxn, TypeOK, files, daemon, up

(* commit_cache_slot puts a manifest into one slot file. *)
LEMMA ReplaceSlotType ==
    ASSUME TypeOK, txn.pc = "cache"
    PROVE  /\ WritesCache /\ ReplaceSlot =>
                 slotFile' \in [Caches -> [Slots -> Manifest \cup {None}]]
           /\ UNCHANGED slotFile =>
                 slotFile' \in [Caches -> [Slots -> Manifest \cup {None}]]
<1>1. txn.prep \in Manifest /\ txn.prep.src \in Sources
  BY DEF TypeOK, Manifest
<1>2. NextSlot \in Slots
  BY DEF NextSlot, Slots
<1>3. ~IsLocal(txn.prep.src) => CacheOf[txn.prep.src] \in Caches
  BY <1>1, CacheOfAssumption DEF IsLocal
<1>4. ASSUME WritesCache, ReplaceSlot
      PROVE  slotFile' \in [Caches -> [Slots -> Manifest \cup {None}]]
  <2>1. CacheOf[txn.prep.src] \in Caches
    BY <1>3, <1>4 DEF WritesCache
  <2>2. slotFile[CacheOf[txn.prep.src]] \in [Slots -> Manifest \cup {None}]
    BY <2>1 DEF TypeOK
  <2>3. [slotFile[CacheOf[txn.prep.src]] EXCEPT ![NextSlot] = txn.prep]
           \in [Slots -> Manifest \cup {None}]
    BY <1>1, <1>2, <2>2
  <2> QED
    BY <1>4, <2>1, <2>3 DEF ReplaceSlot, TypeOK
<1> QED
  BY <1>4 DEF TypeOK

(* TypeOK is an invariant of the specification. *)
THEOREM TypeCorrect == Spec => []TypeOK
<1>1. Init => TypeOK
  BY DefaultType DEF Init, TypeOK, PrimedBy, NoTxn, Txn, TxnPhases, NoProbe, Catalog, up
<1>2. TypeOK /\ [Next]_vars => TypeOK'
  <2> SUFFICES ASSUME TypeOK, [Next]_vars PROVE TypeOK'
    OBVIOUS
  <2> USE DEF TypeOK
  <2>1. CASE EditConfig
    BY <2>1 DEF EditConfig, files, daemon, up
  <2>2. CASE Start
    <3> DEFINE p  == BootProfile(BootState(disk, config), config)
               st == ActivateSubscription(BootState(disk, config), p)
    <3>1. config.cat \in Catalog /\ config.default \in Profiles
      BY ConfigsAssumption DEF Configured
    <3>2. p \in Profiles /\ config.cat[p] \in Sources
      BY <3>1, BootType DEF Configured, Catalog
    <3>3. st \in StateFile
      BY <3>2, BootType, ActivateType
    <3>4. StartupSnapshot(st, p, config) \subseteq Manifest \cup {None}
      <4>1. st.slots[p] \in Slots \cup {None}
        BY <3>2, <3>3 DEF StateFile
      <4> HIDE DEF p, st
      <4> QED
        BY <3>2, <4>1, SnapshotType DEF StartupSnapshot
    <3>5. Quarantined(st, p, config) \in BOOLEAN
      BY DEF Quarantined, SourceIsTrusted
    <3>6. PICK m \in StartupSnapshot(st, p, config) :
             IF m = None
             THEN /\ bail' = [profile |-> p, quarantined |-> Quarantined(st, p, config)]
                  /\ UNCHANGED <<phase, daemon>>
             ELSE /\ bail' = None
                  /\ phase' = "boot"
                  /\ mem' = st
                  /\ runtime' = [active |-> p, pool |-> m, cat |-> config.cat,
                                 generation |-> 0, default |-> config.default]
      BY <2>2 DEF Start
    <3> HIDE DEF p, st
    <3>7. UNCHANGED <<config, files, bareFile, txn, probe>> /\ phase = "down"
      BY <2>2 DEF Start, up
    <3> QED
      BY <3>1, <3>2, <3>3, <3>4, <3>5, <3>6, <3>7 DEF Runtime, files, daemon, up
  <2>3. CASE FinishBoot
    BY <2>3, PersistType DEF FinishBoot, SaveAtomic, daemon, up
  <2>4. CASE Crash
    BY <2>4, DefaultType DEF Crash, Stopped, NoTxn, Txn, TxnPhases, NoProbe, Catalog, up
  <2>5. CASE Shutdown
    BY <2>5, DefaultType, PersistType
       DEF Shutdown, SaveAtomic, Stopped, NoTxn, Txn, TxnPhases, NoProbe, Catalog, up
  <2>6. ASSUME NEW p \in Profiles, BeginSwitch(p) PROVE TypeOK'
    <3>1. runtime.cat \in Catalog
      BY <2>6 DEF BeginSwitch, Runtime, up
    <3> QED
      BY <2>6, <3>1, BeginType DEF BeginSwitch
  <2>7. CASE BeginReload
    <3>1. config.cat \in Catalog
      BY ConfigsAssumption
    <3> QED
      BY <2>7, <3>1, BeginType DEF BeginReload, Configured
  <2>8. CASE TxnStep
    <3> USE DEF Advance, Abort, files, daemon, up
    <3>1. CASE PrepareFresh
      <4>1. txn.cat[txn.target] \in Sources
        BY <3>1 DEF PrepareFresh, Txn, Catalog, Configured
      <4>2. PICK v \in Versions :
               txn' = [txn EXCEPT !.pc = "gate", !.fresh = TRUE,
                                  !.prep = [src |-> txn.cat[txn.target], ver |-> v]]
        BY <3>1 DEF PrepareFresh
      <4>3. [src |-> txn.cat[txn.target], ver |-> v] \in Manifest
        BY <4>1 DEF Manifest
      <4>4. txn' \in Txn /\ txn'.prep \in Manifest /\ txn'.target = txn.target
               /\ txn'.cat = txn.cat
        BY <4>2, <4>3 DEF Txn, TxnPhases
      <4> QED
        BY <3>1, <4>4 DEF PrepareFresh
    <3>2. CASE PrepareCached
      <4>1. txn.cat[txn.target] \in Sources /\ txn.confirmed \in Slots \cup {None}
        BY <3>2 DEF PrepareCached, Txn, Catalog, Configured
      <4>2. SnapshotFromSlot(txn.cat[txn.target], txn.confirmed) \ {None} \subseteq Manifest
        BY <4>1, SnapshotType
      <4> QED
        BY <3>2, <4>2, ZenonT(40) DEF PrepareCached, Txn, TxnPhases
    <3>3. CASE AcquireGate
      BY <3>3 DEF AcquireGate, Txn, TxnPhases
    <3>4. CASE StageClasses
      BY <3>4 DEF StageClasses, Txn, TxnPhases
    <3>5. CASE AbortBeforeCommit
      BY <3>5, NoTxnType DEF AbortBeforeCommit
    <3>6. CASE CommitCache
      <4>1. slotFile' \in [Caches -> [Slots -> Manifest \cup {None}]]
        BY <3>6, ReplaceSlotType DEF CommitCache
      <4>2. NextSlot \in Slots
        BY DEF NextSlot, Slots
      <4>3. txn' = [txn EXCEPT !.pc = "state", !.slot = NextSlot]
              \/ txn' = [txn EXCEPT !.pc = "state"]
        BY <3>6 DEF CommitCache
      <4>4. txn' \in Txn /\ txn'.prep = txn.prep /\ txn'.target = txn.target
               /\ txn'.cat = txn.cat
        BY <4>2, <4>3, ZenonT(40) DEF Txn, TxnPhases
      <4> QED
        BY <3>6, <4>1, <4>4 DEF CommitCache
    <3>7. CASE CommitCacheFails
      <4>1. slotFile' \in [Caches -> [Slots -> Manifest \cup {None}]]
        BY <3>7, ReplaceSlotType DEF CommitCacheFails
      <4> QED
        BY <3>7, <4>1, NoTxnType DEF CommitCacheFails
    <3>8. CASE CommitState
      <4>1. NextState \in StateFile /\ PersistedState(NextState) \in WireState
        BY <3>8, NextStateType, PersistType DEF CommitState
      <4> QED
        BY <3>8, <4>1 DEF CommitState, Txn, TxnPhases
    <3>9. CASE CommitStateFails
      BY <3>9, NoTxnType DEF CommitStateFails
    <3>10. CASE Publish
      <4>1. txn' \in Txn /\ txn'.prep = txn.prep /\ txn'.target = txn.target
               /\ txn'.cat = txn.cat
        BY <3>10, DefaultType DEF Publish, Txn, TxnPhases
      <4>2. mem' \in StateFile
        BY <3>10 DEF Publish, Txn
      <4>3. txn.target \in Profiles /\ txn.prep \in Manifest /\ txn.cat \in Catalog
        BY <3>10 DEF Publish, Configured, Txn
      <4>4. runtime \in Runtime
        BY <3>10 DEF Publish
      <4>5. runtime' \in Runtime
        <5>1. runtime.generation + 1 \in Nat
          BY <4>4 DEF Runtime
        <5> HIDE DEF TypeOK
        <5> QED
          BY <3>10, <4>3, <4>4, <5>1 DEF Publish, Runtime
      <4> QED
        BY <3>10, <4>1, <4>2, <4>5 DEF Publish
    <3>11. CASE FinishTxn
      BY <3>11, NoTxnType, PersistType DEF FinishTxn, SaveAtomic
    <3> QED
      BY <2>8, <3>1, <3>2, <3>3, <3>4, <3>5, <3>6, <3>7, <3>8, <3>9, <3>10, <3>11
         DEF TxnStep
  <2>9. CASE SharedStep
    <3> USE DEF files, up
    <3>1. ASSUME NEW src \in Sources, Record(src) PROVE mem' \in StateFile
      BY <3>1 DEF Record, StateFile
    <3>2. up => runtime.pool.src \in Sources /\ runtime.generation \in Nat
      BY DEF Runtime, Manifest
    <3>3. CASE ProbeCycle
      BY <3>1, <3>2, <3>3, PersistType DEF ProbeCycle, SaveAtomic
    <3>4. CASE HealthRecord
      BY <3>1, <3>2, <3>4 DEF HealthRecord
    <3>5. CASE ProbeNowPool
      BY <3>2, <3>5 DEF ProbeNowPool, ProbeStep
    <3>6. CASE ProbeNowEra
      BY <3>2, <3>6 DEF ProbeNowEra, ProbeStep
    <3>7. CASE ProbeNowNode
      BY <3>1, <3>7 DEF ProbeNowNode, ProbeStep
    <3>8. CASE ProbeNowSave
      BY <3>8, PersistType DEF ProbeNowSave, ProbeStep, SaveAtomic, NoProbe
    <3> QED
      BY <2>9, <3>3, <3>4, <3>5, <3>6, <3>7, <3>8 DEF SharedStep
  <2>10. CASE UNCHANGED vars
    BY <2>10 DEF vars, up
  <2> QED
    BY <2>1, <2>2, <2>3, <2>4, <2>5, <2>6, <2>7, <2>8, <2>9, <2>10 DEF Next
<1> QED
  BY <1>1, <1>2, PTL DEF Spec

-----------------------------------------------------------------------------
(* Slots and trust under the operations of the state file.                  *)

(* A referenced slot belongs to a trusted profile. *)
SlotImpliesTrust(st) ==
    \A p \in Profiles : st.slots[p] # None => st.ids[p] # None /\ st.pending[p] = None

(* Every slot r references is one st references, under the same trust. *)
Inherits(r, st) ==
    \A p \in Profiles : r.slots[p] # None =>
        r.slots[p] = st.slots[p] /\ r.ids[p] = st.ids[p] /\ r.pending[p] = st.pending[p]

(* Every identity r holds is one st held, or the one cat configures. *)
IdsFrom(r, st, cat) ==
    \A p \in Profiles : r.ids[p] \in {None, st.ids[p], cat[p]}

(* Publishing a catalog keeps a slot only with the trust it had, takes new   *)
(* identities from the catalog only, and trusts the fetched target           *)
(* (apply_subscription_catalog).                                             *)
LEMMA ApplySlots ==
    ASSUME NEW st \in StateFile, NEW prev, NEW next \in Catalog,
           NEW fresh \in Profiles \cup {None}, SlotImpliesTrust(st)
    PROVE  LET r == ApplySubscriptionCatalog(st, prev, next, fresh)
           IN  /\ Inherits(r, st)
               /\ IdsFrom(r, st, next)
               /\ fresh \in Configured(next) =>
                     r.ids[fresh] = next[fresh] /\ r.pending[fresh] = None
<1> DEFINE kept == RemoveSubscriptions(st, KnownNames(st) \ Configured(next))
           changed == {p \in Configured(next) : prev[p] # next[p]}
           stale == changed \cup PersistedMismatch(kept, next)
           inv == InvalidateSources(kept, stale, next)
           r == TrustSources(inv, {fresh} \cap Configured(next), next)
<1>1. kept \in StateFile /\ inv \in StateFile /\ r \in StateFile
  BY RemoveType, InvalidateType, TrustType
<1>2. \A p \in Profiles : p \in stale \/ kept.slots[p] = None
         \/ (kept.slots[p] = st.slots[p] /\ kept.ids[p] = st.ids[p]
              /\ kept.pending[p] = st.pending[p]
              /\ (p \in Configured(next) => kept.ids[p] \in {None, next[p]}))
  BY <1>1 DEF RemoveSubscriptions, PersistedMismatch, StateFile
<1>3. \A p \in Profiles : kept.ids[p] \in {None, st.ids[p]}
  BY DEF RemoveSubscriptions
<1>4. \A p \in Profiles :
         /\ inv.slots[p] = IF p \in stale THEN None ELSE kept.slots[p]
         /\ inv.ids[p] = IF p \in stale THEN None ELSE kept.ids[p]
         /\ inv.pending[p] = IF p \in stale THEN next[p] ELSE kept.pending[p]
  BY DEF InvalidateSources
<1> HIDE DEF kept, stale, inv
<1>5. \A p \in Profiles :
         /\ r.slots[p] = inv.slots[p]
         /\ r.ids[p] = IF p = fresh /\ p \in Configured(next) THEN next[p] ELSE inv.ids[p]
         /\ r.pending[p] = IF p = fresh /\ p \in Configured(next) THEN None
                           ELSE inv.pending[p]
  BY <1>1 DEF TrustSources, StateFile
<1> HIDE DEF r
<1>6. Inherits(r, st)
  BY <1>2, <1>4, <1>5 DEF Inherits, SlotImpliesTrust
<1>7. IdsFrom(r, st, next)
  BY <1>3, <1>4, <1>5 DEF IdsFrom
<1>8. fresh \in Configured(next) => r.ids[fresh] = next[fresh] /\ r.pending[fresh] = None
  BY <1>5 DEF Configured
<1> QED
  BY <1>6, <1>7, <1>8 DEF ApplySubscriptionCatalog, r, inv, stale, kept

(* Startup reconciliation keeps a slot only with the trust it had and takes  *)
(* new identities from the configuration only (reconcile_startup_sources).   *)
LEMMA ReconcileSlots ==
    ASSUME NEW st \in StateFile, NEW cat \in Catalog, SlotImpliesTrust(st)
    PROVE  /\ Inherits(ReconcileStartupSources(st, cat), st)
           /\ IdsFrom(ReconcileStartupSources(st, cat), st, cat)
<1> DEFINE kept  == RemoveSubscriptions(st, KnownNames(st) \ Configured(cat))
           stale == PersistedMismatch(kept, cat)
           bound == InvalidateSources(kept, stale, cat)
           adopt == {p \in Configured(cat) : bound.pending[p] = None
                                             /\ bound.ids[p] = None}
           r     == TrustSources(bound, adopt, cat)
<1>1. kept \in StateFile /\ bound \in StateFile /\ r \in StateFile
  BY RemoveType, InvalidateType, TrustType
<1>2. \A p \in Profiles :
         /\ kept.ids[p] \in {None, st.ids[p]}
         /\ kept.slots[p] = None
            \/ (kept.slots[p] = st.slots[p] /\ kept.ids[p] = st.ids[p]
                /\ kept.pending[p] = st.pending[p])
  BY DEF RemoveSubscriptions
<1>3. \A p \in Profiles :
         /\ bound.slots[p] = IF p \in stale THEN None ELSE kept.slots[p]
         /\ bound.ids[p] = IF p \in stale THEN None ELSE kept.ids[p]
         /\ bound.pending[p] = IF p \in stale THEN cat[p] ELSE kept.pending[p]
  BY DEF InvalidateSources
<1> HIDE DEF kept, stale, bound
<1>4. \A p \in Profiles :
         /\ r.slots[p] = bound.slots[p]
         /\ r.ids[p] = IF p \in adopt THEN cat[p] ELSE bound.ids[p]
         /\ r.pending[p] = IF p \in adopt THEN None ELSE bound.pending[p]
  BY <1>1 DEF TrustSources, StateFile
<1>5. \A p \in adopt : bound.ids[p] = None
  OBVIOUS
<1> HIDE DEF r, adopt
<1>6. Inherits(r, st)
  BY <1>2, <1>3, <1>4, <1>5 DEF Inherits, SlotImpliesTrust
<1>7. IdsFrom(r, st, cat)
  BY <1>2, <1>3, <1>4 DEF IdsFrom
<1> QED
  BY <1>6, <1>7 DEF ReconcileStartupSources, r, adopt, bound, stale, kept

(* Activating a profile, saving and loading leave slots and trust alone. *)
LEMMA ActivateSlots ==
    ASSUME NEW st \in StateFile, NEW p \in Profiles
    PROVE  SameSlots(ActivateSubscription(st, p), st)
BY DEF ActivateSubscription, StateFile, SameSlots

(* Writing the state file keeps slots and trust. *)
LEMMA PersistSlots ==
    ASSUME NEW st
    PROVE  SameSlots(PersistedState(st), st)
BY DEF PersistedState, SameSlots

(* Reading the state file keeps slots and trust. *)
LEMMA LoadSlots ==
    ASSUME NEW wire
    PROVE  SameSlots(LoadedState(wire), wire)
BY DEF LoadedState, SameSlots

(* Soundness is about slots and trust only. *)
LEMMA SameSlotsSound ==
    ASSUME NEW sf, NEW r, NEW st, SameSlots(r, st), SoundState(sf, st)
    PROVE  SoundState(sf, r)
BY DEF SameSlots, SoundState, SlotsHoldTrustedSource, IdsConfigured

(* Soundness passes to a state that inherits its slots. *)
LEMMA InheritSound ==
    ASSUME NEW sf, NEW r, NEW st, NEW cat, SoundState(sf, st), Inherits(r, st), IdsFrom(r, st, cat),
           \E c \in Configs : cat = c.cat
    PROVE  SoundState(sf, r)
<1>1. SlotsHoldTrustedSource(sf, r)
  BY DEF SoundState, SlotsHoldTrustedSource, Inherits
<1>2. IdsConfigured(r)
  BY DEF SoundState, IdsConfigured, IdsFrom
<1> QED
  BY <1>1, <1>2 DEF SoundState

(* In a sound state a profile with a slot is one that has been trusted. *)
LEMMA SoundTrust ==
    ASSUME NEW sf, NEW st, SoundState(sf, st)
    PROVE  SlotImpliesTrust(st)
BY DEF SoundState, SlotsHoldTrustedSource, SlotImpliesTrust

-----------------------------------------------------------------------------
(* The kinds of steps.                                                      *)

(* The daemon starts with the state and the snapshot it found. *)
Boots ==
    /\ ~up /\ up'
    /\ LET p  == BootProfile(BootState(disk, config), config)
           st == ActivateSubscription(BootState(disk, config), p)
       IN  \E m \in StartupSnapshot(st, p, config) \ {None} :
             /\ mem' = st
             /\ runtime' = [active |-> p, pool |-> m, cat |-> config.cat,
                            generation |-> 0, default |-> config.default]
    /\ UNCHANGED <<config, disk, slotFile, bareFile, txn>>

(* The process ends, with a last save or without. *)
Halts ==
    /\ up /\ ~up' /\ txn'.pc = "idle" /\ ~txn'.fresh
    /\ disk' = disk \/ disk' = PersistedState(mem)
    /\ UNCHANGED <<config, slotFile, bareFile>>

(* The view differs in the statistics of the active profile at most. *)
SameButNodes(r, st) ==
    /\ r.active = st.active /\ r.parked = st.parked
    /\ r.slots = st.slots /\ r.ids = st.ids /\ r.pending = st.pending

(* Of the catalogs, a transaction keeps its own or takes the running or the  *)
(* configured one; of the slots, only a commit writes one.                   *)
WorksOnFiles ==
    /\ txn'.pc # "idle" => \/ txn.pc # "idle" /\ txn'.cat = txn.cat
                           \/ up /\ txn'.cat = runtime.cat
                           \/ txn'.cat = config.cat
    /\ \/ slotFile' = slotFile
       \/ /\ txn.pc = "cache" /\ WritesCache /\ ReplaceSlot
          /\ UNCHANGED <<config, disk, mem>>

(* A step that neither commits nor publishes a selection. *)
Works ==
    /\ up' <=> up
    /\ SameButNodes(mem', mem) /\ runtime' = runtime
    /\ disk' = disk \/ (up /\ disk' = PersistedState(mem'))
    /\ txn' = txn \/ (txn.pc # "publish" /\ txn'.pc # "publish")
    /\ config' = config \/ (disk # None /\ <<config, config'>> \in Edits /\ UNCHANGED <<disk, txn>>)
    /\ bareFile' = bareFile
    /\ WorksOnFiles

(* Every step starts, ends, commits, publishes or works. *)
LEMMA StepKinds ==
    ASSUME TypeOK, [Next]_vars
    PROVE  Boots \/ Halts \/ CommitState \/ Publish \/ Works
<1> USE DEF files, daemon
<1>1. SameButNodes(mem, mem)
  BY DEF SameButNodes
<1>2. CASE EditConfig
  BY <1>1, <1>2 DEF EditConfig, Works, WorksOnFiles, up
<1>3. CASE Start
  <2> DEFINE p  == BootProfile(BootState(disk, config), config)
             st == ActivateSubscription(BootState(disk, config), p)
  <2>1. PICK m \in StartupSnapshot(st, p, config) :
          IF m = None
          THEN UNCHANGED <<phase, daemon>>
          ELSE /\ phase' = "boot" /\ mem' = st
               /\ runtime' = [active |-> p, pool |-> m, cat |-> config.cat,
                              generation |-> 0, default |-> config.default]
    BY <1>3 DEF Start
  <2>2. ~up /\ UNCHANGED <<config, files, bareFile, txn, probe>>
    BY <1>3 DEF Start
  <2>3. CASE m = None
    BY <1>1, <2>1, <2>2, <2>3 DEF Works, WorksOnFiles, up
  <2>4. CASE m # None
    BY <2>1, <2>2, <2>4 DEF Boots, up
  <2> QED
    BY <2>3, <2>4
<1>4. CASE FinishBoot
  BY <1>1, <1>4 DEF FinishBoot, SaveAtomic, Works, WorksOnFiles, up
<1>5. CASE Crash \/ Shutdown
  BY <1>5 DEF Crash, Shutdown, Stopped, SaveAtomic, Halts, up, NoTxn
<1>6. ASSUME NEW p \in Profiles, BeginSwitch(p) PROVE Works
  BY <1>1, <1>6 DEF BeginSwitch, BeginTxn, NoTxn, Works, WorksOnFiles, up
<1>7. CASE BeginReload
  BY <1>1, <1>7 DEF BeginReload, BeginTxn, NoTxn, Works, WorksOnFiles, up
<1>8. CASE TxnStep
  <2>1. txn \in Txn
    BY DEF TypeOK
  <2>2. CASE PrepareFresh \/ PrepareCached \/ AcquireGate \/ StageClasses
    BY <1>1, <2>1, <2>2 DEF PrepareFresh, PrepareCached, AcquireGate, StageClasses, Advance, Works, WorksOnFiles, up, Txn
  <2>3. CASE AbortBeforeCommit \/ CommitCacheFails \/ CommitStateFails
    BY <1>1, <2>1, <2>3 DEF AbortBeforeCommit, CommitCacheFails, CommitStateFails, Abort, Advance,
                            NoTxn, Works, WorksOnFiles, up
  <2>4. CASE CommitCache
    BY <1>1, <2>1, <2>4 DEF CommitCache, Advance, Works, WorksOnFiles, up, Txn
  <2>5. CASE FinishTxn
    BY <1>1, <2>1, <2>5 DEF FinishTxn, SaveAtomic, Abort, Advance, NoTxn, Works, WorksOnFiles, up, TypeOK
  <2> QED
    BY <1>8, <2>2, <2>3, <2>4, <2>5 DEF TxnStep
<1>9. CASE SharedStep
  <2>1. \A src : Record(src) => SameButNodes(mem', mem)
    BY DEF Record, SameButNodes, TypeOK, StateFile
  <2>2. CASE ProbeCycle
    BY <2>1, <2>2 DEF ProbeCycle, SaveAtomic, Works, WorksOnFiles, up
  <2>3. CASE HealthRecord
    BY <2>1, <2>3 DEF HealthRecord, Works, WorksOnFiles, up
  <2>4. CASE ProbeNowPool \/ ProbeNowEra
    BY <1>1, <2>4 DEF ProbeNowPool, ProbeNowEra, ProbeStep, Works, WorksOnFiles, up
  <2>5. CASE ProbeNowNode
    BY <1>1, <2>1, <2>5 DEF ProbeNowNode, ProbeStep, Works, WorksOnFiles, up
  <2>6. CASE ProbeNowSave
    BY <1>1, <2>6 DEF ProbeNowSave, ProbeStep, SaveAtomic, Works, WorksOnFiles, up, TypeOK
  <2> QED
    BY <1>9, <2>2, <2>3, <2>4, <2>5, <2>6 DEF SharedStep
<1>10. CASE UNCHANGED vars
  BY <1>1, <1>10 DEF vars, Works, WorksOnFiles, up
<1> QED
  BY <1>2, <1>3, <1>4, <1>5, <1>6, <1>7, <1>8, <1>9, <1>10 DEF Next, TxnStep

(* Types of the running daemon. *)
LEMMA RunningTypes ==
    ASSUME TypeOK
    PROVE  /\ mem \in StateFile /\ config \in Configs /\ config.cat \in Catalog
           /\ up => runtime.cat \in Catalog /\ runtime.active \in Profiles
           /\ txn.cat \in Catalog /\ txn.next \in StateFile
           /\ txn.pc # "idle" => up /\ txn.target \in Profiles /\ txn.target \in Configured(txn.cat)
BY ConfigsAssumption DEF TypeOK, up, Runtime, Txn, Configured

(* The record of a published selection. *)
LEMMA PublishEffect ==
    ASSUME TypeOK, Publish
    PROVE  /\ up /\ up' /\ mem' = txn.next /\ UNCHANGED <<disk, slotFile, bareFile, config>>
           /\ runtime'.cat = txn.cat /\ runtime'.active = txn.target /\ runtime'.pool = txn.prep
           /\ txn'.pc = "save" /\ txn'.target = txn.target /\ txn'.cat = txn.cat
           /\ txn'.prep = txn.prep /\ txn'.fresh = txn.fresh /\ txn'.trusted = txn.trusted
BY DEF TypeOK, Publish, Advance, files, up, Txn, Runtime

(* The record of a committed selection. *)
LEMMA CommitEffect ==
    ASSUME TypeOK, CommitState
    PROVE  /\ up /\ up' /\ UNCHANGED <<mem, runtime, slotFile, bareFile, config>>
           /\ disk' = PersistedState(NextState) /\ NextState \in StateFile
           /\ txn.pc = "state" /\ txn'.pc = "publish" /\ txn'.next = NextState
           /\ txn'.target = txn.target /\ txn'.cat = txn.cat
           /\ txn'.prep = txn.prep /\ txn'.fresh = txn.fresh /\ txn'.trusted = txn.trusted
<1>1. NextState \in StateFile /\ txn \in Txn
  BY NextStateType DEF CommitState, TypeOK
<1> QED
  BY <1>1 DEF TypeOK, CommitState, Advance, daemon, up, Txn

-----------------------------------------------------------------------------
(* MemoryInv and SlotInv are inductive.                                     *)

(* Slot files other than the ones st references may change freely. *)
LEMMA OtherSlotsSound ==
    ASSUME NEW sf, NEW sf2, NEW st, SoundState(sf, st),
           \A p \in Profiles : st.slots[p] # None =>
               sf2[CacheOf[st.ids[p]]][st.slots[p]] = sf[CacheOf[st.ids[p]]][st.slots[p]]
    PROVE  SoundState(sf2, st)
BY DEF SoundState, SlotsHoldTrustedSource

(* commit_cache_slot spares every slot of a sound state that still           *)
(* references the confirmed slot of the target.                              *)
LEMMA ReplaceSlotSpares ==
    ASSUME CachesKeepTheirOwner, TypeOK, MemoryInv, txn.pc = "cache",
           WritesCache, ReplaceSlot,
           NEW st, SoundState(slotFile, st), st.slots[txn.target] = txn.confirmed
    PROVE  SoundState(slotFile', st)
<1>1. /\ txn.target \in Profiles /\ txn.cat[txn.target] # None
      /\ txn.prep.src = txn.cat[txn.target]
      /\ ~IsLocal(txn.prep.src)
  BY DEF MemoryInv, WritesCache, TypeOK, Configured
<1>2. PICK c \in Configs : txn.cat = c.cat
  BY DEF MemoryInv
<1>3. txn.confirmed # NextSlot
  BY NoneAssumption DEF NextSlot
<1>4. slotFile \in [Caches -> [Slots -> Manifest \cup {None}]]
  BY DEF TypeOK
<1>5. ASSUME NEW p \in Profiles, st.slots[p] # None
      PROVE  slotFile'[CacheOf[st.ids[p]]][st.slots[p]]
                = slotFile[CacheOf[st.ids[p]]][st.slots[p]]
  <2>1. st.ids[p] # None /\ ~IsLocal(st.ids[p])
    BY <1>5 DEF SoundState, SlotsHoldTrustedSource
  <2>2. PICK d \in Configs : d.cat[p] = st.ids[p]
    BY <2>1 DEF SoundState, IdsConfigured
  <2>3. CASE CacheOf[st.ids[p]] = CacheOf[txn.prep.src]
    <3>1. p = txn.target
      BY <1>1, <1>2, <2>1, <2>2, <2>3 DEF CachesKeepTheirOwner
    <3> QED
      BY <1>3, <1>4, <3>1 DEF ReplaceSlot
  <2>4. CASE CacheOf[st.ids[p]] # CacheOf[txn.prep.src]
    BY <1>4, <2>4 DEF ReplaceSlot
  <2> QED
    BY <2>3, <2>4
<1> QED
  BY <1>5, OtherSlotsSound

(* The state a transaction commits is sound (switch_subscription_locked). *)
LEMMA NextStateSound ==
    ASSUME TypeOK, MemoryInv, txn.pc = "state"
    PROVE  SoundState(slotFile, NextState)
<1>1. /\ mem \in StateFile /\ txn.cat \in Catalog
      /\ txn.target \in Profiles /\ txn.target \in Configured(txn.cat)
      /\ txn.slot \in Slots \cup {None}
  BY DEF TypeOK, Txn, Configured
<1>2. SoundState(slotFile, mem)
  BY DEF MemoryInv, TypeOK, up
<1>3. \E c \in Configs : txn.cat = c.cat
  BY DEF MemoryInv
<1> DEFINE fresh == IF txn.fresh THEN txn.target ELSE None
           A == ApplySubscriptionCatalog(mem, runtime.cat, txn.cat, fresh)
           B == ActivateSubscription(A, txn.target)
<1>4. /\ Inherits(A, mem) /\ IdsFrom(A, mem, txn.cat)
      /\ txn.fresh => A.ids[txn.target] = txn.cat[txn.target] /\ A.pending[txn.target] = None
  BY <1>1, <1>2, SoundTrust, ApplySlots
<1>5. A \in StateFile /\ B \in StateFile
  BY <1>1, ApplyType, ActivateType
<1> HIDE DEF A
<1>6. SameSlots(B, A)
  BY <1>1, <1>5, ActivateSlots
<1> HIDE DEF B
<1>7. SoundState(slotFile, A)
  BY <1>2, <1>3, <1>4, InheritSound
<1>8. SoundState(slotFile, B)
  BY <1>6, <1>7, SameSlotsSound
<1>9. CASE txn.slot = None
  BY <1>8, <1>9 DEF NextState, A, B
<1>10. CASE txn.slot # None
  <2> DEFINE C == [B EXCEPT !.slots[txn.target] = txn.slot]
  <2>1. /\ C.ids = B.ids /\ C.pending = B.pending
        /\ C.slots = [B.slots EXCEPT ![txn.target] = txn.slot]
        /\ B.slots \in [Profiles -> Slots \cup {None}]
    BY <1>5 DEF StateFile
  <2> HIDE DEF C
  <2>2. /\ txn.fresh /\ ~IsLocal(txn.prep.src)
        /\ txn.prep \in Manifest
        /\ txn.prep.src = txn.cat[txn.target] /\ txn.prep.src # None
        /\ slotFile[CacheOf[txn.prep.src]][txn.slot] = txn.prep
    BY <1>1, <1>10 DEF MemoryInv, TypeOK, Configured
  <2>3. B.ids[txn.target] = txn.prep.src /\ B.pending[txn.target] = None
    BY <1>4, <1>6, <2>2 DEF SameSlots
  <2>4. txn.prep # None
    BY <2>2, ManifestAssumption
  <2>5. SlotsHoldTrustedSource(slotFile, C)
    <3>1. /\ C.slots[txn.target] = txn.slot
          /\ \A p \in Profiles : p # txn.target => C.slots[p] = B.slots[p]
      BY <1>1, <2>1
    <3>2. \A p \in Profiles : p # txn.target /\ C.slots[p] # None =>
            /\ C.ids[p] # None /\ C.pending[p] = None /\ ~IsLocal(C.ids[p])
            /\ slotFile[CacheOf[C.ids[p]]][C.slots[p]] # None
            /\ slotFile[CacheOf[C.ids[p]]][C.slots[p]].src = C.ids[p]
      BY <1>8, <2>1, <3>1 DEF SoundState, SlotsHoldTrustedSource
    <3>3. /\ C.ids[txn.target] # None /\ C.pending[txn.target] = None /\ ~IsLocal(C.ids[txn.target])
          /\ slotFile[CacheOf[C.ids[txn.target]]][C.slots[txn.target]] # None
          /\ slotFile[CacheOf[C.ids[txn.target]]][C.slots[txn.target]].src = C.ids[txn.target]
      BY <2>1, <2>2, <2>3, <2>4, <3>1
    <3> QED
      BY <3>2, <3>3 DEF SlotsHoldTrustedSource
  <2>6. IdsConfigured(C)
    BY <1>8, <2>1 DEF SoundState, IdsConfigured
  <2> QED
    BY <1>10, <2>5, <2>6 DEF NextState, A, B, C, SoundState
<1> QED
  BY <1>9, <1>10

(* The state a start would serve is sound. *)
BootIsSound ==
    \A p \in Profiles : SoundState(slotFile, ActivateSubscription(BootState(disk, config), p))

(* A start from a sound file serves a sound state: it loads, reconciles and  *)
(* activates, which only drops slots (run, startup_snapshot).                *)
LEMMA BootSound ==
    ASSUME TypeOK, SlotInv
    PROVE  BootIsSound
<1> SUFFICES ASSUME NEW p \in Profiles
             PROVE  SoundState(slotFile, ActivateSubscription(BootState(disk, config), p))
  BY DEF BootIsSound
<1> DEFINE L == IF disk = None THEN DefaultState ELSE LoadedState(disk)
           R == ReconcileStartupSources(L, config.cat)
<1>1. config.cat \in Catalog /\ \E c \in Configs : config.cat = c.cat
  BY ConfigsAssumption DEF TypeOK
<1>2. L \in StateFile
  BY LoadType, DefaultType DEF TypeOK
<1>3. SoundState(slotFile, L)
  <2>1. CASE disk = None
    BY <2>1 DEF SoundState, SlotsHoldTrustedSource, IdsConfigured, DefaultState
  <2>2. CASE disk # None
    <3>1. SoundState(slotFile, disk)
      BY <2>2 DEF SlotInv
    <3> QED
      BY <2>2, <3>1, LoadSlots, SameSlotsSound
  <2> QED
    BY <2>1, <2>2
<1> HIDE DEF L
<1>4. Inherits(R, L) /\ IdsFrom(R, L, config.cat) /\ R \in StateFile
  BY <1>1, <1>2, <1>3, SoundTrust, ReconcileSlots, ReconcileType
<1> HIDE DEF R
<1>5. SoundState(slotFile, R)
  BY <1>1, <1>3, <1>4, InheritSound
<1>6. SoundState(slotFile, ActivateSubscription(R, p))
  BY <1>4, <1>5, ActivateSlots, SameSlotsSound
<1> QED
  BY <1>6 DEF BootState, R, L

(* Without save faults a save makes the file agree with memory. *)
LEMMA SaveSound ==
    ASSUME NEW st, SoundState(slotFile, st), Faults \subseteq {"probe"}, SaveAtomic(st)
    PROVE  SoundState(slotFile, disk') /\ SameSlots(disk', st) /\ disk' = PersistedState(st)
<1>1. disk' = PersistedState(st)
  BY DEF SaveAtomic
<1> QED
  BY <1>1, PersistSlots, SameSlotsSound

(* A saved state is not the missing file. *)
LEMMA SavedExists ==
    ASSUME NEW st \in StateFile
    PROVE  PersistedState(st) # None
BY PersistType, ManifestAssumption

(* A step that leaves the slots, memory, the runtime's catalog and the phase *)
(* alone preserves MemoryInv if it is right about the transaction.           *)
LEMMA MemoryInvTxnOnly ==
    ASSUME MemoryInv, UNCHANGED <<slotFile, mem, runtime, phase>>, txn'.pc \notin {"publish", "save"},
           txn'.pc # "idle" => /\ \E c \in Configs : txn'.cat = c.cat
                               /\ txn'.confirmed = mem.slots[txn'.target],
           txn'.fresh => txn'.prep.src = txn'.cat[txn'.target] /\ txn'.pc # "prepare",
           txn'.slot = None
    PROVE  MemoryInv'
BY DEF MemoryInv, up, BeforePublication

(* MemoryInv is preserved by every step of a daemon that starts from a sound *)
(* state, whatever saves fail.                                               *)
LEMMA MemoryInvStep ==
    ASSUME CachesKeepTheirOwner, BootIsSound, TypeOK, TypeOK', MemoryInv, [Next]_vars
    PROVE  MemoryInv'
<1> USE DEF up, files, daemon
<1>1. CASE EditConfig
  BY <1>1 DEF EditConfig, MemoryInv
<1>2. CASE Start
  <2> DEFINE p  == BootProfile(BootState(disk, config), config)
             st == ActivateSubscription(BootState(disk, config), p)
  <2>1. p \in Profiles /\ config \in Configs
    BY BootType DEF TypeOK, Configured
  <2>2. SoundState(slotFile, st)
    BY <2>1 DEF BootIsSound
  <2>3. \/ UNCHANGED <<phase, daemon>>
        \/ phase' = "boot" /\ mem' = st /\ runtime'.cat = config.cat
    BY <1>2 DEF Start
  <2> HIDE DEF p, st
  <2>4. UNCHANGED <<files, txn>> /\ phase = "down" /\ txn.pc = "idle"
    BY <1>2 DEF Start, TypeOK
  <2> QED
    BY <2>1, <2>2, <2>3, <2>4 DEF MemoryInv, BeforePublication
<1>3. CASE FinishBoot
  BY <1>3 DEF FinishBoot, MemoryInv
<1>4. CASE Crash
  BY <1>4 DEF Crash, Stopped, MemoryInv, NoTxn, BeforePublication
<1>5. CASE Shutdown
  BY <1>5 DEF Shutdown, Stopped, MemoryInv, NoTxn, BeforePublication
<1>6. ASSUME NEW p \in Profiles, BeginSwitch(p) PROVE MemoryInv'
  <2>1. \E c \in Configs : runtime.cat = c.cat
    BY <1>6 DEF BeginSwitch, MemoryInv
  <2> QED
    BY <1>6, <2>1, MemoryInvTxnOnly DEF BeginSwitch, BeginTxn, NoTxn
<1>7. CASE BeginReload
  <2>1. config \in Configs
    BY DEF TypeOK
  <2> QED
    BY <1>7, <2>1, MemoryInvTxnOnly DEF BeginReload, BeginTxn, NoTxn
<1>8. CASE TxnStep
  <2> USE DEF Advance, Abort
  <2>1. CASE PrepareFresh
    BY <2>1, MemoryInvTxnOnly DEF PrepareFresh, MemoryInv, BeforePublication, TypeOK, Txn
  <2>2. CASE PrepareCached
    <3>1. PICK m : txn' = [txn EXCEPT !.pc = "gate", !.prep = m]
      BY <2>2 DEF PrepareCached
    <3>2. /\ txn.pc = "prepare" /\ txn \in Txn /\ ~txn.fresh /\ txn.slot = None
          /\ UNCHANGED <<slotFile, mem, runtime, phase>>
      BY <2>2 DEF PrepareCached, MemoryInv, TypeOK
    <3>3. /\ txn'.pc = "gate" /\ txn'.cat = txn.cat /\ txn'.target = txn.target
          /\ txn'.confirmed = txn.confirmed /\ ~txn'.fresh /\ txn'.slot = None
      BY <3>1, <3>2 DEF Txn
    <3> QED
      BY <3>2, <3>3, MemoryInvTxnOnly DEF MemoryInv, BeforePublication
  <2>3. CASE AcquireGate
    BY <2>3, MemoryInvTxnOnly DEF AcquireGate, MemoryInv, BeforePublication, TypeOK, Txn
  <2>4. CASE StageClasses
    BY <2>4, MemoryInvTxnOnly DEF StageClasses, MemoryInv, BeforePublication, TypeOK, Txn
  <2>5. CASE AbortBeforeCommit
    BY <2>5, MemoryInvTxnOnly DEF AbortBeforeCommit, NoTxn
  <2>6. CASE CommitCache
    <3>1. /\ txn.pc = "cache" /\ phase = "serve" /\ txn.slot = None
          /\ txn.confirmed = mem.slots[txn.target]
          /\ txn \in Txn /\ txn.target \in Profiles
      BY <2>6 DEF CommitCache, MemoryInv, TypeOK, Configured, BeforePublication
    <3>2. SoundState(slotFile, mem)
      BY <3>1 DEF MemoryInv
    <3>3. CASE WritesCache
      <4>1. ReplaceSlot
        BY <2>6, <3>3 DEF CommitCache
      <4>2. SoundState(slotFile', mem)
        BY <3>1, <3>2, <3>3, <4>1, ReplaceSlotSpares
      <4>3. slotFile'[CacheOf[txn.prep.src]][NextSlot] = txn.prep
        <5>1. CacheOf[txn.prep.src] \in Caches /\ NextSlot \in Slots
          BY <3>1, <3>3, CacheOfAssumption
             DEF WritesCache, IsLocal, TypeOK, Manifest, NextSlot, Slots
        <5> QED
          BY <4>1, <5>1 DEF ReplaceSlot, TypeOK
      <4>4. /\ txn' = [txn EXCEPT !.pc = "state", !.slot = NextSlot]
            /\ UNCHANGED <<mem, runtime, phase>>
        BY <2>6, <3>3 DEF CommitCache
      <4>5. /\ txn'.pc = "state" /\ txn'.slot = NextSlot /\ txn'.cat = txn.cat
            /\ txn'.confirmed = txn.confirmed /\ txn'.target = txn.target
            /\ txn'.fresh = txn.fresh /\ txn'.prep = txn.prep
        BY <3>1, <4>4 DEF Txn
      <4>6. txn.fresh /\ ~IsLocal(txn.prep.src)
        BY <3>3 DEF WritesCache
      <4> QED
        BY <3>1, <3>2, <4>2, <4>3, <4>4, <4>5, <4>6 DEF MemoryInv, IsLocal
    <3>4. CASE ~WritesCache
      BY <2>6, <3>1, <3>4, MemoryInvTxnOnly DEF CommitCache, MemoryInv, Txn
    <3> QED
      BY <3>3, <3>4
  <2>7. CASE CommitCacheFails
    <3>1. /\ txn.pc = "cache" /\ WritesCache /\ ReplaceSlot
          /\ txn' = NoTxn /\ UNCHANGED <<mem, runtime, phase>> /\ txn.target \in Profiles
      BY <2>7 DEF CommitCacheFails, TypeOK, Configured
    <3>2. phase # "down" => SoundState(slotFile', mem)
      BY <3>1, ReplaceSlotSpares DEF MemoryInv, BeforePublication
    <3> QED
      BY <3>1, <3>2 DEF MemoryInv, NoTxn, BeforePublication
  <2>8. CASE CommitState
    <3>1. /\ txn.pc = "state" /\ phase = "serve" /\ txn \in Txn
          /\ txn' = [txn EXCEPT !.pc = "publish", !.next = NextState]
          /\ UNCHANGED <<slotFile, mem, runtime, phase>>
      BY <2>8 DEF CommitState, TypeOK
    <3>2. SoundState(slotFile, NextState)
      BY <3>1, NextStateSound
    <3>3. /\ txn'.pc = "publish" /\ txn'.next = NextState /\ txn'.cat = txn.cat
          /\ txn'.target = txn.target
          /\ txn'.fresh = txn.fresh /\ txn'.prep = txn.prep
      BY <3>1 DEF Txn
    <3> QED
      BY <3>1, <3>2, <3>3 DEF MemoryInv, BeforePublication
  <2>9. CASE CommitStateFails
    BY <2>9, MemoryInvTxnOnly DEF CommitStateFails, NoTxn
  <2>10. CASE Publish
    <3>1. /\ txn.pc = "publish" /\ phase = "serve" /\ txn \in Txn
          /\ runtime \in Runtime /\ mem' = txn.next
          /\ txn' = [txn EXCEPT !.pc = "save", !.next = DefaultState]
          /\ runtime' = [runtime EXCEPT !.active = txn.target, !.pool = txn.prep,
                                        !.cat = txn.cat, !.generation = @ + 1]
          /\ UNCHANGED <<slotFile, phase>>
      BY <2>10 DEF Publish, TypeOK
    <3>2. runtime'.cat = txn.cat
      BY <3>1 DEF Runtime
    <3>3. /\ txn'.pc = "save" /\ txn'.cat = txn.cat /\ txn'.target = txn.target
          /\ txn'.fresh = txn.fresh /\ txn'.prep = txn.prep
      BY <3>1 DEF Txn
    <3> QED
      BY <3>1, <3>2, <3>3 DEF MemoryInv, BeforePublication
  <2>11. CASE FinishTxn
    BY <2>11, MemoryInvTxnOnly DEF FinishTxn, NoTxn
  <2> QED
    BY <1>8, <2>1, <2>2, <2>3, <2>4, <2>5, <2>6, <2>7, <2>8, <2>9, <2>10, <2>11
       DEF TxnStep
<1>9. CASE SharedStep
  <2>1. ASSUME NEW src, Record(src), phase # "down", UNCHANGED slotFile
        PROVE  SameSlots(mem', mem) /\ SoundState(slotFile, mem')
    <3>1. SameSlots(mem', mem)
      BY <2>1 DEF Record, SameSlots, TypeOK, StateFile
    <3>2. SoundState(slotFile, mem)
      BY <2>1 DEF MemoryInv
    <3> QED
      BY <3>1, <3>2, SameSlotsSound
  <2>2. CASE ProbeCycle \/ HealthRecord
    <3>1. /\ phase # "down" /\ Record(runtime.pool.src)
          /\ UNCHANGED <<slotFile, phase, runtime, txn>>
      BY <2>2 DEF ProbeCycle, HealthRecord
    <3>2. SameSlots(mem', mem) /\ SoundState(slotFile, mem')
      BY <2>1, <3>1
    <3> QED
      BY <3>1, <3>2 DEF MemoryInv, SameSlots
  <2>3. CASE ProbeNowPool \/ ProbeNowEra \/ ProbeNowSave
    BY <2>3 DEF ProbeNowPool, ProbeNowEra, ProbeNowSave, ProbeStep, MemoryInv
  <2>4. CASE ProbeNowNode
    <3>1. UNCHANGED <<slotFile, phase, runtime, txn>> /\ phase # "down"
      BY <2>4 DEF ProbeNowNode, ProbeStep, TypeOK
    <3>2. CASE UNCHANGED mem
      BY <3>1, <3>2 DEF MemoryInv
    <3>3. CASE Record(probe.src)
      <4>1. SameSlots(mem', mem) /\ SoundState(slotFile, mem')
        BY <2>1, <3>1, <3>3
      <4> QED
        BY <3>1, <4>1 DEF MemoryInv, SameSlots
    <3> QED
      BY <2>4, <3>2, <3>3 DEF ProbeNowNode
  <2> QED
    BY <1>9, <2>2, <2>3, <2>4 DEF SharedStep
<1>10. CASE UNCHANGED vars
  BY <1>10 DEF vars, MemoryInv
<1> QED
  BY <1>1, <1>2, <1>3, <1>4, <1>5, <1>6, <1>7, <1>8, <1>9, <1>10 DEF Next

(* SlotInv is preserved by every step of a daemon whose saves succeed. *)
LEMMA SlotInvStep ==
    ASSUME CachesKeepTheirOwner, Faults \subseteq {"probe"},
           TypeOK, TypeOK', SlotInv, [Next]_vars
    PROVE  SlotInv'
<1> USE DEF up, files, daemon
<1>1. MemoryInv /\ MemoryInv'
  BY BootSound, MemoryInvStep DEF SlotInv
<1> DEFINE Agreed == phase = "serve" /\ txn.pc \notin {"publish", "save"} =>
                       disk # None /\ SameSlots(disk, mem)
<1>2. Agreed /\ (disk # None => SoundState(slotFile, disk)) /\ (phase # "down" => SoundState(slotFile, mem))
  BY <1>1 DEF SlotInv, MemoryInv
<1>3. disk' # None => SoundState(slotFile', disk')
  <2>1. CASE Boots \/ Publish
    BY <1>2, <2>1, PublishEffect DEF Boots
  <2>2. CASE Halts
    BY <1>2, <2>2, PersistSlots, SameSlotsSound DEF Halts
  <2>3. CASE CommitState
    BY <1>1, <2>3, CommitEffect, NextStateSound, PersistSlots, SameSlotsSound
  <2>4. CASE Works
    <3>1. CASE slotFile' = slotFile
      <4>1. SoundState(slotFile, PersistedState(mem')) \/ phase = "down"
        BY <1>2, <2>4, SameSlotsSound DEF Works, PersistedState, SameButNodes, SameSlots
      <4> QED
        BY <1>2, <2>4, <3>1, <4>1 DEF Works
    <3>2. CASE txn.pc = "cache" /\ WritesCache /\ ReplaceSlot /\ disk' = disk
      <4>1. txn.target \in Profiles /\ txn.confirmed = mem.slots[txn.target] /\ phase = "serve"
        BY <1>1, <3>2 DEF MemoryInv, BeforePublication, TypeOK, Configured
      <4>2. disk.slots[txn.target] = txn.confirmed /\ SoundState(slotFile, disk)
        BY <1>2, <3>2, <4>1 DEF SameSlots
      <4> QED
        BY <1>1, <3>2, <4>2, ReplaceSlotSpares
    <3> QED
      BY <2>4, <3>1, <3>2 DEF Works, WorksOnFiles
  <2> QED
    BY <2>1, <2>2, <2>3, <2>4, StepKinds
<1>4. Agreed'
  <2>1. /\ mem \in StateFile /\ mem' \in StateFile
        /\ \A st \in StateFile : SaveAtomic(st) => disk' # None /\ SameSlots(disk', st)
    BY SavedExists, PersistSlots DEF TypeOK, SaveAtomic
  <2>2. CASE EditConfig \/ BeginReload \/ \E p \in Profiles : BeginSwitch(p)
    BY <1>2, <2>2 DEF EditConfig, BeginReload, BeginSwitch, BeginTxn
  <2>3. CASE Start \/ Crash \/ Shutdown
    BY <2>3 DEF Start, Crash, Shutdown, Stopped
  <2>4. CASE FinishBoot
    BY <2>1, <2>4 DEF FinishBoot
  <2>5. CASE TxnStep
    <3>1. CASE CommitState \/ Publish
      BY <3>1, CommitEffect, PublishEffect
    <3>2. CASE FinishTxn
      BY <2>1, <3>2 DEF FinishTxn
    <3> QED
      BY <1>2, <2>5, <3>1, <3>2 DEF TxnStep, PrepareFresh, PrepareCached, AcquireGate, StageClasses,
          AbortBeforeCommit, CommitCache, CommitCacheFails, CommitStateFails, Advance, Abort
  <2>6. CASE SharedStep
    <3>1. \A src : Record(src) => SameSlots(mem', mem)
      BY DEF Record, SameSlots, TypeOK, StateFile
    <3>2. CASE ProbeCycle
      BY <2>1, <3>2 DEF ProbeCycle
    <3>3. CASE ProbeNowSave
      BY <2>1, <3>3 DEF ProbeNowSave, ProbeStep
    <3>4. CASE HealthRecord \/ ProbeNowPool \/ ProbeNowEra \/ ProbeNowNode
      <4>1. UNCHANGED <<disk, phase, txn>> /\ (mem' = mem \/ SameSlots(mem', mem))
        BY <3>1, <3>4 DEF HealthRecord, ProbeNowPool, ProbeNowEra, ProbeNowNode, ProbeStep
      <4> QED
        BY <1>2, <4>1 DEF SameSlots
    <3> QED
      BY <2>6, <3>2, <3>3, <3>4 DEF SharedStep
  <2>7. CASE UNCHANGED vars
    BY <1>2, <2>7 DEF vars
  <2> QED
    BY <2>2, <2>3, <2>4, <2>5, <2>6, <2>7 DEF Next
<1> QED
  BY <1>1, <1>3, <1>4 DEF SlotInv

(* SlotInv of the specification. *)
LEMMA SlotInvariant ==
    ASSUME CachesKeepTheirOwner, Faults \subseteq {"probe"}
    PROVE  Spec => []SlotInv
<1>1. Init => SlotInv
  BY DEF Init, SlotInv, MemoryInv, NoTxn, up, BeforePublication
<1>2. TypeOK /\ TypeOK' /\ SlotInv /\ [Next]_vars => SlotInv'
  BY SlotInvStep
<1> QED
  BY <1>1, <1>2, TypeCorrect, PTL DEF Spec

(* The A/B slots work: as long as saves succeed, paths come up at boot and   *)
(* no cache file changes its profile name, every slot that memory or the     *)
(* state file references holds a manifest of that profile's trusted source,  *)
(* whatever step a crash interrupts (commit_cache_slot).                     *)
THEOREM SlotsTrusted ==
    ASSUME CachesKeepTheirOwner, Faults \subseteq {"probe"}
    PROVE  Spec => [](LiveSlotsTrusted /\ DurableSlotsTrusted)
<1>1. SlotInv => LiveSlotsTrusted /\ DurableSlotsTrusted
  BY DEF SlotInv, MemoryInv, LiveSlotsTrusted, DurableSlotsTrusted, SoundState
<1> QED
  BY <1>1, SlotInvariant, PTL
=============================================================================
