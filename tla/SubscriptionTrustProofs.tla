---------------------- MODULE SubscriptionTrustProofs ----------------------
(***************************************************************************)
(* Proofs about SubscriptionTxn, continued: what the state keeps for a     *)
(* profile, which manifest is served, whose statistics are kept, and that  *)
(* SubscriptionTxn implements AtomicSelection while the configuration file *)
(* stays the same: saves may fail at any point, a start may save nothing,  *)
(* and the process may die between any two steps.                          *)
(***************************************************************************)
EXTENDS SubscriptionTxnProofs

-----------------------------------------------------------------------------
(* The two reconciliations, profile by profile.                             *)

(* A configured profile whose saved identity or marker is of another source. *)
Mismatch(st, cat, p) == st.ids[p] \notin {None, cat[p]} \/ st.pending[p] \notin {None, cat[p]}

(* The entries of p in r and st are the same. *)
SameEntry(r, st, p) ==
    /\ r.slots[p] = st.slots[p] /\ r.ids[p] = st.ids[p]
    /\ r.pending[p] = st.pending[p] /\ r.parked[p] = st.parked[p]

(* Nothing is kept for p but what the flat view of an active p holds. *)
EmptyEntry(r, p) == r.slots[p] = None /\ r.ids[p] = None /\ r.pending[p] = None /\ r.parked[p] = {}

(* p waits behind a changed source; its statistics are dropped. *)
PendingEntry(r, st, cat, p) ==
    /\ r.slots[p] = None /\ r.ids[p] = None /\ r.pending[p] = cat[p]
    /\ r.parked[p] = IF st.active = p THEN st.parked[p] ELSE {}

(* p is trusted as the source of the catalog; slot and parked view stay. *)
TrustedEntry(r, st, cat, p) ==
    /\ r.slots[p] = st.slots[p] /\ r.ids[p] = cat[p]
    /\ r.pending[p] = None /\ r.parked[p] = st.parked[p]

(* What remains of the flat view once the profiles of S lost theirs. *)
FlatView(r, st, cat, stale) ==
    /\ r.active = IF st.active \in KnownNames(st) \ Configured(cat) THEN None ELSE st.active
    /\ r.nodes = IF st.active \in (KnownNames(st) \ Configured(cat)) \cup stale THEN {} ELSE st.nodes

(* reconcile_startup_sources, profile by profile. *)
LEMMA ReconcileEntry ==
    ASSUME NEW st \in StateFile, NEW cat \in Catalog, NEW r,
           r = ReconcileStartupSources(st, cat)
    PROVE  /\ \A p \in Profiles \ Configured(cat) : EmptyEntry(r, p)
           /\ \A p \in Configured(cat) :
                /\ Mismatch(st, cat, p) => PendingEntry(r, st, cat, p)
                /\ ~Mismatch(st, cat, p) /\ st.ids[p] = None /\ st.pending[p] = None =>
                      TrustedEntry(r, st, cat, p)
                /\ ~Mismatch(st, cat, p) /\ ~(st.ids[p] = None /\ st.pending[p] = None) =>
                      SameEntry(r, st, p)
           /\ FlatView(r, st, cat, {p \in Configured(cat) : Mismatch(st, cat, p)})
<1> DEFINE gone  == KnownNames(st) \ Configured(cat)
           kept  == RemoveSubscriptions(st, gone)
           stale == PersistedMismatch(kept, cat)
           bound == InvalidateSources(kept, stale, cat)
           adopt == {p \in Configured(cat) : bound.pending[p] = None /\ bound.ids[p] = None}
<1>1. kept \in StateFile /\ bound \in StateFile
  BY RemoveType, InvalidateType
<1>2. \A p \in Profiles : /\ p \in Configured(cat) => p \notin gone /\ SameEntry(kept, st, p)
                          /\ p \notin Configured(cat) => EmptyEntry(kept, p)
  BY DEF RemoveSubscriptions, KnownNames, SameEntry, EmptyEntry, StateFile
<1>3. /\ kept.active = IF st.active \in gone THEN None ELSE st.active
      /\ kept.nodes = IF st.active \in gone THEN {} ELSE st.nodes
  BY DEF RemoveSubscriptions
<1>4. \A p \in Profiles :
         /\ bound.slots[p] = IF p \in stale THEN None ELSE kept.slots[p]
         /\ bound.ids[p] = IF p \in stale THEN None ELSE kept.ids[p]
         /\ bound.pending[p] = IF p \in stale THEN cat[p] ELSE kept.pending[p]
         /\ bound.parked[p] = IF p \in stale /\ kept.active # p THEN {} ELSE kept.parked[p]
  BY DEF InvalidateSources
<1>5. bound.active = kept.active /\ bound.nodes = IF kept.active \in stale THEN {} ELSE kept.nodes
  BY DEF InvalidateSources
<1>6. stale = {p \in Configured(cat) : Mismatch(st, cat, p)}
  BY <1>2 DEF PersistedMismatch, Mismatch, SameEntry, Configured
<1>7. Configured(cat) \subseteq Profiles /\ None \notin Profiles /\ gone \subseteq Profiles
  BY NoneAssumption DEF Configured, KnownNames
<1> HIDE DEF kept, stale, bound
<1>8. \A p \in Profiles :
         /\ r.slots[p] = bound.slots[p] /\ r.parked[p] = bound.parked[p]
         /\ r.ids[p] = IF p \in adopt THEN cat[p] ELSE bound.ids[p]
         /\ r.pending[p] = IF p \in adopt THEN None ELSE bound.pending[p]
  BY <1>1 DEF ReconcileStartupSources, TrustSources, StateFile, kept, stale, bound
<1>9. r.active = bound.active /\ r.nodes = bound.nodes
  BY <1>1 DEF ReconcileStartupSources, TrustSources, StateFile, kept, stale, bound
<1> HIDE DEF gone
<1>10. ASSUME NEW p \in Profiles \ Configured(cat) PROVE EmptyEntry(r, p)
  <2>1. p \notin stale /\ p \notin adopt /\ EmptyEntry(kept, p)
    BY <1>2, <1>6
  <2> QED
    BY <1>4, <1>8, <2>1 DEF EmptyEntry
<1>11. ASSUME NEW p \in Configured(cat), Mismatch(st, cat, p) PROVE PendingEntry(r, st, cat, p)
  <2>1. p \in Profiles /\ p \in stale /\ p \notin gone /\ cat[p] # None /\ SameEntry(kept, st, p)
    BY <1>2, <1>6, <1>7, <1>11 DEF Configured
  <2>2. p \notin adopt
    BY <1>4, <2>1
  <2>3. kept.active = p <=> st.active = p
    BY <1>3, <1>7, <2>1
  <2> QED
    BY <1>4, <1>8, <2>1, <2>2, <2>3 DEF PendingEntry, SameEntry
<1>12. ASSUME NEW p \in Configured(cat), ~Mismatch(st, cat, p)
       PROVE  IF st.ids[p] = None /\ st.pending[p] = None
              THEN TrustedEntry(r, st, cat, p) ELSE SameEntry(r, st, p)
  <2>1. p \in Profiles /\ p \notin stale /\ SameEntry(kept, st, p)
    BY <1>2, <1>6, <1>7, <1>12
  <2>2. p \in adopt <=> st.ids[p] = None /\ st.pending[p] = None
    BY <1>4, <2>1 DEF SameEntry
  <2> HIDE DEF adopt
  <2> QED
    BY <1>4, <1>8, <2>1, <2>2 DEF TrustedEntry, SameEntry
<1>13. FlatView(r, st, cat, stale)
  <2>1. stale \cap gone = {} /\ None \notin stale
    BY <1>2, <1>6, <1>7
  <2> QED
    BY <1>3, <1>5, <1>9, <2>1 DEF FlatView, gone
<1> QED
  BY <1>6, <1>10, <1>11, <1>12, <1>13

(* S is the set of profiles that a new catalog invalidates. *)
Invalidated(S, st, prev, cat) ==
    /\ S \in SUBSET Configured(cat)
    /\ \A p \in Configured(cat) : p \in S <=> prev[p] # cat[p] \/ Mismatch(st, cat, p)

(* What a new catalog makes of each profile. *)
Applied(r, st, cat, fresh, S) ==
    /\ \A p \in Profiles \ Configured(cat) : EmptyEntry(r, p)
    /\ \A p \in Configured(cat) \ {fresh} :
         /\ p \in S => PendingEntry(r, st, cat, p)
         /\ p \notin S => SameEntry(r, st, p)
    /\ fresh \in Configured(cat) =>
         /\ r.ids[fresh] = cat[fresh] /\ r.pending[fresh] = None
         /\ r.slots[fresh] = IF fresh \in S THEN None ELSE st.slots[fresh]
         /\ r.parked[fresh] = IF fresh \in S /\ st.active # fresh THEN {} ELSE st.parked[fresh]
    /\ FlatView(r, st, cat, S)

(* apply_subscription_catalog, profile by profile. *)
LEMMA ApplyEntry ==
    ASSUME NEW st \in StateFile, NEW prev, NEW cat \in Catalog,
           NEW fresh \in Profiles \cup {None}, NEW r,
           r = ApplySubscriptionCatalog(st, prev, cat, fresh),
           NEW S, Invalidated(S, st, prev, cat)
    PROVE  Applied(r, st, cat, fresh, S)
<1> DEFINE gone  == KnownNames(st) \ Configured(cat)
           kept  == RemoveSubscriptions(st, gone)
           stale == {p \in Configured(cat) : prev[p] # cat[p]} \cup PersistedMismatch(kept, cat)
           bound == InvalidateSources(kept, stale, cat)
<1>1. kept \in StateFile /\ bound \in StateFile
  BY RemoveType, InvalidateType
<1>2. \A p \in Profiles : /\ p \in Configured(cat) => p \notin gone /\ SameEntry(kept, st, p)
                          /\ p \notin Configured(cat) => EmptyEntry(kept, p)
  BY DEF RemoveSubscriptions, KnownNames, SameEntry, EmptyEntry, StateFile
<1>3. /\ kept.active = IF st.active \in gone THEN None ELSE st.active
      /\ kept.nodes = IF st.active \in gone THEN {} ELSE st.nodes
  BY DEF RemoveSubscriptions
<1>4. \A p \in Profiles :
         /\ bound.slots[p] = IF p \in stale THEN None ELSE kept.slots[p]
         /\ bound.ids[p] = IF p \in stale THEN None ELSE kept.ids[p]
         /\ bound.pending[p] = IF p \in stale THEN cat[p] ELSE kept.pending[p]
         /\ bound.parked[p] = IF p \in stale /\ kept.active # p THEN {} ELSE kept.parked[p]
  BY DEF InvalidateSources
<1>5. bound.active = kept.active /\ bound.nodes = IF kept.active \in stale THEN {} ELSE kept.nodes
  BY DEF InvalidateSources
<1>6. stale = S /\ S \subseteq Configured(cat)
  <2>1. \A p \in Configured(cat) : p \in stale <=> prev[p] # cat[p] \/ Mismatch(st, cat, p)
    BY <1>2 DEF PersistedMismatch, Mismatch, SameEntry, Configured
  <2>2. stale \subseteq Configured(cat)
    BY DEF PersistedMismatch
  <2> HIDE DEF stale
  <2> QED
    BY <2>1, <2>2 DEF Invalidated
<1>7. Configured(cat) \subseteq Profiles /\ None \notin Profiles /\ gone \subseteq Profiles
  BY NoneAssumption DEF Configured, KnownNames
<1>8. \A p \in Configured(cat) : kept.active = p <=> st.active = p
  BY <1>2, <1>3, <1>7
<1> HIDE DEF kept, stale, bound
<1>9. \A p \in Profiles :
         /\ r.slots[p] = bound.slots[p] /\ r.parked[p] = bound.parked[p]
         /\ r.ids[p] = IF p = fresh /\ p \in Configured(cat) THEN cat[p] ELSE bound.ids[p]
         /\ r.pending[p] = IF p = fresh /\ p \in Configured(cat) THEN None ELSE bound.pending[p]
  BY <1>1 DEF ApplySubscriptionCatalog, TrustSources, StateFile, kept, stale, bound
<1>10. r.active = bound.active /\ r.nodes = bound.nodes
  BY <1>1 DEF ApplySubscriptionCatalog, TrustSources, StateFile, kept, stale, bound
<1> HIDE DEF gone
<1>11. ASSUME NEW p \in Profiles \ Configured(cat) PROVE EmptyEntry(r, p)
  BY <1>2, <1>4, <1>6, <1>9 DEF EmptyEntry
<1>12. ASSUME NEW p \in Configured(cat) \ {fresh}
       PROVE  /\ p \in S => PendingEntry(r, st, cat, p)
              /\ p \notin S => SameEntry(r, st, p)
  <2>1. p \in Profiles /\ SameEntry(kept, st, p) /\ p # fresh /\ (kept.active = p <=> st.active = p)
    BY <1>2, <1>7, <1>8
  <2>2. /\ r.slots[p] = bound.slots[p] /\ r.parked[p] = bound.parked[p]
        /\ r.ids[p] = bound.ids[p] /\ r.pending[p] = bound.pending[p]
    BY <1>9, <2>1
  <2>3. CASE p \in S
    BY <1>4, <1>6, <2>1, <2>2, <2>3 DEF PendingEntry, SameEntry
  <2>4. CASE p \notin S
    BY <1>4, <1>6, <2>1, <2>2, <2>4 DEF SameEntry
  <2> QED
    BY <2>3, <2>4
<1>13. ASSUME fresh \in Configured(cat)
       PROVE  /\ r.ids[fresh] = cat[fresh] /\ r.pending[fresh] = None
              /\ r.slots[fresh] = IF fresh \in S THEN None ELSE st.slots[fresh]
              /\ r.parked[fresh] = IF fresh \in S /\ st.active # fresh THEN {} ELSE st.parked[fresh]
  BY <1>2, <1>4, <1>6, <1>7, <1>8, <1>9, <1>13 DEF SameEntry
<1>14. FlatView(r, st, cat, S)
  <2>1. stale \cap gone = {} /\ None \notin stale
    BY <1>2, <1>6, <1>7
  <2> QED
    BY <1>3, <1>5, <1>6, <1>10, <2>1 DEF FlatView, gone
<1> QED
  BY <1>11, <1>12, <1>13, <1>14 DEF Applied

-----------------------------------------------------------------------------
(* EntryInv: what the state keeps for a profile.                            *)

(* A bound entry is trusted or pending, never both and never neither. *)
LEMMA BoundEntry ==
    ASSUME NEW st \in StateFile, NEW cat \in Catalog
    PROVE  BoundTo(st, cat) <=>
             \A p \in Profiles :
               /\ \/ st.ids[p] = None /\ st.pending[p] = cat[p]
                  \/ st.ids[p] = cat[p] /\ st.pending[p] = None
               /\ p \notin Configured(cat) => st.slots[p] = None /\ st.parked[p] = {}
BY DEF BoundTo

(* activate_subscription keeps the entries bound and one copy of the view. *)
LEMMA ActivateBound ==
    ASSUME NEW st \in StateFile, NEW cat \in Catalog, NEW p \in Configured(cat), BoundTo(st, cat),
           st.active \in Configured(cat) \cup {None}, st.active = p => st.parked[p] = {}
    PROVE  BoundState(ActivateSubscription(st, p), cat, p)
<1> DEFINE a == ActivateSubscription(st, p)
<1>1. p \in Profiles /\ a \in StateFile
  BY ActivateType DEF Configured
<1>2. CASE st.active = p
  BY <1>2 DEF ActivateSubscription, BoundState
<1>3. CASE st.active # p
  <2>1. /\ a.active = p /\ a.slots = st.slots /\ a.ids = st.ids /\ a.pending = st.pending
        /\ a.parked[p] = {}
        /\ \A q \in Profiles : q # p /\ q # st.active => a.parked[q] = st.parked[q]
    BY <1>1, <1>3 DEF ActivateSubscription, StateFile
  <2>2. \A q \in Profiles \ Configured(cat) : q # p /\ q # st.active
    BY NoneAssumption
  <2> HIDE DEF a
  <2>3. \A q \in Profiles \ Configured(cat) : a.parked[q] = st.parked[q]
    BY <2>1, <2>2
  <2>4. BoundTo(a, cat)
    BY <2>1, <2>3 DEF BoundTo
  <2> QED
    BY <2>1, <2>4 DEF BoundState, a
<1> QED
  BY <1>2, <1>3

(* A start binds the state to its configuration (run). *)
LEMMA BootBound ==
    ASSUME NEW d \in WireState \cup {None}, d # None => SavedBound(d), NEW c \in Configs
    PROVE  LET p == BootProfile(BootState(d, c), c)
           IN  BoundState(ActivateSubscription(BootState(d, c), p), c.cat, p)
<1> DEFINE st == IF d = None THEN DefaultState ELSE LoadedState(d)
           r  == BootState(d, c)
           p  == BootProfile(r, c)
<1>1. c.cat \in Catalog /\ st \in StateFile /\ r \in StateFile /\ p \in Configured(c.cat)
  BY ConfigsAssumption, LoadType, DefaultType, BootType
<1>2. /\ \A q \in Profiles : st.ids[q] = None \/ st.pending[q] = None
      /\ st.active # None =>
            /\ st.active \in KnownNames(st)
            /\ st.parked[st.active] = {}
  <2>1. CASE d = None
    BY <2>1 DEF DefaultState
  <2>2. CASE d # None
    BY <2>2 DEF LoadedState, SavedBound, WireState, KnownNames
  <2> QED
    BY <2>1, <2>2
<1>3. r = ReconcileStartupSources(st, c.cat)
  BY DEF BootState
<1> HIDE DEF st, r
<1>4. /\ \A q \in Profiles \ Configured(c.cat) : EmptyEntry(r, q)
      /\ \A q \in Configured(c.cat) :
           /\ Mismatch(st, c.cat, q) => PendingEntry(r, st, c.cat, q)
           /\ ~Mismatch(st, c.cat, q) /\ st.ids[q] = None /\ st.pending[q] = None =>
                 TrustedEntry(r, st, c.cat, q)
           /\ ~Mismatch(st, c.cat, q) /\ ~(st.ids[q] = None /\ st.pending[q] = None) =>
                 SameEntry(r, st, q)
      /\ FlatView(r, st, c.cat, {q \in Configured(c.cat) : Mismatch(st, c.cat, q)})
  BY <1>1, <1>3, ReconcileEntry
<1>5. BoundTo(r, c.cat)
  <2>1. ASSUME NEW q \in Profiles
        PROVE  /\ \/ r.ids[q] = None /\ r.pending[q] = c.cat[q]
                  \/ r.ids[q] = c.cat[q] /\ r.pending[q] = None
               /\ q \notin Configured(c.cat) => r.slots[q] = None /\ r.parked[q] = {}
    <3>1. CASE q \notin Configured(c.cat)
      BY <1>4, <3>1 DEF EmptyEntry, Configured
    <3>2. CASE q \in Configured(c.cat)
      BY <1>2, <1>4, <3>2 DEF PendingEntry, TrustedEntry, SameEntry, Mismatch
    <3> QED
      BY <3>1, <3>2
  <2> QED
    BY <1>1, <2>1, BoundEntry
<1>6. r.active \in Configured(c.cat) \cup {None} /\ (r.active # None => r.active = st.active)
  BY <1>2, <1>4 DEF FlatView
<1>7. r.active # None => r.parked[r.active] = {}
  <2>1. SUFFICES ASSUME r.active # None PROVE r.parked[r.active] = {}
    OBVIOUS
  <2>2. r.active \in Configured(c.cat) /\ r.active = st.active /\ st.parked[st.active] = {}
    BY <1>2, <1>6, <2>1
  <2> QED
    BY <1>4, <2>2 DEF PendingEntry, TrustedEntry, SameEntry
<1>8. p # None
  BY <1>1, NoneAssumption DEF Configured
<1> HIDE DEF p
<1> QED
  BY <1>1, <1>5, <1>6, <1>7, <1>8, ActivateBound DEF p, r

(* What a bound state leaves on disk. *)
LEMMA SavedEntries ==
    ASSUME NEW st \in StateFile, NEW cat \in Catalog, NEW p, BoundState(st, cat, p)
    PROVE  SavedBound(PersistedState(st))
<1>1. \A q \in Profiles : st.ids[q] = None \/ st.pending[q] = None
  BY BoundEntry DEF BoundState
<1>2. p \in Profiles /\ cat[p] # None /\ st.active = p /\ (st.ids[p] = cat[p] \/ st.pending[p] = cat[p])
  BY BoundEntry DEF BoundState, Configured
<1> QED
  BY <1>1, <1>2 DEF SavedBound, PersistedState

(* The state a transaction commits is bound to the catalog it publishes, and *)
(* lifts the quarantine of a freshly fetched target only                     *)
(* (apply_subscription_catalog, activate_subscription).                      *)
LEMMA NextStateBound ==
    ASSUME TypeOK, EntryInv, txn.pc = "state"
    PROVE  /\ BoundState(NextState, txn.cat, txn.target)
           /\ \A p \in Configured(txn.cat) :
                 mem.pending[p] # None /\ NextState.pending[p] = None =>
                     txn.fresh /\ txn.target = p
<1> DEFINE fresh == IF txn.fresh THEN txn.target ELSE None
           A == ApplySubscriptionCatalog(mem, runtime.cat, txn.cat, fresh)
           B == ActivateSubscription(A, txn.target)
           stale == {p \in Configured(txn.cat) :
                        runtime.cat[p] # txn.cat[p] \/ Mismatch(mem, txn.cat, p)}
<1>1. /\ mem \in StateFile /\ txn.cat \in Catalog /\ runtime.cat \in Catalog
      /\ txn.target \in Profiles /\ txn.target \in Configured(txn.cat)
      /\ txn.slot \in Slots \cup {None} /\ fresh \in Profiles \cup {None}
      /\ BoundState(mem, runtime.cat, runtime.active)
  BY DEF TypeOK, Txn, Configured, Runtime, up, EntryInv
<1>2. A \in StateFile /\ A = ApplySubscriptionCatalog(mem, runtime.cat, txn.cat, fresh)
  BY <1>1, ApplyType
<1>stale. Invalidated(stale, mem, runtime.cat, txn.cat)
  BY DEF Invalidated
<1> HIDE DEF A, fresh, stale
<1>3. Applied(A, mem, txn.cat, fresh, stale)
  BY <1>1, <1>2, <1>stale, ApplyEntry
<1>4. \A p \in Profiles : /\ \/ mem.ids[p] = None /\ mem.pending[p] = runtime.cat[p]
                             \/ mem.ids[p] = runtime.cat[p] /\ mem.pending[p] = None
                          /\ p \notin Configured(runtime.cat) => mem.slots[p] = None /\ mem.parked[p] = {}
  BY <1>1, BoundEntry DEF BoundState
<1>5. BoundTo(A, txn.cat)
  <2>1. ASSUME NEW p \in Profiles
        PROVE  /\ \/ A.ids[p] = None /\ A.pending[p] = txn.cat[p]
                  \/ A.ids[p] = txn.cat[p] /\ A.pending[p] = None
               /\ p \notin Configured(txn.cat) => A.slots[p] = None /\ A.parked[p] = {}
    <3>1. CASE p \notin Configured(txn.cat)
      BY <1>3, <3>1 DEF Applied, EmptyEntry, Configured
    <3>2. CASE p \in Configured(txn.cat) /\ p = fresh
      BY <1>3, <3>2 DEF Applied
    <3>3. CASE p \in Configured(txn.cat) /\ p # fresh /\ p \in stale
      BY <1>3, <3>3 DEF Applied, PendingEntry
    <3>4. CASE p \in Configured(txn.cat) /\ p # fresh /\ p \notin stale
      BY <1>3, <1>4, <1>stale, <3>4 DEF Applied, Invalidated, SameEntry
    <3> QED
      BY <3>1, <3>2, <3>3, <3>4
  <2> QED
    BY <1>1, <1>2, <2>1, BoundEntry
<1>6. mem.active = runtime.active /\ runtime.active \in Configured(runtime.cat) /\ mem.parked[mem.active] = {}
  BY <1>1 DEF BoundState
<1>7. mem.active \in KnownNames(mem)
  BY <1>4, <1>6 DEF KnownNames, Configured
<1>8. A.active \in Configured(txn.cat) \cup {None} /\ (A.active # None => A.active = mem.active)
  BY <1>3, <1>7 DEF Applied, FlatView
<1>9. ASSUME A.active = txn.target PROVE A.parked[txn.target] = {}
  <2>1. txn.target = mem.active /\ mem.parked[txn.target] = {}
    BY <1>1, <1>6, <1>8, <1>9, NoneAssumption
  <2>2. CASE txn.target = fresh
    BY <1>1, <1>3, <2>1, <2>2 DEF Applied
  <2>3. CASE txn.target # fresh
    BY <1>1, <1>3, <2>1, <2>3 DEF Applied, PendingEntry, SameEntry
  <2> QED
    BY <2>2, <2>3
<1>10. BoundState(B, txn.cat, txn.target) /\ B \in StateFile
  BY <1>1, <1>2, <1>5, <1>8, <1>9, ActivateBound, ActivateType
<1>11. B.pending = A.pending
  BY <1>1, <1>2, ActivateSlots DEF SameSlots
<1> HIDE DEF B
<1>12. /\ NextState.ids = B.ids /\ NextState.pending = B.pending /\ NextState.parked = B.parked
       /\ NextState.active = B.active
       /\ \A p \in Profiles : p # txn.target => NextState.slots[p] = B.slots[p]
  BY <1>1, <1>10 DEF NextState, StateFile, B, A, fresh
<1>13. BoundState(NextState, txn.cat, txn.target)
  <2>1. \A p \in Profiles \ Configured(txn.cat) : NextState.slots[p] = B.slots[p]
    BY <1>1, <1>12
  <2> QED
    BY <1>10, <1>12, <2>1 DEF BoundState, BoundTo
<1>14. ASSUME NEW p \in Configured(txn.cat), mem.pending[p] # None, A.pending[p] = None
       PROVE  txn.fresh /\ txn.target = p
  <2>1. p # None /\ txn.cat[p] # None
    BY NoneAssumption DEF Configured
  <2>2. p = fresh
    BY <1>3, <1>14, <2>1 DEF Applied, PendingEntry, SameEntry
  <2> QED
    BY <2>1, <2>2 DEF fresh
<1> QED
  BY <1>11, <1>12, <1>13, <1>14

-----------------------------------------------------------------------------
(* Every step preserves EntryInv.                                           *)

(* EntryInv is preserved by every step, whatever faults occur. *)
LEMMA EntryInvStep ==
    ASSUME TypeOK, TypeOK', EntryInv, [Next]_vars
    PROVE  EntryInv'
<1>1. CASE Boots
  <2> DEFINE p  == BootProfile(BootState(disk, config), config)
             st == ActivateSubscription(BootState(disk, config), p)
  <2>1. BoundState(st, config.cat, p)
    <3>1. disk \in WireState \cup {None} /\ config \in Configs /\ (disk # None => SavedBound(disk))
      BY DEF TypeOK, EntryInv
    <3> QED
      BY <3>1, BootBound
  <2>2. mem' = st /\ runtime'.cat = config.cat /\ runtime'.active = p
    BY <1>1 DEF Boots
  <2>3. disk' = disk /\ txn' = txn /\ txn.pc # "publish"
    BY <1>1, RunningTypes DEF Boots
  <2> HIDE DEF p, st
  <2> QED
    BY <2>1, <2>2, <2>3 DEF EntryInv
<1>2. ASSUME up PROVE SavedBound(PersistedState(mem))
  BY <1>2, SavedEntries, RunningTypes DEF EntryInv
<1>3. CASE Halts
  BY <1>2, <1>3 DEF Halts, EntryInv
<1>4. CASE CommitState
  <2>1. BoundState(NextState, txn.cat, txn.target) /\ SavedBound(PersistedState(NextState))
    BY <1>4, CommitEffect, NextStateBound, SavedEntries, RunningTypes
  <2> QED
    BY <1>4, <2>1, CommitEffect, NextStateBound DEF EntryInv
<1>5. CASE Publish
  BY <1>5, PublishEffect DEF EntryInv, Publish
<1>6. CASE Works
  <2>1. SameButNodes(mem', mem) /\ runtime' = runtime /\ (up' <=> up)
    BY <1>6 DEF Works
  <2>2. ASSUME up PROVE BoundState(mem', runtime'.cat, runtime'.active) /\ SavedBound(PersistedState(mem'))
    <3>1. BoundState(mem', runtime'.cat, runtime'.active)
      BY <2>1, <2>2 DEF EntryInv, BoundState, BoundTo, SameButNodes
    <3>2. mem' \in StateFile /\ runtime'.cat \in Catalog
      BY <2>1, <2>2, RunningTypes DEF TypeOK
    <3> QED
      BY <3>1, <3>2, SavedEntries
  <2>3. disk' # None => SavedBound(disk')
    BY <1>6, <2>2 DEF Works, EntryInv
  <2>4. txn'.pc = "publish" =>
          /\ BoundState(txn'.next, txn'.cat, txn'.target)
          /\ \A p \in Configured(txn'.cat) :
                mem'.pending[p] # None /\ txn'.next.pending[p] = None =>
                    txn'.fresh /\ txn'.target = p
    BY <1>6, <2>1 DEF Works, EntryInv, SameButNodes
  <2> QED
    BY <2>1, <2>2, <2>3, <2>4 DEF EntryInv
<1> QED
  BY <1>1, <1>3, <1>4, <1>5, <1>6, StepKinds

(* EntryInv of the specification. *)
LEMMA EntryInvariant == Spec => []EntryInv
<1>1. Init => EntryInv
  BY DEF Init, EntryInv, NoTxn, up
<1>2. TypeOK /\ TypeOK' /\ EntryInv /\ [Next]_vars => EntryInv'
  BY EntryInvStep
<1> QED
  BY <1>1, <1>2, TypeCorrect, PTL DEF Spec

(* Whatever fails, races or crashes: every configured profile is trusted or  *)
(* pending under the identity of the running catalog, nothing is kept for a  *)
(* profile that left it, and the active statistics exist once                *)
(* (apply_subscription_catalog, reconcile_startup_sources, StateFile).       *)
THEOREM EntriesAlwaysBound == Spec => []EntriesBound
<1>1. EntryInv => EntriesBound
  BY DEF EntryInv, EntriesBound, CatalogBound, OneActiveCopy, BoundState
<1> QED
  BY <1>1, EntryInvariant, PTL

(* Only a transaction that fetched the profile afresh lifts its quarantine   *)
(* in a running daemon (apply_subscription_catalog's fresh target).          *)
THEOREM QuarantineHolds == Spec => QuarantineLiftedByFreshTxn
<1>1. ASSUME TypeOK, EntryInv, [Next]_vars, NEW p \in Profiles, up, up',
             mem.pending[p] # None, mem'.pending[p] = None, p \in Configured(runtime'.cat)
      PROVE  txn.pc = "publish" /\ txn.fresh /\ txn.target = p
  <2>1. CASE Publish
    BY <1>1, <2>1, PublishEffect DEF Publish, EntryInv
  <2>2. CASE ~Publish
    <3>1. mem'.pending = mem.pending
      BY <1>1, <2>2, StepKinds, CommitEffect DEF Boots, Halts, Works, SameButNodes
    <3> QED
      BY <1>1, <3>1
  <2> QED
    BY <2>1, <2>2
<1>2. TypeOK /\ EntryInv /\ [Next]_vars =>
        [\A p \in Profiles :
            (up /\ up' /\ mem.pending[p] # None /\ mem'.pending[p] = None
                /\ p \in Configured(runtime'.cat))
            => txn.pc = "publish" /\ txn.fresh /\ txn.target = p]_vars
  BY <1>1
<1> QED
  BY <1>2, TypeCorrect, EntryInvariant, PTL DEF Spec, QuarantineLiftedByFreshTxn

-----------------------------------------------------------------------------
(* TrustInv: which manifest is served.                                      *)

(* Whatever snapshot is found for a trusted source is a manifest of it       *)
(* (load_profile_snapshot_from_slot).                                        *)
LEMMA SnapshotSource ==
    ASSUME TypeOK, NEW st \in StateFile, SoundState(slotFile, st), BareSound(st),
           NEW p \in Profiles, st.ids[p] # None,
           NEW m \in SnapshotFromSlot(st.ids[p], st.slots[p]), m # None
    PROVE  m.src = st.ids[p]
<1>1. CASE IsLocal(st.ids[p])
  BY <1>1 DEF SnapshotFromSlot
<1>2. CASE ~IsLocal(st.ids[p]) /\ st.slots[p] # None
  BY <1>2 DEF SnapshotFromSlot, SoundState, SlotsHoldTrustedSource
<1>3. CASE ~IsLocal(st.ids[p]) /\ st.slots[p] = None
  BY <1>3 DEF SnapshotFromSlot, BareSound
<1> QED
  BY <1>1, <1>2, <1>3

(* BareSound is about slots and identities only. *)
LEMMA SameBare ==
    ASSUME NEW r, NEW st, r.ids = st.ids, r.slots = st.slots, BareSound(st)
    PROVE  BareSound(r)
BY DEF BareSound

(* A profile that a start adopts without an identity has the legacy cache of *)
(* its own source, if any (reconcile_startup_sources).                       *)
LEMMA BootBare ==
    ASSUME CachesKeepTheirOwner, ChangedNamesStay, TypeOK, TrustInv,
           NEW p \in Profiles
    PROVE  BareSound(ActivateSubscription(BootState(disk, config), p))
<1> DEFINE st == IF disk = None THEN DefaultState ELSE LoadedState(disk)
           r  == BootState(disk, config)
           cat == config.cat
<1>1. /\ config \in Configs /\ cat \in Catalog /\ st \in StateFile /\ r \in StateFile
  BY RunningTypes, BootType, LoadType, DefaultType DEF TypeOK
<1>2. r = ReconcileStartupSources(st, cat)
  BY DEF BootState
<1>3. /\ disk # None => st.ids = disk.ids /\ st.slots = disk.slots /\ st.pending = disk.pending
      /\ disk = None => \A q \in Profiles : st.ids[q] = None
  BY DEF LoadedState, DefaultState
<1> HIDE DEF st, r
<1>4. /\ \A q \in Profiles \ Configured(cat) : EmptyEntry(r, q)
      /\ \A q \in Configured(cat) :
           /\ Mismatch(st, cat, q) => PendingEntry(r, st, cat, q)
           /\ ~Mismatch(st, cat, q) /\ st.ids[q] = None /\ st.pending[q] = None =>
                 TrustedEntry(r, st, cat, q)
           /\ ~Mismatch(st, cat, q) /\ ~(st.ids[q] = None /\ st.pending[q] = None) =>
                 SameEntry(r, st, q)
  BY <1>1, <1>2, ReconcileEntry
<1>5. ASSUME NEW q \in Profiles, r.ids[q] # None, ~IsLocal(r.ids[q]), r.slots[q] = None,
             bareFile[CacheOf[r.ids[q]]] # None
      PROVE  bareFile[CacheOf[r.ids[q]]].src = r.ids[q]
  <2>1. q \in Configured(cat) /\ cat[q] # None
    BY <1>4, <1>5 DEF EmptyEntry, Configured
  <2>2. ~Mismatch(st, cat, q)
    BY <1>4, <1>5, <2>1 DEF PendingEntry
  <2>3. CASE ~(st.ids[q] = None /\ st.pending[q] = None)
    <3>1. SameEntry(r, st, q) /\ disk # None /\ BareSound(disk)
      BY <1>3, <1>4, <1>5, <2>1, <2>2, <2>3 DEF TrustInv, SameEntry
    <3> QED
      BY <1>3, <1>5, <3>1 DEF BareSound, SameEntry
  <2>4. CASE st.ids[q] = None /\ st.pending[q] = None
    <3>1. r.ids[q] = cat[q] /\ cat[q] \in Sources /\ CacheOf[cat[q]] \in Caches
      BY <1>1, <1>4, <1>5, <2>1, <2>2, <2>4, CacheOfAssumption DEF TrustedEntry, Catalog, IsLocal
    <3>2. PICK c \in Configs : bareFile \in PrimedBy(c) /\ (disk = None => c = config)
      BY DEF TrustInv
    <3>3. PICK s \in Configured(c.cat) : /\ bareFile[CacheOf[cat[q]]].src = c.cat[s]
                                         /\ CacheOf[c.cat[s]] = CacheOf[cat[q]]
      BY <1>5, <3>1, <3>2 DEF PrimedBy
    <3>4. s = q /\ c.cat[q] # None
      BY <1>1, <1>5, <2>1, <3>1, <3>3 DEF CachesKeepTheirOwner, Configured
    <3>5. CASE disk = None
      BY <3>1, <3>2, <3>3, <3>4, <3>5
    <3>6. CASE disk # None
      <4>1. disk.ids[q] = None /\ disk.pending[q] = None
        BY <1>3, <2>4, <3>6
      <4>2. PICK e \in Configs : e.cat[q] = None
        BY <3>6, <4>1 DEF TrustInv
      <4>3. c.cat[q] = cat[q]
        BY <1>1, <2>1, <3>4, <4>2 DEF ChangedNamesStay
      <4> QED
        BY <3>1, <3>3, <3>4, <4>3
    <3> QED
      BY <3>5, <3>6
  <2> QED
    BY <2>3, <2>4
<1>6. BareSound(r)
  BY <1>5 DEF BareSound
<1> QED
  BY <1>1, <1>6, SameBare, ActivateSlots DEF SameSlots, r

(* A start serves a manifest of the trusted source of the profile it selects *)
(* (startup_snapshot, run).                                                  *)
LEMMA BootTrusted ==
    ASSUME CachesKeepTheirOwner, ChangedNamesStay, BootIsSound, TypeOK, EntryInv, TrustInv, Boots
    PROVE  LiveProfileTrusted' /\ BareSound(mem)'
<1> DEFINE p  == BootProfile(BootState(disk, config), config)
           st == ActivateSubscription(BootState(disk, config), p)
<1>1. p \in Profiles /\ st \in StateFile /\ config.cat \in Catalog /\ p \in Configured(config.cat)
  BY RunningTypes, BootType, ActivateType DEF TypeOK, Configured
<1>2. BoundState(st, config.cat, p)
  <2>1. disk \in WireState \cup {None} /\ config \in Configs /\ (disk # None => SavedBound(disk))
    BY DEF TypeOK, EntryInv
  <2> QED
    BY <2>1, BootBound
<1>3. SoundState(slotFile, st) /\ BareSound(st)
  BY <1>1, BootBare DEF BootIsSound
<1>4. PICK m \in StartupSnapshot(st, p, config) \ {None} :
          /\ mem' = st
          /\ runtime' = [active |-> p, pool |-> m, cat |-> config.cat,
                         generation |-> 0, default |-> config.default]
  BY DEF Boots
<1> HIDE DEF p, st
<1>5. ~Quarantined(st, p, config) /\ m \in SnapshotFromSlot(config.cat[p], st.slots[p]) /\ m # None
  BY <1>4 DEF StartupSnapshot
<1>6. SourceIsTrusted(st, p, config.cat[p])
  <2>1. CASE st.slots[p] # None
    <3>1. st.ids[p] # None /\ st.pending[p] = None
      BY <1>1, <1>3, <2>1 DEF SoundState, SlotsHoldTrustedSource
    <3>2. st.ids[p] = config.cat[p]
      BY <1>1, <1>2, <3>1, BoundEntry DEF BoundState
    <3> QED
      BY <3>1, <3>2 DEF SourceIsTrusted
  <2>2. CASE st.slots[p] = None
    BY <1>5, <2>2 DEF Quarantined
  <2> QED
    BY <2>1, <2>2
<1>7. m.src = config.cat[p]
  BY <1>1, <1>3, <1>5, <1>6, SnapshotSource DEF SourceIsTrusted
<1>8. st.active = p
  BY <1>2 DEF BoundState
<1>9. BareSound(mem)'
  <2>1. bareFile' = bareFile
    BY DEF Boots
  <2> QED
    BY <1>3, <1>4, <2>1 DEF BareSound
<1> QED
  BY <1>4, <1>6, <1>7, <1>8, <1>9 DEF LiveProfileTrusted

(* The state a transaction commits trusts the target's source and has legacy *)
(* caches of trusted sources only (switch_subscription_locked).              *)
LEMMA NextStateTrusted ==
    ASSUME TypeOK, TrustInv, txn.pc = "state"
    PROVE  /\ BareSound(NextState)
           /\ SourceIsTrusted(NextState, txn.target, txn.cat[txn.target])
<1> DEFINE fresh == IF txn.fresh THEN txn.target ELSE None
           A == ApplySubscriptionCatalog(mem, runtime.cat, txn.cat, fresh)
           B == ActivateSubscription(A, txn.target)
           stale == {p \in Configured(txn.cat) :
                        runtime.cat[p] # txn.cat[p] \/ Mismatch(mem, txn.cat, p)}
<1>1. /\ mem \in StateFile /\ txn.cat \in Catalog /\ runtime.cat \in Catalog
      /\ txn.target \in Profiles /\ txn.target \in Configured(txn.cat)
      /\ txn.slot \in Slots \cup {None} /\ fresh \in Profiles \cup {None}
  BY DEF TypeOK, Txn, Configured, Runtime, up
<1>2. A \in StateFile /\ A = ApplySubscriptionCatalog(mem, runtime.cat, txn.cat, fresh)
  BY <1>1, ApplyType
<1>stale. Invalidated(stale, mem, runtime.cat, txn.cat)
  BY DEF Invalidated
<1>3. SameSlots(B, A) /\ B \in StateFile
  BY <1>1, <1>2, ActivateSlots, ActivateType
<1>4. /\ NextState.ids = A.ids /\ NextState.pending = A.pending
      /\ \A p \in Profiles : NextState.slots[p] =
            IF p = txn.target /\ txn.slot # None THEN txn.slot ELSE A.slots[p]
  <2>1. NextState = IF txn.slot = None THEN B ELSE [B EXCEPT !.slots[txn.target] = txn.slot]
    BY DEF NextState
  <2> HIDE DEF A, fresh, B
  <2> QED
    BY <1>1, <1>3, <2>1 DEF StateFile, SameSlots
<1> HIDE DEF A, fresh, B, stale
<1>5. Applied(A, mem, txn.cat, fresh, stale)
  BY <1>1, <1>2, <1>stale, ApplyEntry
<1>6. txn.prep.src = txn.cat[txn.target] /\ txn.cat[txn.target] # None
  BY <1>1 DEF TrustInv, Configured
<1>7. SourceIsTrusted(NextState, txn.target, txn.cat[txn.target])
  <2>1. CASE txn.fresh
    BY <1>1, <1>4, <1>5, <1>6, <2>1 DEF Applied, SourceIsTrusted, fresh
  <2>2. CASE ~txn.fresh
    <3>1. SourceIsTrusted(mem, txn.target, txn.cat[txn.target]) /\ runtime.cat[txn.target] = txn.cat[txn.target]
      BY <2>2 DEF TrustInv, BeforePublication
    <3>2. txn.target \notin stale /\ txn.target # fresh
      BY <1>1, <1>stale, <2>2, <3>1, NoneAssumption DEF Invalidated, Mismatch, SourceIsTrusted, fresh
    <3> QED
      BY <1>1, <1>4, <1>5, <3>1, <3>2 DEF Applied, SourceIsTrusted, SameEntry
  <2> QED
    BY <2>1, <2>2
<1>8. BareSound(NextState)
  <2>1. BareSound(mem)
    BY DEF TrustInv, TypeOK, up
  <2>2. ASSUME NEW q \in Profiles, A.ids[q] # None, ~IsLocal(A.ids[q]), NextState.slots[q] = None
        PROVE  A.ids[q] = mem.ids[q] /\ mem.slots[q] = None
    <3>1. q \in Configured(txn.cat)
      BY <1>5, <2>2 DEF Applied, EmptyEntry
    <3>2. q # fresh
      <4>1. SUFFICES ASSUME q = fresh PROVE FALSE
        OBVIOUS
      <4>2. txn.fresh /\ q = txn.target /\ A.ids[q] = txn.prep.src
        BY <1>5, <1>6, <3>1, <4>1, NoneAssumption DEF Applied, fresh
      <4>3. txn.slot # None
        BY <2>2, <4>2 DEF TrustInv, WritesCache
      <4> QED
        BY <1>4, <2>2, <4>2, <4>3
    <3>3. SameEntry(A, mem, q)
      BY <1>5, <2>2, <3>1, <3>2 DEF Applied, PendingEntry
    <3>4. NextState.slots[q] = A.slots[q]
      BY <1>4, <2>2
    <3> QED
      BY <2>2, <3>3, <3>4 DEF SameEntry
  <2> QED
    BY <1>4, <2>1, <2>2 DEF BareSound
<1> QED
  BY <1>7, <1>8

(* What TrustInv says of the transaction before it publishes. *)
TxnTrust ==
    /\ txn.pc \in BeforePublication /\ txn.trusted =>
          /\ SourceIsTrusted(mem, txn.target, txn.cat[txn.target])
          /\ runtime.cat[txn.target] = txn.cat[txn.target]
    /\ txn.pc \notin {"idle", "prepare"} =>
          /\ txn.prep.src = txn.cat[txn.target]
          /\ txn.fresh \/ txn.trusted
    /\ txn.pc = "state" /\ WritesCache => txn.slot # None

(* A transaction that is at rest promises nothing. *)
LEMMA RestingTrust ==
    ASSUME txn'.pc = "idle"
    PROVE  TxnTrust'
BY DEF TxnTrust, BeforePublication

(* A step that leaves the transaction and the trust of the state alone. *)
LEMMA UntouchedTrust ==
    ASSUME TxnTrust, txn' = txn, runtime' = runtime, SameButNodes(mem', mem)
    PROVE  TxnTrust'
BY DEF TxnTrust, SourceIsTrusted, SameButNodes, WritesCache

(* The beginning of a transaction reads the trust of its target. *)
LEMMA BeginTrust ==
    ASSUME NEW target \in Profiles, NEW cat, NEW reload, BeginTxn(target, cat, reload)
    PROVE  TxnTrust'
<1>1. /\ txn'.pc = "prepare" /\ txn'.target = target /\ txn'.cat = cat
      /\ txn'.trusted = (SourceIsTrusted(mem, target, cat[target]) /\ runtime.cat[target] = cat[target])
      /\ mem' = mem /\ runtime' = runtime
  BY DEF BeginTxn, NoTxn, daemon
<1> QED
  BY <1>1 DEF TxnTrust, SourceIsTrusted

(* The steps of a transaction hold on to what they prepared                  *)
(* (prepare_profile, commit_prepared_cache).                                 *)
LEMMA TxnTrustStep ==
    ASSUME TypeOK, MemoryInv, TrustInv, TxnStep
    PROVE  TxnTrust'
<1> USE DEF files, daemon
<1>1. txn \in Txn /\ TxnTrust
  BY DEF TypeOK, TrustInv, TxnTrust
<1>2. CASE PrepareFresh
  <2>1. PICK v \in Versions : txn' = [txn EXCEPT !.pc = "gate", !.fresh = TRUE,
                                      !.prep = [src |-> txn.cat[txn.target], ver |-> v]]
    BY <1>2 DEF PrepareFresh, Advance
  <2>2. /\ txn'.pc = "gate" /\ txn'.fresh /\ txn'.prep.src = txn.cat[txn.target]
        /\ txn'.trusted = txn.trusted /\ txn'.target = txn.target /\ txn'.cat = txn.cat
        /\ txn.pc = "prepare" /\ mem' = mem /\ runtime' = runtime
    BY <1>1, <1>2, <2>1 DEF PrepareFresh, Txn
  <2> QED
    BY <1>1, <2>2 DEF TxnTrust, SourceIsTrusted, BeforePublication
<1>3. CASE PrepareCached
  <2>1. PICK m \in SnapshotFromSlot(txn.cat[txn.target], txn.confirmed) \ {None} :
          txn' = [txn EXCEPT !.pc = "gate", !.prep = m]
    BY <1>3 DEF PrepareCached, Advance
  <2>2. /\ txn'.pc = "gate" /\ txn'.prep = m
        /\ txn'.trusted = txn.trusted /\ txn'.target = txn.target /\ txn'.cat = txn.cat
        /\ txn.pc = "prepare" /\ txn.trusted /\ mem' = mem /\ runtime' = runtime
    BY <1>1, <1>3, <2>1 DEF PrepareCached, Txn
  <2>3. /\ txn.target \in Profiles /\ up /\ mem \in StateFile
        /\ SoundState(slotFile, mem) /\ BareSound(mem) /\ txn.confirmed = mem.slots[txn.target]
    BY <2>2, RunningTypes DEF MemoryInv, TrustInv, BeforePublication
  <2>4. mem.ids[txn.target] # None /\ mem.ids[txn.target] = txn.cat[txn.target]
    BY <1>1, <2>2 DEF TxnTrust, SourceIsTrusted, BeforePublication
  <2>5. m.src = txn.cat[txn.target]
    BY <2>1, <2>3, <2>4, SnapshotSource
  <2> QED
    BY <1>1, <2>2, <2>5 DEF TxnTrust, SourceIsTrusted, BeforePublication
<1>4. CASE AcquireGate \/ StageClasses
  <2>1. /\ txn'.pc \in {"stage", "cache"} /\ txn'.prep = txn.prep /\ txn'.fresh = txn.fresh
        /\ txn'.trusted = txn.trusted /\ txn'.target = txn.target /\ txn'.cat = txn.cat
        /\ txn.pc \in {"gate", "stage"} /\ mem' = mem /\ runtime' = runtime
    BY <1>1, <1>4 DEF AcquireGate, StageClasses, Advance, Txn
  <2> QED
    BY <1>1, <2>1 DEF TxnTrust, SourceIsTrusted, BeforePublication
<1>5. CASE CommitCache
  <2>1. /\ txn'.pc = "state" /\ txn'.prep = txn.prep /\ txn'.fresh = txn.fresh
        /\ txn'.trusted = txn.trusted /\ txn'.target = txn.target /\ txn'.cat = txn.cat
        /\ txn.pc = "cache" /\ mem' = mem /\ runtime' = runtime
        /\ WritesCache => txn'.slot = NextSlot
    BY <1>1, <1>5 DEF CommitCache, Advance, Txn
  <2>2. NextSlot # None
    BY NoneAssumption DEF NextSlot
  <2>3. WritesCache' = WritesCache
    BY <2>1 DEF WritesCache
  <2> QED
    BY <1>1, <2>1, <2>2, <2>3 DEF TxnTrust, SourceIsTrusted, BeforePublication
<1>6. CASE CommitState
  BY <1>1, <1>6, CommitEffect DEF TxnTrust, BeforePublication
<1>7. CASE Publish
  BY <1>1, <1>7, PublishEffect DEF TxnTrust, BeforePublication, Publish
<1>8. CASE AbortBeforeCommit \/ CommitCacheFails \/ CommitStateFails \/ FinishTxn
  <2>1. txn'.pc = "idle"
    BY <1>8 DEF AbortBeforeCommit, CommitCacheFails, CommitStateFails, FinishTxn, Abort, Advance, NoTxn
  <2> QED
    BY <2>1, RestingTrust
<1> QED
  BY <1>2, <1>3, <1>4, <1>5, <1>6, <1>7, <1>8 DEF TxnStep

(* ... and so does every step. *)
LEMMA TxnTrustNext ==
    ASSUME TypeOK, MemoryInv, TrustInv, [Next]_vars
    PROVE  TxnTrust'
<1> USE DEF files, daemon
<1>1. TxnTrust /\ SameButNodes(mem, mem)
  BY DEF TrustInv, TxnTrust, SameButNodes
<1>2. CASE Start
  BY <1>2, RunningTypes, RestingTrust DEF Start
<1>3. CASE EditConfig \/ FinishBoot
  BY <1>1, <1>3, UntouchedTrust DEF EditConfig, FinishBoot
<1>4. CASE Crash \/ Shutdown
  BY <1>4, RestingTrust DEF Crash, Shutdown, Stopped, NoTxn
<1>5. ASSUME NEW p \in Profiles, BeginSwitch(p) PROVE TxnTrust'
  BY <1>5, BeginTrust DEF BeginSwitch
<1>6. CASE BeginReload
  <2>1. runtime.active \in Profiles
    BY <1>6 DEF BeginReload, Configured
  <2> QED
    BY <1>6, <2>1, BeginTrust DEF BeginReload
<1>7. CASE SharedStep
  <2>1. \A src : Record(src) => SameButNodes(mem', mem)
    BY DEF Record, SameButNodes, TypeOK, StateFile
  <2>2. txn' = txn /\ runtime' = runtime /\ SameButNodes(mem', mem)
    BY <1>1, <1>7, <2>1 DEF SharedStep, ProbeCycle, HealthRecord, ProbeNowPool, ProbeNowEra, ProbeNowNode,
                            ProbeNowSave, ProbeStep
  <2> QED
    BY <1>1, <2>2, UntouchedTrust
<1>8. CASE UNCHANGED vars
  BY <1>1, <1>8, UntouchedTrust DEF vars
<1> QED
  BY <1>2, <1>3, <1>4, <1>5, <1>6, <1>7, <1>8, TxnTrustStep DEF Next

(* A name that is in every configuration is known to the saved state. *)
NamesKnown(d) ==
    \A p \in Profiles : (\A c \in Configs : c.cat[p] # None) => d.ids[p] # None \/ d.pending[p] # None

(* A bound state leaves no configured name unknown. *)
LEMMA SavedNames ==
    ASSUME NEW st \in StateFile, NEW cat \in Catalog, NEW q, BoundState(st, cat, q),
           \E c \in Configs : cat = c.cat
    PROVE  NamesKnown(PersistedState(st))
<1>1. \A p \in Profiles : st.ids[p] = cat[p] \/ st.pending[p] = cat[p]
  BY BoundEntry DEF BoundState
<1> QED
  BY <1>1 DEF NamesKnown, PersistedState

(* TrustInv is preserved, however the probes race with the transaction. *)
LEMMA TrustInvStep ==
    ASSUME CachesKeepTheirOwner, ChangedNamesStay, BootIsSound,
           TypeOK, TypeOK', MemoryInv, EntryInv, TrustInv, [Next]_vars
    PROVE  TrustInv'
<1> DEFINE Primed == \E c \in Configs : bareFile \in PrimedBy(c) /\ (disk = None => c = config)
           SavedTrust == disk # None => BareSound(disk) /\ NamesKnown(disk)
           NextTrust == txn.pc = "publish" =>
                          /\ BareSound(txn.next)
                          /\ SourceIsTrusted(txn.next, txn.target, txn.cat[txn.target])
           MemTrust == LiveProfileTrusted /\ (up => BareSound(mem))
<1>1. TxnTrust'
  BY TxnTrustNext
<1>2. Primed /\ SavedTrust /\ NextTrust /\ MemTrust
  BY DEF TrustInv, NamesKnown
<1>3. SUFFICES MemTrust' /\ Primed' /\ SavedTrust' /\ NextTrust'
  BY <1>1 DEF TrustInv, TxnTrust, NamesKnown
<1>4. bareFile' = bareFile /\ (config' = config \/ disk # None) /\ (disk' = disk \/ disk' # None)
  <2>1. \A st \in StateFile : PersistedState(st) # None
    BY SavedExists
  <2>2. mem \in StateFile /\ mem' \in StateFile
    BY DEF TypeOK
  <2> QED
    BY <2>1, <2>2, StepKinds, CommitEffect, PublishEffect DEF Boots, Halts, Works
<1>5. Primed'
  <2>1. \A c : PrimedBy(c)' = PrimedBy(c)
    BY DEF PrimedBy
  <2> QED
    BY <1>2, <1>4, <2>1
<1>7. ASSUME NEW st, BareSound(st), NEW d, d.ids = st.ids, d.slots = st.slots
      PROVE  \A p \in Profiles :
                d.ids[p] # None /\ ~IsLocal(d.ids[p]) /\ d.slots[p] = None =>
                    \/ bareFile'[CacheOf[d.ids[p]]] = None
                    \/ bareFile'[CacheOf[d.ids[p]]].src = d.ids[p]
  BY <1>4, <1>7 DEF BareSound
<1>8. ASSUME up PROVE NamesKnown(PersistedState(mem))
  BY <1>8, SavedNames, RunningTypes DEF EntryInv, MemoryInv
<1>9. \A st : PersistedState(st).ids = st.ids /\ PersistedState(st).slots = st.slots
  BY DEF PersistedState
<1>10. CASE Boots
  <2>1. MemTrust'
    BY <1>10, BootTrusted DEF Boots
  <2>2. disk' = disk /\ txn'.pc = "idle"
    BY <1>10, RunningTypes DEF Boots
  <2> QED
    BY <1>2, <1>5, <1>7, <2>1, <2>2 DEF BareSound, NamesKnown
<1>11. CASE Halts
  <2>1. MemTrust' /\ NextTrust'
    BY <1>11 DEF Halts, LiveProfileTrusted
  <2>2. SavedTrust'
    BY <1>2, <1>7, <1>8, <1>9, <1>11 DEF Halts, BareSound, NamesKnown
  <2> QED
    BY <1>5, <2>1, <2>2
<1>12. CASE CommitState
  <2>1. /\ BareSound(NextState) /\ SourceIsTrusted(NextState, txn.target, txn.cat[txn.target])
        /\ up /\ up' /\ mem' = mem /\ runtime' = runtime
        /\ disk' = PersistedState(NextState) /\ txn'.next = NextState
        /\ txn'.target = txn.target /\ txn'.cat = txn.cat
    BY <1>12, CommitEffect, NextStateTrusted
  <2>2. NamesKnown(PersistedState(NextState))
    <3>1. NextState \in StateFile /\ BoundState(NextState, txn.cat, txn.target) /\ txn.pc # "idle"
      BY <1>12, CommitEffect, NextStateBound
    <3> QED
      BY <3>1, SavedNames, RunningTypes DEF MemoryInv
  <2>3. MemTrust'
    BY <1>2, <1>7, <2>1, SMTT(30) DEF LiveProfileTrusted, BareSound, SourceIsTrusted
  <2>4. SavedTrust'
    BY <1>7, <1>9, <2>1, <2>2 DEF BareSound, NamesKnown
  <2>5. NextTrust'
    BY <1>7, <2>1 DEF BareSound, SourceIsTrusted
  <2> QED
    BY <1>5, <2>3, <2>4, <2>5
<1>13. CASE Publish
  <2>1. txn.pc = "publish" /\ txn.prep.src = txn.cat[txn.target] /\ txn.next.active = txn.target
    BY <1>13 DEF Publish, TrustInv, EntryInv, BoundState
  <2>2. /\ mem' = txn.next /\ disk' = disk /\ txn'.pc = "save"
        /\ runtime'.cat = txn.cat /\ runtime'.active = txn.target /\ runtime'.pool = txn.prep
    BY <1>13, PublishEffect
  <2>3. MemTrust'
    BY <1>2, <1>7, <2>1, <2>2 DEF LiveProfileTrusted, BareSound, SourceIsTrusted
  <2>4. SavedTrust' /\ NextTrust'
    BY <1>2, <1>7, <2>2 DEF BareSound, NamesKnown
  <2> QED
    BY <1>5, <2>3, <2>4
<1>14. CASE Works
  <2>1. /\ SameButNodes(mem', mem) /\ runtime' = runtime /\ (up' <=> up)
        /\ disk' = disk \/ (up /\ disk' = PersistedState(mem'))
        /\ txn' = txn \/ txn'.pc # "publish"
    BY <1>14 DEF Works
  <2>2. MemTrust'
    BY <1>2, <1>7, <2>1 DEF LiveProfileTrusted, BareSound, SourceIsTrusted, SameButNodes
  <2>3. SavedTrust'
    <3>1. CASE disk' = disk
      BY <1>2, <1>7, <3>1 DEF BareSound, NamesKnown
    <3>2. CASE up /\ disk' = PersistedState(mem')
      <4>1. NamesKnown(PersistedState(mem'))
        BY <1>8, <2>1, <3>2 DEF NamesKnown, PersistedState, SameButNodes
      <4>2. disk'.ids = mem.ids /\ disk'.slots = mem.slots /\ BareSound(mem)
        BY <1>2, <1>9, <2>1, <3>2 DEF SameButNodes
      <4> QED
        BY <1>7, <3>2, <4>1, <4>2 DEF BareSound, NamesKnown
    <3> QED
      BY <2>1, <3>1, <3>2
  <2>4. NextTrust'
    BY <1>2, <1>7, <2>1 DEF BareSound
  <2> QED
    BY <1>5, <2>2, <2>3, <2>4
<1> QED
  BY <1>10, <1>11, <1>12, <1>13, <1>14, StepKinds

-----------------------------------------------------------------------------
(* ForwardInv: the slots of a state file that is older than memory.         *)

(* Following is reflexive ... *)
LEMMA LaterSame ==
    ASSUME NEW c \in Configs
    PROVE  Later(c, c)
BY DEF Later

(* ... and transitive, ... *)
LEMMA LaterTrans ==
    ASSUME NEW c \in Configs, NEW d \in Configs, NEW e \in Configs, Later(c, d), Later(d, e)
    PROVE  Later(c, e)
BY DEF Later

(* ... and an edit leads to a configuration that follows (EditConfig). *)
LEMMA LaterEdit ==
    ASSUME NEW c \in Configs, NEW d \in Configs, <<c, d>> \in Edits
    PROVE  Later(c, d)
<1> SUFFICES ASSUME NEW S \in SUBSET Configs, c \in S, \A e \in Edits : e[1] \in S => e[2] \in S
             PROVE  d \in S
  BY DEF Later
<1>1. <<c, d>>[1] = c /\ <<c, d>>[2] = d
  OBVIOUS
<1> QED
  BY <1>1

(* Identities that precede a configuration precede the ones that follow it. *)
LEMMA BeforeLater ==
    ASSUME NEW st, NEW c \in Configs, NEW d \in Configs, IdsBefore(st, c), Later(c, d)
    PROVE  IdsBefore(st, d)
BY LaterTrans DEF IdsBefore

(* A state that is bound to a configuration has its identities from there. *)
LEMMA BoundBefore ==
    ASSUME NEW st \in StateFile, NEW c \in Configs, BoundTo(st, c.cat)
    PROVE  IdsBefore(PersistedState(st), c)
<1>1. \A p \in Profiles : st.ids[p] = None \/ st.ids[p] = c.cat[p]
  BY ConfigsAssumption, BoundEntry
<1> QED
  BY <1>1, LaterSame DEF IdsBefore, PersistedState

(* What is saved of a sound state is sound under every catalog (save_atomic). *)
LEMMA SavedUnder ==
    ASSUME NEW sf, NEW st, SoundState(sf, st), NEW cat
    PROVE  SoundUnder(sf, PersistedState(st), cat)
BY DEF SoundState, SlotsHoldTrustedSource, SoundUnder, PersistedState

(* A start serves a sound state even from an older state file: what it       *)
(* keeps of it is of the source that is configured now                       *)
(* (reconcile_startup_sources).                                              *)
LEMMA ForwardBoot ==
    ASSUME TypeOK, EntryInv, ForwardInv
    PROVE  BootIsSound
<1> DEFINE L == IF disk = None THEN DefaultState ELSE LoadedState(disk)
           r == BootState(disk, config)
<1>1. config \in Configs /\ config.cat \in Catalog /\ L \in StateFile /\ r \in StateFile
  BY RunningTypes, BootType, LoadType, DefaultType DEF TypeOK
<1>2. /\ \A p \in Profiles : L.slots[p] # None =>
            /\ L.ids[p] # None /\ L.pending[p] = None /\ ~IsLocal(L.ids[p])
            /\ L.ids[p] = config.cat[p] =>
                  /\ slotFile[CacheOf[L.ids[p]]][L.slots[p]] # None
                  /\ slotFile[CacheOf[L.ids[p]]][L.slots[p]].src = L.ids[p]
      /\ \A p \in Profiles : L.ids[p] = None \/ L.pending[p] = None
  <2>1. CASE disk = None
    BY <2>1 DEF DefaultState
  <2>2. CASE disk # None
    <3>1. SoundUnder(slotFile, disk, config.cat) /\ SavedBound(disk)
      BY <1>1, <2>2, LaterSame DEF ForwardInv, EntryInv
    <3>2. L.slots = disk.slots /\ L.ids = disk.ids /\ L.pending = disk.pending
      BY <2>2 DEF LoadedState
    <3> HIDE DEF L
    <3> QED
      BY <3>1, <3>2 DEF SoundUnder, SavedBound
  <2> QED
    BY <2>1, <2>2
<1>3. r = ReconcileStartupSources(L, config.cat)
  BY DEF BootState
<1> HIDE DEF L, r
<1>4. /\ \A q \in Profiles \ Configured(config.cat) : EmptyEntry(r, q)
      /\ \A q \in Configured(config.cat) :
           /\ Mismatch(L, config.cat, q) => PendingEntry(r, L, config.cat, q)
           /\ ~Mismatch(L, config.cat, q) /\ L.ids[q] = None /\ L.pending[q] = None =>
                 TrustedEntry(r, L, config.cat, q)
           /\ ~Mismatch(L, config.cat, q) /\ ~(L.ids[q] = None /\ L.pending[q] = None) =>
                 SameEntry(r, L, q)
  BY <1>1, <1>3, ReconcileEntry
<1>5. ASSUME NEW p \in Profiles, r.slots[p] # None
      PROVE  /\ r.ids[p] # None /\ r.pending[p] = None /\ ~IsLocal(r.ids[p])
             /\ slotFile[CacheOf[r.ids[p]]][r.slots[p]] # None
             /\ slotFile[CacheOf[r.ids[p]]][r.slots[p]].src = r.ids[p]
  <2>1. p \in Configured(config.cat) /\ ~Mismatch(L, config.cat, p)
    BY <1>4, <1>5 DEF EmptyEntry, PendingEntry
  <2>2. L.slots[p] = r.slots[p] /\ L.ids[p] # None
    BY <1>2, <1>4, <1>5, <2>1 DEF TrustedEntry, SameEntry
  <2>3. SameEntry(r, L, p) /\ L.ids[p] = config.cat[p]
    BY <1>4, <2>1, <2>2 DEF Mismatch
  <2> QED
    BY <1>2, <1>5, <2>2, <2>3 DEF SameEntry
<1>6. \A p \in Profiles : r.ids[p] # None => r.ids[p] = config.cat[p]
  BY <1>4 DEF EmptyEntry, PendingEntry, TrustedEntry, SameEntry, Mismatch
<1>7. SoundState(slotFile, r)
  BY <1>1, <1>5, <1>6 DEF SoundState, SlotsHoldTrustedSource, IdsConfigured
<1>8. \A p \in Profiles : SameSlots(ActivateSubscription(r, p), r)
  BY <1>1, ActivateSlots
<1> QED
  BY <1>7, <1>8, SameSlotsSound DEF BootIsSound, r

(* commit_cache_slot may overwrite a slot the state file references, but     *)
(* only one of a source that the transaction's configuration has replaced.   *)
LEMMA ForwardReplace ==
    ASSUME CachesKeepTheirOwner, SourcesMoveForward, TypeOK, MemoryInv,
           txn.pc = "cache", WritesCache, ReplaceSlot, disk # None,
           NEW d \in Configs, txn.cat = d.cat, IdsBefore(disk, d),
           NEW f \in Configs, Later(d, f), SoundUnder(slotFile, disk, f.cat)
    PROVE  SoundUnder(slotFile', disk, f.cat)
<1>1. /\ txn.target \in Profiles /\ txn.cat[txn.target] # None
      /\ txn.prep \in Manifest /\ txn.prep # None
      /\ txn.prep.src = txn.cat[txn.target] /\ ~IsLocal(txn.prep.src)
  BY ManifestAssumption DEF MemoryInv, WritesCache, TypeOK, Configured
<1>2. slotFile \in [Caches -> [Slots -> Manifest \cup {None}]] /\ disk \in WireState
  BY DEF TypeOK
<1>3. CacheOf[txn.prep.src] \in Caches /\ NextSlot \in Slots
  BY <1>1, CacheOfAssumption DEF IsLocal, Manifest, NextSlot, Slots
<1> SUFFICES ASSUME NEW p \in Profiles, disk.slots[p] # None, disk.ids[p] = f.cat[p],
                    disk.ids[p] # None, ~IsLocal(disk.ids[p])
             PROVE  /\ slotFile'[CacheOf[disk.ids[p]]][disk.slots[p]] # None
                    /\ slotFile'[CacheOf[disk.ids[p]]][disk.slots[p]].src = disk.ids[p]
  BY DEF SoundUnder
<1>4. /\ slotFile[CacheOf[disk.ids[p]]][disk.slots[p]] # None
      /\ slotFile[CacheOf[disk.ids[p]]][disk.slots[p]].src = disk.ids[p]
  BY DEF SoundUnder
<1>5. CacheOf[disk.ids[p]] \in Caches /\ disk.slots[p] \in Slots
  BY <1>2, CacheOfAssumption DEF IsLocal, WireState
<1>6. CASE CacheOf[disk.ids[p]] = CacheOf[txn.prep.src] /\ disk.slots[p] = NextSlot
  <2>1. PICK e \in Configs : Later(e, d) /\ e.cat[p] = disk.ids[p]
    BY DEF IdsBefore
  <2>2. p = txn.target
    BY <1>1, <1>6, <2>1 DEF CachesKeepTheirOwner
  <2>3. d.cat[p] = disk.ids[p]
    BY <1>1, <2>1, <2>2 DEF SourcesMoveForward
  <2>4. slotFile'[CacheOf[disk.ids[p]]][disk.slots[p]] = txn.prep
    BY <1>2, <1>3, <1>6 DEF ReplaceSlot
  <2> QED
    BY <1>1, <2>2, <2>3, <2>4
<1>7. CASE ~(CacheOf[disk.ids[p]] = CacheOf[txn.prep.src] /\ disk.slots[p] = NextSlot)
  <2>1. slotFile'[CacheOf[disk.ids[p]]][disk.slots[p]] = slotFile[CacheOf[disk.ids[p]]][disk.slots[p]]
    BY <1>2, <1>3, <1>5, <1>7 DEF ReplaceSlot
  <2> QED
    BY <1>4, <2>1
<1> QED
  BY <1>6, <1>7

(* ForwardInv is preserved by every step, whatever saves fail. *)
LEMMA ForwardInvStep ==
    ASSUME CachesKeepTheirOwner, SourcesMoveForward,
           TypeOK, TypeOK', MemoryInv, EntryInv, ForwardInv, [Next]_vars
    PROVE  ForwardInv'
<1>1. PICK r \in Configs, d \in Configs :
          /\ Later(r, d) /\ Later(d, config)
          /\ up => runtime.cat = r.cat
          /\ txn.pc # "idle" => txn.cat = d.cat
          /\ disk # None => IdsBefore(disk, IF txn.pc = "publish" THEN d ELSE r)
  BY DEF ForwardInv
<1>2. /\ config \in Configs /\ config' \in Configs /\ mem \in StateFile /\ mem' \in StateFile
      /\ Later(config, config) /\ Later(r, r) /\ Later(d, d)
  BY LaterSame DEF TypeOK
<1>3. config' = config \/ (<<config, config'>> \in Edits /\ UNCHANGED <<disk, txn>>)
  BY StepKinds, CommitEffect, PublishEffect DEF Boots, Halts, Works
<1>4. Later(config, config') /\ Later(r, config) /\ Later(r, config') /\ Later(d, config')
  BY <1>1, <1>2, <1>3, LaterEdit, LaterTrans
<1>5. disk # None => IdsBefore(disk, d)
  BY <1>1, BeforeLater
<1>6. ASSUME NEW f \in Configs, Later(config', f) PROVE Later(config, f) /\ Later(d, f)
  BY <1>1, <1>2, <1>4, <1>6, LaterTrans
<1>7. ASSUME up
      PROVE  /\ IdsBefore(PersistedState(mem), r)
             /\ \A f \in Configs : SoundUnder(slotFile, PersistedState(mem), f.cat)
  <2>1. BoundTo(mem, r.cat) /\ SoundState(slotFile, mem)
    BY <1>1, <1>7 DEF EntryInv, BoundState, MemoryInv
  <2> QED
    BY <1>2, <2>1, BoundBefore, SavedUnder
<1>8. disk # None => \A f \in Configs : Later(config', f) => SoundUnder(slotFile, disk, f.cat)
  BY <1>6 DEF ForwardInv
<1> SUFFICES /\ disk' # None =>
                  \A f \in Configs : Later(config', f) => SoundUnder(slotFile', disk', f.cat)
             /\ \E b, e \in Configs :
                  /\ Later(b, e) /\ Later(e, config')
                  /\ up' => runtime'.cat = b.cat
                  /\ txn'.pc # "idle" => txn'.cat = e.cat
                  /\ disk' # None => IdsBefore(disk', IF txn'.pc = "publish" THEN e ELSE b)
  BY DEF ForwardInv
<1>9. CASE Boots
  <2>1. /\ config' = config /\ disk' = disk /\ slotFile' = slotFile
        /\ runtime'.cat = config.cat /\ txn'.pc = "idle"
    BY <1>9, RunningTypes DEF Boots
  <2>2. disk # None => IdsBefore(disk, config)
    BY <1>1, <1>2, <1>5, BeforeLater
  <2> QED
    BY <1>2, <1>8, <2>1, <2>2
<1>10. CASE Halts
  <2>1. ~up' /\ txn'.pc = "idle" /\ slotFile' = slotFile /\ up
    BY <1>10 DEF Halts
  <2>2. disk' = disk \/ disk' = PersistedState(mem)
    BY <1>10 DEF Halts
  <2>3. disk' # None => IdsBefore(disk', d)
    BY <1>1, <1>5, <1>7, <2>1, <2>2, BeforeLater
  <2> QED
    BY <1>2, <1>4, <1>7, <1>8, <2>1, <2>2, <2>3
<1>11. CASE CommitState
  <2>1. /\ NextState \in StateFile /\ disk' = PersistedState(NextState) /\ txn.pc = "state"
        /\ txn'.pc = "publish" /\ txn'.cat = txn.cat /\ UNCHANGED <<runtime, slotFile>> /\ up
    BY <1>11, CommitEffect
  <2>2. BoundTo(NextState, d.cat)
    BY <1>1, <2>1, NextStateBound DEF BoundState
  <2>3. IdsBefore(disk', d) /\ \A f \in Configs : SoundUnder(slotFile, disk', f.cat)
    BY <2>1, <2>2, NextStateSound, BoundBefore, SavedUnder
  <2> QED
    BY <1>1, <1>4, <2>1, <2>3
<1>12. CASE Publish
  <2>1. /\ txn.pc = "publish" /\ runtime'.cat = txn.cat /\ txn'.pc = "save" /\ txn'.cat = txn.cat
        /\ UNCHANGED <<disk, slotFile>>
    BY <1>12, PublishEffect DEF Publish
  <2> QED
    BY <1>1, <1>2, <1>4, <1>5, <1>8, <2>1
<1>13. CASE Works
  <2>1. /\ up' <=> up
        /\ runtime' = runtime
        /\ disk' = disk \/ (up /\ disk' = PersistedState(mem'))
        /\ txn' = txn \/ (txn.pc # "publish" /\ txn'.pc # "publish")
    BY <1>13 DEF Works
  <2>2. PersistedState(mem').ids = PersistedState(mem).ids
        /\ PersistedState(mem').slots = PersistedState(mem).slots
        /\ PersistedState(mem').pending = PersistedState(mem).pending
    BY <1>13 DEF Works, SameButNodes, PersistedState
  <2>3. ASSUME up
        PROVE  /\ IdsBefore(PersistedState(mem'), r)
               /\ \A f \in Configs : SoundUnder(slotFile, PersistedState(mem'), f.cat)
    BY <1>7, <2>2, <2>3 DEF IdsBefore, SoundUnder
  <2>4. disk' # None => IdsBefore(disk', IF txn.pc = "publish" THEN d ELSE r)
    BY <1>1, <2>1, <2>3, BeforeLater
  <2>5. disk' # None =>
          \A f \in Configs : Later(config', f) => SoundUnder(slotFile', disk', f.cat)
    <3>1. CASE slotFile' = slotFile
      BY <1>8, <2>1, <2>3, <3>1
    <3>2. CASE txn.pc = "cache" /\ WritesCache /\ ReplaceSlot /\ disk' = disk
      BY <1>1, <1>5, <1>6, <1>8, <3>2, ForwardReplace
    <3> QED
      BY <1>13, <3>1, <3>2 DEF Works, WorksOnFiles
  <2>6. CASE txn' = txn
    BY <1>1, <1>4, <2>1, <2>4, <2>5, <2>6
  <2>7. CASE txn.pc # "publish" /\ txn'.pc # "publish"
    <3>1. /\ disk' # None => IdsBefore(disk', r)
          /\ up' => runtime'.cat = r.cat
      BY <1>1, <2>1, <2>4, <2>7
    <3>2. CASE txn'.pc = "idle" \/ (txn.pc # "idle" /\ txn'.cat = txn.cat)
      BY <1>1, <1>4, <2>5, <2>7, <3>1, <3>2
    <3>3. CASE up /\ txn'.cat = runtime.cat
      BY <1>1, <1>2, <1>4, <2>5, <2>7, <3>1, <3>3
    <3>4. CASE txn'.cat = config.cat
      BY <1>1, <1>2, <1>4, <2>5, <2>7, <3>1, <3>4
    <3> QED
      BY <1>13, <3>2, <3>3, <3>4 DEF Works, WorksOnFiles
  <2> QED
    BY <2>1, <2>6, <2>7
<1> QED
  BY <1>9, <1>10, <1>11, <1>12, <1>13, StepKinds

(* ForwardInv, and with it MemoryInv and TrustInv, of the specification. *)
LEMMA ForwardInvariant ==
    ASSUME CachesKeepTheirOwner, ChangedNamesStay, SourcesMoveForward
    PROVE  Spec => [](MemoryInv /\ TrustInv /\ ForwardInv)
<1> DEFINE Inv == MemoryInv /\ TrustInv /\ ForwardInv
<1>1. Init => Inv
  <2> SUFFICES ASSUME Init PROVE Inv
    OBVIOUS
  <2>1. MemoryInv /\ TrustInv
    BY DEF Init, MemoryInv, TrustInv, NoTxn, up, LiveProfileTrusted, BeforePublication
  <2>2. config \in Configs /\ Later(config, config) /\ disk = None /\ ~up /\ txn.pc = "idle"
    BY LaterSame DEF Init, NoTxn, up
  <2> QED
    BY <2>1, <2>2 DEF ForwardInv
<1>2. TypeOK /\ TypeOK' /\ EntryInv /\ Inv /\ [Next]_vars => Inv'
  <2> SUFFICES ASSUME TypeOK, TypeOK', EntryInv, Inv, [Next]_vars PROVE Inv'
    OBVIOUS
  <2>1. BootIsSound
    BY ForwardBoot
  <2> QED
    BY <2>1, MemoryInvStep, TrustInvStep, ForwardInvStep
<1>3. (Spec => []TypeOK) /\ (Spec => []EntryInv)
  BY TypeCorrect, EntryInvariant
<1> QED
  BY <1>1, <1>2, <1>3, PTL DEF Spec

(* MemoryInv and TrustInv of the specification. *)
LEMMA SourcesInvariant ==
    ASSUME CachesKeepTheirOwner, ChangedNamesStay, Faults \subseteq {"probe"} \/ SourcesMoveForward
    PROVE  Spec => [](MemoryInv /\ TrustInv)
<1>1. CASE Faults \subseteq {"probe"}
  <2>1. Init => TrustInv
    BY DEF Init, TrustInv, NoTxn, up, LiveProfileTrusted, BeforePublication
  <2>2. TypeOK /\ TypeOK' /\ SlotInv /\ EntryInv /\ TrustInv /\ [Next]_vars => TrustInv'
    BY BootSound, TrustInvStep DEF SlotInv
  <2>3. SlotInv => MemoryInv
    BY DEF SlotInv
  <2>4. (Spec => []TypeOK) /\ (Spec => []SlotInv) /\ (Spec => []EntryInv)
    BY <1>1, TypeCorrect, SlotInvariant, EntryInvariant
  <2> QED
    BY <2>1, <2>2, <2>3, <2>4, PTL DEF Spec
<1>2. CASE SourcesMoveForward
  <2>1. Spec => [](MemoryInv /\ TrustInv /\ ForwardInv)
    BY <1>2, ForwardInvariant
  <2> QED
    BY <2>1, PTL
<1> QED
  BY <1>1, <1>2

(* The daemon serves only a manifest of the source its catalog configures    *)
(* for the active profile, and that source is trusted: neither startup nor a *)
(* cached fallback serves a quarantined or foreign source (startup_snapshot, *)
(* prepare_profile).  No cache file changes its profile, a name whose source *)
(* changes stays configured, and saves succeed or no replaced source returns *)
(* to its name.                                                              *)
THEOREM OnlyTrustedIsLive ==
    ASSUME CachesKeepTheirOwner, ChangedNamesStay, Faults \subseteq {"probe"} \/ SourcesMoveForward
    PROVE  Spec => []LiveProfileTrusted
<1>1. TrustInv => LiveProfileTrusted
  BY DEF TrustInv
<1> QED
  BY <1>1, SourcesInvariant, PTL

-----------------------------------------------------------------------------
(* StatsInv: whose statistics are kept.                                     *)

(* Every profile of st has statistics of its own source only. *)
CleanStats(st) == \A p \in Profiles : StatsFrom(NodesForSubscription(st, p), st.ids[p])

(* Activation moves statistics between the views and changes none of them. *)
LEMMA ActivateStats ==
    ASSUME NEW st \in StateFile, NEW p \in Profiles, CleanStats(st)
    PROVE  CleanStats(ActivateSubscription(st, p))
<1> DEFINE a == ActivateSubscription(st, p)
<1>1. CASE st.active = p
  BY <1>1 DEF ActivateSubscription
<1>2. CASE st.active # p
  <2>1. /\ a.active = p /\ a.nodes = st.parked[p] /\ a.ids = st.ids
        /\ \A q \in Profiles : /\ q # p /\ q = st.active => a.parked[q] = st.nodes
                               /\ q # p /\ q # st.active => a.parked[q] = st.parked[q]
    BY <1>2 DEF ActivateSubscription, StateFile
  <2> HIDE DEF a
  <2>2. \A q \in Profiles : NodesForSubscription(a, q) = NodesForSubscription(st, q)
    BY <1>2, <2>1 DEF NodesForSubscription
  <2>3. CleanStats(a)
    BY <2>1, <2>2 DEF CleanStats
  <2> QED
    BY <2>3 DEF a
<1> QED
  BY <1>1, <1>2

(* Saving and loading keep every profile's statistics. *)
LEMMA WireStats ==
    /\ \A st : CleanStats(st) => \A p \in Profiles : StatsFrom(PersistedState(st).stats[p], PersistedState(st).ids[p])
    /\ \A d \in WireState : (\A p \in Profiles : StatsFrom(d.stats[p], d.ids[p])) => CleanStats(LoadedState(d))
<1>1. \A st : \A p \in Profiles : PersistedState(st).stats[p] = NodesForSubscription(st, p)
  BY DEF PersistedState
<1>2. \A d \in WireState : \A p \in Profiles : NodesForSubscription(LoadedState(d), p) = d.stats[p]
  BY NoneAssumption DEF LoadedState, NodesForSubscription
<1>3. /\ \A st : PersistedState(st).ids = st.ids
      /\ \A d : LoadedState(d).ids = d.ids
  BY DEF PersistedState, LoadedState
<1> QED
  BY <1>1, <1>2, <1>3 DEF CleanStats

(* A profile without identity has no statistics. *)
LEMMA NoIdentityNoStats ==
    ASSUME NEW st \in StateFile, CleanStats(st), NEW p \in Profiles, st.ids[p] = None
    PROVE  NodesForSubscription(st, p) = {}
<1>1. NodesForSubscription(st, p) \subseteq Sources /\ NodesForSubscription(st, p) \subseteq {None}
  BY DEF NodesForSubscription, StateFile, CleanStats, StatsFrom
<1> QED
  BY <1>1, NoneAssumption

(* What a reconciliation leaves in the flat view. *)
LEMMA FlatNodes ==
    ASSUME NEW st \in StateFile, NEW cat \in Catalog, NEW r, NEW S \in SUBSET Configured(cat),
           FlatView(r, st, cat, S), st.active = None \/ st.active \in KnownNames(st),
           NEW p \in Profiles
    PROVE  /\ p \notin Configured(cat) => r.active # p
           /\ p \in Configured(cat) => (r.active = p <=> st.active = p)
           /\ p \in Configured(cat) /\ st.active = p /\ p \in S => r.nodes = {}
           /\ p \in Configured(cat) /\ st.active = p /\ p \notin S => r.nodes = st.nodes
BY NoneAssumption DEF FlatView

(* The statistics of one profile after a reconciliation, by its entry. *)
LEMMA EntryStats ==
    ASSUME NEW st \in StateFile, NEW cat \in Catalog, NEW r, NEW S \in SUBSET Configured(cat),
           FlatView(r, st, cat, S), st.active = None \/ st.active \in KnownNames(st),
           CleanStats(st), NEW p \in Profiles
    PROVE  /\ p \notin Configured(cat) /\ r.parked[p] = {} => NodesForSubscription(r, p) = {}
           /\ p \in S /\ (st.active # p => r.parked[p] = {}) => NodesForSubscription(r, p) = {}
           /\ p \in Configured(cat) \ S /\ r.parked[p] = st.parked[p] =>
                NodesForSubscription(r, p) = NodesForSubscription(st, p)
<1>1. /\ p \notin Configured(cat) => r.active # p
      /\ p \in Configured(cat) => (r.active = p <=> st.active = p)
      /\ p \in Configured(cat) /\ st.active = p /\ p \in S => r.nodes = {}
      /\ p \in Configured(cat) /\ st.active = p /\ p \notin S => r.nodes = st.nodes
  BY FlatNodes
<1> QED
  BY <1>1 DEF NodesForSubscription

(* A start keeps statistics of the adopted sources only. *)
LEMMA BootStats ==
    ASSUME NEW d \in WireState \cup {None}, NEW c \in Configs, NEW p \in Profiles,
           d # None => SavedBound(d) /\ \A q \in Profiles : StatsFrom(d.stats[q], d.ids[q])
    PROVE  CleanStats(ActivateSubscription(BootState(d, c), p))
<1> DEFINE st == IF d = None THEN DefaultState ELSE LoadedState(d)
           r  == BootState(d, c)
           S  == {q \in Configured(c.cat) : Mismatch(st, c.cat, q)}
<1>1. c.cat \in Catalog /\ st \in StateFile /\ r \in StateFile
  BY ConfigsAssumption, LoadType, DefaultType, BootType
<1>2. st.active = None \/ st.active \in KnownNames(st)
  <2>1. CASE d = None
    BY <2>1 DEF DefaultState
  <2>2. CASE d # None
    BY <2>2 DEF LoadedState, SavedBound, WireState, KnownNames
  <2> QED
    BY <2>1, <2>2
<1>3. CleanStats(st)
  <2>1. CASE d = None
    BY <2>1 DEF DefaultState, CleanStats, NodesForSubscription, StatsFrom
  <2>2. CASE d # None
    BY <2>2, WireStats
  <2> QED
    BY <2>1, <2>2
<1>4. r = ReconcileStartupSources(st, c.cat)
  BY DEF BootState
<1> HIDE DEF st, r
<1>5. /\ \A q \in Profiles \ Configured(c.cat) : EmptyEntry(r, q)
      /\ \A q \in Configured(c.cat) :
           /\ Mismatch(st, c.cat, q) => PendingEntry(r, st, c.cat, q)
           /\ ~Mismatch(st, c.cat, q) /\ st.ids[q] = None /\ st.pending[q] = None =>
                 TrustedEntry(r, st, c.cat, q)
           /\ ~Mismatch(st, c.cat, q) /\ ~(st.ids[q] = None /\ st.pending[q] = None) =>
                 SameEntry(r, st, q)
      /\ FlatView(r, st, c.cat, S)
  BY <1>1, <1>4, ReconcileEntry
<1>6. S \in SUBSET Configured(c.cat) /\ \A q \in Configured(c.cat) : q \in S <=> Mismatch(st, c.cat, q)
  OBVIOUS
<1> HIDE DEF S
<1>7. ASSUME NEW q \in Profiles PROVE StatsFrom(NodesForSubscription(r, q), r.ids[q])
  <2>0. /\ q \notin Configured(c.cat) /\ r.parked[q] = {} => NodesForSubscription(r, q) = {}
        /\ q \in S /\ (st.active # q => r.parked[q] = {}) => NodesForSubscription(r, q) = {}
        /\ q \in Configured(c.cat) \ S /\ r.parked[q] = st.parked[q] =>
             NodesForSubscription(r, q) = NodesForSubscription(st, q)
    BY <1>1, <1>2, <1>3, <1>5, <1>6, EntryStats
  <2>1. CASE q \notin Configured(c.cat)
    BY <1>5, <2>0, <2>1 DEF EmptyEntry, StatsFrom
  <2>2. CASE q \in S
    BY <1>5, <1>6, <2>0, <2>2 DEF PendingEntry, StatsFrom
  <2>3. CASE q \in Configured(c.cat) \ S /\ st.ids[q] = None /\ st.pending[q] = None
    <3>1. TrustedEntry(r, st, c.cat, q) /\ NodesForSubscription(st, q) = {}
      BY <1>1, <1>3, <1>5, <1>6, <2>3, NoIdentityNoStats
    <3> QED
      BY <2>0, <2>3, <3>1 DEF TrustedEntry, StatsFrom
  <2>4. CASE q \in Configured(c.cat) \ S /\ ~(st.ids[q] = None /\ st.pending[q] = None)
    <3>1. SameEntry(r, st, q)
      BY <1>5, <1>6, <2>4
    <3> QED
      BY <1>3, <2>0, <2>4, <3>1 DEF SameEntry, CleanStats
  <2> QED
    BY <2>1, <2>2, <2>3, <2>4
<1>8. CleanStats(r)
  BY <1>7 DEF CleanStats
<1> QED
  BY <1>1, <1>8, ActivateStats DEF r

(* The state a transaction commits keeps statistics of trusted sources only. *)
LEMMA NextStateStats ==
    ASSUME TypeOK, EntryInv, CleanStats(mem), txn.pc = "state"
    PROVE  CleanStats(NextState)
<1> DEFINE fresh == IF txn.fresh THEN txn.target ELSE None
           A == ApplySubscriptionCatalog(mem, runtime.cat, txn.cat, fresh)
           B == ActivateSubscription(A, txn.target)
           stale == {p \in Configured(txn.cat) :
                        runtime.cat[p] # txn.cat[p] \/ Mismatch(mem, txn.cat, p)}
<1>1. /\ mem \in StateFile /\ txn.cat \in Catalog /\ runtime.cat \in Catalog
      /\ txn.target \in Profiles /\ txn.target \in Configured(txn.cat)
      /\ txn.slot \in Slots \cup {None} /\ fresh \in Profiles \cup {None}
      /\ BoundState(mem, runtime.cat, runtime.active)
  BY DEF TypeOK, Txn, Configured, Runtime, up, EntryInv
<1>2. A \in StateFile /\ A = ApplySubscriptionCatalog(mem, runtime.cat, txn.cat, fresh)
  BY <1>1, ApplyType
<1>3. Invalidated(stale, mem, runtime.cat, txn.cat) /\ stale \in SUBSET Configured(txn.cat)
  BY DEF Invalidated
<1> HIDE DEF A, fresh, stale
<1>4. Applied(A, mem, txn.cat, fresh, stale)
  BY <1>1, <1>2, <1>3, ApplyEntry
<1>5. mem.active \in KnownNames(mem)
  BY <1>1, BoundEntry DEF BoundState, KnownNames, Configured
<1>6. ASSUME NEW q \in Profiles PROVE StatsFrom(NodesForSubscription(A, q), A.ids[q])
  <2>0. /\ q \notin Configured(txn.cat) /\ A.parked[q] = {} => NodesForSubscription(A, q) = {}
        /\ q \in stale /\ (mem.active # q => A.parked[q] = {}) => NodesForSubscription(A, q) = {}
        /\ q \in Configured(txn.cat) \ stale /\ A.parked[q] = mem.parked[q] =>
             NodesForSubscription(A, q) = NodesForSubscription(mem, q)
    <3>1. FlatView(A, mem, txn.cat, stale)
      BY <1>4 DEF Applied
    <3> QED
      BY <1>1, <1>3, <1>5, <3>1, EntryStats
  <2>1. CASE q \notin Configured(txn.cat)
    BY <1>4, <2>0, <2>1 DEF Applied, EmptyEntry, StatsFrom
  <2>2. CASE q \in stale
    <3>1. mem.active # q => A.parked[q] = {}
      BY <1>3, <1>4, <2>2 DEF Applied, PendingEntry
    <3> QED
      BY <2>0, <2>2, <3>1 DEF StatsFrom
  <2>3. CASE q \in Configured(txn.cat) \ stale /\ q # fresh
    BY <1>4, <2>0, <2>3 DEF Applied, SameEntry, CleanStats
  <2>4. CASE q \in Configured(txn.cat) \ stale /\ q = fresh
    <3>1. A.parked[q] = mem.parked[q] /\ A.ids[q] = txn.cat[q]
      BY <1>4, <2>4 DEF Applied
    <3>2. mem.ids[q] = None \/ mem.ids[q] = txn.cat[q]
      BY <1>3, <2>4 DEF Invalidated, Mismatch
    <3>3. CASE mem.ids[q] = None
      BY <1>1, <2>0, <2>4, <3>1, <3>3, NoIdentityNoStats DEF StatsFrom
    <3>4. CASE mem.ids[q] = txn.cat[q]
      BY <2>0, <2>4, <3>1, <3>4 DEF CleanStats
    <3> QED
      BY <3>2, <3>3, <3>4
  <2> QED
    BY <2>1, <2>2, <2>3, <2>4
<1>7. CleanStats(B) /\ B \in StateFile
  <2>1. CleanStats(A)
    BY <1>6 DEF CleanStats
  <2> QED
    BY <1>1, <1>2, <2>1, ActivateStats, ActivateType
<1> HIDE DEF B
<1>8. /\ NextState.ids = B.ids /\ NextState.parked = B.parked
      /\ NextState.active = B.active /\ NextState.nodes = B.nodes
  BY <1>1, <1>7 DEF NextState, StateFile, B, A, fresh
<1> QED
  BY <1>7, <1>8 DEF CleanStats, NodesForSubscription

(* A running daemon records samples of the live pool only, as long as no     *)
(* on-demand probe is in flight (probe_cycle, record_health_outcome).        *)
LEMMA OnlyPoolRecorded ==
    ASSUME "probe" \notin Faults, TypeOK, [Next]_vars
    PROVE  Boots \/ Halts \/ Publish \/ mem' = mem \/ (up /\ Record(runtime.pool.src))
<1> USE DEF files, daemon
<1>1. CASE Start
  BY <1>1, StepKinds, CommitEffect, PublishEffect DEF Start, Works, up
<1>2. CASE Crash \/ Shutdown
  BY <1>2 DEF Crash, Shutdown, Stopped, SaveAtomic, Halts, up, NoTxn
<1>3. CASE TxnStep
  BY <1>3 DEF TxnStep, PrepareFresh, PrepareCached, AcquireGate, StageClasses, AbortBeforeCommit,
              CommitCache, CommitCacheFails, CommitState, CommitStateFails, FinishTxn
<1>4. CASE SharedStep
  BY <1>4 DEF SharedStep, ProbeCycle, HealthRecord, ProbeNowPool, ProbeNowEra, ProbeNowNode,
              ProbeNowSave, ProbeStep, up
<1>5. CASE EditConfig \/ FinishBoot \/ BeginReload \/ (\E p \in Profiles : BeginSwitch(p)) \/ UNCHANGED vars
  BY <1>5 DEF EditConfig, FinishBoot, BeginReload, BeginSwitch, BeginTxn, vars
<1> QED
  BY <1>1, <1>2, <1>3, <1>4, <1>5 DEF Next

(* A sample of the live pool is of the active profile's source. *)
LEMMA RecordStats ==
    ASSUME TypeOK, up, LiveProfileTrusted, CleanStats(mem), Record(runtime.pool.src)
    PROVE  CleanStats(mem')
<1>1. /\ mem'.active = mem.active /\ mem'.parked = mem.parked /\ mem'.ids = mem.ids
      /\ mem'.nodes = mem.nodes \cup {runtime.pool.src}
  BY DEF Record, TypeOK, StateFile
<1>2. mem.ids[mem.active] = runtime.pool.src
  BY DEF LiveProfileTrusted, SourceIsTrusted
<1>3. ASSUME NEW p \in Profiles PROVE StatsFrom(NodesForSubscription(mem', p), mem'.ids[p])
  BY <1>1, <1>2 DEF CleanStats, NodesForSubscription, StatsFrom
<1> QED
  BY <1>3 DEF CleanStats

(* StatsInv is preserved where no on-demand probe races with a publication. *)
LEMMA StatsInvStep ==
    ASSUME "probe" \notin Faults, TypeOK, TypeOK', EntryInv, LiveProfileTrusted, StatsInv, [Next]_vars
    PROVE  StatsInv'
<1> DEFINE CleanDisk(d) == \A p \in Profiles : StatsFrom(d.stats[p], d.ids[p])
<1>1. /\ up => CleanStats(mem)
      /\ disk # None => CleanDisk(disk)
      /\ txn.pc = "publish" => CleanStats(txn.next)
  BY DEF StatsInv, StatsIsolated, CleanStats
<1>2. SUFFICES /\ up' => CleanStats(mem')
               /\ disk' # None => CleanDisk(disk')
               /\ txn'.pc = "publish" => CleanStats(txn'.next)
  BY DEF StatsInv, StatsIsolated, CleanStats
<1>3. \A st : CleanStats(st) => CleanDisk(PersistedState(st))
  BY WireStats
<1> HIDE DEF CleanDisk
<1>4. CASE Boots
  <2>1. /\ disk \in WireState \cup {None} /\ config \in Configs
        /\ BootProfile(BootState(disk, config), config) \in Profiles
        /\ disk # None => SavedBound(disk) /\ \A q \in Profiles : StatsFrom(disk.stats[q], disk.ids[q])
    BY <1>1, BootType, RunningTypes DEF TypeOK, EntryInv, Configured, CleanDisk
  <2>2. CleanStats(mem')
    BY <1>4, <2>1, BootStats DEF Boots
  <2>3. disk' = disk /\ txn'.pc = "idle"
    BY <1>4, RunningTypes DEF Boots
  <2> QED
    BY <1>1, <2>2, <2>3
<1>5. CASE Halts
  BY <1>1, <1>3, <1>5 DEF Halts
<1>6. CASE CommitState
  <2>1. CleanStats(NextState)
    BY <1>1, <1>6, CommitEffect, NextStateStats
  <2> QED
    BY <1>1, <1>3, <1>6, <2>1, CommitEffect
<1>7. CASE Publish
  <2>1. txn.pc = "publish"
    BY <1>7 DEF Publish
  <2> QED
    BY <1>1, <1>7, <2>1, PublishEffect
<1>8. CASE Works
  <2>1. (up' <=> up) /\ (disk' = disk \/ (up /\ disk' = PersistedState(mem')))
        /\ (txn' = txn \/ txn'.pc # "publish")
    BY <1>8 DEF Works
  <2>2. ASSUME up PROVE CleanStats(mem')
    <3>1. CASE mem' = mem
      BY <1>1, <2>2, <3>1
    <3>2. CASE Record(runtime.pool.src)
      BY <1>1, <2>2, <3>2, RecordStats
    <3>3. CASE Publish
      BY <1>1, <3>3, PublishEffect DEF Publish
    <3> QED
      BY <2>1, <2>2, <3>1, <3>2, <3>3, OnlyPoolRecorded DEF Boots, Halts
  <2> QED
    BY <1>1, <1>3, <2>1, <2>2
<1> QED
  BY <1>4, <1>5, <1>6, <1>7, <1>8, StepKinds

(* A same-name source change or a switch never mixes two histories: the      *)
(* statistics of a profile, live, parked or saved, come from its trusted     *)
(* source only (apply_subscription_catalog, activate_subscription).  The     *)
(* hypotheses are those of OnlyTrustedIsLive, and no on-demand probe is in   *)
(* flight; with one, TLC finds the race in probe_now_inner.                  *)
THEOREM HistoriesNeverMix ==
    ASSUME CachesKeepTheirOwner, ChangedNamesStay, Faults \subseteq {"probe"} \/ SourcesMoveForward,
           "probe" \notin Faults
    PROVE  Spec => []StatsIsolated
<1>1. Init => StatsInv
  BY DEF Init, StatsInv, StatsIsolated, NoTxn, up
<1>2. TypeOK /\ TypeOK' /\ EntryInv /\ LiveProfileTrusted /\ StatsInv /\ [Next]_vars => StatsInv'
  BY StatsInvStep
<1>3. (Spec => []TypeOK) /\ (Spec => []EntryInv) /\ (Spec => []LiveProfileTrusted)
  BY TypeCorrect, EntryInvariant, OnlyTrustedIsLive
<1>4. StatsInv => StatsIsolated
  BY DEF StatsInv
<1> QED
  BY <1>1, <1>2, <1>3, <1>4, PTL DEF Spec

-----------------------------------------------------------------------------
(* ResumeInv: what a restart finds.                                         *)

(* The file that is read for a remote source src with the confirmed slot. *)
Held(sf, bf, src, slot) == IF slot # None THEN sf[CacheOf[src]][slot] ELSE bf[CacheOf[src]]

(* m is what a start reads for p. *)
Keeps(sf, bf, st, cat, p, m) == ~IsLocal(cat[p]) => Held(sf, bf, cat[p], st.slots[p]) = m

(* Serves, with the files it reads made explicit. *)
LEMMA ServesHeld ==
    ASSUME NEW st, NEW cat, NEW p, NEW m
    PROVE  /\ Serves(st, cat, p, m) <=> Keeps(slotFile, bareFile, st, cat, p, m)
           /\ Serves(st, cat, p, m)' <=> Keeps(slotFile', bareFile', st, cat, p, m)
BY DEF Serves, SnapshotFromSlot, Held, Keeps

(* A saved bound state is loaded as it was (save_atomic, load, run). *)
LEMMA ReloadSame ==
    ASSUME NEW d \in WireState, NEW st \in StateFile, NEW cat \in Catalog, NEW p \in Profiles,
           BoundState(st, cat, p), SavedAs(d, st), NEW c, c.cat = cat
    PROVE  /\ BootProfile(BootState(d, c), c) = p
           /\ SameSlots(ActivateSubscription(BootState(d, c), p), st)
<1> DEFINE l == LoadedState(d)
           r == BootState(d, c)
<1>1. /\ d # None /\ l \in StateFile /\ l.active = p /\ l.ids = st.ids /\ l.slots = st.slots
      /\ l.pending = st.pending
  BY LoadType DEF SavedAs, SameSlots, LoadedState, BoundState
<1>2. r = ReconcileStartupSources(l, cat)
  BY <1>1 DEF BootState
<1> HIDE DEF l, r
<1>3. /\ \A q \in Profiles \ Configured(cat) : EmptyEntry(r, q)
      /\ \A q \in Configured(cat) :
           /\ Mismatch(l, cat, q) => PendingEntry(r, l, cat, q)
           /\ ~Mismatch(l, cat, q) /\ l.ids[q] = None /\ l.pending[q] = None => TrustedEntry(r, l, cat, q)
           /\ ~Mismatch(l, cat, q) /\ ~(l.ids[q] = None /\ l.pending[q] = None) => SameEntry(r, l, q)
      /\ FlatView(r, l, cat, {q \in Configured(cat) : Mismatch(l, cat, q)})
  BY <1>1, <1>2, ReconcileEntry
<1>4. \A q \in Profiles : /\ \/ st.ids[q] = None /\ st.pending[q] = cat[q]
                             \/ st.ids[q] = cat[q] /\ st.pending[q] = None
                          /\ q \notin Configured(cat) => st.slots[q] = None
  BY BoundEntry DEF BoundState
<1>5. ASSUME NEW q \in Profiles
      PROVE  r.slots[q] = st.slots[q] /\ r.ids[q] = st.ids[q] /\ r.pending[q] = st.pending[q]
  <2>1. CASE q \notin Configured(cat)
    BY <1>3, <1>4, <2>1 DEF EmptyEntry, Configured
  <2>2. CASE q \in Configured(cat)
    <3>1. ~Mismatch(l, cat, q) /\ ~(l.ids[q] = None /\ l.pending[q] = None)
      BY <1>1, <1>4, <2>2 DEF Mismatch, Configured
    <3> QED
      BY <1>1, <1>3, <2>2, <3>1 DEF SameEntry
  <2> QED
    BY <2>1, <2>2
<1>6. r \in StateFile
  BY <1>1, <1>2, ReconcileType
<1>7. SameSlots(r, st)
  BY <1>5, <1>6 DEF SameSlots, StateFile
<1>8. p \in Configured(cat) /\ p # None
  BY NoneAssumption DEF BoundState
<1>9. r.active = p
  BY <1>1, <1>3, <1>8 DEF FlatView
<1>10. SameSlots(ActivateSubscription(r, p), st)
  BY <1>6, <1>7, ActivateSlots DEF SameSlots
<1> QED
  BY <1>8, <1>9, <1>10 DEF BootProfile, r

(* ResumeInv yields what RestartResumesCommitted promises. *)
LEMMA ResumeSuffices ==
    ASSUME TypeOK, EntryInv, TrustInv, ResumeInv
    PROVE  RestartResumesCommitted
<1> DEFINE c  == Committed.cfg
           p  == BootProfile(BootState(disk, c), c)
           st == ActivateSubscription(BootState(disk, c), p)
<1>1. SUFFICES ASSUME up
               PROVE  /\ p = Committed.active
                      /\ ~Quarantined(st, p, c)
                      /\ ~IsLocal(c.cat[p]) => StartupSnapshot(st, p, c) = {Committed.pool}
  BY DEF RestartResumesCommitted
<1>2. disk \in WireState \cup {None}
  BY DEF TypeOK
<1>3. CASE txn.pc = "publish"
  <2>1. c.cat = txn.cat /\ Committed.active = txn.target /\ Committed.pool = txn.prep
    BY <1>3 DEF Committed
  <2>2. /\ BoundState(txn.next, txn.cat, txn.target) /\ SavedAs(disk, txn.next)
        /\ SourceIsTrusted(txn.next, txn.target, txn.cat[txn.target])
        /\ Serves(txn.next, txn.cat, txn.target, txn.prep)
    BY <1>3 DEF EntryInv, TrustInv, ResumeInv
  <2> HIDE DEF c
  <2>3. /\ BootProfile(BootState(disk, c), c) = txn.target
        /\ SameSlots(ActivateSubscription(BootState(disk, c), txn.target), txn.next)
    BY <1>2, <1>3, <2>1, <2>2, RunningTypes, ReloadSame DEF SavedAs
  <2>4. p = txn.target /\ SameSlots(st, txn.next)
    BY <2>3
  <2> HIDE DEF p, st
  <2>5. SourceIsTrusted(txn.next, p, c.cat[p]) /\ Serves(txn.next, c.cat, p, Committed.pool)
    BY <2>1, <2>2, <2>4
  <2>6. ~Quarantined(st, p, c) /\ (~IsLocal(c.cat[p]) => StartupSnapshot(st, p, c) = {Committed.pool})
    BY <2>4, <2>5 DEF SameSlots, SourceIsTrusted, Serves, Quarantined, StartupSnapshot
  <2> QED
    BY <2>1, <2>4, <2>6
<1>4. CASE txn.pc # "publish"
  <2>1. /\ c = [cat |-> runtime.cat, default |-> runtime.default]
        /\ Committed.active = runtime.active /\ Committed.pool = runtime.pool
    BY <1>4 DEF Committed
  <2>2. /\ BoundState(mem, runtime.cat, runtime.active)
        /\ SourceIsTrusted(mem, runtime.active, runtime.cat[runtime.active])
        /\ Serves(mem, runtime.cat, runtime.active, runtime.pool)
    BY <1>1 DEF EntryInv, TrustInv, LiveProfileTrusted, ResumeInv
  <2>3. SavedAs(disk, mem) \/ StartedFrom(disk)
    BY <1>1, <1>4 DEF ResumeInv
  <2> HIDE DEF c
  <2>4. /\ BootProfile(BootState(disk, c), c) = runtime.active
        /\ SameSlots(ActivateSubscription(BootState(disk, c), runtime.active), mem)
    <3>1. CASE SavedAs(disk, mem)
      <4>1. c.cat = runtime.cat /\ disk \in WireState
        BY <1>2, <2>1, <3>1 DEF SavedAs
      <4> QED
        BY <1>1, <2>2, <3>1, <4>1, RunningTypes, ReloadSame
    <3>2. CASE StartedFrom(disk)
      BY <2>1, <3>2 DEF StartedFrom
    <3> QED
      BY <2>3, <3>1, <3>2
  <2>5. c.cat = runtime.cat
    BY <2>1
  <2>6. p = runtime.active /\ SameSlots(st, mem)
    BY <2>4
  <2> HIDE DEF p, st
  <2>7. SourceIsTrusted(mem, p, c.cat[p]) /\ Serves(mem, c.cat, p, Committed.pool)
    BY <2>1, <2>2, <2>5, <2>6
  <2>8. ~Quarantined(st, p, c) /\ (~IsLocal(c.cat[p]) => StartupSnapshot(st, p, c) = {Committed.pool})
    BY <2>6, <2>7 DEF SameSlots, SourceIsTrusted, Serves, Quarantined, StartupSnapshot
  <2> QED
    BY <2>1, <2>6, <2>8
<1> QED
  BY <1>3, <1>4

(* The slot of the target in the state a transaction commits. *)
LEMMA NextStateSlot ==
    ASSUME TypeOK, TrustInv, txn.pc = "state"
    PROVE  /\ txn.slot # None => NextState.slots[txn.target] = txn.slot
           /\ txn.slot = None /\ ~txn.fresh => NextState.slots[txn.target] = mem.slots[txn.target]
<1> DEFINE fresh == IF txn.fresh THEN txn.target ELSE None
           A == ApplySubscriptionCatalog(mem, runtime.cat, txn.cat, fresh)
           B == ActivateSubscription(A, txn.target)
           stale == {p \in Configured(txn.cat) :
                        runtime.cat[p] # txn.cat[p] \/ Mismatch(mem, txn.cat, p)}
<1>1. /\ mem \in StateFile /\ txn.cat \in Catalog
      /\ txn.target \in Profiles /\ txn.target \in Configured(txn.cat)
      /\ txn.slot \in Slots \cup {None} /\ fresh \in Profiles \cup {None}
  BY DEF TypeOK, Txn, Configured
<1>2. A \in StateFile /\ A = ApplySubscriptionCatalog(mem, runtime.cat, txn.cat, fresh)
  BY <1>1, ApplyType DEF TypeOK, Runtime, up
<1>3. Invalidated(stale, mem, runtime.cat, txn.cat)
  BY DEF Invalidated
<1>4. SameSlots(B, A) /\ B \in StateFile
  BY <1>1, <1>2, ActivateSlots, ActivateType
<1>5. NextState = IF txn.slot = None THEN B ELSE [B EXCEPT !.slots[txn.target] = txn.slot]
  BY DEF NextState
<1> HIDE DEF A, fresh, B, stale
<1>6. Applied(A, mem, txn.cat, fresh, stale)
  BY <1>1, <1>2, <1>3, ApplyEntry
<1>7. txn.slot # None => NextState.slots[txn.target] = txn.slot
  BY <1>1, <1>4, <1>5 DEF StateFile
<1>8. ASSUME txn.slot = None, ~txn.fresh PROVE NextState.slots[txn.target] = mem.slots[txn.target]
  <2>1. SourceIsTrusted(mem, txn.target, txn.cat[txn.target]) /\ runtime.cat[txn.target] = txn.cat[txn.target]
    BY <1>8 DEF TrustInv, BeforePublication
  <2>2. txn.target \notin stale /\ txn.target # fresh
    BY <1>1, <1>3, <1>8, <2>1, NoneAssumption DEF Invalidated, Mismatch, SourceIsTrusted, fresh
  <2>3. A.slots[txn.target] = mem.slots[txn.target]
    BY <1>1, <1>6, <2>2 DEF Applied, SameEntry
  <2> QED
    BY <1>4, <1>5, <1>8, <2>3 DEF SameSlots
<1> QED
  BY <1>7, <1>8

(* A new cache slot is not the one the live selection was read from          *)
(* (commit_cache_slot).                                                      *)
LEMMA ReplaceKeepsLive ==
    ASSUME CachesKeepTheirOwner, TypeOK, MemoryInv, EntryInv, txn.pc = "cache", WritesCache, ReplaceSlot,
           NEW m, Keeps(slotFile, bareFile, mem, runtime.cat, runtime.active, m)
    PROVE  Keeps(slotFile', bareFile, mem, runtime.cat, runtime.active, m)
<1> DEFINE src == runtime.cat[runtime.active]
<1>1. /\ runtime.active \in Profiles /\ up /\ txn.target \in Profiles
      /\ txn.cat[txn.target] # None /\ txn.prep.src = txn.cat[txn.target]
      /\ ~IsLocal(txn.prep.src) /\ txn.confirmed = mem.slots[txn.target]
  BY RunningTypes DEF MemoryInv, WritesCache, Configured, BeforePublication
<1>2. slotFile \in [Caches -> [Slots -> Manifest \cup {None}]] /\ txn.confirmed # NextSlot
  BY NoneAssumption DEF TypeOK, NextSlot
<1>3. SUFFICES ASSUME ~IsLocal(src), mem.slots[runtime.active] # None
               PROVE  slotFile'[CacheOf[src]][mem.slots[runtime.active]]
                         = slotFile[CacheOf[src]][mem.slots[runtime.active]]
  BY DEF Keeps, Held
<1>4. CASE CacheOf[src] # CacheOf[txn.prep.src]
  BY <1>2, <1>4 DEF ReplaceSlot
<1>5. CASE CacheOf[src] = CacheOf[txn.prep.src] /\ src # None
  <2>1. PICK c \in Configs : runtime.cat = c.cat
    BY <1>1 DEF MemoryInv
  <2>2. PICK d \in Configs : txn.cat = d.cat
    BY DEF MemoryInv
  <2>3. runtime.active = txn.target
    BY <1>1, <1>3, <1>5, <2>1, <2>2 DEF CachesKeepTheirOwner
  <2>4. mem.slots[runtime.active] # NextSlot
    BY <1>1, <1>2, <2>3
  <2> HIDE DEF src
  <2> QED
    BY <1>2, <2>4 DEF ReplaceSlot
<1>6. src # None
  BY <1>1 DEF EntryInv, BoundState, Configured
<1> QED
  BY <1>4, <1>5, <1>6

(* What ResumeInv says, with the files it reads made explicit. *)
Resumes(sf, bf) ==
    /\ up => Keeps(sf, bf, mem, runtime.cat, runtime.active, runtime.pool)
    /\ up /\ txn.pc # "publish" => SavedAs(disk, mem) \/ StartedFrom(disk)
    /\ txn.pc \in {"gate", "stage", "cache", "state"} /\ ~txn.fresh =>
          Keeps(sf, bf, mem, txn.cat, txn.target, txn.prep)
    /\ txn.pc = "publish" =>
          SavedAs(disk, txn.next) /\ Keeps(sf, bf, txn.next, txn.cat, txn.target, txn.prep)

(* The two forms are the same. *)
LEMMA ResumesForm == ResumeInv <=> Resumes(slotFile, bareFile)
BY DEF ResumeInv, Resumes, Serves, SnapshotFromSlot, Held, Keeps

(* A step that leaves the caches and the selection alone and saves nothing   *)
(* but the memory it leaves.                                                 *)
LEMMA ResumeKept ==
    ASSUME TypeOK, ResumeInv, UNCHANGED <<slotFile, bareFile, phase, runtime>>, SameButNodes(mem', mem),
           mem' \in StateFile,
           disk' = disk \/ (txn.pc # "publish" /\ disk' = PersistedState(mem')),
           txn' = txn \/ (txn'.pc # "publish" /\ txn.pc # "publish"),
           txn'.pc \in {"gate", "stage", "cache", "state"} /\ ~txn'.fresh =>
               Keeps(slotFile, bareFile, mem, txn'.cat, txn'.target, txn'.prep)
    PROVE  ResumeInv'
<1>1. Resumes(slotFile, bareFile)
  BY ResumesForm
<1>2. SUFFICES Resumes(slotFile, bareFile)'
  BY DEF ResumeInv, Resumes, Serves, SnapshotFromSlot, Held, Keeps
<1>3. \A cat, p, m : Keeps(slotFile', bareFile', mem', cat, p, m) <=> Keeps(slotFile, bareFile, mem, cat, p, m)
  BY DEF Keeps, SameButNodes
<1>4. \A d : SavedAs(d, mem') <=> SavedAs(d, mem)
  BY DEF SavedAs, SameSlots, SameButNodes
<1>5. disk' = disk \/ SavedAs(disk', mem')
  BY SavedExists, PersistSlots DEF SavedAs, PersistedState
<1>6. ASSUME disk' = disk, StartedFrom(disk) PROVE StartedFrom(disk)'
  BY <1>6 DEF StartedFrom, SameSlots, SameButNodes
<1>7. up' => Keeps(slotFile', bareFile', mem', runtime'.cat, runtime'.active, runtime'.pool)
  BY <1>1, <1>3 DEF Resumes, up
<1>8. up' /\ txn'.pc # "publish" => SavedAs(disk', mem') \/ StartedFrom(disk)'
  BY <1>1, <1>4, <1>5, <1>6 DEF Resumes, up
<1>9. txn'.pc \in {"gate", "stage", "cache", "state"} /\ ~txn'.fresh =>
          Keeps(slotFile', bareFile', mem', txn'.cat, txn'.target, txn'.prep)
  BY <1>3
<1>10. txn'.pc = "publish" =>
          SavedAs(disk', txn'.next) /\ Keeps(slotFile', bareFile', txn'.next, txn'.cat, txn'.target, txn'.prep)
  BY <1>1 DEF Resumes
<1> QED
  BY <1>7, <1>8, <1>9, <1>10 DEF Resumes

(* The steps of a transaction keep a restart's view: none but the commit of  *)
(* the state file changes it (switch_subscription_locked).                   *)
LEMMA ResumeTxnStep ==
    ASSUME CachesKeepTheirOwner, "probe" \notin Faults, TypeOK, TypeOK', MemoryInv, EntryInv, TrustInv, ResumeInv,
           TxnStep
    PROVE  ResumeInv'
<1> USE DEF files, daemon
<1>1. /\ txn \in Txn /\ mem \in StateFile /\ mem' \in StateFile /\ SameButNodes(mem, mem)
      /\ Resumes(slotFile, bareFile)
  BY ResumesForm DEF TypeOK, SameButNodes
<1>3. CASE PrepareFresh
  <2>1. /\ txn'.pc = "gate" /\ txn'.fresh /\ txn.pc = "prepare" /\ mem' = mem
        /\ UNCHANGED <<slotFile, bareFile, phase, runtime, disk>>
    BY <1>1, <1>3 DEF PrepareFresh, Advance, Txn
  <2> QED
    BY <1>1, <2>1, ResumeKept
<1>4. CASE PrepareCached
  <2>1. PICK m \in SnapshotFromSlot(txn.cat[txn.target], txn.confirmed) \ {None} :
          txn' = [txn EXCEPT !.pc = "gate", !.prep = m]
    BY <1>4 DEF PrepareCached, Advance
  <2>2. /\ txn'.pc = "gate" /\ txn'.prep = m /\ txn'.target = txn.target /\ txn'.cat = txn.cat
        /\ txn.pc = "prepare" /\ mem' = mem /\ UNCHANGED <<slotFile, bareFile, phase, runtime, disk>>
    BY <1>1, <1>4, <2>1 DEF PrepareCached, Advance, Txn
  <2>3. txn.confirmed = mem.slots[txn.target]
    BY <2>2 DEF MemoryInv, BeforePublication
  <2>4. Keeps(slotFile, bareFile, mem, txn'.cat, txn'.target, txn'.prep)
    BY <2>1, <2>2, <2>3 DEF SnapshotFromSlot, Keeps, Held
  <2> QED
    BY <1>1, <2>2, <2>4, ResumeKept
<1>5. CASE AcquireGate \/ StageClasses
  <2>1. /\ txn'.pc \in {"stage", "cache"} /\ txn'.prep = txn.prep /\ txn'.fresh = txn.fresh
        /\ txn'.target = txn.target /\ txn'.cat = txn.cat
        /\ txn.pc \in {"gate", "stage"} /\ mem' = mem /\ UNCHANGED <<slotFile, bareFile, phase, runtime, disk>>
    BY <1>1, <1>5 DEF AcquireGate, StageClasses, Advance, Txn
  <2>2. ~txn'.fresh => Keeps(slotFile, bareFile, mem, txn'.cat, txn'.target, txn'.prep)
    BY <1>1, <2>1 DEF Resumes
  <2> QED
    BY <1>1, <2>1, <2>2, ResumeKept
<1>6. CASE AbortBeforeCommit \/ CommitStateFails \/ FinishTxn
  <2>1. /\ txn'.pc = "idle" /\ txn.pc # "publish" /\ mem' = mem /\ UNCHANGED <<slotFile, bareFile, phase, runtime>>
        /\ disk' = disk \/ disk' = PersistedState(mem')
    BY <1>6 DEF AbortBeforeCommit, CommitStateFails, FinishTxn, Abort, Advance, NoTxn, SaveAtomic
  <2> QED
    BY <1>1, <2>1, ResumeKept
<1>7. CASE CommitCacheFails
  <2>1. /\ txn'.pc = "idle" /\ txn.pc = "cache" /\ UNCHANGED <<mem, bareFile, phase, runtime, disk>>
        /\ WritesCache /\ ReplaceSlot
    BY <1>7 DEF CommitCacheFails, Abort, Advance, NoTxn
  <2>2. Keeps(slotFile', bareFile, mem, runtime.cat, runtime.active, runtime.pool) /\ up
    BY <1>1, <2>1, RunningTypes, ReplaceKeepsLive DEF Resumes
  <2>3. Resumes(slotFile, bareFile)'
    BY <1>1, <2>1, <2>2 DEF Resumes, StartedFrom, up
  <2> QED
    BY <2>3 DEF ResumeInv, Resumes, Serves, SnapshotFromSlot, Held, Keeps
<1>8. CASE CommitCache
  <2>1. /\ txn'.pc = "state" /\ txn'.prep = txn.prep /\ txn'.fresh = txn.fresh
        /\ txn'.target = txn.target /\ txn'.cat = txn.cat /\ txn.pc = "cache"
        /\ UNCHANGED <<mem, bareFile, phase, runtime, disk>>
        /\ WritesCache => ReplaceSlot
        /\ ~WritesCache => slotFile' = slotFile
    BY <1>1, <1>8 DEF CommitCache, Advance, Txn
  <2>2. Keeps(slotFile', bareFile, mem, runtime.cat, runtime.active, runtime.pool)
    <3>1. Keeps(slotFile, bareFile, mem, runtime.cat, runtime.active, runtime.pool)
      BY <1>1, <2>1, RunningTypes DEF Resumes
    <3>2. CASE WritesCache
      BY <2>1, <3>1, <3>2, ReplaceKeepsLive
    <3> QED
      BY <2>1, <3>1, <3>2
  <2>3. ~txn'.fresh => Keeps(slotFile', bareFile, mem, txn.cat, txn.target, txn.prep)
    BY <1>1, <2>1 DEF Resumes, WritesCache
  <2>4. SavedAs(disk, mem) \/ StartedFrom(disk)
    BY <1>1, <2>1, RunningTypes DEF Resumes
  <2>5. Resumes(slotFile, bareFile)'
    BY <2>1, <2>2, <2>3, <2>4 DEF Resumes, StartedFrom
  <2> QED
    BY <2>5 DEF ResumeInv, Resumes, Serves, SnapshotFromSlot, Held, Keeps
<1>9. CASE CommitState
  <2>1. /\ UNCHANGED <<mem, runtime, slotFile, bareFile, phase>>
        /\ disk' = PersistedState(NextState) /\ NextState \in StateFile
        /\ txn.pc = "state" /\ txn'.pc = "publish" /\ txn'.next = NextState
        /\ txn'.target = txn.target /\ txn'.cat = txn.cat /\ txn'.prep = txn.prep
    BY <1>9, CommitEffect DEF CommitState, Advance
  <2>2. SavedAs(disk', NextState)
    BY <2>1, SavedExists, PersistSlots DEF SavedAs, PersistedState
  <2>3. Keeps(slotFile, bareFile, NextState, txn.cat, txn.target, txn.prep)
    <3>1. /\ txn.slot # None => NextState.slots[txn.target] = txn.slot
          /\ txn.slot = None /\ ~txn.fresh => NextState.slots[txn.target] = mem.slots[txn.target]
          /\ txn.prep.src = txn.cat[txn.target]
      BY <2>1, NextStateSlot DEF TrustInv
    <3>2. CASE txn.slot # None
      BY <2>1, <3>1, <3>2 DEF MemoryInv, Keeps, Held
    <3>3. CASE txn.slot = None /\ ~txn.fresh
      BY <1>1, <2>1, <3>1, <3>3 DEF Resumes, Keeps
    <3>4. CASE txn.slot = None /\ txn.fresh
      BY <2>1, <3>1, <3>4 DEF TrustInv, WritesCache, Keeps
    <3> QED
      BY <3>2, <3>3, <3>4
  <2>4. phase = "serve"
    BY <2>1 DEF TypeOK
  <2>5. Resumes(slotFile, bareFile)'
    BY <1>1, <2>1, <2>2, <2>3, <2>4 DEF Resumes, up
  <2> QED
    BY <2>5 DEF ResumeInv, Resumes, Serves, SnapshotFromSlot, Held, Keeps
<1>10. CASE Publish
  <2>1. /\ mem' = txn.next /\ UNCHANGED <<disk, slotFile, bareFile, phase>>
        /\ runtime'.cat = txn.cat /\ runtime'.active = txn.target /\ runtime'.pool = txn.prep
        /\ txn'.pc = "save" /\ txn.pc = "publish" /\ phase = "serve"
    BY <1>10, PublishEffect DEF Publish, Advance, TypeOK
  <2>2. Resumes(slotFile, bareFile)'
    BY <1>1, <2>1 DEF Resumes
  <2> QED
    BY <2>2 DEF ResumeInv, Resumes, Serves, SnapshotFromSlot, Held, Keeps
<1> QED
  BY <1>3, <1>4, <1>5, <1>6, <1>7, <1>8, <1>9, <1>10 DEF TxnStep

(* ... and so does every other step: starts, stops, edits, saves, probes. *)
LEMMA ResumeStep ==
    ASSUME CachesKeepTheirOwner, "probe" \notin Faults, TypeOK, TypeOK', MemoryInv, EntryInv, TrustInv, ResumeInv,
           [Next]_vars
    PROVE  ResumeInv'
<1> USE DEF files, daemon
<1>1. /\ mem \in StateFile /\ mem' \in StateFile /\ SameButNodes(mem, mem)
      /\ Resumes(slotFile, bareFile)
  BY ResumesForm DEF TypeOK, SameButNodes
<1>2. CASE Start
  <2>1. CASE Boots
    <3> DEFINE p  == BootProfile(BootState(disk, config), config)
               st == ActivateSubscription(BootState(disk, config), p)
               c  == [cat |-> config.cat, default |-> config.default]
    <3>1. PICK m \in StartupSnapshot(st, p, config) \ {None} :
            /\ mem' = st
            /\ runtime' = [active |-> p, pool |-> m, cat |-> config.cat,
                           generation |-> 0, default |-> config.default]
      BY <2>1 DEF Boots
    <3>2. /\ phase' = "boot" /\ txn'.pc = "idle" /\ UNCHANGED <<disk, slotFile, bareFile>>
      BY <1>2, <2>1, RunningTypes DEF Start, Boots, up
    <3>3. BootState(disk, c) = BootState(disk, config)
      BY DEF BootState
    <3>4. BootProfile(BootState(disk, c), c) = p
      BY <3>3 DEF BootProfile
    <3> HIDE DEF p
    <3>5. SameSlots(ActivateSubscription(BootState(disk, c), p), mem')
      BY <3>1, <3>3 DEF SameSlots
    <3>6. StartedFrom(disk)'
      BY <3>1, <3>2, <3>4, <3>5 DEF StartedFrom
    <3>7. Keeps(slotFile, bareFile, st, config.cat, p, m)
      <4> HIDE DEF st
      <4> QED
        BY <3>1 DEF StartupSnapshot, SnapshotFromSlot, Keeps, Held
    <3>8. Resumes(slotFile, bareFile)'
      BY <3>1, <3>2, <3>6, <3>7 DEF Resumes
    <3> QED
      BY <3>8 DEF ResumeInv, Resumes, Serves, SnapshotFromSlot, Held, Keeps
  <2>2. CASE ~Boots
    <3>1. Works
      BY <1>2, <2>2, StepKinds, CommitEffect, PublishEffect DEF Start, Halts
    <3>2. UNCHANGED <<slotFile, bareFile, phase, runtime, disk, txn>> /\ SameButNodes(mem', mem)
      BY <1>2, <3>1 DEF Start, Works, up, TypeOK
    <3>3. txn.pc = "idle"
      BY <1>2, RunningTypes DEF Start
    <3> QED
      BY <1>1, <3>2, <3>3, ResumeKept
  <2> QED
    BY <2>1, <2>2
<1>3. CASE FinishBoot
  <2>1. /\ UNCHANGED <<slotFile, bareFile, mem, runtime, txn>>
        /\ disk' = disk \/ disk' = PersistedState(mem)
        /\ phase = "boot" /\ phase' = "serve"
    BY <1>3 DEF FinishBoot, SaveAtomic
  <2>2. disk' = disk \/ SavedAs(disk', mem)
    BY <1>1, <2>1, SavedExists, PersistSlots DEF SavedAs, PersistedState
  <2>3. txn.pc = "idle" /\ up /\ up'
    BY <2>1 DEF TypeOK, up
  <2>4. Resumes(slotFile, bareFile)'
    BY <1>1, <2>1, <2>2, <2>3 DEF Resumes, StartedFrom
  <2> QED
    BY <2>4 DEF ResumeInv, Resumes, Serves, SnapshotFromSlot, Held, Keeps
<1>4. CASE Crash \/ Shutdown
  <2>1. phase' = "down" /\ txn'.pc = "idle"
    BY <1>4 DEF Crash, Shutdown, Stopped, NoTxn
  <2> QED
    BY <2>1 DEF ResumeInv, up
<1>5. CASE EditConfig \/ UNCHANGED vars
  <2>1. UNCHANGED <<slotFile, bareFile, phase, runtime, disk, txn, mem>>
    BY <1>5 DEF EditConfig, vars
  <2> QED
    BY <1>1, <2>1, ResumeKept DEF Resumes
<1>6. CASE BeginReload \/ \E p \in Profiles : BeginSwitch(p)
  <2>1. /\ UNCHANGED <<slotFile, bareFile, phase, runtime, disk, mem>>
        /\ txn'.pc = "prepare" /\ txn.pc = "idle"
    BY <1>6 DEF BeginReload, BeginSwitch, BeginTxn, NoTxn
  <2> QED
    BY <1>1, <2>1, ResumeKept
<1>7. CASE SharedStep
  <2>1. \A src : Record(src) => SameButNodes(mem', mem)
    BY DEF Record, SameButNodes, TypeOK, StateFile
  <2>2. CASE ProbeCycle
    <3>1. /\ UNCHANGED <<slotFile, bareFile, phase, runtime, txn>> /\ SameButNodes(mem', mem)
          /\ disk' = disk \/ (disk' = PersistedState(mem') /\ txn.pc # "publish")
      BY <2>1, <2>2 DEF ProbeCycle, SaveAtomic, GateHeld
    <3> QED
      BY <1>1, <3>1, ResumeKept DEF Resumes
  <2>3. CASE HealthRecord
    <3>1. UNCHANGED <<slotFile, bareFile, phase, runtime, txn, disk>> /\ SameButNodes(mem', mem)
      BY <2>1, <2>3 DEF HealthRecord
    <3> QED
      BY <1>1, <3>1, ResumeKept DEF Resumes
  <2>4. CASE ProbeNowPool \/ ProbeNowEra \/ ProbeNowNode \/ ProbeNowSave
    BY <2>4 DEF ProbeNowPool, ProbeNowEra, ProbeNowNode, ProbeNowSave, ProbeStep
  <2> QED
    BY <1>7, <2>2, <2>3, <2>4 DEF SharedStep
<1> QED
  BY <1>2, <1>3, <1>4, <1>5, <1>6, <1>7, ResumeTxnStep DEF Next

(* A daemon that dies in any step and is restarted with the configuration it *)
(* committed last selects the same profile, finds it trusted and loads       *)
(* exactly the committed manifest; a half-done transaction leaves no trace   *)
(* (switch_subscription_locked, commit_cache_slot, save_atomic, run).  The   *)
(* hypotheses are those of OnlyTrustedIsLive, and no on-demand probe saves   *)
(* the old state inside the publication window.                              *)
THEOREM RestartResumes ==
    ASSUME CachesKeepTheirOwner, ChangedNamesStay, Faults \subseteq {"probe"} \/ SourcesMoveForward,
           "probe" \notin Faults
    PROVE  Spec => []RestartResumesCommitted
<1>1. Init => ResumeInv
  BY DEF Init, ResumeInv, NoTxn, up
<1>2. TypeOK /\ TypeOK' /\ MemoryInv /\ EntryInv /\ TrustInv /\ ResumeInv /\ [Next]_vars => ResumeInv'
  BY ResumeStep
<1>3. (Spec => []TypeOK) /\ (Spec => []EntryInv) /\ (Spec => [](MemoryInv /\ TrustInv))
  BY TypeCorrect, EntryInvariant, SourcesInvariant
<1>4. TypeOK /\ EntryInv /\ TrustInv /\ ResumeInv => RestartResumesCommitted
  BY ResumeSuffices
<1> QED
  BY <1>1, <1>2, <1>3, <1>4, PTL DEF Spec

(* The selection on disk stays the one about to be published. *)
LEMMA WindowKept ==
    ASSUME "probe" \notin Faults, TypeOK, [Next]_vars,
           txn.pc = "publish" => SavedAs(disk, txn.next)
    PROVE  txn'.pc = "publish" => SavedAs(disk', txn'.next)
<1> USE DEF files, daemon
<1>1. CASE CommitState
  BY <1>1, CommitEffect, SavedExists, PersistSlots DEF SavedAs, PersistedState
<1>2. CASE Boots \/ Halts \/ Publish
  BY <1>2, RunningTypes, PublishEffect DEF Boots, Halts
<1>3. ASSUME Works, txn'.pc = "publish" PROVE txn' = txn /\ disk' = disk
  <2>1. txn' = txn /\ txn.pc = "publish" /\ phase = "serve"
    BY <1>3 DEF Works, TypeOK
  <2>2. disk' = disk
    BY <2>1 DEF Next, vars, EditConfig, Start, FinishBoot, Crash, Shutdown, BeginSwitch, BeginReload, BeginTxn,
                TxnStep, PrepareFresh, PrepareCached, AcquireGate, StageClasses, AbortBeforeCommit,
                CommitCache, CommitCacheFails, CommitState, CommitStateFails, Publish, FinishTxn,
                SharedStep, ProbeCycle, HealthRecord, ProbeNowPool, ProbeNowEra, ProbeNowNode,
                ProbeNowSave, ProbeStep, GateHeld
  <2> QED
    BY <2>1, <2>2
<1> QED
  BY <1>1, <1>2, <1>3, StepKinds

(* Whatever else fails: where no on-demand probe saves the old state inside  *)
(* the publication window, a selection goes live only after the state file   *)
(* holds it (switch_subscription_locked).                                    *)
THEOREM DurableFirst ==
    ASSUME "probe" \notin Faults
    PROVE  Spec => DurableBeforeLive
<1> DEFINE Window == txn.pc = "publish" => SavedAs(disk, txn.next)
<1>1. Init => Window
  BY DEF Init, NoTxn
<1>2. TypeOK /\ Window /\ [Next]_vars => Window'
  BY WindowKept
<1>3. ASSUME TypeOK, Window, [Next]_vars, up, up', runtime' # runtime
      PROVE  disk # None /\ Selection(disk) = Selection(mem')
  <2>1. Publish
    BY <1>3, StepKinds, CommitEffect DEF Boots, Halts, Works
  <2>2. mem' = txn.next /\ SavedAs(disk, txn.next)
    BY <1>3, <2>1, PublishEffect DEF Publish
  <2> QED
    BY <2>2 DEF SavedAs, SameSlots, Selection
<1>4. TypeOK /\ Window /\ [Next]_vars =>
        [up /\ up' /\ runtime' # runtime => disk # None /\ Selection(disk) = Selection(mem')]_vars
  BY <1>3
<1> HIDE DEF Window
<1> QED
  BY <1>1, <1>2, <1>4, TypeCorrect, PTL DEF Spec, DurableBeforeLive


-----------------------------------------------------------------------------
(* The states of an unchanged configuration.                                *)

(* Every profile is trusted as cat says, with slots that sf can serve. *)
SettledIn(sf, cat, st) ==
    /\ \A p \in Profiles : st.ids[p] = cat[p] /\ st.pending[p] = None
    /\ st.active \in Configured(cat)
    /\ SlotsHoldTrustedSource(sf, st)

(* The selection of the state file d is the one of st. *)
AgreesWith(d, default, st) ==
    /\ d = None => st.active = default /\ \A p \in Profiles : st.slots[p] = None
    /\ d # None => d.active = st.active /\ d.slots = st.slots

(* A start finds the selection of the state file, or the default profile     *)
(* with its legacy cache (load, reconcile_startup_sources, run).             *)
LEMMA BootSettled ==
    ASSUME NEW d \in WireState \cup {None}, NEW c \in Configs, NEW sf,
           d # None => SettledIn(sf, c.cat, d)
    PROVE  LET p  == BootProfile(BootState(d, c), c)
               st == ActivateSubscription(BootState(d, c), p)
           IN  SettledIn(sf, c.cat, st) /\ AgreesWith(d, c.default, st) /\ st.active = p
<1> DEFINE st == IF d = None THEN DefaultState ELSE LoadedState(d)
           r  == BootState(d, c)
           p  == BootProfile(r, c)
           a  == ActivateSubscription(r, p)
<1>1. /\ c.cat \in Catalog /\ c.default \in Configured(c.cat) /\ st \in StateFile /\ r \in StateFile
      /\ p \in Configured(c.cat)
  BY ConfigsAssumption, LoadType, DefaultType, BootType
<1>2. r = ReconcileStartupSources(st, c.cat)
  BY DEF BootState
<1>3. /\ d = None => /\ st.active = None
                     /\ \A q \in Profiles : st.ids[q] = None /\ st.pending[q] = None /\ st.slots[q] = None
      /\ d # None => st.active = d.active /\ st.ids = d.ids /\ st.pending = d.pending /\ st.slots = d.slots
  BY DEF DefaultState, LoadedState
<1> HIDE DEF st, r
<1>4. /\ \A q \in Profiles \ Configured(c.cat) : EmptyEntry(r, q)
      /\ \A q \in Configured(c.cat) :
           /\ Mismatch(st, c.cat, q) => PendingEntry(r, st, c.cat, q)
           /\ ~Mismatch(st, c.cat, q) /\ st.ids[q] = None /\ st.pending[q] = None =>
                 TrustedEntry(r, st, c.cat, q)
           /\ ~Mismatch(st, c.cat, q) /\ ~(st.ids[q] = None /\ st.pending[q] = None) =>
                 SameEntry(r, st, q)
      /\ FlatView(r, st, c.cat, {q \in Configured(c.cat) : Mismatch(st, c.cat, q)})
  BY <1>1, <1>2, ReconcileEntry
<1>5. ASSUME NEW q \in Profiles
      PROVE  /\ r.ids[q] = c.cat[q] /\ r.pending[q] = None
             /\ d = None => r.slots[q] = None
             /\ d # None => r.slots[q] = d.slots[q]
  <2>1. CASE q \notin Configured(c.cat)
    <3>1. c.cat[q] = None /\ EmptyEntry(r, q)
      BY <1>4, <2>1 DEF Configured
    <3>2. d # None => d.slots[q] = None
      BY <3>1 DEF SettledIn, SlotsHoldTrustedSource
    <3> QED
      BY <3>1, <3>2 DEF EmptyEntry
  <2>2. CASE q \in Configured(c.cat) /\ d = None
    <3>1. ~Mismatch(st, c.cat, q)
      BY <1>3, <2>2 DEF Mismatch
    <3> QED
      BY <1>3, <1>4, <2>2, <3>1 DEF TrustedEntry
  <2>3. CASE q \in Configured(c.cat) /\ d # None
    <3>1. st.ids[q] = c.cat[q] /\ st.pending[q] = None /\ c.cat[q] # None
      BY <1>3, <2>3 DEF SettledIn, Configured
    <3>2. ~Mismatch(st, c.cat, q)
      BY <3>1 DEF Mismatch
    <3> QED
      BY <1>3, <1>4, <2>3, <3>1, <3>2 DEF SameEntry
  <2> QED
    BY <2>1, <2>2, <2>3
<1>6. /\ d = None => r.active = None
      /\ d # None => r.active = d.active /\ d.active \in Configured(c.cat)
  BY <1>3, <1>4 DEF FlatView, SettledIn
<1>7. /\ d = None => p = c.default
      /\ d # None => p = d.active
  BY <1>6, NoneAssumption DEF BootProfile, Configured
<1>8. SameSlots(a, r) /\ a.active = p /\ a \in StateFile
  <2>1. p \in Profiles
    BY <1>1 DEF Configured
  <2> HIDE DEF p
  <2>2. SameSlots(a, r) /\ a \in StateFile
    BY <1>1, <2>1, ActivateSlots, ActivateType
  <2>3. a.active = p
    BY <1>1 DEF ActivateSubscription, StateFile
  <2> QED
    BY <2>2, <2>3
<1> HIDE DEF p, a
<1>9. AgreesWith(d, c.default, a)
  <2>1. ASSUME d # None PROVE d.slots = a.slots
    <3>1. d.slots \in [Profiles -> Slots \cup {None}] /\ a.slots \in [Profiles -> Slots \cup {None}]
      BY <1>8, <2>1 DEF WireState, StateFile
    <3>2. \A q \in Profiles : d.slots[q] = a.slots[q]
      BY <1>5, <1>8, <2>1 DEF SameSlots
    <3> QED
      BY <3>1, <3>2
  <2> QED
    BY <1>5, <1>7, <1>8, <2>1 DEF AgreesWith, SameSlots
<1>10. SettledIn(sf, c.cat, a)
  <2>1. SlotsHoldTrustedSource(sf, a)
    <3>1. CASE d = None
      BY <1>5, <1>8, <3>1 DEF SlotsHoldTrustedSource, SameSlots
    <3>2. CASE d # None
      <4>1. \A q \in Profiles : d.ids[q] = c.cat[q] /\ d.pending[q] = None
        BY <3>2 DEF SettledIn
      <4>2. SlotsHoldTrustedSource(sf, d)
        BY <3>2 DEF SettledIn
      <4> QED
        BY <1>5, <1>8, <3>2, <4>1, <4>2 DEF SlotsHoldTrustedSource, SameSlots
    <3> QED
      BY <3>1, <3>2
  <2> QED
    BY <1>1, <1>5, <1>8, <2>1 DEF SettledIn, SameSlots
<1> QED
  BY <1>8, <1>9, <1>10 DEF a, p, r

(* The state a transaction commits: the target's slot changes, nothing else  *)
(* of the selection but the active profile.                                  *)
LEMMA NextStateSettled ==
    ASSUME TypeOK, txn.pc = "state", runtime.cat = txn.cat,
           \A p \in Profiles : mem.ids[p] = txn.cat[p] /\ mem.pending[p] = None,
           SlotsHoldTrustedSource(slotFile, mem)
    PROVE  /\ \A p \in Profiles : NextState.ids[p] = txn.cat[p] /\ NextState.pending[p] = None
           /\ \A p \in Profiles : p # txn.target \/ txn.slot = None => NextState.slots[p] = mem.slots[p]
           /\ txn.slot # None => NextState.slots[txn.target] = txn.slot
           /\ NextState.active = txn.target
<1> DEFINE fresh == IF txn.fresh THEN txn.target ELSE None
           A == ApplySubscriptionCatalog(mem, runtime.cat, txn.cat, fresh)
           B == ActivateSubscription(A, txn.target)
<1>1. /\ mem \in StateFile /\ txn.cat \in Catalog
      /\ txn.target \in Profiles /\ txn.target \in Configured(txn.cat)
      /\ txn.slot \in Slots \cup {None} /\ fresh \in Profiles \cup {None}
  BY DEF TypeOK, Txn, Configured
<1>2. A \in StateFile /\ A = ApplySubscriptionCatalog(mem, runtime.cat, txn.cat, fresh)
  BY <1>1, ApplyType DEF TypeOK, Runtime, up
<1>3. Invalidated({}, mem, runtime.cat, txn.cat)
  BY DEF Invalidated, Mismatch, Configured
<1>4. SameSlots(B, A) /\ B \in StateFile
  BY <1>1, <1>2, ActivateSlots, ActivateType
<1>5. B.active = txn.target
  <2> HIDE DEF A
  <2> QED
    BY <1>1, <1>2 DEF ActivateSubscription, StateFile
<1>6. NextState = IF txn.slot = None THEN B ELSE [B EXCEPT !.slots[txn.target] = txn.slot]
  BY DEF NextState
<1> HIDE DEF A, fresh, B
<1>7. Applied(A, mem, txn.cat, fresh, {})
  BY <1>1, <1>2, <1>3, ApplyEntry
<1>8. ASSUME NEW p \in Profiles
      PROVE  A.ids[p] = txn.cat[p] /\ A.pending[p] = None /\ A.slots[p] = mem.slots[p]
  <2>1. CASE p \notin Configured(txn.cat)
    <3>1. txn.cat[p] = None /\ EmptyEntry(A, p)
      BY <1>7, <2>1 DEF Configured, Applied
    <3>2. mem.slots[p] = None
      BY <3>1 DEF SlotsHoldTrustedSource
    <3> QED
      BY <3>1, <3>2 DEF EmptyEntry
  <2>2. CASE p \in Configured(txn.cat) /\ p = fresh
    BY <1>7, <2>2 DEF Applied
  <2>3. CASE p \in Configured(txn.cat) /\ p # fresh
    BY <1>7, <2>3 DEF Applied, SameEntry
  <2> QED
    BY <2>1, <2>2, <2>3
<1>9. /\ NextState.ids = A.ids /\ NextState.pending = A.pending /\ NextState.active = txn.target
      /\ \A p \in Profiles : p # txn.target \/ txn.slot = None => NextState.slots[p] = A.slots[p]
      /\ txn.slot # None => NextState.slots[txn.target] = txn.slot
  BY <1>1, <1>4, <1>5, <1>6 DEF SameSlots, StateFile
<1> QED
  BY <1>8, <1>9

(* A new cache slot is none that a settled state references, if it still     *)
(* references the confirmed slot of the target (commit_cache_slot).          *)
LEMMA ReplaceSpares ==
    ASSUME CachesUnshared, TypeOK, FixedInv, txn.pc = "cache", WritesCache, ReplaceSlot,
           NEW st, \A p \in Profiles : st.ids[p] = config.cat[p], st.slots[txn.target] = txn.confirmed,
           NEW q \in Profiles, st.slots[q] # None, config.cat[q] # None
    PROVE  slotFile'[CacheOf[config.cat[q]]][st.slots[q]] = slotFile[CacheOf[config.cat[q]]][st.slots[q]]
<1>1. /\ config \in Configs /\ txn.target \in Configured(config.cat) /\ txn.target \in Profiles
      /\ txn.prep.src = config.cat[txn.target] /\ ~IsLocal(txn.prep.src)
  BY RunningTypes DEF FixedInv, WritesCache, TypeOK
<1>2. slotFile \in [Caches -> [Slots -> Manifest \cup {None}]] /\ txn.confirmed # NextSlot
  BY NoneAssumption DEF TypeOK, NextSlot
<1>3. CASE CacheOf[config.cat[q]] # CacheOf[txn.prep.src]
  BY <1>2, <1>3 DEF ReplaceSlot
<1>4. CASE CacheOf[config.cat[q]] = CacheOf[txn.prep.src]
  <2>1. q = txn.target
    BY <1>1, <1>4 DEF CachesUnshared, Configured
  <2> QED
    BY <1>2, <2>1 DEF ReplaceSlot
<1> QED
  BY <1>3, <1>4

(* What a settled state serves is a manifest of the profile's source. *)
LEMMA SettledSource ==
    ASSUME CachesUnshared, TypeOK, bareFile \in PrimedBy(config), NEW st,
           SettledIn(slotFile, config.cat, st), NEW p \in Configured(config.cat),
           NEW m \in SnapshotFromSlot(config.cat[p], st.slots[p]), m # None
    PROVE  m.src = config.cat[p] /\ Keeps(slotFile, bareFile, st, config.cat, p, m)
<1> DEFINE src == config.cat[p]
<1>1. config \in Configs /\ config.cat \in Catalog /\ src \in Sources /\ p \in Profiles
  BY RunningTypes DEF TypeOK, Catalog, Configured
<1>2. CASE IsLocal(src)
  BY <1>2 DEF SnapshotFromSlot, Keeps
<1>3. CASE ~IsLocal(src) /\ st.slots[p] # None
  BY <1>1, <1>3 DEF SnapshotFromSlot, SettledIn, SlotsHoldTrustedSource, Keeps, Held
<1>4. CASE ~IsLocal(src) /\ st.slots[p] = None
  <2>1. m = bareFile[CacheOf[src]] /\ CacheOf[src] \in Caches
    BY <1>1, <1>4, CacheOfAssumption DEF SnapshotFromSlot, IsLocal
  <2>2. PICK q \in Configured(config.cat) : m.src = config.cat[q] /\ CacheOf[config.cat[q]] = CacheOf[src]
    BY <2>1 DEF PrimedBy
  <2>3. q = p
    BY <1>1, <1>4, <2>2 DEF CachesUnshared
  <2> QED
    BY <1>4, <2>1, <2>2, <2>3 DEF Keeps, Held
<1> QED
  BY <1>2, <1>3, <1>4

-----------------------------------------------------------------------------
(* FixedInv, with the files it reads made explicit.                         *)

(* What is live. *)
LiveFixed(sf, bf) ==
    /\ runtime.cat = config.cat /\ runtime.active = mem.active
    /\ SettledIn(sf, config.cat, mem)
    /\ runtime.pool.src = config.cat[runtime.active]
    /\ Keeps(sf, bf, mem, config.cat, runtime.active, runtime.pool)

(* What the transaction knows. *)
TxnFixed(sf, bf) ==
    /\ txn.pc # "idle" => txn.cat = config.cat
    /\ txn.pc \in BeforePublication => txn.confirmed = mem.slots[txn.target]
    /\ txn.pc \notin {"idle", "prepare"} => txn.prep.src = config.cat[txn.target]
    /\ txn.pc \in BeforePublication \ {"prepare"} /\ ~txn.fresh =>
          Keeps(sf, bf, mem, config.cat, txn.target, txn.prep)
    /\ txn.pc \in BeforePublication \ {"state"} => txn.slot = None
    /\ txn.pc = "prepare" => ~txn.fresh
    /\ txn.pc = "state" => (WritesCache <=> txn.slot # None)
    /\ txn.pc = "state" /\ WritesCache => sf[CacheOf[txn.prep.src]][txn.slot] = txn.prep

(* What is about to be published. *)
NextFixed(sf, bf) ==
    /\ disk # None /\ SettledIn(sf, config.cat, txn.next) /\ txn.next.active = txn.target
    /\ AgreesWith(disk, config.default, txn.next)
    /\ Keeps(sf, bf, txn.next, config.cat, txn.target, txn.prep)

(* All of it. *)
Fixed(sf, bf) ==
    /\ bf \in PrimedBy(config)
    /\ disk # None => SettledIn(sf, config.cat, disk)
    /\ up => LiveFixed(sf, bf)
    /\ up /\ txn.pc # "publish" => AgreesWith(disk, config.default, mem)
    /\ TxnFixed(sf, bf)
    /\ txn.pc = "publish" => NextFixed(sf, bf)

(* The two forms are the same, now and in the next state. *)
LEMMA FixedForm == FixedInv <=> Fixed(slotFile, bareFile)
BY ZenonT(40) DEF FixedInv, Fixed, LiveFixed, TxnFixed, NextFixed, Settled, SettledIn, Agrees, AgreesWith,
       Serves, SnapshotFromSlot, Held, Keeps

(* The same form in the next state. *)
LEMMA FixedFormNext == Fixed(slotFile, bareFile)' => FixedInv'
BY DEF FixedInv, Fixed, LiveFixed, TxnFixed, NextFixed, Settled, SettledIn, Agrees, AgreesWith,
       Serves, SnapshotFromSlot, Held, Keeps

(* A saved settled state is settled and agrees with memory. *)
LEMMA SavedSettled ==
    ASSUME NEW sf, NEW cat, NEW default, NEW st \in StateFile, SettledIn(sf, cat, st)
    PROVE  /\ PersistedState(st) # None /\ SettledIn(sf, cat, PersistedState(st))
           /\ AgreesWith(PersistedState(st), default, st)
<1>1. PersistedState(st) # None
  BY SavedExists
<1> QED
  BY <1>1 DEF SettledIn, SlotsHoldTrustedSource, AgreesWith, PersistedState

(* Settling, agreeing and keeping are not about statistics. *)
LEMMA NodesDoNotMatter ==
    ASSUME NEW r, NEW st, SameButNodes(r, st)
    PROVE  /\ \A sf, cat : SettledIn(sf, cat, st) => SettledIn(sf, cat, r)
           /\ \A d, default : AgreesWith(d, default, st) => AgreesWith(d, default, r)
           /\ \A sf, bf, cat, p, m : Keeps(sf, bf, st, cat, p, m) => Keeps(sf, bf, r, cat, p, m)
<1>1. r.active = st.active /\ r.slots = st.slots /\ r.ids = st.ids /\ r.pending = st.pending
  BY DEF SameButNodes
<1>2. \A sf, cat : SettledIn(sf, cat, st) => SettledIn(sf, cat, r)
  BY <1>1 DEF SettledIn, SlotsHoldTrustedSource
<1>3. \A d, default : AgreesWith(d, default, st) => AgreesWith(d, default, r)
  BY <1>1 DEF AgreesWith
<1>4. \A sf, bf, cat, p, m : Keeps(sf, bf, st, cat, p, m) => Keeps(sf, bf, r, cat, p, m)
  BY <1>1 DEF Keeps
<1> QED
  BY <1>2, <1>3, <1>4

(* A step that changes statistics, saves memory, and moves the transaction. *)
LEMMA FixedKept ==
    ASSUME TypeOK, TypeOK', FixedInv, UNCHANGED <<config, slotFile, bareFile, runtime>>, up' <=> up,
           SameButNodes(mem', mem),
           disk' = disk \/ (up /\ txn.pc # "publish" /\ disk' = PersistedState(mem')),
           txn' = txn \/ (txn'.pc # "publish" /\ txn.pc # "publish" /\ TxnFixed(slotFile, bareFile)')
    PROVE  FixedInv'
<1>1. Fixed(slotFile, bareFile) /\ mem' \in StateFile
  BY FixedForm DEF TypeOK
<1>2. bareFile' \in PrimedBy(config)'
  BY <1>1 DEF Fixed, PrimedBy
<1>3. ASSUME up PROVE LiveFixed(slotFile, bareFile)' /\ SettledIn(slotFile, config.cat, mem')
  <2>1. LiveFixed(slotFile, bareFile)
    BY <1>1, <1>3 DEF Fixed
  <2> QED
    BY <2>1, NodesDoNotMatter DEF LiveFixed, SameButNodes
<1>4. disk' # None => SettledIn(slotFile, config.cat, disk')
  BY <1>1, <1>3, SavedSettled DEF Fixed
<1>5. ASSUME up, txn'.pc # "publish" PROVE AgreesWith(disk', config.default, mem')
  <2>1. txn.pc # "publish"
    BY <1>5
  <2>2. AgreesWith(disk, config.default, mem')
    BY <1>1, <1>5, <2>1, NodesDoNotMatter DEF Fixed
  <2> QED
    BY <1>1, <1>3, <1>5, <2>2, SavedSettled
<1>6. TxnFixed(slotFile, bareFile)'
  <2>1. CASE txn' = txn
    <3>1. TxnFixed(slotFile, bareFile) /\ mem'.slots = mem.slots /\ WritesCache' = WritesCache
      BY <1>1, <2>1 DEF Fixed, SameButNodes, WritesCache
    <3> QED
      BY <2>1, <3>1 DEF TxnFixed, Keeps
  <2> QED
    BY <2>1
<1>7. ASSUME txn'.pc = "publish" PROVE NextFixed(slotFile, bareFile)'
  <2>1. txn' = txn /\ txn.pc = "publish" /\ disk' = disk
    BY <1>7
  <2> QED
    BY <1>1, <2>1 DEF Fixed, NextFixed
<1>8. Fixed(slotFile, bareFile)'
  BY <1>2, <1>3, <1>4, <1>5, <1>6, <1>7 DEF Fixed
<1> QED
  BY <1>8, FixedFormNext

(* Writing the other slot leaves what is live and what is saved alone, even  *)
(* if the transaction then fails (save_private_cache).                       *)
LEMMA ReplaceFixed ==
    ASSUME CachesUnshared, TypeOK, FixedInv, txn.pc = "cache", WritesCache, ReplaceSlot
    PROVE  /\ SettledIn(slotFile', config.cat, mem)
           /\ disk # None => SettledIn(slotFile', config.cat, disk)
           /\ Keeps(slotFile', bareFile, mem, config.cat, runtime.active, runtime.pool)
<1>1. /\ up /\ txn.target \in Profiles /\ txn.confirmed = mem.slots[txn.target]
      /\ LiveFixed(slotFile, bareFile) /\ AgreesWith(disk, config.default, mem)
      /\ disk # None => SettledIn(slotFile, config.cat, disk)
  BY RunningTypes, FixedForm DEF Fixed, TxnFixed, BeforePublication
<1>2. ASSUME NEW st, SettledIn(slotFile, config.cat, st), st.slots[txn.target] = txn.confirmed
      PROVE  SettledIn(slotFile', config.cat, st)
  <2>1. ASSUME NEW q \in Profiles, st.slots[q] # None
        PROVE  slotFile'[CacheOf[st.ids[q]]][st.slots[q]] = slotFile[CacheOf[st.ids[q]]][st.slots[q]]
    <3>1. config.cat[q] # None /\ st.ids[q] = config.cat[q] /\ \A p \in Profiles : st.ids[p] = config.cat[p]
      BY <1>2, <2>1 DEF SettledIn, SlotsHoldTrustedSource
    <3> QED
      BY <1>2, <2>1, <3>1, ReplaceSpares
  <2> QED
    BY <1>2, <2>1 DEF SettledIn, SlotsHoldTrustedSource
<1>3. SettledIn(slotFile', config.cat, mem)
  BY <1>1, <1>2 DEF LiveFixed
<1>4. disk # None => SettledIn(slotFile', config.cat, disk)
  BY <1>1, <1>2 DEF AgreesWith
<1>5. Keeps(slotFile', bareFile, mem, config.cat, runtime.active, runtime.pool)
  <2>1. /\ runtime.active \in Profiles /\ config.cat[runtime.active] # None
        /\ \A p \in Profiles : mem.ids[p] = config.cat[p]
    BY <1>1 DEF LiveFixed, SettledIn, Configured
  <2>2. CASE mem.slots[runtime.active] = None
    BY <1>1, <2>2 DEF LiveFixed, Keeps, Held
  <2>3. CASE mem.slots[runtime.active] # None
    <3>1. slotFile'[CacheOf[config.cat[runtime.active]]][mem.slots[runtime.active]]
            = slotFile[CacheOf[config.cat[runtime.active]]][mem.slots[runtime.active]]
      BY <1>1, <2>1, <2>3, ReplaceSpares
    <3> QED
      BY <1>1, <2>3, <3>1 DEF LiveFixed, Keeps, Held
  <2> QED
    BY <2>2, <2>3
<1> QED
  BY <1>3, <1>4, <1>5

(* A transaction at rest knows nothing. *)
LEMMA RestingFixed ==
    ASSUME txn'.pc = "idle"
    PROVE  TxnFixed(slotFile, bareFile)'
BY DEF TxnFixed, BeforePublication

(* The steps of a transaction preserve FixedInv, the failing ones included. *)
LEMMA FixedTxnStep ==
    ASSUME CachesUnshared, TypeOK, TypeOK', FixedInv, TxnStep
    PROVE  FixedInv'
<1> USE DEF files, daemon
<1>1. /\ txn \in Txn /\ mem \in StateFile /\ mem' \in StateFile /\ SameButNodes(mem, mem)
      /\ Fixed(slotFile, bareFile) /\ TxnFixed(slotFile, bareFile)
  BY FixedForm DEF TypeOK, SameButNodes, Fixed
<1>2. CASE PrepareFresh
  <2>1. PICK v \in Versions : txn' = [txn EXCEPT !.pc = "gate", !.fresh = TRUE,
                                      !.prep = [src |-> txn.cat[txn.target], ver |-> v]]
    BY <1>2 DEF PrepareFresh, Advance
  <2>2. /\ txn'.pc = "gate" /\ txn'.fresh /\ txn'.prep.src = txn.cat[txn.target] /\ txn'.slot = txn.slot
        /\ txn'.target = txn.target /\ txn'.cat = txn.cat /\ txn'.confirmed = txn.confirmed
        /\ txn.pc = "prepare"
    BY <1>1, <1>2, <2>1 DEF PrepareFresh, Txn
  <2>3. UNCHANGED <<config, slotFile, bareFile, phase, runtime, disk, mem>>
    BY <1>2 DEF PrepareFresh, Advance
  <2>4. TxnFixed(slotFile, bareFile)'
    BY <1>1, <2>2, <2>3 DEF TxnFixed, BeforePublication
  <2> QED
    BY <1>1, <2>2, <2>3, <2>4, FixedKept DEF up
<1>3. CASE PrepareCached
  <2>1. PICK m \in SnapshotFromSlot(txn.cat[txn.target], txn.confirmed) \ {None} :
          txn' = [txn EXCEPT !.pc = "gate", !.prep = m]
    BY <1>3 DEF PrepareCached, Advance
  <2>2. /\ txn'.pc = "gate" /\ txn'.prep = m /\ txn'.slot = txn.slot
        /\ txn'.target = txn.target /\ txn'.cat = txn.cat /\ txn'.confirmed = txn.confirmed
        /\ txn.pc = "prepare"
    BY <1>1, <1>3, <2>1 DEF PrepareCached, Txn
  <2>3. UNCHANGED <<config, slotFile, bareFile, phase, runtime, disk, mem>>
    BY <1>3 DEF PrepareCached, Advance
  <2>4. /\ txn.cat = config.cat /\ txn.confirmed = mem.slots[txn.target] /\ bareFile \in PrimedBy(config)
        /\ txn.target \in Configured(config.cat) /\ SettledIn(slotFile, config.cat, mem)
    BY <1>1, <2>2, RunningTypes DEF TxnFixed, Fixed, LiveFixed, BeforePublication
  <2>5. m.src = config.cat[txn.target] /\ Keeps(slotFile, bareFile, mem, config.cat, txn.target, m)
    BY <2>1, <2>4, SettledSource
  <2>6. TxnFixed(slotFile, bareFile)'
    BY <1>1, <2>2, <2>3, <2>5 DEF TxnFixed, BeforePublication
  <2> QED
    BY <1>1, <2>2, <2>3, <2>6, FixedKept DEF up
<1>4. CASE AcquireGate \/ StageClasses
  <2>1. /\ txn'.pc \in {"stage", "cache"} /\ txn.pc \in {"gate", "stage"}
        /\ txn'.prep = txn.prep /\ txn'.slot = txn.slot /\ txn'.fresh = txn.fresh
        /\ txn'.target = txn.target /\ txn'.cat = txn.cat /\ txn'.confirmed = txn.confirmed
    BY <1>1, <1>4 DEF AcquireGate, StageClasses, Advance, Txn
  <2>2. UNCHANGED <<config, slotFile, bareFile, phase, runtime, disk, mem>>
    BY <1>4 DEF AcquireGate, StageClasses, Advance
  <2>3. TxnFixed(slotFile, bareFile)'
    BY <1>1, <2>1, <2>2 DEF TxnFixed, BeforePublication
  <2> QED
    BY <1>1, <2>1, <2>2, <2>3, FixedKept DEF up
<1>5. CASE AbortBeforeCommit \/ CommitStateFails \/ FinishTxn
  <2>1. /\ txn'.pc = "idle" /\ txn.pc # "publish" /\ txn.pc # "idle"
        /\ UNCHANGED <<config, slotFile, bareFile, phase, runtime, mem>>
        /\ disk' = disk \/ disk' = PersistedState(mem')
    BY <1>5 DEF AbortBeforeCommit, CommitStateFails, FinishTxn, Abort, Advance, NoTxn, SaveAtomic
  <2> QED
    BY <1>1, <2>1, RestingFixed, RunningTypes, FixedKept DEF up
<1>6. CASE CommitCache \/ CommitCacheFails
  <2>1. /\ txn.pc = "cache" /\ UNCHANGED <<config, bareFile, phase, runtime, disk, mem>>
        /\ WritesCache => ReplaceSlot
        /\ ~WritesCache => slotFile' = slotFile
    BY <1>6 DEF CommitCache, CommitCacheFails, Advance, Abort
  <2>2. up /\ up' /\ LiveFixed(slotFile, bareFile) /\ AgreesWith(disk, config.default, mem)
    BY <1>1, <2>1, RunningTypes DEF Fixed, up
  <2>3. /\ SettledIn(slotFile', config.cat, mem)
        /\ disk # None => SettledIn(slotFile', config.cat, disk)
        /\ Keeps(slotFile', bareFile, mem, config.cat, runtime.active, runtime.pool)
    <3>1. CASE WritesCache
      BY <2>1, <3>1, ReplaceFixed
    <3>2. CASE ~WritesCache
      BY <1>1, <2>1, <2>2, <3>2 DEF Fixed, LiveFixed
    <3> QED
      BY <3>1, <3>2
  <2>4. txn'.pc # "publish" /\ TxnFixed(slotFile, bareFile)'
    <3>1. CASE CommitCache
      <4>1. /\ txn'.pc = "state" /\ txn'.prep = txn.prep /\ txn'.fresh = txn.fresh
            /\ txn'.target = txn.target /\ txn'.cat = txn.cat /\ txn'.confirmed = txn.confirmed
            /\ txn'.slot = IF WritesCache THEN NextSlot ELSE txn.slot
        BY <1>1, <3>1 DEF CommitCache, Advance, Txn
      <4>2. NextSlot # None /\ NextSlot \in Slots
        BY NoneAssumption DEF NextSlot, Slots
      <4>3. WritesCache' = WritesCache
        BY <4>1 DEF WritesCache
      <4>4. ASSUME WritesCache PROVE slotFile'[CacheOf[txn.prep.src]][NextSlot] = txn.prep
        <5>1. /\ slotFile \in [Caches -> [Slots -> Manifest \cup {None}]]
              /\ CacheOf[txn.prep.src] \in Caches
          BY <2>1, <4>4, CacheOfAssumption DEF TypeOK, WritesCache, IsLocal, Manifest
        <5> QED
          BY <2>1, <4>2, <4>4, <5>1 DEF ReplaceSlot
      <4>5. ~txn.fresh => slotFile' = slotFile
        BY <2>1 DEF WritesCache
      <4> QED
        BY <1>1, <2>1, <4>1, <4>2, <4>3, <4>4, <4>5 DEF TxnFixed, BeforePublication
    <3>2. CASE CommitCacheFails
      BY <3>2, RestingFixed DEF CommitCacheFails, Abort, Advance, NoTxn
    <3> QED
      BY <1>6, <3>1, <3>2
  <2>5. bareFile' \in PrimedBy(config)'
    BY <1>1, <2>1 DEF Fixed, PrimedBy
  <2>6. LiveFixed(slotFile, bareFile)'
    BY <2>1, <2>2, <2>3 DEF LiveFixed
  <2>7. Fixed(slotFile, bareFile)'
    BY <2>1, <2>2, <2>3, <2>4, <2>5, <2>6 DEF Fixed
  <2> QED
    BY <2>7, FixedFormNext
<1>7. CASE CommitState
  <2>1. /\ UNCHANGED <<mem, runtime, slotFile, bareFile, config, phase>> /\ up /\ up'
        /\ disk' = PersistedState(NextState) /\ NextState \in StateFile
        /\ txn.pc = "state" /\ txn'.pc = "publish" /\ txn'.next = NextState
        /\ txn'.target = txn.target /\ txn'.cat = txn.cat /\ txn'.prep = txn.prep
    BY <1>7, CommitEffect DEF CommitState, Advance
  <2>2. /\ LiveFixed(slotFile, bareFile) /\ txn.cat = config.cat /\ txn.target \in Configured(config.cat)
        /\ txn.target \in Profiles /\ txn.prep.src = config.cat[txn.target]
    BY <1>1, <2>1, RunningTypes DEF Fixed, TxnFixed
  <2>3. /\ \A p \in Profiles : NextState.ids[p] = config.cat[p] /\ NextState.pending[p] = None
        /\ \A p \in Profiles : p # txn.target \/ txn.slot = None => NextState.slots[p] = mem.slots[p]
        /\ txn.slot # None => NextState.slots[txn.target] = txn.slot
        /\ NextState.active = txn.target
    BY <2>1, <2>2, NextStateSettled DEF LiveFixed, SettledIn
  <2>4. txn.slot # None => /\ ~IsLocal(config.cat[txn.target]) /\ txn.fresh
                           /\ slotFile[CacheOf[config.cat[txn.target]]][txn.slot] = txn.prep
    BY <1>1, <2>1, <2>2 DEF TxnFixed, WritesCache
  <2>5. txn.prep # None /\ config.cat[txn.target] # None
    BY <2>1, <2>2, ManifestAssumption DEF TypeOK, Configured
  <2>6. SettledIn(slotFile, config.cat, NextState)
    <3>1. ASSUME NEW p \in Profiles, NextState.slots[p] # None
          PROVE  /\ NextState.ids[p] # None /\ NextState.pending[p] = None /\ ~IsLocal(NextState.ids[p])
                 /\ slotFile[CacheOf[NextState.ids[p]]][NextState.slots[p]] # None
                 /\ slotFile[CacheOf[NextState.ids[p]]][NextState.slots[p]].src = NextState.ids[p]
      <4>1. CASE p = txn.target /\ txn.slot # None
        BY <2>2, <2>3, <2>4, <2>5, <3>1, <4>1, SMTT(30)
      <4>2. CASE p # txn.target \/ txn.slot = None
        <5>1. NextState.slots[p] = mem.slots[p] /\ mem.ids[p] = config.cat[p]
          BY <2>2, <2>3, <4>2 DEF LiveFixed, SettledIn
        <5> QED
          BY <2>2, <2>3, <3>1, <5>1 DEF LiveFixed, SettledIn, SlotsHoldTrustedSource
      <4> QED
        BY <4>1, <4>2
    <3> QED
      BY <2>2, <2>3, <3>1 DEF SettledIn, SlotsHoldTrustedSource
  <2>7. Keeps(slotFile, bareFile, NextState, config.cat, txn.target, txn.prep)
    <3>1. CASE txn.slot # None
      BY <2>3, <2>4, <3>1 DEF Keeps, Held
    <3>2. CASE txn.slot = None /\ txn.fresh
      BY <1>1, <2>1, <2>2, <3>2 DEF TxnFixed, WritesCache, Keeps
    <3>3. CASE txn.slot = None /\ ~txn.fresh
      BY <1>1, <2>1, <2>2, <2>3, <3>3 DEF TxnFixed, BeforePublication, Keeps
    <3> QED
      BY <3>1, <3>2, <3>3
  <2>8. /\ disk' # None /\ SettledIn(slotFile, config.cat, disk')
        /\ AgreesWith(disk', config.default, NextState)
    BY <2>1, <2>6, SavedSettled
  <2>9. bareFile' \in PrimedBy(config)' /\ LiveFixed(slotFile, bareFile)'
    BY <1>1, <2>1, <2>2 DEF Fixed, PrimedBy, LiveFixed
  <2>10. TxnFixed(slotFile, bareFile)'
    BY <2>1, <2>2 DEF TxnFixed, BeforePublication
  <2>11. NextFixed(slotFile, bareFile)'
    BY <2>1, <2>3, <2>6, <2>7, <2>8 DEF NextFixed
  <2>12. Fixed(slotFile, bareFile)'
    BY <2>1, <2>8, <2>9, <2>10, <2>11 DEF Fixed
  <2> QED
    BY <2>12, FixedFormNext
<1>8. CASE Publish
  <2>1. /\ mem' = txn.next /\ UNCHANGED <<disk, slotFile, bareFile, config>>
        /\ runtime'.cat = txn.cat /\ runtime'.active = txn.target /\ runtime'.pool = txn.prep
        /\ txn'.pc = "save" /\ txn'.cat = txn.cat /\ txn'.target = txn.target /\ txn'.prep = txn.prep
        /\ txn.pc = "publish"
    BY <1>8, PublishEffect DEF Publish
  <2>2. NextFixed(slotFile, bareFile) /\ txn.cat = config.cat /\ txn.prep.src = config.cat[txn.target]
    BY <1>1, <2>1 DEF Fixed, TxnFixed
  <2>3. bareFile' \in PrimedBy(config)' /\ LiveFixed(slotFile, bareFile)'
    BY <1>1, <2>1, <2>2 DEF Fixed, PrimedBy, LiveFixed, NextFixed
  <2>4. TxnFixed(slotFile, bareFile)'
    BY <2>1, <2>2 DEF TxnFixed, BeforePublication
  <2>5. Fixed(slotFile, bareFile)'
    BY <1>1, <2>1, <2>2, <2>3, <2>4 DEF Fixed, NextFixed
  <2> QED
    BY <2>5, FixedFormNext
<1> QED
  BY <1>2, <1>3, <1>4, <1>5, <1>6, <1>7, <1>8 DEF TxnStep

(* Every step preserves FixedInv while nobody edits the configuration. *)
LEMMA FixedStep ==
    ASSUME CachesUnshared, Edits = {}, "probe" \notin Faults, TypeOK, TypeOK', FixedInv, [Next]_vars
    PROVE  FixedInv'
<1> USE DEF files, daemon
<1>1. /\ mem \in StateFile /\ mem' \in StateFile /\ SameButNodes(mem, mem)
      /\ Fixed(slotFile, bareFile) /\ TxnFixed(slotFile, bareFile)
  BY FixedForm DEF TypeOK, SameButNodes, Fixed
<1>2. CASE EditConfig
  BY <1>2 DEF EditConfig
<1>3. CASE Start
  <2>1. CASE Boots
    <3> DEFINE p  == BootProfile(BootState(disk, config), config)
               st == ActivateSubscription(BootState(disk, config), p)
    <3>1. PICK m \in StartupSnapshot(st, p, config) \ {None} :
            /\ mem' = st
            /\ runtime' = [active |-> p, pool |-> m, cat |-> config.cat,
                           generation |-> 0, default |-> config.default]
      BY <2>1 DEF Boots
    <3>2. UNCHANGED <<config, disk, slotFile, bareFile>> /\ txn'.pc = "idle"
      BY <2>1, RunningTypes DEF Boots
    <3>3. /\ disk \in WireState \cup {None} /\ config \in Configs /\ bareFile \in PrimedBy(config)
          /\ disk # None => SettledIn(slotFile, config.cat, disk)
      BY <1>1 DEF TypeOK, Fixed
    <3>4. SettledIn(slotFile, config.cat, st) /\ AgreesWith(disk, config.default, st) /\ st.active = p
      BY <3>3, BootSettled
    <3> HIDE DEF p, st
    <3>5. m \in SnapshotFromSlot(config.cat[p], st.slots[p]) /\ m # None /\ p \in Configured(config.cat)
      BY <3>1, <3>4 DEF StartupSnapshot, SettledIn
    <3>6. m.src = config.cat[p] /\ Keeps(slotFile, bareFile, st, config.cat, p, m)
      BY <3>3, <3>4, <3>5, SettledSource
    <3>7. LiveFixed(slotFile, bareFile)'
      BY <3>1, <3>2, <3>4, <3>6 DEF LiveFixed
    <3>8. bareFile' \in PrimedBy(config)' /\ TxnFixed(slotFile, bareFile)'
      BY <3>2, <3>3, RestingFixed DEF PrimedBy
    <3>9. Fixed(slotFile, bareFile)'
      BY <3>1, <3>2, <3>3, <3>4, <3>7, <3>8 DEF Fixed
    <3> QED
      BY <3>9, FixedFormNext
  <2>2. CASE ~Boots
    <3>1. Works
      BY <1>3, <2>2, StepKinds, CommitEffect, PublishEffect DEF Start, Halts
    <3>2. UNCHANGED <<config, slotFile, bareFile, runtime, disk, txn>> /\ SameButNodes(mem', mem) /\ (up' <=> up)
      BY <1>3, <3>1 DEF Start, Works
    <3> QED
      BY <3>2, FixedKept
  <2> QED
    BY <2>1, <2>2
<1>4. CASE FinishBoot
  <2>1. /\ UNCHANGED <<config, slotFile, bareFile, mem, runtime, txn>> /\ up /\ up'
        /\ disk' = disk \/ disk' = PersistedState(mem')
        /\ phase = "boot"
    BY <1>4 DEF FinishBoot, SaveAtomic, up
  <2>2. txn.pc # "publish"
    BY <2>1 DEF TypeOK
  <2> QED
    BY <1>1, <2>1, <2>2, FixedKept
<1>5. CASE Crash \/ Shutdown
  <2>1. /\ up /\ ~up' /\ txn'.pc = "idle" /\ UNCHANGED <<config, slotFile, bareFile>>
        /\ disk' = disk \/ disk' = PersistedState(mem)
    BY <1>5 DEF Crash, Shutdown, Stopped, NoTxn, SaveAtomic, up
  <2>2. disk' # None => SettledIn(slotFile, config.cat, disk')
    BY <1>1, <2>1, SavedSettled DEF Fixed, LiveFixed
  <2>3. bareFile' \in PrimedBy(config)' /\ TxnFixed(slotFile, bareFile)'
    BY <1>1, <2>1, RestingFixed DEF Fixed, PrimedBy
  <2>4. Fixed(slotFile, bareFile)'
    BY <2>1, <2>2, <2>3 DEF Fixed
  <2> QED
    BY <2>4, FixedFormNext
<1>6. CASE BeginReload \/ \E p \in Profiles : BeginSwitch(p)
  <2>1. PICK target, cat, reload : BeginTxn(target, cat, reload) /\ phase = "serve" /\ cat \in {runtime.cat, config.cat}
    BY <1>6 DEF BeginReload, BeginSwitch
  <2>2. /\ UNCHANGED <<config, slotFile, bareFile, phase, runtime, disk, mem>> /\ txn.pc = "idle"
        /\ txn'.pc = "prepare" /\ txn'.target = target /\ txn'.cat = cat /\ ~txn'.fresh
        /\ txn'.confirmed = mem.slots[target] /\ txn'.slot = None
    BY <2>1 DEF BeginTxn, NoTxn
  <2>3. cat = config.cat
    BY <1>1, <2>1 DEF Fixed, LiveFixed, up
  <2>4. TxnFixed(slotFile, bareFile)'
    BY <2>2, <2>3 DEF TxnFixed, BeforePublication
  <2> QED
    BY <1>1, <2>2, <2>4, FixedKept DEF up
<1>7. CASE SharedStep
  <2>1. \A src : Record(src) => SameButNodes(mem', mem)
    BY DEF Record, SameButNodes, TypeOK, StateFile
  <2>2. CASE ProbeCycle
    <3>1. /\ UNCHANGED <<config, slotFile, bareFile, phase, runtime, txn>> /\ SameButNodes(mem', mem)
          /\ disk' = disk \/ disk' = PersistedState(mem')
          /\ txn.pc # "publish" /\ up
      BY <2>1, <2>2 DEF ProbeCycle, SaveAtomic, GateHeld
    <3> QED
      BY <3>1, FixedKept DEF up
  <2>3. CASE HealthRecord
    <3>1. UNCHANGED <<config, slotFile, bareFile, phase, runtime, txn, disk>> /\ SameButNodes(mem', mem)
      BY <2>1, <2>3 DEF HealthRecord
    <3> QED
      BY <3>1, FixedKept DEF up
  <2>4. CASE ProbeNowPool \/ ProbeNowEra \/ ProbeNowNode \/ ProbeNowSave
    BY <2>4 DEF ProbeNowPool, ProbeNowEra, ProbeNowNode, ProbeNowSave, ProbeStep
  <2> QED
    BY <1>7, <2>2, <2>3, <2>4 DEF SharedStep
<1>8. CASE UNCHANGED vars
  BY <1>1, <1>8, FixedKept DEF vars, up
<1> QED
  BY <1>2, <1>3, <1>4, <1>5, <1>6, <1>7, <1>8, FixedTxnStep DEF Next

(* FixedInv of the specification. *)
LEMMA FixedInvariant ==
    ASSUME CachesUnshared, Edits = {}, "probe" \notin Faults
    PROVE  Spec => []FixedInv
<1>1. Init => FixedInv
  BY DEF Init, FixedInv, NoTxn, up, BeforePublication
<1>2. TypeOK /\ TypeOK' /\ FixedInv /\ [Next]_vars => FixedInv'
  BY FixedStep
<1> QED
  BY <1>1, <1>2, TypeCorrect, PTL DEF Spec

-----------------------------------------------------------------------------
(* The refinement.                                                          *)

(* Resumed, with the files it reads made explicit. *)
ResumedIn(sf, bf, d, c) ==
    LET p   == IF d = None \/ d.active = None THEN c.default ELSE d.active
        src == c.cat[p]
        m   == IF IsLocal(src) THEN [src |-> src]
               ELSE Held(sf, bf, src, IF d = None THEN None ELSE d.slots[p])
    IN  IF m = None THEN None ELSE SelectionOf(p, m)

(* The two forms are the same, now and in the next state. *)
LEMMA ResumedForm ==
    /\ Resumed = ResumedIn(slotFile, bareFile, disk, config)
    /\ Resumed' = ResumedIn(slotFile', bareFile', disk', config')
<1>1. ResumedManifest = IF IsLocal(config.cat[ResumedProfile]) THEN [src |-> config.cat[ResumedProfile]]
                        ELSE Held(slotFile, bareFile, config.cat[ResumedProfile],
                                  IF disk = None THEN None ELSE disk.slots[ResumedProfile])
  <2> DEFINE src == config.cat[ResumedProfile]
  <2>1. CASE IsLocal(src)
    BY <2>1 DEF ResumedManifest
  <2>2. CASE ~IsLocal(src) /\ (disk = None \/ disk.slots[ResumedProfile] = None)
    BY <2>2 DEF ResumedManifest, Held
  <2>3. CASE ~IsLocal(src) /\ ~(disk = None \/ disk.slots[ResumedProfile] = None)
    BY <2>3 DEF ResumedManifest, Held
  <2> QED
    BY <2>1, <2>2, <2>3
<1>2. ResumedManifest' = IF IsLocal(config'.cat[ResumedProfile']) THEN [src |-> config'.cat[ResumedProfile']]
                         ELSE Held(slotFile', bareFile', config'.cat[ResumedProfile'],
                                   IF disk' = None THEN None ELSE disk'.slots[ResumedProfile'])
  <2> DEFINE src == config'.cat[ResumedProfile']
  <2>1. CASE IsLocal(src)
    BY <2>1 DEF ResumedManifest, IsLocal
  <2>2. CASE ~IsLocal(src) /\ (disk' = None \/ disk'.slots[ResumedProfile'] = None)
    BY <2>2 DEF ResumedManifest, Held, IsLocal
  <2>3. CASE ~IsLocal(src) /\ ~(disk' = None \/ disk'.slots[ResumedProfile'] = None)
    BY <2>3 DEF ResumedManifest, Held, IsLocal
  <2> QED
    BY <2>1, <2>2, <2>3
<1>3. Resumed = ResumedIn(slotFile, bareFile, disk, config)
  BY <1>1 DEF Resumed, ResumedProfile, ResumedIn
<1>4. Resumed' = ResumedIn(slotFile', bareFile', disk', config')
  BY <1>2 DEF Resumed, ResumedProfile, ResumedIn, SelectionOf, IsLocal
<1> QED
  BY <1>3, <1>4

(* A selection is a value of the abstract specification, and not Nothing. *)
LEMMA SelectionType ==
    ASSUME NEW p \in Profiles, NEW m \in Manifest
    PROVE  /\ SelectionOf(p, m) \in [profile : Profiles, src : Sources, ver : Versions \cup {None}]
           /\ SelectionOf(p, m) # None
BY ManifestAssumption DEF SelectionOf, Manifest

(* A state file that agrees with st resumes the manifest st keeps. *)
LEMMA ResumedAs ==
    ASSUME NEW sf, NEW bf, NEW d, NEW c \in Configs, NEW st, NEW p \in Configured(c.cat), NEW m \in Manifest,
           AgreesWith(d, c.default, st), st.active = p, m.src = c.cat[p],
           Keeps(sf, bf, st, c.cat, p, m)
    PROVE  ResumedIn(sf, bf, d, c) = SelectionOf(p, m)
<1> DEFINE q == IF d = None \/ d.active = None THEN c.default ELSE d.active
           slot == IF d = None THEN None ELSE d.slots[p]
<1>1. p \in Profiles /\ p # None /\ c.cat[p] \in Sources
  BY ConfigsAssumption, NoneAssumption DEF Configured, Catalog
<1>2. q = p /\ slot = st.slots[p]
  BY <1>1 DEF AgreesWith
<1>3. m # None /\ [src |-> c.cat[p]] # None
  BY <1>1, ManifestAssumption
<1> HIDE DEF q
<1>4. CASE IsLocal(c.cat[p])
  <2>1. ResumedIn(sf, bf, d, c) = SelectionOf(p, [src |-> c.cat[p]])
    BY <1>2, <1>3, <1>4 DEF ResumedIn, q
  <2> QED
    BY <1>4, <2>1 DEF SelectionOf
<1>5. CASE ~IsLocal(c.cat[p])
  <2>1. Held(sf, bf, c.cat[p], slot) = m
    BY <1>2, <1>5 DEF Keeps
  <2> QED
    BY <1>2, <1>3, <1>5, <2>1 DEF ResumedIn, q
<1> QED
  BY <1>4, <1>5

(* What a restart would serve: the live selection, or the one in the         *)
(* publication window.                                                       *)
Current ==
    /\ up => Served = SelectionOf(runtime.active, runtime.pool) /\ runtime.active \in Profiles
             /\ runtime.pool \in Manifest
    /\ up /\ txn.pc # "publish" => Resumed = Served
    /\ txn.pc = "publish" => Resumed = SelectionOf(txn.target, txn.prep) /\ up

(* Current follows from FixedInv. *)
LEMMA FixedCurrent ==
    ASSUME TypeOK, FixedInv
    PROVE  Current
<1>1. Fixed(slotFile, bareFile) /\ config \in Configs
  BY FixedForm DEF TypeOK
<1>2. ASSUME up
      PROVE  /\ Served = SelectionOf(runtime.active, runtime.pool)
             /\ runtime.active \in Profiles /\ runtime.pool \in Manifest
  BY <1>2 DEF Served, TypeOK, Runtime
<1>3. ASSUME up, txn.pc # "publish" PROVE Resumed = Served
  <2>1. LiveFixed(slotFile, bareFile) /\ AgreesWith(disk, config.default, mem)
    BY <1>1, <1>3 DEF Fixed
  <2>2. /\ runtime.active \in Configured(config.cat) /\ mem.active = runtime.active
        /\ runtime.pool \in Manifest /\ runtime.pool.src = config.cat[runtime.active]
        /\ Keeps(slotFile, bareFile, mem, config.cat, runtime.active, runtime.pool)
    BY <1>2, <1>3, <2>1 DEF LiveFixed, SettledIn
  <2>3. ResumedIn(slotFile, bareFile, disk, config) = SelectionOf(runtime.active, runtime.pool)
    BY <1>1, <2>1, <2>2, ResumedAs
  <2> QED
    BY <1>2, <1>3, <2>3, ResumedForm
<1>4. ASSUME txn.pc = "publish" PROVE Resumed = SelectionOf(txn.target, txn.prep) /\ up
  <2>1. NextFixed(slotFile, bareFile) /\ txn.prep.src = config.cat[txn.target] /\ txn.cat = config.cat
    BY <1>1, <1>4 DEF Fixed, TxnFixed
  <2>2. /\ txn.target \in Configured(config.cat) /\ txn.prep \in Manifest /\ up
        /\ txn.next.active = txn.target /\ AgreesWith(disk, config.default, txn.next)
        /\ Keeps(slotFile, bareFile, txn.next, config.cat, txn.target, txn.prep)
    BY <1>4, <2>1, RunningTypes DEF NextFixed, TypeOK
  <2>3. ResumedIn(slotFile, bareFile, disk, config) = SelectionOf(txn.target, txn.prep)
    BY <1>1, <2>1, <2>2, ResumedAs
  <2> QED
    BY <2>2, <2>3, ResumedForm
<1> QED
  BY <1>2, <1>3, <1>4 DEF Current

(* A stopped daemon changes no file. *)
LEMMA DownKeepsFiles ==
    ASSUME TypeOK, ~up, [Next]_vars
    PROVE  UNCHANGED <<disk, slotFile, bareFile>>
<1>1. txn.pc = "idle" /\ probe.pc = "idle" /\ phase = "down"
  BY DEF TypeOK, up
<1> QED
  BY <1>1 DEF Next, vars, files, EditConfig, Start, FinishBoot, Crash, Shutdown, BeginSwitch, BeginReload,
              TxnStep, PrepareFresh, PrepareCached, AcquireGate, StageClasses, AbortBeforeCommit,
              CommitCache, CommitCacheFails, CommitState, CommitStateFails, Publish, FinishTxn,
              SharedStep, ProbeCycle, HealthRecord, ProbeNowPool, ProbeNowEra, ProbeNowNode,
              ProbeNowSave, ProbeStep, up

(* A committed transaction is published, or the process dies. *)
LEMMA CommittedStays ==
    ASSUME TypeOK, txn.pc = "publish", [Next]_vars
    PROVE  Publish \/ Crash \/ txn' = txn
BY DEF Next, vars, files, EditConfig, Start, FinishBoot, Shutdown, BeginSwitch, BeginReload, BeginTxn,
       TxnStep, PrepareFresh, PrepareCached, AcquireGate, StageClasses, AbortBeforeCommit,
       CommitCache, CommitCacheFails, CommitState, CommitStateFails, FinishTxn,
       SharedStep, ProbeCycle, HealthRecord, ProbeNowPool, ProbeNowEra, ProbeNowNode,
       ProbeNowSave, ProbeStep

(* Only an exit stops the daemon. *)
LEMMA HaltsHow ==
    ASSUME Halts, [Next]_vars
    PROVE  Crash \/ Shutdown
BY DEF Halts, up, Next, vars, EditConfig, Start, FinishBoot, BeginSwitch, BeginReload, BeginTxn,
       TxnStep, PrepareFresh, PrepareCached, AcquireGate, StageClasses, AbortBeforeCommit, Abort, Advance,
       CommitCache, CommitCacheFails, CommitState, CommitStateFails, Publish, FinishTxn,
       SharedStep, ProbeCycle, HealthRecord, ProbeNowPool, ProbeNowEra, ProbeNowNode,
       ProbeNowSave, ProbeStep

(* Every step is a step of AtomicSelection or leaves the selection alone. *)
LEMMA AbstractStep ==
    ASSUME Edits = {}, TypeOK, FixedInv, Current, Current', [Next]_vars
    PROVE  [Abstract!Next]_<<Served, Resumed>>
<1>1. config' = config
  BY DEF Next, vars, EditConfig, Start, FinishBoot, Crash, Shutdown, Stopped, BeginSwitch, BeginReload, BeginTxn,
         TxnStep, PrepareFresh, PrepareCached, AcquireGate, StageClasses, AbortBeforeCommit, Abort, Advance,
         CommitCache, CommitCacheFails, CommitState, CommitStateFails, Publish, FinishTxn,
         SharedStep, ProbeCycle, HealthRecord, ProbeNowPool, ProbeNowEra, ProbeNowNode,
         ProbeNowSave, ProbeStep
<1>2. UNCHANGED <<disk, slotFile, bareFile>> => Resumed' = Resumed
  BY <1>1, ResumedForm
<1>3. /\ ~up => Served = None
      /\ ~up' => Served' = None
      /\ up => Served # None
      /\ up' => Served' # None
  BY SelectionType DEF Served, Current
<1>4. CASE Boots
  <2>1. ~up /\ up' /\ UNCHANGED <<disk, slotFile, bareFile>> /\ txn'.pc # "publish"
    BY <1>4, RunningTypes DEF Boots
  <2>2. Served = None /\ Served' = Resumed' /\ Resumed' = Resumed /\ Served' # None
    BY <1>2, <1>3, <2>1 DEF Current
  <2> QED
    BY <2>2 DEF Abstract!Next, Abstract!Start
<1>5. CASE Halts
  <2>1. up /\ ~up' /\ UNCHANGED <<slotFile, bareFile>>
    BY <1>5 DEF Halts
  <2>2. Resumed' = Resumed
    <3>1. CASE Crash
      BY <1>2, <2>1, <3>1 DEF Crash
    <3>2. CASE Shutdown
      <4>1. txn.pc = "idle" /\ (disk' = disk \/ disk' = PersistedState(mem))
        BY <3>2 DEF Shutdown, SaveAtomic
      <4>2. CASE disk' = disk
        BY <1>2, <2>1, <4>2
      <4>3. CASE disk' = PersistedState(mem)
        <5>1. LiveFixed(slotFile, bareFile) /\ config \in Configs /\ mem \in StateFile
          BY <2>1, FixedForm DEF Fixed, TypeOK
        <5>2. AgreesWith(disk', config.default, mem)
          BY <4>3, <5>1, SavedSettled DEF LiveFixed
        <5>3. /\ runtime.active \in Configured(config.cat) /\ mem.active = runtime.active
              /\ runtime.pool \in Manifest /\ runtime.pool.src = config.cat[runtime.active]
              /\ Keeps(slotFile, bareFile, mem, config.cat, runtime.active, runtime.pool)
          BY <2>1, <5>1 DEF LiveFixed, SettledIn, Current
        <5>4. ResumedIn(slotFile, bareFile, disk', config) = SelectionOf(runtime.active, runtime.pool)
          BY <5>1, <5>2, <5>3, ResumedAs
        <5> QED
          BY <1>1, <2>1, <4>1, <5>4, ResumedForm DEF Current
      <4> QED
        BY <4>1, <4>2, <4>3
    <3> QED
      BY <1>5, <3>1, <3>2, HaltsHow
  <2> QED
    BY <1>3, <2>1, <2>2 DEF Abstract!Next, Abstract!Stop
<1>6. CASE CommitState
  <2>1. /\ up /\ up' /\ runtime' = runtime /\ txn.pc = "state" /\ txn'.pc = "publish"
        /\ txn'.target = txn.target /\ txn'.prep = txn.prep
    BY <1>6, CommitEffect
  <2>2. txn.target \in Profiles /\ txn.prep \in Manifest
    BY <2>1, RunningTypes DEF TypeOK
  <2>3. Resumed' \in [profile : Profiles, src : Sources, ver : Versions \cup {None}]
    BY <2>1, <2>2, SelectionType DEF Current
  <2>4. Served # None /\ Served = Resumed /\ Served' = Served
    BY <1>3, <2>1 DEF Current
  <2> QED
    BY <2>3, <2>4 DEF Abstract!Next, Abstract!Commit
<1>7. CASE Publish
  <2>1. /\ up /\ up' /\ UNCHANGED <<disk, slotFile, bareFile>> /\ txn.pc = "publish" /\ txn'.pc = "save"
        /\ runtime'.active = txn.target /\ runtime'.pool = txn.prep
    BY <1>7, PublishEffect DEF Publish
  <2>2. Served # None /\ Resumed' = Resumed /\ Served' = Resumed
    BY <1>2, <1>3, <2>1 DEF Current
  <2> QED
    BY <2>2 DEF Abstract!Next, Abstract!Publish
<1>8. CASE Works
  <2>1. (up' <=> up) /\ runtime' = runtime /\ (txn' = txn \/ txn'.pc # "publish")
    BY <1>8 DEF Works
  <2>2. Served' = Served
    BY <1>3, <2>1 DEF Current
  <2>3. CASE ~up
    BY <1>2, <2>2, <2>3, DownKeepsFiles
  <2>4. CASE up /\ txn.pc # "publish"
    BY <2>1, <2>2, <2>4 DEF Current
  <2>5. CASE up /\ txn.pc = "publish" /\ txn' = txn
    BY <2>1, <2>2, <2>5 DEF Current
  <2>6. CASE up /\ txn.pc = "publish" /\ txn' # txn /\ ~Publish
    BY <2>1, <2>6, CommittedStays DEF Crash, Stopped, up
  <2> QED
    BY <1>7, <2>3, <2>4, <2>5, <2>6
<1> QED
  BY <1>4, <1>5, <1>6, <1>7, <1>8, StepKinds

(* The initial states of the daemon are initial states of AtomicSelection. *)
LEMMA AbstractInit ==
    ASSUME Init
    PROVE  Abstract!Init
<1>1. Served = None
  BY DEF Init, Served, up
<1>2. config \in Configs /\ disk = None /\ bareFile \in [Caches -> Manifest \cup {None}]
  BY DEF Init, PrimedBy
<1>3. /\ config.default \in Profiles /\ config.cat[config.default] \in Sources
  BY <1>2, ConfigsAssumption DEF Configured, Catalog
<1> DEFINE src == config.cat[config.default]
<1>4. CASE IsLocal(src)
  <2>1. Resumed \in {None, SelectionOf(config.default, [src |-> src])}
    BY <1>2, <1>4, ResumedForm DEF ResumedIn
  <2> QED
    BY <1>1, <1>3, <1>4, <2>1 DEF Abstract!Init, SelectionOf
<1>5. CASE ~IsLocal(src)
  <2>1. bareFile[CacheOf[src]] \in Manifest \cup {None}
    BY <1>2, <1>3, <1>5, CacheOfAssumption DEF IsLocal
  <2>2. Resumed = IF bareFile[CacheOf[src]] = None THEN None
                  ELSE SelectionOf(config.default, bareFile[CacheOf[src]])
    BY <1>2, <1>5, ResumedForm DEF ResumedIn, Held
  <2> QED
    BY <1>1, <1>3, <2>1, <2>2, SelectionType DEF Abstract!Init
<1> QED
  BY <1>4, <1>5

(* Refinement: cache slots, state file, memory and runtime behave as one     *)
(* value that is made durable in one step and goes live in another, whatever *)
(* save fails and wherever the process dies (switch_subscription_locked,     *)
(* commit_cache_slot, save_atomic, run).  The configuration file stays the   *)
(* same, no two of its profiles share a cache file (its validation), and no  *)
(* on-demand probe saves the old state inside the publication window.        *)
THEOREM SelectionIsAtomic ==
    ASSUME CachesUnshared, Edits = {}, "probe" \notin Faults
    PROVE  Spec => ImplementsAtomicSelection
<1>1. Init => Abstract!Init
  BY AbstractInit
<1>2. TypeOK /\ FixedInv /\ Current /\ Current' /\ [Next]_vars => [Abstract!Next]_<<Served, Resumed>>
  BY AbstractStep
<1>3. TypeOK /\ FixedInv => Current
  BY FixedCurrent
<1>4. (Spec => []TypeOK) /\ (Spec => []FixedInv)
  BY TypeCorrect, FixedInvariant
<1> QED
  BY <1>1, <1>2, <1>3, <1>4, PTL DEF Spec, ImplementsAtomicSelection, Abstract!Spec

(* What is live, what a cached fallback would take and what a restart would  *)
(* read is a manifest of the source it is trusted for: with failing saves    *)
(* and boots that save nothing while the configuration stays as it is or no  *)
(* replaced source returns to its name, and over any edits while saves       *)
(* succeed (commit_cache_slot, startup_snapshot, prepare_profile).           *)
THEOREM SlotsServe ==
    ASSUME \/ CachesUnshared /\ Edits = {} /\ "probe" \notin Faults
           \/ /\ CachesKeepTheirOwner /\ ChangedNamesStay
              /\ Faults \subseteq {"probe"} \/ SourcesMoveForward
    PROVE  Spec => []SlotsServeTheirSource
<1>1. DurableSlotsTrusted => RestartableSlotsTrusted
  <2> SUFFICES ASSUME DurableSlotsTrusted, disk # None, NEW p \in Profiles, disk.slots[p] # None
               PROVE  /\ slotFile[CacheOf[disk.ids[p]]][disk.slots[p]] # None
                      /\ slotFile[CacheOf[disk.ids[p]]][disk.slots[p]].src = disk.ids[p]
    BY DEF RestartableSlotsTrusted
  <2> QED
    BY DEF DurableSlotsTrusted, SlotsHoldTrustedSource
<1>2. TypeOK /\ FixedInv => LiveProfileTrusted /\ LiveSlotsTrusted /\ DurableSlotsTrusted
  <2> SUFFICES ASSUME TypeOK, FixedInv PROVE LiveProfileTrusted /\ LiveSlotsTrusted /\ DurableSlotsTrusted
    OBVIOUS
  <2>1. LiveSlotsTrusted /\ DurableSlotsTrusted
    BY DEF FixedInv, Settled, LiveSlotsTrusted, DurableSlotsTrusted
  <2>2. ASSUME up PROVE SourceIsTrusted(mem, runtime.active, runtime.cat[runtime.active])
    BY <2>2 DEF FixedInv, Settled, SourceIsTrusted, Configured
  <2> QED
    BY <2>1, <2>2 DEF FixedInv, LiveProfileTrusted
<1>3. CASE CachesUnshared /\ Edits = {} /\ "probe" \notin Faults
  <2>1. (Spec => []TypeOK) /\ (Spec => []FixedInv)
    BY <1>3, TypeCorrect, FixedInvariant
  <2> QED
    BY <1>1, <1>2, <2>1, PTL DEF SlotsServeTheirSource
<1>4. CASE CachesKeepTheirOwner /\ ChangedNamesStay /\ Faults \subseteq {"probe"}
  <2>1. (Spec => []LiveProfileTrusted) /\ (Spec => [](LiveSlotsTrusted /\ DurableSlotsTrusted))
    BY <1>4, OnlyTrustedIsLive, SlotsTrusted
  <2> QED
    BY <1>1, <2>1, PTL DEF SlotsServeTheirSource
<1>5. CASE CachesKeepTheirOwner /\ ChangedNamesStay /\ SourcesMoveForward
  <2>1. TypeOK /\ MemoryInv /\ TrustInv /\ ForwardInv => SlotsServeTheirSource
    <3> SUFFICES ASSUME TypeOK, MemoryInv, TrustInv, ForwardInv PROVE SlotsServeTheirSource
      OBVIOUS
    <3>1. LiveProfileTrusted /\ LiveSlotsTrusted
      BY DEF TrustInv, MemoryInv, LiveSlotsTrusted, SoundState
    <3>2. disk # None => SoundUnder(slotFile, disk, config.cat)
      BY LaterSame DEF ForwardInv, TypeOK
    <3>3. RestartableSlotsTrusted
      BY <3>2 DEF RestartableSlotsTrusted, SoundUnder
    <3> QED
      BY <3>1, <3>3 DEF SlotsServeTheirSource
  <2>2. (Spec => []TypeOK) /\ (Spec => [](MemoryInv /\ TrustInv /\ ForwardInv))
    BY <1>5, TypeCorrect, ForwardInvariant
  <2> QED
    BY <2>1, <2>2, PTL
<1> QED
  BY <1>3, <1>4, <1>5

=============================================================================
