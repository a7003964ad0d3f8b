------------------------- MODULE SubscriptionState -------------------------
(***************************************************************************)
(* The persistent state of the CAUSEWAY daemon (src/state.rs), as far as   *)
(* it concerns subscription profiles: which profile is active, which cache *)
(* slot and which source identity each profile is bound to, which          *)
(* profiles are quarantined behind a changed source, and where the rolling *)
(* node statistics of each profile came from.                              *)
(*                                                                         *)
(* A map of the code (BTreeMap<String, _>) is a total function on Profiles *)
(* whose value None stands for a missing key.  The statistics of a profile *)
(* are abstracted to their provenance: the set of source identities whose  *)
(* nodes contributed a sample; {} stands for no statistics.                *)
(***************************************************************************)
EXTENDS FiniteSets

CONSTANTS
    Profiles,   \* names of subscription profiles
    Sources,    \* source identities: SubscriptionProfileConfig::source_identity
    None        \* the missing value

ASSUME NoneAssumption == None \notin Profiles \cup Sources \cup {"a", "b"}

Slots == {"a", "b"}

(* What a configuration says: profile name -> identity of its source. *)
Catalog == [Profiles -> Sources \cup {None}]

Configured(cat) == {p \in Profiles : cat[p] # None}

(***************************************************************************)
(* StateFile: the in-memory form.  `nodes' is the flat view of the active  *)
(* profile, `parked' the inactive profiles (subscription_nodes).           *)
(***************************************************************************)
StateFile ==
    [active  : Profiles \cup {None},
     nodes   : SUBSET Sources,
     parked  : [Profiles -> SUBSET Sources],
     slots   : [Profiles -> Slots \cup {None}],
     ids     : [Profiles -> Sources \cup {None}],
     pending : [Profiles -> Sources \cup {None}]]

(* StateFileV2: the wire form; `stats' holds every profile, active included. *)
WireState ==
    [active  : Profiles \cup {None},
     stats   : [Profiles -> SUBSET Sources],
     slots   : [Profiles -> Slots \cup {None}],
     ids     : [Profiles -> Sources \cup {None}],
     pending : [Profiles -> Sources \cup {None}]]

DefaultState ==
    [active  |-> None,
     nodes   |-> {},
     parked  |-> [p \in Profiles |-> {}],
     slots   |-> [p \in Profiles |-> None],
     ids     |-> [p \in Profiles |-> None],
     pending |-> [p \in Profiles |-> None]]

(***************************************************************************)
(* Operations.  The ones the code applies name by name in a loop are       *)
(* stated for a set of names: the names do not interfere.                  *)
(***************************************************************************)
NodesForSubscription(st, p) ==
    IF st.active = p THEN st.nodes ELSE st.parked[p]

RemoveSubscriptions(st, S) ==
    [active  |-> IF st.active \in S THEN None ELSE st.active,
     nodes   |-> IF st.active \in S THEN {} ELSE st.nodes,
     parked  |-> [p \in Profiles |-> IF p \in S THEN {} ELSE st.parked[p]],
     slots   |-> [p \in Profiles |-> IF p \in S THEN None ELSE st.slots[p]],
     ids     |-> [p \in Profiles |-> IF p \in S THEN None ELSE st.ids[p]],
     pending |-> [p \in Profiles |-> IF p \in S THEN None ELSE st.pending[p]]]

(* InvalidateSources that keeps the slots of the old source. *)
InvalidateSourcesKeepsSlots(st, S, cat) ==
    [active  |-> st.active,
     nodes   |-> IF st.active \in S THEN {} ELSE st.nodes,
     parked  |-> [p \in Profiles |->
                    IF p \in S /\ st.active # p THEN {} ELSE st.parked[p]],
     slots   |-> st.slots,
     ids     |-> [p \in Profiles |-> IF p \in S THEN None ELSE st.ids[p]],
     pending |-> [p \in Profiles |-> IF p \in S THEN cat[p] ELSE st.pending[p]]]

(* InvalidateSources that keeps the statistics of an active profile. *)
InvalidateSourcesKeepsNodes(st, S, cat) ==
    [active  |-> st.active,
     nodes   |-> st.nodes,
     parked  |-> [p \in Profiles |->
                    IF p \in S /\ st.active # p THEN {} ELSE st.parked[p]],
     slots   |-> [p \in Profiles |-> IF p \in S THEN None ELSE st.slots[p]],
     ids     |-> [p \in Profiles |-> IF p \in S THEN None ELSE st.ids[p]],
     pending |-> [p \in Profiles |-> IF p \in S THEN cat[p] ELSE st.pending[p]]]

InvalidateSources(st, S, cat) ==
    [active  |-> st.active,
     nodes   |-> IF st.active \in S THEN {} ELSE st.nodes,
     parked  |-> [p \in Profiles |->
                    IF p \in S /\ st.active # p THEN {} ELSE st.parked[p]],
     slots   |-> [p \in Profiles |-> IF p \in S THEN None ELSE st.slots[p]],
     ids     |-> [p \in Profiles |-> IF p \in S THEN None ELSE st.ids[p]],
     pending |-> [p \in Profiles |-> IF p \in S THEN cat[p] ELSE st.pending[p]]]

TrustSources(st, S, cat) ==
    [st EXCEPT
       !.pending = [p \in Profiles |-> IF p \in S THEN None ELSE st.pending[p]],
       !.ids     = [p \in Profiles |-> IF p \in S THEN cat[p] ELSE st.ids[p]]]

SourceIsTrusted(st, p, id) ==
    st.ids[p] = id /\ st.ids[p] # None /\ st.pending[p] = None

(* The names some namespace of the state still holds. *)
KnownNames(st) ==
    {p \in Profiles : \/ st.parked[p] # {}
                      \/ st.slots[p] # None
                      \/ st.ids[p] # None
                      \/ st.pending[p] # None}

PersistedMismatch(st, cat) ==
    {p \in Configured(cat) : \/ st.ids[p] \notin {None, cat[p]}
                             \/ st.pending[p] \notin {None, cat[p]}}

(* ApplySubscriptionCatalog that trusts every profile it publishes. *)
ApplySubscriptionCatalogTrustsAll(st, prev, next, fresh) ==
    TrustSources(RemoveSubscriptions(st, KnownNames(st) \ Configured(next)),
                 Configured(next), next)

(***************************************************************************)
(* Reconcile the namespaces with the catalog a transaction publishes.      *)
(* `fresh' is the target the transaction fetched, or None.                 *)
(***************************************************************************)
ApplySubscriptionCatalog(st, prev, next, fresh) ==
    LET kept    == RemoveSubscriptions(st, KnownNames(st) \ Configured(next))
        changed == {p \in Configured(next) : prev[p] # next[p]}
        stale   == changed \cup PersistedMismatch(kept, next)
    IN  TrustSources(InvalidateSources(kept, stale, next),
                     {fresh} \cap Configured(next), next)

(***************************************************************************)
(* Reconcile the loaded state with the configuration the daemon starts     *)
(* with.  A configured name without identity and without pending marker is *)
(* adopted.  (The branch of the code's second loop that invalidates a      *)
(* differing identity is unreachable after its first loop.)                *)
(***************************************************************************)
ReconcileStartupSources(st, cat) ==
    LET kept  == RemoveSubscriptions(st, KnownNames(st) \ Configured(cat))
        bound == InvalidateSources(kept, PersistedMismatch(kept, cat), cat)
        adopt == {p \in Configured(cat) : bound.pending[p] = None
                                          /\ bound.ids[p] = None}
    IN  TrustSources(bound, adopt, cat)

(* ActivateSubscription that copies the parked statistics. *)
ActivateSubscriptionCopies(st, p) ==
    IF st.active = p THEN st
    ELSE [st EXCEPT
            !.active = p,
            !.nodes  = st.parked[p],
            !.parked = [q \in Profiles |->
                          IF q = st.active THEN st.nodes ELSE st.parked[q]]]

(* Select a profile, parking the statistics of the outgoing one. *)
ActivateSubscription(st, p) ==
    IF st.active = p THEN st
    ELSE [st EXCEPT
            !.active = p,
            !.nodes  = st.parked[p],
            !.parked = [q \in Profiles |->
                          CASE q = p         -> {}
                            [] q = st.active -> st.nodes
                            [] OTHER         -> st.parked[q]]]

(* save_atomic's snapshot: the active view joins the profile map. *)
PersistedState(st) ==
    [active  |-> st.active,
     stats   |-> [p \in Profiles |-> NodesForSubscription(st, p)],
     slots   |-> st.slots,
     ids     |-> st.ids,
     pending |-> st.pending]

(* load: the active entry leaves the profile map for the flat view. *)
LoadedState(wire) ==
    [active  |-> wire.active,
     nodes   |-> IF wire.active = None THEN {} ELSE wire.stats[wire.active],
     parked  |-> [p \in Profiles |-> IF p = wire.active THEN {} ELSE wire.stats[p]],
     slots   |-> wire.slots,
     ids     |-> wire.ids,
     pending |-> wire.pending]
=============================================================================
