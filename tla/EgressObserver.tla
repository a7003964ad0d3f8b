--------------------------- MODULE EgressObserver ---------------------------
(***************************************************************************)
(* The observer of the host's default routes (egress.rs and                *)
(* egress_observer_loop in supervisor.rs).  Every few seconds it reads the *)
(* kernel's routing tables, reduces them to a signature, and delivers a    *)
(* signature that replaced the baseline and stayed for StableFor.          *)
(*                                                                         *)
(* Instants are kept as ages: age units since the instant, no further than *)
(* anything the code compares them with.                                   *)
(***************************************************************************)
EXTENDS Naturals

CONSTANTS
    Tables,     \* routing tables of the host, sets of default routes
    StableFor,  \* EGRESS_STABLE_FOR, in units of time
    Cooldown,   \* EGRESS_REBUILD_COOLDOWN, in units of time
    Nothing     \* a signature or instant that is not there

ASSUME StableForAssumption == StableFor \in Nat \ {0}
ASSUME CooldownAssumption  == Cooldown \in Nat \ {0}

VARIABLES
    table,      \* the kernel's default routes
    baseline, candidate, last,  \* StableEgressObserver, last as an age
    read,       \* history: the signature read last, the age of the first of its readings
                \* in a row, and that age at the last one
    since,      \* history: age of the last delivery
    delivered   \* the signature this step delivers, or Nothing

observerVars == <<baseline, candidate, last>>
egressVars   == <<table, observerVars, read, since, delivered>>

Families == {"ipv4", "ipv6"}

(* preferred: the routes with the lowest metric of a family. *)
Preferred(routes) == {r \in routes : \A q \in routes : r.metric <= q.metric}

(* parse_signature of what the kernel shows. *)
Signature(routes) ==
    [f \in Families |-> Preferred({r \in routes : r.family = f})]

Signatures == {Signature(routes) : routes \in Tables}

ASSUME TablesAssumption  == \A routes \in Tables : \A r \in routes : r.metric \in Nat
ASSUME NothingAssumption ==
    Nothing \notin Nat /\ Nothing \notin Signatures /\ Nothing \notin [sig : Signatures, age : Nat]

HasDefaultRoute(sig) == \E f \in Families : sig[f] # {}

Older(age, most) == IF age = Nothing \/ age >= most THEN age ELSE age + 1

(* TypeOK of the observer: ages stay within what they are compared with. *)
EgressTypeOK ==
    /\ table \in Tables
    /\ \A s \in {baseline, read.sig, delivered} : s = Nothing \/ s \in Signatures
    /\ candidate = Nothing \/ candidate.age \in 0..StableFor
    /\ last \in (0..Cooldown) \cup {Nothing}
    /\ since \in (0..Cooldown) \cup {Nothing}

EgressInit ==
    /\ table \in Tables
    /\ baseline = Nothing /\ candidate = Nothing /\ last = Nothing
    /\ read = [sig |-> Nothing, age |-> 0, seen |-> 0]
    /\ since = Nothing /\ delivered = Nothing

(* External: somebody edits the routing table. *)
RouteChange ==
    /\ table' \in Tables \ {table}
    /\ delivered' = Nothing
    /\ UNCHANGED <<observerVars, read, since>>

(* A unit of time passes. *)
Elapse ==
    /\ candidate' = IF candidate = Nothing THEN Nothing
                    ELSE [candidate EXCEPT !.age = Older(@, StableFor)]
    /\ last' = Older(last, Cooldown) /\ since' = Older(since, Cooldown)
    /\ read' = [read EXCEPT !.age = Older(@, StableFor)]
    /\ delivered' = Nothing
    /\ UNCHANGED <<table, baseline>>

InCooldown == last # Nothing /\ last < Cooldown

(* The candidate has been there for StableFor. *)
Ripe(sig) == candidate # Nothing /\ candidate.sig = sig /\ candidate.age >= StableFor

(* Confirm that does not deliver a route after all were gone. *)
ConfirmQuietly(sig) ==
    /\ baseline' = sig /\ candidate' = Nothing
    /\ IF HasDefaultRoute(sig) /\ HasDefaultRoute(baseline)
       THEN last' = 0 /\ delivered' = sig
       ELSE UNCHANGED last /\ delivered' = Nothing

(* The end of observe. *)
Confirm(sig) ==
    /\ baseline' = sig /\ candidate' = Nothing
    /\ IF HasDefaultRoute(sig)
       THEN last' = 0 /\ delivered' = sig
       ELSE UNCHANGED last /\ delivered' = Nothing

(* Within the cooldown every signature becomes the baseline. *)
Fold(sig) ==
    /\ baseline' = sig /\ candidate' = Nothing /\ delivered' = Nothing
    /\ UNCHANGED last

(* Nothing happens for a candidate that is not old enough; another one     *)
(* takes its place.                                                        *)
Wait(sig) ==
    /\ candidate' = IF candidate # Nothing /\ candidate.sig = sig THEN candidate
                    ELSE [sig |-> sig, age |-> 0]
    /\ delivered' = Nothing
    /\ UNCHANGED <<baseline, last>>

(* StableEgressObserver::observe *)
Observe(sig) ==
    IF baseline = Nothing
    THEN baseline' = sig /\ delivered' = Nothing /\ UNCHANGED <<candidate, last>>
    ELSE IF baseline = sig
    THEN candidate' = Nothing /\ delivered' = Nothing /\ UNCHANGED <<baseline, last>>
    ELSE IF InCooldown
    THEN Fold(sig)
    ELSE IF Ripe(sig) THEN Confirm(sig) ELSE Wait(sig)

(* One round of egress_observer_loop; a read that fails is no round. *)
EgressRound ==
    LET sig == Signature(table)
    IN  /\ Observe(sig)
        /\ read' = IF sig = read.sig THEN [read EXCEPT !.seen = read.age]
                    ELSE [sig |-> sig, age |-> 0, seen |-> 0]
        /\ since' = IF delivered' # Nothing THEN 0 ELSE since
        /\ UNCHANGED table

EgressNext == RouteChange \/ Elapse \/ EgressRound

-----------------------------------------------------------------------------
(***************************************************************************)
(* DeliveredWasStable.  What is delivered has a default route and was the  *)
(* only signature read for StableFor, and deliveries are a cooldown apart: *)
(* route-manager transients do not rebuild paths (StableEgressObserver).   *)
(***************************************************************************)
DeliveredWasStable ==
    [][delivered' # Nothing =>
          /\ HasDefaultRoute(delivered')
          /\ read.sig = delivered' /\ read.age >= StableFor
          /\ since = Nothing \/ since >= Cooldown]_egressVars

(***************************************************************************)
(* StableIsKnown.  A signature that was read StableFor ago and since then, *)
(* and no other, is the baseline: no flapping before it, no cooldown and   *)
(* no loss of all routes leaves the observer waiting for a signature that  *)
(* is already there (observe).                                             *)
(***************************************************************************)
StableIsKnown == read.seen >= StableFor => baseline = read.sig

(***************************************************************************)
(* SilentOnlyInCooldown.  The observer moves from one signature to another *)
(* with default routes without delivering it only within a cooldown: a     *)
(* handover outside it, and a route that returns after all were gone for   *)
(* StableFor, rebuild the paths (observe).                                 *)
(***************************************************************************)
SilentOnlyInCooldown ==
    [][baseline # Nothing /\ baseline' # baseline /\ HasDefaultRoute(baseline')
          => delivered' = baseline' \/ (since # Nothing /\ since < Cooldown)]_egressVars

(***************************************************************************)
(* BackupIgnored.  A delivery means that the preferred routes changed: a   *)
(* worse backup route that comes or goes causes none (module comment of    *)
(* egress.rs).                                                             *)
(***************************************************************************)
BackupIgnored ==
    [][delivered' # Nothing /\ baseline # Nothing
          => \E f \in Families : \E r \in UNION {baseline[f], delivered'[f]} :
                /\ (r \in baseline[f]) # (r \in delivered'[f])
                /\ \A q \in baseline[f] \cup delivered'[f] : r.metric <= q.metric]_egressVars

(***************************************************************************)
(* FollowsStableRoutes.  The observer delivers the changes of preferred    *)
(* routes that have been stable, no more and, outside a cooldown, no less  *)
(* (the four properties above).                                            *)
(***************************************************************************)
FollowsStableRoutes ==
    DeliveredWasStable /\ SilentOnlyInCooldown /\ BackupIgnored /\ []StableIsKnown

-----------------------------------------------------------------------------
(***************************************************************************)
(* The inductive invariant behind FollowsStableRoutes: the signature that  *)
(* was read last is the baseline, or the candidate and of the same age;    *)
(* the observer's cooldown runs from the last delivery.                    *)
(***************************************************************************)
EgressInv ==
    /\ table \in Tables
    /\ baseline \in Signatures \cup {Nothing}
    /\ candidate \in [sig : Signatures, age : Nat] \cup {Nothing}
    /\ last \in Nat \cup {Nothing} /\ since = last
    /\ read \in [sig : Signatures \cup {Nothing}, age : Nat, seen : Nat]
    /\ baseline = Nothing => candidate = Nothing /\ read.sig = Nothing /\ read.seen = 0
    /\ candidate # Nothing => candidate.sig = read.sig /\ candidate.age = read.age
    /\ baseline # read.sig => candidate # Nothing
    /\ StableIsKnown

=============================================================================
