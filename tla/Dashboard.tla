------------------------------ MODULE Dashboard ------------------------------
(***************************************************************************)
(* The terminal dashboard and the part of the daemon it talks to.  The     *)
(* dashboard has one lane for status requests and one for changes          *)
(* (mutations); a reply is applied only if the class and the epoch of its  *)
(* request are still current.  When the reply to a subscription change is  *)
(* lost the dashboard locks further changes until a status snapshot tells  *)
(* what became of it.  The daemon runs subscription changes one at a time, *)
(* counts the ones in progress, and assembles a snapshot in several reads. *)
(*                                                                         *)
(* What a transaction does before it publishes is the subject of           *)
(* SubscriptionTxn; here it commits or is rejected.  Node names, scores,   *)
(* events and everything drawn are left out, as is the offline view, which *)
(* is a snapshot without generation and authorises nothing.                *)
(***************************************************************************)
EXTENDS Naturals, FiniteSets

CONSTANTS
    Profiles,  \* configured subscription profiles
    Classes,   \* traffic classes
    MaxEpoch,  \* bound: operator actions that bump the epoch
    MaxFaults, \* bound: failed or timed-out requests, changes of other clients, restarts
    None

ASSUME NoneAssumption  == None \notin Profiles
ASSUME BoundAssumption == MaxEpoch \in Nat /\ MaxFaults \in Nat

VARIABLES
    app,      \* the fields of App that requests and replies touch
    status,   \* status_flight, with the daemon's class_snapshot that serves it
    mutation, \* mutation_flight
    daemon,   \* ctx.subscriptions, ctx.state and the state file
    requests, \* subscription changes in progress at the daemon
    used      \* failed or timed-out requests, and changes of other clients

vars == <<app, status, mutation, daemon, requests, used>>

(***************************************************************************)
(* A live snapshot: gen and active are of the runtime, stats is the        *)
(* profile whose node statistics it lists, busy is                         *)
(* subscription_txn_in_progress.  life, here and below, is not in the code *)
(* but tells the lives of the daemon apart in the properties.              *)
(***************************************************************************)
Snapshot == [gen : Nat, active : Profiles, stats : Profiles, busy : BOOLEAN, life : Nat]

(* before is what the dashboard recorded, prior the generation the request met *)
OutcomeUnknown == [previous : Profiles, requested : Profiles, before : Nat, prior : Nat]

(* A point in the daemon's history: a life and a generation of it *)
Point == [life : Nat, gen : Nat]

(* A probe round: its tag, and the pool (life and generation) it was measured on *)
Round == [tag : [active : Profiles, gen : Nat, life : Nat],
          life : Nat, gen : Nat]

NoStatus == [pc |-> "none", class |-> None, epoch |-> 0, snap |-> None]

NoMutation == [pc |-> "none", kind |-> "none", class |-> None, epoch |-> 0, previous |-> None,
               requested |-> None, before |-> 0, tag |-> None, met |-> None, reply |-> "none"]

ASSUME NoRecordAssumption ==
    None \notin Snapshot /\ None \notin OutcomeUnknown /\ None \notin Round /\ None \notin Point

AppType ==
    [class : Classes, epoch : Nat, connected : BOOLEAN, snap : Snapshot \cup {None},
     unknown : OutcomeUnknown \cup {None}, round : Round \cup {None},
     fresh : BOOLEAN,           \* a snapshot since the last change
     floor : Point \cup {None}] \* what its last success replaced

StatusType ==
    [pc : {"none", "sent", "before", "runtime", "state", "after", "reply", "dead"},
     class : Classes \cup {None}, epoch : Nat, snap : Snapshot \cup {None}]

MutationType ==
    [pc : {"none", "sent", "running", "dead"}, kind : {"none", "subscription", "probe", "node"},
     class : Classes \cup {None}, epoch : Nat,
     previous : Profiles \cup {None}, requested : Profiles \cup {None}, before : Nat,
     tag : Snapshot \cup {None}, met : Point \cup {None}, reply : {"none", "ok", "failed"}]

DaemonType ==
    [up : BOOLEAN, life : Nat, gen : Nat, active : Profiles, stats : Profiles, saved : Profiles]

Request ==
    [id : Nat, target : Profiles, pc : {"waiting", "staging", "committed", "flipping", "published"}]

(* TypeOK.  The variables have their types. *)
TypeOK ==
    /\ app \in AppType /\ status \in StatusType /\ mutation \in MutationType
    /\ daemon \in DaemonType /\ requests \subseteq Request
    /\ used \in [lost : 0..MaxFaults, other : 0..MaxFaults]

(* App::new against a daemon that serves one of the profiles *)
Init ==
    /\ \E p \in Profiles, c \in Classes :
          /\ app = [class |-> c, epoch |-> 0, connected |-> FALSE, snap |-> None,
                    unknown |-> None, round |-> None, fresh |-> FALSE,
                    floor |-> None]
          /\ daemon = [up |-> TRUE, life |-> 0, gen |-> 0, active |-> p, stats |-> p, saved |-> p]
    /\ status = NoStatus
    /\ mutation = NoMutation
    /\ requests = {}
    /\ used = [lost |-> 0, other |-> 0]

MayFault == used.lost + used.other + daemon.life < MaxFaults

-----------------------------------------------------------------------------
(* The daemon: subscription changes *)

Holding == {r \in requests : r.pc # "waiting"}   \* ctx.subscription_txn is held
InProgress == requests # {}                      \* subscription_txns_in_progress # 0
StateLocked == \E r \in requests : r.pc = "flipping"

Advance(r, pc) == requests' = (requests \ {r}) \cup {[r EXCEPT !.pc = pc]}

(* The change the dashboard still waits for; 0 is the id of other clients *)
Awaited(r) == mutation.kind = "subscription" /\ mutation.epoch = r.id

Here == [life |-> daemon.life, gen |-> daemon.gen]

(* The request ends; its guard is dropped and its reply goes to whoever waits *)
End(r, reply) ==
    /\ requests' = requests \ {r}
    /\ mutation' = IF Awaited(r) THEN [mutation EXCEPT !.reply = reply] ELSE mutation

(* handle_conn dispatches the request and switch_subscription begins its guard *)
Dispatch ==
    /\ daemon.up /\ mutation.kind = "subscription" /\ mutation.pc = "sent"
    /\ requests' = requests \cup {[id |-> mutation.epoch, target |-> mutation.requested,
                                   pc |-> "waiting"]}
    /\ mutation' = [mutation EXCEPT !.pc = "running", !.met = Here]
    /\ UNCHANGED <<app, status, daemon, used>>

(* Another client asks for a profile or a reload; a reload keeps the active one *)
OtherRequest(p) ==
    /\ daemon.up /\ MayFault
    /\ \A r \in requests : r.id # 0
    /\ requests' = requests \cup {[id |-> 0, target |-> p, pc |-> "waiting"]}
    /\ used' = [used EXCEPT !.other = @ + 1]
    /\ UNCHANGED <<app, status, mutation, daemon>>

(* The transaction mutex is granted *)
Lock(r) ==
    /\ r.pc = "waiting" /\ Holding = {}
    /\ Advance(r, "staging")
    /\ mutation' = IF Awaited(r) THEN [mutation EXCEPT !.met = Here] ELSE mutation
    /\ UNCHANGED <<app, status, daemon, used>>

(* Preparation, staging or a commit fails; nothing has changed *)
Reject(r) ==
    /\ r.pc = "staging"
    /\ End(r, "failed")
    /\ UNCHANGED <<app, status, daemon, used>>

CommitState(r) ==
    /\ r.pc = "staging"
    /\ Advance(r, "committed")
    /\ daemon' = [daemon EXCEPT !.saved = r.target]
    /\ UNCHANGED <<app, status, mutation, used>>

(* Publication: ctx.state is replaced, and stays locked until the runtime is *)
PublishState(r) ==
    /\ r.pc = "committed"
    /\ Advance(r, "flipping")
    /\ daemon' = [daemon EXCEPT !.stats = r.target]
    /\ UNCHANGED <<app, status, mutation, used>>

PublishRuntime(r) ==
    /\ r.pc = "flipping"
    /\ Advance(r, "published")
    /\ daemon' = [daemon EXCEPT !.active = r.target, !.gen = @ + 1]
    /\ UNCHANGED <<app, status, mutation, used>>

Finish(r) ==
    /\ r.pc = "published"
    /\ End(r, "ok")
    /\ UNCHANGED <<app, status, daemon, used>>

(* The process dies: connections break, the runtime is gone, replies already *)
(* written can still be read                                                *)
Crash ==
    /\ daemon.up /\ MayFault
    /\ daemon' = [daemon EXCEPT !.up = FALSE]
    /\ requests' = {}
    /\ status' = IF status.pc \in {"before", "runtime", "state", "after"}
                   THEN [status EXCEPT !.pc = "dead"] ELSE status
    /\ mutation' = IF mutation.pc = "running" /\ mutation.reply = "none"
                     THEN [mutation EXCEPT !.pc = "dead"] ELSE mutation
    /\ UNCHANGED <<app, used>>

(* run() resumes the saved selection and counts generations from zero *)
Restart ==
    /\ ~daemon.up
    /\ daemon' = [daemon EXCEPT !.up = TRUE, !.life = @ + 1, !.gen = 0,
                                !.active = daemon.saved, !.stats = daemon.saved]
    /\ UNCHANGED <<app, status, mutation, requests, used>>

-----------------------------------------------------------------------------
(* The daemon: class_snapshot, one read per step *)

ToStatus(pc, snap) ==
    /\ status' = [status EXCEPT !.pc = pc, !.snap = snap]
    /\ UNCHANGED <<app, mutation, daemon, requests, used>>

LoadBefore ==
    /\ daemon.up /\ status.pc = "sent"
    /\ ToStatus("before", [gen |-> 0, active |-> daemon.active, stats |-> daemon.active,
                           busy |-> InProgress, life |-> daemon.life])

ReadRuntime ==
    /\ status.pc = "before"
    /\ ToStatus("runtime", [status.snap EXCEPT !.gen = daemon.gen, !.active = daemon.active])

ReadState ==
    /\ status.pc = "runtime" /\ ~StateLocked
    /\ ToStatus("state", [status.snap EXCEPT !.stats = daemon.stats])

(* Mutant: the generation is not looked at again. *)
GenerationUnchecked == daemon.gen >= status.snap.gen

(* The loop starts again when the generation moved between two of its reads *)
GenerationUnchanged == daemon.gen = status.snap.gen

LoadAfter ==
    /\ status.pc = "state"
    /\ IF GenerationUnchanged
         THEN ToStatus("after", [status.snap EXCEPT !.busy = @ \/ InProgress])
         ELSE ToStatus("sent", None)

Answer ==
    /\ status.pc = "after"
    /\ IF GenerationUnchanged THEN ToStatus("reply", status.snap) ELSE ToStatus("sent", None)

-----------------------------------------------------------------------------
(* The dashboard *)

Busy == mutation.kind # "none"

(* authoritative_subscription_snapshot: live, with generation and catalog *)
Authoritative == app.connected /\ app.snap # None

(* Mutant: an unknown outcome does not lock. *)
AllowedWhileUnknown == Authoritative /\ ~app.snap.busy

SubscriptionMutationAllowed ==
    /\ Authoritative
    /\ ~app.snap.busy
    /\ app.unknown = None

(* Mutant: the tag is the profile alone. *)
RoundForProfile(round, snap) ==
    IF round # None /\ snap # None /\ round.tag.active = snap.active THEN round ELSE None

(* rebuild_order drops a probe round whose tag is not the snapshot's *)
RoundFor(round, snap) ==
    IF round # None /\ snap # None /\ round.tag.active = snap.active /\ round.tag.gen = snap.gen
      THEN round ELSE None

SpawnStatus ==
    /\ status = NoStatus
    /\ status' = [pc |-> "sent", class |-> app.class, epoch |-> app.epoch, snap |-> None]
    /\ UNCHANGED <<app, mutation, daemon, requests, used>>

(* Mutant: a snapshot reconciles although a change is in progress. *)
ReconcileEager(unknown, snap) ==
    IF /\ unknown # None
       /\ \/ snap.active = unknown.requested /\ snap.gen = unknown.before + 1
          \/ snap.active = unknown.previous /\ snap.gen = unknown.before
      THEN None ELSE unknown

(* reconcile_subscription_outcome: what is still unknown after this snapshot *)
Reconcile(unknown, snap) ==
    IF /\ unknown # None
       /\ ~snap.busy
       /\ \/ snap.active = unknown.requested /\ snap.gen = unknown.before + 1
          \/ snap.active = unknown.previous /\ snap.gen = unknown.before
      THEN None ELSE unknown

(* A reply of another class or epoch is superseded *)
Current(flight) == flight.class = app.class /\ flight.epoch = app.epoch

ApplyStatus ==
    /\ status.pc = "reply"
    /\ status' = NoStatus
    /\ app' = IF Current(status)
                THEN [app EXCEPT !.unknown = Reconcile(@, status.snap), !.snap = status.snap,
                                 !.connected = TRUE, !.fresh = TRUE,
                                 !.round = RoundFor(@, status.snap)]
                ELSE app
    /\ UNCHANGED <<mutation, daemon, requests, used>>

(* The request fails or times out: fall back to the state file *)
StatusFails ==
    /\ status.pc # "none"
    /\ \/ /\ status.pc = "dead" \/ (status.pc = "sent" /\ ~daemon.up)
          /\ UNCHANGED used
       \/ /\ MayFault
          /\ used' = [used EXCEPT !.lost = @ + 1]
    /\ status' = NoStatus
    /\ app' = IF Current(status)
                THEN [app EXCEPT !.connected = FALSE, !.snap = None, !.fresh = FALSE, !.round = None]
                ELSE app
    /\ UNCHANGED <<mutation, daemon, requests>>

ChangeClass ==
    /\ ~Busy /\ app.epoch < MaxEpoch
    /\ \E c \in Classes \ {app.class} :
          app' = [app EXCEPT !.class = c, !.snap = None, !.round = None, !.fresh = FALSE,
                             !.epoch = @ + 1]
    /\ status' = NoStatus
    /\ UNCHANGED <<mutation, daemon, requests, used>>

(* submit_mutation and prepare_mutation: one change at a time, a new epoch *)
SubmitMutation(m) ==
    /\ ~Busy /\ app.epoch < MaxEpoch
    /\ app' = [app EXCEPT !.epoch = @ + 1]
    /\ mutation' = [m EXCEPT !.pc = "sent", !.class = app.class, !.epoch = app.epoch + 1]
    /\ UNCHANGED <<status, daemon, requests, used>>

(* The change is recorded with the profile and generation last seen *)
SubmitSubscription(p) ==
    /\ SubscriptionMutationAllowed
    /\ SubmitMutation([NoMutation EXCEPT !.kind = "subscription", !.previous = app.snap.active,
                                         !.requested = p, !.before = app.snap.gen])

(* Enter in the picker; the profile that is shown as active is not requested *)
PickSubscription(p) == Authoritative /\ app.snap.active # p /\ SubmitSubscription(p)

(* A new URL for the active profile is fetched through the same checked switch *)
SubmitUrlEdit(p) == Authoritative /\ app.snap.active = p /\ SubmitSubscription(p)

(* probe_round_tag: none without a live snapshot *)
SubmitProbe == SubmitMutation([NoMutation EXCEPT !.kind = "probe", !.tag = app.snap])

SubmitNodeSwitch == SubmitMutation([NoMutation EXCEPT !.kind = "node"])

(* The end of complete_mutation: statuses asked for meanwhile are superseded *)
Completed(a) ==
    /\ app' = [a EXCEPT !.epoch = @ + 1, !.fresh = FALSE]
    /\ mutation' = NoMutation
    /\ status' = NoStatus

(* classify_subscription_reply: Success or Failed *)
CompleteSubscription ==
    /\ mutation.kind = "subscription" /\ mutation.reply # "none"
    /\ IF mutation.reply = "ok"
         THEN Completed([app EXCEPT !.unknown = None, !.floor = mutation.met])
         ELSE Completed(app)
    /\ UNCHANGED <<daemon, requests, used>>

(***************************************************************************)
(* Unknown: the request could not be delivered, its connection broke, or   *)
(* it timed out after it was dispatched.  (The timeout is 300 seconds,     *)
(* long after the daemon has read the request from its socket.)            *)
(***************************************************************************)
LoseSubscription ==
    /\ mutation.kind = "subscription"
    /\ \/ /\ mutation.pc = "dead" \/ (mutation.pc = "sent" /\ ~daemon.up)
          /\ UNCHANGED used
       \/ /\ MayFault
          /\ used' = [used EXCEPT !.lost = @ + 1]
    /\ Completed([app EXCEPT !.unknown =
                    [previous |-> mutation.previous, requested |-> mutation.requested,
                     before |-> mutation.before,
                     prior |-> IF mutation.met = None THEN daemon.gen ELSE mutation.met.gen]])
    /\ UNCHANGED <<daemon, requests>>

(* probe_now takes the pool of the live generation *)
StartProbe ==
    /\ daemon.up /\ mutation.kind = "probe" /\ mutation.pc = "sent"
    /\ mutation' = [mutation EXCEPT !.pc = "running", !.met = Here]
    /\ UNCHANGED <<app, status, daemon, requests, used>>

(* A complete result set for the tagged pool becomes the round to rank by *)
CompleteProbe ==
    /\ mutation.kind = "probe" /\ mutation.pc = "running" /\ mutation.tag # None
    /\ LET round == [tag  |-> [active |-> mutation.tag.active, gen |-> mutation.tag.gen,
                               life |-> mutation.tag.life],
                     life |-> mutation.met.life, gen |-> mutation.met.gen]
       IN  Completed([app EXCEPT !.round = RoundFor(round, app.snap)])
    /\ UNCHANGED <<daemon, requests, used>>

(* An incomplete or failed probe ranks nothing *)
ProbeFails ==
    /\ mutation.kind = "probe"
    /\ Completed([app EXCEPT !.round = None])
    /\ UNCHANGED <<daemon, requests, used>>

(* Whatever a node switch answers is only a message *)
CompleteNodeSwitch ==
    /\ mutation.kind = "node"
    /\ Completed(app)
    /\ UNCHANGED <<daemon, requests, used>>

-----------------------------------------------------------------------------
DaemonStep(r) ==
    \/ Lock(r) \/ Reject(r) \/ CommitState(r) \/ PublishState(r) \/ PublishRuntime(r) \/ Finish(r)

ServeStatus == LoadBefore \/ ReadRuntime \/ ReadState \/ LoadAfter \/ Answer

Complete ==
    \/ CompleteSubscription \/ LoseSubscription
    \/ CompleteProbe \/ ProbeFails \/ CompleteNodeSwitch

Next ==
    \/ \E r \in requests : DaemonStep(r)
    \/ Dispatch \/ StartProbe \/ Crash \/ Restart
    \/ \E p \in Profiles : OtherRequest(p) \/ PickSubscription(p) \/ SubmitUrlEdit(p)
    \/ ServeStatus \/ SpawnStatus \/ ApplyStatus \/ StatusFails
    \/ ChangeClass \/ SubmitProbe \/ SubmitNodeSwitch
    \/ Complete

Spec == Init /\ [][Next]_vars
-----------------------------------------------------------------------------
(***************************************************************************)
(* OneOutstandingChange.  The dashboard never asks for a subscription      *)
(* change while an earlier one of its own may still take effect at the     *)
(* daemon, although the earlier reply was lost: the lock of                *)
(* subscription_outcome_unknown is released only by a snapshot taken after *)
(* the daemon was done with the request.                                   *)
(***************************************************************************)
OneOutstandingChange ==
    Cardinality({r \in requests : r.id # 0})
      + (IF mutation.kind = "subscription" /\ mutation.pc = "sent" THEN 1 ELSE 0) <= 1

(***************************************************************************)
(* ReconciledIsSettled.  When a status snapshot settles what became of a   *)
(* lost request, the daemon is done with the request: neither verdict, "is *)
(* active" or "remains active", is overtaken by the request itself.        *)
(***************************************************************************)
ReconciledIsSettled ==
    [][app.unknown # None /\ app'.unknown = None => \A r \in requests : r.id = 0]_vars

(***************************************************************************)
(* SnapshotOfOneGeneration.  class_snapshot never pairs the runtime of one *)
(* generation with the statistics of another, although it reads them under *)
(* two different locks while a transaction publishes both.                 *)
(***************************************************************************)
SnapshotOfOneGeneration ==
    status.pc = "reply" => status.snap.active = status.snap.stats

(***************************************************************************)
(* QuietMeansFinished.  A snapshot that says no change is in progress does *)
(* not show the result of a transaction that is still running.             *)
(***************************************************************************)
QuietMeansFinished ==
    status.pc = "reply" /\ ~status.snap.busy /\ status.snap.life = daemon.life
      => ~ \E r \in requests : r.pc = "published" /\ daemon.gen = status.snap.gen

(***************************************************************************)
(* SnapshotSound.  A status snapshot is of one generation, and one that    *)
(* says no change is in progress does not show a change that is            *)
(* (class_snapshot).                                                       *)
(***************************************************************************)
SnapshotSound == SnapshotOfOneGeneration /\ QuietMeansFinished

(***************************************************************************)
(* NoOlderWorld.  Once a subscription change was answered, no snapshot of  *)
(* the world before it is shown again as the result of a refresh: status   *)
(* requests from before or during the change are superseded.               *)
(***************************************************************************)
NoOlderWorld ==
    app.fresh /\ app.floor # None /\ app.snap.life = app.floor.life
      => app.snap.gen > app.floor.gen

(***************************************************************************)
(* RoundMeasuredHere.  After a refresh the nodes are ranked only by probe  *)
(* results of the generation on display, although the tag of a round is    *)
(* taken from the last snapshot and not by the daemon.                     *)
(***************************************************************************)
RoundMeasuredHere ==
    app.fresh /\ app.round # None
        /\ {app.round.life, app.round.tag.life} = {app.snap.life}
      => app.round.gen = app.snap.gen

(***************************************************************************)
(* ShownIsCurrent.  After a refresh neither a snapshot nor a probe round   *)
(* of an earlier generation is on display (NoOlderWorld,                   *)
(* RoundMeasuredHere).                                                     *)
(***************************************************************************)
ShownIsCurrent == NoOlderWorld /\ RoundMeasuredHere

(* Another client changed subscriptions, or the daemon died *)
Others == used.other # 0 \/ ~daemon.up \/ daemon.life # 0

(***************************************************************************)
(* LockExplained.  When nobody else changes subscriptions and the daemon   *)
(* lives, the first refresh that shows no change in progress reconciles    *)
(* the lost request, whether it succeeded, failed or never arrived; only a *)
(* request made from a snapshot that was not current stays unknown.        *)
(***************************************************************************)
LockExplained ==
    app.unknown # None /\ app.fresh /\ ~app.snap.busy
      => Others \/ app.unknown.before # app.unknown.prior

(***************************************************************************)
(* LockSound.  The lock that a lost reply leaves is there as long as the   *)
(* request may take effect, and no longer than a refresh needs to explain  *)
(* what became of it (OneOutstandingChange, LockExplained).                *)
(***************************************************************************)
LockSound == OneOutstandingChange /\ LockExplained

(***************************************************************************)
(* LockedOnlyByOthers.  The comment of reconcile_subscription_outcome: an  *)
(* outcome stays unknown because of a concurrent mutation or a restart.    *)
(***************************************************************************)
LockedOnlyByOthers ==
    app.unknown # None /\ app.fresh /\ ~app.snap.busy => Others

-----------------------------------------------------------------------------
(***************************************************************************)
(* The inductive invariant of the specification, in parts.                 *)
(***************************************************************************)

(* A point of the daemon's history that is not to come, or that is over. *)
Reached(x) == x.life <= daemon.life /\ (x.life = daemon.life => x.gen <= daemon.gen)
Passed(x)  == x.life <= daemon.life /\ (x.life = daemon.life => x.gen < daemon.gen)

(* What a snapshot of the present generation says of the active profile *)
Matches(snap) ==
    snap.life = daemon.life /\ snap.gen = daemon.gen => snap.active = daemon.active

Own == {r \in requests : r.id # 0}   \* the dashboard's requests
Serving == {"before", "runtime", "state", "after"}
Dated   == {"runtime", "state", "after", "reply"}   \* the generation has been read

(***************************************************************************)
(* One request holds the transaction mutex and one is the dashboard's.     *)
(* The dashboard waits for that one, or its outcome is unknown and every   *)
(* snapshot taken since says that a change is in progress.                 *)
(***************************************************************************)
RequestInv ==
    /\ ~daemon.up => requests = {}
    /\ \A r, s \in requests : r.pc # "waiting" /\ s.pc # "waiting" => r = s
    /\ \A r, s \in Own : r = s
    /\ requests # Own => used.other # 0
    /\ \A r \in Own :
          \/ Awaited(r) /\ mutation.pc = "running" /\ mutation.reply = "none"
          \/ /\ mutation.kind # "subscription" /\ app.unknown # None
             /\ status.pc \in Serving \cup {"reply"} => status.snap.busy

(* The change in flight *)
MutationInv ==
    /\ mutation.kind # "none" => mutation.epoch # 0
    /\ mutation.reply # "none" =>
          mutation.kind = "subscription" /\ mutation.pc = "running" /\ mutation.met # None
    /\ mutation.kind = "subscription" =>
          /\ app.unknown = None
          /\ mutation.previous # None /\ mutation.requested # None
          /\ mutation.pc = "sent" => mutation.met = None /\ Own = {}
          /\ mutation.pc = "running" => mutation.met # None
          /\ mutation.pc = "running" /\ mutation.reply = "none" => Own # {}
          /\ mutation.pc = "dead" => Others

(* Publication replaces the statistics and the runtime together, for       *)
(* whoever waits for the state's lock.                                     *)
PublishInv ==
    /\ daemon.up /\ ~StateLocked => daemon.stats = daemon.active
    /\ \A r \in requests : r.pc = "flipping" => daemon.stats = r.target

(* The generation a change met is replaced by it, not by another. *)
MetInv ==
    /\ mutation.met # None => Reached(mutation.met)
    /\ \A r \in requests : Awaited(r) =>
          /\ r.pc \in {"staging", "committed", "flipping"} => mutation.met = Here
          /\ r.pc = "waiting" /\ ~Others => mutation.met = Here
          /\ r.pc = "published" => Passed(mutation.met)
    /\ mutation.reply = "ok" => Passed(mutation.met)

(* What class_snapshot has read so far *)
StatusInv ==
    /\ status.pc \in Serving \cup {"reply"} => status.snap # None
    /\ status.pc \in Serving => daemon.up /\ status.snap.life = daemon.life
    /\ status.pc \in Dated => Reached(status.snap) /\ Matches(status.snap)
    /\ status.pc = "state" /\ status.snap.gen = daemon.gen => status.snap.active = status.snap.stats
    /\ status.pc \in {"after", "reply"} =>
          /\ status.snap.active = status.snap.stats
          /\ ~status.snap.busy /\ status.snap.life = daemon.life /\ status.snap.gen = daemon.gen
                => \A r \in requests : r.pc # "published"

(* What is shown, and the success it must not fall behind *)
ShownInv ==
    /\ app.fresh => app.snap # None
    /\ app.snap # None => Reached(app.snap) /\ Matches(app.snap)
    /\ app.floor # None =>
          /\ Passed(app.floor)
          /\ status.pc \in Dated /\ status.snap.life = app.floor.life
                => status.snap.gen > app.floor.gen
          /\ app.fresh /\ app.snap.life = app.floor.life => app.snap.gen > app.floor.gen

(* A round is measured after its tag and before the next snapshot. *)
RoundInv ==
    /\ app.round # None =>
          /\ app.snap # None /\ app.round.tag.gen = app.snap.gen /\ Reached(app.round)
          /\ app.round.tag.life = app.round.life => app.round.tag.gen <= app.round.gen
          /\ status.pc \in Dated /\ status.snap.life = app.round.life
                => status.snap.gen >= app.round.gen
          /\ app.fresh /\ app.snap.life = app.round.life => app.snap.gen >= app.round.gen
    /\ mutation.kind = "probe" =>
          /\ mutation.tag # None => Reached(mutation.tag)
          /\ mutation.pc = "running" => mutation.met # None
          /\ mutation.tag # None /\ mutation.met # None /\ mutation.tag.life = mutation.met.life
                => mutation.tag.gen <= mutation.met.gen

(* A change from one profile to another has not begun to show, or has. *)
Course(previous, requested, before) ==
    /\ \A r \in Own : r.target = requested
    /\ \/ daemon.gen = before /\ daemon.active = previous /\ \A r \in Own : r.pc # "published"
       \/ daemon.gen = before + 1 /\ daemon.active = requested /\ \A r \in Own : r.pc = "published"

(* What a change of the dashboard's comes to while nobody interferes *)
CourseInv ==
    ~Others =>
      /\ mutation.kind = "subscription"
           /\ mutation.before = (IF mutation.met = None THEN daemon.gen ELSE mutation.met.gen)
           => Course(mutation.previous, mutation.requested, mutation.before)
      /\ app.unknown # None /\ app.unknown.before = app.unknown.prior
           => Course(app.unknown.previous, app.unknown.requested, app.unknown.before)
      /\ app.unknown # None /\ status.pc \in {"after", "reply"} /\ ~status.snap.busy
           => status.snap.gen = daemon.gen

=============================================================================
