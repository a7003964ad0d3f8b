--------------------------- MODULE SupervisorTasks ---------------------------
(***************************************************************************)
(* The tasks of the CAUSEWAY supervisor that decide which node a class     *)
(* uses, and the locks they share: one health loop per class, the probe    *)
(* loop, the egress observer, and control requests (manual switch, switch  *)
(* for a site, subscription change).                                       *)
(*                                                                         *)
(* Lock order: ctx.subscription_txn, then the gate ctx.reconfiguration     *)
(* (everybody reads, a transaction and an egress rebuild write), then the  *)
(* class mutexes.  The gate is tokio's RwLock: one first-come-first-served *)
(* queue, so a reader that arrives behind a waiting writer waits too.      *)
(*                                                                         *)
(* A node stands for its name.  What a candidate's start and pre-check     *)
(* answer, and what a probe measures, is an arbitrary choice; how a path   *)
(* is brought up and retired is PathLifecycle.                             *)
(***************************************************************************)
EXTENDS Naturals, Sequences

CONSTANTS
    Classes,    \* traffic classes, in the order of their names
    Nodes,      \* node names
    Pools,      \* the node pools a transaction may publish
    Beats,      \* <<a, b>>: challenger_wins(a, b)
    Pinned,     \* classes with auto_switch = false
    Threshold,  \* health.fail_threshold, also the cap of the modelled streak
    Requests,   \* control requests that may be in flight at one time
    Ops,        \* kinds of ticks and requests that occur
    None

ASSUME ClassesAssumption   == Classes \subseteq Nat /\ Classes # {}
ASSUME PoolsAssumption     == Pools \subseteq SUBSET Nodes /\ Pools # {} /\ {} \notin Pools
ASSUME BeatsAssumption     == Beats \subseteq Nodes \X Nodes
ASSUME PinnedAssumption    == Pinned \subseteq Classes
ASSUME ThresholdAssumption == Threshold \in Nat \ {0}
OpKinds == {"health", "probe", "egress", "manual", "site", "txn"}

ASSUME OpsAssumption       == Ops \subseteq OpKinds
ASSUME NoneAssumption      == None \notin Nodes /\ None \notin Classes /\ None \notin OpKinds

Health(c)  == <<"health", c>>
Probe      == <<"probe", 0>>
Egress     == <<"egress", 0>>
Request(r) == <<"request", r>>

Tasks == {Health(c) : c \in Classes} \cup {Request(r) : r \in Requests} \cup {Probe, Egress}

ASSUME NoTaskAssumption == None \notin Tasks

VARIABLES
    pool,       \* the live node pool
    active,     \* class -> name of its active node
    failures,   \* class -> ClassRuntime.health_failures
    txnLock,    \* owner of ctx.subscription_txn
    gate,       \* ctx.reconfiguration
    classLock,  \* class -> owner of its mutex
    task        \* task -> where it is and what it remembers

vars == <<pool, active, failures, txnLock, gate, classLock, task>>

locks == <<txnLock, gate, classLock>>
paths == <<pool, active, failures>>

Idle == [pc |-> "idle", op |-> None, class |-> None, node |-> None, before |-> None, cands |-> {}]

Points ==
    {"idle",
     "sample", "healthy", "failed", "recover",          \* health loop
     "probing", "decide", "challenge",                  \* probe loop
     "rebuild",                                         \* egress observer
     "before", "incumbent", "search", "pick", "candidate", \* switch_for_site
     "lock",                                            \* switch_to
     "txnlock", "prepare", "classes",                   \* transaction
     "switch"}                                          \* class mutex held, candidates tried

(***************************************************************************)
(* TypeOK.  The variables have their types, and nobody queues for the gate *)
(* twice.                                                                  *)
(***************************************************************************)
TypeOK ==
    /\ pool \in Pools
    /\ active \in [Classes -> Nodes \cup {None}]
    /\ failures \in [Classes -> 0..Threshold]
    /\ txnLock \in Tasks \cup {None}
    /\ gate.readers \in SUBSET Tasks /\ gate.writer \in Tasks \cup {None}
    /\ \A i \in DOMAIN gate.queue : gate.queue[i] \in Tasks
    /\ \A i, j \in DOMAIN gate.queue : gate.queue[i] = gate.queue[j] => i = j
    /\ classLock \in [Classes -> Tasks \cup {None}]
    /\ task \in [Tasks -> [pc     : Points,
                           op     : Ops \cup {None},
                           class  : Classes \cup {None},
                           node   : Nodes \cup {None},  \* measured, compared, captured or requested
                           before : Nodes \cup {None},  \* node_before of switch_for_site
                           cands  : SUBSET Nodes]]      \* its candidates not yet tried

(* run(): initial activation gave every class a node of the pool, or none *)
Init ==
    /\ pool \in Pools
    /\ active \in [Classes -> pool \cup {None}]
    /\ failures = [c \in Classes |-> 0]
    /\ txnLock = None
    /\ gate = [readers |-> {}, writer |-> None, queue |-> <<>>]
    /\ classLock = [c \in Classes |-> None]
    /\ task = [t \in Tasks |-> Idle]

-----------------------------------------------------------------------------
(* The gate.                                                                *)

Inside(t)   == t \in gate.readers \/ gate.writer = t
Queued(t)   == \E i \in DOMAIN gate.queue : gate.queue[i] = t
Writes(t)   == task[t].op = "txn"

(* The queue once t has given up its place; nobody queues twice. *)
Without(q, t) ==
    IF \E i \in DOMAIN q : q[i] = t
    THEN LET k == CHOOSE i \in DOMAIN q : q[i] = t
         IN  [i \in 1..(Len(q) - 1) |-> IF i < k THEN q[i] ELSE q[i + 1]]
    ELSE q

Left(t) == [gate EXCEPT !.readers = @ \ {t},
                        !.writer  = IF @ = t THEN None ELSE @,
                        !.queue   = Without(@, t)]

Queue(t)        == gate' = [gate EXCEPT !.queue = Append(@, t)]
Leave(t)        == gate' = Left(t)
LeaveAndQueue(t) == gate' = [Left(t) EXCEPT !.queue = Append(@, t)]

EnterGate(t) ==
    /\ gate.queue # <<>> /\ Head(gate.queue) = t
    /\ gate.writer = None
    /\ IF Writes(t)
       THEN /\ gate.readers = {}
            /\ gate' = [gate EXCEPT !.queue = Tail(@), !.writer = t]
       ELSE gate' = [gate EXCEPT !.queue = Tail(@), !.readers = @ \cup {t}]
    /\ UNCHANGED <<paths, txnLock, classLock, task>>

Goto(t, new)   == task' = [task EXCEPT ![t] = new]
Free(c)        == classLock[c] = None
LockClass(t, c) == Free(c) /\ classLock' = [classLock EXCEPT ![c] = t]
Unlocked(t)    == [c \in Classes |-> IF classLock[c] = t THEN None ELSE classLock[c]]

(* install_active: a published path ends the streak of the class *)
Install(c, n) ==
    /\ active' = [active EXCEPT ![c] = n]
    /\ failures' = [failures EXCEPT ![c] = 0]
    /\ UNCHANGED pool

-----------------------------------------------------------------------------
(* The health loop of class c.                                              *)

HealthTick(c) ==
    /\ "health" \in Ops /\ task[Health(c)].pc = "idle"
    /\ Goto(Health(c), [Idle EXCEPT !.pc = "sample", !.class = c])
    /\ Queue(Health(c))
    /\ UNCHANGED <<paths, txnLock, classLock>>

(* is_healthy_sampled: through the class's own listener *)
Sample(c) ==
    /\ task[Health(c)].pc = "sample" /\ Inside(Health(c))
    /\ \E verdict \in {"healthy", "failed"} :
         /\ active[c] = None => verdict = "failed"
         /\ Goto(Health(c), [task[Health(c)] EXCEPT !.pc = verdict, !.node = active[c]])
    /\ UNCHANGED <<paths, locks>>

(* The class's failure streak once this verdict is booked. *)
Streak(c) ==
    IF active[c] = None THEN failures[c]
    ELSE IF task[Health(c)].pc = "healthy" THEN 0
    ELSE IF failures[c] < Threshold THEN failures[c] + 1 ELSE Threshold

(* The verdict calls for a recovery: no path, or the streak is long enough. *)
NeedsRecovery(c) ==
    task[Health(c)].pc = "failed" /\ (active[c] = None \/ Streak(c) >= Threshold)

(* Book that takes the read gate again before it recovers. *)
BookRegates(c) ==
    /\ task[Health(c)].pc \in {"healthy", "failed"} /\ Free(c)
    /\ failures' = [failures EXCEPT ![c] = Streak(c)]
    /\ IF NeedsRecovery(c)
       THEN Goto(Health(c), [task[Health(c)] EXCEPT !.pc = "recover"]) /\ Queue(Health(c))
       ELSE Goto(Health(c), Idle) /\ Leave(Health(c))
    /\ UNCHANGED <<pool, active, txnLock, classLock>>

(* record_health_outcome under the class mutex, the gate still held *)
Book(c) ==
    /\ task[Health(c)].pc \in {"healthy", "failed"} /\ Free(c)
    /\ failures' = [failures EXCEPT ![c] = Streak(c)]
    /\ IF NeedsRecovery(c)
       THEN Goto(Health(c), [task[Health(c)] EXCEPT !.pc = "recover"]) /\ UNCHANGED gate
       ELSE Goto(Health(c), Idle) /\ Leave(Health(c))
    /\ UNCHANGED <<pool, active, txnLock, classLock>>

(* A pinned class stays where it is; a failed recovery cools down. *)
RecoverRefused(c) ==
    /\ task[Health(c)].pc = "recover" /\ Free(c)
    /\ Goto(Health(c), Idle) /\ Leave(Health(c))
    /\ UNCHANGED <<paths, txnLock, classLock>>

(* Recover that moves pinned classes too. *)
RecoverUnpinned(c) ==
    /\ task[Health(c)].pc = "recover"
    /\ LockClass(Health(c), c)
    /\ Goto(Health(c), [task[Health(c)] EXCEPT !.pc = "switch"])
    /\ UNCHANGED <<paths, txnLock, gate>>

(* recover_after_health_failure *)
Recover(c) ==
    /\ task[Health(c)].pc = "recover" /\ ~(active[c] # None /\ c \in Pinned)
    /\ LockClass(Health(c), c)
    /\ Goto(Health(c), [task[Health(c)] EXCEPT !.pc = "switch"])
    /\ UNCHANGED <<paths, txnLock, gate>>

(* switch_node_locked: an alternate, the current node as the last resort, or *)
(* nobody passes its pre-check.                                              *)
SwitchOutcome(c) ==
    \/ \E n \in pool : Install(c, n)
    \/ UNCHANGED paths

RecoverSwitch(c) ==
    /\ task[Health(c)].pc = "switch"
    /\ SwitchOutcome(c)
    /\ Goto(Health(c), Idle) /\ Leave(Health(c))
    /\ classLock' = Unlocked(Health(c))
    /\ UNCHANGED txnLock

-----------------------------------------------------------------------------
(* The probe loop.                                                          *)

FirstClass == CHOOSE c \in Classes : \A d \in Classes : c <= d

AfterClass(c) ==
    IF \E d \in Classes : d > c
    THEN [Idle EXCEPT !.pc = "decide",
                      !.class = CHOOSE d \in Classes : d > c /\ \A e \in Classes : e > c => d <= e]
    ELSE Idle

ProbeTick ==
    /\ "probe" \in Ops /\ task[Probe].pc = "idle"
    /\ Goto(Probe, [Idle EXCEPT !.pc = "probing"])
    /\ Queue(Probe)
    /\ UNCHANGED <<paths, txnLock, classLock>>

(* probe_cycle ends: the gate is released before the classes are looked at *)
ProbeDone ==
    /\ task[Probe].pc = "probing" /\ Inside(Probe)
    /\ Goto(Probe, [Idle EXCEPT !.pc = "decide", !.class = FirstClass])
    /\ Leave(Probe)
    /\ UNCHANGED <<paths, txnLock, classLock>>

(* The best other node wins against the incumbent read under the class mutex. *)
ProbeDecide ==
    /\ task[Probe].pc = "decide" /\ Free(task[Probe].class)
    /\ task[Probe].class \notin Pinned
    /\ LET cur == active[task[Probe].class]
       IN  /\ \E n \in pool : <<n, cur>> \in Beats
           /\ Goto(Probe, [task[Probe] EXCEPT !.pc = "challenge", !.node = cur])
    /\ Queue(Probe)
    /\ UNCHANGED <<paths, txnLock, classLock>>

(* No path, no probed challenger, pinned, or no clear margin. *)
ProbeSkip ==
    /\ task[Probe].pc = "decide" /\ Free(task[Probe].class)
    /\ Goto(Probe, AfterClass(task[Probe].class))
    /\ UNCHANGED <<paths, locks>>

(* switch_node: gate, class mutex, switch_node_locked *)
Challenge ==
    /\ task[Probe].pc = "challenge" /\ Inside(Probe)
    /\ LockClass(Probe, task[Probe].class)
    /\ Goto(Probe, [task[Probe] EXCEPT !.pc = "switch"])
    /\ UNCHANGED <<paths, txnLock, gate>>

ChallengeSwitch ==
    /\ task[Probe].pc = "switch"
    /\ SwitchOutcome(task[Probe].class)
    /\ Goto(Probe, AfterClass(task[Probe].class)) /\ Leave(Probe)
    /\ classLock' = Unlocked(Probe)
    /\ UNCHANGED txnLock

-----------------------------------------------------------------------------
(* The egress observer: every lock is only tried.                           *)

TxnInProgress == \E r \in Requests : task[Request(r)].op = "txn"

(* EgressLock that relies on the transaction mutex alone. *)
EgressLockTxnOnly(c) ==
    /\ "egress" \in Ops /\ task[Egress].pc = "idle" /\ ~TxnInProgress
    /\ txnLock = None /\ txnLock' = Egress
    /\ active[c] # None
    /\ Goto(Egress, [Idle EXCEPT !.pc = "rebuild", !.class = c, !.node = active[c]])
    /\ UNCHANGED <<paths, gate, classLock>>

EgressLock(c) ==
    /\ "egress" \in Ops /\ task[Egress].pc = "idle" /\ ~TxnInProgress
    /\ txnLock = None /\ txnLock' = Egress
    /\ gate.readers = {} /\ gate.writer = None /\ gate.queue = <<>>
    /\ gate' = [gate EXCEPT !.writer = Egress]
    /\ LockClass(Egress, c)
    /\ active[c] # None
    /\ Goto(Egress, [Idle EXCEPT !.pc = "rebuild", !.class = c, !.node = active[c]])
    /\ UNCHANGED paths

EgressUnlock ==
    /\ Goto(Egress, Idle) /\ Leave(Egress)
    /\ classLock' = Unlocked(Egress) /\ txnLock' = None

(* The rebuilt path of the same node passed and nothing has intervened. *)
EgressInstall ==
    /\ task[Egress].pc = "rebuild" /\ ~TxnInProgress
    /\ Install(task[Egress].class, task[Egress].node)
    /\ EgressUnlock

(* Failed pre-check, the egress moved on, shutdown, or a transaction arrived. *)
EgressDiscard ==
    /\ task[Egress].pc = "rebuild"
    /\ EgressUnlock
    /\ UNCHANGED paths

-----------------------------------------------------------------------------
(* Manual switch (switch_to), also the last part of switch_for_site.        *)

BeginManual(r, c, n) ==
    /\ "manual" \in Ops /\ task[Request(r)].pc = "idle"
    /\ Goto(Request(r), [Idle EXCEPT !.pc = "lock", !.op = "manual", !.class = c, !.node = n])
    /\ Queue(Request(r))
    /\ UNCHANGED <<paths, txnLock, classLock>>

(* What a failed switch_to means to its caller. *)
AfterFailure(r) ==
    IF task[Request(r)].op = "site" THEN [task[Request(r)] EXCEPT !.pc = "pick"] ELSE Idle

(* SwitchTo that does not look the node up in the live pool. *)
SwitchToUnknown(r) ==
    LET t == Request(r)  c == task[t].class  n == task[t].node
    IN  /\ task[t].pc = "lock" /\ Inside(t) /\ Free(c)
        /\ IF active[c] # n
           THEN /\ LockClass(t, c) /\ Goto(t, [task[t] EXCEPT !.pc = "switch"])
                /\ UNCHANGED gate
           ELSE /\ Goto(t, Idle) /\ Leave(t)
                /\ UNCHANGED classLock
        /\ UNCHANGED <<paths, txnLock>>

(* Under gate and class mutex: an unknown node is refused, the active one is *)
(* kept, another one is tried.                                               *)
SwitchTo(r) ==
    LET t == Request(r)  c == task[t].class  n == task[t].node
    IN  /\ task[t].pc = "lock" /\ Inside(t) /\ Free(c)
        /\ IF n \in pool /\ active[c] # n
           THEN /\ LockClass(t, c) /\ Goto(t, [task[t] EXCEPT !.pc = "switch"])
                /\ UNCHANGED gate
           ELSE /\ Goto(t, IF n \in pool THEN Idle ELSE AfterFailure(r)) /\ Leave(t)
                /\ UNCHANGED classLock
        /\ UNCHANGED <<paths, txnLock>>

EndSwitch(r, new) ==
    /\ Goto(Request(r), new) /\ Leave(Request(r))
    /\ classLock' = Unlocked(Request(r))
    /\ UNCHANGED txnLock

Switching(r) == task[Request(r)].pc = "switch"

RequestedInstalled(r) ==
    /\ Switching(r)
    /\ Install(task[Request(r)].class, task[Request(r)].node)
    /\ EndSwitch(r, Idle)

(* The requested node failed: another one of the pool by score. *)
FallbackInstalled(r) ==
    /\ Switching(r)
    /\ \E n \in pool \ {task[Request(r)].node, active[task[Request(r)].class]} :
          Install(task[Request(r)].class, n)
    /\ EndSwitch(r, Idle)

NothingInstalled(r) ==
    /\ Switching(r)
    /\ EndSwitch(r, AfterFailure(r))
    /\ UNCHANGED paths

-----------------------------------------------------------------------------
(* Switch for a site (switch_for_site).                                     *)

BeginSite(r, c) ==
    /\ "site" \in Ops /\ task[Request(r)].pc = "idle"
    /\ Goto(Request(r), [Idle EXCEPT !.pc = "before", !.op = "site", !.class = c])
    /\ UNCHANGED <<paths, locks>>

(* node_before is read under the class mutex, which is then released.  A      *)
(* fresh verdict answers at once, an unknown one is probed.                   *)
SiteBefore(r) ==
    LET t == Request(r)  cur == active[task[t].class]
        seen == [task[t] EXCEPT !.before = cur]
    IN  /\ task[t].pc = "before" /\ Free(task[t].class)
        /\ \/ Goto(t, [seen EXCEPT !.pc = "search"]) /\ UNCHANGED gate
           \/ cur # None /\ Goto(t, Idle) /\ UNCHANGED gate
           \/ cur \in pool /\ Goto(t, [seen EXCEPT !.pc = "incumbent"]) /\ Queue(t)
        /\ UNCHANGED <<paths, txnLock, classLock>>

(* The incumbent serves the site and is kept, or it is frozen. *)
SiteIncumbent(r) ==
    LET t == Request(r)
    IN  /\ task[t].pc = "incumbent" /\ Inside(t)
        /\ Goto(t, Idle) \/ Goto(t, [task[t] EXCEPT !.pc = "search"])
        /\ Leave(t)
        /\ UNCHANGED <<paths, txnLock, classLock>>

(* The candidates are those of the pool at this moment; no lock is held. *)
SiteSearch(r) ==
    LET t == Request(r)
    IN  /\ task[t].pc = "search"
        /\ Goto(t, [task[t] EXCEPT !.pc = "pick", !.cands = pool \ {task[t].before}])
        /\ UNCHANGED <<paths, locks>>

(* SitePick that never crosses a candidate off. *)
SitePickForever(r) ==
    LET t == Request(r)
    IN  /\ task[t].pc = "pick"
        /\ IF task[t].cands = {}
           THEN Goto(t, Idle) /\ UNCHANGED gate
           ELSE /\ \E n \in task[t].cands :
                     Goto(t, [task[t] EXCEPT !.pc = "candidate", !.node = n])
                /\ Queue(t)
        /\ UNCHANGED <<paths, txnLock, classLock>>

(* The next candidate by score, or the end of the list. *)
SitePick(r) ==
    LET t == Request(r)
    IN  /\ task[t].pc = "pick"
        /\ IF task[t].cands = {}
           THEN Goto(t, Idle) /\ UNCHANGED gate
           ELSE /\ \E n \in task[t].cands :
                     Goto(t, [task[t] EXCEPT !.pc = "candidate", !.node = n, !.cands = @ \ {n}])
                /\ Queue(t)
        /\ UNCHANGED <<paths, txnLock, classLock>>

(* probe_site_node, then switch_to for a candidate the site serves *)
SiteCandidate(r) ==
    LET t == Request(r)
    IN  /\ task[t].pc = "candidate" /\ Inside(t)
        /\ \/ Goto(t, [task[t] EXCEPT !.pc = "pick"]) /\ Leave(t)
           \/ Goto(t, [task[t] EXCEPT !.pc = "lock"]) /\ LeaveAndQueue(t)
        /\ UNCHANGED <<paths, txnLock, classLock>>

-----------------------------------------------------------------------------
(* Subscription change (switch_subscription, reload).                       *)

BeginTxn(r) ==
    /\ "txn" \in Ops /\ task[Request(r)].pc = "idle"
    /\ Goto(Request(r), [Idle EXCEPT !.pc = "txnlock", !.op = "txn"])
    /\ UNCHANGED <<paths, locks>>

TxnLock(r) ==
    /\ task[Request(r)].pc = "txnlock" /\ txnLock = None
    /\ txnLock' = Request(r)
    /\ Goto(Request(r), [task[Request(r)] EXCEPT !.pc = "prepare"])
    /\ UNCHANGED <<paths, gate, classLock>>

TxnPrepared(r) ==
    /\ task[Request(r)].pc = "prepare"
    /\ Goto(Request(r), [task[Request(r)] EXCEPT !.pc = "classes"])
    /\ Queue(Request(r))
    /\ UNCHANGED <<paths, txnLock, classLock>>

NotHeld(t) == {c \in Classes : classLock[c] # t}

(* The class mutexes in name order, after the write gate. *)
TxnClass(r) ==
    LET t == Request(r)
    IN  /\ task[t].pc = "classes" /\ Inside(t)
        /\ \E c \in NotHeld(t) : /\ \A d \in NotHeld(t) : c <= d
                                 /\ LockClass(t, c)
        /\ UNCHANGED <<paths, txnLock, gate, task>>

TxnUnlock(r) ==
    /\ Goto(Request(r), Idle) /\ Leave(Request(r))
    /\ classLock' = Unlocked(Request(r)) /\ txnLock' = None

(* Every class gets a checked path of the new pool at once. *)
TxnPublish(r) ==
    /\ task[Request(r)].pc = "classes" /\ NotHeld(Request(r)) = {}
    /\ pool' \in Pools
    /\ active' \in [Classes -> pool']
    /\ failures' = [c \in Classes |-> 0]
    /\ TxnUnlock(r)

(* A failure, or the pre-commit deadline at any wait. *)
TxnAbort(r) ==
    /\ task[Request(r)].pc \in {"prepare", "classes"}
    /\ TxnUnlock(r)
    /\ UNCHANGED paths

-----------------------------------------------------------------------------
HealthStep(c) ==
    EnterGate(Health(c)) \/ Sample(c) \/ Book(c) \/ RecoverRefused(c) \/ Recover(c) \/ RecoverSwitch(c)

ProbeStep ==
    EnterGate(Probe) \/ ProbeDone \/ ProbeDecide \/ ProbeSkip \/ Challenge \/ ChallengeSwitch

EgressStep == EgressInstall \/ EgressDiscard

RequestStep(r) ==
    \/ EnterGate(Request(r))
    \/ SwitchTo(r) \/ RequestedInstalled(r) \/ FallbackInstalled(r) \/ NothingInstalled(r)
    \/ SiteBefore(r) \/ SiteIncumbent(r) \/ SiteSearch(r) \/ SitePick(r) \/ SiteCandidate(r)
    \/ TxnLock(r) \/ TxnPrepared(r) \/ TxnClass(r) \/ TxnPublish(r) \/ TxnAbort(r)

Begin ==
    \/ ProbeTick
    \/ \E c \in Classes : HealthTick(c) \/ EgressLock(c)
    \/ \E r \in Requests : \/ \E c \in Classes, n \in Nodes : BeginManual(r, c, n)
                           \/ \E c \in Classes : BeginSite(r, c)
                           \/ BeginTxn(r)

Next ==
    \/ Begin
    \/ \E c \in Classes : HealthStep(c)
    \/ ProbeStep
    \/ EgressStep
    \/ \E r \in Requests : RequestStep(r)

Spec == Init /\ [][Next]_vars

(***************************************************************************)
(* Every probe, pre-check and preparation is bounded by a timeout, so a    *)
(* task that holds what it needs moves on.  tokio's mutexes and gate are   *)
(* served in the order of arrival; for the mutexes, whose queues are not   *)
(* modelled, this is the strong fairness of whoever waits.                 *)
(***************************************************************************)
Fairness ==
    /\ \A c \in Classes : SF_vars(HealthStep(c))
    /\ SF_vars(ProbeStep)
    /\ WF_vars(EgressStep)
    /\ \A r \in Requests : SF_vars(RequestStep(r))

FairSpec == Spec /\ Fairness

-----------------------------------------------------------------------------
(* What the lock protocol promises.                                         *)

(* The tasks that must move before t can, while t waits for a lock. *)
Ahead(t) == {gate.queue[i] : i \in {j \in DOMAIN gate.queue :
                \E k \in DOMAIN gate.queue : gate.queue[k] = t /\ j < k}}

Wanted(t) == {c \in Classes :
    /\ ~Queued(t) /\ classLock[c] # t
    /\ \/ task[t].pc \in {"healthy", "failed", "recover", "decide", "before"} /\ task[t].class = c
       \/ task[t].pc \in {"challenge", "lock"} /\ task[t].class = c
       \/ task[t].pc = "classes"}

Blockers(t) ==
    (IF Queued(t)
     THEN Ahead(t) \cup {gate.writer} \cup (IF Writes(t) THEN gate.readers ELSE {})
     ELSE {classLock[c] : c \in Wanted(t)} \cup (IF task[t].pc = "txnlock" THEN {txnLock} ELSE {}))
    \ {None}

(***************************************************************************)
(* NoCircularWait.  No set of tasks waits only for each other, a task that *)
(* queues behind a writer which waits for the task's own read of the gate  *)
(* included (the comment in health_loop on taking the gate recursively).   *)
(***************************************************************************)
NoCircularWait ==
    LET blockers == [t \in Tasks |-> Blockers(t)]
    IN  \A S \in SUBSET Tasks : S # {} => \E t \in S : blockers[t] \cap S = {}

(***************************************************************************)
(* ActiveInPool.  The active node of a class belongs to the live pool:     *)
(* work that chose a node before a subscription change never installs it   *)
(* afterwards (switch_to, switch_for_site, rebuild after egress change).   *)
(***************************************************************************)
ActiveInPool == \A c \in Classes : active[c] # None => active[c] \in pool

(***************************************************************************)
(* PinnedStays.  In pinned mode an established path moves to another node  *)
(* by a step of a control request only (selection.auto_switch = false).    *)
(***************************************************************************)
PinnedStays ==
    [][\A c \in Pinned : active[c] # None /\ active'[c] # active[c] =>
          \E r \in Requests : task'[Request(r)] # task[Request(r)]]_vars

(***************************************************************************)
(* EgressKeepsNode.  The observer's rebuild publishes the node the class   *)
(* has at that moment: it never undoes a switch made since it looked.      *)
(***************************************************************************)
EgressKeepsNode ==
    [][task'[Egress] # task[Egress] => active' = active]_vars

(***************************************************************************)
(* OperationsFinish.  Every tick and every request comes to its end: no    *)
(* task starves behind the others.                                         *)
(***************************************************************************)
OperationsFinish == \A t \in Tasks : task[t].pc # "idle" ~> task[t].pc = "idle"

-----------------------------------------------------------------------------
(* What comments and documents say, and the code does not keep.             *)

(***************************************************************************)
(* VerdictBookedOnMeasured.  A health verdict is booked against the path   *)
(* it was measured on (the comment in health_loop).                        *)
(***************************************************************************)
VerdictBookedOnMeasured ==
    [][\A c \in Classes :
          task[Health(c)].pc = "failed" /\ failures'[c] # failures[c] /\ task'[Health(c)] # task[Health(c)]
          => active[c] = task[Health(c)].node]_vars

(***************************************************************************)
(* SiteSwitchSeesIncumbent.  A switch for a site replaces the node it      *)
(* found frozen, not one a manual switch chose meanwhile (the comment on   *)
(* switch_for_site).                                                       *)
(***************************************************************************)
SiteSwitchSeesIncumbent ==
    [][\A r \in Requests : Switching(r) /\ task[Request(r)].op = "site" /\ active' # active
          => active[task[Request(r)].class] = task[Request(r)].before]_vars

(***************************************************************************)
(* SiteReplyNamesInstalled.  When switch_for_site reports "switched", the  *)
(* node_after it names is the class's node (the comment on the request).   *)
(***************************************************************************)
SiteReplyNamesInstalled ==
    [][\A r \in Requests :
          Switching(r) /\ task[Request(r)].op = "site" /\ task'[Request(r)].pc = "idle"
          => active'[task[Request(r)].class] = task[Request(r)].node]_vars

(***************************************************************************)
(* ChallengerBeatsIncumbent.  When the probe loop moves a class, the new   *)
(* node beats the old one by the hysteresis margin (README, "Stability     *)
(* over latency").                                                         *)
(***************************************************************************)
ChallengerBeatsIncumbent ==
    [][task[Probe].pc = "switch" /\ task'[Probe] # task[Probe] =>
          \A c \in Classes : active[c] # None /\ active'[c] # active[c] =>
              <<active'[c], active[c]>> \in Beats]_vars

-----------------------------------------------------------------------------
(* The inductive invariant behind the safety properties.                    *)

(* The points at which a task is in the gate or queues for it. *)
AtGate == {"sample", "healthy", "failed", "recover", "probing", "challenge", "rebuild",
           "incumbent", "candidate", "lock", "classes", "switch"}

(* What each kind of task does, and the class it is about. *)
KindInv ==
    /\ \A c \in Classes :
          /\ task[Health(c)].pc \in {"idle", "sample", "healthy", "failed", "recover", "switch"}
          /\ task[Health(c)].op = None
          /\ task[Health(c)].pc # "idle" => task[Health(c)].class = c
    /\ task[Probe].pc \in {"idle", "probing", "decide", "challenge", "switch"}
    /\ task[Probe].op = None
    /\ task[Probe].pc \in {"decide", "challenge", "switch"} => task[Probe].class \in Classes
    /\ task[Probe].pc \in {"challenge", "switch"} => task[Probe].class \notin Pinned
    /\ task[Egress].pc \in {"idle", "rebuild"} /\ task[Egress].op = None
    /\ task[Egress].pc = "rebuild" => task[Egress].class \in Classes
    /\ \A r \in Requests :
          /\ task[Request(r)].pc \in {"idle", "before", "incumbent", "search", "pick", "candidate",
                                      "lock", "switch", "txnlock", "prepare", "classes"}
          /\ task[Request(r)].pc \in {"txnlock", "prepare", "classes"} <=> task[Request(r)].op = "txn"
          /\ task[Request(r)].pc \notin {"idle", "txnlock", "prepare", "classes"} =>
                task[Request(r)].class \in Classes

(* The gate: one writer or many readers, and nobody both inside and queued. *)
GateInv ==
    /\ gate \in [readers : SUBSET Tasks, writer : Tasks \cup {None}, queue : Seq(Tasks)]
    /\ \A i, j \in DOMAIN gate.queue : gate.queue[i] = gate.queue[j] => i = j
    /\ gate.writer # None => gate.readers = {}
    /\ \A t \in Tasks :
          /\ Queued(t) => ~Inside(t)
          /\ Queued(t) \/ Inside(t) <=> task[t].pc \in AtGate
          /\ task[t].pc \in {"healthy", "failed", "recover", "switch", "rebuild"} => Inside(t)
          /\ task[t].pc \in {"classes", "rebuild"} /\ Inside(t) => gate.writer = t

(* Who owns a mutex is at a point where it uses what the mutex guards. *)
LockInv ==
    /\ \A c \in Classes : classLock[c] # None =>
          \/ task[classLock[c]].pc \in {"switch", "rebuild"} /\ task[classLock[c]].class = c
          \/ task[classLock[c]].pc = "classes" /\ Inside(classLock[c])
    /\ \A t \in Tasks : task[t].pc \in {"switch", "rebuild"} => classLock[task[t].class] = t
    /\ \A t \in Tasks : task[t].pc \in {"prepare", "classes", "rebuild"} <=> txnLock = t

(* What a task that holds a class mutex knows of the class stays true. *)
PathsInv ==
    /\ ActiveInPool
    /\ \A r \in Requests : Switching(r) => task[Request(r)].node \in pool
    /\ task[Egress].pc = "rebuild" => task[Egress].node = active[task[Egress].class]
    /\ \A c \in Pinned : task[Health(c)].pc = "switch" => active[c] = None

(***************************************************************************)
(* TasksInv.  The inductive invariant: where each kind of task can be,     *)
(* which locks it has there, and what these locks keep true.               *)
(***************************************************************************)
TasksInv == KindInv /\ GateInv /\ LockInv /\ PathsInv
=============================================================================
