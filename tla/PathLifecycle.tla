---------------------------- MODULE PathLifecycle ----------------------------
(***************************************************************************)
(* The life of a data path of the CAUSEWAY supervisor.  An adapter process *)
(* is started and pre-checked for a candidate node, installed on a class   *)
(* (or staged by a subscription transaction and published on every class   *)
(* at once), captured by client connections through the class's route,     *)
(* retired when the next path replaces it, and stopped by its drain task;  *)
(* a shutdown stops whatever is left.                                      *)
(*                                                                         *)
(* A path is the adapter process with its ports: StartSpec, the handle and *)
(* the connection counter of one ActiveNode.  The counter                  *)
(* path_connections is abstracted to the leases (PathConnGuard) that keep  *)
(* it above zero.  Work on one class is serialised by its mutex, a         *)
(* transaction excludes work on every class by the write gate; the locks   *)
(* themselves are the subject of SupervisorTasks.                          *)
(***************************************************************************)
EXTENDS Naturals

CONSTANTS
    Classes,    \* traffic classes, each with a listener
    Profiles,   \* subscription profiles
    Conns,      \* client connections that may be open at one time
    Paths,      \* bound: adapter processes that may exist at one time
    Candidates, \* bound: MAX_SWITCH_CANDIDATES
    MaxLate,    \* bound: operations in flight but not begun at the signal
    None

ASSUME PathsAssumption == Paths \subseteq Nat /\ None \notin Paths
ASSUME CandidatesAssumption == Candidates \in Nat \ {0}
ASSUME LateAssumption == MaxLate \in Nat
ASSUME NoneAssumption == None \notin Profiles \cup Classes

VARIABLES
    plane,    \* path -> the profile whose node its process serves; None: no process
    active,   \* class -> ClassRuntime.active
    route,    \* class -> [path, profile]: ClassRoute, profile = traffic_subscription
    ports,    \* class -> the path whose ports ctx.state.classes names
    work,     \* class -> the path change in progress under the class mutex
    txn,      \* the subscription transaction
    draining, \* path -> its drain task
    conn,     \* connection -> handle_conn
    profile,  \* ctx.subscriptions.active
    traffic,  \* TrafficCounters: its namespace, and whose bytes it has counted
    stop      \* how far the shutdown has come, and the operations still to begin

vars == <<plane, active, route, ports, work, txn, draining, conn, profile, traffic, stop>>

(***************************************************************************)
(* work.pc: queued = a health tick, probe cycle or request that may change *)
(* the path is in flight; next = between two candidates, locks held; check *)
(* = pre-check of a started candidate; swapped, flipped, recorded = inside *)
(* install_active.                                                         *)
(***************************************************************************)
Work == [pc   : {"idle", "queued", "next", "check", "swapped", "flipped", "recorded"},
         path : Paths \cup {None},   \* the candidate, then the installed path
         old  : Paths \cup {None},   \* the replaced path
         left : 0..Candidates]       \* candidates not yet tried

NoWork == [pc |-> "idle", path |-> None, old |-> None, left |-> 0]

Txn == [pc     : {"idle", "queued", "stage", "retire"},
        target : Profiles \cup {None},
        staged : [Classes -> Paths \cup {None}],
        old    : SUBSET Paths]

NoTxn == [pc |-> "idle", target |-> None, staged |-> [c \in Classes |-> None], old |-> {}]

NoConn == [pc |-> "idle", class |-> None, path |-> None, lease |-> FALSE,
           label |-> None, origin |-> None]

(* The stages of run() after the shutdown signal. *)
StopStages == {"no", "signal", "joined", "closed", "drain", "exited"}

(***************************************************************************)
(* TypeOK.  The variables have their types, and whoever is past the start  *)
(* of a candidate knows its path.                                          *)
(***************************************************************************)
TypeOK ==
    /\ plane \in [Paths -> Profiles \cup {None}]
    /\ active \in [Classes -> Paths \cup {None}]
    /\ route \in [Classes -> [path : Paths \cup {None}, profile : Profiles \cup {None}]]
    /\ ports \in [Classes -> Paths \cup {None}]
    /\ work \in [Classes -> Work]
    /\ \A c \in Classes :
          work[c].pc \in {"check", "swapped", "flipped", "recorded"} => work[c].path # None
    /\ txn \in Txn
    /\ txn.pc # "idle" => txn.target # None
    /\ draining \in [Paths -> {"no", "grace", "wait", "cut"}]
    /\ conn \in [Conns -> [pc : {"idle", "accepted", "piped"}, class : Classes \cup {None},
                           path : Paths \cup {None}, lease : BOOLEAN,
                           label : Profiles \cup {None},    \* traffic_subscription
                           origin : Profiles \cup {None}]]  \* of node_name
    /\ \A k \in Conns : conn[k].pc = "accepted" => conn[k].class # None
    /\ profile \in Profiles
    /\ traffic \in [sub : Profiles, from : SUBSET Profiles]
    /\ stop \in [at : StopStages, late : 0..MaxLate]

(* run(): listeners are up, no path yet; initial activation is work like any *)
Init ==
    /\ plane = [P \in Paths |-> None]
    /\ active = [c \in Classes |-> None]
    /\ route = [c \in Classes |-> [path |-> None, profile |-> None]]
    /\ ports = [c \in Classes |-> None]
    /\ work = [c \in Classes |-> NoWork]
    /\ txn = NoTxn
    /\ draining = [P \in Paths |-> "no"]
    /\ conn = [k \in Conns |-> NoConn]
    /\ profile \in Profiles
    /\ traffic = [sub |-> profile, from |-> {}]
    /\ stop = [at |-> "no", late |-> 0]

Leased(P) == \E k \in Conns : conn[k].path = P /\ conn[k].lease

(* The identity of a stopped process is used again once nobody refers to it. *)
Free == {P \in Paths : /\ plane[P] = None
                       /\ \A k \in Conns : conn[k].path # P
                       /\ \A c \in Classes : route[c].path # P /\ ports[c] # P}

(* StartSpec::reserve and DataPlane::start: a new process for a node of p *)
Spawn(P, p) ==
    /\ P \in Free /\ \A Q \in Free : P <= Q
    /\ plane' = [plane EXCEPT ![P] = p]

Kill(S) == plane' = [P \in Paths |-> IF P \in S THEN None ELSE plane[P]]

HoldsLocks(c) == work[c].pc \notin {"idle", "queued"}

(* An operation dispatched before the signal may begin after it: probe_loop   *)
(* and the request handlers look at the shutdown flag once only.              *)
MayBegin ==
    \/ stop.at = "no" /\ stop' = stop
    \/ stop.at = "signal" /\ stop.late > 0 /\ stop' = [stop EXCEPT !.late = @ - 1]

-----------------------------------------------------------------------------
(* A path change on one class: health recovery, manual switch, challenger,  *)
(* initial activation, egress rebuild.                                      *)

BeginWork(c) ==
    /\ MayBegin /\ work[c].pc = "idle"
    /\ \E n \in 1..Candidates :
         work' = [work EXCEPT ![c] = [pc |-> "queued", path |-> None, old |-> None, left |-> n]]
    /\ UNCHANGED <<plane, active, route, ports, txn, draining, conn, profile, traffic>>

(* Nothing to do, or no candidate left. *)
EndWork(c) ==
    /\ work[c].pc \in {"queued", "next"}
    /\ work' = [work EXCEPT ![c] = NoWork]
    /\ UNCHANGED <<plane, active, route, ports, txn, draining, conn, profile, traffic, stop>>

(* try_candidates, try_activate: start the next candidate of the live pool *)
TryCandidate(c) ==
    /\ work[c].pc \in {"queued", "next"} /\ work[c].left > 0
    /\ txn.pc \in {"idle", "queued"}
    /\ \E P \in Paths :
         /\ Spawn(P, profile)
         /\ work' = [work EXCEPT ![c].pc = "check", ![c].path = P, ![c].left = @ - 1]
    /\ UNCHANGED <<active, route, ports, txn, draining, conn, profile, traffic, stop>>

(* The pre-check fails: the candidate's process is stopped, the next is tried. *)
CheckFails(c) ==
    /\ work[c].pc = "check"
    /\ Kill({work[c].path})
    /\ work' = [work EXCEPT ![c].pc = "next", ![c].path = None]
    /\ UNCHANGED <<active, route, ports, txn, draining, conn, profile, traffic, stop>>

(* install_active: the runtime takes the new path ... *)
InstallActive(c) ==
    /\ work[c].pc = "check"
    /\ active' = [active EXCEPT ![c] = work[c].path]
    /\ work' = [work EXCEPT ![c].pc = "swapped", ![c].old = active[c]]
    /\ UNCHANGED <<plane, route, ports, txn, draining, conn, profile, traffic, stop>>

(* ... the route flips under its write lock ... *)
FlipRoute(c) ==
    /\ work[c].pc = "swapped"
    /\ route' = [route EXCEPT ![c] = [path |-> work[c].path, profile |-> profile]]
    /\ work' = [work EXCEPT ![c].pc = "flipped"]
    /\ UNCHANGED <<plane, active, ports, txn, draining, conn, profile, traffic, stop>>

(* ... the state names the new ports and is saved ... *)
RecordPorts(c) ==
    /\ work[c].pc = "flipped"
    /\ ports' = [ports EXCEPT ![c] = work[c].path]
    /\ work' = [work EXCEPT ![c].pc = "recorded"]
    /\ UNCHANGED <<plane, active, route, txn, draining, conn, profile, traffic, stop>>

(* ... and the old path is handed to a drain task (schedule_drain). *)
RetireOld(c) ==
    /\ work[c].pc = "recorded"
    /\ draining' = [P \in Paths |-> IF P = work[c].old THEN "grace" ELSE draining[P]]
    /\ work' = [work EXCEPT ![c] = NoWork]
    /\ UNCHANGED <<plane, active, route, ports, txn, conn, profile, traffic, stop>>

-----------------------------------------------------------------------------
(* The subscription transaction.                                            *)

BeginTxn(p) ==
    /\ MayBegin /\ txn.pc = "idle"
    /\ txn' = [NoTxn EXCEPT !.pc = "queued", !.target = p]
    /\ UNCHANGED <<plane, active, route, ports, work, draining, conn, profile, traffic>>

(* LockAll that leaves out the class mutexes. *)
LockAllUnchecked ==
    /\ txn.pc = "queued"
    /\ txn' = [txn EXCEPT !.pc = "stage"]
    /\ UNCHANGED <<plane, active, route, ports, work, draining, conn, profile, traffic, stop>>

(* The write gate and every class mutex. *)
LockAll ==
    /\ txn.pc = "queued" /\ \A c \in Classes : ~HoldsLocks(c)
    /\ txn' = [txn EXCEPT !.pc = "stage"]
    /\ UNCHANGED <<plane, active, route, ports, work, draining, conn, profile, traffic, stop>>

(* A candidate of the target profile passed its pre-check for class c. *)
StageClass(c) ==
    /\ txn.pc = "stage" /\ txn.staged[c] = None
    /\ \E P \in Paths :
         /\ Spawn(P, txn.target)
         /\ txn' = [txn EXCEPT !.staged[c] = P]
    /\ UNCHANGED <<active, route, ports, work, draining, conn, profile, traffic, stop>>

Staged == {P \in Paths : \E c \in Classes : txn.staged[c] = P}

(* AbortTxn that stops nothing. *)
AbortTxnLeaks ==
    /\ txn.pc \in {"queued", "stage"}
    /\ txn' = NoTxn
    /\ UNCHANGED <<plane, active, route, ports, work, draining, conn, profile, traffic, stop>>

(* Any failure or timeout before publication: stop_staged, or the drop of    *)
(* StagedNodes and kill_on_drop.                                             *)
AbortTxn ==
    /\ txn.pc \in {"queued", "stage"}
    /\ Kill(Staged)
    /\ txn' = NoTxn
    /\ UNCHANGED <<active, route, ports, work, draining, conn, profile, traffic, stop>>

(* TrafficCounters::select_subscription *)
SelectSubscription(p) ==
    traffic' = IF traffic.sub = p THEN traffic ELSE [sub |-> p, from |-> {}]

(* Under every route lock and the state mutex. *)
Publish ==
    /\ txn.pc = "stage" /\ \A c \in Classes : txn.staged[c] # None
    /\ active' = txn.staged
    /\ route' = [c \in Classes |-> [path |-> txn.staged[c], profile |-> txn.target]]
    /\ ports' = txn.staged
    /\ profile' = txn.target
    /\ SelectSubscription(txn.target)
    /\ txn' = [txn EXCEPT !.pc = "retire", !.staged = [c \in Classes |-> None],
                          !.old = {active[c] : c \in Classes} \ {None}]
    /\ UNCHANGED <<plane, work, draining, conn, stop>>

(* schedule_drain for every replaced path, then the locks are released. *)
RetireAll ==
    /\ txn.pc = "retire"
    /\ draining' = [P \in Paths |-> IF P \in txn.old THEN "grace" ELSE draining[P]]
    /\ txn' = NoTxn
    /\ UNCHANGED <<plane, active, route, ports, work, conn, profile, traffic, stop>>

-----------------------------------------------------------------------------
(* Drain tasks (schedule_drain_with).                                       *)

DrainStep(P, from, to) ==
    /\ draining[P] = from
    /\ draining' = [draining EXCEPT ![P] = to]
    /\ UNCHANGED <<active, route, ports, work, txn, conn, profile, traffic, stop>>

(* The configured grace has passed, or the shutdown cut it short. *)
GraceEnds(P) == DrainStep(P, "grace", "wait") /\ UNCHANGED plane

(* No hard cap: a retired path waits for its connections for ever. *)
HardCapNever(P) == FALSE

(* The hard cap expired while connections still use the path. *)
HardCap(P) == Leased(P) /\ DrainStep(P, "wait", "cut") /\ UNCHANGED plane

(* DrainMayStop that ignores the connection counter. *)
DrainMayStopEarly(P) == draining[P] \in {"wait", "cut"}

DrainMayStop(P) ==
    \/ draining[P] = "wait" /\ (~Leased(P) \/ stop.at = "drain")
    \/ draining[P] = "cut"

DrainStop(P) ==
    /\ DrainMayStop(P)
    /\ DrainStep(P, draining[P], "no")
    /\ Kill({P})

-----------------------------------------------------------------------------
(* Client connections (listener::serve, handle_conn).                       *)

ConnStep(k, new) ==
    /\ conn' = [conn EXCEPT ![k] = new]
    /\ UNCHANGED <<plane, active, route, ports, work, txn, draining, profile, stop>>

Accept(k, c) ==
    /\ stop.at = "no" /\ conn[k].pc = "idle"
    /\ ConnStep(k, [NoConn EXCEPT !.pc = "accepted", !.class = c])
    /\ UNCHANGED traffic

(* One read of the route: upstream, attribution and lease together. *)
Capture(k) ==
    /\ conn[k].pc = "accepted"
    /\ LET r == route[conn[k].class]
       IN  IF r.path = None THEN ConnStep(k, NoConn)
           ELSE ConnStep(k, [conn[k] EXCEPT !.pc = "piped", !.path = r.path, !.lease = TRUE,
                                            !.label = r.profile, !.origin = plane[r.path]])
    /\ UNCHANGED traffic

(* Finish that counts the bytes whatever profile is selected. *)
FinishUnchecked(k) ==
    /\ conn[k].pc = "piped"
    /\ traffic' = [traffic EXCEPT !.from = @ \cup {conn[k].origin}]
    /\ ConnStep(k, NoConn)

(* The pipe ended: TrafficCounters::add drops bytes of another namespace. *)
Finish(k) ==
    /\ conn[k].pc = "piped"
    /\ traffic' = IF traffic.sub = conn[k].label
                  THEN [traffic EXCEPT !.from = @ \cup {conn[k].origin}]
                  ELSE traffic
    /\ ConnStep(k, NoConn)

(* Timeout, refused protocol, connect or copy error. *)
Drop(k) ==
    /\ conn[k].pc # "idle"
    /\ ConnStep(k, NoConn)
    /\ UNCHANGED traffic

(* A listener that waits for its sessions without a limit. *)
AbortConnNever(k) == FALSE

(* The listener's own drain window is over: it aborts its sessions. *)
AbortConn(k) == stop.at # "no" /\ Drop(k)

-----------------------------------------------------------------------------
(* Shutdown (the tail of run).                                              *)

StopStep(from, to) ==
    /\ stop.at = from /\ stop' = [at |-> to, late |-> 0]
    /\ UNCHANGED <<plane, active, route, ports, work, txn, draining, conn, profile, traffic>>

Signal ==
    /\ stop.at = "no"
    /\ \E n \in 0..MaxLate : stop' = [at |-> "signal", late |-> n]
    /\ UNCHANGED <<plane, active, route, ports, work, txn, draining, conn, profile, traffic>>

(* JoinWorkers that does not wait for the control requests. *)
JoinWorkersOnly ==
    /\ \A c \in Classes : work[c].pc = "idle"
    /\ StopStep("signal", "joined")

(* Every task that may change a route is joined first, ... *)
JoinWorkers ==
    /\ \A c \in Classes : work[c].pc = "idle"
    /\ txn.pc = "idle"
    /\ StopStep("signal", "joined")

(* ... then the listeners, whose sessions have ended or were aborted, ... *)
JoinListeners ==
    /\ \A k \in Conns : conn[k].pc = "idle"
    /\ StopStep("joined", "closed")

(* ... then the active paths are stopped class by class, ... *)
StopActive(c) ==
    /\ stop.at = "closed" /\ active[c] # None
    /\ Kill({active[c]})
    /\ active' = [active EXCEPT ![c] = None]
    /\ ports' = [ports EXCEPT ![c] = None]
    /\ UNCHANGED <<route, work, txn, draining, conn, profile, traffic, stop>>

(* ... and the retired ones: stop_draining latches the flag and joins. *)
StopDraining ==
    /\ \A c \in Classes : active[c] = None
    /\ StopStep("closed", "drain")

Exit ==
    /\ \A P \in Paths : draining[P] = "no"
    /\ StopStep("drain", "exited")

Exited == stop.at = "exited" /\ UNCHANGED vars

-----------------------------------------------------------------------------
WorkStep(c) ==
    \/ TryCandidate(c) \/ CheckFails(c) \/ EndWork(c)
    \/ InstallActive(c) \/ FlipRoute(c) \/ RecordPorts(c) \/ RetireOld(c)

TxnStep == LockAll \/ (\E c \in Classes : StageClass(c)) \/ AbortTxn \/ Publish \/ RetireAll

DrainTask(P) == GraceEnds(P) \/ HardCap(P) \/ DrainStop(P)

ShutdownStep ==
    \/ JoinWorkers \/ JoinListeners \/ (\E c \in Classes : StopActive(c))
    \/ StopDraining \/ Exit

Next ==
    \/ \E c \in Classes : BeginWork(c) \/ WorkStep(c)
    \/ \E p \in Profiles : BeginTxn(p)
    \/ TxnStep
    \/ \E P \in Paths : DrainTask(P)
    \/ \E k \in Conns : \/ \E c \in Classes : Accept(k, c)
                        \/ Capture(k) \/ Finish(k) \/ Drop(k) \/ AbortConn(k)
    \/ Signal \/ ShutdownStep \/ Exited

Spec == Init /\ [][Next]_vars

(***************************************************************************)
(* Every await of a worker, a transaction, a drain task and the shutdown   *)
(* is bounded by a timeout, so each of them keeps moving; a client may     *)
(* hold its tunnel for ever, until the listener aborts it at shutdown.     *)
(***************************************************************************)
Fairness ==
    /\ \A c \in Classes : WF_vars(WorkStep(c))
    /\ WF_vars(TxnStep)
    /\ \A P \in Paths : WF_vars(DrainTask(P))
    /\ \A k \in Conns : WF_vars(AbortConn(k))
    /\ WF_vars(ShutdownStep)

FairSpec == Spec /\ Fairness

-----------------------------------------------------------------------------
(* What the life cycle promises.                                            *)

(* Whoever holds the handle of path P, and so must stop it. *)
Holders(P) ==
    {<<"active", c>> : c \in {d \in Classes : active[d] = P}}
    \cup {<<"candidate", c>> : c \in {d \in Classes : work[d].pc = "check" /\ work[d].path = P}}
    \cup {<<"replaced", c>> : c \in {d \in Classes : work[d].old = P}}
    \cup {<<"staged", c>> : c \in {d \in Classes : txn.staged[d] = P}}
    \cup {<<"retiring", t>> : t \in {u \in {None} : P \in txn.old}}
    \cup {<<"drain", t>> : t \in {u \in {None} : draining[P] # "no"}}

(***************************************************************************)
(* HandleOwnedOnce.  Every running adapter process has exactly one holder  *)
(* of its handle and a stopped one has none: no switch, abort, drain or    *)
(* shutdown leaks a process or stops one that another worker still uses    *)
(* (install_active, StagedNodes, schedule_drain, stop_draining).           *)
(***************************************************************************)
HandleOwnedOnce ==
    \A P \in Paths :
        /\ plane[P] # None <=> Holders(P) # {}
        /\ \A g, h \in Holders(P) : g = h

(***************************************************************************)
(* RouteServes.  Until the shutdown has closed the listeners, a class that *)
(* has a route has it to a running process of a node of the active         *)
(* profile, labelled with that profile: no switch breaks before it makes,  *)
(* and no work begun before a profile change installs an old-profile node  *)
(* after it.                                                               *)
(***************************************************************************)
RouteServes ==
    stop.at \in {"no", "signal", "joined"} =>
        \A c \in Classes : route[c].path # None =>
            plane[route[c].path] = profile /\ route[c].profile = profile

(***************************************************************************)
(* StateMatchesRoute.  Whenever no path change is under way, the runtime,  *)
(* the route and the ports in the state agree on the path of a class.      *)
(***************************************************************************)
StateMatchesRoute ==
    \A c \in Classes :
        work[c].pc \in {"idle", "queued", "next", "check"} /\ stop.at \in {"no", "signal", "joined"}
        => active[c] = route[c].path /\ ports[c] = route[c].path

(***************************************************************************)
(* RoutesSound.  A route leads to a running process of the live profile,   *)
(* and handle, state and route agree unless a path change is under way     *)
(* (RouteServes, StateMatchesRoute).                                       *)
(***************************************************************************)
RoutesSound == RouteServes /\ StateMatchesRoute

(***************************************************************************)
(* LeaseKeepsPath.  A step that stops a process which some connection      *)
(* still leases is the hard cap of its drain task or the final drain of    *)
(* the shutdown; neither a switch nor a finished grace period cuts it.     *)
(***************************************************************************)
LeaseKeepsPath ==
    [][\A P \in Paths : plane[P] # None /\ plane'[P] = None /\ Leased(P) =>
          draining[P] = "cut" \/ stop.at = "drain"]_vars

(***************************************************************************)
(* TrafficIsolated.  The session counters hold bytes carried by nodes of   *)
(* the selected profile only, and the selected profile is the live one: a  *)
(* connection that outlives a profile change adds nothing.                 *)
(***************************************************************************)
TrafficIsolated == traffic.from \subseteq {traffic.sub} /\ traffic.sub = profile

(***************************************************************************)
(* ExitLeavesNothing.  When the daemon has exited, no adapter process is   *)
(* left and the state names no port.                                       *)
(***************************************************************************)
ExitLeavesNothing ==
    stop.at = "exited" => \A P \in Paths : plane[P] = None /\ \A c \in Classes : ports[c] = None

(***************************************************************************)
(* RetiredPathStops.  A retired path is stopped eventually, also when a    *)
(* client never closes its tunnel.                                         *)
(***************************************************************************)
RetiredPathStops == \A P \in Paths : draining[P] # "no" ~> draining[P] = "no"

(***************************************************************************)
(* ShutdownCompletes.  After the signal the daemon exits, whatever was in  *)
(* flight.                                                                 *)
(***************************************************************************)
ShutdownCompletes == stop.at = "signal" ~> stop.at = "exited"

-----------------------------------------------------------------------------
(* The inductive invariant behind the safety properties.                    *)

Installing == {"swapped", "flipped", "recorded"}
Serving    == {"no", "signal", "joined"}

(* Where the handles are while a class changes its path. *)
WorkInv ==
    \A c \in Classes :
        /\ work[c].pc \in {"idle", "queued", "next"} => work[c].path = None
        /\ work[c].pc \in Installing => active[c] = work[c].path
        /\ work[c].pc \notin Installing => work[c].old = None

(* Where they are while a transaction runs; it excludes all other work. *)
TxnInv ==
    /\ txn.pc # "stage" => \A c \in Classes : txn.staged[c] = None
    /\ txn.pc # "retire" => txn.old = {}
    /\ txn.pc \in {"stage", "retire"} => \A c \in Classes : ~HoldsLocks(c)

(* Every process serves the profile that it was started for. *)
PlaneInv ==
    \A c \in Classes :
        /\ active[c] # None => plane[active[c]] = profile
        /\ work[c].pc = "check" => plane[work[c].path] = profile
        /\ work[c].old # None => plane[work[c].old] = profile
        /\ txn.staged[c] # None => plane[txn.staged[c]] = txn.target

(* Route and ports follow the handle, a step of install_active behind it. *)
RouteInv ==
    stop.at \in Serving =>
        \A c \in Classes :
            /\ route[c].path # None => route[c].profile = profile
            /\ route[c].path = IF work[c].pc = "swapped" THEN work[c].old ELSE active[c]
            /\ ports[c] = IF work[c].pc \in {"swapped", "flipped"} THEN work[c].old ELSE active[c]

(* A connection's path is one that was routed: no candidate, nothing staged. *)
ConnInv ==
    \A k \in Conns :
        /\ conn[k].pc = "piped" => conn[k].label = conn[k].origin
        /\ conn[k].pc # "piped" => conn[k].path = None
        /\ conn[k].path # None => \A c \in Classes :
              /\ work[c].pc = "check" => work[c].path # conn[k].path
              /\ txn.staged[c] # conn[k].path

(* What each stage of the shutdown has left behind. *)
StopInv ==
    /\ stop.at \notin {"no", "signal"} => txn.pc = "idle" /\ \A c \in Classes : work[c].pc = "idle"
    /\ stop.at \notin Serving => \A k \in Conns : conn[k].pc = "idle" /\ conn[k].path = None
    /\ stop.at = "closed" => \A c \in Classes : ports[c] = active[c]
    /\ stop.at \in {"drain", "exited"} => \A c \in Classes : active[c] = None /\ ports[c] = None
    /\ stop.at = "exited" => \A P \in Paths : draining[P] = "no"

(***************************************************************************)
(* PathInv.  The inductive invariant: ownership of the handles together    *)
(* with where handles, routes, ports and connections are at every point of *)
(* a path change, a transaction and the shutdown.                          *)
(***************************************************************************)
PathInv ==
    /\ HandleOwnedOnce /\ TrafficIsolated
    /\ WorkInv /\ TxnInv /\ PlaneInv /\ RouteInv /\ ConnInv /\ StopInv
=============================================================================
