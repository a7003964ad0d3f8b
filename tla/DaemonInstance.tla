--------------------------- MODULE DaemonInstance ---------------------------
(***************************************************************************)
(* What makes one CAUSEWAY process the only daemon of its state directory, *)
(* and what it leaves behind: the lock file (daemon_lock.rs), the control  *)
(* socket (control.rs) and the private instance directory of its adapters  *)
(* (dataplane.rs, AdapterWorkspace), in the order run() takes them and     *)
(* gives them back (supervisor.rs).                                        *)
(*                                                                         *)
(* A daemon may be killed between any two of its steps, and the host may   *)
(* restart.  The listener of a process that is gone can answer for a short *)
(* while.  A daemon that predates the lock may still serve; it only ends.  *)
(* Process ids and inode numbers are used again as early as possible.      *)
(***************************************************************************)
EXTENDS AdapterProcess

CONSTANTS
    Legacy,         \* the daemon without a lock
    Pids,           \* process ids
    Confirmations,  \* LIVENESS_CONFIRMATIONS
    DyingConnects,  \* connects, LIVENESS_RECHECK_DELAY apart, a dying listener may answer
    MaxBoots        \* boots of the host

ASSUME LegacyAssumption        == Legacy \notin Daemons
ASSUME ConfirmationsAssumption == Confirmations \in Nat \ {0}
ASSUME DyingAssumption         == DyingConnects \in 0..(Confirmations - 1)
ASSUME BootsAssumption         == MaxBoots \in Nat \ {0}

Inodes == 1..4

ASSUME InstanceNoneAssumption  == None \notin Daemons /\ None \notin 0..4

VARIABLES
    proc,      \* daemon -> where it is and what it remembers
    lock,      \* holder of run/daemon.lock
    path,      \* run/control.sock: None, the inode of a socket, or 0 for another file
    listener,  \* daemon or Legacy -> inode its open listener is bound to
    dying,     \* inode -> connects its closed listener may still answer
    dir,       \* daemon -> its instance directory
    identity,  \* daemon -> its ProcessIdentity
    boot,      \* boot_id of the host
    started,   \* start_time of the next process of this boot
    request    \* daemon -> its control connection

vars == <<adapterVars, proc, lock, path, listener, dying, dir, identity, boot, started, request>>

socket == <<path, listener, dying>>
host   == <<identity, boot, started>>

Points ==
    {"unborn", "lock",
     "inspect", "connect", "recheck", "remove", "bind",   \* control::bind
     "load", "sweep", "mkdir", "marker",                  \* rest of the start
     "serving", "draining", "teardown", "cleanup",        \* orderly end
     "close", "unlock",                                   \* values dropped, in reverse order
     "active",                                            \* the bail of a second daemon
     "dead"}

Fresh == [pc |-> "unborn", ident |-> None, hits |-> 0, met |-> FALSE,
          sweep |-> {}, victim |-> None, kept |-> {}]

Gone     == [Fresh EXCEPT !.pc = "dead"]
Alive(d) == proc[d].pc \notin {"unborn", "dead"}

(* What a daemon remembers. *)
Progress == [pc     : Points,
             ident  : Inodes \cup {None},  \* SocketIdentity inspected or bound
             hits   : 0..(Confirmations - 1),
             met    : BOOLEAN,             \* history: a live listener answered
             sweep  : SUBSET Daemons,      \* directories not yet looked at
             victim : Daemons \cup {None}, \* the one being removed
             kept   : SUBSET Daemons]      \* removals that failed, with a warning

(* TypeOK.  The variables have their types. *)
TypeOK ==
    /\ AdapterTypeOK
    /\ proc \in [Daemons -> Progress]
    /\ lock \in Daemons \cup {None}
    /\ path \in Inodes \cup {0, None}
    /\ listener \in [Daemons \cup {Legacy} -> Inodes \cup {None}]
    /\ dying \in [Inodes -> 0..DyingConnects]
    /\ dir \in [Daemons -> {"none", "made", "partial", "marked"}]
    /\ identity \in [Daemons -> [boot : 0..MaxBoots, pid : Pids \cup {None}, start : Nat]]
    /\ boot \in 1..MaxBoots /\ started \in Nat
    /\ request \in [Daemons -> {"none", "reading", "running"}]

(* A legacy daemon serves, or left its socket, or somebody put a file there, *)
(* or the directory is new.                                                  *)
Init ==
    /\ AdapterInit
    /\ proc = [d \in Daemons |-> Fresh]
    /\ lock = None
    /\ \E p \in {0, 1, None} :
         /\ path = p
         /\ \E l \in {None} \cup (IF p = 1 THEN {1} ELSE {}) :
              listener = [o \in Daemons \cup {Legacy} |-> IF o = Legacy THEN l ELSE None]
    /\ dying = [i \in Inodes |-> 0]
    /\ dir = [d \in Daemons |-> "none"]
    /\ identity = [d \in Daemons |-> [boot |-> 0, pid |-> None, start |-> 0]]
    /\ boot = 1 /\ started = 0
    /\ request = [d \in Daemons |-> "none"]

At(d, pc)   == proc[d].pc = pc
Goto(d, pc) == proc' = [proc EXCEPT ![d].pc = pc]

-----------------------------------------------------------------------------
(* The process and its lock.                                                *)

(* ProcessIdentity::current: a free process id, and a start time that is   *)
(* unique for it within the boot.                                          *)
Start(d) ==
    /\ At(d, "unborn")
    /\ \E p \in Pids \ {identity[e].pid : e \in {e \in Daemons : Alive(e)}} :
         identity' = [identity EXCEPT ![d] = [boot |-> boot, pid |-> p, start |-> started]]
    /\ started' = started + 1
    /\ Goto(d, "lock")
    /\ UNCHANGED <<adapterVars, lock, socket, dir, boot, request>>

(* AcquireLock that goes on without the lock. *)
AcquireLockShared(d) ==
    /\ At(d, "lock")
    /\ lock' = d /\ Goto(d, "inspect")
    /\ UNCHANGED <<adapterVars, socket, dir, host, request>>

(* DaemonLock::acquire: flock, not blocking. *)
AcquireLock(d) ==
    /\ At(d, "lock")
    /\ IF lock = None
       THEN lock' = d /\ Goto(d, "inspect")
       ELSE proc' = [proc EXCEPT ![d] = Gone] /\ UNCHANGED lock
    /\ UNCHANGED <<adapterVars, socket, dir, host, request>>

(* The lock is the first value of run() and the last one dropped. *)
Unlock(d) ==
    /\ At(d, "unlock") \/ At(d, "active")
    /\ lock' = (IF lock = d THEN None ELSE lock) /\ proc' = [proc EXCEPT ![d] = Gone]
    /\ UNCHANGED <<adapterVars, socket, dir, host, request>>

-----------------------------------------------------------------------------
(* control::bind.                                                           *)

(* Something accepts connections to inode i for good. *)
Served(i) == \E o \in Daemons \cup {Legacy} : listener[o] = i

(* remove_stale_control_socket: the path is free, not a socket, or is to   *)
(* be tried.                                                               *)
Inspect(d) ==
    /\ At(d, "inspect")
    /\ proc' = [proc EXCEPT ![d].pc    = CASE path = None -> "bind"
                                           [] path = 0    -> "unlock"
                                           [] OTHER       -> "connect",
                            ![d].ident = IF path \in Inodes THEN path ELSE None]
    /\ UNCHANGED <<adapterVars, lock, socket, dir, host, request>>

(* Somebody answers at the path: a listener, or what is left of one. *)
Answered(d) ==
    /\ At(d, "connect") /\ path \in Inodes
    /\ Served(path) \/ dying[path] > 0
    /\ dying' = [dying EXCEPT ![path] = IF @ > 0 THEN @ - 1 ELSE 0]
    /\ UNCHANGED <<adapterVars, lock, path, listener, dir, host, request>>

(* History: a live listener has answered, now or before. *)
Met(d) == proc[d].met \/ Served(path)

(* An answer counts; enough of them in a row mean a live daemon. *)
ConnectOk(d) ==
    /\ Answered(d)
    /\ proc' = IF proc[d].hits + 1 >= Confirmations
               THEN [proc EXCEPT ![d].pc = "active", ![d].met = Met(d)]
               ELSE [proc EXCEPT ![d].hits = @ + 1, ![d].met = Met(d)]

(* is_stale_signal: refused, or reset by a dying listener. *)
ConnectStale(d) ==
    /\ At(d, "connect") /\ path \in Inodes /\ ~Served(path)
    /\ Goto(d, "recheck")
    /\ UNCHANGED <<adapterVars, lock, socket, dir, host, request>>

(* ConnectUnclear that takes silence for a stale socket. *)
ConnectUnclearIsStale(d) ==
    /\ At(d, "connect")
    /\ Goto(d, "recheck")
    /\ UNCHANGED <<adapterVars, lock, socket, dir, host, request>>

(* A timeout or any other error: the start fails. *)
ConnectUnclear(d) ==
    /\ At(d, "connect")
    /\ Goto(d, "unlock")
    /\ UNCHANGED <<adapterVars, lock, socket, dir, host, request>>

(* The path must still lead to the inspected socket. *)
Recheck(d) ==
    /\ At(d, "recheck")
    /\ Goto(d, IF path = proc[d].ident THEN "remove" ELSE "unlock")
    /\ UNCHANGED <<adapterVars, lock, socket, dir, host, request>>

Remove(d) ==
    /\ At(d, "remove")
    /\ path' = None
    /\ Goto(d, IF path = None THEN "unlock" ELSE "bind")
    /\ UNCHANGED <<adapterVars, lock, listener, dying, dir, host, request>>

UnusedInodes == {i \in Inodes : i # path /\ ~Served(i) /\ dying[i] = 0}

(* UnixListener::bind and OwnedSocket::capture; bind refuses a taken path. *)
Bind(d) ==
    /\ At(d, "bind")
    /\ IF path = None
       THEN \E i \in UnusedInodes :
              /\ \A j \in UnusedInodes : i <= j
              /\ path' = i /\ listener' = [listener EXCEPT ![d] = i]
              /\ proc' = [proc EXCEPT ![d] = [Fresh EXCEPT !.pc = "load", !.ident = i]]
       ELSE Goto(d, "unlock") /\ UNCHANGED <<path, listener>>
    /\ UNCHANGED <<adapterVars, lock, dying, dir, host, request>>

(* The kernel has the listeners of O torn down some time after they close. *)
CloseListeners(O) ==
    /\ listener' = [o \in Daemons \cup {Legacy} |-> IF o \in O THEN None ELSE listener[o]]
    /\ dying' \in {[i \in Inodes |-> IF \E o \in O : listener[o] = i THEN n ELSE dying[i]] :
                     n \in {0, DyingConnects}}

(* External: the kernel finishes. *)
DyingEnds(i) ==
    /\ dying[i] > 0
    /\ dying' = [dying EXCEPT ![i] = 0]
    /\ UNCHANGED <<adapterVars, proc, lock, path, listener, dir, host, request>>

(* remove_socket_if_owned *)
UnlinkOwned(d) == path' = IF path = proc[d].ident THEN None ELSE path

(* External: the legacy daemon ends, with or without removing its socket. *)
LegacyEnds ==
    /\ listener[Legacy] # None
    /\ CloseListeners({Legacy})
    /\ path' \in {path, None}
    /\ UNCHANGED <<adapterVars, proc, lock, dir, host, request>>

-----------------------------------------------------------------------------
(* State, instance directory.                                               *)

(* Load the state and the pool; list the instance directories. *)
Load(d) ==
    /\ At(d, "load")
    /\ \/ Goto(d, "close")
       \/ proc' = [proc EXCEPT ![d].pc    = "sweep",
                               ![d].sweep = {q \in Daemons \ {d} : dir[q] # "none"}]
    /\ UNCHANGED <<adapterVars, lock, socket, dir, host, request>>

(* DefinitelyDead by process id alone. *)
DefinitelyDeadByPid(q) ==
    ~\E e \in Daemons : Alive(e) /\ identity[e].pid = identity[q].pid

(* cleanup_stale_instances: another boot, no such process, or another one. *)
DefinitelyDead(q) ==
    \/ identity[q].boot # boot
    \/ ~\E e \in Daemons : /\ Alive(e) /\ identity[e].pid = identity[q].pid
                           /\ identity[e].start = identity[q].start

(* A directory without a complete marker is preserved. *)
SweepPick(d, q) ==
    /\ At(d, "sweep") /\ proc[d].victim = None /\ q \in proc[d].sweep
    /\ proc' = [proc EXCEPT ![d].sweep  = @ \ {q},
                            ![d].victim = IF dir[q] = "marked" /\ DefinitelyDead(q) THEN q ELSE None]
    /\ UNCHANGED <<adapterVars, lock, socket, dir, host, request>>

(* remove_strict_stale_instance: credentials, then the marker, then the    *)
(* directory.                                                              *)
SweepRemove(d) ==
    /\ At(d, "sweep") /\ proc[d].victim # None
    /\ LET q == proc[d].victim
       IN  IF files[q] # {}
           THEN \E f \in files[q] : files' = [files EXCEPT ![q] = @ \ {f}] /\ UNCHANGED <<dir, proc>>
           ELSE /\ dir' = [dir EXCEPT ![q] = IF @ = "marked" THEN "made" ELSE "none"]
                /\ proc' = [proc EXCEPT ![d].victim = IF dir[q] = "marked" THEN q ELSE None]
                /\ UNCHANGED files
    /\ UNCHANGED <<adapter, child, port, grabs, lock, socket, host, request>>

(* A system call fails: the remainder is preserved. *)
SweepGivesUp(d) ==
    /\ "sweep" \in Faults /\ At(d, "sweep") /\ proc[d].victim # None
    /\ proc' = [proc EXCEPT ![d].victim = None, ![d].kept = @ \cup {proc[d].victim}]
    /\ UNCHANGED <<adapterVars, lock, socket, dir, host, request>>

SweepDone(d) ==
    /\ At(d, "sweep") /\ proc[d].victim = None /\ proc[d].sweep = {}
    /\ Goto(d, "mkdir")
    /\ UNCHANGED <<adapterVars, lock, socket, dir, host, request>>

(* AdapterWorkspace::create: a name nobody has. *)
MakeDir(d) ==
    /\ At(d, "mkdir")
    /\ dir' = [dir EXCEPT ![d] = "made"] /\ Goto(d, "marker")
    /\ UNCHANGED <<adapterVars, lock, socket, host, request>>

(* write_new_private_file: created, then written and synced; on an error   *)
(* marker and directory are removed again.                                 *)
WriteMarker(d) ==
    /\ At(d, "marker")
    /\ \/ dir[d] = "made" /\ dir' = [dir EXCEPT ![d] = "partial"] /\ UNCHANGED proc
       \/ dir[d] = "partial" /\ dir' = [dir EXCEPT ![d] = "marked"] /\ Goto(d, "serving")
       \/ dir' = [dir EXCEPT ![d] = "none"] /\ Goto(d, "close")
    /\ UNCHANGED <<adapterVars, lock, socket, host, request>>

-----------------------------------------------------------------------------
(* Serving.                                                                 *)

(* control::serve accepts; handle_conn reads one line. *)
Accept(d) ==
    /\ At(d, "serving") /\ request[d] = "none"
    /\ request' = [request EXCEPT ![d] = "reading"]
    /\ UNCHANGED <<adapterVars, proc, lock, socket, dir, host>>

(* A line that is complete before shutdown is dispatched. *)
Dispatch(d) ==
    /\ At(d, "serving") /\ request[d] = "reading"
    /\ request' = [request EXCEPT ![d] = "running"]
    /\ UNCHANGED <<adapterVars, proc, lock, socket, dir, host>>

(* The reply is written, the client went away, or shutdown cancels a read. *)
EndRequest(d) ==
    /\ request[d] # "none"
    /\ request' = [request EXCEPT ![d] = "none"]
    /\ UNCHANGED <<adapterVars, proc, lock, socket, dir, host>>

(* The daemon's work, or an accepted request, starts an adapter. *)
StartAdapter(d, k) ==
    /\ At(d, "serving") \/ request[d] = "running"
    /\ Reserve(d, k)
    /\ UNCHANGED <<proc, lock, socket, dir, host, request>>

Adapters(d) ==
    /\ Alive(d) /\ AdapterStep(d)
    /\ UNCHANGED <<proc, lock, socket, dir, host, request>>

Children(d) ==
    /\ ChildStep(d)
    /\ UNCHANGED <<proc, lock, socket, dir, host, request>>

(* SIGTERM: admission closes. *)
Shutdown(d) ==
    /\ At(d, "serving")
    /\ CloseListeners({d})
    /\ Goto(d, "draining")
    /\ UNCHANGED <<adapterVars, lock, path, dir, host, request>>

(* Every task of the daemon is joined; the socket goes with its server. *)
Drained(d) ==
    /\ At(d, "draining") /\ request[d] = "none"
    /\ UnlinkOwned(d) /\ Goto(d, "teardown")
    /\ UNCHANGED <<adapterVars, lock, listener, dying, dir, host, request>>

(* The paths of every class and the retired ones are stopped. *)
TornDown(d) ==
    /\ At(d, "teardown") /\ adapter[d].phase = "none"
    /\ Goto(d, "cleanup")
    /\ UNCHANGED <<adapterVars, lock, socket, dir, host, request>>

(* A class's listen address is taken: what was created is dropped. *)
ListenFails(d) ==
    /\ At(d, "serving") /\ request[d] = "none" /\ adapter[d].phase = "none"
    /\ Goto(d, "cleanup")
    /\ UNCHANGED <<adapterVars, lock, socket, dir, host, request>>

AfterCleanup(d) == Goto(d, IF listener[d] = None THEN "unlock" ELSE "close")

(* AdapterWorkspace::cleanup: its files in whatever order the directory    *)
(* lists them, then the directory.                                         *)
Cleanup(d) ==
    /\ At(d, "cleanup")
    /\ \/ \E f \in files[d] : files' = [files EXCEPT ![d] = @ \ {f}] /\ UNCHANGED <<dir, proc>>
       \/ dir[d] = "marked" /\ dir' = [dir EXCEPT ![d] = "made"] /\ UNCHANGED <<files, proc>>
       \/ /\ dir[d] = "made" /\ files[d] = {}
          /\ dir' = [dir EXCEPT ![d] = "none"] /\ AfterCleanup(d) /\ UNCHANGED files
    /\ UNCHANGED <<adapter, child, port, grabs, lock, socket, host, request>>

(* A start that failed drops the bound socket. *)
Close(d) ==
    /\ At(d, "close")
    /\ CloseListeners({d}) /\ UnlinkOwned(d)
    /\ Goto(d, "unlock")
    /\ UNCHANGED <<adapterVars, lock, dir, host, request>>

-----------------------------------------------------------------------------
(* Failure.                                                                 *)

(* SIGKILL, an abort or a panic: the kernel frees lock and descriptors. *)
Crash(d) ==
    /\ Alive(d)
    /\ proc' = [proc EXCEPT ![d] = Gone]
    /\ lock' = IF lock = d THEN None ELSE lock
    /\ CloseListeners({d})
    /\ request' = [request EXCEPT ![d] = "none"]
    /\ HandlesLost({d})
    /\ UNCHANGED <<path, dir, host>>

(* The host restarts; only the file system survives. *)
Reboot ==
    /\ boot < MaxBoots
    /\ boot' = boot + 1 /\ started' = 0
    /\ proc' = [d \in Daemons |-> IF Alive(d) THEN Gone ELSE proc[d]]
    /\ lock' = None
    /\ listener' = [o \in Daemons \cup {Legacy} |-> None]
    /\ dying' = [i \in Inodes |-> 0]
    /\ request' = [d \in Daemons |-> "none"]
    /\ HandlesLost(Daemons)
    /\ UNCHANGED <<path, dir, identity>>

StartStep(d) ==
    \/ AcquireLock(d) \/ Inspect(d) \/ ConnectOk(d) \/ ConnectStale(d) \/ ConnectUnclear(d)
    \/ Recheck(d) \/ Remove(d) \/ Bind(d) \/ Load(d)
    \/ SweepRemove(d) \/ SweepGivesUp(d) \/ SweepDone(d) \/ (\E q \in Daemons : SweepPick(d, q))
    \/ MakeDir(d) \/ WriteMarker(d)

EndStep(d) ==
    Drained(d) \/ TornDown(d) \/ Cleanup(d) \/ Close(d) \/ Unlock(d)

ServeStep(d) ==
    \/ Accept(d) \/ Dispatch(d) \/ EndRequest(d) \/ Shutdown(d) \/ ListenFails(d)
    \/ \E k \in Kinds : StartAdapter(d, k)

Next ==
    \/ \E d \in Daemons : \/ Start(d) \/ StartStep(d) \/ ServeStep(d) \/ EndStep(d)
                          \/ Adapters(d) \/ Children(d) \/ Crash(d)
    \/ \E i \in Inodes : DyingEnds(i)
    \/ LegacyEnds
    \/ Reboot

Spec == Init /\ [][Next]_vars

-----------------------------------------------------------------------------
(***************************************************************************)
(* OneDaemon.  At most one daemon, the legacy one included, is past the    *)
(* claim of the control socket (the comments on bind and DaemonLock).      *)
(***************************************************************************)
OneDaemon ==
    \A o, q \in Daemons \cup {Legacy} :
        listener[o] # None /\ listener[q] # None => o = q

(***************************************************************************)
(* LiveSocketKept.  The path leads to whoever is listening: no start, end  *)
(* or crash of another process removes or replaces a live daemon's socket  *)
(* (the "never remove a live socket" comment in control.rs).               *)
(***************************************************************************)
LiveSocketKept ==
    \A o \in Daemons \cup {Legacy} : listener[o] # None => path = listener[o]

(***************************************************************************)
(* RefusedOnlyByLive.  A start gives up as "already active" only if it met *)
(* somebody who was listening; a listener that is still being torn down    *)
(* after a stop does not keep its successor from starting                  *)
(* (LIVENESS_CONFIRMATIONS).                                               *)
(***************************************************************************)
RefusedOnlyByLive == \A d \in Daemons : At(d, "active") => proc[d].met

(***************************************************************************)
(* SocketJudged.  A socket that is found is judged rightly: a live one is  *)
(* neither removed nor replaced, and a dead or dying one does not stop a   *)
(* start (remove_stale_control_socket).                                    *)
(***************************************************************************)
SocketJudged == LiveSocketKept /\ RefusedOnlyByLive

(***************************************************************************)
(* MarkerGuardsCredentials.  A directory with private files has its        *)
(* complete marker, whatever step a crash interrupts, so that a later      *)
(* start can recognise it (remove_strict_stale_instance).                  *)
(***************************************************************************)
MarkerGuardsCredentials == \A d \in Daemons : files[d] # {} => dir[d] = "marked"

(***************************************************************************)
(* CredentialsSwept.  While a daemon serves, no dead daemon's credentials  *)
(* are left, except in a directory whose removal has failed with a         *)
(* warning (cleanup_stale_instances): reused process ids and other boots   *)
(* do not hide them.                                                       *)
(***************************************************************************)
CredentialsSwept ==
    \A d, q \in Daemons :
        At(d, "serving") /\ q # d /\ files[q] # {} => q \in proc[d].kept

(***************************************************************************)
(* CredentialsOwned.  The private files of a serving daemon are those of   *)
(* its adapter handle, and the adapter finds what it was told to read      *)
(* (PrivateConfig).                                                        *)
(***************************************************************************)
CredentialsOwned ==
    \A d \in Daemons : At(d, "serving") =>
        /\ adapter[d].phase = "none" => files[d] = {}
        /\ adapter[d].phase # "none" /\ child[d] = "running"
              => PrivateFiles(adapter[d].kind) \subseteq files[d]

(***************************************************************************)
(* CleanExit.  A daemon about to give up its lock without a crash leaves   *)
(* no listener, socket, adapter, credential or directory, although a       *)
(* request accepted before shutdown may still have started an adapter.     *)
(***************************************************************************)
CleanExit ==
    \A d \in Daemons : At(d, "unlock") \/ At(d, "active") =>
        /\ listener[d] = None /\ adapter[d].phase = "none" /\ child[d] = "none"
        /\ files[d] = {} /\ dir[d] = "none"

(***************************************************************************)
(* NothingOrphaned.  Adapters, sockets and credential files have an owner  *)
(* at any time, the daemon, its exit or the sweep of a later start,        *)
(* whatever step a crash interrupts (the four properties above).           *)
(***************************************************************************)
NothingOrphaned ==
    MarkerGuardsCredentials /\ CredentialsSwept /\ CredentialsOwned /\ CleanExit

-----------------------------------------------------------------------------
(***************************************************************************)
(* The inductive invariant of the specification, in parts.                 *)
(***************************************************************************)

(* Where a daemon holds the lock, listens, and is past its bind. *)
Holding   == Points \ {"unborn", "lock", "dead"}
Working   == {"serving", "draining", "teardown"}
Listening == {"load", "sweep", "mkdir", "marker", "serving", "cleanup", "close"}
PastBind  == Listening \cup Working

(* Who is past the lock holds it; who listens is past the bind, with the    *)
(* path leading to it, and the legacy daemon has ended by then.             *)
SocketInv ==
    /\ \A d \in Daemons : proc[d].pc \in Holding => lock = d
    /\ \A d \in Daemons : listener[d] # None => proc[d].pc \in Listening /\ path = listener[d]
    /\ \A d \in Daemons : proc[d].pc \in PastBind => listener[Legacy] = None
    /\ listener[Legacy] # None => path = listener[Legacy]

(* What a start knows of the socket it has inspected.  Answers it has       *)
(* counted without meeting a listener came from a dying one, which has      *)
(* that many fewer left.                                                    *)
Judged(d) ==
    /\ proc[d].pc \in {"unborn", "lock", "inspect"} => proc[d].hits = 0
    /\ proc[d].pc \in {"connect", "recheck", "remove"}
          => proc[d].ident \in Inodes /\ path \in {proc[d].ident, None}
    /\ proc[d].pc \in {"recheck", "remove"} => listener[Legacy] = None
    /\ proc[d].pc = "connect" /\ ~proc[d].met
          => /\ proc[d].hits + dying[proc[d].ident] <= DyingConnects
             /\ proc[d].hits > 0 => listener[Legacy] = None
    /\ proc[d].pc = "active" => proc[d].met

JudgeInv == \A d \in Daemons : Judged(d)

(* A handle or a request belongs to a daemon that works, a child to a       *)
(* handle that has spawned it; the check that the child owns the ports      *)
(* stays true while the child lives.                                        *)
Handled(d) ==
    /\ adapter[d].phase # "none" => proc[d].pc \in Working
    /\ request[d] # "none" => proc[d].pc \in {"serving", "draining"}
    /\ child[d] = "running" => adapter[d].phase \in {"spawned", "owner", "ready", "stopping"}
    /\ adapter[d].phase \in {"owner", "ready"} /\ child[d] = "running"
          => \A r \in Ports : port[d][r] = "child"

HandleInv == \A d \in Daemons : Handled(d)

(* The directory follows the daemon's progress; only a handle or a crash    *)
(* keeps private files, and only beside the marker.                         *)
Kept(d) ==
    /\ proc[d].pc \in Working => dir[d] = "marked"
    /\ proc[d].pc = "cleanup" => dir[d] \in {"marked", "made"}
    /\ proc[d].pc = "marker" => dir[d] \in {"made", "partial"}
    /\ proc[d].pc \notin Working \cup {"cleanup", "marker", "dead"} => dir[d] = "none"
    /\ proc[d].pc # "dead" /\ adapter[d].phase = "none" => files[d] = {}
    /\ adapter[d].phase \in Phases \ {"none", "reserved"}
          => PrivateFiles(adapter[d].kind) \subseteq files[d]
    /\ files[d] # {} => dir[d] = "marked"

FilesInv == \A d \in Daemons : Kept(d)

(* A process is told from every other one by its boot and its start time. *)
IdentityInv ==
    /\ \A d \in Daemons :
          /\ Alive(d) => identity[d].boot = boot
          /\ identity[d].boot <= boot
          /\ identity[d].boot = boot => identity[d].start < started
    /\ \A d, e \in Daemons :
          d # e /\ identity[d].boot = identity[e].boot /\ identity[d].boot # 0
              => identity[d].start # identity[e].start

(* The sweep removes directories of dead daemons only, and has every one    *)
(* with credentials before it, in hand or behind it with a warning.         *)
Swept(d) ==
    /\ proc[d].victim # None => proc[proc[d].victim].pc = "dead"
    /\ \A q \in Daemons \ {d} : files[q] # {} =>
          /\ proc[d].pc = "sweep"
                => q \in proc[d].sweep \cup {proc[d].victim} \cup proc[d].kept
          /\ proc[d].pc \in {"mkdir", "marker", "serving"} => q \in proc[d].kept

SweepInv == \A d \in Daemons : Swept(d)

=============================================================================
