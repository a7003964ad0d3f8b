--------------------------- MODULE AdapterProcess ---------------------------
(***************************************************************************)
(* One external adapter of a CAUSEWAY daemon (dataplane.rs): sslocal for a *)
(* Shadowsocks node, sing-box for an AnyTLS node.  Two loopback ports are  *)
(* reserved, the private files are written, the ports are released and the *)
(* child is spawned at once; it is ready when both listening sockets are   *)
(* in its own descriptor table and accept.  Whatever ends the handle kills *)
(* the child and unlinks the files.                                        *)
(*                                                                         *)
(* Every daemon incarnation owns one slot for an adapter.  An unrelated    *)
(* process may bind a port while nobody holds it.                          *)
(***************************************************************************)
EXTENDS Naturals, FiniteSets

CONSTANTS
    Daemons,     \* daemon incarnations
    DirectHosts, \* whether routing.direct_hosts is not empty
    MaxGrabs,    \* how many ports unrelated processes take in a behaviour
    Faults,      \* {"stop"}: unlinking a private file may fail when a handle stops
    None

ASSUME MaxGrabsAssumption    == MaxGrabs \in Nat
ASSUME DirectHostsAssumption == DirectHosts \in BOOLEAN
ASSUME FaultsAssumption      == Faults \subseteq {"stop", "sweep"}

Kinds == {"ss", "anytls"}
Ports == {"socks", "http"}

VARIABLES
    adapter,  \* daemon -> its adapter handle
    child,    \* daemon -> the adapter's process
    port,     \* daemon -> who listens on the two ports it has reserved
    files,    \* daemon -> private files in its instance directory
    grabs     \* ports taken by unrelated processes so far

adapterVars == <<adapter, child, port, files, grabs>>

Phases == {"none", "reserved", "written", "spawned", "owner", "ready", "stopping"}
Owners == {"free", "reservation", "child", "foreign"}

NoHandle == [phase |-> "none", kind |-> None]
FreePorts == [r \in Ports |-> "free"]

AdapterTypeOK ==
    /\ adapter \in [Daemons -> [phase : Phases, kind : Kinds \cup {None}]]
    /\ child \in [Daemons -> {"none", "running"}]
    /\ port \in [Daemons -> [Ports -> Owners]]
    /\ files \in [Daemons -> SUBSET {"acl", "config"}]
    /\ grabs \in 0..MaxGrabs

AdapterInit ==
    /\ adapter = [d \in Daemons |-> NoHandle]
    /\ child = [d \in Daemons |-> "none"]
    /\ port = [d \in Daemons |-> FreePorts]
    /\ files = [d \in Daemons |-> {}]
    /\ grabs = 0

Phase(d, ph) == adapter' = [adapter EXCEPT ![d].phase = ph]

(* The ports of d once somebody lets go of what he holds. *)
Dropped(d, owner) == [r \in Ports |-> IF port[d][r] = owner THEN "free" ELSE port[d][r]]

(* StartSpec::reserve: both sockets are held, so they differ. *)
Reserve(d, k) ==
    /\ adapter[d].phase = "none"
    /\ adapter' = [adapter EXCEPT ![d] = [phase |-> "reserved", kind |-> k]]
    /\ port' = [port EXCEPT ![d] = [r \in Ports |-> "reservation"]]
    /\ UNCHANGED <<child, files, grabs>>

(* The files an adapter of this kind reads. *)
PrivateFiles(k) == {"config"} \cup (IF k = "ss" /\ DirectHosts THEN {"acl"} ELSE {})

(* PrivateConfig::create: the ACL first, each with create_new. *)
WritePrivate(d) ==
    /\ adapter[d].phase = "reserved"
    /\ LET missing == PrivateFiles(adapter[d].kind) \ files[d]
       IN  IF missing = {}
           THEN Phase(d, "written") /\ UNCHANGED files
           ELSE /\ files' = [files EXCEPT ![d] = @ \cup {IF "acl" \in missing THEN "acl" ELSE "config"}]
                /\ UNCHANGED adapter
    /\ UNCHANGED <<child, port, grabs>>

(* PrivateConfig::cleanup of every file of the handle. *)
Unlink(d) ==
    \E kept \in SUBSET files[d] :
        /\ kept # {} => "stop" \in Faults
        /\ files' = [files EXCEPT ![d] = kept]

(* Missing binary, a file that cannot be written or a failed spawn: the    *)
(* reservation and the file guards are dropped.                            *)
StartFails(d) ==
    /\ adapter[d].phase \in {"reserved", "written"}
    /\ adapter' = [adapter EXCEPT ![d] = NoHandle]
    /\ port' = [port EXCEPT ![d] = Dropped(d, "reservation")]
    /\ Unlink(d)
    /\ UNCHANGED <<child, grabs>>

(* ports.release() and spawn are adjacent. *)
Spawn(d) ==
    /\ adapter[d].phase = "written"
    /\ Phase(d, "spawned")
    /\ child' = [child EXCEPT ![d] = "running"]
    /\ port' = [port EXCEPT ![d] = Dropped(d, "reservation")]
    /\ UNCHANGED <<files, grabs>>

(* External: the child reads its configuration and binds a port. *)
ChildBinds(d, r) ==
    /\ child[d] = "running" /\ port[d][r] = "free"
    /\ port' = [port EXCEPT ![d][r] = "child"]
    /\ UNCHANGED <<adapter, child, files, grabs>>

(* External: the child ends by itself, at any time. *)
ChildExits(d) ==
    /\ child[d] = "running"
    /\ child' = [child EXCEPT ![d] = "none"]
    /\ port' = [port EXCEPT ![d] = Dropped(d, "child")]
    /\ UNCHANGED <<adapter, files, grabs>>

(* External: an unrelated process takes a port nobody listens on. *)
PortTaken(d, r) ==
    /\ adapter[d].phase # "none"
    /\ port[d][r] = "free" /\ grabs < MaxGrabs
    /\ port' = [port EXCEPT ![d][r] = "foreign"]
    /\ grabs' = grabs + 1
    /\ UNCHANGED <<adapter, child, files>>

(* child_owns_listeners that is content with somebody listening. *)
AnybodyListens(d) == \A r \in Ports : port[d][r] # "free"

(* child_owns_listeners: both listening sockets are the child's. *)
ChildOwnsListeners(d) == \A r \in Ports : port[d][r] = "child"

(* adapter_is_ready, first half *)
CheckOwner(d) ==
    /\ adapter[d].phase = "spawned" /\ ChildOwnsListeners(d)
    /\ Phase(d, "owner")
    /\ UNCHANGED <<child, port, files, grabs>>

(* adapter_is_ready, second half: both ports accept a connection. *)
Connect(d) ==
    /\ adapter[d].phase = "owner"
    /\ Phase(d, IF \A r \in Ports : port[d][r] # "free" THEN "ready" ELSE "spawned")
    /\ UNCHANGED <<child, port, files, grabs>>

(* The child is gone, the check failed, readiness timed out, the path is   *)
(* retired, or the future that owned the handle was dropped.               *)
BeginStop(d) ==
    /\ adapter[d].phase \in {"spawned", "owner", "ready"}
    /\ Phase(d, "stopping")
    /\ UNCHANGED <<child, port, files, grabs>>

(* stop_owned_child kills and reaps exactly this child; the files are      *)
(* unlinked whatever that returned.  A child that outlives the bounded     *)
(* wait is the late child of PathLifecycle.                                *)
FinishStop(d) ==
    /\ adapter[d].phase = "stopping"
    /\ adapter' = [adapter EXCEPT ![d] = NoHandle]
    /\ child' = [child EXCEPT ![d] = "none"]
    /\ port' = [port EXCEPT ![d] = FreePorts]
    /\ Unlink(d)
    /\ UNCHANGED grabs

(* SIGKILL of the daemons D: their handles vanish and the service's cgroup *)
(* ends the children, but the files stay.                                  *)
HandlesLost(D) ==
    /\ adapter' = [d \in Daemons |-> IF d \in D THEN NoHandle ELSE adapter[d]]
    /\ child' = [d \in Daemons |-> IF d \in D THEN "none" ELSE child[d]]
    /\ port' = [d \in Daemons |-> IF d \in D THEN FreePorts ELSE port[d]]
    /\ UNCHANGED <<files, grabs>>

AdapterStep(d) ==
    \/ WritePrivate(d) \/ StartFails(d) \/ Spawn(d)
    \/ CheckOwner(d) \/ Connect(d) \/ BeginStop(d) \/ FinishStop(d)

ChildStep(d) ==
    \/ ChildExits(d)
    \/ \E r \in Ports : ChildBinds(d, r) \/ PortTaken(d, r)

-----------------------------------------------------------------------------
(***************************************************************************)
(* ReadyOwnsPorts.  The ports of a ready handle are its own child's for as *)
(* long as that child lives: losing the release-to-bind race, or an exit   *)
(* between the two halves of the check, never routes traffic to somebody   *)
(* else's socket beside a living child (dataplane.rs, StartSpec).          *)
(***************************************************************************)
ReadyOwnsPorts ==
    \A d \in Daemons : adapter[d].phase = "ready" /\ child[d] = "running"
        => \A r \in Ports : port[d][r] = "child"

=============================================================================
