------------------------ MODULE DaemonInstanceProofs ------------------------
(***************************************************************************)
(* Proofs about DaemonInstance, for any number of daemons, process ids,    *)
(* boots, foreign processes and confirmations.                             *)
(***************************************************************************)
EXTENDS DaemonInstance, TLAPS

(* The assumptions on the constants, for the arithmetic of the steps. *)
LEMMA Constants ==
    /\ Legacy \notin Daemons /\ None \notin Daemons
    /\ None # 0 /\ None \notin Inodes /\ 0 \notin Inodes
    /\ Confirmations \in Nat \ {0} /\ MaxBoots \in Nat \ {0} /\ MaxGrabs \in Nat
    /\ DyingConnects \in Nat /\ DyingConnects < Confirmations
  BY LegacyAssumption, ConfirmationsAssumption, DyingAssumption, BootsAssumption,
     InstanceNoneAssumption, MaxGrabsAssumption DEF Inodes




-----------------------------------------------------------------------------
(* Types.                                                                   *)

(* The parts of the type invariant an action of the adapter may change. *)
LEMMA AdapterTypes ==
    ASSUME AdapterTypeOK, NEW d \in Daemons,
           AdapterStep(d) \/ ChildStep(d) \/ \E k \in Kinds : Reserve(d, k)
    PROVE  AdapterTypeOK'
  <1> USE Constants DEF AdapterTypeOK, Phases, Owners, Kinds
  <1>1. CASE WritePrivate(d)
    <2> DEFINE missing == PrivateFiles(adapter[d].kind) \ files[d]
               f       == IF "acl" \in missing THEN "acl" ELSE "config"
    <2>1. files[d] \cup {f} \in SUBSET {"acl", "config"}
      OBVIOUS
    <2>2. CASE missing = {}
      <3>1. adapter' = [adapter EXCEPT ![d].phase = "written"] /\ UNCHANGED <<files, child, port, grabs>>
        BY <1>1, <2>2 DEF WritePrivate, Phase
      <3> HIDE DEF missing
      <3> QED
        BY <3>1, ZenonT(40)
    <2>3. CASE missing # {}
      <3>1. files' = [files EXCEPT ![d] = files[d] \cup {f}] /\ UNCHANGED <<adapter, child, port, grabs>>
        BY <1>1, <2>3 DEF WritePrivate
      <3> HIDE DEF f
      <3> QED
        BY <3>1, <2>1
    <2> QED
      BY <2>2, <2>3
  <1>2. CASE StartFails(d)
    <2>1. files' \in [Daemons -> SUBSET {"acl", "config"}]
      <3>1. PICK kept \in SUBSET files[d] : files' = [files EXCEPT ![d] = kept]
        BY <1>2 DEF StartFails, Unlink
      <3>2. kept \in SUBSET {"acl", "config"}
        BY <3>1
      <3> QED
        BY <3>1, <3>2
    <2> QED
      BY <1>2, <2>1 DEF StartFails, NoHandle, Dropped
  <1>3. CASE Spawn(d)
    BY <1>3 DEF Spawn, Phase, Dropped
  <1>4. CASE CheckOwner(d)
    BY <1>4 DEF CheckOwner, Phase
  <1>5. CASE Connect(d)
    BY <1>5, SMTT(30) DEF Connect, Phase
  <1>6. CASE BeginStop(d)
    BY <1>6 DEF BeginStop, Phase
  <1>7. CASE FinishStop(d)
    <2>1. files' \in [Daemons -> SUBSET {"acl", "config"}]
      <3>1. PICK kept \in SUBSET files[d] : files' = [files EXCEPT ![d] = kept]
        BY <1>7 DEF FinishStop, Unlink
      <3>2. kept \in SUBSET {"acl", "config"}
        BY <3>1
      <3> QED
        BY <3>1, <3>2
    <2> QED
      BY <1>7, <2>1 DEF FinishStop, NoHandle, FreePorts
  <1>8. CASE ChildExits(d)
    BY <1>8 DEF ChildExits, Dropped
  <1>9. ASSUME NEW r \in Ports, ChildBinds(d, r) PROVE AdapterTypeOK'
    BY <1>9 DEF ChildBinds
  <1>10. ASSUME NEW r \in Ports, PortTaken(d, r) PROVE AdapterTypeOK'
    BY <1>10 DEF PortTaken
  <1>11. ASSUME NEW k \in Kinds, Reserve(d, k) PROVE AdapterTypeOK'
    BY <1>11 DEF Reserve
  <1> QED
    BY <1>1, <1>2, <1>3, <1>4, <1>5, <1>6, <1>7, <1>8, <1>9, <1>10, <1>11 DEF AdapterStep, ChildStep

(* Lost handles have the types of handles. *)
LEMMA LostTypes ==
    ASSUME AdapterTypeOK, NEW D, HandlesLost(D)
    PROVE  AdapterTypeOK'
  BY DEF HandlesLost, AdapterTypeOK, NoHandle, FreePorts, Phases, Owners

(* Closing listeners keeps the types of what is closed. *)
LEMMA CloseTypes ==
    ASSUME TypeOK, NEW O, CloseListeners(O)
    PROVE  /\ listener' \in [Daemons \cup {Legacy} -> Inodes \cup {None}]
           /\ dying' \in [Inodes -> 0..DyingConnects]
  BY Constants DEF CloseListeners, TypeOK

(* What an action leaves alone keeps its type. *)
LEMMA AdapterSame == AdapterTypeOK /\ UNCHANGED adapterVars => AdapterTypeOK'
  BY DEF AdapterTypeOK, adapterVars

(* The program counters are points. *)
LEMMA PointsIn ==
    /\ "unborn" \in Points /\ "lock" \in Points /\ "inspect" \in Points /\ "connect" \in Points
    /\ "recheck" \in Points /\ "remove" \in Points /\ "bind" \in Points /\ "load" \in Points
    /\ "sweep" \in Points /\ "mkdir" \in Points /\ "marker" \in Points /\ "serving" \in Points
    /\ "draining" \in Points /\ "teardown" \in Points /\ "cleanup" \in Points
    /\ "close" \in Points /\ "unlock" \in Points /\ "active" \in Points /\ "dead" \in Points
  BY DEF Points

(* The records of a daemon that has not begun, and of one that is gone. *)
LEMMA EmptyProgress ==
    /\ Fresh \in Progress /\ Gone \in Progress
    /\ \A i \in Inodes : [Fresh EXCEPT !.pc = "load", !.ident = i] \in Progress
  <1> USE Constants, PointsIn
  <1>1. Fresh \in Progress
    <2>1. 0 \in 0..(Confirmations - 1)
      OBVIOUS
    <2> QED
      BY <2>1 DEF Fresh, Progress
  <1>2. \A w \in Progress, i \in Inodes : [w EXCEPT !.pc = "load", !.ident = i] \in Progress
    BY DEF Progress
  <1>3. \A w \in Progress : [w EXCEPT !.pc = "dead"] \in Progress
    BY DEF Progress
  <1> HIDE DEF Fresh
  <1> QED
    BY <1>1, <1>2, <1>3 DEF Gone

(* The updates of a daemon's record the actions make. *)
LEMMA Updates ==
    ASSUME NEW w \in Progress
    PROVE  /\ \A p \in Points, i \in Inodes \cup {None} : [w EXCEPT !.pc = p, !.ident = i] \in Progress
           /\ \A p \in Points, m \in BOOLEAN : [w EXCEPT !.pc = p, !.met = m] \in Progress
           /\ \A h \in 0..(Confirmations - 1), m \in BOOLEAN : [w EXCEPT !.hits = h, !.met = m] \in Progress
           /\ \A p \in Points, S \in SUBSET Daemons : [w EXCEPT !.pc = p, !.sweep = S] \in Progress
           /\ \A v \in Daemons \cup {None} : [w EXCEPT !.victim = v] \in Progress
           /\ \A v \in Daemons \cup {None}, S \in SUBSET Daemons :
                 /\ [w EXCEPT !.sweep = S, !.victim = v] \in Progress
                 /\ [w EXCEPT !.victim = v, !.kept = S] \in Progress
  <1>1. \A p \in Points, i \in Inodes \cup {None} : [w EXCEPT !.pc = p, !.ident = i] \in Progress
    BY DEF Progress
  <1>2. \A p \in Points, m \in BOOLEAN : [w EXCEPT !.pc = p, !.met = m] \in Progress
    BY DEF Progress
  <1>3. \A h \in 0..(Confirmations - 1), m \in BOOLEAN : [w EXCEPT !.hits = h, !.met = m] \in Progress
    BY DEF Progress
  <1>4. \A p \in Points, S \in SUBSET Daemons : [w EXCEPT !.pc = p, !.sweep = S] \in Progress
    BY DEF Progress
  <1>5. \A v \in Daemons \cup {None} : [w EXCEPT !.victim = v] \in Progress
    BY DEF Progress
  <1>6. \A v \in Daemons \cup {None}, S \in SUBSET Daemons : [w EXCEPT !.sweep = S, !.victim = v] \in Progress
    BY DEF Progress
  <1>7. \A v \in Daemons \cup {None}, S \in SUBSET Daemons : [w EXCEPT !.victim = v, !.kept = S] \in Progress
    BY DEF Progress
  <1> QED
    BY <1>1, <1>2, <1>3, <1>4, <1>5, <1>6, <1>7

(* A step of one daemon that moves its program counter, and one that       *)
(* replaces its record.                                                    *)
LEMMA GotoType ==
    ASSUME proc \in [Daemons -> Progress], NEW d \in Daemons, NEW pc \in Points, Goto(d, pc)
    PROVE  proc' \in [Daemons -> Progress]
  BY DEF Goto, Progress
(* Moving one daemon to another point of its program keeps the type of proc. *)
LEMMA PutType ==
    ASSUME proc \in [Daemons -> Progress], NEW d \in Daemons, NEW w \in Progress,
           proc' = [proc EXCEPT ![d] = w]
    PROVE  proc' \in [Daemons -> Progress]
  OBVIOUS

(* Every step keeps the types. *)
LEMMA TypeNext == TypeOK /\ [Next]_vars => TypeOK'
  <1> SUFFICES ASSUME TypeOK, [Next]_vars PROVE TypeOK'
    OBVIOUS
  <1> USE Constants, PointsIn DEF TypeOK, socket, host
  <1> DEFINE Act(d) == Start(d) \/ StartStep(d) \/ ServeStep(d) \/ EndStep(d)
             Procs  == proc' \in [Daemons -> Progress]
  <1>0. CASE UNCHANGED vars
    BY <1>0, AdapterSame DEF vars
  <1>1. ASSUME NEW d \in Daemons, Act(d) PROVE TypeOK'
    <2>1. CASE Start(d)
      <3>1. Procs
        BY <2>1, GotoType DEF Start
      <3> QED
        <4> DEFINE IdType == [boot : 0..MaxBoots, pid : Pids \cup {None}, start : Nat]
        <4>1. PICK p \in Pids : identity' = [identity EXCEPT ![d] = [boot |-> boot, pid |-> p, start |-> started]]
          BY <2>1 DEF Start
        <4>2. [boot |-> boot, pid |-> p, start |-> started] \in IdType
          OBVIOUS
        <4>3. identity' \in [Daemons -> IdType]
          <5> HIDE DEF IdType
          <5> QED
            BY <4>1, <4>2 DEF IdType
        <4>4. started' \in Nat
          BY <2>1 DEF Start
        <4> QED
          BY <2>1, <3>1, <4>3, <4>4, AdapterSame DEF Start
    <2>2. CASE AcquireLock(d)
      <3>1. Procs
        BY <2>2, GotoType, PutType, EmptyProgress DEF AcquireLock
      <3> QED
        BY <2>2, <3>1, AdapterSame DEF AcquireLock
    <2>3. CASE Inspect(d)
      <3>1. Procs
        <4> DEFINE w == [proc[d] EXCEPT !.pc    = IF path = None THEN "bind" ELSE IF path = 0 THEN "unlock" ELSE "connect",
                                         !.ident = IF path \in Inodes THEN path ELSE None]
        <4>1. w \in Progress
          BY Updates
        <4>2. proc' = [proc EXCEPT ![d] = w]
          BY <2>3 DEF Inspect, Progress
        <4> HIDE DEF w
        <4> QED
          BY <4>1, <4>2, PutType
      <3> QED
        BY <2>3, <3>1, AdapterSame DEF Inspect
    <2>4. CASE ConnectOk(d)
      <3>1. Procs
        <4> DEFINE w == IF proc[d].hits + 1 >= Confirmations
                        THEN [proc[d] EXCEPT !.pc = "active", !.met = Met(d)]
                        ELSE [proc[d] EXCEPT !.hits = proc[d].hits + 1, !.met = Met(d)]
        <4>1. Met(d) \in BOOLEAN
          BY DEF Progress, Met
        <4>2. proc' = [proc EXCEPT ![d] = w]
          BY <2>4 DEF ConnectOk
        <4>3. w \in Progress
          <5>1. proc[d].hits + 1 < Confirmations => proc[d].hits + 1 \in 0..(Confirmations - 1)
            BY DEF Progress
          <5>2. proc[d].hits \in Nat
            BY DEF Progress
          <5>3. CASE proc[d].hits + 1 >= Confirmations
            BY <4>1, <5>3, Updates
          <5>4. CASE proc[d].hits + 1 < Confirmations
            BY <4>1, <5>1, <5>2, <5>4, Updates
          <5> QED
            BY <5>2, <5>3, <5>4
        <4> HIDE DEF w
        <4> QED
          BY <4>2, <4>3, PutType
      <3> QED
        BY <2>4, <3>1, AdapterSame DEF ConnectOk, Answered
    <2>5. CASE ConnectStale(d)
      <3>1. Procs
        BY <2>5, GotoType DEF ConnectStale
      <3> QED
        BY <2>5, <3>1, AdapterSame DEF ConnectStale
    <2>6. CASE ConnectUnclear(d)
      <3>1. Procs
        BY <2>6, GotoType DEF ConnectUnclear
      <3> QED
        BY <2>6, <3>1, AdapterSame DEF ConnectUnclear
    <2>7. CASE Recheck(d)
      <3>1. Procs
        BY <2>7, GotoType DEF Recheck
      <3> QED
        BY <2>7, <3>1, AdapterSame DEF Recheck
    <2>8. CASE Remove(d)
      <3>1. Procs
        BY <2>8, GotoType DEF Remove
      <3> QED
        BY <2>8, <3>1, AdapterSame DEF Remove
    <2>9. CASE Bind(d)
      <3>1. Procs
        <4>1. CASE path # None
          BY <2>9, <4>1, GotoType DEF Bind
        <4>2. CASE path = None
          <5>1. PICK i \in Inodes : proc' = [proc EXCEPT ![d] = [Fresh EXCEPT !.pc = "load", !.ident = i]]
            BY <2>9, <4>2 DEF Bind, UnusedInodes
          <5> DEFINE w == [Fresh EXCEPT !.pc = "load", !.ident = i]
          <5>2. w \in Progress
            BY EmptyProgress
          <5> HIDE DEF w
          <5> QED
            BY <5>1, <5>2, PutType DEF w
        <4> QED
          BY <4>1, <4>2
      <3> QED
        BY <2>9, <3>1, AdapterSame, ZenonT(40) DEF Bind, UnusedInodes
    <2>10. CASE Load(d)
      <3>1. Procs
        <4> DEFINE S == {q \in Daemons \ {d} : dir[q] # "none"}
                   w == [proc[d] EXCEPT !.pc = "sweep", !.sweep = S]
        <4>1. S \in SUBSET Daemons
          OBVIOUS
        <4>2. Goto(d, "close") \/ proc' = [proc EXCEPT ![d] = w]
          BY <2>10 DEF Load
        <4> HIDE DEF S
        <4>3. w \in Progress
          BY <4>1, Updates
        <4> HIDE DEF w
        <4> QED
          BY <4>2, <4>3, PutType, GotoType
      <3> QED
        BY <2>10, <3>1, AdapterSame DEF Load
    <2>11. CASE SweepRemove(d)
      <3>1. Procs
        <4>1. \A v \in Daemons \cup {None} : [proc[d] EXCEPT !.victim = v] \in Progress
          BY Updates
        <4>2. proc[d].victim \in Daemons
          BY <2>11 DEF SweepRemove, Progress
        <4>3. proc' = proc \/ \E v \in Daemons \cup {None} : proc' = [proc EXCEPT ![d].victim = v]
          BY <2>11, <4>2 DEF SweepRemove
        <4> QED
          BY <4>1, <4>3
      <3> QED
        <4>1. proc[d].victim \in Daemons
          BY <2>11 DEF SweepRemove, Progress
        <4>2. files' \in [Daemons -> SUBSET {"acl", "config"}]
          <5> DEFINE q == proc[d].victim
          <5>1. UNCHANGED files \/ \E f \in files[q] : files' = [files EXCEPT ![q] = files[q] \ {f}]
            BY <2>11 DEF SweepRemove
          <5> HIDE DEF q
          <5>2. CASE UNCHANGED files
            BY <5>2 DEF AdapterTypeOK
          <5>3. ASSUME NEW f \in files[q], files' = [files EXCEPT ![q] = files[q] \ {f}]
                PROVE  files' \in [Daemons -> SUBSET {"acl", "config"}]
            <6>1. files[q] \ {f} \in SUBSET {"acl", "config"}
              BY <4>1 DEF AdapterTypeOK, q
            <6> QED
              BY <5>3, <6>1 DEF AdapterTypeOK
          <5> QED
            BY <5>1, <5>2, <5>3
        <4>3. dir' \in [Daemons -> {"none", "made", "partial", "marked"}]
          BY <2>11, <4>1 DEF SweepRemove
        <4> QED
          BY <2>11, <3>1, <4>2, <4>3 DEF SweepRemove, AdapterTypeOK
    <2>12. CASE SweepGivesUp(d)
      <3>1. Procs
        <4> DEFINE w == [proc[d] EXCEPT !.victim = None, !.kept = proc[d].kept \cup {proc[d].victim}]
        <4>1. proc[d].kept \cup {proc[d].victim} \in SUBSET Daemons
          BY <2>12 DEF SweepGivesUp, Progress
        <4>2. proc' = [proc EXCEPT ![d] = w]
          BY <2>12 DEF SweepGivesUp
        <4>3. w \in Progress
          BY <4>1, Updates
        <4> HIDE DEF w
        <4> QED
          BY <4>2, <4>3, PutType
      <3> QED
        BY <2>12, <3>1, AdapterSame DEF SweepGivesUp
    <2>13. CASE SweepDone(d)
      <3>1. Procs
        BY <2>13, GotoType DEF SweepDone
      <3> QED
        BY <2>13, <3>1, AdapterSame DEF SweepDone
    <2>14. CASE MakeDir(d)
      <3>1. Procs
        BY <2>14, GotoType DEF MakeDir
      <3> QED
        BY <2>14, <3>1, AdapterSame DEF MakeDir
    <2>15. CASE WriteMarker(d)
      <3>1. Procs
        BY <2>15, GotoType DEF WriteMarker
      <3> QED
        BY <2>15, <3>1, AdapterSame DEF WriteMarker
    <2>16. CASE Accept(d)
      BY <2>16, AdapterSame DEF Accept
    <2>17. CASE Dispatch(d)
      BY <2>17, AdapterSame DEF Dispatch
    <2>18. CASE EndRequest(d)
      BY <2>18, AdapterSame DEF EndRequest
    <2>19. CASE Shutdown(d)
      <3>1. Procs
        BY <2>19, GotoType DEF Shutdown
      <3> QED
        BY <2>19, <3>1, AdapterSame, CloseTypes DEF Shutdown
    <2>20. CASE ListenFails(d)
      <3>1. Procs
        BY <2>20, GotoType DEF ListenFails
      <3> QED
        BY <2>20, <3>1, AdapterSame DEF ListenFails
    <2>21. CASE Drained(d)
      <3>1. Procs
        BY <2>21, GotoType DEF Drained
      <3> QED
        BY <2>21, <3>1, AdapterSame DEF Drained, UnlinkOwned, At, Progress
    <2>22. CASE TornDown(d)
      <3>1. Procs
        BY <2>22, GotoType DEF TornDown
      <3> QED
        BY <2>22, <3>1, AdapterSame DEF TornDown
    <2>23. CASE Cleanup(d)
      <3>1. Procs
        BY <2>23, GotoType DEF Cleanup, AfterCleanup
      <3> QED
        <4>1. files' \in [Daemons -> SUBSET {"acl", "config"}]
          BY <2>23 DEF Cleanup, AdapterTypeOK
        <4>2. dir' \in [Daemons -> {"none", "made", "partial", "marked"}]
          BY <2>23 DEF Cleanup
        <4> QED
          BY <2>23, <3>1, <4>1, <4>2 DEF Cleanup, AdapterTypeOK
    <2>24. CASE Close(d)
      <3>1. Procs
        BY <2>24, GotoType DEF Close
      <3> QED
        BY <2>24, <3>1, AdapterSame, CloseTypes DEF Close, UnlinkOwned, At, Progress
    <2>25. CASE Unlock(d)
      <3>1. Procs
        BY <2>25, GotoType, PutType, EmptyProgress DEF Unlock
      <3> QED
        BY <2>25, <3>1, AdapterSame DEF Unlock
    <2>26. ASSUME NEW q \in Daemons, SweepPick(d, q) PROVE TypeOK'
      <3>1. Procs
        <4> DEFINE v == IF dir[q] = "marked" /\ DefinitelyDead(q) THEN q ELSE None
                   w == [proc[d] EXCEPT !.sweep = proc[d].sweep \ {q}, !.victim = v]
        <4>1. proc[d].sweep \ {q} \in SUBSET Daemons /\ v \in Daemons \cup {None}
          BY DEF Progress
        <4>2. proc' = [proc EXCEPT ![d] = w]
          BY <2>26 DEF SweepPick
        <4> HIDE DEF v
        <4>3. w \in Progress
          BY <4>1, Updates
        <4> HIDE DEF w
        <4> QED
          BY <4>2, <4>3, PutType
      <3> QED
        BY <2>26, <3>1, AdapterSame DEF SweepPick
    <2>27. ASSUME NEW k \in Kinds, StartAdapter(d, k) PROVE TypeOK'
      BY <2>27, AdapterTypes DEF StartAdapter
    <2> QED
      BY <1>1, <2>1, <2>2, <2>3, <2>4, <2>5, <2>6, <2>7, <2>8, <2>9, <2>10, <2>11, <2>12, <2>13, <2>14, <2>15, <2>16, <2>17, <2>18, <2>19, <2>20, <2>21, <2>22, <2>23, <2>24, <2>25, <2>26, <2>27 DEF StartStep, ServeStep, EndStep
  <1>2. ASSUME NEW d \in Daemons, Adapters(d) \/ Children(d) PROVE TypeOK'
    BY <1>2, AdapterTypes DEF Adapters, Children
  <1>3. ASSUME NEW d \in Daemons, Crash(d) PROVE TypeOK'
    BY <1>3, LostTypes, CloseTypes, PutType, EmptyProgress DEF Crash
  <1>4. ASSUME NEW i \in Inodes, DyingEnds(i) PROVE TypeOK'
    BY <1>4, AdapterSame DEF DyingEnds
  <1>5. CASE LegacyEnds
    BY <1>5, CloseTypes, AdapterSame DEF LegacyEnds
  <1>6. CASE Reboot
    <2>1. proc' \in [Daemons -> Progress]
      BY <1>6, EmptyProgress DEF Reboot
    <2>2. AdapterTypeOK'
      BY <1>6, LostTypes DEF Reboot
    <2> QED
      BY <1>6, <2>1, <2>2 DEF Reboot
  <1> QED
    BY <1>0, <1>1, <1>2, <1>3, <1>4, <1>5, <1>6 DEF Next

-----------------------------------------------------------------------------
(* The lock and the socket.                                                 *)

(* A program counter that moves leaves the rest of the record, and the     *)
(* other daemons, alone.                                                   *)
LEMMA GotoMoves ==
    ASSUME proc \in [Daemons -> Progress], NEW d \in Daemons, NEW pc, Goto(d, pc)
    PROVE  /\ proc'[d].pc = pc /\ proc'[d].ident = proc[d].ident
           /\ proc'[d].hits = proc[d].hits /\ proc'[d].met = proc[d].met
           /\ proc'[d].sweep = proc[d].sweep /\ proc'[d].victim = proc[d].victim
           /\ proc'[d].kept = proc[d].kept
           /\ \A e \in Daemons \ {d} : proc'[e] = proc[e]
  BY DEF Goto, Progress

(* Nothing of the socket is kept by a process that is gone. *)
LEMMA GoneFields == Gone.pc = "dead" /\ Gone.victim = None
  BY DEF Gone, Fresh

(* The record of a daemon that has just bound. *)
LEMMA BoundFields ==
    ASSUME NEW i
    PROVE  /\ [Fresh EXCEPT !.pc = "load", !.ident = i].pc = "load"
           /\ [Fresh EXCEPT !.pc = "load", !.ident = i].victim = None
  BY DEF Fresh

(* The initial states satisfy the parts on lock and socket. *)
LEMMA SocketInit == Init => SocketInv /\ JudgeInv
  BY Constants DEF Init, SocketInv, JudgeInv, Judged, Fresh, Holding, Points, PastBind, Listening, Working

(* A step of one daemon that leaves lock, path and listeners alone, and     *)
(* enters none of the regions they are about.                               *)
LEMMA SocketKept ==
    ASSUME TypeOK, SocketInv, NEW d \in Daemons, UNCHANGED <<lock, path, listener>>,
           \A e \in Daemons \ {d} : proc'[e] = proc[e],
           proc'[d].pc \in Holding => proc[d].pc \in Holding,
           proc'[d].pc \in PastBind => proc[d].pc \in PastBind,
           proc[d].pc \in Listening => proc'[d].pc \in Listening \/ listener[d] = None
    PROVE  SocketInv'
  BY DEF SocketInv

(* Every step keeps the part on the lock and the listeners. *)
LEMMA SocketNext == TypeOK /\ SocketInv /\ JudgeInv /\ [Next]_vars => SocketInv'
  <1> SUFFICES ASSUME TypeOK, SocketInv, JudgeInv, [Next]_vars PROVE SocketInv'
    OBVIOUS
  <1> USE Constants, GotoMoves DEF TypeOK, SocketInv, JudgeInv, Judged, socket, host, At, Alive, Holding, Points, PastBind, Listening, Working, Progress
  <1> DEFINE Act(d) == Start(d) \/ StartStep(d) \/ ServeStep(d) \/ EndStep(d)
  <1>0. CASE UNCHANGED vars
    BY <1>0 DEF vars, adapterVars
  <1>1. ASSUME NEW d \in Daemons, Act(d) PROVE SocketInv'
    <2>1. CASE Start(d)
      <3>1. proc[d].pc = "unborn" /\ proc'[d].pc = "lock" /\ \A e \in Daemons \ {d} : proc'[e] = proc[e]
        BY <2>1 DEF Start
      <3>2. UNCHANGED <<lock, path, listener>>
        BY <2>1 DEF Start
      <3> QED
        BY <3>1, <3>2, SocketKept
    <2>2. CASE AcquireLock(d)
      <3>1. CASE lock = None
        <4>1. \A e \in Daemons : proc[e].pc \notin Holding
          BY <3>1
        <4>2. proc[d].pc = "lock" /\ proc'[d].pc = "inspect" /\ \A e \in Daemons \ {d} : proc'[e] = proc[e]
          BY <2>2, <3>1 DEF AcquireLock
        <4>3. lock' = d /\ UNCHANGED <<path, listener>>
          BY <2>2, <3>1 DEF AcquireLock
        <4>4. \A e \in Daemons : listener[e] = None /\ proc[e].pc \notin PastBind
          BY <4>1
        <4>5. \A e \in Daemons : proc'[e].pc \in Holding => e = d
          BY <4>1, <4>2
        <4>6. \A e \in Daemons : proc'[e].pc \notin PastBind
          BY <4>2, <4>4
        <4> QED
          BY <4>3, <4>4, <4>5, <4>6
      <3>2. CASE lock # None
        <4>1. proc[d].pc = "lock" /\ proc'[d].pc = "dead" /\ \A e \in Daemons \ {d} : proc'[e] = proc[e]
          BY <2>2, <3>2, GoneFields DEF AcquireLock
        <4>2. UNCHANGED <<lock, path, listener>>
          BY <2>2, <3>2 DEF AcquireLock
        <4> QED
          BY <4>1, <4>2, SocketKept
      <3> QED
        BY <3>1, <3>2
    <2>3. CASE Inspect(d)
      BY <2>3 DEF Inspect
    <2>4. CASE ConnectOk(d)
      BY <2>4 DEF ConnectOk, Answered
    <2>5. CASE ConnectStale(d)
      BY <2>5, SMTT(30) DEF ConnectStale
    <2>6. CASE ConnectUnclear(d)
      <3>1. proc[d].pc = "connect" /\ proc'[d].pc = "unlock" /\ \A e \in Daemons \ {d} : proc'[e] = proc[e]
        BY <2>6 DEF ConnectUnclear
      <3>2. UNCHANGED <<lock, path, listener>>
        BY <2>6 DEF ConnectUnclear
      <3> QED
        BY <3>1, <3>2, SocketKept, ZenonT(40)
    <2>7. CASE Recheck(d)
      <3>1. proc[d].pc = "recheck" /\ proc'[d].pc \in {"remove", "unlock"} /\ \A e \in Daemons \ {d} : proc'[e] = proc[e]
        BY <2>7 DEF Recheck
      <3>2. UNCHANGED <<lock, path, listener>>
        BY <2>7 DEF Recheck
      <3> QED
        BY <3>1, <3>2, SocketKept
    <2>8. CASE Remove(d)
      BY <2>8 DEF Remove
    <2>9. CASE Bind(d)
      <3>1. CASE path # None
        <4>1. proc[d].pc = "bind" /\ proc'[d].pc = "unlock" /\ \A e \in Daemons \ {d} : proc'[e] = proc[e]
          BY <2>9, <3>1 DEF Bind
        <4>2. UNCHANGED <<lock, path, listener>>
          BY <2>9, <3>1 DEF Bind
        <4> QED
          BY <4>1, <4>2, SocketKept, ZenonT(40)
      <3>2. CASE path = None
        <4>1. PICK i \in Inodes : /\ path' = i /\ listener' = [listener EXCEPT ![d] = i]
                                  /\ proc' = [proc EXCEPT ![d] = [Fresh EXCEPT !.pc = "load", !.ident = i]]
          BY <2>9, <3>2 DEF Bind, UnusedInodes
        <4>2. proc[d].pc = "bind" /\ proc'[d].pc = "load" /\ \A e \in Daemons \ {d} : proc'[e] = proc[e]
          <5>1. proc[d].pc = "bind"
            BY <2>9 DEF Bind
          <5> QED
            BY <5>1, <4>1, BoundFields
        <4>3. lock = d /\ lock' = d
          BY <2>9, <4>2 DEF Bind
        <4>4. listener[Legacy] = None /\ \A e \in Daemons \ {d} : proc[e].pc \notin Holding /\ listener[e] = None
          BY <3>2, <4>3
        <4>5. listener'[d] = i /\ \A o \in (Daemons \cup {Legacy}) \ {d} : listener'[o] = listener[o]
          BY <4>1
        <4> QED
          BY <4>1, <4>2, <4>3, <4>4, <4>5
      <3> QED
        BY <3>1, <3>2
    <2>10. CASE Load(d)
      <3>1. proc[d].pc = "load" /\ proc'[d].pc \in {"close", "sweep"} /\ \A e \in Daemons \ {d} : proc'[e] = proc[e]
        BY <2>10 DEF Load
      <3>2. UNCHANGED <<lock, path, listener>>
        BY <2>10 DEF Load
      <3> QED
        BY <3>1, <3>2, SocketKept
    <2>11. CASE SweepRemove(d)
      <3>1. proc[d].pc = "sweep" /\ proc'[d].pc = "sweep" /\ \A e \in Daemons \ {d} : proc'[e] = proc[e]
        BY <2>11 DEF SweepRemove
      <3>2. UNCHANGED <<lock, path, listener>>
        BY <2>11 DEF SweepRemove
      <3> QED
        BY <3>1, <3>2, SocketKept
    <2>12. CASE SweepGivesUp(d)
      BY <2>12 DEF SweepGivesUp
    <2>13. CASE SweepDone(d)
      BY <2>13 DEF SweepDone
    <2>14. CASE MakeDir(d)
      BY <2>14 DEF MakeDir
    <2>15. CASE WriteMarker(d)
      BY <2>15, SMTT(30) DEF WriteMarker
    <2>16. CASE Accept(d)
      BY <2>16 DEF Accept
    <2>17. CASE Dispatch(d)
      BY <2>17 DEF Dispatch
    <2>18. CASE EndRequest(d)
      BY <2>18 DEF EndRequest
    <2>19. CASE Shutdown(d)
      BY <2>19 DEF Shutdown, CloseListeners
    <2>20. CASE ListenFails(d)
      <3>1. proc[d].pc = "serving" /\ proc'[d].pc = "cleanup" /\ \A e \in Daemons \ {d} : proc'[e] = proc[e]
        BY <2>20 DEF ListenFails
      <3>2. UNCHANGED <<lock, path, listener>>
        BY <2>20 DEF ListenFails
      <3> QED
        BY <3>1, <3>2, SocketKept
    <2>21. CASE Drained(d)
      BY <2>21 DEF Drained, UnlinkOwned
    <2>22. CASE TornDown(d)
      <3>1. proc[d].pc = "teardown" /\ proc'[d].pc = "cleanup" /\ \A e \in Daemons \ {d} : proc'[e] = proc[e]
        BY <2>22 DEF TornDown
      <3>2. UNCHANGED <<lock, path, listener>>
        BY <2>22 DEF TornDown
      <3> QED
        BY <3>1, <3>2, SocketKept
    <2>23. CASE Cleanup(d)
      BY <2>23, SMTT(30) DEF Cleanup, AfterCleanup
    <2>24. CASE Close(d)
      BY <2>24, SMTT(30) DEF Close, UnlinkOwned, CloseListeners
    <2>25. CASE Unlock(d)
      <3>1. proc[d].pc \in {"unlock", "active"} /\ proc'[d].pc = "dead" /\ \A e \in Daemons \ {d} : proc'[e] = proc[e]
        BY <2>25, GoneFields DEF Unlock
      <3>2. UNCHANGED <<path, listener>> /\ lock = d
        BY <2>25 DEF Unlock
      <3>3. \A e \in Daemons \ {d} : proc[e].pc \notin Holding
        BY <3>2
      <3>4. \A e \in Daemons : proc'[e].pc \notin Holding
        BY <3>1, <3>3
      <3>5. \A e \in Daemons : listener'[e] = None /\ proc'[e].pc \notin PastBind
        BY <3>1, <3>2, <3>3, <3>4
      <3> QED
        BY <3>2, <3>4, <3>5
    <2>26. ASSUME NEW q \in Daemons, SweepPick(d, q) PROVE SocketInv'
      BY <2>26 DEF SweepPick
    <2>27. ASSUME NEW k \in Kinds, StartAdapter(d, k) PROVE SocketInv'
      BY <2>27 DEF StartAdapter
    <2> QED
      BY <1>1, <2>1, <2>2, <2>3, <2>4, <2>5, <2>6, <2>7, <2>8, <2>9, <2>10, <2>11, <2>12, <2>13, <2>14, <2>15, <2>16, <2>17, <2>18, <2>19, <2>20, <2>21, <2>22, <2>23, <2>24, <2>25, <2>26, <2>27 DEF StartStep, ServeStep, EndStep
  <1>2. ASSUME NEW d \in Daemons, Adapters(d) \/ Children(d) PROVE SocketInv'
    BY <1>2 DEF Adapters, Children
  <1>3. ASSUME NEW d \in Daemons, Crash(d) PROVE SocketInv'
    BY <1>3 DEF Crash, CloseListeners, Gone, Fresh
  <1>4. ASSUME NEW i \in Inodes, DyingEnds(i) PROVE SocketInv'
    BY <1>4 DEF DyingEnds
  <1>5. CASE LegacyEnds
    BY <1>5 DEF LegacyEnds, CloseListeners
  <1>6. CASE Reboot
    BY <1>6 DEF Reboot, Gone, Fresh
  <1> QED
    BY <1>0, <1>1, <1>2, <1>3, <1>4, <1>5, <1>6 DEF Next

(* While one daemon holds the lock the others have not got to the socket. *)
LEMMA OthersIdle ==
    ASSUME TypeOK, SocketInv, NEW d \in Daemons, proc[d].pc \in Holding, NEW e \in Daemons \ {d}
    PROVE  proc[e].pc \in {"unborn", "lock", "dead"} /\ listener[e] = None
  BY DEF TypeOK, SocketInv, Progress, Holding, Listening, Points

(* A step of the daemon that holds the lock, to where nothing is judged. *)
LEMMA JudgeElsewhere ==
    ASSUME TypeOK, SocketInv, JudgeInv, NEW d \in Daemons, proc[d].pc \in Holding,
           \A e \in Daemons \ {d} : proc'[e] = proc[e],
           proc'[d].pc \in {"bind", "unlock", "dead"} \cup PastBind
    PROVE  JudgeInv'
  <1>1. ASSUME NEW e \in Daemons \ {d} PROVE proc'[e].pc \in {"unborn", "lock", "dead"} /\ proc'[e].hits = proc[e].hits
    BY <1>1, OthersIdle
  <1> QED
    BY <1>1 DEF JudgeInv, Judged, PastBind, Listening, Working

(* A step of the daemon that holds the lock, its own record being right. *)
LEMMA JudgeHere ==
    ASSUME TypeOK, SocketInv, JudgeInv, NEW d \in Daemons, proc[d].pc \in Holding,
           \A e \in Daemons \ {d} : proc'[e] = proc[e], Judged(d)'
    PROVE  JudgeInv'
  <1>1. ASSUME NEW e \in Daemons \ {d} PROVE proc'[e].pc \in {"unborn", "lock", "dead"} /\ proc'[e].hits = proc[e].hits
    BY <1>1, OthersIdle
  <1>2. ASSUME NEW e \in Daemons \ {d} PROVE Judged(e)'
    BY <1>1, <1>2 DEF JudgeInv, Judged
  <1> QED
    BY <1>2 DEF JudgeInv

(* Every step keeps what is known of the inspected socket. *)
LEMMA JudgeNext == TypeOK /\ SocketInv /\ JudgeInv /\ [Next]_vars => JudgeInv'
  <1> SUFFICES ASSUME TypeOK, SocketInv, JudgeInv, [Next]_vars PROVE JudgeInv'
    OBVIOUS
  <1> USE Constants, GotoMoves DEF TypeOK, JudgeInv, Judged, socket, host, At
  <1> DEFINE Act(d) == Start(d) \/ StartStep(d) \/ ServeStep(d) \/ EndStep(d)
  <1>0. CASE UNCHANGED vars
    BY <1>0 DEF vars, adapterVars
  <1>1. ASSUME NEW d \in Daemons, Act(d) PROVE JudgeInv'
    <2>1. CASE Start(d)
      BY <2>1 DEF Start
    <2>2. CASE AcquireLock(d)
      <3>1. UNCHANGED <<path, listener, dying>> /\ proc[d].pc = "lock" /\ \A e \in Daemons \ {d} : proc'[e] = proc[e]
        BY <2>2 DEF AcquireLock
      <3>2. proc'[d].pc = "dead" \/ (proc'[d].pc = "inspect" /\ proc'[d].hits = proc[d].hits)
        BY <2>2, GoneFields DEF AcquireLock
      <3> QED
        BY <3>1, <3>2
    <2>3. CASE Inspect(d)
      <3>1. UNCHANGED <<path, listener, dying>> /\ proc[d].pc = "inspect" /\ \A e \in Daemons \ {d} : proc'[e] = proc[e]
        BY <2>3 DEF Inspect
      <3>2. CASE path \in Inodes
        <4>1. proc'[d].pc = "connect" /\ proc'[d].ident = path /\ proc'[d].hits = proc[d].hits
          BY <2>3, <3>2 DEF Inspect, Progress
        <4>2. dying[path] <= DyingConnects /\ proc[d].hits = 0 /\ dying[path] \in Nat
          BY <3>1, <3>2
        <4> QED
          BY <3>1, <3>2, <4>1, <4>2
      <3>3. CASE path \notin Inodes
        <4>1. proc'[d].pc \in {"bind", "unlock"}
          BY <2>3, <3>3 DEF Inspect, Progress
        <4> QED
          BY <3>1, <4>1
      <3> QED
        BY <3>2, <3>3
    <2>4. CASE ConnectOk(d)
      <3>1. /\ proc[d].pc = "connect" /\ path \in Inodes /\ path = proc[d].ident
            /\ Served(path) \/ dying[path] > 0
        BY <2>4 DEF ConnectOk, Answered
      <3>2. UNCHANGED <<path, listener>> /\ dying' = [dying EXCEPT ![path] = IF dying[path] > 0 THEN dying[path] - 1 ELSE 0]
        BY <2>4 DEF ConnectOk, Answered, socket
      <3>3. proc'[d].ident = proc[d].ident /\ proc'[d].met = Met(d) /\ \A e \in Daemons \ {d} : proc'[e] = proc[e]
        BY <2>4 DEF ConnectOk, Progress
      <3>4. CASE proc[d].hits + 1 >= Confirmations
        <4>1. proc'[d].pc = "active"
          BY <2>4, <3>4 DEF ConnectOk, Progress
        <4>2. Met(d)
          <5> SUFFICES ASSUME ~proc[d].met, ~Served(path) PROVE FALSE
            BY DEF Met
          <5>1. proc[d].hits + dying[path] <= DyingConnects /\ dying[path] > 0
            BY <3>1
          <5>2. proc[d].hits \in Nat /\ dying[path] \in Nat
            BY <3>1 DEF Progress
          <5> QED
            BY <5>1, <5>2, <3>4
        <4>3. Judged(d)'
          BY <3>3, <4>1, <4>2
        <4> QED
          BY <3>1, <3>3, <4>3, JudgeHere DEF Holding, Points
      <3>5. CASE proc[d].hits + 1 < Confirmations
        <4>1. proc'[d].pc = "connect" /\ proc'[d].hits = proc[d].hits + 1
          <5>1. ~(proc[d].hits + 1 >= Confirmations)
            BY <3>5 DEF Progress
          <5>2. proc' = [proc EXCEPT ![d].hits = proc[d].hits + 1, ![d].met = Met(d)]
            BY <2>4, <5>1 DEF ConnectOk
          <5> QED
            BY <3>1, <5>2 DEF Progress
        <4>2. ASSUME ~Met(d)
              PROVE  /\ proc'[d].hits + dying'[path] <= DyingConnects
                     /\ listener[Legacy] = None
          <5>1. ~proc[d].met /\ ~Served(path) /\ dying[path] > 0
            BY <4>2, <3>1 DEF Met
          <5>2. proc[d].hits + dying[path] <= DyingConnects /\ dying'[path] = dying[path] - 1
            BY <3>1, <3>2, <5>1
          <5>3. proc[d].hits \in Nat /\ dying[path] \in Nat
            BY <3>1 DEF Progress
          <5>4. listener[Legacy] = None
            BY <3>1, <5>1 DEF SocketInv, Served
          <5> QED
            BY <4>1, <5>1, <5>2, <5>3, <5>4
        <4>3. Judged(d)'
          BY <3>1, <3>2, <3>3, <4>1, <4>2
        <4> QED
          BY <3>1, <3>3, <4>3, JudgeHere DEF Holding, Points
      <3> QED
        BY <3>4, <3>5 DEF Progress
    <2>5. CASE ConnectStale(d)
      <3>1. proc[d].pc = "connect" /\ path \in Inodes /\ ~Served(path) /\ UNCHANGED <<path, listener, dying>>
        BY <2>5 DEF ConnectStale
      <3>2. proc'[d].pc = "recheck" /\ proc'[d].ident = proc[d].ident /\ \A e \in Daemons \ {d} : proc'[e] = proc[e]
        BY <2>5 DEF ConnectStale
      <3>3. listener[Legacy] = None
        BY <3>1 DEF SocketInv, Served
      <3> QED
        BY <3>1, <3>2, <3>3
    <2>6. CASE ConnectUnclear(d)
      <3>1. proc[d].pc = "connect" /\ proc'[d].pc \in {"unlock"} /\ \A e \in Daemons \ {d} : proc'[e] = proc[e]
        BY <2>6 DEF ConnectUnclear
      <3> QED
        BY <3>1, JudgeElsewhere DEF Holding, Points, PastBind, Listening, Working
    <2>7. CASE Recheck(d)
      <3>1. proc[d].pc = "recheck" /\ UNCHANGED <<path, listener, dying>>
        BY <2>7 DEF Recheck
      <3>2. proc'[d].pc \in {"remove", "unlock"} /\ proc'[d].ident = proc[d].ident /\ \A e \in Daemons \ {d} : proc'[e] = proc[e]
        BY <2>7 DEF Recheck
      <3> QED
        BY <3>1, <3>2
    <2>8. CASE Remove(d)
      <3>1. proc[d].pc = "remove" /\ proc'[d].pc \in {"unlock", "bind"} /\ \A e \in Daemons \ {d} : proc'[e] = proc[e]
        BY <2>8 DEF Remove
      <3> QED
        BY <3>1, JudgeElsewhere DEF Holding, Points, PastBind, Listening, Working
    <2>9. CASE Bind(d)
      <3>1. proc[d].pc = "bind" /\ proc'[d].pc \in {"unlock", "load"} /\ \A e \in Daemons \ {d} : proc'[e] = proc[e]
        <4>1. CASE path # None
          BY <2>9, <4>1 DEF Bind
        <4>2. CASE path = None
          <5>1. PICK i \in Inodes : proc' = [proc EXCEPT ![d] = [Fresh EXCEPT !.pc = "load", !.ident = i]]
            BY <2>9, <4>2 DEF Bind, UnusedInodes
          <5>2. proc[d].pc = "bind"
            BY <2>9 DEF Bind
          <5> QED
            BY <5>1, <5>2, BoundFields
        <4> QED
          BY <4>1, <4>2
      <3> QED
        BY <3>1, JudgeElsewhere DEF Holding, Points, PastBind, Listening, Working
    <2>10. CASE Load(d)
      <3>1. proc[d].pc = "load" /\ proc'[d].pc \in {"close", "sweep"} /\ \A e \in Daemons \ {d} : proc'[e] = proc[e]
        BY <2>10 DEF Load, Progress
      <3> QED
        BY <3>1, JudgeElsewhere DEF Holding, Points, PastBind, Listening, Working
    <2>11. CASE SweepRemove(d)
      <3>1. proc[d].pc = "sweep" /\ proc'[d].pc \in {"sweep"} /\ \A e \in Daemons \ {d} : proc'[e] = proc[e]
        BY <2>11 DEF SweepRemove, Progress
      <3> QED
        BY <3>1, JudgeElsewhere DEF Holding, Points, PastBind, Listening, Working
    <2>12. CASE SweepGivesUp(d)
      <3>1. proc[d].pc = "sweep" /\ proc'[d].pc \in {"sweep"} /\ \A e \in Daemons \ {d} : proc'[e] = proc[e]
        BY <2>12 DEF SweepGivesUp, Progress
      <3> QED
        BY <3>1, JudgeElsewhere DEF Holding, Points, PastBind, Listening, Working
    <2>13. CASE SweepDone(d)
      <3>1. proc[d].pc = "sweep" /\ proc'[d].pc \in {"mkdir"} /\ \A e \in Daemons \ {d} : proc'[e] = proc[e]
        BY <2>13 DEF SweepDone
      <3> QED
        BY <3>1, JudgeElsewhere DEF Holding, Points, PastBind, Listening, Working
    <2>14. CASE MakeDir(d)
      <3>1. proc[d].pc = "mkdir" /\ proc'[d].pc \in {"marker"} /\ \A e \in Daemons \ {d} : proc'[e] = proc[e]
        BY <2>14 DEF MakeDir
      <3> QED
        BY <3>1, JudgeElsewhere DEF Holding, Points, PastBind, Listening, Working
    <2>15. CASE WriteMarker(d)
      <3>1. proc[d].pc = "marker" /\ proc'[d].pc \in {"marker", "serving", "close"} /\ \A e \in Daemons \ {d} : proc'[e] = proc[e]
        BY <2>15 DEF WriteMarker
      <3> QED
        BY <3>1, JudgeElsewhere DEF Holding, Points, PastBind, Listening, Working
    <2>16. CASE Accept(d)
      BY <2>16 DEF Accept
    <2>17. CASE Dispatch(d)
      BY <2>17 DEF Dispatch
    <2>18. CASE EndRequest(d)
      BY <2>18 DEF EndRequest
    <2>19. CASE Shutdown(d)
      <3>1. proc[d].pc = "serving" /\ proc'[d].pc \in {"draining"} /\ \A e \in Daemons \ {d} : proc'[e] = proc[e]
        BY <2>19 DEF Shutdown
      <3> QED
        BY <3>1, JudgeElsewhere DEF Holding, Points, PastBind, Listening, Working
    <2>20. CASE ListenFails(d)
      <3>1. proc[d].pc = "serving" /\ proc'[d].pc \in {"cleanup"} /\ \A e \in Daemons \ {d} : proc'[e] = proc[e]
        BY <2>20 DEF ListenFails
      <3> QED
        BY <3>1, JudgeElsewhere DEF Holding, Points, PastBind, Listening, Working
    <2>21. CASE Drained(d)
      <3>1. proc[d].pc = "draining" /\ proc'[d].pc \in {"teardown"} /\ \A e \in Daemons \ {d} : proc'[e] = proc[e]
        BY <2>21 DEF Drained
      <3> QED
        BY <3>1, JudgeElsewhere DEF Holding, Points, PastBind, Listening, Working
    <2>22. CASE TornDown(d)
      <3>1. proc[d].pc = "teardown" /\ proc'[d].pc \in {"cleanup"} /\ \A e \in Daemons \ {d} : proc'[e] = proc[e]
        BY <2>22 DEF TornDown
      <3> QED
        BY <3>1, JudgeElsewhere DEF Holding, Points, PastBind, Listening, Working
    <2>23. CASE Cleanup(d)
      <3>1. proc[d].pc = "cleanup" /\ proc'[d].pc \in {"cleanup", "unlock", "close"} /\ \A e \in Daemons \ {d} : proc'[e] = proc[e]
        BY <2>23 DEF Cleanup, AfterCleanup
      <3> QED
        BY <3>1, JudgeElsewhere DEF Holding, Points, PastBind, Listening, Working
    <2>24. CASE Close(d)
      <3>1. proc[d].pc = "close" /\ proc'[d].pc \in {"unlock"} /\ \A e \in Daemons \ {d} : proc'[e] = proc[e]
        BY <2>24 DEF Close
      <3> QED
        BY <3>1, JudgeElsewhere DEF Holding, Points, PastBind, Listening, Working
    <2>25. CASE Unlock(d)
      <3>1. proc[d].pc \in {"unlock", "active"} /\ proc'[d].pc = "dead" /\ \A e \in Daemons \ {d} : proc'[e] = proc[e]
        BY <2>25, GoneFields DEF Unlock
      <3> QED
        BY <3>1, JudgeElsewhere DEF Holding, Points
    <2>26. ASSUME NEW q \in Daemons, SweepPick(d, q) PROVE JudgeInv'
      <3>1. proc[d].pc = "sweep" /\ proc'[d].pc = "sweep" /\ \A e \in Daemons \ {d} : proc'[e] = proc[e]
        BY <2>26 DEF SweepPick, Progress
      <3> QED
        BY <3>1, JudgeElsewhere DEF Holding, Points, PastBind, Listening, Working
    <2>27. ASSUME NEW k \in Kinds, StartAdapter(d, k) PROVE JudgeInv'
      BY <2>27 DEF StartAdapter
    <2> QED
      BY <1>1, <2>1, <2>2, <2>3, <2>4, <2>5, <2>6, <2>7, <2>8, <2>9, <2>10, <2>11, <2>12, <2>13, <2>14, <2>15, <2>16, <2>17, <2>18, <2>19, <2>20, <2>21, <2>22, <2>23, <2>24, <2>25, <2>26, <2>27 DEF StartStep, ServeStep, EndStep
  <1>2. ASSUME NEW d \in Daemons, Adapters(d) \/ Children(d) PROVE JudgeInv'
    BY <1>2 DEF Adapters, Children
  <1>3. ASSUME NEW d \in Daemons, Crash(d) PROVE JudgeInv'
    <2>1. Alive(d) /\ proc'[d].pc = "dead" /\ \A e \in Daemons \ {d} : proc'[e] = proc[e]
      BY <1>3, GoneFields DEF Crash
    <2>2. CASE proc[d].pc \in Holding
      BY <2>1, <2>2, JudgeElsewhere
    <2>3. CASE proc[d].pc \notin Holding
      <3>1. listener[d] = None
        BY <2>3 DEF SocketInv, Holding, Listening, Points
      <3>2. UNCHANGED <<path, listener, dying>>
        BY <1>3, <3>1 DEF Crash, CloseListeners
      <3> QED
        BY <2>1, <3>2
    <2> QED
      BY <2>2, <2>3
  <1>4. ASSUME NEW i \in Inodes, DyingEnds(i) PROVE JudgeInv'
    <2>1. UNCHANGED <<proc, path, listener>> /\ \A j \in Inodes : dying'[j] \in Nat /\ dying'[j] <= dying[j]
      BY <1>4 DEF DyingEnds
    <2>2. ASSUME NEW e \in Daemons, proc[e].ident \in Inodes
          PROVE  proc[e].hits + dying[proc[e].ident] <= DyingConnects => proc[e].hits + dying'[proc[e].ident] <= DyingConnects
      <3>1. proc[e].hits \in Nat /\ dying[proc[e].ident] \in Nat
        BY <2>2 DEF Progress
      <3> QED
        BY <2>1, <2>2, <3>1
    <2> QED
      BY <2>1, <2>2
  <1>5. CASE LegacyEnds
    <2>1. UNCHANGED proc /\ path' \in {path, None} /\ listener[Legacy] # None /\ listener'[Legacy] = None
      BY <1>5 DEF LegacyEnds, CloseListeners
    <2>2. \A i \in Inodes : dying'[i] \in Nat /\ dying'[i] <= DyingConnects
      BY <1>5, CloseTypes DEF LegacyEnds
    <2>3. \A e \in Daemons : proc[e].hits \in Nat
      BY DEF Progress
    <2>4. ASSUME NEW e \in Daemons PROVE Judged(e)'
      BY <2>1, <2>2, <2>3
    <2> QED
      BY <2>4
  <1>6. CASE Reboot
    <2>1. \A e \in Daemons : proc'[e].pc = "dead" \/ (proc'[e] = proc[e] /\ proc[e].pc = "unborn")
      BY <1>6, GoneFields DEF Reboot, Alive
    <2> QED
      BY <2>1
  <1> QED
    BY <1>0, <1>1, <1>2, <1>3, <1>4, <1>5, <1>6 DEF Next

-----------------------------------------------------------------------------
(* Handles, children and requests.                                          *)

(* A daemon that an action does not concern keeps its handle. *)
LEMMA HandledSame ==
    ASSUME NEW d \in Daemons, Handled(d),
           proc'[d].pc = proc[d].pc, adapter'[d] = adapter[d], child'[d] = child[d],
           port'[d] = port[d], request'[d] = request[d]
    PROVE  Handled(d)'
  BY DEF Handled

(* A step of one daemon's program counter that stays within what its       *)
(* handle and its request ask for.                                         *)
LEMMA HandledMoves ==
    ASSUME TypeOK, HandleInv, NEW d \in Daemons, UNCHANGED <<adapter, child, port, request>>,
           \A e \in Daemons \ {d} : proc'[e] = proc[e],
           proc[d].pc \in Working /\ adapter[d].phase # "none" => proc'[d].pc \in Working,
           proc[d].pc \in {"serving", "draining"} /\ request[d] # "none"
              => proc'[d].pc \in {"serving", "draining"}
    PROVE  HandleInv'
  <1>1. Handled(d)'
    BY DEF HandleInv, Handled
  <1>2. ASSUME NEW e \in Daemons \ {d} PROVE Handled(e)'
    BY <1>2 DEF HandleInv, Handled
  <1> QED
    BY <1>1, <1>2 DEF HandleInv

(* A step of one handle, the program counters staying. *)
LEMMA HandledSteps ==
    ASSUME TypeOK, HandleInv, NEW d \in Daemons, UNCHANGED <<proc, request>>,
           \A e \in Daemons \ {d} : adapter'[e] = adapter[e] /\ child'[e] = child[e] /\ port'[e] = port[e],
           Handled(d)'
    PROVE  HandleInv'
  <1>1. ASSUME NEW e \in Daemons \ {d} PROVE Handled(e)'
    BY <1>1, HandledSame DEF HandleInv
  <1> QED
    BY <1>1 DEF HandleInv

(* An adapter's own steps keep its handle in order. *)
LEMMA AdapterHandled ==
    ASSUME TypeOK, HandleInv, NEW d \in Daemons, UNCHANGED <<proc, request>>,
           AdapterStep(d) \/ ChildStep(d)
    PROVE  HandleInv'
  <1> USE DEF TypeOK, AdapterTypeOK
  <1>1. \A e \in Daemons \ {d} : adapter'[e] = adapter[e] /\ child'[e] = child[e] /\ port'[e] = port[e]
    BY DEF AdapterStep, ChildStep, WritePrivate, StartFails, Spawn, CheckOwner, Connect, BeginStop,
           FinishStop, ChildExits, ChildBinds, PortTaken, Phase
  <1>2. Handled(d)
    BY DEF HandleInv
  <1>3. ASSUME WritePrivate(d) PROVE Handled(d)'
    BY <1>2, <1>3 DEF WritePrivate, Handled, Phase
  <1>4. ASSUME StartFails(d) PROVE Handled(d)'
    BY <1>2, <1>4 DEF StartFails, Handled, NoHandle
  <1>5. ASSUME Spawn(d) PROVE Handled(d)'
    BY <1>2, <1>5 DEF Spawn, Handled, Phase
  <1>6. ASSUME CheckOwner(d) PROVE Handled(d)'
    BY <1>2, <1>6 DEF CheckOwner, Handled, Phase, ChildOwnsListeners
  <1>7. ASSUME Connect(d) PROVE Handled(d)'
    BY <1>2, <1>7 DEF Connect, Handled, Phase
  <1>8. ASSUME BeginStop(d) PROVE Handled(d)'
    BY <1>2, <1>8 DEF BeginStop, Handled, Phase
  <1>9. ASSUME FinishStop(d) PROVE Handled(d)'
    BY <1>2, <1>9 DEF FinishStop, Handled, NoHandle
  <1>10. ASSUME ChildExits(d) PROVE Handled(d)'
    BY <1>2, <1>10 DEF ChildExits, Handled
  <1>11. ASSUME NEW r \in Ports, ChildBinds(d, r) PROVE Handled(d)'
    BY <1>2, <1>11 DEF ChildBinds, Handled
  <1>12. ASSUME NEW r \in Ports, PortTaken(d, r) PROVE Handled(d)'
    BY <1>2, <1>12 DEF PortTaken, Handled
  <1>13. Handled(d)'
    BY <1>3, <1>4, <1>5, <1>6, <1>7, <1>8, <1>9, <1>10, <1>11, <1>12 DEF AdapterStep, ChildStep
  <1> QED
    BY <1>1, <1>13, HandledSteps

(* Every step keeps handles, children and requests in order. *)
LEMMA HandleNext == TypeOK /\ HandleInv /\ [Next]_vars => HandleInv'
  <1> SUFFICES ASSUME TypeOK, HandleInv, [Next]_vars PROVE HandleInv'
    OBVIOUS
  <1> USE Constants, GotoMoves DEF TypeOK, socket, host, At, adapterVars
  <1> DEFINE Act(d) == Start(d) \/ StartStep(d) \/ ServeStep(d) \/ EndStep(d)
  <1>0. CASE UNCHANGED vars
    BY <1>0 DEF vars, HandleInv, Handled
  <1>1. ASSUME NEW d \in Daemons, Act(d) PROVE HandleInv'
    <2>1. CASE Start(d)
      <3>1. proc[d].pc = "unborn" /\ \A e \in Daemons \ {d} : proc'[e] = proc[e]
        BY <2>1 DEF Start
      <3>2. UNCHANGED <<adapter, child, port, request>>
        BY <2>1 DEF Start
      <3> QED
        BY <3>1, <3>2, HandledMoves DEF Working
    <2>2. CASE AcquireLock(d)
      <3>1. proc[d].pc = "lock" /\ \A e \in Daemons \ {d} : proc'[e] = proc[e]
        BY <2>2 DEF AcquireLock
      <3>2. UNCHANGED <<adapter, child, port, request>>
        BY <2>2 DEF AcquireLock
      <3> QED
        BY <3>1, <3>2, HandledMoves DEF Working
    <2>3. CASE Inspect(d)
      <3>1. proc[d].pc = "inspect" /\ \A e \in Daemons \ {d} : proc'[e] = proc[e]
        BY <2>3 DEF Inspect
      <3>2. UNCHANGED <<adapter, child, port, request>>
        BY <2>3 DEF Inspect
      <3> QED
        BY <3>1, <3>2, HandledMoves DEF Working
    <2>4. CASE ConnectOk(d)
      <3>1. proc[d].pc = "connect" /\ \A e \in Daemons \ {d} : proc'[e] = proc[e]
        BY <2>4 DEF ConnectOk, Answered
      <3>2. UNCHANGED <<adapter, child, port, request>>
        BY <2>4 DEF ConnectOk, Answered
      <3> QED
        BY <3>1, <3>2, HandledMoves DEF Working
    <2>5. CASE ConnectStale(d)
      <3>1. proc[d].pc = "connect" /\ \A e \in Daemons \ {d} : proc'[e] = proc[e]
        BY <2>5 DEF ConnectStale
      <3>2. UNCHANGED <<adapter, child, port, request>>
        BY <2>5 DEF ConnectStale
      <3> QED
        BY <3>1, <3>2, HandledMoves DEF Working
    <2>6. CASE ConnectUnclear(d)
      <3>1. proc[d].pc = "connect" /\ \A e \in Daemons \ {d} : proc'[e] = proc[e]
        BY <2>6 DEF ConnectUnclear
      <3>2. UNCHANGED <<adapter, child, port, request>>
        BY <2>6 DEF ConnectUnclear
      <3> QED
        BY <3>1, <3>2, HandledMoves DEF Working
    <2>7. CASE Recheck(d)
      <3>1. proc[d].pc = "recheck" /\ \A e \in Daemons \ {d} : proc'[e] = proc[e]
        BY <2>7 DEF Recheck
      <3>2. UNCHANGED <<adapter, child, port, request>>
        BY <2>7 DEF Recheck
      <3> QED
        BY <3>1, <3>2, HandledMoves DEF Working
    <2>8. CASE Remove(d)
      <3>1. proc[d].pc = "remove" /\ \A e \in Daemons \ {d} : proc'[e] = proc[e]
        BY <2>8 DEF Remove
      <3>2. UNCHANGED <<adapter, child, port, request>>
        BY <2>8 DEF Remove
      <3> QED
        BY <3>1, <3>2, HandledMoves DEF Working
    <2>9. CASE Bind(d)
      <3>1. proc[d].pc = "bind" /\ \A e \in Daemons \ {d} : proc'[e] = proc[e]
        BY <2>9 DEF Bind
      <3>2. UNCHANGED <<adapter, child, port, request>>
        BY <2>9 DEF Bind
      <3> QED
        BY <3>1, <3>2, HandledMoves DEF Working
    <2>10. CASE Load(d)
      <3>1. proc[d].pc = "load" /\ \A e \in Daemons \ {d} : proc'[e] = proc[e]
        BY <2>10 DEF Load
      <3>2. UNCHANGED <<adapter, child, port, request>>
        BY <2>10 DEF Load
      <3> QED
        BY <3>1, <3>2, HandledMoves DEF Working
    <2>11. CASE SweepRemove(d)
      <3>1. proc[d].pc = "sweep" /\ \A e \in Daemons \ {d} : proc'[e] = proc[e]
        BY <2>11 DEF SweepRemove
      <3>2. UNCHANGED <<adapter, child, port, request>>
        BY <2>11 DEF SweepRemove
      <3> QED
        BY <3>1, <3>2, HandledMoves DEF Working
    <2>12. CASE SweepGivesUp(d)
      <3>1. proc[d].pc = "sweep" /\ \A e \in Daemons \ {d} : proc'[e] = proc[e]
        BY <2>12 DEF SweepGivesUp
      <3>2. UNCHANGED <<adapter, child, port, request>>
        BY <2>12 DEF SweepGivesUp
      <3> QED
        BY <3>1, <3>2, HandledMoves DEF Working
    <2>13. CASE SweepDone(d)
      <3>1. proc[d].pc = "sweep" /\ \A e \in Daemons \ {d} : proc'[e] = proc[e]
        BY <2>13 DEF SweepDone
      <3>2. UNCHANGED <<adapter, child, port, request>>
        BY <2>13 DEF SweepDone
      <3> QED
        BY <3>1, <3>2, HandledMoves DEF Working
    <2>14. CASE MakeDir(d)
      <3>1. proc[d].pc = "mkdir" /\ \A e \in Daemons \ {d} : proc'[e] = proc[e]
        BY <2>14 DEF MakeDir
      <3>2. UNCHANGED <<adapter, child, port, request>>
        BY <2>14 DEF MakeDir
      <3> QED
        BY <3>1, <3>2, HandledMoves DEF Working
    <2>15. CASE WriteMarker(d)
      <3>1. proc[d].pc = "marker" /\ \A e \in Daemons \ {d} : proc'[e] = proc[e]
        BY <2>15 DEF WriteMarker
      <3>2. UNCHANGED <<adapter, child, port, request>>
        BY <2>15 DEF WriteMarker
      <3> QED
        BY <3>1, <3>2, HandledMoves DEF Working
    <2>16. CASE Accept(d)
      BY <2>16 DEF Accept, HandleInv, Handled
    <2>17. CASE Dispatch(d)
      BY <2>17 DEF Dispatch, HandleInv, Handled
    <2>18. CASE EndRequest(d)
      BY <2>18 DEF EndRequest, HandleInv, Handled
    <2>19. CASE Shutdown(d)
      <3>1. proc[d].pc = "serving" /\ proc'[d].pc = "draining" /\ \A e \in Daemons \ {d} : proc'[e] = proc[e]
        BY <2>19 DEF Shutdown
      <3>2. UNCHANGED <<adapter, child, port, request>>
        BY <2>19 DEF Shutdown
      <3> QED
        BY <3>1, <3>2, HandledMoves DEF Working
    <2>20. CASE ListenFails(d)
      <3>1. proc[d].pc = "serving" /\ request[d] = "none" /\ adapter[d].phase = "none" /\ \A e \in Daemons \ {d} : proc'[e] = proc[e]
        BY <2>20 DEF ListenFails
      <3>2. UNCHANGED <<adapter, child, port, request>>
        BY <2>20 DEF ListenFails
      <3> QED
        BY <3>1, <3>2, HandledMoves DEF Working
    <2>21. CASE Drained(d)
      <3>1. proc[d].pc = "draining" /\ proc'[d].pc = "teardown" /\ request[d] = "none" /\ \A e \in Daemons \ {d} : proc'[e] = proc[e]
        BY <2>21 DEF Drained
      <3>2. UNCHANGED <<adapter, child, port, request>>
        BY <2>21 DEF Drained
      <3> QED
        BY <3>1, <3>2, HandledMoves DEF Working
    <2>22. CASE TornDown(d)
      <3>1. proc[d].pc = "teardown" /\ adapter[d].phase = "none" /\ \A e \in Daemons \ {d} : proc'[e] = proc[e]
        BY <2>22 DEF TornDown
      <3>2. UNCHANGED <<adapter, child, port, request>>
        BY <2>22 DEF TornDown
      <3> QED
        BY <3>1, <3>2, HandledMoves DEF Working
    <2>23. CASE Cleanup(d)
      <3>1. proc[d].pc = "cleanup" /\ \A e \in Daemons \ {d} : proc'[e] = proc[e]
        BY <2>23 DEF Cleanup, AfterCleanup
      <3>2. UNCHANGED <<adapter, child, port, request>>
        BY <2>23 DEF Cleanup, AfterCleanup
      <3> QED
        BY <3>1, <3>2, HandledMoves DEF Working
    <2>24. CASE Close(d)
      <3>1. proc[d].pc = "close" /\ \A e \in Daemons \ {d} : proc'[e] = proc[e]
        BY <2>24 DEF Close
      <3>2. UNCHANGED <<adapter, child, port, request>>
        BY <2>24 DEF Close
      <3> QED
        BY <3>1, <3>2, HandledMoves DEF Working
    <2>25. CASE Unlock(d)
      <3>1. proc[d].pc \in {"unlock", "active"} /\ \A e \in Daemons \ {d} : proc'[e] = proc[e]
        BY <2>25 DEF Unlock
      <3>2. UNCHANGED <<adapter, child, port, request>>
        BY <2>25 DEF Unlock
      <3> QED
        BY <3>1, <3>2, HandledMoves DEF Working
    <2>26. ASSUME NEW q \in Daemons, SweepPick(d, q) PROVE HandleInv'
      <3>1. proc[d].pc = "sweep" /\ \A e \in Daemons \ {d} : proc'[e] = proc[e]
        BY <2>26 DEF SweepPick
      <3>2. UNCHANGED <<adapter, child, port, request>>
        BY <2>26 DEF SweepPick
      <3> QED
        BY <3>1, <3>2, HandledMoves DEF Working
    <2>27. ASSUME NEW k \in Kinds, StartAdapter(d, k) PROVE HandleInv'
      <3>1. proc[d].pc \in {"serving", "draining"} /\ child[d] # "running"
        BY <2>27 DEF StartAdapter, Reserve, HandleInv, Handled
      <3>2. /\ UNCHANGED <<proc, request, child>> /\ adapter'[d].phase = "reserved"
            /\ \A e \in Daemons \ {d} : adapter'[e] = adapter[e] /\ port'[e] = port[e]
        BY <2>27 DEF StartAdapter, Reserve, AdapterTypeOK
      <3>3. Handled(d)'
        BY <3>1, <3>2 DEF HandleInv, Handled, Working
      <3> QED
        BY <3>2, <3>3, HandledSteps
    <2> QED
      BY <1>1, <2>1, <2>2, <2>3, <2>4, <2>5, <2>6, <2>7, <2>8, <2>9, <2>10, <2>11, <2>12, <2>13, <2>14, <2>15, <2>16, <2>17, <2>18, <2>19, <2>20, <2>21, <2>22, <2>23, <2>24, <2>25, <2>26, <2>27 DEF StartStep, ServeStep, EndStep
  <1>2. ASSUME NEW d \in Daemons, Adapters(d) \/ Children(d) PROVE HandleInv'
    BY <1>2, AdapterHandled DEF Adapters, Children
  <1>3. ASSUME NEW d \in Daemons, Crash(d) PROVE HandleInv'
    <2>1. /\ adapter'[d].phase = "none" /\ child'[d] = "none" /\ request'[d] = "none"
          /\ \A e \in Daemons \ {d} : /\ proc'[e] = proc[e] /\ adapter'[e] = adapter[e] /\ child'[e] = child[e]
                                      /\ port'[e] = port[e] /\ request'[e] = request[e]
      BY <1>3 DEF Crash, HandlesLost, NoHandle, AdapterTypeOK
    <2>2. Handled(d)'
      BY <2>1 DEF Handled
    <2>3. ASSUME NEW e \in Daemons \ {d} PROVE Handled(e)'
      BY <2>1, HandledSame DEF HandleInv
    <2> QED
      BY <2>2, <2>3 DEF HandleInv
  <1>4. ASSUME NEW i \in Inodes, DyingEnds(i) PROVE HandleInv'
    BY <1>4 DEF DyingEnds, HandleInv, Handled
  <1>5. CASE LegacyEnds
    BY <1>5 DEF LegacyEnds, HandleInv, Handled
  <1>6. CASE Reboot
    <2>1. \A e \in Daemons : adapter'[e].phase = "none" /\ child'[e] = "none" /\ request'[e] = "none"
      BY <1>6 DEF Reboot, HandlesLost, NoHandle
    <2> QED
      BY <2>1 DEF HandleInv, Handled
  <1> QED
    BY <1>0, <1>1, <1>2, <1>3, <1>4, <1>5, <1>6 DEF Next

-----------------------------------------------------------------------------
(* Identities.                                                              *)

(* A step that starts nobody and leaves the host alone. *)
LEMMA IdentityKept ==
    ASSUME IdentityInv, UNCHANGED host, \A e \in Daemons : Alive(e)' => Alive(e)
    PROVE  IdentityInv'
  BY DEF IdentityInv, host

(* A step of one daemon that is alive. *)
LEMMA IdentityMoves ==
    ASSUME IdentityInv, UNCHANGED host, NEW d \in Daemons, proc[d].pc \notin {"unborn", "dead"},
           \A e \in Daemons \ {d} : proc'[e] = proc[e]
    PROVE  IdentityInv'
  BY IdentityKept DEF Alive

(* Every step keeps the identities apart. *)
LEMMA IdentityNext == TypeOK /\ IdentityInv /\ [Next]_vars => IdentityInv'
  <1> SUFFICES ASSUME TypeOK, IdentityInv, [Next]_vars PROVE IdentityInv'
    OBVIOUS
  <1> USE Constants, GotoMoves DEF TypeOK, socket, At, adapterVars
  <1> DEFINE Act(d) == Start(d) \/ StartStep(d) \/ ServeStep(d) \/ EndStep(d)
  <1>0. CASE UNCHANGED vars
    BY <1>0, IdentityKept DEF vars, host, Alive
  <1>1. ASSUME NEW d \in Daemons, Act(d) PROVE IdentityInv'
    <2>1. CASE Start(d)
      <3>1. PICK p \in Pids : identity' = [identity EXCEPT ![d] = [boot |-> boot, pid |-> p, start |-> started]]
        BY <2>1 DEF Start
      <3>2. /\ identity'[d].boot = boot /\ identity'[d].start = started
            /\ \A e \in Daemons \ {d} : identity'[e] = identity[e]
        BY <3>1
      <3>3. UNCHANGED boot /\ started' = started + 1 /\ \A e \in Daemons \ {d} : proc'[e] = proc[e]
        BY <2>1 DEF Start
      <3>4. ASSUME NEW e \in Daemons
            PROVE  /\ Alive(e)' => identity'[e].boot = boot'
                   /\ identity'[e].boot <= boot'
                   /\ identity'[e].boot = boot' => identity'[e].start < started'
        <4>1. CASE e = d
          BY <4>1, <3>2, <3>3
        <4>2. CASE e # d
          <5>1. identity[e].start \in Nat
            OBVIOUS
          <5> QED
            BY <4>2, <5>1, <3>2, <3>3 DEF IdentityInv, Alive
        <4> QED
          BY <4>1, <4>2
      <3>5. ASSUME NEW e \in Daemons, NEW f \in Daemons, e # f,
                   identity'[e].boot = identity'[f].boot, identity'[e].boot # 0
            PROVE  identity'[e].start # identity'[f].start
        <4>1. \A g \in Daemons : identity[g].boot = boot => identity[g].start # started
          <5>1. \A g \in Daemons : identity[g].start \in Nat
            OBVIOUS
          <5> QED
            BY <5>1 DEF IdentityInv
        <4> QED
          BY <3>5, <3>2, <4>1 DEF IdentityInv
      <3> QED
        BY <3>4, <3>5 DEF IdentityInv
    <2>2. CASE AcquireLock(d)
      <3>1. proc[d].pc = "lock" /\ UNCHANGED host /\ \A e \in Daemons \ {d} : proc'[e] = proc[e]
        BY <2>2 DEF AcquireLock
      <3> QED
        BY <3>1, IdentityMoves
    <2>3. CASE Inspect(d)
      <3>1. proc[d].pc = "inspect" /\ UNCHANGED host /\ \A e \in Daemons \ {d} : proc'[e] = proc[e]
        BY <2>3 DEF Inspect
      <3> QED
        BY <3>1, IdentityMoves
    <2>4. CASE ConnectOk(d)
      <3>1. proc[d].pc = "connect" /\ UNCHANGED host /\ \A e \in Daemons \ {d} : proc'[e] = proc[e]
        BY <2>4 DEF ConnectOk, Answered
      <3> QED
        BY <3>1, IdentityMoves
    <2>5. CASE ConnectStale(d)
      <3>1. proc[d].pc = "connect" /\ UNCHANGED host /\ \A e \in Daemons \ {d} : proc'[e] = proc[e]
        BY <2>5 DEF ConnectStale
      <3> QED
        BY <3>1, IdentityMoves
    <2>6. CASE ConnectUnclear(d)
      <3>1. proc[d].pc = "connect" /\ UNCHANGED host /\ \A e \in Daemons \ {d} : proc'[e] = proc[e]
        BY <2>6 DEF ConnectUnclear
      <3> QED
        BY <3>1, IdentityMoves
    <2>7. CASE Recheck(d)
      <3>1. proc[d].pc = "recheck" /\ UNCHANGED host /\ \A e \in Daemons \ {d} : proc'[e] = proc[e]
        BY <2>7 DEF Recheck
      <3> QED
        BY <3>1, IdentityMoves
    <2>8. CASE Remove(d)
      <3>1. proc[d].pc = "remove" /\ UNCHANGED host /\ \A e \in Daemons \ {d} : proc'[e] = proc[e]
        BY <2>8 DEF Remove
      <3> QED
        BY <3>1, IdentityMoves
    <2>9. CASE Bind(d)
      <3>1. proc[d].pc = "bind" /\ UNCHANGED host /\ \A e \in Daemons \ {d} : proc'[e] = proc[e]
        BY <2>9 DEF Bind
      <3> QED
        BY <3>1, IdentityMoves
    <2>10. CASE Load(d)
      <3>1. proc[d].pc = "load" /\ UNCHANGED host /\ \A e \in Daemons \ {d} : proc'[e] = proc[e]
        BY <2>10 DEF Load
      <3> QED
        BY <3>1, IdentityMoves
    <2>11. CASE SweepRemove(d)
      <3>1. proc[d].pc = "sweep" /\ UNCHANGED host /\ \A e \in Daemons \ {d} : proc'[e] = proc[e]
        BY <2>11 DEF SweepRemove
      <3> QED
        BY <3>1, IdentityMoves
    <2>12. CASE SweepGivesUp(d)
      <3>1. proc[d].pc = "sweep" /\ UNCHANGED host /\ \A e \in Daemons \ {d} : proc'[e] = proc[e]
        BY <2>12 DEF SweepGivesUp
      <3> QED
        BY <3>1, IdentityMoves
    <2>13. CASE SweepDone(d)
      <3>1. proc[d].pc = "sweep" /\ UNCHANGED host /\ \A e \in Daemons \ {d} : proc'[e] = proc[e]
        BY <2>13 DEF SweepDone
      <3> QED
        BY <3>1, IdentityMoves
    <2>14. CASE MakeDir(d)
      <3>1. proc[d].pc = "mkdir" /\ UNCHANGED host /\ \A e \in Daemons \ {d} : proc'[e] = proc[e]
        BY <2>14 DEF MakeDir
      <3> QED
        BY <3>1, IdentityMoves
    <2>15. CASE WriteMarker(d)
      <3>1. proc[d].pc = "marker" /\ UNCHANGED host /\ \A e \in Daemons \ {d} : proc'[e] = proc[e]
        BY <2>15 DEF WriteMarker
      <3> QED
        BY <3>1, IdentityMoves
    <2>16. CASE Accept(d)
      BY <2>16, IdentityKept DEF Accept, Alive
    <2>17. CASE Dispatch(d)
      BY <2>17, IdentityKept DEF Dispatch, Alive
    <2>18. CASE EndRequest(d)
      BY <2>18, IdentityKept DEF EndRequest, Alive
    <2>19. CASE Shutdown(d)
      <3>1. proc[d].pc = "serving" /\ UNCHANGED host /\ \A e \in Daemons \ {d} : proc'[e] = proc[e]
        BY <2>19 DEF Shutdown
      <3> QED
        BY <3>1, IdentityMoves
    <2>20. CASE ListenFails(d)
      <3>1. proc[d].pc = "serving" /\ UNCHANGED host /\ \A e \in Daemons \ {d} : proc'[e] = proc[e]
        BY <2>20 DEF ListenFails
      <3> QED
        BY <3>1, IdentityMoves
    <2>21. CASE Drained(d)
      <3>1. proc[d].pc = "draining" /\ UNCHANGED host /\ \A e \in Daemons \ {d} : proc'[e] = proc[e]
        BY <2>21 DEF Drained
      <3> QED
        BY <3>1, IdentityMoves
    <2>22. CASE TornDown(d)
      <3>1. proc[d].pc = "teardown" /\ UNCHANGED host /\ \A e \in Daemons \ {d} : proc'[e] = proc[e]
        BY <2>22 DEF TornDown
      <3> QED
        BY <3>1, IdentityMoves
    <2>23. CASE Cleanup(d)
      <3>1. proc[d].pc = "cleanup" /\ UNCHANGED host /\ \A e \in Daemons \ {d} : proc'[e] = proc[e]
        BY <2>23 DEF Cleanup, AfterCleanup
      <3> QED
        BY <3>1, IdentityMoves
    <2>24. CASE Close(d)
      <3>1. proc[d].pc = "close" /\ UNCHANGED host /\ \A e \in Daemons \ {d} : proc'[e] = proc[e]
        BY <2>24 DEF Close
      <3> QED
        BY <3>1, IdentityMoves
    <2>25. CASE Unlock(d)
      <3>1. proc[d].pc \in {"unlock", "active"} /\ UNCHANGED host /\ \A e \in Daemons \ {d} : proc'[e] = proc[e]
        BY <2>25 DEF Unlock
      <3> QED
        BY <3>1, IdentityMoves
    <2>26. ASSUME NEW q \in Daemons, SweepPick(d, q) PROVE IdentityInv'
      <3>1. proc[d].pc = "sweep" /\ UNCHANGED host /\ \A e \in Daemons \ {d} : proc'[e] = proc[e]
        BY <2>26 DEF SweepPick
      <3> QED
        BY <3>1, IdentityMoves
    <2>27. ASSUME NEW k \in Kinds, StartAdapter(d, k) PROVE IdentityInv'
      BY <2>27, IdentityKept DEF StartAdapter, Alive
    <2> QED
      BY <1>1, <2>1, <2>2, <2>3, <2>4, <2>5, <2>6, <2>7, <2>8, <2>9, <2>10, <2>11, <2>12, <2>13, <2>14, <2>15, <2>16, <2>17, <2>18, <2>19, <2>20, <2>21, <2>22, <2>23, <2>24, <2>25, <2>26, <2>27 DEF StartStep, ServeStep, EndStep
  <1>2. ASSUME NEW d \in Daemons, Adapters(d) \/ Children(d) PROVE IdentityInv'
    BY <1>2, IdentityKept DEF Adapters, Children, Alive
  <1>3. ASSUME NEW d \in Daemons, Crash(d) PROVE IdentityInv'
    BY <1>3, IdentityMoves DEF Crash, Alive
  <1>4. ASSUME NEW i \in Inodes, DyingEnds(i) PROVE IdentityInv'
    BY <1>4, IdentityKept DEF DyingEnds, Alive
  <1>5. CASE LegacyEnds
    BY <1>5, IdentityKept DEF LegacyEnds, Alive
  <1>6. CASE Reboot
    <2>1. boot' = boot + 1 /\ UNCHANGED identity /\ \A e \in Daemons : ~Alive(e)'
      BY <1>6, GoneFields DEF Reboot, Alive
    <2>2. \A e \in Daemons : identity[e].boot \in Nat /\ identity[e].boot <= boot /\ boot \in Nat
      BY DEF IdentityInv
    <2>3. \A e \in Daemons : identity[e].boot <= boot' /\ identity[e].boot # boot'
      BY <2>1, <2>2
    <2> QED
      BY <2>1, <2>3 DEF IdentityInv
  <1> QED
    BY <1>0, <1>1, <1>2, <1>3, <1>4, <1>5, <1>6 DEF Next

-----------------------------------------------------------------------------
(* Directories and private files.                                           *)

(* A daemon that an action does not concern keeps its directory. *)
LEMMA KeptSame ==
    ASSUME NEW d \in Daemons, Kept(d), proc'[d].pc = proc[d].pc, dir'[d] = dir[d],
           files'[d] = files[d], adapter'[d] = adapter[d]
    PROVE  Kept(d)'
  BY DEF Kept

(* Where a daemon has no directory yet, or none any more. *)
Bare == Points \ (Working \cup {"cleanup", "marker", "dead"})

(* A program counter that moves between points with the same directory, or *)
(* to the end.                                                             *)
LEMMA KeptMoves ==
    ASSUME FilesInv, NEW d \in Daemons, UNCHANGED <<adapter, files, dir>>,
           \A e \in Daemons \ {d} : proc'[e] = proc[e], proc[d].pc # "dead",
           \/ proc[d].pc \in Bare /\ proc'[d].pc \in Bare \cup {"dead"}
           \/ proc[d].pc \in Working /\ proc'[d].pc \in Working \cup {"cleanup"}
    PROVE  FilesInv'
  <1>1. Kept(d)'
    BY DEF FilesInv, Kept, Bare, Working
  <1>2. ASSUME NEW e \in Daemons \ {d} PROVE Kept(e)'
    BY <1>2, KeptSame DEF FilesInv
  <1> QED
    BY <1>1, <1>2 DEF FilesInv

(* A step on the directory or the files of one daemon. *)
LEMMA KeptSteps ==
    ASSUME FilesInv, NEW d \in Daemons, Kept(d)',
           \A e \in Daemons \ {d} : /\ proc'[e].pc = proc[e].pc /\ adapter'[e] = adapter[e]
                                    /\ files'[e] = files[e] /\ dir'[e] = dir[e]
    PROVE  FilesInv'
  <1>1. ASSUME NEW e \in Daemons \ {d} PROVE Kept(e)'
    BY <1>1, KeptSame DEF FilesInv
  <1> QED
    BY <1>1 DEF FilesInv

(* A handle that ends takes its files with it when unlinking does not fail. *)
LEMMA UnlinkAll ==
    ASSUME "stop" \notin Faults, TypeOK, NEW d \in Daemons, Unlink(d)
    PROVE  files' = [files EXCEPT ![d] = {}]
  BY DEF Unlink

(* An adapter's own steps leave no file without a handle, and a running    *)
(* child finds what it was told to read.                                   *)
LEMMA AdapterKept ==
    ASSUME "stop" \notin Faults, TypeOK, HandleInv, FilesInv, NEW d \in Daemons, UNCHANGED <<proc, dir>>,
           AdapterStep(d) \/ ChildStep(d)
    PROVE  FilesInv'
  <1> USE DEF TypeOK, AdapterTypeOK
  <1>1. Kept(d) /\ Handled(d)
    BY DEF FilesInv, HandleInv
  <1>2. \A e \in Daemons \ {d} : adapter'[e] = adapter[e] /\ files'[e] = files[e]
    BY UnlinkAll DEF AdapterStep, ChildStep, WritePrivate, StartFails, Spawn, CheckOwner, Connect, BeginStop,
       FinishStop, ChildExits, ChildBinds, PortTaken, Phase
  <1>3. ASSUME WritePrivate(d) PROVE Kept(d)'
    <2> DEFINE missing == PrivateFiles(adapter[d].kind) \ files[d]
    <2>1. dir[d] = "marked" /\ proc[d].pc \in Working /\ adapter[d].phase = "reserved"
      BY <1>1, <1>3 DEF WritePrivate, Kept, Handled
    <2>2. CASE missing = {}
      <3>1. UNCHANGED files /\ adapter'[d].phase = "written" /\ adapter'[d].kind = adapter[d].kind
        BY <1>3, <2>2 DEF WritePrivate, Phase
      <3>2. PrivateFiles(adapter[d].kind) \subseteq files[d]
        BY <2>2
      <3> QED
        BY <1>1, <2>1, <3>1, <3>2 DEF Kept, Working, Phases
    <2>3. CASE missing # {}
      <3>1. UNCHANGED adapter
        BY <1>3, <2>3 DEF WritePrivate
      <3> HIDE DEF missing
      <3> QED
        BY <1>1, <2>1, <3>1 DEF Kept, Working, Phases
    <2> QED
      BY <2>2, <2>3
  <1>4. ASSUME StartFails(d) PROVE Kept(d)'
    <2>1. adapter'[d].phase = "none" /\ files'[d] = {}
      BY <1>4, UnlinkAll DEF StartFails, NoHandle
    <2> QED
      BY <1>1, <2>1 DEF Kept
  <1>5. ASSUME FinishStop(d) PROVE Kept(d)'
    <2>1. adapter'[d].phase = "none" /\ files'[d] = {}
      BY <1>5, UnlinkAll DEF FinishStop, NoHandle
    <2> QED
      BY <1>1, <2>1 DEF Kept
  <1>6. ASSUME Spawn(d) \/ CheckOwner(d) \/ Connect(d) \/ BeginStop(d) PROVE Kept(d)'
    <2>1. /\ UNCHANGED files /\ adapter'[d].kind = adapter[d].kind
          /\ adapter[d].phase \in Phases \ {"none", "reserved"}
          /\ adapter'[d].phase \in Phases \ {"none", "reserved"}
      BY <1>6 DEF Spawn, CheckOwner, Connect, BeginStop, Phase, Phases
    <2> QED
      BY <1>1, <2>1 DEF Kept, Handled
  <1>7. ASSUME ChildStep(d) PROVE Kept(d)'
    BY <1>1, <1>7 DEF ChildStep, ChildExits, ChildBinds, PortTaken, Kept
  <1>8. Kept(d)'
    BY <1>3, <1>4, <1>5, <1>6, <1>7 DEF AdapterStep
  <1> QED
    BY <1>2, <1>8, KeptSteps

(* The initial states satisfy the other parts. *)
LEMMA OwnedInit == Init => HandleInv /\ FilesInv /\ IdentityInv /\ SweepInv
  BY Constants DEF Init, AdapterInit, NoHandle, Fresh, HandleInv, Handled, FilesInv, Kept, IdentityInv,
     SweepInv, Swept, Alive, Working, Phases

(* The directory the sweep has in hand is a dead daemon's. *)
LEMMA VictimDead ==
    ASSUME TypeOK, SweepInv, NEW d \in Daemons, proc[d].pc = "sweep", proc[d].victim # None
    PROVE  proc[d].victim \in Daemons \ {d} /\ proc[proc[d].victim].pc = "dead"
  BY DEF TypeOK, Progress, SweepInv, Swept

(* Every step keeps the directories in order. *)
LEMMA FilesNext == "stop" \notin Faults /\ TypeOK /\ SocketInv /\ HandleInv /\ FilesInv /\ IdentityInv /\ SweepInv /\ [Next]_vars => FilesInv'
  <1> SUFFICES ASSUME "stop" \notin Faults, TypeOK, SocketInv, HandleInv, FilesInv, IdentityInv, SweepInv, [Next]_vars PROVE FilesInv'
    OBVIOUS
  <1> USE Constants, GotoMoves DEF TypeOK, socket, At, adapterVars
  <1> DEFINE Act(d) == Start(d) \/ StartStep(d) \/ ServeStep(d) \/ EndStep(d)
  <1>0. CASE UNCHANGED vars
    BY <1>0 DEF vars, FilesInv, Kept
  <1>1. ASSUME NEW d \in Daemons, Act(d) PROVE FilesInv'
    <2>1. CASE Start(d)
      <3>1. proc[d].pc = "unborn" /\ proc'[d].pc \in {"lock"} /\ \A e \in Daemons \ {d} : proc'[e] = proc[e]
        BY <2>1 DEF Start
      <3>2. UNCHANGED <<adapter, files, dir>>
        BY <2>1 DEF Start
      <3> QED
        BY <3>1, <3>2, KeptMoves DEF Bare, Points, Working
    <2>2. CASE AcquireLock(d)
      <3>1. proc[d].pc = "lock" /\ proc'[d].pc \in {"inspect", "dead"} /\ \A e \in Daemons \ {d} : proc'[e] = proc[e]
        BY <2>2, GoneFields DEF AcquireLock
      <3>2. UNCHANGED <<adapter, files, dir>>
        BY <2>2 DEF AcquireLock
      <3> QED
        BY <3>1, <3>2, KeptMoves DEF Bare, Points, Working
    <2>3. CASE Inspect(d)
      <3>1. proc[d].pc = "inspect" /\ proc'[d].pc \in {"bind", "unlock", "connect"} /\ \A e \in Daemons \ {d} : proc'[e] = proc[e]
        BY <2>3 DEF Inspect, Progress
      <3>2. UNCHANGED <<adapter, files, dir>>
        BY <2>3 DEF Inspect
      <3> QED
        BY <3>1, <3>2, KeptMoves DEF Bare, Points, Working
    <2>4. CASE ConnectOk(d)
      <3>1. proc[d].pc = "connect" /\ proc'[d].pc \in {"connect", "active"} /\ \A e \in Daemons \ {d} : proc'[e] = proc[e]
        BY <2>4 DEF ConnectOk, Answered, Progress
      <3>2. UNCHANGED <<adapter, files, dir>>
        BY <2>4 DEF ConnectOk, Answered
      <3> QED
        BY <3>1, <3>2, KeptMoves DEF Bare, Points, Working
    <2>5. CASE ConnectStale(d)
      <3>1. proc[d].pc = "connect" /\ proc'[d].pc \in {"recheck"} /\ \A e \in Daemons \ {d} : proc'[e] = proc[e]
        BY <2>5 DEF ConnectStale
      <3>2. UNCHANGED <<adapter, files, dir>>
        BY <2>5 DEF ConnectStale
      <3> QED
        BY <3>1, <3>2, KeptMoves DEF Bare, Points, Working
    <2>6. CASE ConnectUnclear(d)
      <3>1. proc[d].pc = "connect" /\ proc'[d].pc \in {"unlock"} /\ \A e \in Daemons \ {d} : proc'[e] = proc[e]
        BY <2>6 DEF ConnectUnclear
      <3>2. UNCHANGED <<adapter, files, dir>>
        BY <2>6 DEF ConnectUnclear
      <3> QED
        BY <3>1, <3>2, KeptMoves DEF Bare, Points, Working
    <2>7. CASE Recheck(d)
      <3>1. proc[d].pc = "recheck" /\ proc'[d].pc \in {"remove", "unlock"} /\ \A e \in Daemons \ {d} : proc'[e] = proc[e]
        BY <2>7 DEF Recheck
      <3>2. UNCHANGED <<adapter, files, dir>>
        BY <2>7 DEF Recheck
      <3> QED
        BY <3>1, <3>2, KeptMoves DEF Bare, Points, Working
    <2>8. CASE Remove(d)
      <3>1. proc[d].pc = "remove" /\ proc'[d].pc \in {"unlock", "bind"} /\ \A e \in Daemons \ {d} : proc'[e] = proc[e]
        BY <2>8 DEF Remove
      <3>2. UNCHANGED <<adapter, files, dir>>
        BY <2>8 DEF Remove
      <3> QED
        BY <3>1, <3>2, KeptMoves DEF Bare, Points, Working
    <2>9. CASE Bind(d)
      <3>1. proc[d].pc = "bind" /\ proc'[d].pc \in {"unlock", "load"} /\ \A e \in Daemons \ {d} : proc'[e] = proc[e]
        <4>1. CASE path # None
          BY <2>9, <4>1 DEF Bind
        <4>2. CASE path = None
          <5>1. PICK i \in Inodes : proc' = [proc EXCEPT ![d] = [Fresh EXCEPT !.pc = "load", !.ident = i]]
            BY <2>9, <4>2 DEF Bind, UnusedInodes
          <5>2. proc[d].pc = "bind"
            BY <2>9 DEF Bind
          <5> QED
            BY <5>1, <5>2, BoundFields
        <4> QED
          BY <4>1, <4>2
      <3>2. UNCHANGED <<adapter, files, dir>>
        BY <2>9 DEF Bind
      <3> QED
        BY <3>1, <3>2, KeptMoves DEF Bare, Points, Working
    <2>10. CASE Load(d)
      <3>1. proc[d].pc = "load" /\ proc'[d].pc \in {"close", "sweep"} /\ \A e \in Daemons \ {d} : proc'[e] = proc[e]
        BY <2>10 DEF Load, Progress
      <3>2. UNCHANGED <<adapter, files, dir>>
        BY <2>10 DEF Load
      <3> QED
        BY <3>1, <3>2, KeptMoves DEF Bare, Points, Working
    <2>11. CASE SweepRemove(d)
      <3>1. proc[d].pc = "sweep" /\ proc[d].victim # None
        BY <2>11 DEF SweepRemove
      <3>2. PICK q \in Daemons \ {d} : q = proc[d].victim /\ proc[q].pc = "dead"
        BY <3>1, VictimDead
      <3>3. UNCHANGED adapter /\ proc'[d].pc = "sweep" /\ \A e \in Daemons \ {d} : proc'[e] = proc[e]
        BY <2>11, <3>1 DEF SweepRemove, Progress
      <3>4. adapter[q].phase = "none" /\ Kept(q)
        BY <3>2, SMTT(30) DEF HandleInv, Handled, Working, FilesInv
      <3>5. CASE files[q] # {}
        <4>1. PICK f \in files[q] : files' = [files EXCEPT ![q] = files[q] \ {f}] /\ UNCHANGED dir
          BY <2>11, <3>2, <3>5 DEF SweepRemove
        <4>2. Kept(q)'
          BY <3>2, <3>3, <3>4, <3>5, <4>1 DEF Kept, Working
        <4> QED
          BY <3>1, <3>2, <3>3, <4>1, <4>2, KeptSteps
      <3>6. CASE files[q] = {}
        <4>1. UNCHANGED files /\ \A e \in Daemons \ {q} : dir'[e] = dir[e]
          BY <2>11, <3>2, <3>6 DEF SweepRemove
        <4>2. Kept(q)'
          BY <3>2, <3>3, <3>4, <3>6, <4>1 DEF Kept, Working
        <4> QED
          BY <3>1, <3>2, <3>3, <4>1, <4>2, KeptSteps
      <3> QED
        BY <3>5, <3>6
    <2>12. CASE SweepGivesUp(d)
      <3>1. proc[d].pc = "sweep" /\ proc'[d].pc \in {"sweep"} /\ \A e \in Daemons \ {d} : proc'[e] = proc[e]
        BY <2>12 DEF SweepGivesUp, Progress
      <3>2. UNCHANGED <<adapter, files, dir>>
        BY <2>12 DEF SweepGivesUp
      <3> QED
        BY <3>1, <3>2, KeptMoves DEF Bare, Points, Working
    <2>13. CASE SweepDone(d)
      <3>1. proc[d].pc = "sweep" /\ proc'[d].pc \in {"mkdir"} /\ \A e \in Daemons \ {d} : proc'[e] = proc[e]
        BY <2>13 DEF SweepDone
      <3>2. UNCHANGED <<adapter, files, dir>>
        BY <2>13 DEF SweepDone
      <3> QED
        BY <3>1, <3>2, KeptMoves DEF Bare, Points, Working
    <2>14. CASE MakeDir(d)
      <3>1. proc[d].pc = "mkdir" /\ proc'[d].pc = "marker" /\ \A e \in Daemons \ {d} : proc'[e] = proc[e]
        BY <2>14 DEF MakeDir
      <3>2. UNCHANGED <<adapter, files>> /\ dir'[d] = "made" /\ \A e \in Daemons \ {d} : dir'[e] = dir[e]
        BY <2>14 DEF MakeDir
      <3>3. Kept(d)'
        BY <3>1, <3>2 DEF FilesInv, Kept, Working, HandleInv, Handled
      <3> QED
        BY <3>1, <3>2, <3>3, KeptSteps
    <2>15. CASE WriteMarker(d)
      <3>1. proc[d].pc = "marker" /\ UNCHANGED <<adapter, files>> /\ \A e \in Daemons \ {d} : proc'[e] = proc[e] /\ dir'[e] = dir[e]
        BY <2>15 DEF WriteMarker
      <3>2. \/ dir'[d] = "partial" /\ proc'[d].pc = "marker"
            \/ dir'[d] = "marked" /\ proc'[d].pc = "serving"
            \/ dir'[d] = "none" /\ proc'[d].pc = "close"
        BY <2>15 DEF WriteMarker
      <3>3. Kept(d)'
        BY <3>1, <3>2 DEF FilesInv, Kept, Working, HandleInv, Handled
      <3> QED
        BY <3>1, <3>3, KeptSteps
    <2>16. CASE Accept(d)
      BY <2>16 DEF Accept, FilesInv, Kept
    <2>17. CASE Dispatch(d)
      BY <2>17 DEF Dispatch, FilesInv, Kept
    <2>18. CASE EndRequest(d)
      BY <2>18 DEF EndRequest, FilesInv, Kept
    <2>19. CASE Shutdown(d)
      <3>1. proc[d].pc = "serving" /\ proc'[d].pc \in {"draining"} /\ \A e \in Daemons \ {d} : proc'[e] = proc[e]
        BY <2>19 DEF Shutdown
      <3>2. UNCHANGED <<adapter, files, dir>>
        BY <2>19 DEF Shutdown
      <3> QED
        BY <3>1, <3>2, KeptMoves DEF Bare, Points, Working
    <2>20. CASE ListenFails(d)
      <3>1. proc[d].pc = "serving" /\ proc'[d].pc \in {"cleanup"} /\ \A e \in Daemons \ {d} : proc'[e] = proc[e]
        BY <2>20 DEF ListenFails
      <3>2. UNCHANGED <<adapter, files, dir>>
        BY <2>20 DEF ListenFails
      <3> QED
        BY <3>1, <3>2, KeptMoves DEF Bare, Points, Working
    <2>21. CASE Drained(d)
      <3>1. proc[d].pc = "draining" /\ proc'[d].pc \in {"teardown"} /\ \A e \in Daemons \ {d} : proc'[e] = proc[e]
        BY <2>21 DEF Drained
      <3>2. UNCHANGED <<adapter, files, dir>>
        BY <2>21 DEF Drained
      <3> QED
        BY <3>1, <3>2, KeptMoves DEF Bare, Points, Working
    <2>22. CASE TornDown(d)
      <3>1. proc[d].pc = "teardown" /\ proc'[d].pc \in {"cleanup"} /\ \A e \in Daemons \ {d} : proc'[e] = proc[e]
        BY <2>22 DEF TornDown
      <3>2. UNCHANGED <<adapter, files, dir>>
        BY <2>22 DEF TornDown
      <3> QED
        BY <3>1, <3>2, KeptMoves DEF Bare, Points, Working
    <2>23. CASE Cleanup(d)
      <3>1. proc[d].pc = "cleanup" /\ files[d] = {} /\ adapter[d].phase = "none"
        BY <2>23 DEF Cleanup, FilesInv, Kept, HandleInv, Handled, Working
      <3>2. UNCHANGED <<adapter, files>> /\ \A e \in Daemons \ {d} : proc'[e] = proc[e] /\ dir'[e] = dir[e]
        BY <2>23, <3>1 DEF Cleanup, AfterCleanup
      <3>3. \/ dir'[d] = "made" /\ proc'[d].pc = "cleanup"
            \/ dir'[d] = "none" /\ proc'[d].pc \in {"unlock", "close"}
        BY <2>23, <3>1 DEF Cleanup, AfterCleanup
      <3>4. Kept(d)'
        BY <3>1, <3>2, <3>3 DEF FilesInv, Kept, Working
      <3> QED
        BY <3>2, <3>4, KeptSteps
    <2>24. CASE Close(d)
      <3>1. proc[d].pc = "close" /\ proc'[d].pc \in {"unlock"} /\ \A e \in Daemons \ {d} : proc'[e] = proc[e]
        BY <2>24 DEF Close
      <3>2. UNCHANGED <<adapter, files, dir>>
        BY <2>24 DEF Close
      <3> QED
        BY <3>1, <3>2, KeptMoves DEF Bare, Points, Working
    <2>25. CASE Unlock(d)
      <3>1. proc[d].pc \in {"unlock", "active"} /\ proc'[d].pc = "dead" /\ \A e \in Daemons \ {d} : proc'[e] = proc[e]
        BY <2>25, GoneFields DEF Unlock
      <3>2. UNCHANGED <<adapter, files, dir>>
        BY <2>25 DEF Unlock
      <3> QED
        BY <3>1, <3>2, KeptMoves DEF Bare, Points, Working
    <2>26. ASSUME NEW q \in Daemons, SweepPick(d, q) PROVE FilesInv'
      <3>1. proc[d].pc = "sweep" /\ proc'[d].pc = "sweep" /\ \A e \in Daemons \ {d} : proc'[e] = proc[e]
        BY <2>26 DEF SweepPick, Progress
      <3>2. UNCHANGED <<adapter, files, dir>>
        BY <2>26 DEF SweepPick
      <3> QED
        BY <3>1, <3>2, KeptMoves DEF Bare, Points, Working
    <2>27. ASSUME NEW k \in Kinds, StartAdapter(d, k) PROVE FilesInv'
      <3>1. proc[d].pc \in {"serving", "draining"} /\ Kept(d) /\ adapter[d].phase = "none"
        BY <2>27 DEF StartAdapter, Reserve, HandleInv, Handled, FilesInv
      <3>2. /\ UNCHANGED <<proc, dir, files>> /\ adapter'[d].phase = "reserved"
            /\ \A e \in Daemons \ {d} : adapter'[e] = adapter[e]
        BY <2>27 DEF StartAdapter, Reserve, AdapterTypeOK
      <3>3. Kept(d)'
        BY <3>1, <3>2 DEF Kept, Working
      <3> QED
        BY <3>2, <3>3, KeptSteps
    <2> QED
      BY <1>1, <2>1, <2>2, <2>3, <2>4, <2>5, <2>6, <2>7, <2>8, <2>9, <2>10, <2>11, <2>12, <2>13, <2>14, <2>15, <2>16, <2>17, <2>18, <2>19, <2>20, <2>21, <2>22, <2>23, <2>24, <2>25, <2>26, <2>27 DEF StartStep, ServeStep, EndStep
  <1>2. ASSUME NEW d \in Daemons, Adapters(d) \/ Children(d) PROVE FilesInv'
    BY <1>2, AdapterKept DEF Adapters, Children
  <1>3. ASSUME NEW d \in Daemons, Crash(d) PROVE FilesInv'
    <2>1. /\ adapter'[d].phase = "none" /\ proc'[d].pc = "dead" /\ UNCHANGED <<files, dir>>
          /\ \A e \in Daemons \ {d} : proc'[e] = proc[e] /\ adapter'[e] = adapter[e]
      BY <1>3, GoneFields DEF Crash, HandlesLost, NoHandle, AdapterTypeOK
    <2>2. Kept(d)'
      BY <2>1 DEF FilesInv, Kept, Working
    <2> QED
      BY <2>1, <2>2, KeptSteps
  <1>4. ASSUME NEW i \in Inodes, DyingEnds(i) PROVE FilesInv'
    BY <1>4 DEF DyingEnds, FilesInv, Kept
  <1>5. CASE LegacyEnds
    BY <1>5 DEF LegacyEnds, FilesInv, Kept
  <1>6. CASE Reboot
    <2>1. /\ UNCHANGED <<files, dir>> /\ \A e \in Daemons : adapter'[e].phase = "none"
          /\ \A e \in Daemons : proc'[e].pc = "dead" \/ (proc'[e] = proc[e] /\ proc[e].pc = "unborn")
      BY <1>6, GoneFields DEF Reboot, HandlesLost, NoHandle, Alive
    <2>2. ASSUME NEW e \in Daemons PROVE Kept(e)'
      <3>1. Kept(e) /\ (proc[e].pc = "unborn" => adapter[e].phase = "none")
        BY DEF FilesInv, HandleInv, Handled, Working
      <3> QED
        BY <2>1, <3>1 DEF Kept, Working
    <2> QED
      BY <2>2 DEF FilesInv
  <1> QED
    BY <1>0, <1>1, <1>2, <1>3, <1>4, <1>5, <1>6 DEF Next

-----------------------------------------------------------------------------
(* The sweep.                                                               *)

(* A step of one living daemon.  Only the daemon with the lock can add      *)
(* files, and nobody else is past the sweep then.                           *)
LEMMA SweptOthers ==
    ASSUME TypeOK, SocketInv, SweepInv, NEW d \in Daemons, proc[d].pc # "dead",
           \A e \in Daemons \ {d} : proc'[e] = proc[e] /\ (files'[e] # {} => files[e] # {}),
           files'[d] # {} => files[d] # {} \/ proc[d].pc \in Holding,
           Swept(d)'
    PROVE  SweepInv'
  <1>1. ASSUME NEW e \in Daemons \ {d} PROVE Swept(e)'
    <2>1. proc'[e] = proc[e] /\ Swept(e) /\ proc[e].victim \in Daemons \cup {None}
      BY <1>1 DEF SweepInv, TypeOK, Progress
    <2>2. proc[e].victim # None => proc'[proc[e].victim].pc = "dead"
      BY <2>1 DEF Swept
    <2>3. CASE proc[d].pc \in Holding
      <3>1. proc[e].pc \in {"unborn", "lock", "dead"}
        BY <2>3, OthersIdle
      <3> QED
        BY <2>1, <2>2, <3>1 DEF Swept
    <2>4. CASE proc[d].pc \notin Holding
      <3>1. \A q \in Daemons : files'[q] # {} => files[q] # {}
        BY <2>4
      <3> QED
        BY <2>1, <2>2, <3>1 DEF Swept
    <2> QED
      BY <2>3, <2>4
  <1> QED
    BY <1>1 DEF SweepInv

(* What the sweep has in hand stays dead while its daemon moves. *)
LEMMA VictimStays ==
    ASSUME TypeOK, SweepInv, NEW d \in Daemons, proc[d].pc # "dead",
           \A e \in Daemons \ {d} : proc'[e] = proc[e],
           proc'[d].victim \in {proc[d].victim, None}
    PROVE  proc'[d].victim # None => proc'[proc'[d].victim].pc = "dead"
  BY DEF TypeOK, Progress, SweepInv, Swept

(* A step to where the sweep is not over or does not matter. *)
LEMMA SweptElsewhere ==
    ASSUME TypeOK, SocketInv, SweepInv, NEW d \in Daemons, proc[d].pc # "dead", UNCHANGED files,
           \A e \in Daemons \ {d} : proc'[e] = proc[e],
           proc'[d].victim \in {proc[d].victim, None},
           proc'[d].pc \notin {"sweep", "mkdir", "marker", "serving"}
    PROVE  SweepInv'
  <1>1. Swept(d)'
    BY VictimStays DEF Swept
  <1> QED
    BY <1>1, SweptOthers

(* A step on from the end of the sweep. *)
LEMMA SweptOn ==
    ASSUME TypeOK, SocketInv, SweepInv, NEW d \in Daemons, UNCHANGED files,
           \A e \in Daemons \ {d} : proc'[e] = proc[e],
           proc'[d].victim = proc[d].victim, proc'[d].kept = proc[d].kept,
           proc[d].pc \in {"mkdir", "marker", "serving"}, proc'[d].pc # "sweep"
    PROVE  SweepInv'
  <1>1. proc'[d].victim # None => proc'[proc'[d].victim].pc = "dead"
    BY VictimStays
  <1>2. Swept(d)
    BY DEF SweepInv
  <1>3. Swept(d)'
    BY <1>1, <1>2 DEF Swept
  <1> QED
    BY <1>3, SweptOthers

(* A directory with credentials that is found is a dead daemon's, and is   *)
(* recognised as such.                                                     *)
LEMMA SweepRecognises ==
    ASSUME TypeOK, SocketInv, HandleInv, FilesInv, IdentityInv, NEW d \in Daemons, proc[d].pc = "sweep",
           NEW q \in Daemons \ {d}
    PROVE  /\ files[q] # {} => dir[q] = "marked" /\ DefinitelyDead(q)
           /\ dir[q] = "marked" /\ DefinitelyDead(q) => proc[q].pc = "dead"
  <1>1. proc[q].pc \in {"unborn", "lock", "dead"}
    BY OthersIdle DEF Holding, Points
  <1>2. Kept(q) /\ Handled(q)
    BY DEF FilesInv, HandleInv
  <1>3. ASSUME files[q] # {} PROVE dir[q] = "marked" /\ DefinitelyDead(q)
    <2>1. proc[q].pc = "dead" /\ dir[q] = "marked"
      BY <1>1, <1>2, <1>3 DEF Kept, Handled, Working
    <2>2. ASSUME NEW e \in Daemons, Alive(e), identity[q].boot = boot PROVE identity[e].start # identity[q].start
      <3>1. e # q /\ identity[e].boot = boot /\ boot # 0
        BY <2>1, <2>2 DEF Alive, IdentityInv, TypeOK
      <3> QED
        BY <2>2, <3>1 DEF IdentityInv
    <2> QED
      BY <2>1, <2>2 DEF DefinitelyDead
  <1>4. ASSUME dir[q] = "marked", DefinitelyDead(q) PROVE proc[q].pc = "dead"
    <2>1. proc[q].pc # "unborn"
      BY <1>2, <1>4 DEF Kept, Working
    <2>2. ~Alive(q)
      BY <1>4 DEF DefinitelyDead, IdentityInv
    <2> QED
      BY <2>1, <2>2 DEF Alive
  <1> QED
    BY <1>3, <1>4

(* Every step keeps the sweep's promise. *)
LEMMA SweepNext == "stop" \notin Faults /\ TypeOK /\ SocketInv /\ HandleInv /\ FilesInv /\ IdentityInv /\ SweepInv /\ [Next]_vars => SweepInv'
  <1> SUFFICES ASSUME "stop" \notin Faults, TypeOK, SocketInv, HandleInv, FilesInv, IdentityInv, SweepInv, [Next]_vars PROVE SweepInv'
    OBVIOUS
  <1> USE Constants, GotoMoves DEF TypeOK, socket, At, adapterVars
  <1> DEFINE Act(d) == Start(d) \/ StartStep(d) \/ ServeStep(d) \/ EndStep(d)
  <1>0. CASE UNCHANGED vars
    BY <1>0 DEF vars, SweepInv, Swept
  <1>1. ASSUME NEW d \in Daemons, Act(d) PROVE SweepInv'
    <2>1. CASE Start(d)
      <3>1. proc[d].pc = "unborn" /\ proc'[d].pc \in {"lock"} /\ \A e \in Daemons \ {d} : proc'[e] = proc[e]
        BY <2>1 DEF Start
      <3>2. UNCHANGED files /\ proc'[d].victim = proc[d].victim
        BY <2>1 DEF Start
      <3> QED
        BY <3>1, <3>2, SweptElsewhere
    <2>2. CASE AcquireLock(d)
      <3>1. proc[d].pc = "lock" /\ proc'[d].pc \in {"inspect", "dead"} /\ \A e \in Daemons \ {d} : proc'[e] = proc[e]
        BY <2>2, GoneFields DEF AcquireLock
      <3>2. UNCHANGED files /\ proc'[d].victim \in {proc[d].victim, None}
        BY <2>2, GoneFields DEF AcquireLock
      <3> QED
        BY <3>1, <3>2, SweptElsewhere
    <2>3. CASE Inspect(d)
      <3>1. proc[d].pc = "inspect" /\ proc'[d].pc \in {"bind", "unlock", "connect"} /\ \A e \in Daemons \ {d} : proc'[e] = proc[e]
        BY <2>3 DEF Inspect, Progress
      <3>2. UNCHANGED files /\ proc'[d].victim = proc[d].victim
        BY <2>3 DEF Inspect, Progress
      <3> QED
        BY <3>1, <3>2, SweptElsewhere
    <2>4. CASE ConnectOk(d)
      <3>1. proc[d].pc = "connect" /\ proc'[d].pc \in {"connect", "active"} /\ \A e \in Daemons \ {d} : proc'[e] = proc[e]
        BY <2>4 DEF ConnectOk, Answered, Progress
      <3>2. UNCHANGED files /\ proc'[d].victim = proc[d].victim
        BY <2>4 DEF ConnectOk, Answered, Progress
      <3> QED
        BY <3>1, <3>2, SweptElsewhere
    <2>5. CASE ConnectStale(d)
      <3>1. proc[d].pc = "connect" /\ proc'[d].pc \in {"recheck"} /\ \A e \in Daemons \ {d} : proc'[e] = proc[e]
        BY <2>5 DEF ConnectStale
      <3>2. UNCHANGED files /\ proc'[d].victim = proc[d].victim
        BY <2>5 DEF ConnectStale
      <3> QED
        BY <3>1, <3>2, SweptElsewhere
    <2>6. CASE ConnectUnclear(d)
      <3>1. proc[d].pc = "connect" /\ proc'[d].pc \in {"unlock"} /\ \A e \in Daemons \ {d} : proc'[e] = proc[e]
        BY <2>6 DEF ConnectUnclear
      <3>2. UNCHANGED files /\ proc'[d].victim = proc[d].victim
        BY <2>6 DEF ConnectUnclear
      <3> QED
        BY <3>1, <3>2, SweptElsewhere
    <2>7. CASE Recheck(d)
      <3>1. proc[d].pc = "recheck" /\ proc'[d].pc \in {"remove", "unlock"} /\ \A e \in Daemons \ {d} : proc'[e] = proc[e]
        BY <2>7 DEF Recheck
      <3>2. UNCHANGED files /\ proc'[d].victim = proc[d].victim
        BY <2>7 DEF Recheck
      <3> QED
        BY <3>1, <3>2, SweptElsewhere
    <2>8. CASE Remove(d)
      <3>1. proc[d].pc = "remove" /\ proc'[d].pc \in {"unlock", "bind"} /\ \A e \in Daemons \ {d} : proc'[e] = proc[e]
        BY <2>8 DEF Remove
      <3>2. UNCHANGED files /\ proc'[d].victim = proc[d].victim
        BY <2>8 DEF Remove
      <3> QED
        BY <3>1, <3>2, SweptElsewhere
    <2>9. CASE Bind(d)
      <3>1. /\ proc[d].pc = "bind" /\ proc'[d].pc \in {"unlock", "load"}
            /\ proc'[d].victim \in {proc[d].victim, None} /\ \A e \in Daemons \ {d} : proc'[e] = proc[e]
        <4>1. CASE path # None
          BY <2>9, <4>1 DEF Bind
        <4>2. CASE path = None
          <5>1. PICK i \in Inodes : proc' = [proc EXCEPT ![d] = [Fresh EXCEPT !.pc = "load", !.ident = i]]
            BY <2>9, <4>2 DEF Bind, UnusedInodes
          <5>2. proc[d].pc = "bind"
            BY <2>9 DEF Bind
          <5> QED
            BY <5>1, <5>2, BoundFields
        <4> QED
          BY <4>1, <4>2
      <3>2. UNCHANGED files
        BY <2>9 DEF Bind
      <3> QED
        BY <3>1, <3>2, SweptElsewhere
    <2>10. CASE Load(d)
      <3>1. proc[d].pc = "load" /\ UNCHANGED files /\ \A e \in Daemons \ {d} : proc'[e] = proc[e]
        BY <2>10 DEF Load
      <3>2. CASE Goto(d, "close")
        BY <3>1, <3>2, SweptElsewhere
      <3>3. CASE ~Goto(d, "close")
        <4> DEFINE S == {q \in Daemons \ {d} : dir[q] # "none"}
        <4>1. proc' = [proc EXCEPT ![d].pc = "sweep", ![d].sweep = S]
          BY <2>10, <3>3 DEF Load
        <4>2. \A q \in Daemons \ {d} : files[q] # {} => q \in S
          BY DEF FilesInv, Kept
        <4> HIDE DEF S
        <4>3. proc'[d].victim = proc[d].victim /\ proc'[d].pc = "sweep" /\ proc'[d].sweep = S
          BY <4>1 DEF Progress
        <4>4. proc'[d].victim # None => proc'[proc'[d].victim].pc = "dead"
          BY <3>1, <4>3, VictimStays
        <4>5. Swept(d)'
          BY <3>1, <4>2, <4>3, <4>4 DEF Swept
        <4> QED
          BY <3>1, <4>5, SweptOthers
      <3> QED
        BY <3>2, <3>3
    <2>11. CASE SweepRemove(d)
      <3>1. proc[d].pc = "sweep" /\ proc[d].victim # None
        BY <2>11 DEF SweepRemove
      <3>2. PICK q \in Daemons \ {d} : q = proc[d].victim /\ proc[q].pc = "dead"
        BY <3>1, VictimDead
      <3>3. /\ proc'[d].pc = "sweep" /\ proc'[d].sweep = proc[d].sweep /\ proc'[d].kept = proc[d].kept
            /\ \A e \in Daemons \ {d} : proc'[e] = proc[e]
        BY <2>11, <3>1 DEF SweepRemove, Progress
      <3>4. proc'[d].victim = q \/ (proc'[d].victim = None /\ files[q] = {})
        BY <2>11, <3>1, <3>2 DEF SweepRemove, Progress
      <3>5. \A e \in Daemons : files'[e] # {} => files[e] # {}
        BY <2>11, <3>2, ZenonT(40) DEF SweepRemove, AdapterTypeOK
      <3>6. proc'[d].victim # None => proc'[proc'[d].victim].pc = "dead"
        BY <3>2, <3>3, <3>4
      <3>7. Swept(d)'
        BY <3>1, <3>2, <3>3, <3>4, <3>5, <3>6, ZenonT(40) DEF Swept, SweepInv
      <3> QED
        BY <3>1, <3>3, <3>5, <3>7, SweptOthers
    <2>12. CASE SweepGivesUp(d)
      <3>1. proc[d].pc = "sweep" /\ proc[d].victim # None /\ UNCHANGED files /\ \A e \in Daemons \ {d} : proc'[e] = proc[e]
        BY <2>12 DEF SweepGivesUp
      <3>2. /\ proc'[d].pc = "sweep" /\ proc'[d].sweep = proc[d].sweep /\ proc'[d].victim = None
            /\ proc'[d].kept = proc[d].kept \cup {proc[d].victim}
        BY <2>12, <3>1 DEF SweepGivesUp, Progress
      <3>3. Swept(d)'
        BY <3>1, <3>2 DEF Swept, SweepInv
      <3> QED
        BY <3>1, <3>3, SweptOthers
    <2>13. CASE SweepDone(d)
      <3>1. /\ proc[d].pc = "sweep" /\ proc[d].victim = None /\ proc[d].sweep = {} /\ UNCHANGED files
            /\ \A e \in Daemons \ {d} : proc'[e] = proc[e]
        BY <2>13 DEF SweepDone
      <3>2. proc'[d].pc = "mkdir" /\ proc'[d].victim = None /\ proc'[d].kept = proc[d].kept
        BY <2>13, <3>1 DEF SweepDone
      <3>3. Swept(d)'
        BY <3>1, <3>2 DEF Swept, SweepInv
      <3> QED
        BY <3>1, <3>3, SweptOthers
    <2>14. CASE MakeDir(d)
      <3>1. proc[d].pc = "mkdir" /\ UNCHANGED files /\ \A e \in Daemons \ {d} : proc'[e] = proc[e]
        BY <2>14 DEF MakeDir
      <3>2. proc'[d].pc = "marker" /\ proc'[d].victim = proc[d].victim /\ proc'[d].kept = proc[d].kept
        BY <2>14 DEF MakeDir
      <3> QED
        BY <3>1, <3>2, SweptOn
    <2>15. CASE WriteMarker(d)
      <3>1. proc[d].pc = "marker" /\ UNCHANGED files /\ \A e \in Daemons \ {d} : proc'[e] = proc[e]
        BY <2>15 DEF WriteMarker
      <3>2. proc'[d].pc \in {"marker", "serving", "close"} /\ proc'[d].victim = proc[d].victim /\ proc'[d].kept = proc[d].kept
        BY <2>15 DEF WriteMarker
      <3> QED
        BY <3>1, <3>2, SweptOn
    <2>16. CASE Accept(d)
      BY <2>16 DEF Accept, SweepInv, Swept
    <2>17. CASE Dispatch(d)
      BY <2>17 DEF Dispatch, SweepInv, Swept
    <2>18. CASE EndRequest(d)
      BY <2>18 DEF EndRequest, SweepInv, Swept
    <2>19. CASE Shutdown(d)
      <3>1. proc[d].pc = "serving" /\ proc'[d].pc \in {"draining"} /\ \A e \in Daemons \ {d} : proc'[e] = proc[e]
        BY <2>19 DEF Shutdown
      <3>2. UNCHANGED files /\ proc'[d].victim = proc[d].victim
        BY <2>19 DEF Shutdown
      <3> QED
        BY <3>1, <3>2, SweptElsewhere
    <2>20. CASE ListenFails(d)
      <3>1. proc[d].pc = "serving" /\ proc'[d].pc \in {"cleanup"} /\ \A e \in Daemons \ {d} : proc'[e] = proc[e]
        BY <2>20 DEF ListenFails
      <3>2. UNCHANGED files /\ proc'[d].victim = proc[d].victim
        BY <2>20 DEF ListenFails
      <3> QED
        BY <3>1, <3>2, SweptElsewhere
    <2>21. CASE Drained(d)
      <3>1. proc[d].pc = "draining" /\ proc'[d].pc \in {"teardown"} /\ \A e \in Daemons \ {d} : proc'[e] = proc[e]
        BY <2>21 DEF Drained
      <3>2. UNCHANGED files /\ proc'[d].victim = proc[d].victim
        BY <2>21 DEF Drained
      <3> QED
        BY <3>1, <3>2, SweptElsewhere
    <2>22. CASE TornDown(d)
      <3>1. proc[d].pc = "teardown" /\ proc'[d].pc \in {"cleanup"} /\ \A e \in Daemons \ {d} : proc'[e] = proc[e]
        BY <2>22 DEF TornDown
      <3>2. UNCHANGED files /\ proc'[d].victim = proc[d].victim
        BY <2>22 DEF TornDown
      <3> QED
        BY <3>1, <3>2, SweptElsewhere
    <2>23. CASE Cleanup(d)
      <3>1. proc[d].pc = "cleanup" /\ files[d] = {}
        BY <2>23 DEF Cleanup, FilesInv, Kept, HandleInv, Handled, Working
      <3>2. UNCHANGED files /\ \A e \in Daemons \ {d} : proc'[e] = proc[e]
        BY <2>23, <3>1 DEF Cleanup, AfterCleanup
      <3>3. proc'[d].pc \in {"cleanup", "unlock", "close"} /\ proc'[d].victim = proc[d].victim
        BY <2>23, <3>1 DEF Cleanup, AfterCleanup
      <3> QED
        BY <3>1, <3>2, <3>3, SweptElsewhere
    <2>24. CASE Close(d)
      <3>1. proc[d].pc = "close" /\ proc'[d].pc \in {"unlock"} /\ \A e \in Daemons \ {d} : proc'[e] = proc[e]
        BY <2>24 DEF Close
      <3>2. UNCHANGED files /\ proc'[d].victim = proc[d].victim
        BY <2>24 DEF Close
      <3> QED
        BY <3>1, <3>2, SweptElsewhere
    <2>25. CASE Unlock(d)
      <3>1. proc[d].pc \in {"unlock", "active"} /\ proc'[d].pc = "dead" /\ \A e \in Daemons \ {d} : proc'[e] = proc[e]
        BY <2>25, GoneFields DEF Unlock
      <3>2. UNCHANGED files /\ proc'[d].victim = None
        BY <2>25, GoneFields DEF Unlock
      <3> QED
        BY <3>1, <3>2, SweptElsewhere
    <2>26. ASSUME NEW q \in Daemons, SweepPick(d, q) PROVE SweepInv'
      <3>1. /\ proc[d].pc = "sweep" /\ proc[d].victim = None /\ q \in proc[d].sweep /\ UNCHANGED files
            /\ \A e \in Daemons \ {d} : proc'[e] = proc[e]
        BY <2>26 DEF SweepPick
      <3>2. /\ proc'[d].pc = "sweep" /\ proc'[d].sweep = proc[d].sweep \ {q} /\ proc'[d].kept = proc[d].kept
            /\ proc'[d].victim = IF dir[q] = "marked" /\ DefinitelyDead(q) THEN q ELSE None
        BY <2>26, <3>1 DEF SweepPick, Progress
      <3>3. CASE q = d
        <4>1. proc'[d].victim = None
          <5>1. dir[d] = "none"
            BY <3>1 DEF FilesInv, Kept, Working
          <5> QED
            BY <3>2, <3>3, <5>1
        <4>2. Swept(d)'
          BY <3>1, <3>2, <3>3, <4>1 DEF Swept, SweepInv
        <4> QED
          BY <3>1, <4>2, SweptOthers
      <3>4. CASE q # d
        <4>1. /\ files[q] # {} => dir[q] = "marked" /\ DefinitelyDead(q)
              /\ dir[q] = "marked" /\ DefinitelyDead(q) => proc[q].pc = "dead"
          BY <3>1, <3>4, SweepRecognises
        <4>2. proc'[d].victim \in {q, None} /\ (files[q] # {} => proc'[d].victim = q)
          BY <3>2, <4>1
        <4>3. proc'[d].victim # None => proc'[proc'[d].victim].pc = "dead"
          BY <3>1, <3>2, <3>4, <4>1
        <4>4. Swept(d)'
          BY <3>1, <3>2, <4>2, <4>3 DEF Swept, SweepInv
        <4> QED
          BY <3>1, <4>4, SweptOthers
      <3> QED
        BY <3>3, <3>4
    <2>27. ASSUME NEW k \in Kinds, StartAdapter(d, k) PROVE SweepInv'
      BY <2>27 DEF StartAdapter, Reserve, SweepInv, Swept
    <2> QED
      BY <1>1, <2>1, <2>2, <2>3, <2>4, <2>5, <2>6, <2>7, <2>8, <2>9, <2>10, <2>11, <2>12, <2>13, <2>14, <2>15, <2>16, <2>17, <2>18, <2>19, <2>20, <2>21, <2>22, <2>23, <2>24, <2>25, <2>26, <2>27 DEF StartStep, ServeStep, EndStep
  <1>2. ASSUME NEW d \in Daemons, Adapters(d) \/ Children(d) PROVE SweepInv'
    <2>1. UNCHANGED proc /\ \A e \in Daemons \ {d} : files'[e] = files[e]
      BY <1>2, UnlinkAll DEF Adapters, Children, AdapterStep, ChildStep, WritePrivate, StartFails, Spawn,
         CheckOwner, Connect, BeginStop, FinishStop, ChildExits, ChildBinds, PortTaken, AdapterTypeOK
    <2>2. CASE Adapters(d) /\ proc[d].pc \in Holding
      <3>1. Swept(d)'
        BY <2>1 DEF SweepInv, Swept
      <3> QED
        BY <2>1, <2>2, <3>1, SweptOthers DEF Holding
    <2>3. CASE Children(d)
      BY <2>3 DEF Children, ChildStep, ChildExits, ChildBinds, PortTaken, SweepInv, Swept
    <2>4. Adapters(d) => proc[d].pc \in Holding
      BY DEF Adapters, AdapterStep, WritePrivate, StartFails, Spawn, CheckOwner, Connect, BeginStop, FinishStop,
         HandleInv, Handled, Working, Holding, Points
    <2> QED
      BY <1>2, <2>2, <2>3, <2>4
  <1>3. ASSUME NEW d \in Daemons, Crash(d) PROVE SweepInv'
    <2>1. /\ proc[d].pc # "dead" /\ proc'[d].pc = "dead" /\ proc'[d].victim = None /\ UNCHANGED files
          /\ \A e \in Daemons \ {d} : proc'[e] = proc[e]
      BY <1>3, GoneFields DEF Crash, HandlesLost, Alive
    <2> QED
      BY <2>1, SweptElsewhere
  <1>4. ASSUME NEW i \in Inodes, DyingEnds(i) PROVE SweepInv'
    BY <1>4 DEF DyingEnds, SweepInv, Swept
  <1>5. CASE LegacyEnds
    BY <1>5 DEF LegacyEnds, SweepInv, Swept
  <1>6. CASE Reboot
    <2>1. /\ \A e \in Daemons : proc'[e] = Gone \/ (proc'[e] = proc[e] /\ proc[e].pc \in {"unborn", "dead"})
          /\ \A e \in Daemons : proc[e].pc = "dead" => proc'[e].pc = "dead"
      BY <1>6 DEF Reboot, Alive
    <2>2. ASSUME NEW e \in Daemons PROVE Swept(e)'
      BY <2>1, GoneFields DEF SweepInv, Swept, Progress
    <2> QED
      BY <2>2 DEF SweepInv
  <1> QED
    BY <1>0, <1>1, <1>2, <1>3, <1>4, <1>5, <1>6 DEF Next

-----------------------------------------------------------------------------
(* Theorems.                                                                *)

(* Every reachable state has the types, whatever fails. *)
THEOREM InstanceTypes == Spec => []TypeOK
  <1>1. Init => TypeOK
    <2> SUFFICES ASSUME Init PROVE TypeOK
      OBVIOUS
    <2>1. AdapterTypeOK
      BY Constants DEF Init, AdapterInit, AdapterTypeOK, NoHandle, FreePorts, Phases, Owners
    <2>2. proc \in [Daemons -> Progress]
      BY EmptyProgress DEF Init
    <2>3. path \in Inodes \cup {0, None} /\ listener \in [Daemons \cup {Legacy} -> Inodes \cup {None}]
      BY DEF Init, Inodes
    <2>4. dying \in [Inodes -> 0..DyingConnects]
      BY Constants DEF Init
    <2> QED
      BY <2>1, <2>2, <2>3, <2>4, Constants DEF Init, TypeOK
  <1> QED
    BY <1>1, TypeNext, PTL DEF Spec

(* The parts on the lock, the socket and the handles hold for every fault. *)
THEOREM ClaimInvariant == Spec => [](TypeOK /\ SocketInv /\ JudgeInv /\ HandleInv)
  <1>1. Init => SocketInv /\ JudgeInv /\ HandleInv
    BY SocketInit, OwnedInit
  <1> QED
    BY <1>1, InstanceTypes, SocketNext, JudgeNext, HandleNext, PTL DEF Spec

(* However many processes start, crash and end, in whatever order, and     *)
(* over reboots, at most one of them and of a daemon that predates the     *)
(* lock is past the claim of the control socket (control::bind).           *)
THEOREM OneDaemonOnly == Spec => []OneDaemon
  <1>1. TypeOK /\ SocketInv => OneDaemon
    BY Constants DEF TypeOK, SocketInv, OneDaemon, Holding, Points, Listening, PastBind
  <1> QED
    BY <1>1, ClaimInvariant, PTL

(* A live socket is neither removed nor replaced, and a start gives up     *)
(* only before a live one, for every number of confirmations above the     *)
(* connects a dying listener may answer (remove_stale_control_socket).     *)
THEOREM SocketsJudgedRight == Spec => []SocketJudged
  <1>1. TypeOK /\ SocketInv /\ JudgeInv => SocketJudged
    BY Constants DEF TypeOK, SocketInv, JudgeInv, Judged, SocketJudged, LiveSocketKept, RefusedOnlyByLive, At
  <1> QED
    BY <1>1, ClaimInvariant, PTL

(* The ports of a ready handle are its own child's while that lives,       *)
(* whatever number of unrelated processes compete (adapter_is_ready).      *)
THEOREM ReadyPortsOwned == Spec => []ReadyOwnsPorts
  <1>1. HandleInv => ReadyOwnsPorts
    BY DEF HandleInv, Handled, ReadyOwnsPorts
  <1> QED
    BY <1>1, ClaimInvariant, PTL

(* If unlinking on stop does not fail, every credential file has an owner  *)
(* at any time, over crashes, reboots, reused process ids and sweeps that  *)
(* fail (AdapterWorkspace, cleanup_stale_instances).                       *)
THEOREM CredentialsAlwaysOwned ==
    ASSUME "stop" \notin Faults
    PROVE  Spec => []NothingOrphaned
  <1> DEFINE Inv == TypeOK /\ SocketInv /\ HandleInv /\ FilesInv /\ IdentityInv /\ SweepInv
  <1>1. Init => FilesInv /\ IdentityInv /\ SweepInv
    BY OwnedInit
  <1>2. TypeOK /\ SocketInv /\ HandleInv /\ FilesInv /\ IdentityInv /\ SweepInv /\ [Next]_vars
          => FilesInv' /\ IdentityInv' /\ SweepInv'
    BY FilesNext, IdentityNext, SweepNext
  <1>3. Inv => NothingOrphaned
    <2> SUFFICES ASSUME Inv PROVE NothingOrphaned
      OBVIOUS
    <2>1. MarkerGuardsCredentials
      BY DEF FilesInv, Kept, MarkerGuardsCredentials
    <2>2. CredentialsSwept
      BY DEF SweepInv, Swept, CredentialsSwept, At
    <2>3. CredentialsOwned
      BY DEF FilesInv, Kept, HandleInv, Handled, CredentialsOwned, At, Phases
    <2>4. CleanExit
      BY ZenonT(40) DEF TypeOK, AdapterTypeOK, SocketInv, FilesInv, Kept, HandleInv, Handled, CleanExit, At, Working, Listening
    <2> QED
      BY <2>1, <2>2, <2>3, <2>4 DEF NothingOrphaned
  <1> QED
    BY <1>1, <1>2, <1>3, ClaimInvariant, PTL DEF Spec

=============================================================================
