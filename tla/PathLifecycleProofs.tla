------------------------ MODULE PathLifecycleProofs ------------------------
(***************************************************************************)
(* Proofs about PathLifecycle, for every set of classes, profiles,         *)
(* connections and paths and every bound.                                  *)
(***************************************************************************)
EXTENDS PathLifecycle, TLAPS

-----------------------------------------------------------------------------
(* Type correctness.                                                        *)

(* The initial state is well typed (run, once the listeners are up). *)
LEMMA InitType == Init => TypeOK
BY LateAssumption, CandidatesAssumption
   DEF Init, TypeOK, Work, NoWork, Txn, NoTxn, NoConn, StopStages

(* Whatever begins, before or after the signal, leaves the shutdown record   *)
(* well typed.                                                               *)
LEMMA MayBeginType ==
    ASSUME TypeOK, MayBegin
    PROVE  stop' \in [at : StopStages, late : 0..MaxLate]
BY LateAssumption DEF MayBegin, TypeOK

(* A new process serves a profile; stopping processes keeps the planes typed. *)
LEMMA PlaneType ==
    ASSUME TypeOK
    PROVE  /\ \A P \in Paths, p \in Profiles :
                 Spawn(P, p) => plane' \in [Paths -> Profiles \cup {None}]
           /\ \A S : Kill(S) => plane' \in [Paths -> Profiles \cup {None}]
BY DEF TypeOK, Spawn, Kill

(* Replacing the record of one class keeps the types of the path changes. *)
LEMMA WorkUpdate ==
    ASSUME TypeOK, NEW c \in Classes, NEW w \in Work,
           w.pc \in {"check", "swapped", "flipped", "recorded"} => w.path # None,
           work' = [work EXCEPT ![c] = w]
    PROVE  /\ work' \in [Classes -> Work]
           /\ \A d \in Classes :
                 work'[d].pc \in {"check", "swapped", "flipped", "recorded"} => work'[d].path # None
BY DEF TypeOK

(* The steps of a path change on one class keep the types (try_candidates,   *)
(* install_active).                                                          *)
LEMMA WorkType ==
    ASSUME TypeOK, NEW c \in Classes, BeginWork(c) \/ WorkStep(c)
    PROVE  TypeOK'
<1>1. work[c] \in Work /\ work[c].left \in 0..Candidates
  BY DEF TypeOK, Work
<1>2. NoWork \in Work /\ NoWork.pc = "idle"
  BY CandidatesAssumption DEF NoWork, Work
<1>3. CASE BeginWork(c)
  <2>1. PICK n \in 1..Candidates :
          work' = [work EXCEPT ![c] = [pc |-> "queued", path |-> None, old |-> None, left |-> n]]
    BY <1>3 DEF BeginWork
  <2>2. [pc |-> "queued", path |-> None, old |-> None, left |-> n] \in Work
    BY CandidatesAssumption DEF Work
  <2>3. /\ work' \in [Classes -> Work]
        /\ \A d \in Classes :
              work'[d].pc \in {"check", "swapped", "flipped", "recorded"} => work'[d].path # None
    BY <2>1, <2>2, WorkUpdate
  <2>4. stop' \in [at : StopStages, late : 0..MaxLate]
    BY <1>3, MayBeginType DEF BeginWork
  <2> QED
    BY <1>3, <2>3, <2>4 DEF BeginWork, TypeOK
<1>4. CASE TryCandidate(c)
  <2>1. PICK P \in Paths :
          /\ Spawn(P, profile)
          /\ work' = [work EXCEPT ![c] = [work[c] EXCEPT !.pc = "check", !.path = P, !.left = @ - 1]]
    BY <1>1, <1>4, ZenonT(40) DEF TryCandidate, TypeOK, Work
  <2>2. work[c].left - 1 \in 0..Candidates
    BY <1>1, <1>4, CandidatesAssumption DEF TryCandidate
  <2>3. /\ [work[c] EXCEPT !.pc = "check", !.path = P, !.left = @ - 1] \in Work
        /\ [work[c] EXCEPT !.pc = "check", !.path = P, !.left = @ - 1].path # None
    BY <1>1, <2>2, PathsAssumption DEF Work
  <2>4. plane' \in [Paths -> Profiles \cup {None}]
    BY <2>1, PlaneType DEF TypeOK
  <2> QED
    BY <1>4, <2>1, <2>3, <2>4, WorkUpdate DEF TryCandidate, TypeOK
<1>5. CASE CheckFails(c)
  BY <1>5, PlaneType DEF CheckFails, TypeOK, Work
<1>6. CASE EndWork(c)
  BY <1>6, <1>2, WorkUpdate DEF EndWork, TypeOK
<1>7. CASE InstallActive(c)
  <2>1. work' = [work EXCEPT ![c] = [work[c] EXCEPT !.pc = "swapped", !.old = active[c]]]
    BY <1>1, <1>7 DEF InstallActive, TypeOK, Work
  <2>2. work[c].path # None /\ work[c].path \in Paths
    BY <1>1, <1>7 DEF InstallActive, TypeOK, Work
  <2>3. /\ [work[c] EXCEPT !.pc = "swapped", !.old = active[c]] \in Work
        /\ [work[c] EXCEPT !.pc = "swapped", !.old = active[c]].path # None
    BY <1>1, <2>2 DEF Work, TypeOK
  <2> QED
    BY <1>7, <2>1, <2>2, <2>3, WorkUpdate DEF InstallActive, TypeOK
<1>8. CASE FlipRoute(c)
  <2>1. work' = [work EXCEPT ![c] = [work[c] EXCEPT !.pc = "flipped"]]
    BY <1>1, <1>8 DEF FlipRoute, TypeOK, Work
  <2>2. work[c].path # None /\ work[c].path \in Paths
    BY <1>1, <1>8 DEF FlipRoute, TypeOK, Work
  <2>3. /\ [work[c] EXCEPT !.pc = "flipped"] \in Work
        /\ [work[c] EXCEPT !.pc = "flipped"].path # None
    BY <1>1, <2>2 DEF Work
  <2> QED
    BY <1>8, <2>1, <2>2, <2>3, WorkUpdate DEF FlipRoute, TypeOK
<1>9. CASE RecordPorts(c)
  <2>1. work' = [work EXCEPT ![c] = [work[c] EXCEPT !.pc = "recorded"]]
    BY <1>1, <1>9 DEF RecordPorts, TypeOK, Work
  <2>2. work[c].path # None /\ work[c].path \in Paths
    BY <1>1, <1>9 DEF RecordPorts, TypeOK, Work
  <2>3. /\ [work[c] EXCEPT !.pc = "recorded"] \in Work
        /\ [work[c] EXCEPT !.pc = "recorded"].path # None
    BY <1>1, <2>2 DEF Work
  <2> QED
    BY <1>9, <2>1, <2>2, <2>3, WorkUpdate DEF RecordPorts, TypeOK
<1>10. CASE RetireOld(c)
  BY <1>2, <1>10, WorkUpdate DEF RetireOld, TypeOK
<1> QED
  BY <1>3, <1>4, <1>5, <1>6, <1>7, <1>8, <1>9, <1>10 DEF WorkStep

(* The steps of a transaction keep the types (switch_subscription_locked). *)
LEMMA TxnType ==
    ASSUME TypeOK, (\E p \in Profiles : BeginTxn(p)) \/ TxnStep
    PROVE  TypeOK'
<1>1. ASSUME NEW p \in Profiles, BeginTxn(p) PROVE TypeOK'
  BY <1>1, MayBeginType, NoneAssumption DEF BeginTxn, TypeOK, Txn, NoTxn
<1>2. CASE LockAll
  BY <1>2 DEF LockAll, TypeOK, Txn
<1>3. ASSUME NEW c \in Classes, StageClass(c) PROVE TypeOK'
  <2>1. PICK P \in Paths :
          Spawn(P, txn.target) /\ txn' = [txn EXCEPT !.staged[c] = P]
    BY <1>3 DEF StageClass
  <2>2. txn.target \in Profiles /\ txn' \in Txn /\ txn'.target = txn.target
    BY <1>3, <2>1 DEF StageClass, TypeOK, Txn
  <2>3. plane' \in [Paths -> Profiles \cup {None}]
    BY <2>1, <2>2, PlaneType
  <2> QED
    BY <1>3, <2>2, <2>3 DEF StageClass, TypeOK
<1>4. CASE AbortTxn
  BY <1>4, PlaneType DEF AbortTxn, TypeOK, Txn, NoTxn
<1>5. CASE Publish
  <2>1. txn.target \in Profiles /\ txn.staged \in [Classes -> Paths \cup {None}]
    BY <1>5 DEF Publish, TypeOK, Txn
  <2>2. traffic' \in [sub : Profiles, from : SUBSET Profiles]
    BY <1>5, <2>1 DEF Publish, SelectSubscription, TypeOK
  <2>3. {active[c] : c \in Classes} \ {None} \subseteq Paths
    BY DEF TypeOK
  <2>4. txn' \in Txn /\ txn'.target = txn.target
    BY <1>5, <2>1, <2>3 DEF Publish, TypeOK, Txn
  <2> QED
    BY <1>5, <2>1, <2>2, <2>4 DEF Publish, TypeOK
<1>6. CASE RetireAll
  BY <1>6 DEF RetireAll, TypeOK, Txn, NoTxn
<1> QED
  BY <1>1, <1>2, <1>3, <1>4, <1>5, <1>6 DEF TxnStep

(* The steps of a drain task keep the types (schedule_drain_with). *)
LEMMA DrainType ==
    ASSUME TypeOK, NEW P \in Paths, DrainTask(P)
    PROVE  TypeOK'
BY PlaneType DEF DrainTask, GraceEnds, HardCap, DrainStop, DrainStep, TypeOK

(* Replacing one connection's record keeps the types of the connections. *)
LEMMA ConnUpdate ==
    ASSUME TypeOK, NEW k \in Conns, NEW w, ConnStep(k, w),
           w \in [pc : {"idle", "accepted", "piped"}, class : Classes \cup {None},
                  path : Paths \cup {None}, lease : BOOLEAN,
                  label : Profiles \cup {None}, origin : Profiles \cup {None}],
           w.pc = "accepted" => w.class # None,
           traffic' \in [sub : Profiles, from : SUBSET Profiles]
    PROVE  TypeOK'
BY DEF TypeOK, ConnStep

(* The steps of a connection keep the types (handle_conn): the counters hold *)
(* profiles only because a connection's label and its path's profile agree.  *)
LEMMA ConnType ==
    ASSUME TypeOK, ConnInv, NEW k \in Conns,
           (\E c \in Classes : Accept(k, c)) \/ Capture(k) \/ Finish(k) \/ Drop(k) \/ AbortConn(k)
    PROVE  TypeOK'
<1>1. ASSUME NEW c \in Classes, Accept(k, c) PROVE TypeOK'
  BY <1>1, NoneAssumption, ConnUpdate DEF Accept, TypeOK, NoConn
<1>2. ASSUME ConnStep(k, NoConn), traffic' \in [sub : Profiles, from : SUBSET Profiles]
      PROVE  TypeOK'
  BY <1>2, ConnUpdate DEF NoConn
<1>3. CASE Capture(k)
  <2>1. conn[k].class \in Classes
    BY <1>3 DEF Capture, TypeOK
  <2> DEFINE r == route[conn[k].class]
             w == [conn[k] EXCEPT !.pc = "piped", !.path = r.path, !.lease = TRUE,
                                  !.label = r.profile, !.origin = plane[r.path]]
  <2>2. r \in [path : Paths \cup {None}, profile : Profiles \cup {None}]
    BY <2>1 DEF TypeOK
  <2>3. CASE r.path = None
    BY <1>2, <1>3, <2>3 DEF Capture, TypeOK
  <2>4. CASE r.path # None
    <3>1. r.path \in Paths /\ plane[r.path] \in Profiles \cup {None}
      BY <2>2, <2>4 DEF TypeOK
    <3>2. /\ w \in [pc : {"idle", "accepted", "piped"}, class : Classes \cup {None},
                    path : Paths \cup {None}, lease : BOOLEAN,
                    label : Profiles \cup {None}, origin : Profiles \cup {None}]
          /\ w.pc = "piped"
      BY <2>2, <3>1, ZenonT(40) DEF TypeOK
    <3>3. ConnStep(k, w) /\ UNCHANGED traffic
      BY <1>3, <2>4 DEF Capture
    <3> HIDE DEF w
    <3> QED
      BY <3>2, <3>3, ConnUpdate DEF TypeOK
  <2> QED
    BY <2>3, <2>4
<1>4. CASE Finish(k)
  <2>1. traffic.sub = conn[k].label => conn[k].origin \in Profiles
    BY <1>4 DEF Finish, TypeOK, ConnInv
  <2>2. traffic' \in [sub : Profiles, from : SUBSET Profiles]
    BY <1>4, <2>1 DEF Finish, TypeOK
  <2> QED
    BY <1>2, <1>4, <2>2 DEF Finish
<1>5. CASE Drop(k)
  BY <1>2, <1>5 DEF Drop, TypeOK
<1> QED
  BY <1>1, <1>3, <1>4, <1>5 DEF AbortConn

(* The steps of the shutdown keep the types (the tail of run). *)
LEMMA StopType ==
    ASSUME TypeOK, Signal \/ ShutdownStep
    PROVE  TypeOK'
<1>1. CASE Signal
  BY <1>1 DEF Signal, TypeOK, StopStages
<1>2. ASSUME NEW c \in Classes, StopActive(c) PROVE TypeOK'
  BY <1>2, PlaneType DEF StopActive, TypeOK
<1> QED
  BY <1>1, <1>2, LateAssumption
     DEF ShutdownStep, JoinWorkers, JoinListeners, StopDraining, Exit, StopStep, TypeOK, StopStages

-----------------------------------------------------------------------------
(* Ownership of the handles.                                                *)

(* Who holds a handle: one of six kinds of holder. *)
LEMMA HolderKinds ==
    ASSUME NEW P, NEW h
    PROVE  h \in Holders(P) <=>
             \/ \E c \in Classes : h = <<"active", c>> /\ active[c] = P
             \/ \E c \in Classes : h = <<"candidate", c>> /\ work[c].pc = "check" /\ work[c].path = P
             \/ \E c \in Classes : h = <<"replaced", c>> /\ work[c].old = P
             \/ \E c \in Classes : h = <<"staged", c>> /\ txn.staged[c] = P
             \/ h = <<"retiring", None>> /\ P \in txn.old
             \/ h = <<"drain", None>> /\ draining[P] # "no"
BY DEF Holders

(* The same after a step. *)
LEMMA HolderKindsNext ==
    ASSUME NEW P, NEW h
    PROVE  h \in Holders(P)' <=>
             \/ \E c \in Classes : h = <<"active", c>> /\ active'[c] = P
             \/ \E c \in Classes : h = <<"candidate", c>> /\ work'[c].pc = "check" /\ work'[c].path = P
             \/ \E c \in Classes : h = <<"replaced", c>> /\ work'[c].old = P
             \/ \E c \in Classes : h = <<"staged", c>> /\ txn'.staged[c] = P
             \/ h = <<"retiring", None>> /\ P \in txn'.old
             \/ h = <<"drain", None>> /\ draining'[P] # "no"
BY DEF Holders

(* A step keeps the ownership when each handle stays where it is, passes to  *)
(* one new holder, or is given up by the step that stops its process.        *)
LEMMA OwnedStep ==
    ASSUME HandleOwnedOnce,
           \A P \in Paths :
              \/ Holders(P)' = Holders(P) /\ (plane'[P] = None <=> plane[P] = None)
              \/ plane'[P] # None /\ \E h : Holders(P)' = {h}
              \/ plane'[P] = None /\ Holders(P)' = {}
    PROVE  HandleOwnedOnce'
BY DEF HandleOwnedOnce

(* What does not touch the handles does not touch their holders. *)
LEMMA HoldersKept ==
    ASSUME NEW P, active' = active,
           \A d \in Classes : /\ work'[d].old = work[d].old
                              /\ work'[d].pc = "check" /\ work'[d].path = P
                                   <=> work[d].pc = "check" /\ work[d].path = P,
           txn'.staged = txn.staged, txn'.old = txn.old,
           draining'[P] = "no" <=> draining[P] = "no"
    PROVE  Holders(P)' = Holders(P)
<1>1. ASSUME NEW h PROVE h \in Holders(P)' <=> h \in Holders(P)
  BY HolderKinds, HolderKindsNext
<1> QED
  BY <1>1

(* A held path has one holder. *)
LEMMA OneHolder ==
    ASSUME HandleOwnedOnce, NEW P \in Paths, NEW h \in Holders(P)
    PROVE  Holders(P) = {h} /\ plane[P] # None
BY DEF HandleOwnedOnce

(* A free path has no holder. *)
LEMMA FreeUnheld ==
    ASSUME HandleOwnedOnce, NEW P \in Free
    PROVE  P \in Paths /\ Holders(P) = {}
BY DEF HandleOwnedOnce, Free

(* Two holders of one handle are the same holder, so holding it as one kind  *)
(* excludes every other kind and every other class.                          *)
LEMMA HoldersApart ==
    ASSUME TypeOK, HandleOwnedOnce, NEW P \in Paths
    PROVE  /\ \A c, d \in Classes : active[c] = P =>
                 /\ active[d] = P => c = d
                 /\ ~(work[d].pc = "check" /\ work[d].path = P)
                 /\ work[d].old # P /\ txn.staged[d] # P /\ P \notin txn.old
                 /\ draining[P] = "no"
           /\ \A c, d \in Classes : work[c].pc = "check" /\ work[c].path = P =>
                 /\ work[d].pc = "check" /\ work[d].path = P => c = d
                 /\ work[d].old # P /\ txn.staged[d] # P /\ P \notin txn.old
                 /\ draining[P] = "no"
           /\ \A c, d \in Classes : work[c].old = P =>
                 /\ work[d].old = P => c = d
                 /\ txn.staged[d] # P /\ P \notin txn.old /\ draining[P] = "no"
           /\ \A c, d \in Classes : txn.staged[c] = P =>
                 /\ txn.staged[d] = P => c = d
                 /\ P \notin txn.old /\ draining[P] = "no"
           /\ P \in txn.old => draining[P] = "no"
<1>1. \A h, j \in Holders(P) : h[1] = j[1] /\ h[2] = j[2]
  BY DEF HandleOwnedOnce
<1>2. \A c \in Classes : active[c] = P => <<"active", c>> \in Holders(P)
  BY HolderKinds
<1>3. \A c \in Classes : work[c].pc = "check" /\ work[c].path = P => <<"candidate", c>> \in Holders(P)
  BY HolderKinds
<1>4. \A c \in Classes : work[c].old = P => <<"replaced", c>> \in Holders(P)
  BY HolderKinds
<1>5. \A c \in Classes : txn.staged[c] = P => <<"staged", c>> \in Holders(P)
  BY HolderKinds
<1>6. P \in txn.old => <<"retiring", None>> \in Holders(P)
  BY HolderKinds
<1>7. draining[P] # "no" => <<"drain", None>> \in Holders(P)
  BY HolderKinds
<1> QED
  BY <1>1, <1>2, <1>3, <1>4, <1>5, <1>6, <1>7, ZenonT(40)

-----------------------------------------------------------------------------
(* The inductive invariant, action by action.                               *)

(* A path change that begins or ends without a candidate moves no handle.    *)
LEMMA BeginWorkInv ==
    ASSUME TypeOK, PathInv, NEW c \in Classes, BeginWork(c)
    PROVE  PathInv'
<1>1. PICK n \in 1..Candidates :
        work' = [work EXCEPT ![c] = [pc |-> "queued", path |-> None, old |-> None, left |-> n]]
  BY DEF BeginWork
<1>2. /\ work[c].pc = "idle" /\ work'[c].pc = "queued"
      /\ work'[c].path = None /\ work'[c].old = None
      /\ \A d \in Classes : d # c => work'[d] = work[d]
  BY <1>1 DEF BeginWork, TypeOK
<1>3. UNCHANGED <<plane, active, route, ports, txn, draining, conn, profile, traffic>>
  BY DEF BeginWork
<1>4. stop'.at = stop.at /\ stop.at \in {"no", "signal"}
  BY DEF BeginWork, MayBegin, TypeOK
<1>5. work[c].old = None
  BY <1>2 DEF PathInv, WorkInv, Installing
<1>6. HandleOwnedOnce'
  BY <1>2, <1>3, <1>5, HoldersKept, OwnedStep DEF PathInv
<1>7. WorkInv' /\ TxnInv' /\ PlaneInv'
  BY <1>2, <1>3, <1>5 DEF PathInv, WorkInv, TxnInv, PlaneInv, Installing, HoldsLocks
<1>8. RouteInv' /\ ConnInv' /\ StopInv'
  BY <1>2, <1>3, <1>4, <1>5 DEF PathInv, RouteInv, ConnInv, StopInv, Serving
<1> QED
  BY <1>3, <1>6, <1>7, <1>8 DEF PathInv, TrafficIsolated

(* A worker that ends releases its class and disturbs nothing else. *)
LEMMA EndWorkInv ==
    ASSUME TypeOK, PathInv, NEW c \in Classes, EndWork(c)
    PROVE  PathInv'
<1>1. /\ work[c].pc \in {"queued", "next"} /\ work'[c] = NoWork
      /\ \A d \in Classes : d # c => work'[d] = work[d]
  BY DEF EndWork, TypeOK
<1>2. work'[c].pc = "idle" /\ work'[c].path = None /\ work'[c].old = None
  BY <1>1 DEF NoWork
<1>3. UNCHANGED <<plane, active, route, ports, txn, draining, conn, profile, traffic, stop>>
  BY DEF EndWork
<1>4. work[c].old = None
  BY <1>1 DEF PathInv, WorkInv, Installing
<1>5. HandleOwnedOnce'
  BY <1>1, <1>2, <1>3, <1>4, HoldersKept, OwnedStep DEF PathInv
<1>6. WorkInv' /\ TxnInv' /\ PlaneInv'
  BY <1>1, <1>2, <1>3, <1>4 DEF PathInv, WorkInv, TxnInv, PlaneInv, Installing, HoldsLocks
<1>7. RouteInv' /\ ConnInv' /\ StopInv'
  BY <1>1, <1>2, <1>3, <1>4 DEF PathInv, RouteInv, ConnInv, StopInv, Serving
<1> QED
  BY <1>3, <1>5, <1>6, <1>7 DEF PathInv, TrafficIsolated

(* A candidate is started on a path that nobody holds, routes or uses. *)
LEMMA TryCandidateInv ==
    ASSUME TypeOK, PathInv, NEW c \in Classes, TryCandidate(c)
    PROVE  PathInv'
<1>1. PICK P \in Paths :
        /\ P \in Free /\ plane' = [plane EXCEPT ![P] = profile]
        /\ work' = [work EXCEPT ![c].pc = "check", ![c].path = P, ![c].left = @ - 1]
  BY DEF TryCandidate, Spawn
<1>2. /\ work[c].pc \in {"queued", "next"} /\ work'[c].pc = "check"
      /\ work'[c].path = P /\ work'[c].old = work[c].old
      /\ \A d \in Classes : d # c => work'[d] = work[d]
  BY <1>1 DEF TryCandidate, TypeOK, Work
<1>3. UNCHANGED <<active, route, ports, txn, draining, conn, profile, traffic, stop>>
  BY DEF TryCandidate
<1>4. work[c].old = None /\ txn.pc \in {"idle", "queued"}
  BY <1>2 DEF PathInv, WorkInv, Installing, TryCandidate
<1>5. Holders(P) = {} /\ P # None
  BY <1>1, FreeUnheld, PathsAssumption DEF PathInv
<1>6. plane'[P] = profile /\ profile # None /\ \A Q \in Paths : Q # P => plane'[Q] = plane[Q]
  BY <1>1, NoneAssumption DEF TypeOK
<1>7. HandleOwnedOnce'
  <2>1. ASSUME NEW Q \in Paths, Q # P PROVE Holders(Q)' = Holders(Q)
    BY <1>2, <1>3, <2>1, HoldersKept
  <2>2. Holders(P)' = {<<"candidate", c>>}
    <3>1. ASSUME NEW h PROVE h \in Holders(P)' <=> h = <<"candidate", c>>
      BY <1>2, <1>3, <1>5, HolderKinds, HolderKindsNext
    <3> QED
      BY <3>1
  <2> QED
    BY <1>6, <2>1, <2>2, OwnedStep DEF PathInv
<1>8. \A d \in Classes : active[d] # P /\ work[d].old # P /\ txn.staged[d] # P
  BY <1>5, HolderKinds
<1>9. \A d \in Classes : d # c => ~(work[d].pc = "check" /\ work[d].path = P)
  BY <1>5, HolderKinds
<1>10. WorkInv' /\ TxnInv'
  BY <1>2, <1>3, <1>4 DEF PathInv, WorkInv, TxnInv, Installing, HoldsLocks
<1>11. PlaneInv'
  <2>1. ASSUME NEW d \in Classes
        PROVE  /\ active[d] \in Paths \cup {None} /\ work[d].old \in Paths \cup {None}
               /\ txn.staged[d] \in Paths \cup {None}
               /\ work[d].pc = "check" => work[d].path \in Paths
    BY DEF TypeOK, Work, Txn
  <2> QED
    BY <1>2, <1>3, <1>4, <1>6, <1>8, <1>9, <2>1 DEF PathInv, PlaneInv
<1>12. RouteInv' /\ StopInv'
  BY <1>2, <1>3, <1>4 DEF PathInv, RouteInv, StopInv, Serving
<1>13. \A k \in Conns : conn[k].path # P
  BY <1>1 DEF Free
<1>14. ConnInv'
  BY <1>2, <1>3, <1>13 DEF PathInv, ConnInv
<1> QED
  BY <1>3, <1>7, <1>10, <1>11, <1>12, <1>14 DEF PathInv, TrafficIsolated

(* A failed pre-check stops the candidate, which only its class holds. *)
LEMMA CheckFailsInv ==
    ASSUME TypeOK, PathInv, NEW c \in Classes, CheckFails(c)
    PROVE  PathInv'
<1>1. PICK P \in Paths : work[c].pc = "check" /\ work[c].path = P
  BY DEF CheckFails, TypeOK, Work
<1>2. /\ work'[c].pc = "next" /\ work'[c].path = None /\ work'[c].old = work[c].old
      /\ \A d \in Classes : d # c => work'[d] = work[d]
  BY DEF CheckFails, TypeOK, Work
<1>3. UNCHANGED <<active, route, ports, txn, draining, conn, profile, traffic, stop>>
  BY DEF CheckFails
<1>4. plane'[P] = None /\ \A Q \in Paths : Q # P => plane'[Q] = plane[Q]
  BY <1>1 DEF CheckFails, Kill
<1>5. /\ \A d \in Classes : active[d] # P /\ work[d].old # P /\ txn.staged[d] # P
      /\ \A d \in Classes : d # c => ~(work[d].pc = "check" /\ work[d].path = P)
      /\ P \notin txn.old /\ draining[P] = "no"
  BY <1>1, HoldersApart DEF PathInv
<1>6. HandleOwnedOnce'
  <2>1. ASSUME NEW Q \in Paths, Q # P PROVE Holders(Q)' = Holders(Q)
    BY <1>1, <1>2, <1>3, <2>1, HoldersKept
  <2>2. Holders(P)' = {}
    <3>1. ASSUME NEW h PROVE h \notin Holders(P)'
      BY <1>2, <1>3, <1>5, HolderKindsNext
    <3> QED
      BY <3>1
  <2> QED
    BY <1>4, <2>1, <2>2, OwnedStep DEF PathInv
<1>7. WorkInv' /\ TxnInv'
  BY <1>1, <1>2, <1>3 DEF PathInv, WorkInv, TxnInv, Installing, HoldsLocks
<1>8. PlaneInv'
  <2>1. ASSUME NEW d \in Classes
        PROVE  /\ active[d] \in Paths \cup {None} /\ work[d].old \in Paths \cup {None}
               /\ txn.staged[d] \in Paths \cup {None}
               /\ work[d].pc = "check" => work[d].path \in Paths
    BY DEF TypeOK, Work, Txn
  <2> QED
    BY <1>2, <1>3, <1>4, <1>5, <2>1 DEF PathInv, PlaneInv
<1>9. RouteInv' /\ StopInv' /\ ConnInv'
  BY <1>1, <1>2, <1>3 DEF PathInv, RouteInv, StopInv, ConnInv, Serving
<1> QED
  BY <1>3, <1>6, <1>7, <1>8, <1>9 DEF PathInv, TrafficIsolated

(* install_active takes over the candidate and keeps the replaced handle. *)
LEMMA InstallActiveInv ==
    ASSUME TypeOK, PathInv, NEW c \in Classes, InstallActive(c)
    PROVE  PathInv'
<1>1. PICK P \in Paths, O \in Paths \cup {None} :
        work[c].pc = "check" /\ work[c].path = P /\ active[c] = O
  BY DEF InstallActive, TypeOK, Work
<1>2. /\ work'[c].pc = "swapped" /\ work'[c].path = P /\ work'[c].old = O
      /\ \A d \in Classes : d # c => work'[d] = work[d]
  BY <1>1 DEF InstallActive, TypeOK, Work
<1>3. active'[c] = P /\ \A d \in Classes : d # c => active'[d] = active[d]
  BY <1>1 DEF InstallActive, TypeOK
<1>4. UNCHANGED <<plane, route, ports, txn, draining, conn, profile, traffic, stop>>
  BY DEF InstallActive
<1>5. P # None /\ \A Q \in Paths : Q # None
  BY PathsAssumption
<1>6. /\ \A d \in Classes : active[d] # P /\ work[d].old # P /\ txn.staged[d] # P
      /\ \A d \in Classes : d # c => ~(work[d].pc = "check" /\ work[d].path = P)
      /\ P \notin txn.old /\ draining[P] = "no"
  BY <1>1, HoldersApart DEF PathInv
<1>7. O \in Paths =>
         /\ \A d \in Classes : work[d].old # O /\ txn.staged[d] # O
         /\ \A d \in Classes : ~(work[d].pc = "check" /\ work[d].path = O)
         /\ \A d \in Classes : d # c => active[d] # O
         /\ O \notin txn.old /\ draining[O] = "no"
  BY <1>1, HoldersApart DEF PathInv
<1>8. work[c].old = None
  BY <1>1 DEF PathInv, WorkInv, Installing
<1>9. plane[P] # None /\ (O \in Paths => plane[O] # None)
  BY <1>1, <1>5, NoneAssumption DEF PathInv, PlaneInv, TypeOK
<1>10. HandleOwnedOnce'
  <2>1. ASSUME NEW Q \in Paths, Q # P, Q # O PROVE Holders(Q)' = Holders(Q)
    <3>1. ASSUME NEW h PROVE h \in Holders(Q)' <=> h \in Holders(Q)
      BY <1>1, <1>2, <1>3, <1>4, <1>5, <1>8, <2>1, HolderKinds, HolderKindsNext
    <3> QED
      BY <3>1
  <2>2. Holders(P)' = {<<"active", c>>}
    <3>1. ASSUME NEW h PROVE h \in Holders(P)' <=> h = <<"active", c>>
      BY <1>1, <1>2, <1>3, <1>4, <1>6, HolderKindsNext
    <3> QED
      BY <3>1
  <2>3. O \in Paths => Holders(O)' = {<<"replaced", c>>}
    <3>1. ASSUME NEW h, O \in Paths PROVE h \in Holders(O)' <=> h = <<"replaced", c>>
      BY <1>1, <1>2, <1>3, <1>4, <1>6, <1>7, <3>1, HolderKindsNext
    <3> QED
      BY <3>1
  <2> QED
    BY <1>4, <1>9, <2>1, <2>2, <2>3, OwnedStep DEF PathInv
<1>11. WorkInv' /\ TxnInv' /\ PlaneInv'
  BY <1>1, <1>2, <1>3, <1>4, <1>8 DEF PathInv, WorkInv, TxnInv, PlaneInv, Installing, HoldsLocks
<1>12. RouteInv'
  BY <1>1, <1>2, <1>3, <1>4, <1>8 DEF PathInv, RouteInv, Serving
<1>13. ConnInv' /\ StopInv'
  BY <1>1, <1>2, <1>3, <1>4, <1>8 DEF PathInv, ConnInv, StopInv, Serving
<1> QED
  BY <1>4, <1>10, <1>11, <1>12, <1>13 DEF PathInv, TrafficIsolated

(* The route follows the handle, labelled with the live profile. *)
LEMMA FlipRouteInv ==
    ASSUME TypeOK, PathInv, NEW c \in Classes, FlipRoute(c)
    PROVE  PathInv'
<1>1. /\ work[c].pc = "swapped" /\ work'[c].pc = "flipped"
      /\ work'[c].path = work[c].path /\ work'[c].old = work[c].old
      /\ \A d \in Classes : d # c => work'[d] = work[d]
  BY DEF FlipRoute, TypeOK, Work
<1>2. /\ route'[c].path = work[c].path /\ route'[c].profile = profile
      /\ \A d \in Classes : d # c => route'[d] = route[d]
  BY DEF FlipRoute, TypeOK
<1>3. UNCHANGED <<plane, active, ports, txn, draining, conn, profile, traffic, stop>>
  BY DEF FlipRoute
<1>4. HandleOwnedOnce'
  BY <1>1, <1>3, HoldersKept, OwnedStep DEF PathInv
<1>5. WorkInv' /\ TxnInv' /\ PlaneInv'
  BY <1>1, <1>3 DEF PathInv, WorkInv, TxnInv, PlaneInv, Installing, HoldsLocks
<1>6. RouteInv'
  BY <1>1, <1>2, <1>3 DEF PathInv, RouteInv, WorkInv, Serving, Installing
<1>7. ConnInv' /\ StopInv'
  BY <1>1, <1>3 DEF PathInv, ConnInv, StopInv, Serving
<1> QED
  BY <1>3, <1>4, <1>5, <1>6, <1>7 DEF PathInv, TrafficIsolated

(* The ports in the state follow the route. *)
LEMMA RecordPortsInv ==
    ASSUME TypeOK, PathInv, NEW c \in Classes, RecordPorts(c)
    PROVE  PathInv'
<1>1. /\ work[c].pc = "flipped" /\ work'[c].pc = "recorded"
      /\ work'[c].path = work[c].path /\ work'[c].old = work[c].old
      /\ \A d \in Classes : d # c => work'[d] = work[d]
  BY DEF RecordPorts, TypeOK, Work
<1>2. ports'[c] = work[c].path /\ \A d \in Classes : d # c => ports'[d] = ports[d]
  BY DEF RecordPorts, TypeOK
<1>3. UNCHANGED <<plane, active, route, txn, draining, conn, profile, traffic, stop>>
  BY DEF RecordPorts
<1>4. HandleOwnedOnce'
  BY <1>1, <1>3, HoldersKept, OwnedStep DEF PathInv
<1>5. WorkInv' /\ TxnInv' /\ PlaneInv'
  BY <1>1, <1>3 DEF PathInv, WorkInv, TxnInv, PlaneInv, Installing, HoldsLocks
<1>6. RouteInv'
  BY <1>1, <1>2, <1>3 DEF PathInv, RouteInv, WorkInv, Serving, Installing
<1>7. ConnInv' /\ StopInv'
  BY <1>1, <1>2, <1>3 DEF PathInv, ConnInv, StopInv, Serving
<1> QED
  BY <1>3, <1>4, <1>5, <1>6, <1>7 DEF PathInv, TrafficIsolated

(* schedule_drain takes the replaced handle over. *)
LEMMA RetireOldInv ==
    ASSUME TypeOK, PathInv, NEW c \in Classes, RetireOld(c)
    PROVE  PathInv'
<1>1. PICK O \in Paths \cup {None} : work[c].pc = "recorded" /\ work[c].old = O
  BY DEF RetireOld, TypeOK, Work
<1>2. /\ work'[c] = NoWork /\ work'[c].pc = "idle" /\ work'[c].path = None /\ work'[c].old = None
      /\ \A d \in Classes : d # c => work'[d] = work[d]
  BY DEF RetireOld, NoWork, TypeOK
<1>3. \A P \in Paths : draining'[P] = IF P = O THEN "grace" ELSE draining[P]
  BY <1>1 DEF RetireOld
<1>4. UNCHANGED <<plane, active, route, ports, txn, conn, profile, traffic, stop>>
  BY DEF RetireOld
<1>5. O \in Paths =>
         /\ \A d \in Classes : active[d] # O /\ txn.staged[d] # O
         /\ \A d \in Classes : ~(work[d].pc = "check" /\ work[d].path = O)
         /\ \A d \in Classes : d # c => work[d].old # O
         /\ O \notin txn.old
  BY <1>1, HoldersApart DEF PathInv
<1>6. O \in Paths => plane[O] # None
  BY <1>1, PathsAssumption, NoneAssumption DEF PathInv, PlaneInv, TypeOK
<1>7. HandleOwnedOnce'
  <2>1. ASSUME NEW Q \in Paths, Q # O PROVE Holders(Q)' = Holders(Q)
    <3>1. Q # None
      BY PathsAssumption
    <3>2. ASSUME NEW h PROVE h \in Holders(Q)' <=> h \in Holders(Q)
      BY <1>1, <1>2, <1>3, <1>4, <2>1, <3>1, HolderKinds, HolderKindsNext
    <3> QED
      BY <3>2
  <2>2. O \in Paths => Holders(O)' = {<<"drain", None>>}
    <3>1. ASSUME NEW h, O \in Paths PROVE h \in Holders(O)' <=> h = <<"drain", None>>
      <4>1. O # None
        BY <3>1, PathsAssumption
      <4> QED
        BY <1>2, <1>3, <1>4, <1>5, <3>1, <4>1, HolderKindsNext
    <3> QED
      BY <3>1
  <2> QED
    BY <1>4, <1>6, <2>1, <2>2, OwnedStep DEF PathInv
<1>8. WorkInv' /\ TxnInv' /\ PlaneInv'
  BY <1>1, <1>2, <1>4 DEF PathInv, WorkInv, TxnInv, PlaneInv, Installing, HoldsLocks
<1>9. RouteInv'
  BY <1>1, <1>2, <1>4 DEF PathInv, RouteInv, Serving
<1>10. ConnInv' /\ StopInv'
  BY <1>1, <1>2, <1>4 DEF PathInv, ConnInv, StopInv, Serving
<1> QED
  BY <1>4, <1>7, <1>8, <1>9, <1>10 DEF PathInv, TrafficIsolated

(* A transaction that begins holds nothing. *)
LEMMA BeginTxnInv ==
    ASSUME TypeOK, PathInv, NEW p \in Profiles, BeginTxn(p)
    PROVE  PathInv'
<1>1. /\ txn.pc = "idle" /\ txn'.pc = "queued" /\ txn'.old = {}
      /\ \A c \in Classes : txn'.staged[c] = None
      /\ txn'.staged = [c \in Classes |-> None]
  BY DEF BeginTxn, NoTxn
<1>2. UNCHANGED <<plane, active, route, ports, work, draining, conn, profile, traffic>>
  BY DEF BeginTxn
<1>3. stop'.at = stop.at /\ stop.at \in {"no", "signal"}
  BY DEF BeginTxn, MayBegin, TypeOK
<1>4. txn.old = {} /\ txn.staged = [c \in Classes |-> None]
  BY <1>1 DEF PathInv, TxnInv, TypeOK, Txn
<1>5. HandleOwnedOnce'
  BY <1>1, <1>2, <1>4, HoldersKept, OwnedStep DEF PathInv
<1>6. WorkInv' /\ TxnInv' /\ PlaneInv'
  BY <1>1, <1>2 DEF PathInv, WorkInv, TxnInv, PlaneInv, HoldsLocks
<1>7. RouteInv' /\ ConnInv' /\ StopInv'
  BY <1>1, <1>2, <1>3 DEF PathInv, RouteInv, ConnInv, StopInv, Serving
<1> QED
  BY <1>2, <1>5, <1>6, <1>7 DEF PathInv, TrafficIsolated

(* Once it has the locks no class is changing its path. *)
LEMMA LockAllInv ==
    ASSUME TypeOK, PathInv, LockAll
    PROVE  PathInv'
<1>1. /\ txn.pc = "queued" /\ txn'.pc = "stage" /\ txn'.old = txn.old
      /\ txn'.staged = txn.staged /\ txn'.target = txn.target
  BY DEF LockAll, TypeOK, Txn
<1>2. UNCHANGED <<plane, active, route, ports, work, draining, conn, profile, traffic, stop>>
  BY DEF LockAll
<1>3. HandleOwnedOnce'
  BY <1>1, <1>2, HoldersKept, OwnedStep DEF PathInv
<1>4. WorkInv' /\ TxnInv' /\ PlaneInv'
  BY <1>1, <1>2 DEF LockAll, PathInv, WorkInv, TxnInv, PlaneInv, HoldsLocks
<1>5. RouteInv' /\ ConnInv' /\ StopInv'
  BY <1>1, <1>2 DEF PathInv, RouteInv, ConnInv, StopInv, Serving
<1> QED
  BY <1>2, <1>3, <1>4, <1>5 DEF PathInv, TrafficIsolated

(* A staged path is new, and serves the target profile. *)
LEMMA StageClassInv ==
    ASSUME TypeOK, PathInv, NEW c \in Classes, StageClass(c)
    PROVE  PathInv'
<1>1. PICK P \in Paths :
        /\ P \in Free /\ plane' = [plane EXCEPT ![P] = txn.target]
        /\ txn' = [txn EXCEPT !.staged[c] = P]
  BY DEF StageClass, Spawn
<1>2. /\ txn.pc = "stage" /\ txn'.pc = "stage" /\ txn'.old = txn.old /\ txn'.target = txn.target
      /\ txn.staged[c] = None /\ txn'.staged[c] = P
      /\ \A d \in Classes : d # c => txn'.staged[d] = txn.staged[d]
  BY <1>1 DEF StageClass, TypeOK, Txn
<1>3. UNCHANGED <<active, route, ports, work, draining, conn, profile, traffic, stop>>
  BY DEF StageClass
<1>4. Holders(P) = {} /\ P # None
  BY <1>1, FreeUnheld, PathsAssumption DEF PathInv
<1>5. /\ \A d \in Classes : active[d] # P /\ work[d].old # P /\ txn.staged[d] # P
      /\ \A d \in Classes : ~(work[d].pc = "check" /\ work[d].path = P)
      /\ P \notin txn.old /\ draining[P] = "no"
  BY <1>4, HolderKinds
<1>6. plane'[P] = txn.target /\ txn.target # None /\ \A Q \in Paths : Q # P => plane'[Q] = plane[Q]
  BY <1>1, <1>2 DEF TypeOK
<1>7. HandleOwnedOnce'
  <2>1. ASSUME NEW Q \in Paths, Q # P PROVE Holders(Q)' = Holders(Q)
    <3>1. Q # None
      BY PathsAssumption
    <3>2. ASSUME NEW h PROVE h \in Holders(Q)' <=> h \in Holders(Q)
      BY <1>2, <1>3, <2>1, <3>1, HolderKinds, HolderKindsNext
    <3> QED
      BY <3>2
  <2>2. Holders(P)' = {<<"staged", c>>}
    <3>1. ASSUME NEW h PROVE h \in Holders(P)' <=> h = <<"staged", c>>
      BY <1>2, <1>3, <1>5, HolderKindsNext
    <3> QED
      BY <3>1
  <2> QED
    BY <1>6, <2>1, <2>2, OwnedStep DEF PathInv
<1>8. WorkInv' /\ TxnInv'
  BY <1>2, <1>3 DEF PathInv, WorkInv, TxnInv, HoldsLocks
<1>9. PlaneInv'
  <2>1. ASSUME NEW d \in Classes
        PROVE  /\ active[d] \in Paths \cup {None} /\ work[d].old \in Paths \cup {None}
               /\ txn.staged[d] \in Paths \cup {None}
               /\ work[d].pc = "check" => work[d].path \in Paths
    BY DEF TypeOK, Work, Txn
  <2> QED
    BY <1>2, <1>3, <1>5, <1>6, <2>1 DEF PathInv, PlaneInv
<1>10. RouteInv' /\ StopInv'
  BY <1>2, <1>3 DEF PathInv, RouteInv, StopInv, Serving
<1>11. \A k \in Conns : conn[k].path # P
  BY <1>1 DEF Free
<1>12. ConnInv'
  BY <1>2, <1>3, <1>11 DEF PathInv, ConnInv
<1> QED
  BY <1>3, <1>7, <1>8, <1>9, <1>10, <1>12 DEF PathInv, TrafficIsolated

(* An abort stops what is staged, and nothing else. *)
LEMMA AbortTxnInv ==
    ASSUME TypeOK, PathInv, AbortTxn
    PROVE  PathInv'
<1>1. /\ txn.pc \in {"queued", "stage"} /\ txn'.pc = "idle" /\ txn'.old = {} /\ txn.old = {}
      /\ \A c \in Classes : txn'.staged[c] = None
  BY DEF AbortTxn, NoTxn, PathInv, TxnInv
<1>2. UNCHANGED <<active, route, ports, work, draining, conn, profile, traffic, stop>>
  BY DEF AbortTxn
<1>3. \A P \in Paths : plane'[P] = IF P \in Staged THEN None ELSE plane[P]
  BY DEF AbortTxn, Kill
<1>4. \A P \in Paths : P \in Staged =>
         /\ \A d \in Classes : active[d] # P /\ work[d].old # P
         /\ \A d \in Classes : ~(work[d].pc = "check" /\ work[d].path = P)
         /\ draining[P] = "no"
  BY HoldersApart DEF PathInv, Staged
<1>5. HandleOwnedOnce'
  <2>1. ASSUME NEW Q \in Paths, Q \notin Staged PROVE Holders(Q)' = Holders(Q)
    <3>1. Q # None /\ \A d \in Classes : txn.staged[d] # Q
      BY <2>1, PathsAssumption DEF Staged
    <3>2. ASSUME NEW h PROVE h \in Holders(Q)' <=> h \in Holders(Q)
      BY <1>1, <1>2, <3>1, HolderKinds, HolderKindsNext
    <3> QED
      BY <3>2
  <2>2. ASSUME NEW Q \in Paths, Q \in Staged PROVE Holders(Q)' = {}
    <3>1. ASSUME NEW h PROVE h \notin Holders(Q)'
      BY <1>1, <1>2, <1>4, <2>2, PathsAssumption, HolderKindsNext
    <3> QED
      BY <3>1
  <2> QED
    BY <1>3, <2>1, <2>2, OwnedStep DEF PathInv
<1>6. WorkInv' /\ TxnInv'
  BY <1>1, <1>2 DEF PathInv, WorkInv, TxnInv
<1>7. PlaneInv'
  <2>1. ASSUME NEW d \in Classes
        PROVE  /\ active[d] \in Paths \cup {None} /\ work[d].old \in Paths \cup {None}
               /\ work[d].pc = "check" => work[d].path \in Paths
    BY DEF TypeOK, Work
  <2> QED
    BY <1>1, <1>2, <1>3, <1>4, <2>1 DEF PathInv, PlaneInv
<1>8. RouteInv' /\ StopInv'
  BY <1>1, <1>2 DEF PathInv, RouteInv, StopInv, Serving
<1>9. ConnInv'
  BY <1>1, <1>2 DEF PathInv, ConnInv
<1> QED
  BY <1>2, <1>5, <1>6, <1>7, <1>8, <1>9 DEF PathInv, TrafficIsolated

(* Publication makes the staged paths active on every class at once and      *)
(* takes the replaced handles along.                                         *)
LEMMA PublishInv ==
    ASSUME TypeOK, PathInv, Publish
    PROVE  PathInv'
<1>1. /\ txn.pc = "stage" /\ txn.old = {}
      /\ \A c \in Classes : txn.staged[c] \in Paths /\ active'[c] = txn.staged[c]
      /\ \A c \in Classes : ports'[c] = txn.staged[c]
  BY DEF Publish, PathInv, TxnInv, TypeOK, Txn
<1>2. /\ txn'.pc = "retire" /\ txn'.target = txn.target
      /\ \A c \in Classes : txn'.staged[c] = None
      /\ \A P : P \in txn'.old <=> P # None /\ \E c \in Classes : active[c] = P
  BY DEF Publish, TypeOK, Txn
<1>3. \A c \in Classes : route'[c].path = txn.staged[c] /\ route'[c].profile = txn.target
  BY DEF Publish
<1>4. UNCHANGED <<plane, work, draining, conn, stop>> /\ profile' = txn.target
  BY DEF Publish
<1>5. \A c \in Classes : work[c].pc \in {"idle", "queued"} /\ work[c].old = None
  BY <1>1 DEF PathInv, TxnInv, WorkInv, HoldsLocks, Installing
<1>6. \A P \in Paths, c \in Classes : txn.staged[c] = P =>
         /\ \A d \in Classes : active[d] # P /\ (txn.staged[d] = P => c = d)
         /\ draining[P] = "no" /\ plane[P] # None /\ P # None
  BY <1>1, HoldersApart, PathsAssumption DEF PathInv, PlaneInv, TypeOK
<1>7. \A P \in Paths, c \in Classes : active[c] = P =>
         /\ \A d \in Classes : txn.staged[d] # P
         /\ draining[P] = "no" /\ plane[P] # None /\ P # None
  <2>1. ASSUME NEW P \in Paths, NEW c \in Classes, active[c] = P
        PROVE  plane[P] # None /\ P # None
    BY <2>1, PathsAssumption, NoneAssumption DEF PathInv, PlaneInv, TypeOK
  <2>2. ASSUME NEW P \in Paths, NEW c \in Classes, active[c] = P
        PROVE  draining[P] = "no" /\ \A d \in Classes : txn.staged[d] # P
    BY <2>2, HoldersApart DEF PathInv
  <2> QED
    BY <2>1, <2>2
<1>8. HandleOwnedOnce'
  <2>1. ASSUME NEW P \in Paths, NEW c \in Classes, txn.staged[c] = P
        PROVE  Holders(P)' = {<<"active", c>>}
    <3>1. ASSUME NEW h PROVE h \in Holders(P)' <=> h = <<"active", c>>
      BY <1>1, <1>2, <1>4, <1>5, <1>6, <2>1, HolderKindsNext
    <3> QED
      BY <3>1
  <2>2. ASSUME NEW P \in Paths, NEW c \in Classes, active[c] = P
        PROVE  Holders(P)' = {<<"retiring", None>>}
    <3>1. ASSUME NEW h PROVE h \in Holders(P)' <=> h = <<"retiring", None>>
      BY <1>1, <1>2, <1>4, <1>5, <1>7, <2>2, HolderKindsNext
    <3> QED
      BY <3>1
  <2>3. ASSUME NEW P \in Paths, \A c \in Classes : txn.staged[c] # P /\ active[c] # P
        PROVE  Holders(P)' = Holders(P)
    <3>1. P # None
      BY PathsAssumption
    <3>2. ASSUME NEW h PROVE h \in Holders(P)' <=> h \in Holders(P)
      BY <1>1, <1>2, <1>4, <1>5, <2>3, <3>1, HolderKinds, HolderKindsNext
    <3> QED
      BY <3>2
  <2>4. ASSUME NEW P \in Paths
        PROVE  \/ Holders(P)' = Holders(P) /\ (plane'[P] = None <=> plane[P] = None)
               \/ plane'[P] # None /\ \E h : Holders(P)' = {h}
               \/ plane'[P] = None /\ Holders(P)' = {}
    <3>1. CASE \E c \in Classes : txn.staged[c] = P
      <4>1. (\E h : Holders(P)' = {h}) /\ plane'[P] # None
        BY <1>4, <1>6, <2>1, <3>1
      <4> QED
        BY <4>1
    <3>2. CASE \E c \in Classes : active[c] = P
      <4>1. (\E h : Holders(P)' = {h}) /\ plane'[P] # None
        BY <1>4, <1>7, <2>2, <3>2
      <4> QED
        BY <4>1
    <3>3. CASE \A c \in Classes : txn.staged[c] # P /\ active[c] # P
      BY <1>4, <2>3, <3>3
    <3> QED
      BY <3>1, <3>2, <3>3
  <2> QED
    BY <2>4, OwnedStep DEF PathInv
<1>9. WorkInv' /\ TxnInv'
  BY <1>2, <1>4, <1>5 DEF PathInv, WorkInv, TxnInv, HoldsLocks, Installing
<1>10. PlaneInv'
  BY <1>1, <1>2, <1>4, <1>5 DEF PathInv, PlaneInv
<1>11. RouteInv' /\ StopInv'
  BY <1>1, <1>2, <1>3, <1>4, <1>5 DEF PathInv, RouteInv, StopInv, Serving
<1>12. ConnInv'
  BY <1>2, <1>4, <1>5 DEF PathInv, ConnInv
<1>13. TrafficIsolated'
  BY <1>4 DEF Publish, SelectSubscription, PathInv, TrafficIsolated
<1> QED
  BY <1>8, <1>9, <1>10, <1>11, <1>12, <1>13 DEF PathInv

(* The replaced handles pass to their drain tasks. *)
LEMMA RetireAllInv ==
    ASSUME TypeOK, PathInv, RetireAll
    PROVE  PathInv'
<1>1. /\ txn.pc = "retire" /\ txn'.pc = "idle" /\ txn'.old = {}
      /\ \A c \in Classes : txn'.staged[c] = None /\ txn.staged[c] = None
  BY DEF RetireAll, NoTxn, PathInv, TxnInv
<1>2. \A P \in Paths : draining'[P] = IF P \in txn.old THEN "grace" ELSE draining[P]
  BY DEF RetireAll
<1>3. UNCHANGED <<plane, active, route, ports, work, conn, profile, traffic, stop>>
  BY DEF RetireAll
<1>4. \A P \in Paths : P \in txn.old =>
         /\ \A d \in Classes : active[d] # P /\ work[d].old # P
         /\ \A d \in Classes : ~(work[d].pc = "check" /\ work[d].path = P)
  BY HoldersApart DEF PathInv
<1>5. ASSUME NEW P \in Paths, P \in txn.old PROVE plane[P] # None
  <2>1. <<"retiring", None>> \in Holders(P)
    BY <1>5, HolderKinds
  <2> QED
    BY <2>1 DEF PathInv, HandleOwnedOnce
<1>6. HandleOwnedOnce'
  <2>1. ASSUME NEW P \in Paths, P \notin txn.old PROVE Holders(P)' = Holders(P)
    <3>1. P # None
      BY PathsAssumption
    <3>2. ASSUME NEW h PROVE h \in Holders(P)' <=> h \in Holders(P)
      BY <1>1, <1>2, <1>3, <2>1, <3>1, HolderKinds, HolderKindsNext
    <3> QED
      BY <3>2
  <2>2. ASSUME NEW P \in Paths, P \in txn.old PROVE Holders(P)' = {<<"drain", None>>}
    <3>1. P # None
      BY PathsAssumption
    <3>2. ASSUME NEW h PROVE h \in Holders(P)' <=> h = <<"drain", None>>
      BY <1>1, <1>2, <1>3, <1>4, <2>2, <3>1, HolderKindsNext
    <3> QED
      BY <3>2
  <2> QED
    BY <1>3, <1>5, <2>1, <2>2, OwnedStep DEF PathInv
<1>7. WorkInv' /\ TxnInv' /\ PlaneInv'
  BY <1>1, <1>3 DEF PathInv, WorkInv, TxnInv, PlaneInv, HoldsLocks
<1>8. RouteInv' /\ ConnInv' /\ StopInv'
  BY <1>1, <1>3 DEF PathInv, RouteInv, ConnInv, StopInv, Serving
<1> QED
  BY <1>3, <1>6, <1>7, <1>8 DEF PathInv, TrafficIsolated

(* A drain task holds its path until it stops it. *)
LEMMA DrainTaskInv ==
    ASSUME TypeOK, PathInv, NEW P \in Paths, DrainTask(P)
    PROVE  PathInv'
<1>1. UNCHANGED <<active, route, ports, work, txn, conn, profile, traffic, stop>>
  BY DEF DrainTask, GraceEnds, HardCap, DrainStop, DrainStep
<1>2. /\ draining[P] # "no"
      /\ \A Q \in Paths : Q # P => draining'[Q] = draining[Q]
      /\ \/ draining'[P] # "no" /\ plane' = plane
         \/ draining'[P] = "no" /\ plane' = [Q \in Paths |-> IF Q \in {P} THEN None ELSE plane[Q]]
  BY DEF DrainTask, GraceEnds, HardCap, DrainStop, DrainMayStop, DrainStep, Kill, TypeOK
<1>3. /\ \A d \in Classes : active[d] # P /\ work[d].old # P /\ txn.staged[d] # P
      /\ \A d \in Classes : ~(work[d].pc = "check" /\ work[d].path = P)
      /\ P \notin txn.old
  BY <1>2, HoldersApart DEF PathInv
<1>4. HandleOwnedOnce'
  <2>1. ASSUME NEW Q \in Paths, Q # P \/ draining'[P] # "no" PROVE Holders(Q)' = Holders(Q)
    BY <1>1, <1>2, <2>1, HoldersKept
  <2>2. ASSUME draining'[P] = "no" PROVE Holders(P)' = {}
    <3>1. ASSUME NEW h PROVE h \notin Holders(P)'
      BY <1>1, <1>3, <2>2, HolderKindsNext
    <3> QED
      BY <3>1
  <2> QED
    BY <1>2, <2>1, <2>2, OwnedStep DEF PathInv
<1>5. WorkInv' /\ TxnInv'
  BY <1>1 DEF PathInv, WorkInv, TxnInv, HoldsLocks
<1>6. PlaneInv'
  <2>1. ASSUME NEW d \in Classes
        PROVE  /\ active[d] \in Paths \cup {None} /\ work[d].old \in Paths \cup {None}
               /\ txn.staged[d] \in Paths \cup {None}
               /\ work[d].pc = "check" => work[d].path \in Paths
    BY DEF TypeOK, Work, Txn
  <2> QED
    BY <1>1, <1>2, <1>3, <2>1 DEF PathInv, PlaneInv
<1>7. RouteInv' /\ ConnInv'
  BY <1>1 DEF PathInv, RouteInv, ConnInv
<1>8. StopInv'
  BY <1>1, <1>2 DEF PathInv, StopInv
<1> QED
  BY <1>1, <1>4, <1>5, <1>6, <1>7, <1>8 DEF PathInv, TrafficIsolated

(* A connection touches no handle; the invariant is kept when what it knows  *)
(* of its path is sound.                                                     *)
LEMMA ConnStepInv ==
    ASSUME TypeOK, PathInv, NEW k \in Conns, NEW w, ConnStep(k, w), TrafficIsolated',
           IF w.pc = "piped" THEN w.label = w.origin ELSE w.path = None,
           w.path # None => \A c \in Classes :
                 (work[c].pc = "check" => work[c].path # w.path) /\ txn.staged[c] # w.path,
           stop.at \notin Serving => w.pc = "idle" /\ w.path = None
    PROVE  PathInv'
<1>1. UNCHANGED <<plane, active, route, ports, work, txn, draining, profile, stop>>
  BY DEF ConnStep
<1>2. conn'[k] = w /\ \A j \in Conns : j # k => conn'[j] = conn[j]
  BY DEF ConnStep, TypeOK
<1>3. HandleOwnedOnce'
  BY <1>1, HoldersKept, OwnedStep DEF PathInv
<1>4. WorkInv' /\ TxnInv' /\ PlaneInv' /\ RouteInv'
  BY <1>1 DEF PathInv, WorkInv, TxnInv, PlaneInv, RouteInv, HoldsLocks
<1>5. ConnInv' /\ StopInv'
  BY <1>1, <1>2 DEF PathInv, ConnInv, StopInv
<1> QED
  BY <1>3, <1>4, <1>5 DEF PathInv

(* handle_conn captures a routed path of the live profile, and only bytes of *)
(* that profile are counted.                                                 *)
LEMMA ConnectionInv ==
    ASSUME TypeOK, PathInv, NEW k \in Conns,
           (\E c \in Classes : Accept(k, c)) \/ Capture(k) \/ Finish(k) \/ Drop(k) \/ AbortConn(k)
    PROVE  PathInv'
<1>1. ASSUME ConnStep(k, NoConn), TrafficIsolated' PROVE PathInv'
  <2>1. NoConn.pc = "idle" /\ NoConn.path = None
    BY DEF NoConn
  <2> QED
    BY <1>1, <2>1, ConnStepInv
<1>2. ASSUME NEW c \in Classes, Accept(k, c) PROVE PathInv'
  <2> DEFINE w == [NoConn EXCEPT !.pc = "accepted", !.class = c]
  <2>1. w.pc = "accepted" /\ w.path = None
    BY DEF NoConn
  <2>2. ConnStep(k, w) /\ stop.at = "no" /\ UNCHANGED traffic
    BY <1>2 DEF Accept
  <2> HIDE DEF w
  <2>3. TrafficIsolated'
    BY <2>2 DEF ConnStep, PathInv, TrafficIsolated
  <2> QED
    BY <2>1, <2>2, <2>3, ConnStepInv DEF Serving
<1>3. CASE Capture(k)
  <2>1. conn[k].pc = "accepted" /\ conn[k].class \in Classes /\ UNCHANGED traffic
    BY <1>3 DEF Capture, TypeOK
  <2>2. PICK c \in Classes : c = conn[k].class
    BY <2>1
  <2>3. stop.at \in Serving
    BY <2>1 DEF PathInv, StopInv
  <2>4. CASE route[c].path = None
    <3>1. ConnStep(k, NoConn)
      BY <1>3, <2>2, <2>4 DEF Capture
    <3> QED
      BY <1>1, <2>1, <3>1 DEF ConnStep, PathInv, TrafficIsolated
  <2>5. CASE route[c].path # None
    <3> DEFINE w == [conn[k] EXCEPT !.pc = "piped", !.path = route[c].path, !.lease = TRUE,
                                    !.label = route[c].profile, !.origin = plane[route[c].path]]
    <3>1. PICK P \in Paths : route[c].path = P
      BY <2>5 DEF TypeOK
    <3>2. w.pc = "piped" /\ w.label = route[c].profile /\ w.origin = plane[P] /\ w.path = P
      BY <3>1 DEF TypeOK
    <3>3. ConnStep(k, w)
      BY <1>3, <2>2, <2>5 DEF Capture
    <3> HIDE DEF w
    <3>4. active[c] = P \/ work[c].old = P
      BY <2>3, <3>1 DEF PathInv, RouteInv
    <3>5. w.label = profile /\ w.origin = profile
      BY <2>3, <2>5, <3>1, <3>2, <3>4 DEF PathInv, RouteInv, PlaneInv
    <3>6. \A d \in Classes : ~(work[d].pc = "check" /\ work[d].path = P) /\ txn.staged[d] # P
      BY <3>4, HoldersApart DEF PathInv
    <3>7. TrafficIsolated'
      BY <2>1, <3>3 DEF ConnStep, PathInv, TrafficIsolated
    <3> QED
      BY <2>3, <3>2, <3>3, <3>5, <3>6, <3>7, ConnStepInv
  <2> QED
    BY <2>4, <2>5
<1>4. CASE Finish(k)
  BY <1>1, <1>4 DEF Finish, ConnStep, PathInv, TrafficIsolated, ConnInv, TypeOK
<1>5. CASE Drop(k)
  BY <1>1, <1>5 DEF Drop, ConnStep, PathInv, TrafficIsolated
<1> QED
  BY <1>2, <1>3, <1>4, <1>5 DEF AbortConn

(* The shutdown joins whoever may change a route, closes the listeners,      *)
(* stops the active paths, then the retired ones.                            *)
LEMMA ShutdownInv ==
    ASSUME TypeOK, PathInv, Signal \/ ShutdownStep
    PROVE  PathInv'
<1>1. ASSUME UNCHANGED <<plane, active, route, ports, work, txn, draining, conn, profile, traffic>>,
             StopInv', stop'.at \in Serving => stop.at \in Serving
      PROVE  PathInv'
  <2>1. HandleOwnedOnce'
    BY <1>1, HoldersKept, OwnedStep DEF PathInv
  <2>2. WorkInv' /\ TxnInv' /\ PlaneInv' /\ RouteInv' /\ ConnInv' /\ TrafficIsolated'
    BY <1>1 DEF PathInv, WorkInv, TxnInv, PlaneInv, RouteInv, ConnInv, TrafficIsolated, HoldsLocks
  <2> QED
    BY <1>1, <2>1, <2>2 DEF PathInv
<1>2. CASE Signal
  BY <1>1, <1>2 DEF Signal, PathInv, StopInv, Serving
<1>3. CASE JoinWorkers
  BY <1>1, <1>3 DEF JoinWorkers, StopStep, PathInv, StopInv, Serving
<1>4. CASE JoinListeners
  BY <1>1, <1>4 DEF JoinListeners, StopStep, PathInv, StopInv, RouteInv, ConnInv, Serving
<1>5. ASSUME NEW c \in Classes, StopActive(c) PROVE PathInv'
  <2>1. PICK P \in Paths : active[c] = P
    BY <1>5 DEF StopActive, TypeOK
  <2>2. active'[c] = None /\ ports'[c] = None
    BY <1>5 DEF StopActive, TypeOK
  <2>3. \A d \in Classes : d # c => active'[d] = active[d] /\ ports'[d] = ports[d]
    BY <1>5 DEF StopActive, TypeOK
  <2>4. stop.at = "closed" /\ UNCHANGED <<route, work, txn, draining, conn, profile, traffic, stop>>
    BY <1>5 DEF StopActive
  <2>5. plane'[P] = None /\ \A Q \in Paths : Q # P => plane'[Q] = plane[Q]
    BY <1>5, <2>1 DEF StopActive, Kill
  <2>6. /\ \A d \in Classes : work[d].old # P /\ txn.staged[d] # P
        /\ \A d \in Classes : ~(work[d].pc = "check" /\ work[d].path = P)
        /\ \A d \in Classes : d # c => active[d] # P
        /\ P \notin txn.old /\ draining[P] = "no"
    BY <2>1, HoldersApart DEF PathInv
  <2>7. HandleOwnedOnce'
    <3>1. ASSUME NEW Q \in Paths, Q # P PROVE Holders(Q)' = Holders(Q)
      <4>1. Q # None
        BY PathsAssumption
      <4>2. ASSUME NEW h PROVE h \in Holders(Q)' <=> h \in Holders(Q)
        BY <2>1, <2>2, <2>3, <2>4, <3>1, <4>1, HolderKinds, HolderKindsNext
      <4> QED
        BY <4>2
    <3>2. Holders(P)' = {}
      <4>1. P # None
        BY PathsAssumption
      <4>2. ASSUME NEW h PROVE h \notin Holders(P)'
        BY <2>2, <2>3, <2>4, <2>6, <4>1, HolderKindsNext
      <4> QED
        BY <4>2
    <3> QED
      BY <2>5, <3>1, <3>2, OwnedStep DEF PathInv
  <2>8. \A d \in Classes : work[d].pc = "idle" /\ work[d].old = None /\ txn.staged[d] = None
    BY <2>4 DEF PathInv, StopInv, WorkInv, TxnInv, Installing
  <2>9. WorkInv' /\ TxnInv' /\ ConnInv'
    BY <2>4, <2>8 DEF PathInv, WorkInv, TxnInv, ConnInv, HoldsLocks, Installing
  <2>10. PlaneInv'
    <3>1. \A d \in Classes : active[d] \in Paths \cup {None}
      BY DEF TypeOK
    <3> QED
      BY <2>2, <2>3, <2>4, <2>5, <2>6, <2>8, <3>1 DEF PathInv, PlaneInv
  <2>11. RouteInv' /\ StopInv'
    BY <2>2, <2>3, <2>4 DEF PathInv, RouteInv, StopInv, Serving
  <2> QED
    BY <2>4, <2>7, <2>9, <2>10, <2>11 DEF PathInv, TrafficIsolated
<1>6. CASE StopDraining
  BY <1>1, <1>6 DEF StopDraining, StopStep, PathInv, StopInv, Serving
<1>7. CASE Exit
  BY <1>1, <1>7 DEF Exit, StopStep, PathInv, StopInv, Serving
<1> QED
  BY <1>2, <1>3, <1>4, <1>5, <1>6, <1>7 DEF ShutdownStep

-----------------------------------------------------------------------------
(* The theorems.                                                            *)

(* The invariant holds before anything is started. *)
LEMMA InitInv == Init => PathInv
<1> SUFFICES ASSUME Init PROVE PathInv
  OBVIOUS
<1>1. /\ \A c \in Classes : /\ active[c] = None /\ route[c].path = None /\ ports[c] = None
                            /\ work[c].pc = "idle" /\ work[c].path = None /\ work[c].old = None
                            /\ txn.staged[c] = None
      /\ txn.pc = "idle" /\ txn.old = {}
      /\ \A P \in Paths : plane[P] = None /\ draining[P] = "no"
      /\ \A k \in Conns : conn[k].pc = "idle" /\ conn[k].path = None
      /\ traffic.sub = profile /\ traffic.from = {} /\ stop.at = "no"
  BY DEF Init, NoWork, NoTxn, NoConn
<1>2. ASSUME NEW P \in Paths PROVE Holders(P) = {}
  <2>1. ASSUME NEW h PROVE h \notin Holders(P)
    BY <1>1, PathsAssumption, HolderKinds
  <2> QED
    BY <2>1
<1>3. HandleOwnedOnce
  BY <1>1, <1>2 DEF HandleOwnedOnce
<1>4. WorkInv /\ TxnInv /\ PlaneInv
  BY <1>1 DEF WorkInv, TxnInv, PlaneInv, Installing
<1>5. RouteInv /\ ConnInv /\ StopInv
  BY <1>1 DEF RouteInv, ConnInv, StopInv, Serving
<1> QED
  BY <1>1, <1>3, <1>4, <1>5 DEF PathInv, TrafficIsolated

(* A step that changes nothing keeps both. *)
LEMMA StutterInv ==
    ASSUME TypeOK, PathInv, UNCHANGED vars
    PROVE  TypeOK' /\ PathInv'
<1>1. TypeOK'
  BY DEF vars, TypeOK
<1>2. HandleOwnedOnce'
  BY HoldersKept, OwnedStep DEF PathInv, vars
<1>3. WorkInv' /\ TxnInv' /\ PlaneInv' /\ RouteInv' /\ ConnInv' /\ StopInv' /\ TrafficIsolated'
  BY DEF PathInv, WorkInv, TxnInv, PlaneInv, RouteInv, ConnInv, StopInv, TrafficIsolated,
         HoldsLocks, vars
<1> QED
  BY <1>1, <1>2, <1>3 DEF PathInv

(* The types and the invariant are kept by every step of every worker.       *)
(* Neither is inductive alone: what the counters hold is a profile only      *)
(* because a connection's label is the profile of its process.               *)
LEMMA NextInv ==
    ASSUME TypeOK, PathInv, [Next]_vars
    PROVE  TypeOK' /\ PathInv'
<1>1. ASSUME NEW c \in Classes, BeginWork(c) \/ WorkStep(c) PROVE TypeOK' /\ PathInv'
  BY <1>1, WorkType, BeginWorkInv, EndWorkInv, TryCandidateInv, CheckFailsInv, InstallActiveInv,
     FlipRouteInv, RecordPortsInv, RetireOldInv DEF WorkStep
<1>2. ASSUME (\E p \in Profiles : BeginTxn(p)) \/ TxnStep PROVE TypeOK' /\ PathInv'
  BY <1>2, TxnType, BeginTxnInv, LockAllInv, StageClassInv, AbortTxnInv, PublishInv, RetireAllInv
     DEF TxnStep
<1>3. ASSUME NEW P \in Paths, DrainTask(P) PROVE TypeOK' /\ PathInv'
  BY <1>3, DrainType, DrainTaskInv
<1>4. ASSUME NEW k \in Conns,
             (\E c \in Classes : Accept(k, c)) \/ Capture(k) \/ Finish(k) \/ Drop(k) \/ AbortConn(k)
      PROVE  TypeOK' /\ PathInv'
  BY <1>4, ConnType, ConnectionInv DEF PathInv
<1>5. CASE Signal \/ ShutdownStep
  BY <1>5, StopType, ShutdownInv
<1>6. CASE UNCHANGED vars
  BY <1>6, StutterInv
<1> QED
  BY <1>1, <1>2, <1>3, <1>4, <1>5, <1>6 DEF Next, Exited

(***************************************************************************)
(* The inductive invariant holds in every reachable state.                 *)
(***************************************************************************)
THEOREM PathInvariant == Spec => [](TypeOK /\ PathInv)
<1>1. Init => TypeOK /\ PathInv
  BY InitType, InitInv
<1>2. TypeOK /\ PathInv /\ [Next]_vars => (TypeOK /\ PathInv)'
  BY NextInv
<1> QED
  BY <1>1, <1>2, PTL DEF Spec

(***************************************************************************)
(* The variables of the life cycle have their types, however many classes, *)
(* profiles, connections and processes there are.                          *)
(***************************************************************************)
THEOREM PathTypeCorrect == Spec => []TypeOK
BY PathInvariant, PTL

(***************************************************************************)
(* Every running adapter process has exactly one holder and a stopped one  *)
(* none, through switches, transactions, drains and the shutdown           *)
(* (install_active, StagedNodes, schedule_drain, stop_draining).           *)
(***************************************************************************)
THEOREM ProcessesOwned == Spec => []HandleOwnedOnce
<1>1. PathInv => HandleOwnedOnce
  BY DEF PathInv
<1> QED
  BY <1>1, PathInvariant, PTL

(***************************************************************************)
(* Until the listeners are closed, a route leads to a running process of   *)
(* the live profile, and the handle, the route and the ports in the state  *)
(* agree whenever no path change is under way (install_active, publish).   *)
(***************************************************************************)
THEOREM RoutesAlwaysSound == Spec => []RoutesSound
<1>1. TypeOK /\ PathInv => RoutesSound
  <2> SUFFICES ASSUME TypeOK, PathInv PROVE RoutesSound
    OBVIOUS
  <2>1. RouteServes
    BY DEF RouteServes, PathInv, RouteInv, PlaneInv, Serving
  <2>2. StateMatchesRoute
    BY DEF StateMatchesRoute, PathInv, RouteInv, Serving
  <2> QED
    BY <2>1, <2>2 DEF RoutesSound
<1> QED
  BY <1>1, PathInvariant, PTL

(***************************************************************************)
(* The session counters hold bytes of the live profile only, also while    *)
(* connections opened under an earlier profile end                         *)
(* (TrafficCounters::add, select_subscription).                            *)
(***************************************************************************)
THEOREM CountersIsolated == Spec => []TrafficIsolated
<1>1. PathInv => TrafficIsolated
  BY DEF PathInv
<1> QED
  BY <1>1, PathInvariant, PTL

(***************************************************************************)
(* An exited daemon leaves no adapter process and no port in the state:    *)
(* the order of the joins in the tail of run leaves no handle unstopped.   *)
(***************************************************************************)
THEOREM NothingLeftAtExit == Spec => []ExitLeavesNothing
<1>1. TypeOK /\ PathInv => ExitLeavesNothing
  <2> SUFFICES ASSUME TypeOK, PathInv, stop.at = "exited", NEW P \in Paths
               PROVE  plane[P] = None /\ \A c \in Classes : ports[c] = None
    BY DEF ExitLeavesNothing
  <2>1. /\ txn.pc = "idle" /\ draining[P] = "no"
        /\ \A c \in Classes : work[c].pc = "idle" /\ active[c] = None /\ ports[c] = None
    BY DEF PathInv, StopInv
  <2>2. txn.old = {} /\ \A c \in Classes : txn.staged[c] = None /\ work[c].old = None
    BY <2>1 DEF PathInv, TxnInv, WorkInv, Installing
  <2>3. ASSUME NEW h PROVE h \notin Holders(P)
    BY <2>1, <2>2, PathsAssumption, HolderKinds
  <2> QED
    BY <2>1, <2>3 DEF PathInv, HandleOwnedOnce
<1> QED
  BY <1>1, PathInvariant, PTL

(* The step behind LeaseKeepsPath. *)
LEMMA LeaseStep ==
    ASSUME TypeOK, PathInv, [Next]_vars, NEW P \in Paths,
           plane[P] # None, plane'[P] = None, Leased(P)
    PROVE  draining[P] = "cut" \/ stop.at = "drain"
<1>1. PICK k \in Conns : conn[k].path = P
  BY DEF Leased
<1>2. P # None
  BY PathsAssumption
<1>3. ASSUME NEW c \in Classes, CheckFails(c) PROVE FALSE
  BY <1>1, <1>2, <1>3 DEF CheckFails, Kill, PathInv, ConnInv
<1>4. ASSUME AbortTxn PROVE FALSE
  BY <1>1, <1>2, <1>4 DEF AbortTxn, Kill, Staged, PathInv, ConnInv
<1>5. ASSUME NEW c \in Classes, StopActive(c) PROVE FALSE
  BY <1>1, <1>2, <1>5 DEF StopActive, PathInv, StopInv, Serving
<1>6. ASSUME NEW Q \in Paths, DrainTask(Q) PROVE draining[P] = "cut" \/ stop.at = "drain"
  <2>1. DrainStop(Q) /\ Q = P
    BY <1>6 DEF DrainTask, GraceEnds, HardCap, DrainStop, Kill
  <2> QED
    BY <2>1 DEF DrainStop, DrainMayStop
<1>7. ASSUME NEW Q \in Paths, NEW p \in Profiles, Spawn(Q, p) PROVE FALSE
  BY <1>7, NoneAssumption DEF Spawn, TypeOK
<1>8. ASSUME NEW c \in Classes, TryCandidate(c) PROVE FALSE
  BY <1>7, <1>8 DEF TryCandidate, TypeOK
<1>9. ASSUME NEW c \in Classes, StageClass(c) PROVE FALSE
  <2>1. txn.target \in Profiles
    BY <1>9 DEF StageClass, TypeOK, Txn
  <2> QED
    BY <1>7, <1>9, <2>1 DEF StageClass
<1>10. plane' # plane
  OBVIOUS
<1> QED
  BY <1>3, <1>4, <1>5, <1>6, <1>8, <1>9, <1>10
     DEF Next, WorkStep, TxnStep, ShutdownStep, BeginWork, EndWork, InstallActive, FlipRoute,
         RecordPorts, RetireOld, BeginTxn, LockAll, Publish, RetireAll, Accept, Capture, Finish,
         Drop, AbortConn, ConnStep, Signal, JoinWorkers, JoinListeners, StopDraining, Exit,
         StopStep, Exited, vars

(***************************************************************************)
(* Only the hard cap of a drain task and the final drain of the shutdown   *)
(* cut a process that a connection still leases: no switch, abort or ended *)
(* grace period does (schedule_drain_with, PathConnGuard).                 *)
(***************************************************************************)
THEOREM LeasesKept == Spec => LeaseKeepsPath
<1>1. TypeOK /\ PathInv /\ [Next]_vars =>
        [\A P \in Paths : plane[P] # None /\ plane'[P] = None /\ Leased(P) =>
            draining[P] = "cut" \/ stop.at = "drain"]_vars
  BY LeaseStep
<1> QED
  BY <1>1, PathInvariant, PTL DEF Spec, LeaseKeepsPath
=============================================================================
