-------------------------- MODULE DashboardProofs --------------------------
(***************************************************************************)
(* Proofs about Dashboard, for any set of profiles and classes and any     *)
(* bound on changes and faults.                                            *)
(***************************************************************************)
EXTENDS Dashboard, FiniteSetTheorems, TLAPS

-----------------------------------------------------------------------------
(* Types.                                                                   *)

(* The initial states have the types. *)
LEMMA TypeInit == Init => TypeOK
  BY NoneAssumption, BoundAssumption
     DEF Init, TypeOK, NoStatus, NoMutation, AppType, StatusType, MutationType, DaemonType

(* A probe round survives or is dropped. *)
LEMMA RoundForType ==
    ASSUME NEW round \in Round \cup {None}, NEW snap
    PROVE  RoundFor(round, snap) \in Round \cup {None}
  BY DEF RoundFor

(* An unknown outcome survives or is settled. *)
LEMMA ReconcileType ==
    ASSUME NEW unknown \in OutcomeUnknown \cup {None}, NEW snap
    PROVE  Reconcile(unknown, snap) \in OutcomeUnknown \cup {None}
  BY DEF Reconcile

(* The present of the daemon is a point of its history. *)
LEMMA HereType == TypeOK => Here \in Point
  BY DEF TypeOK, DaemonType, Here, Point

(* The program counter of a request moves. *)
LEMMA AdvanceType ==
    ASSUME TypeOK, NEW r \in requests,
           NEW pc \in {"waiting", "staging", "committed", "flipping", "published"}, Advance(r, pc)
    PROVE  requests' \subseteq Request
  <1>1. r \in Request /\ [r EXCEPT !.pc = pc] \in Request
    BY DEF TypeOK, Request
  <1> QED
    BY <1>1 DEF TypeOK, Advance

(* A request ends. *)
LEMMA EndType ==
    ASSUME TypeOK, NEW r \in requests, NEW reply \in {"ok", "failed"}, End(r, reply)
    PROVE  requests' \subseteq Request /\ mutation' \in MutationType
  BY DEF TypeOK, End, MutationType

(* A change that is submitted has the type of one. *)
LEMMA SubmitType ==
    ASSUME TypeOK, NEW m \in MutationType, SubmitMutation(m)
    PROVE  TypeOK'
  <1>1. app' \in AppType
    BY DEF TypeOK, SubmitMutation, AppType
  <1>2. mutation' \in MutationType
    <2>1. \A c \in Classes, e \in Nat : [m EXCEPT !.pc = "sent", !.class = c, !.epoch = e] \in MutationType
      BY DEF MutationType
    <2>2. app.class \in Classes /\ app.epoch + 1 \in Nat
      BY DEF TypeOK, AppType
    <2> QED
      BY <2>1, <2>2 DEF SubmitMutation
  <1> QED
    BY <1>1, <1>2 DEF TypeOK, SubmitMutation

(* The end of a change leaves the types. *)
LEMMA CompletedType ==
    ASSUME TypeOK, NEW a \in AppType, Completed(a), UNCHANGED <<daemon, requests>>,
           used' \in [lost : 0..MaxFaults, other : 0..MaxFaults]
    PROVE  TypeOK'
  <1>1. app' \in AppType
    <2>1. a.epoch + 1 \in Nat
      BY DEF AppType
    <2>2. \A e \in Nat : [a EXCEPT !.epoch = e, !.fresh = FALSE] \in AppType
      BY DEF AppType
    <2> QED
      BY <2>1, <2>2 DEF Completed
  <1>2. NoMutation \in MutationType /\ NoStatus \in StatusType
    BY DEF NoMutation, NoStatus, MutationType, StatusType
  <1> QED
    BY <1>1, <1>2 DEF TypeOK, Completed

(* A lost request and another client are counted within the bound. *)
LEMMA FaultType ==
    ASSUME TypeOK, MayFault
    PROVE  /\ [used EXCEPT !.lost = @ + 1] \in [lost : 0..MaxFaults, other : 0..MaxFaults]
           /\ [used EXCEPT !.other = @ + 1] \in [lost : 0..MaxFaults, other : 0..MaxFaults]
  BY BoundAssumption DEF TypeOK, MayFault, DaemonType

(* The daemon's steps. *)
LEMMA DaemonTypes ==
    ASSUME TypeOK, MutationInv,
           \/ \E r \in requests : DaemonStep(r)
           \/ Dispatch \/ StartProbe \/ Crash \/ Restart \/ \E p \in Profiles : OtherRequest(p)
    PROVE  TypeOK'
  <1>1. ASSUME NEW r \in requests, Lock(r) PROVE TypeOK'
    <2>1. requests' \subseteq Request
      BY <1>1, AdvanceType DEF Lock
    <2>2. mutation' \in MutationType
      BY <1>1, HereType DEF Lock, TypeOK, MutationType
    <2> QED
      BY <1>1, <2>1, <2>2 DEF Lock, TypeOK
  <1>2. ASSUME NEW r \in requests, Reject(r) \/ Finish(r) PROVE TypeOK'
    BY <1>2, EndType DEF Reject, Finish, TypeOK
  <1>3. ASSUME NEW r \in requests, CommitState(r) \/ PublishState(r) \/ PublishRuntime(r) PROVE TypeOK'
    <2>1. requests' \subseteq Request
      BY <1>3, AdvanceType DEF CommitState, PublishState, PublishRuntime
    <2>2. r.target \in Profiles
      BY DEF TypeOK, Request
    <2>3. daemon' \in DaemonType
      <3>1. \A p \in Profiles, g \in Nat : /\ [daemon EXCEPT !.saved = p] \in DaemonType
                                          /\ [daemon EXCEPT !.stats = p] \in DaemonType
                                          /\ [daemon EXCEPT !.active = p, !.gen = g] \in DaemonType
        BY DEF TypeOK, DaemonType
      <3>2. daemon.gen + 1 \in Nat
        BY DEF TypeOK, DaemonType
      <3> QED
        BY <1>3, <2>2, <3>1, <3>2 DEF CommitState, PublishState, PublishRuntime
    <2> QED
      BY <1>3, <2>1, <2>3 DEF CommitState, PublishState, PublishRuntime, TypeOK
  <1>4. CASE Dispatch
    <2>1. [id |-> mutation.epoch, target |-> mutation.requested, pc |-> "waiting"] \in Request
      BY <1>4 DEF Dispatch, MutationInv, TypeOK, MutationType, Request
    <2>2. mutation' \in MutationType
      BY <1>4, HereType DEF Dispatch, TypeOK, MutationType
    <2> QED
      BY <1>4, <2>1, <2>2 DEF Dispatch, TypeOK
  <1>5. CASE StartProbe
    BY <1>5, HereType DEF StartProbe, TypeOK, MutationType
  <1>6. CASE Crash
    BY <1>6, ZenonT(40) DEF Crash, TypeOK, DaemonType, StatusType, MutationType
  <1>7. CASE Restart
    <2>1. daemon.life + 1 \in Nat /\ daemon.saved \in Profiles
      BY DEF TypeOK, DaemonType
    <2>2. \A l \in Nat, p \in Profiles :
             [daemon EXCEPT !.up = TRUE, !.life = l, !.gen = 0, !.active = p, !.stats = p] \in DaemonType
      BY DEF TypeOK, DaemonType
    <2> QED
      BY <1>7, <2>1, <2>2 DEF Restart, TypeOK
  <1>8. ASSUME NEW p \in Profiles, OtherRequest(p) PROVE TypeOK'
    <2>1. [id |-> 0, target |-> p, pc |-> "waiting"] \in Request
      BY DEF Request
    <2> QED
      BY <1>8, <2>1, FaultType DEF OtherRequest, TypeOK
  <1> QED
    BY <1>1, <1>2, <1>3, <1>4, <1>5, <1>6, <1>7, <1>8 DEF DaemonStep

(* The dashboard's reading of snapshots. *)
LEMMA StatusTypes ==
    ASSUME TypeOK, StatusInv,
           ServeStatus \/ SpawnStatus \/ ApplyStatus \/ StatusFails \/ ChangeClass
    PROVE  TypeOK'
  <1> DEFINE Rest == UNCHANGED <<app, mutation, daemon, requests, used>>
  <1>0. ASSUME NEW pc \in {"sent", "before", "runtime", "state", "after", "reply"},
               NEW snap \in Snapshot \cup {None}, ToStatus(pc, snap)
        PROVE  TypeOK'
    <2>1. status' \in StatusType
      BY <1>0 DEF ToStatus, TypeOK, StatusType
    <2> QED
      BY <1>0, <2>1 DEF ToStatus, TypeOK
  <1>1. status.pc \in Serving \cup {"reply"} => status.snap \in Snapshot
    BY DEF StatusInv, TypeOK, StatusType
  <1>2. CASE LoadBefore
    <2>1. [gen |-> 0, active |-> daemon.active, stats |-> daemon.active,
           busy |-> InProgress, life |-> daemon.life] \in Snapshot
      BY DEF TypeOK, DaemonType, Snapshot, InProgress
    <2> QED
      BY <1>0, <1>2, <2>1 DEF LoadBefore
  <1>3. CASE ReadRuntime
    <2>1. status.snap \in Snapshot /\ daemon.gen \in Nat /\ daemon.active \in Profiles
      BY <1>1, <1>3 DEF ReadRuntime, Serving, TypeOK, DaemonType
    <2>2. [status.snap EXCEPT !.gen = daemon.gen, !.active = daemon.active] \in Snapshot
      BY <2>1 DEF Snapshot
    <2> QED
      BY <1>0, <1>3, <2>2 DEF ReadRuntime
  <1>4. CASE ReadState
    <2>1. status.snap \in Snapshot /\ daemon.stats \in Profiles
      BY <1>1, <1>4 DEF ReadState, Serving, TypeOK, DaemonType
    <2>2. [status.snap EXCEPT !.stats = daemon.stats] \in Snapshot
      BY <2>1 DEF Snapshot
    <2> QED
      BY <1>0, <1>4, <2>2 DEF ReadState
  <1>5. CASE LoadAfter
    <2>1. status.snap \in Snapshot
      BY <1>1, <1>5 DEF LoadAfter, Serving
    <2>2. [status.snap EXCEPT !.busy = status.snap.busy \/ InProgress] \in Snapshot
      BY <2>1 DEF Snapshot, InProgress
    <2> QED
      BY <1>0, <1>5, <2>2 DEF LoadAfter
  <1>6. CASE Answer
    <2>1. status.snap \in Snapshot
      BY <1>1, <1>6 DEF Answer, Serving
    <2> QED
      BY <1>0, <1>6, <2>1 DEF Answer
  <1>7. CASE SpawnStatus
    BY <1>7 DEF SpawnStatus, TypeOK, StatusType, AppType
  <1>8. NoStatus \in StatusType
    BY DEF NoStatus, StatusType
  <1>9. CASE ApplyStatus
    <2>1. status.snap \in Snapshot
      BY <1>1, <1>9 DEF ApplyStatus
    <2>2. /\ Reconcile(app.unknown, status.snap) \in OutcomeUnknown \cup {None}
          /\ RoundFor(app.round, status.snap) \in Round \cup {None}
      BY ReconcileType, RoundForType DEF TypeOK, AppType
    <2>3. \A u \in OutcomeUnknown \cup {None}, s \in Snapshot, o \in Round \cup {None} :
             [app EXCEPT !.unknown = u, !.snap = s, !.connected = TRUE, !.fresh = TRUE, !.round = o] \in AppType
      BY DEF TypeOK, AppType
    <2>4. app' \in AppType
      BY <1>9, <2>1, <2>2, <2>3 DEF ApplyStatus, TypeOK
    <2> QED
      BY <1>8, <1>9, <2>4 DEF ApplyStatus, TypeOK
  <1>10. CASE StatusFails
    <2>1. [app EXCEPT !.connected = FALSE, !.snap = None, !.fresh = FALSE, !.round = None] \in AppType
      BY DEF TypeOK, AppType
    <2> QED
      BY <1>8, <1>10, <2>1, FaultType DEF StatusFails, TypeOK
  <1>11. CASE ChangeClass
    <2>1. \A c \in Classes, e \in Nat :
             [app EXCEPT !.class = c, !.snap = None, !.round = None, !.fresh = FALSE, !.epoch = e] \in AppType
      BY DEF TypeOK, AppType
    <2>2. app.epoch + 1 \in Nat
      BY DEF TypeOK, AppType
    <2>3. PICK c \in Classes :
             app' = [app EXCEPT !.class = c, !.snap = None, !.round = None, !.fresh = FALSE, !.epoch = app.epoch + 1]
      BY <1>11 DEF ChangeClass
    <2>4. app' \in AppType
      BY <2>1, <2>2, <2>3
    <2> QED
      BY <1>8, <1>11, <2>4 DEF ChangeClass, TypeOK
  <1> QED
    BY <1>2, <1>3, <1>4, <1>5, <1>6, <1>7, <1>9, <1>10, <1>11 DEF ServeStatus

(* The dashboard's changes. *)
LEMMA ChangeTypes ==
    ASSUME TypeOK, MutationInv, RoundInv,
           \/ \E p \in Profiles : PickSubscription(p) \/ SubmitUrlEdit(p)
           \/ SubmitProbe \/ SubmitNodeSwitch \/ Complete
    PROVE  TypeOK'
  <1>0. NoMutation \in MutationType
    BY DEF NoMutation, MutationType
  <1>1. ASSUME NEW p \in Profiles, PickSubscription(p) \/ SubmitUrlEdit(p) PROVE TypeOK'
    <2>1. SubmitSubscription(p) /\ app.snap \in Snapshot
      BY <1>1 DEF PickSubscription, SubmitUrlEdit, Authoritative, TypeOK, AppType
    <2>2. app.snap.active \in Profiles /\ app.snap.gen \in Nat
      BY <2>1 DEF Snapshot
    <2>3. \A v \in Profiles, g \in Nat :
            [NoMutation EXCEPT !.kind = "subscription", !.previous = v, !.requested = p, !.before = g] \in MutationType
      BY <1>0 DEF MutationType
    <2> QED
      BY <2>1, <2>2, <2>3, SubmitType DEF SubmitSubscription
  <1>2. CASE SubmitProbe
    <2>1. \A t \in Snapshot \cup {None} : [NoMutation EXCEPT !.kind = "probe", !.tag = t] \in MutationType
      BY <1>0 DEF MutationType
    <2>2. app.snap \in Snapshot \cup {None}
      BY DEF TypeOK, AppType
    <2> QED
      BY <1>2, <2>1, <2>2, SubmitType DEF SubmitProbe
  <1>3. CASE SubmitNodeSwitch
    <2>1. [NoMutation EXCEPT !.kind = "node"] \in MutationType
      BY <1>0 DEF MutationType
    <2> QED
      BY <1>3, <2>1, SubmitType DEF SubmitNodeSwitch
  <1>4. CASE CompleteSubscription
    <2>1. mutation.met \in Point \cup {None}
      BY DEF TypeOK, MutationType
    <2>2. \A m \in Point \cup {None} : [app EXCEPT !.unknown = None, !.floor = m] \in AppType
      BY DEF TypeOK, AppType
    <2> QED
      BY <1>4, <2>1, <2>2, CompletedType DEF CompleteSubscription, TypeOK
  <1>5. CASE LoseSubscription
    <2> DEFINE u == [previous |-> mutation.previous, requested |-> mutation.requested,
                     before |-> mutation.before,
                     prior |-> IF mutation.met = None THEN daemon.gen ELSE mutation.met.gen]
    <2>1. mutation.previous \in Profiles /\ mutation.requested \in Profiles /\ mutation.before \in Nat
      BY <1>5 DEF LoseSubscription, MutationInv, TypeOK, MutationType
    <2>2. daemon.gen \in Nat /\ (mutation.met # None => mutation.met.gen \in Nat)
      BY DEF TypeOK, MutationType, DaemonType, Point
    <2>3. u \in OutcomeUnknown
      BY <2>1, <2>2 DEF OutcomeUnknown
    <2>4. Completed([app EXCEPT !.unknown = u]) /\ UNCHANGED <<daemon, requests>>
      BY <1>5 DEF LoseSubscription
    <2>5. used' \in [lost : 0..MaxFaults, other : 0..MaxFaults]
      BY <1>5, FaultType DEF LoseSubscription, TypeOK
    <2> HIDE DEF u
    <2>6. [app EXCEPT !.unknown = u] \in AppType
      BY <2>3 DEF TypeOK, AppType
    <2> QED
      BY <2>4, <2>5, <2>6, CompletedType
  <1>6. CASE CompleteProbe
    <2> DEFINE round == [tag  |-> [active |-> mutation.tag.active, gen |-> mutation.tag.gen,
                                   life |-> mutation.tag.life],
                         life |-> mutation.met.life, gen |-> mutation.met.gen]
    <2>1. mutation.tag \in Snapshot /\ mutation.met \in Point
      BY <1>6 DEF CompleteProbe, RoundInv, TypeOK, MutationType
    <2>2. round \in Round
      BY <2>1 DEF Snapshot, Point, Round
    <2>3. Completed([app EXCEPT !.round = RoundFor(round, app.snap)]) /\ UNCHANGED <<daemon, requests, used>>
      BY <1>6 DEF CompleteProbe
    <2> HIDE DEF round
    <2>4. RoundFor(round, app.snap) \in Round \cup {None}
      BY <2>2, RoundForType
    <2>5. \A o \in Round \cup {None} : [app EXCEPT !.round = o] \in AppType
      BY DEF TypeOK, AppType
    <2> QED
      BY <2>3, <2>4, <2>5, CompletedType DEF TypeOK
  <1>7. CASE ProbeFails
    <2>1. [app EXCEPT !.round = None] \in AppType
      BY DEF TypeOK, AppType
    <2> QED
      BY <1>7, <2>1, CompletedType DEF ProbeFails, TypeOK
  <1>8. CASE CompleteNodeSwitch
    BY <1>8, CompletedType DEF CompleteNodeSwitch, TypeOK
  <1> QED
    BY <1>1, <1>2, <1>3, <1>4, <1>5, <1>6, <1>7, <1>8 DEF Complete

(* Every step keeps the types. *)
LEMMA TypeNext == TypeOK /\ MutationInv /\ StatusInv /\ RoundInv /\ [Next]_vars => TypeOK'
  <1> SUFFICES ASSUME TypeOK, MutationInv, StatusInv, RoundInv, [Next]_vars PROVE TypeOK'
    OBVIOUS
  <1>1. CASE UNCHANGED vars
    BY <1>1 DEF vars, TypeOK
  <1>2. CASE Next
    BY <1>2, DaemonTypes, StatusTypes, ChangeTypes DEF Next
  <1> QED
    BY <1>1, <1>2

-----------------------------------------------------------------------------
(* What each step does, field by field.                                     *)

(* The conjuncts of Dashboard.tla, which TLC checks one by one. *)
DashInv ==
    /\ TypeOK /\ RequestInv /\ MutationInv /\ PublishInv /\ MetInv
    /\ StatusInv /\ ShownInv /\ RoundInv /\ CourseInv /\ LockExplained

(* A request moves on. *)
LEMMA AdvanceEffect ==
    ASSUME TypeOK, NEW r \in requests,
           NEW pc \in {"waiting", "staging", "committed", "flipping", "published"}, Advance(r, pc)
    PROVE  \E s \in Request : /\ s.id = r.id /\ s.target = r.target /\ s.pc = pc
                              /\ requests' = (requests \ {r}) \cup {s}
  <1> DEFINE s == [r EXCEPT !.pc = pc]
  <1>1. r \in Request
    BY DEF TypeOK
  <1>2. s \in Request /\ s.id = r.id /\ s.target = r.target /\ s.pc = pc
    BY <1>1 DEF Request
  <1>3. requests' = (requests \ {r}) \cup {s}
    BY DEF Advance
  <1> HIDE DEF s
  <1> QED
    BY <1>2, <1>3

(* A request is gone, and the dashboard has its reply if it waits for it. *)
LEMMA EndEffect ==
    ASSUME TypeOK, NEW r \in requests, NEW reply \in {"ok", "failed"}, End(r, reply)
    PROVE  /\ requests' = requests \ {r}
           /\ mutation'.pc = mutation.pc /\ mutation'.kind = mutation.kind
           /\ mutation'.epoch = mutation.epoch /\ mutation'.previous = mutation.previous
           /\ mutation'.requested = mutation.requested /\ mutation'.before = mutation.before
           /\ mutation'.tag = mutation.tag /\ mutation'.met = mutation.met
           /\ Awaited(r) => mutation'.reply = reply
           /\ ~Awaited(r) => mutation'.reply = mutation.reply
  BY DEF TypeOK, End, MutationType

(* Dispatch, StartProbe and Lock record the generation they meet. *)
LEMMA MeetEffect ==
    ASSUME TypeOK,
           \/ mutation' = [mutation EXCEPT !.pc = "running", !.met = Here]
           \/ mutation' = [mutation EXCEPT !.met = Here]
    PROVE  /\ mutation'.kind = mutation.kind /\ mutation'.reply = mutation.reply
           /\ mutation'.epoch = mutation.epoch /\ mutation'.previous = mutation.previous
           /\ mutation'.requested = mutation.requested /\ mutation'.before = mutation.before
           /\ mutation'.tag = mutation.tag /\ mutation'.met = Here
           /\ mutation'.pc = mutation.pc \/ mutation'.pc = "running"
  BY DEF TypeOK, MutationType

(* The present is a point: it is not None. *)
LEMMA HereFields == TypeOK => Here # None /\ Here.life = daemon.life /\ Here.gen = daemon.gen
  BY HereType, NoRecordAssumption DEF Here

(* The daemon's fields as a transaction moves them. *)
LEMMA DaemonEffect ==
    ASSUME TypeOK, NEW p \in Profiles
    PROVE  /\ daemon' = [daemon EXCEPT !.saved = p] =>
                /\ daemon'.up = daemon.up /\ daemon'.life = daemon.life /\ daemon'.gen = daemon.gen
                /\ daemon'.active = daemon.active /\ daemon'.stats = daemon.stats
           /\ daemon' = [daemon EXCEPT !.stats = p] =>
                /\ daemon'.up = daemon.up /\ daemon'.life = daemon.life /\ daemon'.gen = daemon.gen
                /\ daemon'.active = daemon.active /\ daemon'.stats = p
           /\ daemon' = [daemon EXCEPT !.active = p, !.gen = @ + 1] =>
                /\ daemon'.up = daemon.up /\ daemon'.life = daemon.life /\ daemon'.gen = daemon.gen + 1
                /\ daemon'.active = p /\ daemon'.stats = daemon.stats
  BY DEF TypeOK, DaemonType

(* A crash. *)
LEMMA CrashEffect ==
    ASSUME TypeOK, Crash
    PROVE  /\ daemon'.up = FALSE /\ daemon'.life = daemon.life /\ daemon'.gen = daemon.gen
           /\ daemon'.active = daemon.active /\ requests' = {}
           /\ app' = app /\ used' = used
           /\ status'.snap = status.snap
           /\ \/ status.pc \in Serving /\ status'.pc = "dead"
              \/ status.pc \notin Serving /\ status'.pc = status.pc
           /\ mutation'.kind = mutation.kind /\ mutation'.reply = mutation.reply
           /\ mutation'.epoch = mutation.epoch /\ mutation'.previous = mutation.previous
           /\ mutation'.requested = mutation.requested /\ mutation'.before = mutation.before
           /\ mutation'.tag = mutation.tag /\ mutation'.met = mutation.met
           /\ \/ mutation.pc = "running" /\ mutation.reply = "none" /\ mutation'.pc = "dead"
              \/ (mutation.pc # "running" \/ mutation.reply # "none") /\ mutation'.pc = mutation.pc
  <1>1. daemon'.up = FALSE /\ daemon'.life = daemon.life /\ daemon'.gen = daemon.gen /\ daemon'.active = daemon.active
    BY DEF Crash, TypeOK, DaemonType
  <1>2. /\ status'.snap = status.snap
        /\ \/ status.pc \in Serving /\ status'.pc = "dead"
           \/ status.pc \notin Serving /\ status'.pc = status.pc
    BY DEF Crash, TypeOK, StatusType, Serving
  <1>3. /\ mutation'.kind = mutation.kind /\ mutation'.reply = mutation.reply
        /\ mutation'.epoch = mutation.epoch /\ mutation'.previous = mutation.previous
        /\ mutation'.requested = mutation.requested /\ mutation'.before = mutation.before
        /\ mutation'.tag = mutation.tag /\ mutation'.met = mutation.met
        /\ \/ mutation.pc = "running" /\ mutation.reply = "none" /\ mutation'.pc = "dead"
           \/ (mutation.pc # "running" \/ mutation.reply # "none") /\ mutation'.pc = mutation.pc
    BY DEF Crash, TypeOK, MutationType
  <1> QED
    BY <1>1, <1>2, <1>3 DEF Crash

(* A restart. *)
LEMMA RestartEffect ==
    ASSUME TypeOK, Restart
    PROVE  /\ ~daemon.up /\ daemon'.up = TRUE /\ daemon'.life = daemon.life + 1 /\ daemon'.gen = 0
           /\ daemon'.active = daemon'.stats
           /\ app' = app /\ status' = status /\ mutation' = mutation /\ requests' = requests /\ used' = used
  BY DEF TypeOK, DaemonType, Restart

(* A read of class_snapshot. *)
LEMMA ToStatusEffect ==
    ASSUME TypeOK, NEW pc, NEW snap, ToStatus(pc, snap)
    PROVE  /\ status'.pc = pc /\ status'.snap = snap
           /\ app' = app /\ mutation' = mutation /\ daemon' = daemon /\ requests' = requests /\ used' = used
  BY DEF TypeOK, StatusType, ToStatus

(* A change is submitted. *)
LEMMA SubmitEffect ==
    ASSUME TypeOK,
           \/ \E p \in Profiles : PickSubscription(p) \/ SubmitUrlEdit(p)
           \/ SubmitProbe \/ SubmitNodeSwitch
    PROVE  /\ mutation.kind = "none" /\ mutation'.pc = "sent" /\ mutation'.epoch # 0
           /\ mutation'.met = None /\ mutation'.reply = "none"
           /\ app'.snap = app.snap /\ app'.unknown = app.unknown /\ app'.round = app.round
           /\ app'.fresh = app.fresh /\ app'.floor = app.floor
           /\ status' = status /\ daemon' = daemon /\ requests' = requests /\ used' = used
           /\ \/ /\ mutation'.kind = "subscription" /\ app.unknown = None /\ app.snap # None
                 /\ mutation'.previous = app.snap.active /\ mutation'.requested \in Profiles
                 /\ mutation'.before = app.snap.gen
              \/ mutation'.kind = "probe" /\ mutation'.tag = app.snap
              \/ mutation'.kind = "node"
  <1>0. NoMutation \in MutationType
    BY DEF NoMutation, MutationType
  <1>1. ASSUME NEW m \in MutationType, SubmitMutation(m)
        PROVE  /\ mutation.kind = "none" /\ mutation'.pc = "sent" /\ mutation'.epoch # 0
               /\ mutation'.met = m.met /\ mutation'.reply = m.reply /\ mutation'.kind = m.kind
               /\ mutation'.previous = m.previous /\ mutation'.requested = m.requested
               /\ mutation'.before = m.before /\ mutation'.tag = m.tag
               /\ app'.snap = app.snap /\ app'.unknown = app.unknown /\ app'.round = app.round
               /\ app'.fresh = app.fresh /\ app'.floor = app.floor
               /\ status' = status /\ daemon' = daemon /\ requests' = requests /\ used' = used
    <2>1. mutation'.epoch = app.epoch + 1 /\ app.epoch \in Nat
      BY <1>1 DEF SubmitMutation, MutationType, TypeOK, AppType
    <2>2. /\ mutation'.pc = "sent" /\ mutation'.met = m.met /\ mutation'.reply = m.reply
          /\ mutation'.kind = m.kind /\ mutation'.previous = m.previous
          /\ mutation'.requested = m.requested /\ mutation'.before = m.before /\ mutation'.tag = m.tag
      BY <1>1 DEF SubmitMutation, MutationType
    <2>3. /\ app'.snap = app.snap /\ app'.unknown = app.unknown /\ app'.round = app.round
          /\ app'.fresh = app.fresh /\ app'.floor = app.floor
      BY <1>1 DEF SubmitMutation, TypeOK, AppType
    <2> QED
      BY <1>1, <2>1, <2>2, <2>3 DEF SubmitMutation, Busy
  <1>2. ASSUME NEW p \in Profiles, SubmitSubscription(p)
        PROVE  /\ mutation.kind = "none" /\ mutation'.pc = "sent" /\ mutation'.epoch # 0
               /\ mutation'.met = None /\ mutation'.reply = "none" /\ mutation'.kind = "subscription"
               /\ app.unknown = None /\ app.snap # None
               /\ mutation'.previous = app.snap.active /\ mutation'.requested = p
               /\ mutation'.before = app.snap.gen
               /\ app'.snap = app.snap /\ app'.unknown = app.unknown /\ app'.round = app.round
               /\ app'.fresh = app.fresh /\ app'.floor = app.floor
               /\ status' = status /\ daemon' = daemon /\ requests' = requests /\ used' = used
    <2>1. app.snap \in Snapshot /\ app.unknown = None
      BY <1>2 DEF SubmitSubscription, SubscriptionMutationAllowed, Authoritative, TypeOK, AppType
    <2>2. app.snap.active \in Profiles /\ app.snap.gen \in Nat /\ app.snap # None
      BY <2>1, NoRecordAssumption DEF Snapshot
    <2> DEFINE m == [NoMutation EXCEPT !.kind = "subscription", !.previous = app.snap.active,
                                       !.requested = p, !.before = app.snap.gen]
    <2>3. /\ m \in MutationType /\ m.met = None /\ m.reply = "none" /\ m.kind = "subscription"
          /\ m.previous = app.snap.active /\ m.requested = p /\ m.before = app.snap.gen
      BY <1>0, <2>2 DEF MutationType, NoMutation
    <2>4. SubmitMutation(m)
      BY <1>2 DEF SubmitSubscription
    <2> HIDE DEF m
    <2> QED
      BY <1>1, <2>1, <2>2, <2>3, <2>4
  <1>3. CASE \E p \in Profiles : PickSubscription(p) \/ SubmitUrlEdit(p)
    BY <1>2, <1>3 DEF PickSubscription, SubmitUrlEdit
  <1>4. CASE SubmitProbe
    <2> DEFINE m == [NoMutation EXCEPT !.kind = "probe", !.tag = app.snap]
    <2>1. app.snap \in Snapshot \cup {None}
      BY DEF TypeOK, AppType
    <2>2. m \in MutationType /\ m.met = None /\ m.reply = "none" /\ m.kind = "probe" /\ m.tag = app.snap
      BY <1>0, <2>1 DEF MutationType, NoMutation
    <2>3. SubmitMutation(m)
      BY <1>4 DEF SubmitProbe
    <2> HIDE DEF m
    <2> QED
      BY <1>1, <2>2, <2>3
  <1>5. CASE SubmitNodeSwitch
    <2> DEFINE m == [NoMutation EXCEPT !.kind = "node"]
    <2>2. m \in MutationType /\ m.met = None /\ m.reply = "none" /\ m.kind = "node"
      BY <1>0 DEF MutationType, NoMutation
    <2>3. SubmitMutation(m)
      BY <1>5 DEF SubmitNodeSwitch
    <2> HIDE DEF m
    <2> QED
      BY <1>1, <2>2, <2>3
  <1> QED
    BY <1>3, <1>4, <1>5

(* A status flight starts. *)
LEMMA SpawnEffect ==
    ASSUME TypeOK, SpawnStatus
    PROVE  /\ status'.pc = "sent"
           /\ app' = app /\ mutation' = mutation /\ daemon' = daemon /\ requests' = requests /\ used' = used
  BY DEF SpawnStatus

(***************************************************************************)
(* A status flight ends without a snapshot that counts: it failed, it was  *)
(* superseded, or another class is shown.                                  *)
(***************************************************************************)
LEMMA ForgetEffect ==
    ASSUME TypeOK, \/ ApplyStatus /\ ~Current(status)
                   \/ StatusFails \/ ChangeClass
    PROVE  /\ status'.pc = "none" /\ app'.unknown = app.unknown /\ app'.floor = app.floor
           /\ \/ app'.snap = app.snap /\ app'.round = app.round /\ app'.fresh = app.fresh
              \/ app'.snap = None /\ app'.round = None /\ app'.fresh = FALSE
           /\ mutation' = mutation /\ daemon' = daemon /\ requests' = requests
           /\ used'.other = used.other
  <1>0. NoStatus.pc = "none"
    BY DEF NoStatus
  <1>1. CASE ApplyStatus /\ ~Current(status)
    BY <1>0, <1>1 DEF ApplyStatus
  <1>2. CASE StatusFails
    <2>1. used'.other = used.other
      BY <1>2 DEF StatusFails, TypeOK
    <2>2. /\ app'.unknown = app.unknown /\ app'.floor = app.floor
          /\ \/ app'.snap = app.snap /\ app'.round = app.round /\ app'.fresh = app.fresh
             \/ app'.snap = None /\ app'.round = None /\ app'.fresh = FALSE
      BY <1>2 DEF StatusFails, TypeOK, AppType
    <2> QED
      BY <1>0, <1>2, <2>1, <2>2 DEF StatusFails
  <1>3. CASE ChangeClass
    <2>1. /\ app'.unknown = app.unknown /\ app'.floor = app.floor
          /\ app'.snap = None /\ app'.round = None /\ app'.fresh = FALSE
      BY <1>3 DEF ChangeClass, TypeOK, AppType
    <2> QED
      BY <1>0, <1>3, <2>1 DEF ChangeClass
  <1> QED
    BY <1>1, <1>2, <1>3

(* A snapshot is applied. *)
LEMMA ApplyEffect ==
    ASSUME TypeOK, ApplyStatus, Current(status)
    PROVE  /\ status.pc = "reply" /\ status'.pc = "none"
           /\ app'.snap = status.snap /\ app'.fresh = TRUE /\ app'.floor = app.floor
           /\ app'.unknown = Reconcile(app.unknown, status.snap)
           /\ app'.round = RoundFor(app.round, status.snap)
           /\ mutation' = mutation /\ daemon' = daemon /\ requests' = requests /\ used' = used
  <1>1. /\ app'.snap = status.snap /\ app'.fresh = TRUE /\ app'.floor = app.floor
        /\ app'.unknown = Reconcile(app.unknown, status.snap)
        /\ app'.round = RoundFor(app.round, status.snap)
    BY DEF ApplyStatus, TypeOK, AppType
  <1>2. status'.pc = "none"
    BY DEF ApplyStatus, NoStatus
  <1> QED
    BY <1>1, <1>2 DEF ApplyStatus

(* What is left after the end of a change, whatever it was. *)
LEMMA CompletedEffect ==
    ASSUME TypeOK, NEW a \in AppType, Completed(a)
    PROVE  /\ status'.pc = "none" /\ mutation'.pc = "none" /\ mutation'.kind = "none"
           /\ mutation'.reply = "none" /\ mutation'.met = None
           /\ app'.fresh = FALSE /\ app'.snap = a.snap /\ app'.unknown = a.unknown
           /\ app'.round = a.round /\ app'.floor = a.floor
  <1>1. /\ app'.fresh = FALSE /\ app'.snap = a.snap /\ app'.unknown = a.unknown
        /\ app'.round = a.round /\ app'.floor = a.floor
    BY DEF Completed, AppType
  <1> QED
    BY <1>1 DEF Completed, NoStatus, NoMutation

(* A change ends, one way or another. *)
LEMMA CompleteEffect ==
    ASSUME TypeOK, MutationInv, RoundInv, Complete
    PROVE  /\ status'.pc = "none" /\ mutation'.pc = "none" /\ mutation'.kind = "none"
           /\ mutation'.reply = "none" /\ mutation'.met = None
           /\ app'.fresh = FALSE /\ app'.snap = app.snap
           /\ daemon' = daemon /\ requests' = requests /\ used'.other = used.other
           /\ \/ /\ mutation.kind = "subscription" /\ mutation.reply = "ok"
                 /\ app'.unknown = None /\ app'.floor = mutation.met /\ app'.round = app.round
              \/ /\ mutation.kind = "subscription" /\ mutation.reply # "none"
                 /\ app'.unknown = app.unknown /\ app'.floor = app.floor /\ app'.round = app.round
              \/ /\ mutation.kind = "subscription"
                 /\ app'.unknown # None
                 /\ app'.unknown.previous = mutation.previous
                 /\ app'.unknown.requested = mutation.requested
                 /\ app'.unknown.before = mutation.before
                 /\ mutation.met = None => app'.unknown.prior = daemon.gen
                 /\ mutation.met # None => app'.unknown.prior = mutation.met.gen
                 /\ app'.floor = app.floor /\ app'.round = app.round
              \/ /\ mutation.kind \in {"probe", "node"}
                 /\ app'.unknown = app.unknown /\ app'.floor = app.floor
                 /\ \/ app'.round = app.round
                    \/ app'.round = None
                    \/ /\ mutation.kind = "probe" /\ mutation.pc = "running" /\ mutation.tag # None
                       /\ app.snap # None /\ app'.round # None
                       /\ app'.round.tag.gen = app.snap.gen
                       /\ app'.round.tag.gen = mutation.tag.gen
                       /\ app'.round.tag.life = mutation.tag.life
                       /\ app'.round.life = mutation.met.life
                       /\ app'.round.gen = mutation.met.gen
  <1>1. CASE CompleteSubscription
    <2>1. CASE mutation.reply = "ok"
      <3> DEFINE a == [app EXCEPT !.unknown = None, !.floor = mutation.met]
      <3>1. /\ a \in AppType /\ a.unknown = None /\ a.floor = mutation.met
            /\ a.snap = app.snap /\ a.round = app.round
        BY DEF TypeOK, AppType, MutationType
      <3>2. Completed(a)
        BY <1>1, <2>1 DEF CompleteSubscription
      <3> HIDE DEF a
      <3> QED
        BY <1>1, <2>1, <3>1, <3>2, CompletedEffect DEF CompleteSubscription
    <2>2. CASE mutation.reply # "ok"
      <3>1. app \in AppType /\ Completed(app)
        BY <1>1, <2>2 DEF CompleteSubscription, TypeOK
      <3> QED
        BY <1>1, <2>2, <3>1, CompletedEffect DEF CompleteSubscription
    <2> QED
      BY <2>1, <2>2
  <1>2. CASE LoseSubscription
    <2> DEFINE u == [previous |-> mutation.previous, requested |-> mutation.requested,
                     before |-> mutation.before,
                     prior |-> IF mutation.met = None THEN daemon.gen ELSE mutation.met.gen]
               a == [app EXCEPT !.unknown = u]
    <2>1. mutation.previous \in Profiles /\ mutation.requested \in Profiles /\ mutation.before \in Nat
      BY <1>2 DEF LoseSubscription, MutationInv, TypeOK, MutationType
    <2>2. daemon.gen \in Nat /\ (mutation.met # None => mutation.met.gen \in Nat)
      BY DEF TypeOK, MutationType, DaemonType, Point
    <2>3. u \in OutcomeUnknown
      BY <2>1, <2>2 DEF OutcomeUnknown
    <2>4. /\ u.previous = mutation.previous /\ u.requested = mutation.requested
          /\ u.before = mutation.before
          /\ mutation.met = None => u.prior = daemon.gen
          /\ mutation.met # None => u.prior = mutation.met.gen
      OBVIOUS
    <2>5. Completed(a) /\ UNCHANGED <<daemon, requests>> /\ mutation.kind = "subscription"
      BY <1>2 DEF LoseSubscription
    <2>6. used'.other = used.other
      BY <1>2 DEF LoseSubscription, TypeOK
    <2>7. u # None
      BY <2>3, NoRecordAssumption
    <2> HIDE DEF u
    <2>8. a \in AppType /\ a.unknown = u /\ a.floor = app.floor /\ a.snap = app.snap /\ a.round = app.round
      BY <2>3 DEF TypeOK, AppType
    <2> HIDE DEF a
    <2>9. /\ status'.pc = "none" /\ mutation'.pc = "none" /\ mutation'.kind = "none"
          /\ mutation'.reply = "none" /\ mutation'.met = None
          /\ app'.fresh = FALSE /\ app'.snap = app.snap
          /\ app'.unknown = u /\ app'.floor = app.floor /\ app'.round = app.round
      BY <2>5, <2>8, CompletedEffect
    <2> QED
      BY <2>4, <2>5, <2>6, <2>7, <2>9
  <1>3. CASE CompleteProbe
    <2> DEFINE round == [tag  |-> [active |-> mutation.tag.active, gen |-> mutation.tag.gen,
                                   life |-> mutation.tag.life],
                         life |-> mutation.met.life, gen |-> mutation.met.gen]
               a == [app EXCEPT !.round = RoundFor(round, app.snap)]
    <2>1. mutation.tag \in Snapshot /\ mutation.met \in Point
      BY <1>3 DEF CompleteProbe, RoundInv, TypeOK, MutationType
    <2>2. round \in Round
      BY <2>1 DEF Snapshot, Point, Round
    <2>3. /\ round.tag.gen = mutation.tag.gen /\ round.tag.life = mutation.tag.life
          /\ round.life = mutation.met.life /\ round.gen = mutation.met.gen
      OBVIOUS
    <2>4. Completed(a) /\ UNCHANGED <<daemon, requests, used>>
      BY <1>3 DEF CompleteProbe
    <2> HIDE DEF round
    <2>5. RoundFor(round, app.snap) \in Round \cup {None}
      BY <2>2, RoundForType
    <2>6. \/ RoundFor(round, app.snap) = None
          \/ /\ RoundFor(round, app.snap) = round /\ round # None
             /\ app.snap # None /\ round.tag.gen = app.snap.gen
      BY DEF RoundFor
    <2>7. /\ a \in AppType /\ a.round = RoundFor(round, app.snap) /\ a.unknown = app.unknown
          /\ a.floor = app.floor /\ a.snap = app.snap
      BY <2>5 DEF TypeOK, AppType
    <2> HIDE DEF a
    <2>8. /\ status'.pc = "none" /\ mutation'.pc = "none" /\ mutation'.kind = "none"
          /\ mutation'.reply = "none" /\ mutation'.met = None
          /\ app'.fresh = FALSE /\ app'.snap = app.snap
          /\ app'.unknown = app.unknown /\ app'.floor = app.floor
          /\ app'.round = RoundFor(round, app.snap)
      BY <2>4, <2>7, CompletedEffect
    <2>9. mutation.kind = "probe" /\ mutation.pc = "running" /\ mutation.tag # None
      BY <1>3 DEF CompleteProbe
    <2> QED
      BY <2>3, <2>4, <2>6, <2>8, <2>9
  <1>4. CASE ProbeFails
    <2> DEFINE a == [app EXCEPT !.round = None]
    <2>1. /\ a \in AppType /\ a.round = None /\ a.unknown = app.unknown
          /\ a.floor = app.floor /\ a.snap = app.snap
      BY DEF TypeOK, AppType
    <2>2. Completed(a)
      BY <1>4 DEF ProbeFails
    <2> HIDE DEF a
    <2> QED
      BY <1>4, <2>1, <2>2, CompletedEffect DEF ProbeFails
  <1>5. CASE CompleteNodeSwitch
    <2>1. app \in AppType /\ Completed(app)
      BY <1>5 DEF CompleteNodeSwitch, TypeOK
    <2> QED
      BY <1>5, <2>1, CompletedEffect DEF CompleteNodeSwitch
  <1> QED
    BY <1>1, <1>2, <1>3, <1>4, <1>5 DEF Complete

(* class_snapshot starts again, or goes one read further. *)
LEMMA ServeEffect ==
    ASSUME TypeOK, StatusInv, ServeStatus
    PROVE  /\ app' = app /\ mutation' = mutation /\ daemon' = daemon /\ requests' = requests /\ used' = used
           /\ \/ status'.pc = "sent"
              \/ /\ status'.pc = "before" /\ status'.snap # None /\ daemon.up
                 /\ status'.snap.life = daemon.life /\ status'.snap.busy = InProgress
              \/ /\ status.pc = "before" /\ status'.pc = "runtime" /\ status'.snap # None
                 /\ status'.snap.gen = daemon.gen /\ status'.snap.active = daemon.active
                 /\ status'.snap.life = status.snap.life /\ status'.snap.busy = status.snap.busy
              \/ /\ status.pc = "runtime" /\ status'.pc = "state" /\ status'.snap # None
                 /\ status'.snap.gen = status.snap.gen /\ status'.snap.active = status.snap.active
                 /\ status'.snap.life = status.snap.life /\ status'.snap.busy = status.snap.busy
                 /\ status'.snap.stats = daemon.stats /\ ~StateLocked
              \/ /\ status.pc = "state" /\ status'.pc = "after" /\ status'.snap # None
                 /\ status'.snap.gen = status.snap.gen /\ status'.snap.active = status.snap.active
                 /\ status'.snap.life = status.snap.life /\ status'.snap.stats = status.snap.stats
                 /\ status'.snap.busy = (status.snap.busy \/ InProgress)
                 /\ daemon.gen = status.snap.gen
              \/ /\ status.pc = "after" /\ status'.pc = "reply" /\ status'.snap = status.snap
                 /\ status.snap # None /\ daemon.gen = status.snap.gen
  <1>1. status.pc \in Serving => status.snap \in Snapshot
    BY DEF StatusInv, TypeOK, StatusType
  <1>2. CASE LoadBefore
    <2> DEFINE s == [gen |-> 0, active |-> daemon.active, stats |-> daemon.active,
                     busy |-> InProgress, life |-> daemon.life]
    <2>1. s \in Snapshot /\ s.life = daemon.life /\ s.busy = InProgress
      BY DEF TypeOK, DaemonType, Snapshot, InProgress
    <2>2. ToStatus("before", s) /\ daemon.up
      BY <1>2 DEF LoadBefore
    <2> HIDE DEF s
    <2> QED
      BY <2>1, <2>2, ToStatusEffect, NoRecordAssumption
  <1>3. CASE ReadRuntime
    <2> DEFINE s == [status.snap EXCEPT !.gen = daemon.gen, !.active = daemon.active]
    <2>1. status.snap \in Snapshot /\ daemon.gen \in Nat /\ daemon.active \in Profiles
      BY <1>1, <1>3 DEF ReadRuntime, Serving, TypeOK, DaemonType
    <2>2. /\ s \in Snapshot /\ s.gen = daemon.gen /\ s.active = daemon.active
          /\ s.life = status.snap.life /\ s.busy = status.snap.busy
      BY <2>1 DEF Snapshot
    <2>3. ToStatus("runtime", s) /\ status.pc = "before"
      BY <1>3 DEF ReadRuntime
    <2> HIDE DEF s
    <2> QED
      BY <2>2, <2>3, ToStatusEffect, NoRecordAssumption
  <1>4. CASE ReadState
    <2> DEFINE s == [status.snap EXCEPT !.stats = daemon.stats]
    <2>1. status.snap \in Snapshot /\ daemon.stats \in Profiles
      BY <1>1, <1>4 DEF ReadState, Serving, TypeOK, DaemonType
    <2>2. /\ s \in Snapshot /\ s.gen = status.snap.gen /\ s.active = status.snap.active
          /\ s.life = status.snap.life /\ s.busy = status.snap.busy /\ s.stats = daemon.stats
      BY <2>1 DEF Snapshot
    <2>3. ToStatus("state", s) /\ status.pc = "runtime" /\ ~StateLocked
      BY <1>4 DEF ReadState
    <2> HIDE DEF s
    <2> QED
      BY <2>2, <2>3, ToStatusEffect, NoRecordAssumption
  <1>5. CASE LoadAfter
    <2> DEFINE s == [status.snap EXCEPT !.busy = @ \/ InProgress]
    <2>1. status.snap \in Snapshot
      BY <1>1, <1>5 DEF LoadAfter, Serving
    <2>2. /\ s \in Snapshot /\ s.gen = status.snap.gen /\ s.active = status.snap.active
          /\ s.life = status.snap.life /\ s.stats = status.snap.stats
          /\ s.busy = (status.snap.busy \/ InProgress)
      BY <2>1 DEF Snapshot, InProgress
    <2>3. /\ status.pc = "state"
          /\ \/ ToStatus("sent", None)
             \/ ToStatus("after", s) /\ daemon.gen = status.snap.gen
      BY <1>5 DEF LoadAfter, GenerationUnchanged
    <2> HIDE DEF s
    <2> QED
      BY <2>2, <2>3, ToStatusEffect, NoRecordAssumption
  <1>6. CASE Answer
    <2>1. status.snap \in Snapshot /\ status.pc = "after"
      BY <1>1, <1>6 DEF Answer, Serving
    <2>2. \/ ToStatus("sent", None)
          \/ ToStatus("reply", status.snap) /\ daemon.gen = status.snap.gen
      BY <1>6 DEF Answer, GenerationUnchanged
    <2> QED
      BY <2>1, <2>2, ToStatusEffect, NoRecordAssumption
  <1> QED
    BY <1>2, <1>3, <1>4, <1>5, <1>6 DEF ServeStatus

-----------------------------------------------------------------------------
(* The parts of the invariant, one by one.                                  *)

(* An answer to the dashboard's request is not one to another client's. *)
LEMMA AwaitedIsOwn ==
    ASSUME MutationInv, NEW r, Awaited(r)
    PROVE  r.id # 0 /\ mutation.kind = "subscription"
  BY DEF MutationInv, Awaited

(* The daemon's steps and the requests. *)
LEMMA DaemonRequests ==
    ASSUME DashInv, TypeOK', NEW r \in requests, DaemonStep(r)
    PROVE  RequestInv'
  <1> USE DEF DashInv
  <1>1. CASE Lock(r)
    <2>1. PICK s \in Request : /\ s.id = r.id /\ s.target = r.target /\ s.pc = "staging"
                               /\ requests' = (requests \ {r}) \cup {s}
      BY <1>1, AdvanceEffect DEF Lock
    <2>2. /\ mutation'.kind = mutation.kind /\ mutation'.reply = mutation.reply
          /\ mutation'.epoch = mutation.epoch
          /\ mutation'.pc = mutation.pc
      BY <1>1 DEF Lock, TypeOK, MutationType
    <2> QED
      BY <1>1, <2>1, <2>2 DEF Lock, RequestInv, Own, Awaited, Holding
  <1>2. CASE Reject(r) \/ Finish(r)
    <2>1. /\ requests' = requests \ {r}
          /\ mutation'.pc = mutation.pc /\ mutation'.kind = mutation.kind
          /\ mutation'.epoch = mutation.epoch
          /\ ~Awaited(r) => mutation'.reply = mutation.reply
      BY <1>2, EndEffect DEF Reject, Finish
    <2>2. UNCHANGED <<app, status, daemon, used>>
      BY <1>2 DEF Reject, Finish
    <2>3. \A q \in Own' : q \in Own /\ ~Awaited(r)
      BY <2>1, AwaitedIsOwn DEF Own, RequestInv
    <2> QED
      BY <2>1, <2>2, <2>3 DEF RequestInv, Own, Awaited
  <1>3. CASE CommitState(r) \/ PublishState(r) \/ PublishRuntime(r)
    <2>1. PICK s \in Request : /\ s.id = r.id /\ s.target = r.target /\ s.pc # "waiting"
                               /\ requests' = (requests \ {r}) \cup {s}
      BY <1>3, AdvanceEffect DEF CommitState, PublishState, PublishRuntime
    <2>2. UNCHANGED <<app, status, mutation, used>> /\ daemon'.up = daemon.up /\ r.pc # "waiting"
      BY <1>3, DaemonEffect DEF CommitState, PublishState, PublishRuntime, TypeOK, Request
    <2> QED
      BY <2>1, <2>2 DEF RequestInv, Own, Awaited
  <1> QED
    BY <1>1, <1>2, <1>3 DEF DaemonStep

(* RequestInv is kept. *)
LEMMA RequestNext ==
    ASSUME DashInv, TypeOK', [Next]_vars
    PROVE  RequestInv'
  <1> USE DEF DashInv
  <1>1. ASSUME NEW r \in requests, DaemonStep(r) PROVE RequestInv'
    BY <1>1, DaemonRequests
  <1>2. CASE Dispatch
    <2> DEFINE n == [id |-> mutation.epoch, target |-> mutation.requested, pc |-> "waiting"]
    <2>1. n.id = mutation.epoch /\ n.pc = "waiting"
      OBVIOUS
    <2>2. requests' = requests \cup {n} /\ UNCHANGED <<app, status, daemon, used>> /\ daemon.up
      BY <1>2 DEF Dispatch
    <2>3. /\ mutation'.kind = "subscription" /\ mutation'.epoch = mutation.epoch
          /\ mutation'.pc = "running" /\ mutation'.reply = mutation.reply
      BY <1>2 DEF Dispatch, TypeOK, MutationType
    <2>4. Own = {} /\ mutation.epoch # 0 /\ mutation.reply = "none"
      BY <1>2 DEF Dispatch, MutationInv
    <2> HIDE DEF n
    <2> QED
      BY <2>1, <2>2, <2>3, <2>4 DEF RequestInv, Own, Awaited
  <1>3. CASE StartProbe
    <2>1. mutation'.kind = "probe" /\ mutation.kind = "probe" /\ UNCHANGED <<app, status, daemon, requests, used>>
      BY <1>3 DEF StartProbe, TypeOK, MutationType
    <2> QED
      BY <2>1 DEF RequestInv, Own, Awaited
  <1>4. CASE Crash
    BY <1>4, CrashEffect DEF RequestInv, Own
  <1>5. CASE Restart
    BY <1>5, RestartEffect DEF RequestInv, Own
  <1>6. ASSUME NEW p \in Profiles, OtherRequest(p) PROVE RequestInv'
    <2> DEFINE n == [id |-> 0, target |-> p, pc |-> "waiting"]
    <2>1. n.id = 0 /\ n.pc = "waiting"
      OBVIOUS
    <2>2. /\ requests' = requests \cup {n} /\ UNCHANGED <<app, status, mutation, daemon>> /\ daemon.up
          /\ used'.other # 0
      BY <1>6 DEF OtherRequest, TypeOK
    <2> HIDE DEF n
    <2> QED
      BY <2>1, <2>2 DEF RequestInv, Own, Awaited
  <1>7. CASE ServeStatus
    <2>1. Own # {} => InProgress
      BY DEF Own, InProgress
    <2> QED
      BY <1>7, <2>1, ServeEffect DEF RequestInv, Own, Awaited, Serving
  <1>8. CASE SpawnStatus
    BY <1>8, SpawnEffect DEF RequestInv, Own, Awaited, Serving
  <1>9. CASE ApplyStatus /\ Current(status)
    <2>1. status.snap.busy => app'.unknown = app.unknown
      BY <1>9, ApplyEffect DEF Reconcile
    <2> QED
      BY <1>9, <2>1, ApplyEffect DEF RequestInv, Own, Awaited, Serving
  <1>10. CASE (ApplyStatus /\ ~Current(status)) \/ StatusFails \/ ChangeClass
    BY <1>10, ForgetEffect DEF RequestInv, Own, Awaited, Serving
  <1>11. CASE \/ \E p \in Profiles : PickSubscription(p) \/ SubmitUrlEdit(p)
              \/ SubmitProbe \/ SubmitNodeSwitch
    BY <1>11, SubmitEffect DEF RequestInv, Own, Awaited
  <1>12. CASE Complete
    BY <1>12, CompleteEffect DEF RequestInv, Own, Awaited, Serving
  <1>13. CASE UNCHANGED vars
    BY <1>13 DEF vars, RequestInv, Own, Awaited
  <1> QED
    BY <1>1, <1>2, <1>3, <1>4, <1>5, <1>6, <1>7, <1>8, <1>9, <1>10, <1>11, <1>12, <1>13 DEF Next

(* Another client's change, a crash and a restart are not undone. *)
LEMMA OthersStay ==
    ASSUME TypeOK, TypeOK', [Next]_vars
    PROVE  Others => Others'
  <1>1. ASSUME NEW r \in requests, DaemonStep(r) PROVE used' = used /\ daemon'.up = daemon.up /\ daemon'.life = daemon.life
    BY <1>1, DaemonEffect DEF DaemonStep, Lock, Reject, CommitState, PublishState, PublishRuntime, Finish,
                              TypeOK, Request
  <1>2. CASE Dispatch \/ StartProbe \/ SpawnStatus \/ UNCHANGED vars
    BY <1>2 DEF Dispatch, StartProbe, SpawnStatus, vars, Others
  <1>3. CASE Crash
    BY <1>3, CrashEffect DEF Others
  <1>4. CASE Restart
    <2>1. daemon.life \in Nat /\ daemon'.life = daemon.life + 1
      BY <1>4, RestartEffect DEF TypeOK, DaemonType
    <2> QED
      BY <2>1 DEF Others
  <1>5. ASSUME NEW p \in Profiles, OtherRequest(p) PROVE Others'
    BY <1>5 DEF OtherRequest, Others, TypeOK
  <1>6. CASE ServeStatus
    <2>1. used' = used /\ daemon' = daemon
      BY <1>6 DEF ServeStatus, LoadBefore, ReadRuntime, ReadState, LoadAfter, Answer, ToStatus
    <2> QED
      BY <2>1 DEF Others
  <1>7. CASE ApplyStatus
    BY <1>7 DEF ApplyStatus, Others
  <1>8. CASE StatusFails \/ ChangeClass
    BY <1>8, ForgetEffect DEF Others
  <1>9. CASE \/ \E p \in Profiles : PickSubscription(p) \/ SubmitUrlEdit(p)
             \/ SubmitProbe \/ SubmitNodeSwitch
    BY <1>9, SubmitEffect DEF Others
  <1>10. CASE Complete
    <2>1. daemon' = daemon /\ used'.other = used.other
      BY <1>10 DEF Complete, CompleteSubscription, LoseSubscription, CompleteProbe, ProbeFails,
                   CompleteNodeSwitch, TypeOK
    <2> QED
      BY <2>1 DEF Others
  <1> QED
    BY <1>1, <1>2, <1>3, <1>4, <1>5, <1>6, <1>7, <1>8, <1>9, <1>10 DEF Next, Others

(* MutationInv is kept. *)
LEMMA MutationNext ==
    ASSUME DashInv, TypeOK', [Next]_vars
    PROVE  MutationInv'
  <1> USE DEF DashInv
  <1>0. Others => Others'
    BY OthersStay
  <1>1. ASSUME NEW r \in requests, Lock(r) PROVE MutationInv'
    <2>1. PICK s \in Request : /\ s.id = r.id /\ s.target = r.target /\ s.pc = "staging"
                               /\ requests' = (requests \ {r}) \cup {s}
      BY <1>1, AdvanceEffect DEF Lock
    <2>2. /\ mutation'.kind = mutation.kind /\ mutation'.reply = mutation.reply
          /\ mutation'.epoch = mutation.epoch /\ mutation'.pc = mutation.pc
          /\ mutation'.previous = mutation.previous /\ mutation'.requested = mutation.requested
          /\ (mutation'.met = mutation.met \/ (Awaited(r) /\ mutation'.met = Here))
      BY <1>1 DEF Lock, TypeOK, MutationType
    <2>3. Here # None /\ (Awaited(r) => mutation.pc = "running")
      BY HereFields, AwaitedIsOwn DEF RequestInv, Own
    <2>4. (Own' = {}) <=> (Own = {})
      BY <2>1 DEF Own
    <2> QED
      BY <1>0, <1>1, <2>2, <2>3, <2>4 DEF Lock, MutationInv
  <1>2. ASSUME NEW r \in requests, Reject(r) \/ Finish(r) PROVE MutationInv'
    <2>1. /\ requests' = requests \ {r}
          /\ mutation'.pc = mutation.pc /\ mutation'.kind = mutation.kind
          /\ mutation'.epoch = mutation.epoch /\ mutation'.previous = mutation.previous
          /\ mutation'.requested = mutation.requested /\ mutation'.met = mutation.met
          /\ Awaited(r) => mutation'.reply # "none"
          /\ ~Awaited(r) => mutation'.reply = mutation.reply
      BY <1>2, EndEffect DEF Reject, Finish
    <2>2. Awaited(r) => mutation.kind = "subscription" /\ mutation.pc = "running"
      BY AwaitedIsOwn DEF RequestInv, Own
    <2>3. mutation.kind = "subscription" /\ mutation.reply = "none" /\ r.id # 0 => Awaited(r)
      BY DEF RequestInv, Own
    <2>4. app' = app
      BY <1>2 DEF Reject, Finish
    <2> QED
      BY <1>0, <2>1, <2>2, <2>3, <2>4 DEF MutationInv, Own
  <1>3. ASSUME NEW r \in requests, CommitState(r) \/ PublishState(r) \/ PublishRuntime(r) PROVE MutationInv'
    <2>1. PICK s \in Request : s.id = r.id /\ requests' = (requests \ {r}) \cup {s}
      BY <1>3, AdvanceEffect DEF CommitState, PublishState, PublishRuntime
    <2>2. UNCHANGED <<app, mutation>>
      BY <1>3 DEF CommitState, PublishState, PublishRuntime
    <2>3. (Own' = {}) <=> (Own = {})
      BY <2>1 DEF Own
    <2> QED
      BY <1>0, <2>2, <2>3 DEF MutationInv
  <1>4. CASE Dispatch
    <2> DEFINE n == [id |-> mutation.epoch, target |-> mutation.requested, pc |-> "waiting"]
    <2>1. n.id = mutation.epoch
      OBVIOUS
    <2>2. requests' = requests \cup {n} /\ app' = app
      BY <1>4 DEF Dispatch
    <2>3. /\ mutation'.kind = "subscription" /\ mutation'.epoch = mutation.epoch
          /\ mutation'.pc = "running" /\ mutation'.reply = mutation.reply /\ mutation'.met = Here
          /\ mutation'.previous = mutation.previous /\ mutation'.requested = mutation.requested
          /\ mutation.kind = "subscription"
      BY <1>4 DEF Dispatch, TypeOK, MutationType
    <2> HIDE DEF n
    <2>4. n \in Own'
      BY <2>1, <2>2, <2>3 DEF Own, MutationInv
    <2> QED
      BY <2>2, <2>3, <2>4, HereFields DEF MutationInv
  <1>5. CASE StartProbe
    <2>1. /\ mutation'.kind = "probe" /\ mutation.kind = "probe" /\ mutation'.epoch = mutation.epoch
          /\ mutation'.reply = mutation.reply
      BY <1>5 DEF StartProbe, TypeOK, MutationType
    <2> QED
      BY <2>1 DEF MutationInv
  <1>6. CASE Crash
    <2>1. Others'
      BY <1>6, CrashEffect DEF Others
    <2> QED
      BY <1>6, <2>1, CrashEffect DEF MutationInv, Own
  <1>7. CASE Restart
    BY <1>0, <1>7, RestartEffect DEF MutationInv, Own
  <1>8. ASSUME NEW p \in Profiles, OtherRequest(p) PROVE MutationInv'
    <2> DEFINE n == [id |-> 0, target |-> p, pc |-> "waiting"]
    <2>1. n.id = 0
      OBVIOUS
    <2>2. requests' = requests \cup {n} /\ UNCHANGED <<app, mutation>>
      BY <1>8 DEF OtherRequest
    <2> HIDE DEF n
    <2>3. Own' = Own
      BY <2>1, <2>2 DEF Own
    <2> QED
      BY <1>0, <2>2, <2>3 DEF MutationInv
  <1>9. CASE ServeStatus
    BY <1>0, <1>9, ServeEffect DEF MutationInv, Own
  <1>10. CASE SpawnStatus
    BY <1>0, <1>10, SpawnEffect DEF MutationInv, Own
  <1>11. CASE ApplyStatus /\ Current(status)
    <2>1. app.unknown = None => app'.unknown = None
      BY <1>11, ApplyEffect DEF Reconcile
    <2> QED
      BY <1>0, <1>11, <2>1, ApplyEffect DEF MutationInv, Own
  <1>12. CASE (ApplyStatus /\ ~Current(status)) \/ StatusFails \/ ChangeClass
    BY <1>0, <1>12, ForgetEffect DEF MutationInv, Own
  <1>13. CASE \/ \E p \in Profiles : PickSubscription(p) \/ SubmitUrlEdit(p)
              \/ SubmitProbe \/ SubmitNodeSwitch
    <2>1. app.snap # None => app.snap.active \in Profiles
      BY DEF TypeOK, AppType, Snapshot
    <2>2. mutation'.kind = "subscription" => Own = {}
      BY <1>13, SubmitEffect DEF RequestInv, Awaited
    <2> QED
      BY <1>13, <2>1, <2>2, SubmitEffect, NoneAssumption DEF MutationInv, Own
  <1>14. CASE Complete
    BY <1>14, CompleteEffect DEF MutationInv
  <1>15. CASE UNCHANGED vars
    BY <1>0, <1>15 DEF vars, MutationInv, Own
  <1> QED
    BY <1>1, <1>2, <1>3, <1>4, <1>5, <1>6, <1>7, <1>8, <1>9, <1>10, <1>11, <1>12, <1>13, <1>14, <1>15
       DEF Next, DaemonStep

(* PublishInv is kept. *)
LEMMA PublishNext ==
    ASSUME DashInv, TypeOK', [Next]_vars
    PROVE  PublishInv'
  <1> USE DEF DashInv
  <1>1. ASSUME NEW r \in requests, NEW s, UNCHANGED daemon, r.pc # "flipping", s.pc # "flipping",
               requests' = (requests \ {r}) \cup {s}
        PROVE  PublishInv'
    BY <1>1 DEF PublishInv, StateLocked
  <1>2. ASSUME NEW r \in requests, Lock(r) PROVE PublishInv'
    <2>1. PICK s \in Request : s.pc = "staging" /\ requests' = (requests \ {r}) \cup {s}
      BY <1>2, AdvanceEffect DEF Lock
    <2> QED
      BY <1>1, <1>2, <2>1 DEF Lock
  <1>3. ASSUME NEW r \in requests, Reject(r) \/ Finish(r) PROVE PublishInv'
    <2>1. requests' = requests \ {r} /\ daemon' = daemon /\ r.pc # "flipping"
      BY <1>3 DEF Reject, Finish, End
    <2> QED
      BY <2>1 DEF PublishInv, StateLocked
  <1>4. ASSUME NEW r \in requests, CommitState(r) PROVE PublishInv'
    <2>1. PICK s \in Request : s.pc = "committed" /\ requests' = (requests \ {r}) \cup {s}
      BY <1>4, AdvanceEffect DEF CommitState
    <2>2. daemon'.up = daemon.up /\ daemon'.stats = daemon.stats /\ daemon'.active = daemon.active
      BY <1>4, DaemonEffect DEF CommitState, TypeOK, Request
    <2> QED
      BY <1>4, <2>1, <2>2 DEF CommitState, PublishInv, StateLocked
  <1>5. ASSUME NEW r \in requests, PublishState(r) PROVE PublishInv'
    <2>1. PICK s \in Request : /\ s.pc = "flipping" /\ s.target = r.target
                               /\ requests' = (requests \ {r}) \cup {s}
      BY <1>5, AdvanceEffect DEF PublishState
    <2>2. daemon'.stats = r.target
      BY <1>5, DaemonEffect DEF PublishState, TypeOK, Request
    <2>3. \A q \in requests \ {r} : q.pc = "waiting"
      BY <1>5 DEF PublishState, RequestInv
    <2> QED
      BY <2>1, <2>2, <2>3 DEF PublishInv, StateLocked
  <1>6. ASSUME NEW r \in requests, PublishRuntime(r) PROVE PublishInv'
    <2>1. PICK s \in Request : /\ s.pc = "published" /\ requests' = (requests \ {r}) \cup {s}
      BY <1>6, AdvanceEffect DEF PublishRuntime
    <2>2. daemon'.stats = r.target /\ daemon'.active = r.target
      BY <1>6, DaemonEffect DEF PublishRuntime, PublishInv, TypeOK, Request
    <2>3. \A q \in requests \ {r} : q.pc = "waiting"
      BY <1>6 DEF PublishRuntime, RequestInv
    <2> QED
      BY <2>1, <2>2, <2>3 DEF PublishInv, StateLocked
  <1>7. CASE Dispatch \/ \E p \in Profiles : OtherRequest(p)
    <2>1. PICK n : n.pc = "waiting" /\ requests' = requests \cup {n} /\ daemon' = daemon
      BY <1>7 DEF Dispatch, OtherRequest
    <2> QED
      BY <2>1 DEF PublishInv, StateLocked
  <1>8. CASE Crash
    BY <1>8, CrashEffect DEF PublishInv
  <1>9. CASE Restart
    BY <1>9, RestartEffect DEF PublishInv, RequestInv
  <1>10. CASE StartProbe \/ UNCHANGED vars
    BY <1>10 DEF StartProbe, vars, PublishInv, StateLocked
  <1>11. CASE ServeStatus \/ SpawnStatus \/ ApplyStatus \/ StatusFails \/ ChangeClass
    <2>1. daemon' = daemon /\ requests' = requests
      BY <1>11, ServeEffect DEF SpawnStatus, ApplyStatus, StatusFails, ChangeClass
    <2> QED
      BY <2>1 DEF PublishInv, StateLocked
  <1>12. CASE \/ \E p \in Profiles : PickSubscription(p) \/ SubmitUrlEdit(p)
              \/ SubmitProbe \/ SubmitNodeSwitch
    BY <1>12, SubmitEffect DEF PublishInv, StateLocked
  <1>13. CASE Complete
    BY <1>13, CompleteEffect DEF PublishInv, StateLocked
  <1> QED
    BY <1>2, <1>3, <1>4, <1>5, <1>6, <1>7, <1>8, <1>9, <1>10, <1>11, <1>12, <1>13 DEF Next, DaemonStep

(* MetInv is kept by the steps of a transaction. *)
LEMMA DaemonMet ==
    ASSUME DashInv, TypeOK', NEW r \in requests, DaemonStep(r)
    PROVE  MetInv'
  <1> USE DEF DashInv
  <1>0. /\ mutation.met # None => mutation.met.life \in Nat /\ mutation.met.gen \in Nat
        /\ daemon.life \in Nat /\ daemon.gen \in Nat
        /\ Here # None /\ Here.life = daemon.life /\ Here.gen = daemon.gen
    BY HereFields DEF TypeOK, MutationType, DaemonType, Point
  <1>1. CASE Lock(r)
    <2>1. PICK s \in Request : /\ s.id = r.id /\ s.pc = "staging"
                               /\ requests' = (requests \ {r}) \cup {s}
      BY <1>1, AdvanceEffect DEF Lock
    <2>2. /\ mutation'.kind = mutation.kind /\ mutation'.reply = mutation.reply
          /\ mutation'.epoch = mutation.epoch
          /\ Awaited(r) => mutation'.met = Here
          /\ ~Awaited(r) => mutation'.met = mutation.met
      BY <1>1 DEF Lock, TypeOK, MutationType
    <2>3. UNCHANGED <<daemon, used>> /\ Here' = Here
      BY <1>1 DEF Lock, Here
    <2>4. \A q \in requests : Awaited(q) /\ Awaited(r) => q = r
      BY AwaitedIsOwn DEF RequestInv, Own
    <2>5. Awaited(r) => mutation.reply = "none"
      BY AwaitedIsOwn DEF RequestInv, Own
    <2>6. mutation'.met # None => Reached(mutation.met)'
      BY <1>0, <2>2, <2>3 DEF MetInv, Reached
    <2>7. mutation'.reply = "ok" => Passed(mutation.met)'
      BY <2>2, <2>3, <2>5 DEF MetInv, Passed
    <2>8. ASSUME NEW q \in requests', Awaited(q)'
          PROVE  /\ q.pc \in {"staging", "committed", "flipping"} => mutation'.met = Here'
                 /\ q.pc = "waiting" /\ ~Others' => mutation'.met = Here'
                 /\ q.pc = "published" => Passed(mutation.met)'
      <3>1. CASE q = s
        BY <2>1, <2>2, <2>3, <2>8, <3>1 DEF Awaited
      <3>2. CASE q # s
        <4>1. q \in requests /\ q # r /\ Awaited(q)
          BY <2>1, <2>2, <2>8, <3>2 DEF Awaited
        <4>2. ~Awaited(r)
          BY <2>4, <4>1
        <4> QED
          BY <2>2, <2>3, <4>1, <4>2 DEF MetInv, Passed, Others
      <3> QED
        BY <3>1, <3>2
    <2> QED
      BY <2>6, <2>7, <2>8 DEF MetInv
  <1>2. CASE Reject(r) \/ Finish(r)
    <2>1. /\ requests' = requests \ {r}
          /\ mutation'.kind = mutation.kind /\ mutation'.epoch = mutation.epoch
          /\ mutation'.met = mutation.met
          /\ Awaited(r) /\ Reject(r) => mutation'.reply = "failed"
          /\ ~Awaited(r) => mutation'.reply = mutation.reply
      BY <1>2, EndEffect DEF Reject, Finish
    <2>2. UNCHANGED <<daemon, used>> /\ Here' = Here /\ (Finish(r) => r.pc = "published")
      BY <1>2 DEF Reject, Finish, Here
    <2>3. mutation'.reply = "ok" => Passed(mutation.met)
      BY <1>2, <2>1, <2>2 DEF MetInv
    <2> QED
      BY <2>1, <2>2, <2>3 DEF MetInv, Awaited, Passed, Reached, Others
  <1>3. CASE CommitState(r) \/ PublishState(r)
    <2>1. PICK s \in Request : /\ s.id = r.id /\ s.pc \in {"committed", "flipping"}
                               /\ requests' = (requests \ {r}) \cup {s}
      BY <1>3, AdvanceEffect DEF CommitState, PublishState
    <2>2. /\ UNCHANGED <<mutation, used>> /\ r.pc \in {"staging", "committed"}
          /\ daemon'.up = daemon.up /\ daemon'.life = daemon.life /\ daemon'.gen = daemon.gen
      BY <1>3, DaemonEffect DEF CommitState, PublishState, TypeOK, Request
    <2>3. Here' = Here
      BY <2>2 DEF Here
    <2> QED
      BY <2>1, <2>2, <2>3 DEF MetInv, Awaited, Passed, Reached, Others
  <1>4. CASE PublishRuntime(r)
    <2>1. PICK s \in Request : /\ s.id = r.id /\ s.pc = "published"
                               /\ requests' = (requests \ {r}) \cup {s}
      BY <1>4, AdvanceEffect DEF PublishRuntime
    <2>2. /\ UNCHANGED <<mutation, used>> /\ r.pc = "flipping"
          /\ daemon'.up = daemon.up /\ daemon'.life = daemon.life /\ daemon'.gen = daemon.gen + 1
      BY <1>4, DaemonEffect DEF PublishRuntime, TypeOK, Request
    <2>4. ASSUME NEW q \in requests', Awaited(q)'
          PROVE  \/ q.pc = "published" /\ Passed(mutation.met)'
                 \/ q.pc = "waiting" /\ Others'
      <3>1. CASE q = s
        <4>1. Awaited(r) /\ mutation.met = Here
          BY <2>1, <2>2, <2>4, <3>1 DEF Awaited, MetInv
        <4> QED
          BY <1>0, <2>1, <2>2, <3>1, <4>1 DEF Passed
      <3>2. CASE q # s
        <4>1. q \in requests /\ q # r /\ Awaited(q)
          BY <2>1, <2>2, <2>4, <3>2 DEF Awaited
        <4>2. q.pc = "waiting"
          BY <2>2, <4>1 DEF RequestInv
        <4>3. q \in Own /\ r \notin Own
          BY <4>1, AwaitedIsOwn DEF RequestInv, Own
        <4>4. used.other # 0
          BY <4>3 DEF RequestInv
        <4> QED
          BY <2>2, <4>2, <4>4 DEF Others
      <3> QED
        BY <3>1, <3>2
    <2>5. mutation.met # None => Reached(mutation.met)'
      BY <1>0, <2>2 DEF MetInv, Reached
    <2>6. mutation.reply = "ok" => Passed(mutation.met)'
      BY <1>0, <2>2 DEF MetInv, MutationInv, Passed
    <2> QED
      BY <2>2, <2>4, <2>5, <2>6 DEF MetInv
  <1> QED
    BY <1>1, <1>2, <1>3, <1>4 DEF DaemonStep

(* MetInv is kept. *)
LEMMA MetNext ==
    ASSUME DashInv, TypeOK', [Next]_vars
    PROVE  MetInv'
  <1> USE DEF DashInv
  <1>0. /\ mutation.met # None => mutation.met.life \in Nat /\ mutation.met.gen \in Nat
        /\ daemon.life \in Nat /\ daemon.gen \in Nat
        /\ Here # None /\ Here.life = daemon.life /\ Here.gen = daemon.gen
    BY HereFields DEF TypeOK, MutationType, DaemonType, Point
  <1>1. ASSUME NEW r \in requests, DaemonStep(r) PROVE MetInv'
    BY <1>1, DaemonMet
  <1>2. CASE Dispatch
    <2> DEFINE n == [id |-> mutation.epoch, target |-> mutation.requested, pc |-> "waiting"]
    <2>1. n.id = mutation.epoch /\ n.pc = "waiting"
      OBVIOUS
    <2>2. requests' = requests \cup {n} /\ UNCHANGED <<daemon, used>> /\ Here' = Here
      BY <1>2 DEF Dispatch, Here
    <2>3. /\ mutation'.kind = "subscription" /\ mutation'.epoch = mutation.epoch
          /\ mutation'.reply = mutation.reply /\ mutation'.met = Here
      BY <1>2 DEF Dispatch, TypeOK, MutationType
    <2>4. Own = {} /\ mutation.epoch # 0 /\ mutation.reply = "none"
      BY <1>2 DEF Dispatch, MutationInv
    <2> HIDE DEF n
    <2>5. \A q \in requests' : Awaited(q)' => q = n
      BY <2>2, <2>3, <2>4 DEF Awaited, Own
    <2> QED
      BY <1>0, <2>1, <2>2, <2>3, <2>4, <2>5 DEF MetInv, Reached
  <1>3. CASE StartProbe
    <2>1. /\ mutation'.kind = "probe" /\ mutation'.met = Here /\ mutation'.reply = mutation.reply
          /\ mutation.kind = "probe" /\ daemon' = daemon
      BY <1>3 DEF StartProbe, TypeOK, MutationType
    <2> QED
      BY <1>0, <2>1 DEF MetInv, MutationInv, Reached, Awaited
  <1>4. CASE Crash
    BY <1>4, CrashEffect DEF MetInv, Passed, Reached
  <1>5. CASE Restart
    <2>1. requests' = {}
      BY <1>5, RestartEffect DEF RequestInv
    <2> QED
      BY <1>0, <1>5, <2>1, RestartEffect DEF MetInv, MutationInv, Passed, Reached
  <1>6. ASSUME NEW p \in Profiles, OtherRequest(p) PROVE MetInv'
    <2> DEFINE n == [id |-> 0, target |-> p, pc |-> "waiting"]
    <2>1. n.id = 0
      OBVIOUS
    <2>2. requests' = requests \cup {n} /\ UNCHANGED <<mutation, daemon>> /\ Here' = Here
      BY <1>6 DEF OtherRequest, Here
    <2> HIDE DEF n
    <2>3. ~Awaited(n)'
      BY <2>1, <2>2 DEF Awaited, MutationInv
    <2>4. Others => Others'
      BY OthersStay, <1>6 DEF Next
    <2> QED
      BY <2>2, <2>3, <2>4 DEF MetInv, Awaited, Passed, Reached
  <1>7. CASE ServeStatus \/ SpawnStatus \/ ApplyStatus \/ StatusFails \/ ChangeClass
    <2>1. mutation' = mutation /\ daemon' = daemon /\ requests' = requests /\ Here' = Here
      BY <1>7, ServeEffect DEF SpawnStatus, ApplyStatus, StatusFails, ChangeClass, Here
    <2>2. Others => Others'
      BY OthersStay, <1>7 DEF Next
    <2> QED
      BY <2>1, <2>2 DEF MetInv, Awaited, Passed, Reached
  <1>8. CASE \/ \E p \in Profiles : PickSubscription(p) \/ SubmitUrlEdit(p)
             \/ SubmitProbe \/ SubmitNodeSwitch
    <2>1. \A q \in requests' : ~Awaited(q)'
      <3>1. mutation'.kind = "subscription" => Own = {}
        BY <1>8, SubmitEffect DEF RequestInv, Awaited
      <3> QED
        BY <1>8, <3>1, SubmitEffect DEF Awaited, Own
    <2> QED
      BY <1>8, <2>1, SubmitEffect DEF MetInv
  <1>9. CASE Complete
    BY <1>9, CompleteEffect DEF MetInv, Awaited
  <1>10. CASE UNCHANGED vars
    BY <1>10 DEF vars, MetInv, Awaited, Passed, Reached, Here, Others
  <1> QED
    BY <1>1, <1>2, <1>3, <1>4, <1>5, <1>6, <1>7, <1>8, <1>9, <1>10 DEF Next

(***************************************************************************)
(* Steps of a transaction other than PublishRuntime leave the generation,  *)
(* and no request is newly published; PublishRuntime begins a generation.  *)
(***************************************************************************)
LEMMA DaemonTime ==
    ASSUME DashInv, NEW r \in requests, DaemonStep(r)
    PROVE  /\ app' = app /\ status' = status /\ used' = used
           /\ daemon'.up = daemon.up /\ daemon'.life = daemon.life
           /\ \/ /\ daemon'.gen = daemon.gen /\ daemon'.active = daemon.active
                 /\ \A q \in requests' : q.pc = "published" => q \in requests
              \/ daemon'.gen = daemon.gen + 1 /\ mutation' = mutation
  <1> USE DEF DashInv
  <1>1. CASE Lock(r)
    <2>1. PICK s \in Request : s.pc = "staging" /\ requests' = (requests \ {r}) \cup {s}
      BY <1>1, AdvanceEffect DEF Lock
    <2> QED
      BY <1>1, <2>1 DEF Lock
  <1>2. CASE Reject(r) \/ Finish(r)
    BY <1>2 DEF Reject, Finish, End
  <1>3. CASE CommitState(r) \/ PublishState(r)
    <2>1. PICK s \in Request : s.pc # "published" /\ requests' = (requests \ {r}) \cup {s}
      BY <1>3, AdvanceEffect DEF CommitState, PublishState
    <2>2. daemon'.up = daemon.up /\ daemon'.life = daemon.life /\ daemon'.gen = daemon.gen /\ daemon'.active = daemon.active
      BY <1>3, DaemonEffect DEF CommitState, PublishState, TypeOK, Request
    <2> QED
      BY <1>3, <2>1, <2>2 DEF CommitState, PublishState
  <1>4. CASE PublishRuntime(r)
    BY <1>4, DaemonEffect DEF PublishRuntime, TypeOK, Request
  <1> QED
    BY <1>1, <1>2, <1>3, <1>4 DEF DaemonStep

(* The numbers in the records are numbers. *)
LEMMA Numbers ==
    ASSUME TypeOK
    PROVE  /\ daemon.life \in Nat /\ daemon.gen \in Nat
           /\ status.snap # None => status.snap.life \in Nat /\ status.snap.gen \in Nat
           /\ app.snap # None => app.snap.life \in Nat /\ app.snap.gen \in Nat
           /\ app.floor # None => app.floor.life \in Nat /\ app.floor.gen \in Nat
           /\ mutation.met # None => mutation.met.life \in Nat /\ mutation.met.gen \in Nat
           /\ mutation.tag # None => mutation.tag.life \in Nat /\ mutation.tag.gen \in Nat
           /\ app.round # None => /\ app.round.life \in Nat /\ app.round.gen \in Nat
                                  /\ app.round.tag.life \in Nat /\ app.round.tag.gen \in Nat
  <1>1. daemon.life \in Nat /\ daemon.gen \in Nat
    BY DEF TypeOK, DaemonType
  <1>2. /\ status.snap # None => status.snap.life \in Nat /\ status.snap.gen \in Nat
        /\ app.snap # None => app.snap.life \in Nat /\ app.snap.gen \in Nat
        /\ mutation.tag # None => mutation.tag.life \in Nat /\ mutation.tag.gen \in Nat
    BY DEF TypeOK, StatusType, AppType, MutationType, Snapshot
  <1>3. /\ app.floor # None => app.floor.life \in Nat /\ app.floor.gen \in Nat
        /\ mutation.met # None => mutation.met.life \in Nat /\ mutation.met.gen \in Nat
    BY DEF TypeOK, AppType, MutationType, Point
  <1>4. app.round # None => /\ app.round.life \in Nat /\ app.round.gen \in Nat
                            /\ app.round.tag.life \in Nat /\ app.round.tag.gen \in Nat
    BY DEF TypeOK, AppType, Round
  <1> QED
    BY <1>1, <1>2, <1>3, <1>4

(* StatusInv is kept. *)
LEMMA StatusNext ==
    ASSUME DashInv, TypeOK', [Next]_vars
    PROVE  StatusInv'
  <1> USE DEF DashInv
  <1>0. /\ daemon.life \in Nat /\ daemon.gen \in Nat
        /\ status.snap # None => status.snap.life \in Nat /\ status.snap.gen \in Nat
    BY Numbers
  <1>1. ASSUME NEW r \in requests, DaemonStep(r) PROVE StatusInv'
    BY <1>0, <1>1, DaemonTime DEF StatusInv, Reached, Matches, Serving, Dated
  <1>2. CASE Dispatch \/ \E p \in Profiles : OtherRequest(p)
    <2>1. PICK n : /\ n.pc = "waiting" /\ requests' = requests \cup {n}
                   /\ daemon' = daemon /\ status' = status
      BY <1>2 DEF Dispatch, OtherRequest
    <2> QED
      BY <2>1 DEF StatusInv, Reached, Matches
  <1>3. CASE StartProbe \/ UNCHANGED vars
    BY <1>3 DEF StartProbe, vars, StatusInv, Reached, Matches
  <1>4. CASE Crash
    BY <1>0, <1>4, CrashEffect DEF StatusInv, Reached, Matches, Serving, Dated
  <1>5. CASE Restart
    BY <1>0, <1>5, RestartEffect DEF StatusInv, Reached, Matches, Serving, Dated
  <1>6. CASE ServeStatus
    <2>1. CASE status'.pc = "sent"
      BY <2>1 DEF StatusInv, Serving, Dated
    <2>2. CASE status'.pc = "before"
      BY <1>6, <2>2, ServeEffect DEF StatusInv, Serving, Dated
    <2>3. CASE status'.pc = "runtime"
      BY <1>0, <1>6, <2>3, ServeEffect DEF StatusInv, Serving, Dated, Reached, Matches
    <2>4. CASE status'.pc = "state"
      BY <1>0, <1>6, <2>4, ServeEffect DEF StatusInv, Serving, Dated, Reached, Matches, PublishInv
    <2>5. CASE status'.pc = "after"
      <3>1. InProgress \/ requests = {}
        BY DEF InProgress
      <3> QED
        BY <1>0, <1>6, <2>5, <3>1, ServeEffect DEF StatusInv, Serving, Dated, Reached, Matches
    <2>6. CASE status'.pc = "reply"
      BY <1>0, <1>6, <2>6, ServeEffect DEF StatusInv, Serving, Dated, Reached, Matches
    <2> QED
      BY <1>6, <2>1, <2>2, <2>3, <2>4, <2>5, <2>6, ServeEffect
  <1>7. CASE SpawnStatus
    BY <1>7, SpawnEffect DEF StatusInv, Serving, Dated
  <1>8. CASE ApplyStatus \/ StatusFails \/ ChangeClass
    BY <1>8, ApplyEffect, ForgetEffect DEF StatusInv, Serving, Dated
  <1>9. CASE \/ \E p \in Profiles : PickSubscription(p) \/ SubmitUrlEdit(p)
             \/ SubmitProbe \/ SubmitNodeSwitch
    BY <1>9, SubmitEffect DEF StatusInv, Reached, Matches
  <1>10. CASE Complete
    BY <1>10, CompleteEffect DEF StatusInv, Serving, Dated
  <1> QED
    BY <1>1, <1>2, <1>3, <1>4, <1>5, <1>6, <1>7, <1>8, <1>9, <1>10 DEF Next

(* ShownInv is kept. *)
LEMMA ShownNext ==
    ASSUME DashInv, TypeOK', [Next]_vars
    PROVE  ShownInv'
  <1> USE DEF DashInv
  <1>0. /\ daemon.life \in Nat /\ daemon.gen \in Nat
        /\ status.snap # None => status.snap.life \in Nat /\ status.snap.gen \in Nat
        /\ app.snap # None => app.snap.life \in Nat /\ app.snap.gen \in Nat
        /\ app.floor # None => app.floor.life \in Nat /\ app.floor.gen \in Nat
        /\ mutation.met # None => mutation.met.life \in Nat /\ mutation.met.gen \in Nat
    BY Numbers
  <1>1. ASSUME NEW r \in requests, DaemonStep(r) PROVE ShownInv'
    BY <1>0, <1>1, DaemonTime DEF ShownInv, Reached, Matches, Passed
  <1>2. CASE Dispatch \/ StartProbe \/ UNCHANGED vars \/ \E p \in Profiles : OtherRequest(p)
    <2>1. daemon' = daemon /\ status' = status /\ app' = app
      BY <1>2 DEF Dispatch, OtherRequest, StartProbe, vars
    <2> QED
      BY <2>1 DEF ShownInv, Reached, Matches, Passed
  <1>3. CASE Crash
    <2>1. /\ app' = app /\ daemon'.life = daemon.life /\ daemon'.gen = daemon.gen
          /\ daemon'.active = daemon.active /\ status'.snap = status.snap
          /\ status'.pc \in Dated => status.pc \in Dated
      BY <1>3, CrashEffect DEF Dated
    <2> QED
      BY <2>1 DEF ShownInv, Reached, Matches, Passed
  <1>4. CASE Restart
    BY <1>0, <1>4, RestartEffect DEF ShownInv, Reached, Matches, Passed
  <1>5. CASE ServeStatus
    <2>1. status'.pc \in Dated =>
             \/ status'.snap.gen = daemon.gen /\ status'.snap.life = daemon.life
             \/ status.pc \in Dated /\ status'.snap.gen = status.snap.gen /\ status'.snap.life = status.snap.life
      BY <1>5, ServeEffect DEF Dated, StatusInv, Serving
    <2>2. app' = app /\ daemon' = daemon
      BY <1>5, ServeEffect
    <2> QED
      BY <1>0, <2>1, <2>2 DEF ShownInv, Reached, Matches, Passed
  <1>6. CASE SpawnStatus
    BY <1>6, SpawnEffect DEF ShownInv, Reached, Matches, Passed, Dated
  <1>7. CASE ApplyStatus /\ Current(status)
    BY <1>0, <1>7, ApplyEffect DEF ShownInv, Reached, Matches, Passed, Dated, StatusInv
  <1>8. CASE (ApplyStatus /\ ~Current(status)) \/ StatusFails \/ ChangeClass
    <2>1. /\ status'.pc \notin Dated /\ app'.floor = app.floor /\ daemon' = daemon
          /\ \/ app'.snap = app.snap /\ app'.fresh = app.fresh
             \/ app'.snap = None /\ app'.fresh = FALSE
      BY <1>8, ForgetEffect DEF Dated
    <2> QED
      BY <2>1 DEF ShownInv, Reached, Matches, Passed
  <1>9. CASE \/ \E p \in Profiles : PickSubscription(p) \/ SubmitUrlEdit(p)
             \/ SubmitProbe \/ SubmitNodeSwitch
    BY <1>9, SubmitEffect DEF ShownInv, Reached, Matches, Passed
  <1>10. CASE Complete
    <2>1. /\ app'.snap = app.snap /\ daemon' = daemon /\ app'.fresh = FALSE /\ status'.pc \notin Dated
          /\ \/ app'.floor = app.floor
             \/ mutation.reply = "ok" /\ app'.floor = mutation.met
      BY <1>10, CompleteEffect DEF Dated
    <2> QED
      BY <2>1 DEF ShownInv, Reached, Matches, Passed, MetInv
  <1> QED
    BY <1>1, <1>2, <1>3, <1>4, <1>5, <1>6, <1>7, <1>8, <1>9, <1>10 DEF Next

(* RoundInv is kept. *)
LEMMA RoundNext ==
    ASSUME DashInv, TypeOK', [Next]_vars
    PROVE  RoundInv'
  <1> USE DEF DashInv
  <1>0. /\ daemon.life \in Nat /\ daemon.gen \in Nat
        /\ status.snap # None => status.snap.life \in Nat /\ status.snap.gen \in Nat
        /\ app.snap # None => app.snap.life \in Nat /\ app.snap.gen \in Nat
        /\ mutation.met # None => mutation.met.life \in Nat /\ mutation.met.gen \in Nat
        /\ mutation.tag # None => mutation.tag.life \in Nat /\ mutation.tag.gen \in Nat
        /\ app.round # None => /\ app.round.life \in Nat /\ app.round.gen \in Nat
                               /\ app.round.tag.life \in Nat /\ app.round.tag.gen \in Nat
    BY Numbers
  <1>1. ASSUME NEW r \in requests, DaemonStep(r) PROVE RoundInv'
    <2>1. mutation.kind = "probe" => mutation' = mutation
      BY <1>1 DEF DaemonStep, Lock, Reject, CommitState, PublishState, PublishRuntime, Finish, End, Awaited
    <2>2. mutation'.kind = mutation.kind
      BY <1>1 DEF DaemonStep, Lock, Reject, CommitState, PublishState, PublishRuntime, Finish, End, TypeOK, MutationType
    <2> QED
      BY <1>0, <1>1, <2>1, <2>2, DaemonTime DEF RoundInv, Reached
  <1>2. CASE Dispatch
    <2>1. mutation'.kind = "subscription" /\ daemon' = daemon /\ status' = status /\ app' = app
      BY <1>2 DEF Dispatch, TypeOK, MutationType
    <2> QED
      BY <2>1 DEF RoundInv, Reached
  <1>3. CASE StartProbe
    <2>1. /\ mutation'.kind = "probe" /\ mutation.kind = "probe" /\ mutation'.tag = mutation.tag
          /\ mutation'.met = Here /\ daemon' = daemon /\ status' = status /\ app' = app
      BY <1>3 DEF StartProbe, TypeOK, MutationType
    <2> QED
      BY <1>0, <2>1, HereFields DEF RoundInv, Reached
  <1>4. CASE UNCHANGED vars \/ \E p \in Profiles : OtherRequest(p)
    <2>1. daemon' = daemon /\ status' = status /\ app' = app /\ mutation' = mutation
      BY <1>4 DEF OtherRequest, vars
    <2> QED
      BY <2>1 DEF RoundInv, Reached
  <1>5. CASE Crash
    <2>1. /\ app' = app /\ daemon'.life = daemon.life /\ daemon'.gen = daemon.gen
          /\ status'.snap = status.snap /\ (status'.pc \in Dated => status.pc \in Dated)
          /\ mutation'.kind = mutation.kind /\ mutation'.tag = mutation.tag
          /\ mutation'.met = mutation.met /\ (mutation'.pc = "running" => mutation.pc = "running")
      BY <1>5, CrashEffect DEF Dated
    <2> QED
      BY <2>1 DEF RoundInv, Reached
  <1>6. CASE Restart
    BY <1>0, <1>6, RestartEffect DEF RoundInv, Reached
  <1>7. CASE ServeStatus
    <2>1. status'.pc \in Dated =>
             \/ status'.snap.gen = daemon.gen /\ status'.snap.life = daemon.life
             \/ status.pc \in Dated /\ status'.snap.gen = status.snap.gen /\ status'.snap.life = status.snap.life
      BY <1>7, ServeEffect DEF Dated, StatusInv, Serving
    <2>2. app' = app /\ daemon' = daemon /\ mutation' = mutation
      BY <1>7, ServeEffect
    <2> QED
      BY <1>0, <2>1, <2>2 DEF RoundInv, Reached
  <1>8. CASE SpawnStatus
    BY <1>8, SpawnEffect DEF RoundInv, Reached, Dated
  <1>9. CASE ApplyStatus /\ Current(status)
    <2>1. \/ app'.round = None
          \/ app'.round = app.round /\ app.round # None /\ app.round.tag.gen = status.snap.gen
      BY <1>9, ApplyEffect DEF RoundFor
    <2>2. /\ status.pc = "reply" /\ status'.pc = "none" /\ app'.snap = status.snap
          /\ status.snap # None /\ mutation' = mutation /\ daemon' = daemon
      BY <1>9, ApplyEffect DEF StatusInv
    <2> QED
      BY <1>0, <2>1, <2>2 DEF RoundInv, Reached, Dated
  <1>10. CASE (ApplyStatus /\ ~Current(status)) \/ StatusFails \/ ChangeClass
    BY <1>10, ForgetEffect DEF RoundInv, Reached, Dated
  <1>11. CASE \/ \E p \in Profiles : PickSubscription(p) \/ SubmitUrlEdit(p)
              \/ SubmitProbe \/ SubmitNodeSwitch
    BY <1>11, SubmitEffect DEF RoundInv, Reached, ShownInv
  <1>12. CASE Complete
    <2>1. /\ app'.snap = app.snap /\ daemon' = daemon /\ app'.fresh = FALSE /\ status'.pc \notin Dated
          /\ mutation'.kind = "none"
      BY <1>12, CompleteEffect DEF Dated
    <2>2. \/ app'.round = app.round
          \/ app'.round = None
          \/ /\ mutation.kind = "probe" /\ mutation.pc = "running" /\ mutation.tag # None
             /\ app.snap # None /\ app'.round # None
             /\ app'.round.tag.gen = app.snap.gen
             /\ app'.round.tag.gen = mutation.tag.gen
             /\ app'.round.tag.life = mutation.tag.life
             /\ app'.round.life = mutation.met.life
             /\ app'.round.gen = mutation.met.gen
      BY <1>12, CompleteEffect
    <2> QED
      BY <1>0, <2>1, <2>2 DEF RoundInv, Reached, MetInv
  <1> QED
    BY <1>1, <1>2, <1>3, <1>4, <1>5, <1>6, <1>7, <1>8, <1>9, <1>10, <1>11, <1>12 DEF Next

(* A step of a transaction takes a change of the dashboard's along its course. *)
LEMMA DaemonCourse ==
    ASSUME DashInv, NEW r \in requests, DaemonStep(r), ~Others,
           NEW previous, NEW requested, NEW before \in Nat, Course(previous, requested, before)
    PROVE  Course(previous, requested, before)'
  <1> USE DEF DashInv
  <1>0. requests = Own /\ r \in Own /\ \A q \in requests : q = r
    BY DEF RequestInv, Others, Own
  <1>1. CASE Lock(r) \/ CommitState(r) \/ PublishState(r)
    <2>1. PICK s \in Request : /\ s.id = r.id /\ s.target = r.target /\ s.pc # "published"
                               /\ requests' = (requests \ {r}) \cup {s}
      BY <1>1, AdvanceEffect DEF Lock, CommitState, PublishState
    <2>2. r.pc # "published" /\ daemon'.gen = daemon.gen /\ daemon'.active = daemon.active
      BY <1>1, DaemonEffect DEF Lock, CommitState, PublishState, TypeOK, Request
    <2>3. Own' = {s}
      BY <1>0, <2>1 DEF Own
    <2> QED
      BY <1>0, <2>1, <2>2, <2>3 DEF Course
  <1>2. CASE Reject(r) \/ Finish(r)
    <2>1. requests' = requests \ {r} /\ daemon' = daemon
      BY <1>2 DEF Reject, Finish, End
    <2>2. Own' \subseteq Own
      BY <2>1 DEF Own
    <2> QED
      BY <2>1, <2>2 DEF Course
  <1>3. CASE PublishRuntime(r)
    <2>1. PICK s \in Request : /\ s.id = r.id /\ s.target = r.target /\ s.pc = "published"
                               /\ requests' = (requests \ {r}) \cup {s}
      BY <1>3, AdvanceEffect DEF PublishRuntime
    <2>2. r.pc # "published" /\ daemon'.gen = daemon.gen + 1 /\ daemon'.active = r.target
      BY <1>3, DaemonEffect DEF PublishRuntime, TypeOK, Request
    <2>3. Own' = {s}
      BY <1>0, <2>1 DEF Own
    <2> QED
      BY <1>0, <2>1, <2>2, <2>3 DEF Course
  <1> QED
    BY <1>1, <1>2, <1>3 DEF DaemonStep

(* CourseInv is kept. *)
LEMMA CourseNext ==
    ASSUME DashInv, TypeOK', [Next]_vars
    PROVE  CourseInv'
  <1> USE DEF DashInv
  <1> SUFFICES ASSUME ~Others' PROVE CourseInv'
    BY DEF CourseInv
  <1>0. ~Others
    BY OthersStay
  <1>a. used.other = 0 /\ daemon.up /\ daemon.life = 0 /\ requests = Own
    BY <1>0 DEF Others, RequestInv
  <1>1. ASSUME NEW r \in requests, DaemonStep(r) PROVE CourseInv'
    <2>0. r \in Own /\ \A q \in requests : q = r
      BY <1>a DEF RequestInv
    <2>1. app' = app /\ status' = status
      BY <1>1, DaemonTime
    <2>2. /\ mutation'.kind = mutation.kind /\ mutation'.previous = mutation.previous
          /\ mutation'.requested = mutation.requested /\ mutation'.before = mutation.before
      BY <1>1 DEF DaemonStep, Lock, Reject, CommitState, PublishState, PublishRuntime, Finish, End,
                  TypeOK, MutationType
    <2>3. mutation.kind = "subscription" => Awaited(r) /\ mutation.met # None
      BY <2>0 DEF RequestInv, MutationInv
    <2>4. mutation.kind = "subscription" => mutation'.met = mutation.met
      <3>1. CASE Lock(r)
        BY <1>0, <2>3, <3>1 DEF Lock, MetInv, TypeOK, MutationType
      <3>2. CASE Reject(r) \/ Finish(r)
        BY <3>2, EndEffect DEF Reject, Finish
      <3>3. CASE CommitState(r) \/ PublishState(r) \/ PublishRuntime(r)
        BY <3>3 DEF CommitState, PublishState, PublishRuntime
      <3> QED
        BY <1>1, <3>1, <3>2, <3>3 DEF DaemonStep
    <2>5. ASSUME mutation'.kind = "subscription",
                 mutation'.before = (IF mutation'.met = None THEN daemon'.gen ELSE mutation'.met.gen)
          PROVE  Course(mutation.previous, mutation.requested, mutation.before)'
      <3>1. mutation.before \in Nat /\ Course(mutation.previous, mutation.requested, mutation.before)
        BY <1>0, <2>2, <2>3, <2>4, <2>5 DEF CourseInv, TypeOK, MutationType
      <3>2. PICK p, q, b : p = mutation.previous /\ q = mutation.requested /\ b = mutation.before
        OBVIOUS
      <3>3. Course(p, q, b)'
        BY <1>0, <1>1, <3>1, <3>2, DaemonCourse
      <3> QED
        BY <2>2, <3>2, <3>3
    <2>6. ASSUME app.unknown # None, app.unknown.before = app.unknown.prior
          PROVE  Course(app.unknown.previous, app.unknown.requested, app.unknown.before)'
      <3>1. /\ app.unknown.before \in Nat
            /\ Course(app.unknown.previous, app.unknown.requested, app.unknown.before)
        BY <1>0, <2>6 DEF CourseInv, TypeOK, AppType, OutcomeUnknown
      <3>2. PICK p, q, b : p = app.unknown.previous /\ q = app.unknown.requested /\ b = app.unknown.before
        OBVIOUS
      <3>3. Course(p, q, b)'
        BY <1>0, <1>1, <3>1, <3>2, DaemonCourse
      <3> QED
        BY <2>1, <3>2, <3>3
    <2>7. ~(app.unknown # None /\ status.pc \in {"after", "reply"} /\ ~status.snap.busy)
      BY <2>0 DEF RequestInv, MutationInv, Serving, Awaited
    <2> QED
      BY <2>1, <2>5, <2>6, <2>7 DEF CourseInv
  <1>2. CASE Dispatch
    <2> DEFINE n == [id |-> mutation.epoch, target |-> mutation.requested, pc |-> "waiting"]
    <2>1. n.target = mutation.requested /\ n.pc = "waiting"
      OBVIOUS
    <2>2. requests' = requests \cup {n} /\ UNCHANGED <<app, status, daemon>>
      BY <1>2 DEF Dispatch
    <2>3. /\ mutation'.kind = "subscription" /\ mutation.kind = "subscription" /\ mutation'.met = Here
          /\ mutation'.previous = mutation.previous /\ mutation'.requested = mutation.requested
          /\ mutation'.before = mutation.before
      BY <1>2 DEF Dispatch, TypeOK, MutationType
    <2>4. Own = {} /\ mutation.met = None /\ app.unknown = None
      BY <1>2 DEF Dispatch, MutationInv
    <2> HIDE DEF n
    <2>5. \A q \in Own' : q = n
      BY <2>2, <2>4 DEF Own
    <2>6. ASSUME mutation'.before = mutation'.met.gen
          PROVE  Course(mutation.previous, mutation.requested, mutation.before)'
      <3>1. mutation.before = daemon.gen /\ mutation.before # mutation.before + 1
        BY <2>3, <2>6, HereFields DEF TypeOK, MutationType
      <3>2. daemon.active = mutation.previous
        BY <1>0, <2>3, <2>4, <3>1 DEF CourseInv, Course
      <3> QED
        BY <2>1, <2>2, <2>3, <2>5, <3>1, <3>2 DEF Course
    <2> QED
      BY <2>2, <2>3, <2>4, <2>6, HereFields DEF CourseInv
  <1>3. CASE StartProbe
    <2>1. mutation'.kind = "probe" /\ UNCHANGED <<app, status, daemon, requests>>
      BY <1>3 DEF StartProbe, TypeOK, MutationType
    <2> QED
      BY <1>0, <2>1 DEF CourseInv, Course, Own
  <1>4. CASE Crash
    BY <1>4, CrashEffect DEF Others
  <1>5. CASE Restart
    BY <1>5, <1>a, RestartEffect
  <1>6. ASSUME NEW p \in Profiles, OtherRequest(p) PROVE FALSE
    BY <1>6, <1>a DEF OtherRequest, Others, TypeOK
  <1>7. CASE ServeStatus
    <2>1. app' = app /\ mutation' = mutation /\ daemon' = daemon /\ requests' = requests
      BY <1>7, ServeEffect
    <2>2. status'.pc \in {"after", "reply"} => status'.snap.gen = daemon.gen
      BY <1>7, ServeEffect
    <2> QED
      BY <1>0, <2>1, <2>2 DEF CourseInv, Course, Own
  <1>8. CASE SpawnStatus
    <2>1. /\ app' = app /\ mutation' = mutation /\ daemon' = daemon /\ requests' = requests
          /\ status'.pc \notin {"after", "reply"}
      BY <1>8, SpawnEffect
    <2> QED
      BY <1>0, <2>1 DEF CourseInv, Course, Own
  <1>9. CASE ApplyStatus \/ StatusFails \/ ChangeClass
    <2>1. /\ mutation' = mutation /\ daemon' = daemon /\ requests' = requests
          /\ status'.pc \notin {"after", "reply"}
          /\ app'.unknown = None \/ app'.unknown = app.unknown
      BY <1>9, ApplyEffect, ForgetEffect DEF Reconcile
    <2> QED
      BY <1>0, <2>1 DEF CourseInv, Course, Own
  <1>10. CASE \/ \E p \in Profiles : PickSubscription(p) \/ SubmitUrlEdit(p)
              \/ SubmitProbe \/ SubmitNodeSwitch
    <2>1. /\ daemon' = daemon /\ requests' = requests /\ status' = status /\ app'.unknown = app.unknown
          /\ mutation'.met = None
      BY <1>10, SubmitEffect
    <2>2. ASSUME mutation'.kind = "subscription", mutation'.before = daemon.gen
          PROVE  Course(mutation.previous, mutation.requested, mutation.before)'
      <3>1. /\ app.snap # None /\ mutation'.previous = app.snap.active /\ mutation'.before = app.snap.gen
            /\ app.unknown = None /\ mutation.kind = "none"
        BY <1>10, <2>2, SubmitEffect
      <3>2. Own = {}
        BY <3>1 DEF RequestInv, Awaited
      <3>3. app.snap.life = 0
        BY <1>a, <3>1, Numbers DEF ShownInv, Reached
      <3>4. daemon.active = app.snap.active
        BY <1>a, <2>2, <3>1, <3>3 DEF ShownInv, Matches
      <3> QED
        BY <2>1, <2>2, <3>1, <3>2, <3>4 DEF Course, Own
    <2> QED
      BY <1>0, <2>1, <2>2 DEF CourseInv, Course, Own
  <1>11. CASE Complete
    <2>1. /\ daemon' = daemon /\ requests' = requests /\ status'.pc = "none" /\ mutation'.kind = "none"
          /\ \/ app'.unknown = None
             \/ app'.unknown = app.unknown
             \/ /\ mutation.kind = "subscription"
                /\ app'.unknown.previous = mutation.previous
                /\ app'.unknown.requested = mutation.requested
                /\ app'.unknown.before = mutation.before
                /\ mutation.met = None => app'.unknown.prior = daemon.gen
                /\ mutation.met # None => app'.unknown.prior = mutation.met.gen
      BY <1>11, CompleteEffect
    <2> QED
      BY <1>0, <2>1 DEF CourseInv, Course, Own
  <1>12. CASE UNCHANGED vars
    BY <1>0, <1>12 DEF vars, CourseInv, Course, Own
  <1> QED
    BY <1>1, <1>2, <1>3, <1>4, <1>5, <1>6, <1>7, <1>8, <1>9, <1>10, <1>11, <1>12 DEF Next

(* LockExplained is kept: only a snapshot can break it, and then it reconciles. *)
LEMMA ExplainedNext ==
    ASSUME DashInv, TypeOK', [Next]_vars
    PROVE  LockExplained'
  <1> USE DEF DashInv
  <1>0. Others => Others'
    BY OthersStay
  <1>1. CASE ApplyStatus /\ Current(status)
    <2> SUFFICES ASSUME app'.unknown # None, ~app'.snap.busy, ~Others', app'.unknown.before = app'.unknown.prior
                 PROVE  FALSE
      BY DEF LockExplained
    <2>1. /\ status.pc = "reply" /\ app'.snap = status.snap
          /\ app'.unknown = Reconcile(app.unknown, status.snap)
      BY <1>1, ApplyEffect
    <2>2. app'.unknown = app.unknown /\ app.unknown # None
      BY <2>1 DEF Reconcile
    <2>3. Course(app.unknown.previous, app.unknown.requested, app.unknown.before)
      BY <1>0, <2>2 DEF CourseInv
    <2>4. status.snap.gen = daemon.gen
      BY <1>0, <2>1, <2>2 DEF CourseInv
    <2>5. status.snap.life = daemon.life
      BY <1>0, <2>1, Numbers DEF Others, StatusInv, Reached, Dated
    <2>6. status.snap.active = daemon.active
      BY <2>1, <2>4, <2>5 DEF StatusInv, Matches, Dated
    <2>7. Reconcile(app.unknown, status.snap) = None
      BY <2>1, <2>2, <2>3, <2>4, <2>6 DEF Reconcile, Course
    <2> QED
      BY <2>1, <2>7
  <1>2. CASE (ApplyStatus /\ ~Current(status)) \/ StatusFails \/ ChangeClass
    <2>1. /\ app'.unknown = app.unknown
          /\ \/ app'.snap = app.snap /\ app'.fresh = app.fresh
             \/ app'.fresh = FALSE
      BY <1>2, ForgetEffect
    <2> QED
      BY <1>0, <2>1 DEF LockExplained
  <1>3. CASE \/ \E p \in Profiles : PickSubscription(p) \/ SubmitUrlEdit(p)
             \/ SubmitProbe \/ SubmitNodeSwitch
    BY <1>0, <1>3, SubmitEffect DEF LockExplained
  <1>4. CASE Complete
    BY <1>4, CompleteEffect DEF LockExplained
  <1>5. ASSUME app' = app PROVE LockExplained'
    BY <1>0, <1>5 DEF LockExplained
  <1>6. ASSUME NEW r \in requests, DaemonStep(r) PROVE app' = app
    BY <1>6, DaemonTime
  <1>7. CASE Dispatch \/ StartProbe \/ Crash \/ Restart \/ SpawnStatus \/ UNCHANGED vars
             \/ \E p \in Profiles : OtherRequest(p)
    BY <1>5, <1>7 DEF Dispatch, StartProbe, Crash, Restart, SpawnStatus, vars, OtherRequest
  <1>8. CASE ServeStatus
    BY <1>5, <1>8, ServeEffect
  <1> QED
    BY <1>1, <1>2, <1>3, <1>4, <1>5, <1>6, <1>7, <1>8 DEF Next

-----------------------------------------------------------------------------
(* The theorems.                                                            *)

(* The initial states satisfy the invariant. *)
LEMMA DashInit == Init => DashInv
  <1> SUFFICES ASSUME Init PROVE DashInv
    OBVIOUS
  <1>1. TypeOK
    BY TypeInit
  <1>2. PICK p \in Profiles :
          /\ app.snap = None /\ app.unknown = None /\ app.round = None /\ app.fresh = FALSE
          /\ app.floor = None
          /\ daemon.up = TRUE /\ daemon.active = p /\ daemon.stats = p
    BY DEF Init
  <1>3. /\ status.pc = "none" /\ mutation.kind = "none" /\ mutation.reply = "none" /\ mutation.met = None
        /\ requests = {}
    BY DEF Init, NoStatus, NoMutation
  <1>4. RequestInv /\ MutationInv /\ PublishInv /\ MetInv
    BY <1>2, <1>3 DEF RequestInv, MutationInv, PublishInv, MetInv, Own
  <1>5. StatusInv /\ ShownInv /\ RoundInv
    BY <1>2, <1>3 DEF StatusInv, ShownInv, RoundInv, Serving, Dated
  <1>6. CourseInv /\ LockExplained
    BY <1>2, <1>3 DEF CourseInv, LockExplained
  <1> QED
    BY <1>1, <1>4, <1>5, <1>6 DEF DashInv

(* Every step keeps the invariant. *)
LEMMA DashNext == DashInv /\ [Next]_vars => DashInv'
  <1> SUFFICES ASSUME DashInv, [Next]_vars PROVE DashInv'
    OBVIOUS
  <1>1. TypeOK'
    BY TypeNext DEF DashInv
  <1>2. RequestInv' /\ MutationInv' /\ PublishInv' /\ MetInv' /\ StatusInv'
    BY <1>1, RequestNext, MutationNext, PublishNext, MetNext, StatusNext
  <1>3. ShownInv' /\ RoundInv' /\ CourseInv' /\ LockExplained'
    BY <1>1, ShownNext, RoundNext, CourseNext, ExplainedNext
  <1> QED
    BY <1>1, <1>2, <1>3 DEF DashInv

(***************************************************************************)
(* DashboardInvariant.  The inductive invariant of the dashboard and of    *)
(* the daemon's half of the protocol holds for any number of profiles,     *)
(* classes, changes and faults.                                            *)
(***************************************************************************)
THEOREM DashboardInvariant == Spec => []DashInv
  <1>1. Init => DashInv
    BY DashInit
  <1>2. DashInv /\ [Next]_vars => DashInv'
    BY DashNext
  <1> QED
    BY <1>1, <1>2, PTL DEF Spec

(* At most one change of the dashboard's is on its way or at the daemon. *)
LEMMA OneChange == DashInv => OneOutstandingChange
  <1> SUFFICES ASSUME DashInv PROVE OneOutstandingChange
    OBVIOUS
  <1>1. /\ \A r, s \in Own : r = s
        /\ mutation.kind = "subscription" /\ mutation.pc = "sent" => Own = {}
    BY DEF DashInv, RequestInv, MutationInv
  <1>2. {r \in requests : r.id # 0} = Own
    BY DEF Own
  <1>3. CASE Own = {}
    <2>1. Cardinality(Own) = 0
      BY <1>3, FS_EmptySet
    <2> DEFINE sent == IF mutation.kind = "subscription" /\ mutation.pc = "sent" THEN 1 ELSE 0
    <2>2. sent = 0 \/ sent = 1
      OBVIOUS
    <2>3. OneOutstandingChange <=> Cardinality(Own) + sent <= 1
      BY <1>2 DEF OneOutstandingChange
    <2> HIDE DEF sent
    <2> QED
      BY <2>1, <2>2, <2>3
  <1>4. CASE Own # {}
    <2>1. PICK r : Own = {r}
      BY <1>1, <1>4
    <2>2. Cardinality(Own) = 1
      BY <2>1, FS_Singleton
    <2>3. ~(mutation.kind = "subscription" /\ mutation.pc = "sent")
      BY <1>1, <1>4
    <2> QED
      BY <1>2, <2>2, <2>3 DEF OneOutstandingChange
  <1> QED
    BY <1>3, <1>4

(***************************************************************************)
(* LockAlwaysSound.  The dashboard never has two subscription changes that *)
(* may take effect, although replies are lost, requests time out, other    *)
(* clients change subscriptions and the daemon restarts; and the lock a    *)
(* lost reply leaves is released by the first quiet snapshot unless others *)
(* interfered or the change was made from a stale snapshot                 *)
(* (reconcile_subscription_outcome).                                       *)
(***************************************************************************)
THEOREM LockAlwaysSound == Spec => []LockSound
  <1>1. DashInv => LockSound
    BY OneChange DEF LockSound, DashInv
  <1> QED
    BY <1>1, DashboardInvariant, PTL

(***************************************************************************)
(* SettledWhenReconciled.  The step that settles an unknown outcome finds  *)
(* no request of the dashboard's at the daemon: the busy flag of the       *)
(* snapshot was read twice, and the request was there before its loss.     *)
(***************************************************************************)
THEOREM SettledWhenReconciled == Spec => ReconciledIsSettled
  <1>1. ASSUME DashInv, [Next]_vars, app.unknown # None, app'.unknown = None
        PROVE  \A r \in requests : r.id = 0
    <2>0. TypeOK /\ RequestInv /\ MutationInv /\ RoundInv /\ StatusInv
      BY <1>1 DEF DashInv
    <2>1. CASE ApplyStatus /\ Current(status)
      <3>1. status.pc = "reply" /\ ~status.snap.busy
        BY <1>1, <2>0, <2>1, ApplyEffect DEF Reconcile
      <3> QED
        BY <1>1, <2>0, <3>1 DEF RequestInv, MutationInv, Own, Awaited
    <2>2. CASE (ApplyStatus /\ ~Current(status)) \/ StatusFails \/ ChangeClass
      BY <1>1, <2>0, <2>2, ForgetEffect
    <2>3. CASE \/ \E p \in Profiles : PickSubscription(p) \/ SubmitUrlEdit(p)
               \/ SubmitProbe \/ SubmitNodeSwitch
      BY <1>1, <2>0, <2>3, SubmitEffect
    <2>4. CASE Complete
      BY <1>1, <2>0, <2>4, CompleteEffect DEF MutationInv
    <2>5. CASE app' = app
      BY <1>1, <2>5
    <2>6. ASSUME NEW r \in requests, DaemonStep(r) PROVE app' = app
      BY <1>1, <2>6, DaemonTime
    <2>7. CASE Dispatch \/ StartProbe \/ Crash \/ Restart \/ SpawnStatus \/ UNCHANGED vars
               \/ \E p \in Profiles : OtherRequest(p)
      BY <2>5, <2>7 DEF Dispatch, StartProbe, Crash, Restart, SpawnStatus, vars, OtherRequest
    <2>8. CASE ServeStatus
      BY <2>0, <2>5, <2>8, ServeEffect
    <2> QED
      BY <1>1, <2>1, <2>2, <2>3, <2>4, <2>5, <2>6, <2>7, <2>8 DEF Next
  <1>2. DashInv /\ [Next]_vars
          => [app.unknown # None /\ app'.unknown = None => \A r \in requests : r.id = 0]_vars
    BY <1>1
  <1> QED
    BY <1>2, DashboardInvariant, PTL DEF Spec, ReconciledIsSettled

(***************************************************************************)
(* SnapshotsAlwaysSound.  A status reply pairs the runtime and the         *)
(* statistics of one generation, and a quiet one does not show a change    *)
(* whose transaction is still running (class_snapshot).                    *)
(***************************************************************************)
THEOREM SnapshotsAlwaysSound == Spec => []SnapshotSound
  <1>1. DashInv => SnapshotSound
    BY DEF DashInv, StatusInv, SnapshotSound, SnapshotOfOneGeneration, QuietMeansFinished
  <1> QED
    BY <1>1, DashboardInvariant, PTL

(***************************************************************************)
(* ShownNeverOlder.  After a refresh neither a snapshot older than the     *)
(* last acknowledged change nor a probe round of another generation than   *)
(* the one on display is shown (complete_mutation, rebuild_order).         *)
(***************************************************************************)
THEOREM ShownNeverOlder == Spec => []ShownIsCurrent
  <1>1. DashInv => NoOlderWorld
    BY DEF DashInv, ShownInv, NoOlderWorld
  <1>2. DashInv => RoundMeasuredHere
    <2> SUFFICES ASSUME DashInv, app.fresh, app.round # None, 
                        {app.round.life, app.round.tag.life} = {app.snap.life}
                 PROVE  app.round.gen = app.snap.gen
      BY DEF RoundMeasuredHere
    <2>1. app.round.life = app.snap.life /\ app.round.tag.life = app.snap.life
      OBVIOUS
    <2>2. app.snap # None /\ app.snap.gen >= app.round.gen /\ app.snap.gen <= app.round.gen
      BY <2>1 DEF DashInv, RoundInv
    <2>3. app.snap.gen \in Nat /\ app.round.gen \in Nat
      BY <2>2, Numbers DEF DashInv
    <2> QED
      BY <2>2, <2>3
  <1>3. DashInv => ShownIsCurrent
    BY <1>1, <1>2 DEF ShownIsCurrent
  <1> QED
    BY <1>3, DashboardInvariant, PTL

=============================================================================
