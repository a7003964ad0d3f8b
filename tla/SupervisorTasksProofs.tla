----------------------- MODULE SupervisorTasksProofs -----------------------
(***************************************************************************)
(* Proofs about SupervisorTasks, for every set of classes, nodes, pools    *)
(* and requests.                                                           *)
(***************************************************************************)
EXTENDS SupervisorTasks, WellFoundedInduction, TLAPS

-----------------------------------------------------------------------------
(* Least elements: the first class, the next class, the head of a queue.    *)

(* A non-empty set of natural numbers has a least element. *)
LEMMA LeastNat ==
    ASSUME NEW S \in SUBSET Nat, S # {}
    PROVE  \E m \in S : \A n \in S : m <= n
<1>1. PICK R : IsWellFoundedOn(R, Nat) /\ \A m, n \in Nat : <<m, n>> \in R <=> m < n
  <2>1. \A m, n \in Nat : <<m, n>> \in OpToRel(<, Nat) <=> m < n
    BY DEF OpToRel
  <2> QED
    BY <2>1, NatLessThanWellFounded
<1>2. IsWellFoundedOn(R, Nat)
  BY <1>1
<1>3. PICK m \in S : \A n \in S : ~(<<n, m>> \in R)
  BY <1>2, WFMin
<1>4. ASSUME NEW n \in S PROVE m <= n
  <2>1. m \in Nat /\ n \in Nat /\ ~(<<n, m>> \in R)
    BY <1>3
  <2>2. ~(n < m)
    BY <1>1, <2>1
  <2> QED
    BY <2>1, <2>2
<1> QED
  BY <1>4

(* probe_loop looks at a class at its start and at the next one after each. *)
LEMMA FirstClassType == FirstClass \in Classes
BY LeastNat, ClassesAssumption DEF FirstClass

(* The class that lock_all_classes takes after c is a class. *)
LEMMA NextClassType ==
    ASSUME NEW c \in Classes, \E d \in Classes : d > c
    PROVE  (CHOOSE d \in Classes : d > c /\ \A e \in Classes : e > c => d <= e) \in Classes
<1> DEFINE S == {d \in Classes : d > c}
<1>1. PICK m \in S : \A n \in S : m <= n
  <2>1. S \in SUBSET Nat /\ S # {}
    BY ClassesAssumption
  <2> QED
    BY <2>1, LeastNat
<1> QED
  BY <1>1

-----------------------------------------------------------------------------
(* The gate and its queue.                                                  *)

(* The queue holds every waiting task once. *)
GateType == [readers : SUBSET Tasks, writer : Tasks \cup {None}, queue : Seq(Tasks)]

Once(q) == \A i, j \in DOMAIN q : q[i] = q[j] => i = j
Members(q) == {q[i] : i \in DOMAIN q}

(* A task leaves the queue of the gate: the others stay, each once. *)
LEMMA WithoutQueue ==
    ASSUME NEW q \in Seq(Tasks), Once(q), NEW t \in Tasks
    PROVE  /\ Without(q, t) \in Seq(Tasks) /\ Once(Without(q, t))
           /\ Members(Without(q, t)) = Members(q) \ {t}
<1>1. CASE ~\E i \in DOMAIN q : q[i] = t
  BY <1>1 DEF Without, Members
<1>2. CASE \E i \in DOMAIN q : q[i] = t
  <2>1. PICK k \in 1..Len(q) : q[k] = t /\ k = CHOOSE i \in DOMAIN q : q[i] = t
    BY <1>2
  <2> DEFINE w == [i \in 1..(Len(q) - 1) |-> IF i < k THEN q[i] ELSE q[i + 1]]
  <2>2. Without(q, t) = w
    BY <1>2, <2>1 DEF Without
  <2>3. Len(q) \in Nat /\ Len(q) - 1 \in Nat /\ DOMAIN q = 1..Len(q)
    BY <2>1
  <2>4. w \in Seq(Tasks) /\ DOMAIN w = 1..(Len(q) - 1)
    BY <2>1, <2>3
  <2>5. Once(w)
    BY <2>1, <2>3, <2>4 DEF Once
  <2>6. Members(w) \subseteq Members(q) \ {t}
    <3>1. ASSUME NEW i \in 1..(Len(q) - 1) PROVE w[i] \in Members(q) \ {t}
      BY <2>1, <2>3 DEF Once, Members
    <3> QED
      BY <2>4, <3>1 DEF Members
  <2>7. Members(q) \ {t} \subseteq Members(w)
    <3>1. ASSUME NEW i \in 1..Len(q), q[i] # t PROVE \E j \in 1..(Len(q) - 1) : w[j] = q[i]
      <4>1. CASE i < k
        <5>1. i \in 1..(Len(q) - 1)
          BY <2>1, <2>3, <4>1
        <5> QED
          BY <4>1, <5>1
      <4>2. CASE i > k
        <5>1. i - 1 \in 1..(Len(q) - 1) /\ ~(i - 1 < k) /\ (i - 1) + 1 = i
          BY <2>1, <2>3, <4>2
        <5> QED
          BY <5>1
      <4>3. i # k
        BY <2>1, <3>1
      <4> QED
        BY <4>1, <4>2, <4>3
    <3> HIDE DEF w
    <3> QED
      BY <2>3, <2>4, <3>1 DEF Members
  <2> QED
    BY <2>2, <2>4, <2>5, <2>6, <2>7
<1> QED
  BY <1>1, <1>2

(* A task that is not queued joins the end of the queue. *)
LEMMA AppendQueue ==
    ASSUME NEW q \in Seq(Tasks), Once(q), NEW t \in Tasks, t \notin Members(q)
    PROVE  /\ Append(q, t) \in Seq(Tasks) /\ Once(Append(q, t))
           /\ Members(Append(q, t)) = Members(q) \cup {t}
<1>1. /\ Append(q, t) \in Seq(Tasks) /\ DOMAIN Append(q, t) = 1..(Len(q) + 1)
      /\ \A i \in 1..Len(q) : Append(q, t)[i] = q[i]
      /\ Append(q, t)[Len(q) + 1] = t /\ Len(q) \in Nat /\ DOMAIN q = 1..Len(q)
  OBVIOUS
<1>2. Once(Append(q, t))
  BY <1>1 DEF Once, Members
<1>3. Members(Append(q, t)) = Members(q) \cup {t}
  BY <1>1 DEF Members
<1> QED
  BY <1>1, <1>2, <1>3

(* The head of the queue leaves it. *)
LEMMA TailQueue ==
    ASSUME NEW q \in Seq(Tasks), Once(q), q # <<>>
    PROVE  /\ Tail(q) \in Seq(Tasks) /\ Once(Tail(q))
           /\ Head(q) \in Members(q) /\ Members(Tail(q)) = Members(q) \ {Head(q)}
<1>1. /\ Tail(q) \in Seq(Tasks) /\ DOMAIN Tail(q) = 1..(Len(q) - 1)
      /\ \A i \in 1..(Len(q) - 1) : Tail(q)[i] = q[i + 1]
      /\ Head(q) = q[1] /\ Len(q) \in Nat \ {0} /\ DOMAIN q = 1..Len(q)
  OBVIOUS
<1>2. Once(Tail(q))
  BY <1>1 DEF Once
<1>3. Members(Tail(q)) \subseteq Members(q) \ {Head(q)}
  BY <1>1 DEF Members, Once
<1>4. ASSUME NEW u \in Members(q), u # Head(q) PROVE u \in Members(Tail(q))
  <2>1. PICK i \in 1..Len(q) : u = q[i]
    BY <1>1 DEF Members
  <2>2. i - 1 \in 1..(Len(q) - 1) /\ (i - 1) + 1 = i
    BY <1>1, <1>4, <2>1
  <2>3. Tail(q)[i - 1] = u
    BY <1>1, <2>1, <2>2
  <2> QED
    BY <1>1, <2>2, <2>3 DEF Members
<1>5. Head(q) \in Members(q)
  BY <1>1 DEF Members
<1> QED
  BY <1>1, <1>2, <1>3, <1>4, <1>5

(* Who is queued, by the members of the queue. *)
LEMMA QueuedMember == \A t : Queued(t) <=> t \in Members(gate.queue)
BY DEF Queued, Members

(* The same after a step. *)
LEMMA QueuedMemberNext == \A t : Queued(t)' <=> t \in Members(gate'.queue)
BY DEF Queued, Members

(* The gate as a whole, before a step. *)
GateSound ==
    /\ gate \in GateType /\ Once(gate.queue)
    /\ gate.writer # None => gate.readers = {}

(* Queueing: RwLock::read and write join the end of the queue. *)
LEMMA QueueEffect ==
    ASSUME GateSound, NEW t \in Tasks, ~Queued(t), Queue(t)
    PROVE  /\ GateSound'
           /\ gate'.readers = gate.readers /\ gate'.writer = gate.writer
           /\ \A u : Queued(u)' <=> Queued(u) \/ u = t
<1>1. /\ gate.queue \in Seq(Tasks) /\ t \notin Members(gate.queue)
      /\ gate' = [gate EXCEPT !.queue = Append(gate.queue, t)]
  BY QueuedMember DEF GateSound, GateType, Queue
<1>2. /\ gate'.readers = gate.readers /\ gate'.writer = gate.writer
      /\ gate'.queue = Append(gate.queue, t)
  BY <1>1 DEF GateSound, GateType
<1>3. /\ Append(gate.queue, t) \in Seq(Tasks) /\ Once(Append(gate.queue, t))
      /\ Members(Append(gate.queue, t)) = Members(gate.queue) \cup {t}
  BY <1>1, AppendQueue DEF GateSound
<1>4. gate' \in GateType
  BY <1>1, <1>3 DEF GateSound, GateType
<1> QED
  BY <1>2, <1>3, <1>4, QueuedMember, QueuedMemberNext DEF GateSound, Once

(* What giving up the gate leaves behind. *)
LEMMA LeftGate ==
    ASSUME GateSound, NEW t \in Tasks
    PROVE  /\ Left(t) \in GateType /\ Once(Left(t).queue)
           /\ Left(t).writer # None => Left(t).readers = {}
           /\ Left(t).readers = gate.readers \ {t}
           /\ Left(t).writer = (IF gate.writer = t THEN None ELSE gate.writer)
           /\ Members(Left(t).queue) = Members(gate.queue) \ {t}
<1>1. /\ gate.queue \in Seq(Tasks) /\ Once(gate.queue)
  BY DEF GateSound, GateType
<1>2. /\ Left(t).readers = gate.readers \ {t}
      /\ Left(t).writer = IF gate.writer = t THEN None ELSE gate.writer
      /\ Left(t).queue = Without(gate.queue, t)
  BY DEF GateSound, GateType, Left
<1>3. /\ Without(gate.queue, t) \in Seq(Tasks) /\ Once(Without(gate.queue, t))
      /\ Members(Without(gate.queue, t)) = Members(gate.queue) \ {t}
  BY <1>1, WithoutQueue
<1>4. Left(t) \in GateType
  BY <1>3 DEF GateSound, GateType, Left
<1> QED
  BY <1>2, <1>3, <1>4 DEF GateSound

(* Dropping a guard, or a wait for one. *)
LEMMA LeaveEffect ==
    ASSUME GateSound, NEW t \in Tasks, Leave(t)
    PROVE  /\ GateSound'
           /\ gate'.readers = gate.readers \ {t}
           /\ gate'.writer = (IF gate.writer = t THEN None ELSE gate.writer)
           /\ \A u : Queued(u)' <=> Queued(u) /\ u # t
<1>1. gate' = Left(t)
  BY DEF Leave
<1> QED
  BY <1>1, LeftGate, QueuedMember, QueuedMemberNext DEF GateSound, Once

(* Dropping a guard and queueing again (SiteCandidate). *)
LEMMA LeaveAndQueueEffect ==
    ASSUME GateSound, NEW t \in Tasks, LeaveAndQueue(t)
    PROVE  /\ GateSound'
           /\ gate'.readers = gate.readers \ {t}
           /\ gate'.writer = (IF gate.writer = t THEN None ELSE gate.writer)
           /\ \A u : Queued(u)' <=> Queued(u) \/ u = t
<1> DEFINE L == Left(t)
<1>1. /\ L \in GateType /\ Once(L.queue) /\ (L.writer # None => L.readers = {})
      /\ L.readers = gate.readers \ {t}
      /\ L.writer = (IF gate.writer = t THEN None ELSE gate.writer)
      /\ Members(L.queue) = Members(gate.queue) \ {t}
  BY LeftGate
<1>2. gate' = [L EXCEPT !.queue = Append(L.queue, t)]
  BY DEF LeaveAndQueue
<1> HIDE DEF L
<1>3. L.queue \in Seq(Tasks)
  BY <1>1 DEF GateType
<1>4. /\ Append(L.queue, t) \in Seq(Tasks) /\ Once(Append(L.queue, t))
      /\ Members(Append(L.queue, t)) = Members(L.queue) \cup {t}
  BY <1>1, <1>3, AppendQueue
<1>5. /\ gate'.readers = L.readers /\ gate'.writer = L.writer
      /\ gate'.queue = Append(L.queue, t) /\ gate' \in GateType
  BY <1>1, <1>2, <1>4 DEF GateType
<1> QED
  BY <1>1, <1>4, <1>5, QueuedMember, QueuedMemberNext DEF GateSound, Once

(* The task at the head of the queue enters: a writer alone, a reader beside *)
(* other readers.                                                            *)
LEMMA EnterEffect ==
    ASSUME GateSound, NEW t \in Tasks, EnterGate(t)
    PROVE  /\ GateSound' /\ Queued(t) /\ gate.writer = None
           /\ \A u : Queued(u)' <=> Queued(u) /\ u # t
           /\ \/ /\ Writes(t) /\ gate.readers = {}
                 /\ gate'.readers = {} /\ gate'.writer = t
              \/ /\ ~Writes(t) /\ gate'.writer = None
                 /\ gate'.readers = gate.readers \cup {t}
<1>1. /\ gate.queue \in Seq(Tasks) /\ gate.queue # <<>> /\ Head(gate.queue) = t
      /\ Once(gate.queue) /\ gate.writer = None
  BY DEF EnterGate, GateSound, GateType
<1>2. /\ Tail(gate.queue) \in Seq(Tasks) /\ Once(Tail(gate.queue))
      /\ t \in Members(gate.queue) /\ Members(Tail(gate.queue)) = Members(gate.queue) \ {t}
  BY <1>1, TailQueue
<1>3. CASE Writes(t)
  <2>1. gate' = [gate EXCEPT !.queue = Tail(gate.queue), !.writer = t] /\ gate.readers = {}
    BY <1>3 DEF EnterGate, GateSound, GateType
  <2>2. /\ gate' \in GateType /\ gate'.queue = Tail(gate.queue)
        /\ gate'.writer = t /\ gate'.readers = {}
    BY <1>2, <2>1 DEF GateSound, GateType
  <2> QED
    BY <1>1, <1>2, <1>3, <2>1, <2>2, QueuedMember, QueuedMemberNext DEF GateSound, Once
<1>4. CASE ~Writes(t)
  <2>1. gate' = [gate EXCEPT !.queue = Tail(gate.queue), !.readers = gate.readers \cup {t}]
    BY <1>4 DEF EnterGate, GateSound, GateType
  <2>2. /\ gate' \in GateType /\ gate'.queue = Tail(gate.queue)
        /\ gate'.writer = None /\ gate'.readers = gate.readers \cup {t}
    BY <1>1, <1>2, <2>1 DEF GateSound, GateType
  <2> QED
    BY <1>1, <1>2, <1>4, <2>2, QueuedMember, QueuedMemberNext DEF GateSound, Once
<1> QED
  BY <1>3, <1>4

-----------------------------------------------------------------------------
(* The tasks.                                                               *)

TaskType == [pc : Points, op : Ops \cup {None}, class : Classes \cup {None},
             node : Nodes \cup {None}, before : Nodes \cup {None}, cands : SUBSET Nodes]

(* The tasks are different from each other and from None. *)
LEMMA TaskNames ==
    /\ Probe \in Tasks /\ Egress \in Tasks /\ Probe # Egress
    /\ \A c \in Classes : Health(c) \in Tasks /\ Health(c) # Probe /\ Health(c) # Egress
    /\ \A r \in Requests : Request(r) \in Tasks /\ Request(r) # Probe /\ Request(r) # Egress
    /\ \A c \in Classes, r \in Requests : Health(c) # Request(r)
    /\ \A c, d \in Classes : Health(c) = Health(d) => c = d
    /\ \A q, r \in Requests : Request(q) = Request(r) => q = r
    /\ \A t \in Tasks : /\ t # None
                        /\ \/ t = Probe \/ t = Egress
                           \/ \E c \in Classes : t = Health(c)
                           \/ \E r \in Requests : t = Request(r)
BY NoTaskAssumption DEF Tasks, Health, Probe, Egress, Request

(* Goto changes the record of one task. *)
LEMMA GotoEffect ==
    ASSUME TypeOK, NEW t \in Tasks, NEW w, Goto(t, w)
    PROVE  /\ task'[t] = w /\ \A u \in Tasks : u # t => task'[u] = task[u]
           /\ w \in TaskType => task' \in [Tasks -> TaskType]
BY DEF TypeOK, Goto, TaskType

(* The idle record, and the fields of a record set up from it. *)
LEMMA IdleType ==
    /\ Idle \in TaskType /\ Idle.pc = "idle" /\ Idle.op = None
BY DEF Idle, TaskType, Points

(* Whoever changes a path under a class mutex is about a class, and only a   *)
(* transaction takes them all.                                               *)
LEMMA KindClass ==
    ASSUME KindInv, NEW t \in Tasks
    PROVE  /\ task[t].pc \in {"switch", "rebuild"} => task[t].class \in Classes
           /\ task[t].pc = "classes" => task[t].op = "txn"
<1>1. CASE t = Probe \/ t = Egress
  BY <1>1 DEF KindInv
<1>2. CASE \E c \in Classes : t = Health(c)
  BY <1>2 DEF KindInv
<1>3. CASE \E r \in Requests : t = Request(r)
  BY <1>3 DEF KindInv
<1> QED
  BY <1>1, <1>2, <1>3, TaskNames

(* A step of a task keeps KindInv when its new record fits its kind. *)
LEMMA HealthKind ==
    ASSUME TypeOK, KindInv, NEW c \in Classes, NEW w, Goto(Health(c), w), w.op = None,
           w.pc \in {"idle", "sample", "healthy", "failed", "recover", "switch"},
           w.pc # "idle" => w.class = c
    PROVE  KindInv'
BY TaskNames, GotoEffect DEF KindInv

(* A step of the probe loop keeps every task at a point of its own program. *)
LEMMA ProbeKind ==
    ASSUME TypeOK, KindInv, NEW w, Goto(Probe, w), w.op = None,
           w.pc \in {"idle", "probing", "decide", "challenge", "switch"},
           w.pc \in {"decide", "challenge", "switch"} => w.class \in Classes,
           w.pc \in {"challenge", "switch"} => w.class \notin Pinned
    PROVE  KindInv'
BY TaskNames, GotoEffect DEF KindInv

(* The same for the egress observer. *)
LEMMA EgressKind ==
    ASSUME TypeOK, KindInv, NEW w, Goto(Egress, w), w.op = None,
           w.pc \in {"idle", "rebuild"}, w.pc = "rebuild" => w.class \in Classes
    PROVE  KindInv'
BY TaskNames, GotoEffect DEF KindInv

(* The same for a request. *)
LEMMA RequestKind ==
    ASSUME TypeOK, KindInv, NEW r \in Requests, NEW w, Goto(Request(r), w),
           w.pc \in {"idle", "before", "incumbent", "search", "pick", "candidate",
                     "lock", "switch", "txnlock", "prepare", "classes"},
           w.pc \in {"txnlock", "prepare", "classes"} <=> w.op = "txn",
           w.pc \notin {"idle", "txnlock", "prepare", "classes"} => w.class \in Classes
    PROVE  KindInv'
BY TaskNames, GotoEffect DEF KindInv

-----------------------------------------------------------------------------
(* What a step does to the gate invariant.                                  *)

(* The points at which a task has the gate. *)
HasGate == {"healthy", "failed", "recover", "switch", "rebuild"}

(* The invariant of the gate implies the soundness of its lock. *)
LEMMA GateIsSound == GateInv => GateSound
BY DEF GateInv, GateSound, GateType, Once

(* The gate invariant of one task, and the step that keeps it for the rest. *)
AtGateInv(t) ==
    /\ Queued(t) => ~Inside(t)
    /\ Queued(t) \/ Inside(t) <=> task[t].pc \in AtGate
    /\ task[t].pc \in HasGate => Inside(t)
    /\ task[t].pc \in {"classes", "rebuild"} /\ Inside(t) => gate.writer = t

(* A step that concerns one task at the gate keeps the invariant. *)
LEMMA GateStep ==
    ASSUME TypeOK, GateInv, NEW t \in Tasks, GateSound', AtGateInv(t)',
           \A u \in Tasks : u # t =>
              /\ task'[u] = task[u] /\ (Queued(u)' <=> Queued(u))
              /\ (Inside(u)' <=> Inside(u)) /\ (gate.writer = u => gate'.writer = u)
    PROVE  GateInv'
<1>1. ASSUME NEW u \in Tasks, u # t PROVE AtGateInv(u)'
  BY <1>1 DEF GateInv, AtGateInv, HasGate
<1>2. \A u \in Tasks : AtGateInv(u)'
  BY <1>1
<1> QED
  BY <1>2 DEF GateInv, GateSound, GateType, Once, AtGateInv, HasGate

(* A task that moves on without touching the gate. *)
LEMMA GateStays ==
    ASSUME TypeOK, GateInv, NEW t \in Tasks, NEW w, Goto(t, w), UNCHANGED gate,
           w.pc \in AtGate <=> task[t].pc \in AtGate,
           w.pc \in HasGate => Inside(t),
           w.pc \in {"classes", "rebuild"} => task[t].pc \in {"classes", "rebuild"}
    PROVE  GateInv' /\ \A u : Inside(u)' <=> Inside(u)
<1>1. \A u : (Queued(u)' <=> Queued(u)) /\ (Inside(u)' <=> Inside(u))
  BY DEF Queued, Inside
<1>2. GateSound'
  BY GateIsSound DEF GateSound
<1>3. AtGateInv(t)'
  BY <1>1, GotoEffect DEF GateInv, AtGateInv
<1>4. \A u \in Tasks : u # t => task'[u] = task[u] /\ (gate.writer = u => gate'.writer = u)
  BY GotoEffect
<1> QED
  BY <1>1, <1>2, <1>3, <1>4, GateStep

(* A task that joins the queue of the gate. *)
LEMMA GateQueues ==
    ASSUME TypeOK, GateInv, NEW t \in Tasks, NEW w, Goto(t, w), Queue(t),
           task[t].pc \notin AtGate, w.pc \in AtGate, w.pc \notin HasGate
    PROVE  GateInv' /\ \A u : Inside(u)' <=> Inside(u)
<1>1. ~Queued(t) /\ ~Inside(t) /\ GateSound
  BY GateIsSound DEF GateInv
<1>2. /\ GateSound' /\ \A u : Queued(u)' <=> Queued(u) \/ u = t
      /\ gate'.readers = gate.readers /\ gate'.writer = gate.writer
  BY <1>1, QueueEffect
<1>3. \A u : Inside(u)' <=> Inside(u)
  BY <1>2 DEF Inside
<1>4. AtGateInv(t)'
  BY <1>1, <1>2, <1>3, GotoEffect DEF AtGateInv
<1>5. \A u \in Tasks : u # t => task'[u] = task[u]
  BY GotoEffect
<1> QED
  BY <1>2, <1>3, <1>4, <1>5, GateStep

(* A task that drops its guard or gives up waiting. *)
LEMMA GateLeaves ==
    ASSUME TypeOK, GateInv, NEW t \in Tasks, NEW w, Goto(t, w), Leave(t), w.pc \notin AtGate
    PROVE  GateInv' /\ \A u : u # None /\ u # t => (Inside(u)' <=> Inside(u))
<1>1. GateSound /\ t # None
  BY GateIsSound, TaskNames
<1>2. /\ GateSound' /\ \A u : Queued(u)' <=> Queued(u) /\ u # t
      /\ gate'.readers = gate.readers \ {t}
      /\ gate'.writer = IF gate.writer = t THEN None ELSE gate.writer
  BY <1>1, LeaveEffect
<1>3. ~Inside(t)' /\ \A u : u # None /\ u # t => (Inside(u)' <=> Inside(u))
  BY <1>1, <1>2 DEF Inside
<1>4. AtGateInv(t)'
  <2>1. task'[t].pc \notin AtGate
    BY GotoEffect
  <2> QED
    BY <1>2, <1>3, <2>1 DEF AtGateInv, AtGate, HasGate
<1>5. \A u \in Tasks : u # t => u # None /\ task'[u] = task[u]
  BY GotoEffect, TaskNames
<1> QED
  BY <1>2, <1>3, <1>4, <1>5, GateStep

(* A task that drops its guard and queues again. *)
LEMMA GateRequeues ==
    ASSUME TypeOK, GateInv, NEW t \in Tasks, NEW w, Goto(t, w), LeaveAndQueue(t),
           w.pc \in AtGate, w.pc \notin HasGate
    PROVE  GateInv' /\ \A u : u # None /\ u # t => (Inside(u)' <=> Inside(u))
<1>1. GateSound /\ t # None
  BY GateIsSound, TaskNames
<1>2. /\ GateSound' /\ \A u : Queued(u)' <=> Queued(u) \/ u = t
      /\ gate'.readers = gate.readers \ {t}
      /\ gate'.writer = IF gate.writer = t THEN None ELSE gate.writer
  BY <1>1, LeaveAndQueueEffect
<1>3. ~Inside(t)' /\ \A u : u # None /\ u # t => (Inside(u)' <=> Inside(u))
  BY <1>1, <1>2 DEF Inside
<1>4. AtGateInv(t)'
  BY <1>2, <1>3, GotoEffect DEF AtGateInv
<1>5. \A u \in Tasks : u # t => u # None /\ task'[u] = task[u]
  BY GotoEffect, TaskNames
<1> QED
  BY <1>2, <1>3, <1>4, <1>5, GateStep

(* A queued task is granted the gate. *)
LEMMA GateEnters ==
    ASSUME TypeOK, KindInv, GateInv, NEW t \in Tasks, EnterGate(t)
    PROVE  GateInv' /\ \A u \in Tasks : Inside(u) => Inside(u)'
<1>1. GateSound /\ t # None /\ task' = task
  BY GateIsSound, TaskNames DEF EnterGate
<1>2. /\ GateSound' /\ Queued(t) /\ gate.writer = None
      /\ \A u : Queued(u)' <=> Queued(u) /\ u # t
      /\ \/ /\ Writes(t) /\ gate.readers = {}
            /\ gate'.readers = {} /\ gate'.writer = t
         \/ /\ ~Writes(t) /\ gate'.writer = None
            /\ gate'.readers = gate.readers \cup {t}
  BY <1>1, EnterEffect
<1>3. Inside(t)' /\ \A u \in Tasks : u # t => (Inside(u)' <=> Inside(u))
  BY <1>2, TaskNames DEF Inside
<1>4. AtGateInv(t)'
  <2>1. task[t].pc \in AtGate /\ ~Inside(t) /\ task[t].pc \notin HasGate
    BY <1>2 DEF GateInv, HasGate
  <2>2. task[t].pc \in {"classes", "rebuild"} => Writes(t)
    BY <2>1, KindClass DEF Writes, HasGate
  <2> QED
    BY <1>1, <1>2, <1>3, <2>1, <2>2 DEF AtGateInv
<1>5. \A u \in Tasks : u # t => task'[u] = task[u] /\ (gate.writer = u => gate'.writer = u)
  BY <1>1, <1>2, TaskNames
<1> QED
  BY <1>2, <1>3, <1>4, <1>5, GateStep

-----------------------------------------------------------------------------
(* What a step does to the lock invariant.                                  *)

(* The points at which a task has the transaction mutex. *)
HasTxn == {"prepare", "classes", "rebuild"}

(* A step of t leaves everybody else in the gate and with its locks. *)
OthersStay(t) == \A u \in Tasks : u # t /\ Inside(u) => Inside(u)'

OwnLocksOnly(t) ==
    /\ \A c \in Classes : \/ classLock'[c] = classLock[c]
                          \/ classLock[c] = t /\ classLock'[c] = None
                          \/ classLock[c] = None /\ classLock'[c] = t
    /\ \A u \in Tasks : u # t => (txnLock' = u <=> txnLock = u)

(* A step whose locks are its own keeps the invariant of the locks. *)
LEMMA LockStep ==
    ASSUME TypeOK, KindInv, LockInv, NEW t \in Tasks, OthersStay(t), OwnLocksOnly(t),
           \A u \in Tasks : u # t => task'[u] = task[u],
           \A c \in Classes : classLock'[c] = t =>
              \/ task'[t].pc \in {"switch", "rebuild"} /\ task'[t].class = c
              \/ task'[t].pc = "classes" /\ Inside(t)',
           task'[t].pc \in {"switch", "rebuild"} => classLock'[task'[t].class] = t,
           task'[t].pc \in HasTxn <=> txnLock' = t
    PROVE  LockInv'
<1>1. ASSUME NEW c \in Classes, NEW u, classLock'[c] = u, u # None
      PROVE  \/ task'[u].pc \in {"switch", "rebuild"} /\ task'[u].class = c
             \/ task'[u].pc = "classes" /\ Inside(u)'
  <2>1. CASE u = t
    BY <1>1, <2>1
  <2>2. CASE u # t
    <3>1. classLock[c] = u /\ u \in Tasks
      BY <1>1, <2>2 DEF OwnLocksOnly, TypeOK
    <3>2. /\ task'[u] = task[u] /\ (Inside(u) => Inside(u)')
      BY <2>2, <3>1 DEF OthersStay
    <3>3. \/ task[u].pc \in {"switch", "rebuild"} /\ task[u].class = c
          \/ task[u].pc = "classes" /\ Inside(u)
      BY <1>1, <3>1 DEF LockInv
    <3> QED
      BY <3>2, <3>3
  <2> QED
    BY <2>1, <2>2
<1>2. \A c \in Classes : classLock'[c] # None =>
        \/ task'[classLock'[c]].pc \in {"switch", "rebuild"} /\ task'[classLock'[c]].class = c
        \/ task'[classLock'[c]].pc = "classes" /\ Inside(classLock[c])'
  BY <1>1 DEF Inside
<1>3. ASSUME NEW u \in Tasks, task'[u].pc \in {"switch", "rebuild"}
      PROVE  classLock'[task'[u].class] = u
  <2>1. CASE u # t
    <3>1. task'[u] = task[u] /\ task[u].class \in Classes /\ classLock[task[u].class] = u
      BY <1>3, <2>1, KindClass DEF LockInv
    <3> QED
      BY <2>1, <3>1, TaskNames DEF OwnLocksOnly
  <2> QED
    BY <1>3, <2>1
<1>4. \A u \in Tasks : task'[u].pc \in HasTxn <=> txnLock' = u
  BY DEF LockInv, HasTxn, OwnLocksOnly
<1> QED
  BY <1>2, <1>3, <1>4 DEF LockInv, HasTxn

(* A task that is about no lock goes on. *)
LEMMA LocksStay ==
    ASSUME TypeOK, KindInv, LockInv, NEW t \in Tasks, NEW w, Goto(t, w), OthersStay(t),
           UNCHANGED <<classLock, txnLock>>,
           task[t].pc \notin {"switch", "rebuild", "classes"}, w.pc \notin {"switch", "rebuild"},
           w.pc \in HasTxn <=> task[t].pc \in HasTxn
    PROVE  LockInv'
<1>1. task'[t] = w /\ \A u \in Tasks : u # t => task'[u] = task[u]
  BY GotoEffect
<1>2. \A c \in Classes : classLock[c] # t
  BY TaskNames DEF LockInv
<1>3. OwnLocksOnly(t)
  BY DEF OwnLocksOnly
<1>4. task'[t].pc \in HasTxn <=> txnLock' = t
  BY <1>1 DEF LockInv, HasTxn
<1> QED
  BY <1>1, <1>2, <1>3, <1>4, LockStep

(* A task takes the mutex of the class whose path it may change. *)
LEMMA LockTaken ==
    ASSUME TypeOK, KindInv, LockInv, NEW t \in Tasks, NEW w, NEW c \in Classes,
           Goto(t, w), OthersStay(t), LockClass(t, c), UNCHANGED txnLock,
           task[t].pc \notin {"switch", "rebuild", "classes", "prepare"},
           w.pc = "switch", w.class = c
    PROVE  LockInv'
<1>1. task'[t] = w /\ \A u \in Tasks : u # t => task'[u] = task[u]
  BY GotoEffect
<1>2. \A d \in Classes : classLock[d] # t
  BY TaskNames DEF LockInv
<1>3. classLock[c] = None /\ classLock'[c] = t /\ \A d \in Classes : d # c => classLock'[d] = classLock[d]
  BY DEF LockClass, Free, TypeOK
<1>4. OwnLocksOnly(t)
  BY <1>3 DEF OwnLocksOnly
<1>5. ~(task'[t].pc \in HasTxn) /\ txnLock' # t
  BY <1>1 DEF LockInv, HasTxn
<1> QED
  BY <1>1, <1>2, <1>3, <1>4, <1>5, LockStep

(* A task that has changed a path releases its class mutex. *)
LEMMA LocksDropped ==
    ASSUME TypeOK, KindInv, LockInv, NEW t \in Tasks, NEW w,
           Goto(t, w), OthersStay(t), classLock' = Unlocked(t), UNCHANGED txnLock,
           task[t].pc \notin HasTxn, w.pc \notin HasTxn, w.pc # "switch"
    PROVE  LockInv'
<1>1. task'[t] = w /\ \A u \in Tasks : u # t => task'[u] = task[u]
  BY GotoEffect
<1>2. \A c \in Classes : classLock'[c] = IF classLock[c] = t THEN None ELSE classLock[c]
  BY DEF Unlocked
<1>3. OwnLocksOnly(t) /\ t # None
  BY <1>2, TaskNames DEF OwnLocksOnly
<1>4. task'[t].pc \notin HasTxn /\ txnLock' # t
  BY <1>1 DEF LockInv, HasTxn
<1> QED
  BY <1>1, <1>2, <1>3, <1>4, LockStep DEF HasTxn

(* A transaction or a rebuild releases everything. *)
LEMMA AllDropped ==
    ASSUME TypeOK, KindInv, LockInv, NEW t \in Tasks,
           Goto(t, Idle), OthersStay(t), classLock' = Unlocked(t), txnLock' = None,
           task[t].pc \in HasTxn
    PROVE  LockInv'
<1>1. task'[t] = Idle /\ \A u \in Tasks : u # t => task'[u] = task[u]
  BY GotoEffect
<1>2. \A c \in Classes : classLock'[c] = IF classLock[c] = t THEN None ELSE classLock[c]
  BY DEF Unlocked
<1>3. txnLock = t
  BY DEF LockInv, HasTxn
<1>4. OwnLocksOnly(t) /\ t # None
  BY <1>2, <1>3, TaskNames DEF OwnLocksOnly
<1>5. task'[t].pc = "idle"
  BY <1>1, IdleType
<1> QED
  BY <1>1, <1>2, <1>3, <1>4, <1>5, LockStep DEF HasTxn

(* Somebody enters the gate. *)
LEMMA LocksWait ==
    ASSUME TypeOK, KindInv, LockInv, UNCHANGED <<task, classLock, txnLock>>,
           \A u \in Tasks : Inside(u) => Inside(u)'
    PROVE  LockInv'
<1>1. ASSUME NEW c \in Classes, NEW u, classLock[c] = u, u # None
      PROVE  \/ task[u].pc \in {"switch", "rebuild"} /\ task[u].class = c
             \/ task[u].pc = "classes" /\ Inside(u)'
  BY <1>1 DEF LockInv, TypeOK
<1>2. \A c \in Classes : classLock'[c] # None =>
        \/ task'[classLock'[c]].pc \in {"switch", "rebuild"} /\ task'[classLock'[c]].class = c
        \/ task'[classLock'[c]].pc = "classes" /\ Inside(classLock[c])'
  BY <1>1 DEF Inside
<1> QED
  BY <1>2 DEF LockInv

-----------------------------------------------------------------------------
(* What a step does to the paths.                                           *)

(* A lock that is taken or released by a task is still a task's or free. *)
LEMMA LockTypes ==
    ASSUME TypeOK, NEW t \in Tasks
    PROVE  /\ \A c \in Classes : LockClass(t, c) => classLock' \in [Classes -> Tasks \cup {None}]
           /\ Unlocked(t) \in [Classes -> Tasks \cup {None}]
BY DEF TypeOK, LockClass, Unlocked

(* The parts of the state are typed separately. *)
LEMMA TypeStep ==
    ASSUME GateInv', task' \in [Tasks -> TaskType], pool' \in Pools,
           active' \in [Classes -> Nodes \cup {None}], failures' \in [Classes -> 0..Threshold],
           txnLock' \in Tasks \cup {None}, classLock' \in [Classes -> Tasks \cup {None}]
    PROVE  TypeOK'
BY DEF TypeOK, GateInv, TaskType

(* What a task must know of its class when it holds the mutex. *)
Informed(t, w) ==
    /\ \A r \in Requests : t = Request(r) /\ w.pc = "switch" => w.node \in pool'
    /\ t = Egress /\ w.pc = "rebuild" => w.node = active'[w.class]
    /\ \A c \in Pinned : t = Health(c) /\ w.pc = "switch" => active'[c] = None

(* A step that changes no path. *)
LEMMA PathsStay ==
    ASSUME TypeOK, PathsInv, NEW t \in Tasks, NEW w, Goto(t, w), UNCHANGED <<pool, active>>,
           Informed(t, w)
    PROVE  PathsInv'
<1>1. task'[t] = w /\ \A u \in Tasks : u # t => task'[u] = task[u]
  BY GotoEffect
<1>2. pool' = pool /\ active' = active
  OBVIOUS
<1>3. ActiveInPool'
  BY <1>2 DEF PathsInv, ActiveInPool
<1>4. \A r \in Requests : Switching(r)' => task'[Request(r)].node \in pool'
  BY <1>1, <1>2, TaskNames DEF PathsInv, Informed, Switching
<1>5. task'[Egress].pc = "rebuild" => task'[Egress].node = active'[task'[Egress].class]
  BY <1>1, <1>2, TaskNames DEF PathsInv, Informed
<1>6. \A c \in Pinned : task'[Health(c)].pc = "switch" => active'[c] = None
  BY <1>1, <1>2, TaskNames, PinnedAssumption DEF PathsInv, Informed
<1> QED
  BY <1>3, <1>4, <1>5, <1>6 DEF PathsInv

(* install_active under the class mutex: nobody else is about that class. *)
LEMMA PathsInstall ==
    ASSUME TypeOK, KindInv, LockInv, PathsInv, NEW t \in Tasks, NEW w, Goto(t, w),
           NEW c \in Classes, NEW n \in pool, Install(c, n), classLock[c] = t,
           w.pc \notin {"switch", "rebuild"}
    PROVE  /\ PathsInv' /\ pool' = pool
           /\ active' \in [Classes -> Nodes \cup {None}] /\ failures' \in [Classes -> 0..Threshold]
<1>1. task'[t] = w /\ \A u \in Tasks : u # t => task'[u] = task[u]
  BY GotoEffect
<1>2. /\ pool' = pool /\ pool \subseteq Nodes
      /\ active' = [active EXCEPT ![c] = n] /\ failures' = [failures EXCEPT ![c] = 0]
  BY PoolsAssumption DEF Install, TypeOK
<1>3. active'[c] = n /\ \A d \in Classes : d # c => active'[d] = active[d]
  BY <1>2 DEF TypeOK
<1>4. active' \in [Classes -> Nodes \cup {None}] /\ failures' \in [Classes -> 0..Threshold]
  BY <1>2, ThresholdAssumption DEF TypeOK
<1>5. ActiveInPool'
  BY <1>2, <1>3 DEF PathsInv, ActiveInPool
<1>6. \A u \in Tasks : u # t /\ task[u].pc \in {"switch", "rebuild"} =>
         task[u].class \in Classes /\ task[u].class # c
  BY KindClass DEF LockInv
<1>7. \A r \in Requests : Switching(r)' => task'[Request(r)].node \in pool'
  BY <1>1, <1>2, TaskNames DEF PathsInv, Switching
<1>8. task'[Egress].pc = "rebuild" => task'[Egress].node = active'[task'[Egress].class]
  BY <1>1, <1>3, <1>6, TaskNames DEF PathsInv
<1>9. ASSUME NEW d \in Pinned, task'[Health(d)].pc = "switch" PROVE active'[d] = None
  <2>1. d \in Classes /\ Health(d) \in Tasks /\ Health(d) # t
    BY <1>1, <1>9, PinnedAssumption, TaskNames
  <2>2. task[Health(d)].pc = "switch" /\ task[Health(d)].class = d
    BY <1>1, <1>9, <2>1 DEF KindInv
  <2> QED
    BY <1>3, <1>6, <2>1, <2>2 DEF PathsInv
<1> QED
  BY <1>2, <1>4, <1>5, <1>7, <1>8, <1>9 DEF PathsInv

(* A step without a path change, in one piece. *)
LEMMA QuietStep ==
    ASSUME TypeOK, TasksInv, NEW t \in Tasks, NEW w \in TaskType, Goto(t, w),
           UNCHANGED <<pool, active>>, failures' \in [Classes -> 0..Threshold],
           KindInv', GateInv', LockInv', Informed(t, w),
           txnLock' \in Tasks \cup {None}, classLock' \in [Classes -> Tasks \cup {None}]
    PROVE  TypeOK' /\ TasksInv'
<1>1. task' \in [Tasks -> TaskType]
  BY GotoEffect
<1>2. pool' \in Pools /\ active' \in [Classes -> Nodes \cup {None}]
  BY DEF TypeOK
<1>3. PathsInv'
  BY PathsStay DEF TasksInv
<1> QED
  BY <1>1, <1>2, <1>3, TypeStep DEF TasksInv

-----------------------------------------------------------------------------
(* The steps of the tasks.                                                  *)

(* Entering the gate changes nobody's point. *)
LEMMA EnterInv ==
    ASSUME TypeOK, TasksInv, NEW t \in Tasks, EnterGate(t)
    PROVE  TypeOK' /\ TasksInv'
<1>1. UNCHANGED <<pool, active, failures, txnLock, classLock, task>>
  BY DEF EnterGate, paths
<1>2. GateInv' /\ \A u \in Tasks : Inside(u) => Inside(u)'
  BY GateEnters DEF TasksInv
<1>3. LockInv'
  BY <1>1, <1>2, LocksWait DEF TasksInv
<1>4. KindInv' /\ PathsInv'
  BY <1>1 DEF TasksInv, KindInv, PathsInv, ActiveInPool, Switching
<1>5. TypeOK'
  BY <1>1, <1>2, TypeStep DEF TypeOK, TaskType
<1> QED
  BY <1>2, <1>3, <1>4, <1>5 DEF TasksInv

(* The health loop of a class. *)
LEMMA HealthTickInv ==
    ASSUME TypeOK, TasksInv, NEW c \in Classes, HealthTick(c)
    PROVE  TypeOK' /\ TasksInv'
<1> DEFINE t == Health(c)
           w == [Idle EXCEPT !.pc = "sample", !.class = c]
<1>1. t \in Tasks /\ w \in TaskType /\ w.pc = "sample" /\ w.op = None /\ w.class = c
  BY TaskNames DEF Idle, TaskType, Points
<1>2. /\ Goto(t, w) /\ Queue(t) /\ task[t].pc = "idle"
      /\ UNCHANGED paths /\ UNCHANGED <<classLock, txnLock>>
  BY DEF HealthTick
<1> HIDE DEF t, w
<1>3. GateInv' /\ OthersStay(t)
  BY <1>1, <1>2, GateQueues DEF TasksInv, AtGate, HasGate, OthersStay
<1>4. LockInv'
  BY <1>1, <1>2, <1>3, LocksStay DEF TasksInv, HasTxn
<1>5. KindInv'
  BY <1>1, <1>2, HealthKind DEF TasksInv, t
<1>6. Informed(t, w)
  BY <1>1 DEF Informed
<1> QED
  BY <1>1, <1>2, <1>3, <1>4, <1>5, <1>6, QuietStep DEF TypeOK, paths

(* A measurement of the health loop. *)
LEMMA SampleInv ==
    ASSUME TypeOK, TasksInv, NEW c \in Classes, Sample(c)
    PROVE  TypeOK' /\ TasksInv'
<1> DEFINE t == Health(c)
<1>1. PICK w : /\ Goto(t, w) /\ w.pc \in {"healthy", "failed"} /\ w \in TaskType
               /\ w.op = task[t].op /\ w.class = task[t].class
  <2>1. PICK verdict \in {"healthy", "failed"} :
          Goto(t, [task[t] EXCEPT !.pc = verdict, !.node = active[c]])
    BY DEF Sample
  <2> DEFINE v == [task[t] EXCEPT !.pc = verdict, !.node = active[c]]
  <2>2. /\ v.pc = verdict /\ v \in TaskType
        /\ v.op = task[t].op /\ v.class = task[t].class
    <3>1. task[t] \in TaskType /\ active[c] \in Nodes \cup {None}
      BY TaskNames DEF TypeOK, TaskType
    <3> QED
      BY <3>1 DEF TaskType, Points
  <2>3. Goto(t, v)
    BY <2>1
  <2> HIDE DEF v
  <2> QED
    BY <2>2, <2>3
<1>2. t \in Tasks /\ task[t].pc = "sample" /\ Inside(t) /\ task[t].op = None /\ task[t].class = c
  BY TaskNames DEF Sample, TasksInv, KindInv
<1>3. UNCHANGED paths /\ UNCHANGED gate /\ UNCHANGED <<classLock, txnLock>>
  BY DEF Sample, locks
<1> HIDE DEF t
<1>4. GateInv' /\ OthersStay(t)
  BY <1>1, <1>2, <1>3, GateStays DEF TasksInv, AtGate, HasGate, OthersStay
<1>5. LockInv'
  BY <1>1, <1>2, <1>3, <1>4, LocksStay DEF TasksInv, HasTxn
<1>6. KindInv'
  BY <1>1, <1>2, HealthKind DEF TasksInv, t
<1>7. Informed(t, w)
  BY <1>1 DEF Informed
<1> QED
  BY <1>1, <1>2, <1>3, <1>4, <1>5, <1>6, <1>7, QuietStep DEF TypeOK, paths

(* A tick of the health loop that ends. *)
LEMMA HealthEnds ==
    ASSUME TypeOK, TasksInv, NEW c \in Classes, Goto(Health(c), Idle), Leave(Health(c)),
           UNCHANGED <<pool, active, txnLock, classLock>>, failures' \in [Classes -> 0..Threshold],
           task[Health(c)].pc \in {"healthy", "failed", "recover"}
    PROVE  TypeOK' /\ TasksInv'
<1>1. PICK t \in Tasks : t = Health(c)
  BY TaskNames
<1>2. GateInv' /\ OthersStay(t)
  BY <1>1, IdleType, GateLeaves, TaskNames DEF TasksInv, AtGate, OthersStay
<1>3. LockInv'
  BY <1>1, <1>2, IdleType, LocksStay DEF TasksInv, HasTxn
<1>4. KindInv'
  BY IdleType, HealthKind DEF TasksInv
<1>5. Informed(t, Idle)
  BY IdleType DEF Informed
<1> QED
  BY <1>1, <1>2, <1>3, <1>4, <1>5, IdleType, QuietStep DEF TypeOK

(* The verdict is booked under the class mutex. *)
LEMMA BookInv ==
    ASSUME TypeOK, TasksInv, NEW c \in Classes, Book(c)
    PROVE  TypeOK' /\ TasksInv'
<1>1. PICK t \in Tasks : t = Health(c)
  BY TaskNames
<1>2. failures' \in [Classes -> 0..Threshold] /\ UNCHANGED <<pool, active, txnLock, classLock>>
  <2>1. Streak(c) \in 0..Threshold
    BY ThresholdAssumption DEF Streak, TypeOK
  <2> QED
    BY <2>1 DEF Book, TypeOK
<1>3. CASE NeedsRecovery(c)
  <2> DEFINE w == [task[t] EXCEPT !.pc = "recover"]
  <2>1. w \in TaskType /\ w.pc = "recover" /\ w.op = task[t].op /\ w.class = task[t].class
    BY DEF TypeOK, TaskType, Points
  <2>2. Goto(t, w) /\ UNCHANGED gate
    BY <1>1, <1>3 DEF Book
  <2> HIDE DEF w
  <2>3. task[t].pc \in {"healthy", "failed"} /\ task[t].op = None /\ task[t].class = c /\ Inside(t)
    BY <1>1 DEF Book, TasksInv, KindInv, GateInv
  <2>4. GateInv' /\ OthersStay(t)
    BY <2>1, <2>2, <2>3, GateStays DEF TasksInv, AtGate, HasGate, OthersStay
  <2>5. LockInv'
    BY <1>2, <2>1, <2>2, <2>3, <2>4, LocksStay DEF TasksInv, HasTxn
  <2>6. KindInv'
    BY <1>1, <2>1, <2>2, <2>3, HealthKind DEF TasksInv
  <2>7. Informed(t, w)
    BY <2>1 DEF Informed
  <2> QED
    BY <1>2, <2>1, <2>2, <2>4, <2>5, <2>6, <2>7, QuietStep DEF TypeOK
<1>4. CASE ~NeedsRecovery(c)
  BY <1>2, <1>4, HealthEnds DEF Book
<1> QED
  BY <1>3, <1>4

(* A recovery that the backoff or a shutdown refuses. *)
LEMMA RecoverRefusedInv ==
    ASSUME TypeOK, TasksInv, NEW c \in Classes, RecoverRefused(c)
    PROVE  TypeOK' /\ TasksInv'
BY HealthEnds DEF RecoverRefused, paths, TypeOK

(* A recovery takes the mutex of its class. *)
LEMMA RecoverInv ==
    ASSUME TypeOK, TasksInv, NEW c \in Classes, Recover(c)
    PROVE  TypeOK' /\ TasksInv'
<1>1. PICK t \in Tasks : t = Health(c)
  BY TaskNames
<1> DEFINE w == [task[t] EXCEPT !.pc = "switch"]
<1>2. w \in TaskType /\ w.pc = "switch" /\ w.op = task[t].op /\ w.class = task[t].class
  BY DEF TypeOK, TaskType, Points
<1>3. Goto(t, w) /\ LockClass(t, c) /\ UNCHANGED paths /\ UNCHANGED <<txnLock, gate>>
  BY <1>1 DEF Recover
<1> HIDE DEF w
<1>4. task[t].pc = "recover" /\ task[t].op = None /\ task[t].class = c /\ Inside(t)
  BY <1>1 DEF Recover, TasksInv, KindInv, GateInv
<1>5. GateInv' /\ OthersStay(t)
  BY <1>2, <1>3, <1>4, GateStays DEF TasksInv, AtGate, HasGate, OthersStay
<1>6. LockInv'
  BY <1>2, <1>3, <1>4, <1>5, LockTaken DEF TasksInv
<1>7. KindInv'
  BY <1>1, <1>2, <1>3, <1>4, HealthKind DEF TasksInv
<1>8. Informed(t, w)
  BY <1>1, <1>2, <1>3, TaskNames, PinnedAssumption DEF Informed, Recover, paths
<1> QED
  BY <1>2, <1>3, <1>5, <1>6, <1>7, <1>8, LockTypes, QuietStep DEF TypeOK, paths

(* The end of a switch: the class has a node of the pool, or keeps its own. *)
LEMMA SwitchEnds ==
    ASSUME TypeOK, TasksInv, NEW t \in Tasks, NEW c \in Classes, NEW w \in TaskType,
           task[t].pc = "switch", task[t].class = c, Goto(t, w), Leave(t),
           classLock' = Unlocked(t), UNCHANGED txnLock,
           (\E n \in pool : Install(c, n)) \/ UNCHANGED paths,
           w.pc \notin AtGate, w.pc # "prepare", KindInv'
    PROVE  TypeOK' /\ TasksInv'
<1>1. GateInv' /\ OthersStay(t)
  BY GateLeaves, TaskNames DEF TasksInv, OthersStay
<1>2. w.pc \notin {"switch", "rebuild"} /\ w.pc \notin HasTxn
  BY DEF AtGate, HasTxn
<1>3. LockInv'
  BY <1>1, <1>2, LocksDropped DEF TasksInv, HasTxn
<1>4. classLock[c] = t
  BY DEF TasksInv, LockInv
<1>5. ASSUME NEW n \in pool, Install(c, n) PROVE TypeOK' /\ TasksInv'
  <2>1. /\ PathsInv' /\ pool' = pool
        /\ active' \in [Classes -> Nodes \cup {None}] /\ failures' \in [Classes -> 0..Threshold]
    BY <1>2, <1>4, <1>5, PathsInstall DEF TasksInv
  <2>2. task' \in [Tasks -> TaskType]
    BY GotoEffect
  <2> QED
    BY <1>1, <1>3, <2>1, <2>2, LockTypes, TypeStep DEF TypeOK, TasksInv
<1>6. CASE UNCHANGED paths
  <2>1. Informed(t, w)
    BY <1>2 DEF Informed
  <2> QED
    BY <1>1, <1>3, <1>6, <2>1, LockTypes, QuietStep DEF TypeOK, paths
<1> QED
  BY <1>5, <1>6

(* A recovery installs a path, or none. *)
LEMMA RecoverSwitchInv ==
    ASSUME TypeOK, TasksInv, NEW c \in Classes, RecoverSwitch(c)
    PROVE  TypeOK' /\ TasksInv'
<1>1. KindInv'
  BY IdleType, HealthKind DEF RecoverSwitch, TasksInv
<1>2. Health(c) \in Tasks /\ task[Health(c)].class = c
  BY TaskNames DEF RecoverSwitch, TasksInv, KindInv
<1>3. "idle" \notin AtGate
  BY DEF AtGate
<1> QED
  BY <1>1, <1>2, <1>3, IdleType, SwitchEnds DEF RecoverSwitch, SwitchOutcome

(* The probe loop. *)
LEMMA ProbeTickInv ==
    ASSUME TypeOK, TasksInv, ProbeTick
    PROVE  TypeOK' /\ TasksInv'
<1>1. PICK t \in Tasks : t = Probe
  BY TaskNames
<1> DEFINE w == [Idle EXCEPT !.pc = "probing"]
<1>2. w \in TaskType /\ w.pc = "probing" /\ w.op = None
  BY DEF Idle, TaskType, Points
<1>3. /\ Goto(t, w) /\ Queue(t) /\ task[t].pc = "idle"
      /\ UNCHANGED paths /\ UNCHANGED <<classLock, txnLock>>
  BY <1>1 DEF ProbeTick
<1> HIDE DEF w
<1>4. GateInv' /\ OthersStay(t)
  BY <1>2, <1>3, GateQueues DEF TasksInv, AtGate, HasGate, OthersStay
<1>5. LockInv'
  BY <1>2, <1>3, <1>4, LocksStay DEF TasksInv, HasTxn
<1>6. KindInv'
  BY <1>1, <1>2, <1>3, ProbeKind DEF TasksInv
<1>7. Informed(t, w)
  BY <1>2 DEF Informed
<1> QED
  BY <1>2, <1>3, <1>4, <1>5, <1>6, <1>7, QuietStep DEF TypeOK, paths

(* A round of the probe loop ends. *)
LEMMA ProbeDoneInv ==
    ASSUME TypeOK, TasksInv, ProbeDone
    PROVE  TypeOK' /\ TasksInv'
<1>1. PICK t \in Tasks : t = Probe
  BY TaskNames
<1> DEFINE w == [Idle EXCEPT !.pc = "decide", !.class = FirstClass]
<1>2. w \in TaskType /\ w.pc = "decide" /\ w.op = None /\ w.class \in Classes
  BY FirstClassType DEF Idle, TaskType, Points
<1>3. /\ Goto(t, w) /\ Leave(t) /\ task[t].pc = "probing"
      /\ UNCHANGED paths /\ UNCHANGED <<classLock, txnLock>>
  BY <1>1 DEF ProbeDone
<1> HIDE DEF w
<1>4. GateInv' /\ OthersStay(t)
  BY <1>2, <1>3, GateLeaves, TaskNames DEF TasksInv, AtGate, OthersStay
<1>5. LockInv'
  BY <1>2, <1>3, <1>4, LocksStay DEF TasksInv, HasTxn
<1>6. KindInv'
  BY <1>1, <1>2, <1>3, ProbeKind DEF TasksInv
<1>7. Informed(t, w)
  BY <1>2 DEF Informed
<1> QED
  BY <1>2, <1>3, <1>4, <1>5, <1>6, <1>7, QuietStep DEF TypeOK, paths

(* The probe loop looks at the next class. *)
LEMMA ProbeDecideInv ==
    ASSUME TypeOK, TasksInv, ProbeDecide
    PROVE  TypeOK' /\ TasksInv'
<1>1. PICK t \in Tasks : t = Probe
  BY TaskNames
<1>2. task[t].pc = "decide" /\ task[t].class \in Classes \ Pinned /\ task[t].op = None
  BY <1>1 DEF ProbeDecide, TasksInv, KindInv
<1> DEFINE w == [task[t] EXCEPT !.pc = "challenge", !.node = active[task[t].class]]
<1>3. w \in TaskType /\ w.pc = "challenge" /\ w.op = task[t].op /\ w.class = task[t].class
  <2>1. task[t] \in TaskType /\ active[task[t].class] \in Nodes \cup {None}
    BY <1>2 DEF TypeOK, TaskType
  <2> QED
    BY <2>1 DEF TaskType, Points
<1>4. Goto(t, w) /\ Queue(t) /\ UNCHANGED paths /\ UNCHANGED <<classLock, txnLock>>
  BY <1>1 DEF ProbeDecide
<1> HIDE DEF w
<1>5. GateInv' /\ OthersStay(t)
  BY <1>2, <1>3, <1>4, GateQueues DEF TasksInv, AtGate, HasGate, OthersStay
<1>6. LockInv'
  BY <1>2, <1>3, <1>4, <1>5, LocksStay DEF TasksInv, HasTxn
<1>7. KindInv'
  BY <1>1, <1>2, <1>3, <1>4, ProbeKind DEF TasksInv
<1>8. Informed(t, w)
  BY <1>3 DEF Informed
<1> QED
  BY <1>3, <1>4, <1>5, <1>6, <1>7, <1>8, QuietStep DEF TypeOK, paths

(* After a class comes the next one, or the end of the tick. *)
LEMMA AfterClassType ==
    ASSUME NEW c \in Classes
    PROVE  /\ AfterClass(c) \in TaskType /\ AfterClass(c).op = None
           /\ AfterClass(c).pc \in {"idle", "decide"}
           /\ AfterClass(c).pc = "decide" => AfterClass(c).class \in Classes
<1>1. CASE \E d \in Classes : d > c
  <2> DEFINE e == CHOOSE d \in Classes : d > c /\ \A f \in Classes : f > c => d <= f
  <2>1. e \in Classes
    BY <1>1, NextClassType
  <2>2. AfterClass(c) = [Idle EXCEPT !.pc = "decide", !.class = e]
    BY <1>1 DEF AfterClass
  <2> HIDE DEF e
  <2> QED
    BY <2>1, <2>2 DEF Idle, TaskType, Points
<1>2. CASE ~\E d \in Classes : d > c
  BY <1>2, IdleType DEF AfterClass
<1> QED
  BY <1>1, <1>2

(* A class that needs no challenger is passed over. *)
LEMMA ProbeSkipInv ==
    ASSUME TypeOK, TasksInv, ProbeSkip
    PROVE  TypeOK' /\ TasksInv'
<1>1. PICK t \in Tasks : t = Probe
  BY TaskNames
<1>2. task[t].pc = "decide" /\ task[t].class \in Classes
  BY <1>1 DEF ProbeSkip, TasksInv, KindInv
<1> DEFINE w == AfterClass(task[t].class)
<1>3. /\ w \in TaskType /\ w.op = None /\ w.pc \in {"idle", "decide"}
      /\ w.pc = "decide" => w.class \in Classes
  BY <1>2, AfterClassType
<1>4. Goto(t, w) /\ UNCHANGED paths /\ UNCHANGED gate /\ UNCHANGED <<classLock, txnLock>>
  BY <1>1 DEF ProbeSkip, locks
<1> HIDE DEF w
<1>5. GateInv' /\ OthersStay(t)
  BY <1>2, <1>3, <1>4, GateStays DEF TasksInv, AtGate, HasGate, OthersStay
<1>6. LockInv'
  BY <1>2, <1>3, <1>4, <1>5, LocksStay DEF TasksInv, HasTxn
<1>7. KindInv'
  BY <1>1, <1>2, <1>3, <1>4, ProbeKind DEF TasksInv
<1>8. Informed(t, w)
  BY <1>3 DEF Informed
<1> QED
  BY <1>3, <1>4, <1>5, <1>6, <1>7, <1>8, QuietStep DEF TypeOK, paths

(* A challenger is granted the gate and the mutex of the class. *)
LEMMA ChallengeInv ==
    ASSUME TypeOK, TasksInv, Challenge
    PROVE  TypeOK' /\ TasksInv'
<1>1. PICK t \in Tasks : t = Probe
  BY TaskNames
<1>2. task[t].pc = "challenge" /\ task[t].class \in Classes \ Pinned /\ task[t].op = None /\ Inside(t)
  BY <1>1 DEF Challenge, TasksInv, KindInv
<1> DEFINE w == [task[t] EXCEPT !.pc = "switch"]
<1>3. w \in TaskType /\ w.pc = "switch" /\ w.op = task[t].op /\ w.class = task[t].class
  BY DEF TypeOK, TaskType, Points
<1>4. Goto(t, w) /\ LockClass(t, task[t].class) /\ UNCHANGED paths /\ UNCHANGED <<txnLock, gate>>
  BY <1>1 DEF Challenge
<1> HIDE DEF w
<1>5. GateInv' /\ OthersStay(t)
  BY <1>2, <1>3, <1>4, GateStays DEF TasksInv, AtGate, HasGate, OthersStay
<1>6. LockInv'
  BY <1>2, <1>3, <1>4, <1>5, LockTaken DEF TasksInv
<1>7. KindInv'
  BY <1>1, <1>2, <1>3, <1>4, ProbeKind DEF TasksInv
<1>8. Informed(t, w)
  BY <1>1, TaskNames, PinnedAssumption DEF Informed
<1> QED
  BY <1>2, <1>3, <1>4, <1>5, <1>6, <1>7, <1>8, LockTypes, QuietStep DEF TypeOK, paths

(* A challenger is installed, or not. *)
LEMMA ChallengeSwitchInv ==
    ASSUME TypeOK, TasksInv, ChallengeSwitch
    PROVE  TypeOK' /\ TasksInv'
<1>1. PICK t \in Tasks : t = Probe
  BY TaskNames
<1>2. PICK c \in Classes : task[t].pc = "switch" /\ task[t].class = c
  BY <1>1 DEF ChallengeSwitch, TasksInv, KindInv
<1> DEFINE w == AfterClass(c)
<1>3. /\ w \in TaskType /\ w.op = None /\ w.pc \in {"idle", "decide"}
      /\ w.pc = "decide" => w.class \in Classes
  BY AfterClassType
<1>4. Goto(t, w) /\ Leave(t) /\ classLock' = Unlocked(t) /\ UNCHANGED txnLock
  BY <1>1, <1>2 DEF ChallengeSwitch
<1>5. (\E n \in pool : Install(c, n)) \/ UNCHANGED paths
  BY <1>1, <1>2 DEF ChallengeSwitch, SwitchOutcome
<1> HIDE DEF w
<1>6. KindInv'
  BY <1>1, <1>3, <1>4, ProbeKind DEF TasksInv
<1>7. w.pc \notin AtGate /\ w.pc # "prepare"
  BY <1>3 DEF AtGate
<1> QED
  BY <1>2, <1>3, <1>4, <1>5, <1>6, <1>7, SwitchEnds

(* The egress observer. *)
LEMMA EgressLockInv ==
    ASSUME TypeOK, TasksInv, NEW c \in Classes, EgressLock(c)
    PROVE  TypeOK' /\ TasksInv'
<1>1. PICK t \in Tasks : t = Egress
  BY TaskNames
<1> DEFINE w == [Idle EXCEPT !.pc = "rebuild", !.class = c, !.node = active[c]]
<1>2. /\ w \in TaskType /\ w.pc = "rebuild" /\ w.op = None /\ w.class = c /\ w.node = active[c]
  BY DEF TypeOK, Idle, TaskType, Points
<1>3. /\ task[t].pc = "idle" /\ Goto(t, w) /\ LockClass(t, c) /\ UNCHANGED paths
      /\ txnLock = None /\ txnLock' = t
      /\ gate.readers = {} /\ gate.writer = None /\ gate.queue = <<>>
      /\ gate' = [gate EXCEPT !.writer = t]
  BY <1>1 DEF EgressLock
<1> HIDE DEF w
<1>4. /\ gate' \in GateType /\ gate'.readers = {} /\ gate'.writer = t /\ gate'.queue = gate.queue
  BY <1>3 DEF TasksInv, GateInv, GateType
<1>5. task'[t] = w /\ \A u \in Tasks : u # t => task'[u] = task[u]
  BY <1>3, GotoEffect
<1>6. \A u : (Queued(u)' <=> Queued(u)) /\ (Queued(u) <=> FALSE)
  BY <1>3, <1>4 DEF Queued
<1>7. \A u \in Tasks : (Inside(u)' <=> u = t) /\ (Inside(u) <=> FALSE)
  BY <1>3, <1>4, TaskNames DEF Inside
<1>8. GateInv' /\ OthersStay(t)
  <2>1. GateSound'
    BY <1>4, GateIsSound DEF TasksInv, GateSound, Once
  <2>2. AtGateInv(t)'
    BY <1>2, <1>4, <1>5, <1>6, <1>7 DEF AtGateInv, AtGate, HasGate
  <2>3. \A u \in Tasks : u # t =>
           /\ task'[u] = task[u] /\ (Queued(u)' <=> Queued(u))
           /\ (Inside(u)' <=> Inside(u)) /\ (gate.writer = u => gate'.writer = u)
    BY <1>3, <1>5, <1>6, <1>7, TaskNames
  <2> QED
    BY <1>7, <2>1, <2>2, <2>3, GateStep DEF TasksInv, OthersStay
<1>9. LockInv'
  <2>1. \A d \in Classes : classLock[d] # t
    BY <1>3, TaskNames DEF TasksInv, LockInv
  <2>2. /\ classLock[c] = None /\ classLock'[c] = t
        /\ \A d \in Classes : d # c => classLock'[d] = classLock[d]
    BY <1>3 DEF LockClass, Free, TypeOK
  <2>3. OwnLocksOnly(t)
    BY <1>3, <2>2, TaskNames DEF OwnLocksOnly
  <2> QED
    BY <1>2, <1>3, <1>5, <1>8, <2>1, <2>2, <2>3, LockStep DEF TasksInv, HasTxn
<1>10. KindInv'
  BY <1>1, <1>2, <1>3, EgressKind DEF TasksInv
<1>11. Informed(t, w)
  BY <1>1, <1>2, <1>3, TaskNames, PinnedAssumption DEF Informed, paths
<1> QED
  BY <1>2, <1>3, <1>8, <1>9, <1>10, <1>11, LockTypes, QuietStep DEF TypeOK, paths

(* The rebuild is published or dropped; the mutex has kept the class's node. *)
LEMMA EgressStepInv ==
    ASSUME TypeOK, TasksInv, EgressStep
    PROVE  TypeOK' /\ TasksInv' /\ active' = active
<1>1. PICK t \in Tasks : t = Egress
  BY TaskNames
<1>2. PICK c \in Classes : task[t].pc = "rebuild" /\ task[t].class = c
  BY <1>1 DEF EgressStep, EgressInstall, EgressDiscard, TasksInv, KindInv
<1>3. task[t].node = active[c] /\ classLock[c] = t
  BY <1>1, <1>2 DEF TasksInv, PathsInv, LockInv
<1>4. Goto(t, Idle) /\ Leave(t) /\ classLock' = Unlocked(t) /\ txnLock' = None
  BY <1>1 DEF EgressStep, EgressInstall, EgressDiscard, EgressUnlock
<1>5. GateInv' /\ OthersStay(t)
  BY <1>4, IdleType, GateLeaves, TaskNames DEF TasksInv, AtGate, OthersStay
<1>6. LockInv'
  BY <1>2, <1>4, <1>5, AllDropped DEF TasksInv, HasTxn
<1>7. KindInv'
  BY <1>1, <1>4, IdleType, EgressKind DEF TasksInv
<1>8. UNCHANGED <<pool, active>> /\ failures' \in [Classes -> 0..Threshold]
  <2>1. CASE EgressInstall
    <3>1. Install(c, active[c])
      BY <1>1, <1>2, <1>3, <2>1 DEF EgressInstall
    <3> QED
      BY <3>1, ThresholdAssumption DEF Install, TypeOK
  <2>2. CASE EgressDiscard
    BY <2>2 DEF EgressDiscard, paths, TypeOK
  <2> QED
    BY <2>1, <2>2 DEF EgressStep
<1>9. Informed(t, Idle)
  BY IdleType DEF Informed
<1> QED
  BY <1>4, <1>5, <1>6, <1>7, <1>8, <1>9, IdleType, LockTypes, QuietStep

(* Control requests: a step without a class mutex. *)
Waiting == {"before", "incumbent", "search", "pick", "candidate", "lock"}

(* The steps of a request that hold no lock. *)
LEMMA RequestQuiet ==
    ASSUME TypeOK, TasksInv, NEW r \in Requests, NEW w \in TaskType, Goto(Request(r), w),
           UNCHANGED paths, UNCHANGED <<classLock, txnLock>>, GateInv', OthersStay(Request(r)),
           task[Request(r)].pc \in {"idle"} \cup Waiting,
           \/ w.pc = "idle" /\ w.op = None
           \/ w.pc \in Waiting /\ w.op # "txn" /\ w.class \in Classes
           \/ w.pc = "txnlock" /\ w.op = "txn"
    PROVE  TypeOK' /\ TasksInv'
<1>1. PICK t \in Tasks : t = Request(r)
  BY TaskNames
<1>2. None # "txn"
  BY NoneAssumption DEF OpKinds
<1>3. LockInv'
  BY <1>1, LocksStay DEF TasksInv, HasTxn, Waiting
<1>4. KindInv'
  BY <1>2, RequestKind DEF TasksInv, Waiting
<1>5. Informed(t, w)
  BY DEF Informed, Waiting
<1> QED
  BY <1>1, <1>3, <1>4, <1>5, QuietStep DEF TypeOK, paths

(* A waiting request is about a class and is no transaction. *)
LEMMA WaitingRequest ==
    ASSUME TypeOK, TasksInv, NEW r \in Requests,
           task[Request(r)].pc \in Waiting \cup {"switch"}
    PROVE  /\ task[Request(r)] \in TaskType /\ task[Request(r)].class \in Classes
           /\ task[Request(r)].op # "txn"
BY TaskNames DEF TasksInv, KindInv, Waiting, TypeOK, TaskType

(* A switch by hand starts. *)
LEMMA BeginManualInv ==
    ASSUME TypeOK, TasksInv, NEW r \in Requests, NEW c \in Classes, NEW n \in Nodes,
           BeginManual(r, c, n)
    PROVE  TypeOK' /\ TasksInv'
<1>1. PICK t \in Tasks : t = Request(r)
  BY TaskNames
<1> DEFINE w == [Idle EXCEPT !.pc = "lock", !.op = "manual", !.class = c, !.node = n]
<1>2. w \in TaskType /\ w.pc = "lock" /\ w.op = "manual" /\ w.class = c
  BY DEF BeginManual, Idle, TaskType, Points
<1>3. /\ Goto(t, w) /\ Queue(t) /\ task[t].pc = "idle"
      /\ UNCHANGED paths /\ UNCHANGED <<classLock, txnLock>>
  BY <1>1 DEF BeginManual
<1> HIDE DEF w
<1>4. GateInv' /\ OthersStay(t)
  BY <1>2, <1>3, GateQueues DEF TasksInv, AtGate, HasGate, OthersStay
<1> QED
  BY <1>1, <1>2, <1>3, <1>4, RequestQuiet DEF Waiting

(* A failed switch_to ends the request, or goes on with the next candidate. *)
LEMMA AfterFailureType ==
    ASSUME TypeOK, TasksInv, NEW r \in Requests, task[Request(r)].pc \in {"lock", "switch"}
    PROVE  /\ AfterFailure(r) \in TaskType
           /\ \/ AfterFailure(r).pc = "idle" /\ AfterFailure(r).op = None
              \/ /\ AfterFailure(r).pc = "pick" /\ AfterFailure(r).op # "txn"
                 /\ AfterFailure(r).class \in Classes
<1>1. /\ task[Request(r)] \in TaskType /\ task[Request(r)].class \in Classes
      /\ task[Request(r)].op # "txn"
  BY WaitingRequest DEF Waiting
<1> DEFINE w == [task[Request(r)] EXCEPT !.pc = "pick"]
<1>2. /\ w \in TaskType /\ w.pc = "pick" /\ w.op = task[Request(r)].op
      /\ w.class = task[Request(r)].class
  BY <1>1 DEF TaskType, Points
<1>3. AfterFailure(r) = Idle \/ AfterFailure(r) = w
  BY DEF AfterFailure
<1> HIDE DEF w
<1> QED
  BY <1>1, <1>2, <1>3, IdleType

(* A switch to a named node takes the mutex. *)
LEMMA SwitchToInv ==
    ASSUME TypeOK, TasksInv, NEW r \in Requests, SwitchTo(r)
    PROVE  TypeOK' /\ TasksInv'
<1>1. PICK t \in Tasks : t = Request(r)
  BY TaskNames
<1>2. /\ task[t].pc = "lock" /\ Inside(t) /\ task[t] \in TaskType
      /\ task[t].class \in Classes /\ task[t].op # "txn"
  BY <1>1, WaitingRequest DEF SwitchTo, Waiting
<1>3. UNCHANGED paths /\ UNCHANGED txnLock
  BY DEF SwitchTo
<1>4. CASE task[t].node \in pool /\ active[task[t].class] # task[t].node
  <2> DEFINE w == [task[t] EXCEPT !.pc = "switch"]
  <2>1. /\ w \in TaskType /\ w.pc = "switch" /\ w.op = task[t].op /\ w.class = task[t].class
        /\ w.node = task[t].node
    BY <1>2 DEF TaskType, Points
  <2>2. Goto(t, w) /\ LockClass(t, task[t].class) /\ UNCHANGED gate
    BY <1>1, <1>4 DEF SwitchTo
  <2> HIDE DEF w
  <2>3. GateInv' /\ OthersStay(t)
    BY <1>2, <2>1, <2>2, GateStays DEF TasksInv, AtGate, HasGate, OthersStay
  <2>4. LockInv'
    BY <1>2, <1>3, <2>1, <2>2, <2>3, LockTaken DEF TasksInv
  <2>5. KindInv'
    BY <1>1, <1>2, <2>1, <2>2, RequestKind DEF TasksInv
  <2>6. Informed(t, w)
    BY <1>1, <1>3, <1>4, <2>1, TaskNames, PinnedAssumption DEF Informed, paths
  <2> QED
    BY <1>2, <1>3, <2>1, <2>2, <2>3, <2>4, <2>5, <2>6, LockTypes, QuietStep DEF TypeOK, paths
<1>5. CASE ~(task[t].node \in pool /\ active[task[t].class] # task[t].node)
  <2> DEFINE w == IF task[t].node \in pool THEN Idle ELSE AfterFailure(r)
  <2>1. /\ w \in TaskType
        /\ \/ w.pc = "idle" /\ w.op = None
           \/ w.pc = "pick" /\ w.op # "txn" /\ w.class \in Classes
    BY <1>1, <1>2, IdleType, AfterFailureType
  <2>2. Goto(t, w) /\ Leave(t) /\ UNCHANGED classLock
    BY <1>1, <1>5 DEF SwitchTo
  <2> HIDE DEF w
  <2>3. GateInv' /\ OthersStay(t)
    BY <2>1, <2>2, GateLeaves, TaskNames DEF TasksInv, AtGate, OthersStay
  <2> QED
    BY <1>1, <1>2, <1>3, <2>1, <2>2, <2>3, RequestQuiet DEF Waiting
<1> QED
  BY <1>4, <1>5

(* The switch of a request installs a path, or none. *)
LEMMA RequestSwitchInv ==
    ASSUME TypeOK, TasksInv, NEW r \in Requests,
           RequestedInstalled(r) \/ FallbackInstalled(r) \/ NothingInstalled(r)
    PROVE  TypeOK' /\ TasksInv'
<1>1. PICK t \in Tasks : t = Request(r)
  BY TaskNames
<1>2. /\ task[t].pc = "switch" /\ task[t] \in TaskType /\ task[t].node \in pool
  BY <1>1, WaitingRequest DEF RequestedInstalled, FallbackInstalled, NothingInstalled, Switching,
                              TasksInv, PathsInv
<1>3. PICK c \in Classes : task[t].class = c
  BY <1>1, <1>2, WaitingRequest
<1>4. (\E n \in pool : Install(c, n)) \/ UNCHANGED paths
  BY <1>1, <1>2, <1>3 DEF RequestedInstalled, FallbackInstalled, NothingInstalled
<1>5. PICK w \in {Idle, AfterFailure(r)} : EndSwitch(r, w)
  BY DEF RequestedInstalled, FallbackInstalled, NothingInstalled
<1>6. /\ w \in TaskType
      /\ \/ w.pc = "idle" /\ w.op = None
         \/ w.pc = "pick" /\ w.op # "txn" /\ w.class \in Classes
  BY <1>1, <1>2, IdleType, AfterFailureType
<1>7. Goto(t, w) /\ Leave(t) /\ classLock' = Unlocked(t) /\ UNCHANGED txnLock
  BY <1>1, <1>5 DEF EndSwitch
<1>8. KindInv'
  <2>1. None # "txn"
    BY NoneAssumption DEF OpKinds
  <2> QED
    BY <1>1, <1>6, <1>7, <2>1, RequestKind DEF TasksInv
<1>9. w.pc \notin AtGate /\ w.pc # "prepare"
  BY <1>6 DEF AtGate
<1> QED
  BY <1>2, <1>3, <1>4, <1>6, <1>7, <1>8, <1>9, SwitchEnds

(* The steps of switch_for_site. *)
LEMMA BeginSiteInv ==
    ASSUME TypeOK, TasksInv, NEW r \in Requests, NEW c \in Classes, BeginSite(r, c)
    PROVE  TypeOK' /\ TasksInv'
<1>1. PICK t \in Tasks : t = Request(r)
  BY TaskNames
<1> DEFINE w == [Idle EXCEPT !.pc = "before", !.op = "site", !.class = c]
<1>2. w \in TaskType /\ w.pc = "before" /\ w.op = "site" /\ w.class = c
  BY DEF BeginSite, Idle, TaskType, Points
<1>3. /\ Goto(t, w) /\ UNCHANGED gate /\ task[t].pc = "idle"
      /\ UNCHANGED paths /\ UNCHANGED <<classLock, txnLock>>
  BY <1>1 DEF BeginSite, locks
<1> HIDE DEF w
<1>4. GateInv' /\ OthersStay(t)
  BY <1>2, <1>3, GateStays DEF TasksInv, AtGate, HasGate, OthersStay
<1> QED
  BY <1>1, <1>2, <1>3, <1>4, RequestQuiet DEF Waiting

(* A site request goes from one waiting point to the next: the gate is left  *)
(* alone, queued for, left, or left and queued for again.                    *)
LEMMA SiteStep ==
    ASSUME TypeOK, TasksInv, NEW r \in Requests, NEW w \in TaskType, Goto(Request(r), w),
           UNCHANGED paths, UNCHANGED <<classLock, txnLock>>,
           task[Request(r)].pc \in Waiting,
           \/ w.pc = "idle" /\ w.op = None
           \/ w.pc \in Waiting /\ w.op # "txn" /\ w.class \in Classes,
           \/ UNCHANGED gate /\ w.pc \notin AtGate /\ task[Request(r)].pc \notin AtGate
           \/ Queue(Request(r)) /\ w.pc \in AtGate /\ task[Request(r)].pc \notin AtGate
           \/ Leave(Request(r)) /\ w.pc \notin AtGate
           \/ LeaveAndQueue(Request(r)) /\ w.pc \in AtGate
    PROVE  TypeOK' /\ TasksInv'
<1>1. PICK t \in Tasks : t = Request(r)
  BY TaskNames
<1>2. w.pc \notin HasGate /\ w.pc \notin {"classes", "rebuild"}
  BY DEF HasGate, Waiting
<1>3. GateInv' /\ OthersStay(t)
  <2>1. CASE UNCHANGED gate /\ w.pc \notin AtGate /\ task[t].pc \notin AtGate
    BY <1>1, <1>2, <2>1, GateStays DEF TasksInv, OthersStay
  <2>2. CASE Queue(t) /\ w.pc \in AtGate /\ task[t].pc \notin AtGate
    BY <1>1, <1>2, <2>2, GateQueues DEF TasksInv, OthersStay
  <2>3. CASE Leave(t) /\ w.pc \notin AtGate
    BY <1>1, <2>3, GateLeaves, TaskNames DEF TasksInv, OthersStay
  <2>4. CASE LeaveAndQueue(t) /\ w.pc \in AtGate
    BY <1>1, <1>2, <2>4, GateRequeues, TaskNames DEF TasksInv, OthersStay
  <2> QED
    BY <1>1, <2>1, <2>2, <2>3, <2>4
<1> QED
  BY <1>1, <1>3, RequestQuiet

(* A switch for a site reads the node before it. *)
LEMMA SiteBeforeInv ==
    ASSUME TypeOK, TasksInv, NEW r \in Requests, SiteBefore(r)
    PROVE  TypeOK' /\ TasksInv'
<1>1. PICK t \in Tasks : t = Request(r)
  BY TaskNames
<1>2. /\ task[t].pc = "before" /\ task[t] \in TaskType /\ task[t].class \in Classes
      /\ task[t].op # "txn" /\ active[task[t].class] \in Nodes \cup {None}
  BY <1>1, WaitingRequest DEF SiteBefore, Waiting, TypeOK
<1> DEFINE seen == [task[t] EXCEPT !.before = active[task[t].class]]
           s == [seen EXCEPT !.pc = "search"]
           i == [seen EXCEPT !.pc = "incumbent"]
<1>3. /\ s \in TaskType /\ s.pc = "search" /\ s.op = task[t].op /\ s.class = task[t].class
      /\ i \in TaskType /\ i.pc = "incumbent" /\ i.op = task[t].op /\ i.class = task[t].class
  <2>1. seen \in TaskType /\ seen.op = task[t].op /\ seen.class = task[t].class
    BY <1>2 DEF TaskType
  <2> HIDE DEF seen
  <2> QED
    BY <2>1 DEF TaskType, Points
<1>4. /\ UNCHANGED paths /\ UNCHANGED <<classLock, txnLock>>
      /\ \/ Goto(t, s) /\ UNCHANGED gate
         \/ Goto(t, Idle) /\ UNCHANGED gate
         \/ Goto(t, i) /\ Queue(t)
  BY <1>1 DEF SiteBefore
<1> HIDE DEF s, i
<1>5. "search" \notin AtGate /\ "idle" \notin AtGate /\ "before" \notin AtGate /\ "incumbent" \in AtGate
  BY DEF AtGate
<1> QED
  BY <1>1, <1>2, <1>3, <1>4, <1>5, IdleType, SiteStep DEF Waiting

(* The incumbent is probed for the site. *)
LEMMA SiteIncumbentInv ==
    ASSUME TypeOK, TasksInv, NEW r \in Requests, SiteIncumbent(r)
    PROVE  TypeOK' /\ TasksInv'
<1>1. PICK t \in Tasks : t = Request(r)
  BY TaskNames
<1>2. /\ task[t].pc = "incumbent" /\ task[t] \in TaskType /\ task[t].class \in Classes
      /\ task[t].op # "txn"
  BY <1>1, WaitingRequest DEF SiteIncumbent, Waiting
<1> DEFINE w == [task[t] EXCEPT !.pc = "search"]
<1>3. w \in TaskType /\ w.pc = "search" /\ w.op = task[t].op /\ w.class = task[t].class
  BY <1>2 DEF TaskType, Points
<1>4. /\ UNCHANGED paths /\ UNCHANGED <<classLock, txnLock>>
      /\ Goto(t, Idle) \/ Goto(t, w)
      /\ Leave(t)
  BY <1>1 DEF SiteIncumbent
<1> HIDE DEF w
<1>5. "search" \notin AtGate /\ "idle" \notin AtGate
  BY DEF AtGate
<1> QED
  BY <1>1, <1>2, <1>3, <1>4, <1>5, IdleType, SiteStep DEF Waiting

(* The candidates are probed for the site. *)
LEMMA SiteSearchInv ==
    ASSUME TypeOK, TasksInv, NEW r \in Requests, SiteSearch(r)
    PROVE  TypeOK' /\ TasksInv'
<1>1. PICK t \in Tasks : t = Request(r)
  BY TaskNames
<1>2. /\ task[t].pc = "search" /\ task[t] \in TaskType /\ task[t].class \in Classes
      /\ task[t].op # "txn" /\ pool \subseteq Nodes
  BY <1>1, WaitingRequest, PoolsAssumption DEF SiteSearch, Waiting, TypeOK
<1> DEFINE w == [task[t] EXCEPT !.pc = "pick", !.cands = pool \ {task[t].before}]
<1>3. w \in TaskType /\ w.pc = "pick" /\ w.op = task[t].op /\ w.class = task[t].class
  BY <1>2 DEF TaskType, Points
<1>4. UNCHANGED paths /\ UNCHANGED <<classLock, txnLock>> /\ Goto(t, w) /\ UNCHANGED gate
  BY <1>1 DEF SiteSearch, locks
<1> HIDE DEF w
<1>5. "search" \notin AtGate /\ "pick" \notin AtGate
  BY DEF AtGate
<1> QED
  BY <1>1, <1>2, <1>3, <1>4, <1>5, SiteStep DEF Waiting

(* A candidate is picked. *)
LEMMA SitePickInv ==
    ASSUME TypeOK, TasksInv, NEW r \in Requests, SitePick(r)
    PROVE  TypeOK' /\ TasksInv'
<1>1. PICK t \in Tasks : t = Request(r)
  BY TaskNames
<1>2. /\ task[t].pc = "pick" /\ task[t] \in TaskType /\ task[t].class \in Classes
      /\ task[t].op # "txn" /\ task[t].cands \subseteq Nodes
  BY <1>1, WaitingRequest DEF SitePick, Waiting, TaskType
<1>3. UNCHANGED paths /\ UNCHANGED <<classLock, txnLock>>
  BY DEF SitePick
<1>4. "candidate" \in AtGate /\ "pick" \notin AtGate /\ "idle" \notin AtGate
  BY DEF AtGate
<1>5. CASE task[t].cands = {}
  BY <1>1, <1>2, <1>3, <1>4, <1>5, IdleType, SiteStep DEF SitePick, Waiting
<1>6. CASE task[t].cands # {}
  <2>1. PICK n \in task[t].cands :
          Goto(t, [task[t] EXCEPT !.pc = "candidate", !.node = n, !.cands = task[t].cands \ {n}])
    BY <1>1, <1>2, <1>6 DEF SitePick, TaskType
  <2> DEFINE w == [task[t] EXCEPT !.pc = "candidate", !.node = n, !.cands = task[t].cands \ {n}]
  <2>2. w \in TaskType /\ w.pc = "candidate" /\ w.op = task[t].op /\ w.class = task[t].class
    BY <1>2 DEF TaskType, Points
  <2>3. Goto(t, w) /\ Queue(t)
    BY <1>1, <1>6, <2>1 DEF SitePick
  <2> HIDE DEF w
  <2> QED
    BY <1>1, <1>2, <1>3, <1>4, <2>2, <2>3, SiteStep DEF Waiting
<1> QED
  BY <1>5, <1>6

(* The candidate is switched to. *)
LEMMA SiteCandidateInv ==
    ASSUME TypeOK, TasksInv, NEW r \in Requests, SiteCandidate(r)
    PROVE  TypeOK' /\ TasksInv'
<1>1. PICK t \in Tasks : t = Request(r)
  BY TaskNames
<1>2. /\ task[t].pc = "candidate" /\ task[t] \in TaskType /\ task[t].class \in Classes
      /\ task[t].op # "txn"
  BY <1>1, WaitingRequest DEF SiteCandidate, Waiting
<1> DEFINE p == [task[t] EXCEPT !.pc = "pick"]
           l == [task[t] EXCEPT !.pc = "lock"]
<1>3. /\ p \in TaskType /\ p.pc = "pick" /\ p.op = task[t].op /\ p.class = task[t].class
      /\ l \in TaskType /\ l.pc = "lock" /\ l.op = task[t].op /\ l.class = task[t].class
  BY <1>2 DEF TaskType, Points
<1>4. /\ UNCHANGED paths /\ UNCHANGED <<classLock, txnLock>>
      /\ \/ Goto(t, p) /\ Leave(t)
         \/ Goto(t, l) /\ LeaveAndQueue(t)
  BY <1>1 DEF SiteCandidate
<1> HIDE DEF p, l
<1>5. "pick" \notin AtGate /\ "lock" \in AtGate
  BY DEF AtGate
<1> QED
  BY <1>1, <1>2, <1>3, <1>4, <1>5, SiteStep DEF Waiting

(* The steps of a transaction. *)
LEMMA BeginTxnInv ==
    ASSUME TypeOK, TasksInv, NEW r \in Requests, BeginTxn(r)
    PROVE  TypeOK' /\ TasksInv'
<1>1. PICK t \in Tasks : t = Request(r)
  BY TaskNames
<1> DEFINE w == [Idle EXCEPT !.pc = "txnlock", !.op = "txn"]
<1>2. w \in TaskType /\ w.pc = "txnlock" /\ w.op = "txn"
  BY DEF BeginTxn, Idle, TaskType, Points
<1>3. /\ Goto(t, w) /\ UNCHANGED gate /\ task[t].pc = "idle"
      /\ UNCHANGED paths /\ UNCHANGED <<classLock, txnLock>>
  BY <1>1 DEF BeginTxn, locks
<1> HIDE DEF w
<1>4. GateInv' /\ OthersStay(t)
  BY <1>2, <1>3, GateStays DEF TasksInv, AtGate, HasGate, OthersStay
<1> QED
  BY <1>1, <1>2, <1>3, <1>4, RequestQuiet DEF Waiting

(* ctx.subscription_txn is taken by a request that holds nothing else. *)
LEMMA TxnLockInv ==
    ASSUME TypeOK, TasksInv, NEW r \in Requests, TxnLock(r)
    PROVE  TypeOK' /\ TasksInv'
<1>1. PICK t \in Tasks : t = Request(r)
  BY TaskNames
<1> DEFINE w == [task[t] EXCEPT !.pc = "prepare"]
<1>2. w \in TaskType /\ w.pc = "prepare" /\ w.op = task[t].op
  BY DEF TypeOK, TaskType, Points
<1>3. /\ Goto(t, w) /\ task[t].pc = "txnlock" /\ txnLock = None /\ txnLock' = t
      /\ UNCHANGED paths /\ UNCHANGED gate /\ UNCHANGED classLock
  BY <1>1 DEF TxnLock
<1> HIDE DEF w
<1>4. task[t].op = "txn"
  BY <1>1, <1>3 DEF TasksInv, KindInv
<1>5. GateInv' /\ OthersStay(t)
  BY <1>2, <1>3, GateStays DEF TasksInv, AtGate, HasGate, OthersStay
<1>6. LockInv'
  <2>1. task'[t] = w /\ \A u \in Tasks : u # t => task'[u] = task[u]
    BY <1>3, GotoEffect
  <2>2. \A c \in Classes : classLock[c] # t
    BY <1>3, TaskNames DEF TasksInv, LockInv
  <2>3. OwnLocksOnly(t)
    BY <1>3, TaskNames DEF OwnLocksOnly
  <2> QED
    BY <1>2, <1>3, <1>5, <2>1, <2>2, <2>3, LockStep DEF TasksInv, HasTxn
<1>7. KindInv'
  BY <1>1, <1>2, <1>3, <1>4, RequestKind DEF TasksInv
<1>8. Informed(t, w)
  BY <1>2 DEF Informed
<1> QED
  BY <1>2, <1>3, <1>5, <1>6, <1>7, <1>8, QuietStep DEF TypeOK, paths

(* The prepared transaction queues for the write gate. *)
LEMMA TxnPreparedInv ==
    ASSUME TypeOK, TasksInv, NEW r \in Requests, TxnPrepared(r)
    PROVE  TypeOK' /\ TasksInv'
<1>1. PICK t \in Tasks : t = Request(r)
  BY TaskNames
<1> DEFINE w == [task[t] EXCEPT !.pc = "classes"]
<1>2. w \in TaskType /\ w.pc = "classes" /\ w.op = task[t].op
  BY DEF TypeOK, TaskType, Points
<1>3. /\ Goto(t, w) /\ task[t].pc = "prepare" /\ Queue(t)
      /\ UNCHANGED paths /\ UNCHANGED <<classLock, txnLock>>
  BY <1>1 DEF TxnPrepared
<1> HIDE DEF w
<1>4. task[t].op = "txn"
  BY <1>1, <1>3 DEF TasksInv, KindInv
<1>5. GateInv' /\ OthersStay(t)
  BY <1>2, <1>3, GateQueues DEF TasksInv, AtGate, HasGate, OthersStay
<1>6. LockInv'
  BY <1>2, <1>3, <1>5, LocksStay DEF TasksInv, HasTxn
<1>7. KindInv'
  BY <1>1, <1>2, <1>3, <1>4, RequestKind DEF TasksInv
<1>8. Informed(t, w)
  BY <1>2 DEF Informed
<1> QED
  BY <1>2, <1>3, <1>5, <1>6, <1>7, <1>8, QuietStep DEF TypeOK, paths

(* The transaction takes one more class mutex under the write gate. *)
LEMMA TxnClassInv ==
    ASSUME TypeOK, TasksInv, NEW r \in Requests, TxnClass(r)
    PROVE  TypeOK' /\ TasksInv'
<1>1. PICK t \in Tasks : t = Request(r)
  BY TaskNames
<1>2. PICK c \in Classes : LockClass(t, c)
  BY <1>1 DEF TxnClass, NotHeld
<1>3. /\ task[t].pc = "classes" /\ Inside(t)
      /\ pool' = pool /\ active' = active /\ failures' = failures
      /\ txnLock' = txnLock /\ gate' = gate /\ task' = task
  BY <1>1 DEF TxnClass, paths
<1>4. /\ classLock[c] = None /\ classLock'[c] = t
      /\ \A d \in Classes : d # c => classLock'[d] = classLock[d]
  BY <1>2 DEF LockClass, Free, TypeOK
<1>5. KindInv' /\ GateInv' /\ PathsInv' /\ \A u : Inside(u)' <=> Inside(u)
  BY <1>3 DEF TasksInv, KindInv, GateInv, PathsInv, ActiveInPool, Switching, Inside, Queued
<1>6. LockInv'
  <2>1. OthersStay(t) /\ OwnLocksOnly(t)
    BY <1>3, <1>4, <1>5 DEF OthersStay, OwnLocksOnly
  <2>2. \A u \in Tasks : task'[u].pc \in HasTxn <=> txnLock' = u
    BY <1>3 DEF TasksInv, LockInv, HasTxn
  <2>3. Inside(t)' /\ task'[t].pc = "classes"
    BY <1>3, <1>5
  <2> QED
    BY <1>3, <2>1, <2>2, <2>3, LockStep DEF TasksInv
<1>7. classLock' \in [Classes -> Tasks \cup {None}]
  BY <1>2, LockTypes
<1>8. TypeOK'
  BY <1>3, <1>5, <1>7, TypeStep DEF TypeOK, TaskType
<1> QED
  BY <1>5, <1>6, <1>8 DEF TasksInv

(* What the end of a transaction does to everything but the paths. *)
LEMMA TxnUnlockInv ==
    ASSUME TypeOK, TasksInv, NEW r \in Requests, TxnUnlock(r),
           task[Request(r)].pc \in {"prepare", "classes"}
    PROVE  /\ KindInv' /\ GateInv' /\ LockInv'
           /\ task' \in [Tasks -> TaskType] /\ txnLock' = None
           /\ classLock' \in [Classes -> Tasks \cup {None}]
           /\ Goto(Request(r), Idle)
<1>1. PICK t \in Tasks : t = Request(r)
  BY TaskNames
<1>2. Goto(t, Idle) /\ Leave(t) /\ classLock' = Unlocked(t) /\ txnLock' = None
  BY <1>1 DEF TxnUnlock
<1>3. GateInv' /\ OthersStay(t)
  BY <1>2, IdleType, GateLeaves, TaskNames DEF TasksInv, AtGate, OthersStay
<1>4. LockInv'
  BY <1>1, <1>2, <1>3, AllDropped DEF TasksInv, HasTxn
<1>5. KindInv'
  <2>1. None # "txn"
    BY NoneAssumption DEF OpKinds
  <2> QED
    BY <1>1, <1>2, <2>1, IdleType, RequestKind DEF TasksInv
<1> QED
  BY <1>1, <1>2, <1>3, <1>4, <1>5, IdleType, GotoEffect, LockTypes

(* The pool and every path change at once: the transaction has every class   *)
(* mutex, so nobody is about to install a node of the old pool.              *)
LEMMA TxnPublishInv ==
    ASSUME TypeOK, TasksInv, NEW r \in Requests, TxnPublish(r)
    PROVE  TypeOK' /\ TasksInv'
<1>1. PICK t \in Tasks : t = Request(r)
  BY TaskNames
<1>2. /\ task[t].pc = "classes" /\ TxnUnlock(r) /\ pool' \in Pools /\ active' \in [Classes -> pool']
      /\ failures' = [c \in Classes |-> 0]
  BY <1>1 DEF TxnPublish
<1>3. \A c \in Classes : classLock[c] = t
  BY <1>1 DEF TxnPublish, NotHeld
<1>4. /\ KindInv' /\ GateInv' /\ LockInv'
      /\ task' \in [Tasks -> TaskType] /\ txnLock' = None
      /\ classLock' \in [Classes -> Tasks \cup {None}]
      /\ Goto(Request(r), Idle)
  BY <1>1, <1>2, TxnUnlockInv
<1>5. task'[t].pc = "idle" /\ \A u \in Tasks : u # t => task'[u] = task[u]
  BY <1>1, <1>4, GotoEffect, IdleType
<1>6. \A u \in Tasks : task'[u].pc \notin {"switch", "rebuild"}
  <2>1. ASSUME NEW u \in Tasks, u # t, task[u].pc \in {"switch", "rebuild"} PROVE FALSE
    <3>1. task[u].class \in Classes /\ classLock[task[u].class] = u
      BY <2>1, KindClass DEF TasksInv, LockInv
    <3> QED
      BY <1>3, <2>1, <3>1
  <2> QED
    BY <1>5, <2>1
<1>7. pool' \subseteq Nodes /\ active' \in [Classes -> Nodes \cup {None}]
  BY <1>2, PoolsAssumption
<1>8. PathsInv'
  <2>1. ActiveInPool'
    BY <1>2 DEF ActiveInPool
  <2>2. \A r1 \in Requests : ~Switching(r1)'
    BY <1>6, TaskNames DEF Switching
  <2>3. task'[Egress].pc # "rebuild" /\ \A c \in Pinned : task'[Health(c)].pc # "switch"
    BY <1>6, TaskNames, PinnedAssumption
  <2> QED
    BY <2>1, <2>2, <2>3 DEF PathsInv
<1>9. failures' \in [Classes -> 0..Threshold]
  BY <1>2, ThresholdAssumption
<1>10. TypeOK'
  BY <1>2, <1>4, <1>7, <1>9, TypeStep
<1> QED
  BY <1>4, <1>8, <1>10 DEF TasksInv

(* A transaction that fails gives up what it holds. *)
LEMMA TxnAbortInv ==
    ASSUME TypeOK, TasksInv, NEW r \in Requests, TxnAbort(r)
    PROVE  TypeOK' /\ TasksInv'
<1>1. PICK t \in Tasks : t = Request(r)
  BY TaskNames
<1>2. /\ KindInv' /\ GateInv' /\ LockInv'
      /\ task' \in [Tasks -> TaskType] /\ txnLock' = None
      /\ classLock' \in [Classes -> Tasks \cup {None}]
      /\ Goto(t, Idle)
  BY <1>1, TxnUnlockInv DEF TxnAbort
<1>3. UNCHANGED <<pool, active>> /\ failures' = failures
  BY DEF TxnAbort, paths
<1>4. Informed(t, Idle)
  BY IdleType DEF Informed
<1> QED
  BY <1>2, <1>3, <1>4, IdleType, QuietStep DEF TypeOK

-----------------------------------------------------------------------------
(* The invariant of the specification.                                      *)

(* run() starts the tasks with no lock taken. *)
LEMMA InitInv == Init => TypeOK /\ TasksInv
<1> SUFFICES ASSUME Init PROVE TypeOK /\ TasksInv
  OBVIOUS
<1>1. pool \subseteq Nodes /\ pool \in Pools
  BY PoolsAssumption DEF Init
<1>2. \A t \in Tasks : task[t] = Idle
  BY DEF Init
<1>3. \A t \in Tasks : task[t].pc = "idle" /\ task[t].op = None
  BY <1>2, IdleType
<1>4. gate.readers = {} /\ gate.writer = None /\ gate.queue = <<>> /\ gate \in GateType
  BY DEF Init, GateType
<1>5. \A t \in Tasks : ~Queued(t) /\ ~Inside(t)
  BY <1>4, TaskNames DEF Queued, Inside
<1>6. None # "txn"
  BY NoneAssumption DEF OpKinds
<1>7. KindInv
  BY <1>3, <1>6, TaskNames DEF KindInv
<1>8. GateInv
  BY <1>3, <1>4, <1>5 DEF GateInv, GateType, AtGate
<1>9. LockInv
  BY <1>3, TaskNames DEF Init, LockInv
<1>10. PathsInv
  BY <1>3, TaskNames, PinnedAssumption DEF Init, PathsInv, ActiveInPool, Switching
<1>11. TypeOK
  <2>1. task \in [Tasks -> TaskType]
    BY IdleType DEF Init
  <2>2. active \in [Classes -> Nodes \cup {None}] /\ failures \in [Classes -> 0..Threshold]
    BY <1>1, ThresholdAssumption DEF Init
  <2> QED
    BY <1>1, <1>8, <2>1, <2>2 DEF Init, TypeOK, GateInv, TaskType
<1> QED
  BY <1>7, <1>8, <1>9, <1>10, <1>11 DEF TasksInv

(* Every step keeps the invariant. *)
LEMMA StepInv ==
    ASSUME TypeOK, TasksInv, [Next]_vars
    PROVE  TypeOK' /\ TasksInv'
<1>1. CASE UNCHANGED vars
  <2>1. /\ pool' = pool /\ active' = active /\ failures' = failures
        /\ txnLock' = txnLock /\ gate' = gate /\ classLock' = classLock /\ task' = task
    BY <1>1 DEF vars
  <2>2. KindInv' /\ GateInv' /\ PathsInv' /\ (\A u \in Tasks : Inside(u) => Inside(u)')
    BY <2>1 DEF TasksInv, KindInv, GateInv, PathsInv, ActiveInPool, Switching, Inside, Queued
  <2>3. LockInv'
    BY <2>1, <2>2, LocksWait DEF TasksInv
  <2>4. TypeOK'
    BY <2>1, <2>2, TypeStep DEF TypeOK, TaskType
  <2> QED
    BY <2>2, <2>3, <2>4 DEF TasksInv
<1>2. CASE Begin
  <2>1. CASE ProbeTick
    BY <2>1, ProbeTickInv
  <2>2. ASSUME NEW c \in Classes, HealthTick(c) \/ EgressLock(c) PROVE TypeOK' /\ TasksInv'
    BY <2>2, HealthTickInv, EgressLockInv
  <2>3. ASSUME NEW r \in Requests, NEW c \in Classes, NEW n \in Nodes, BeginManual(r, c, n)
        PROVE  TypeOK' /\ TasksInv'
    BY <2>3, BeginManualInv
  <2>4. ASSUME NEW r \in Requests, NEW c \in Classes, BeginSite(r, c) PROVE TypeOK' /\ TasksInv'
    BY <2>4, BeginSiteInv
  <2>5. ASSUME NEW r \in Requests, BeginTxn(r) PROVE TypeOK' /\ TasksInv'
    BY <2>5, BeginTxnInv
  <2> QED
    BY <1>2, <2>1, <2>2, <2>3, <2>4, <2>5 DEF Begin
<1>3. ASSUME NEW c \in Classes, HealthStep(c) PROVE TypeOK' /\ TasksInv'
  BY <1>3, TaskNames, EnterInv, SampleInv, BookInv, RecoverRefusedInv, RecoverInv,
     RecoverSwitchInv DEF HealthStep
<1>4. CASE ProbeStep
  BY <1>4, TaskNames, EnterInv, ProbeDoneInv, ProbeDecideInv, ProbeSkipInv, ChallengeInv,
     ChallengeSwitchInv DEF ProbeStep
<1>5. CASE EgressStep
  BY <1>5, EgressStepInv
<1>6. ASSUME NEW r \in Requests, RequestStep(r) PROVE TypeOK' /\ TasksInv'
  <2>1. CASE EnterGate(Request(r)) \/ SwitchTo(r)
    BY <2>1, TaskNames, EnterInv, SwitchToInv
  <2>2. CASE RequestedInstalled(r) \/ FallbackInstalled(r) \/ NothingInstalled(r)
    BY <2>2, RequestSwitchInv
  <2>3. CASE SiteBefore(r) \/ SiteIncumbent(r) \/ SiteSearch(r) \/ SitePick(r) \/ SiteCandidate(r)
    BY <2>3, SiteBeforeInv, SiteIncumbentInv, SiteSearchInv, SitePickInv, SiteCandidateInv
  <2>4. CASE TxnLock(r) \/ TxnPrepared(r) \/ TxnClass(r) \/ TxnPublish(r) \/ TxnAbort(r)
    BY <2>4, TxnLockInv, TxnPreparedInv, TxnClassInv, TxnPublishInv, TxnAbortInv
  <2> QED
    BY <1>6, <2>1, <2>2, <2>3, <2>4 DEF RequestStep
<1> QED
  BY <1>1, <1>2, <1>3, <1>4, <1>5, <1>6 DEF Next

(***************************************************************************)
(* TasksInvariant.  Every reachable state satisfies the type invariant and *)
(* the inductive invariant, whatever the number of classes and requests.   *)
(***************************************************************************)
THEOREM TasksInvariant == Spec => [](TypeOK /\ TasksInv)
<1>1. Init => TypeOK /\ TasksInv
  BY InitInv
<1>2. (TypeOK /\ TasksInv) /\ [Next]_vars => (TypeOK /\ TasksInv)'
  BY StepInv
<1> QED
  BY <1>1, <1>2, PTL DEF Spec

(***************************************************************************)
(* TasksTypeCorrect.  The variables of the lock protocol keep their types. *)
(***************************************************************************)
THEOREM TasksTypeCorrect == Spec => []TypeOK
BY TasksInvariant, PTL

(***************************************************************************)
(* NodesOfThePool.  A class's active node belongs to the live pool in      *)
(* every reachable state: no loop, request or rebuild installs a node that *)
(* a subscription change has removed (switch_to's lookup, publish under    *)
(* all class mutexes).                                                     *)
(***************************************************************************)
THEOREM NodesOfThePool == Spec => []ActiveInPool
<1>1. TypeOK /\ TasksInv => ActiveInPool
  BY DEF TasksInv, PathsInv
<1> QED
  BY <1>1, TasksInvariant, PTL

-----------------------------------------------------------------------------
(* Who may move a class to another node.                                    *)

(* The steps that can change a class's active node. *)
LEMMA ActiveMoves ==
    ASSUME TypeOK, TasksInv, [Next]_vars
    PROVE  \/ active' = active
           \/ \E c \in Classes : RecoverSwitch(c)
           \/ ChallengeSwitch
           \/ \E r \in Requests : RequestedInstalled(r) \/ FallbackInstalled(r) \/ TxnPublish(r)
<1>1. CASE UNCHANGED vars
  BY <1>1 DEF vars
<1>2. CASE Begin
  BY <1>2 DEF Begin, ProbeTick, HealthTick, EgressLock, BeginManual, BeginSite, BeginTxn, paths
<1>3. ASSUME NEW c \in Classes, HealthStep(c) PROVE active' = active \/ RecoverSwitch(c)
  BY <1>3 DEF HealthStep, EnterGate, Sample, Book, RecoverRefused, Recover, paths
<1>4. CASE ProbeStep
  BY <1>4 DEF ProbeStep, EnterGate, ProbeDone, ProbeDecide, ProbeSkip, Challenge, paths
<1>5. CASE EgressStep
  BY <1>5, EgressStepInv
<1>6. ASSUME NEW r \in Requests, RequestStep(r)
      PROVE  active' = active \/ RequestedInstalled(r) \/ FallbackInstalled(r) \/ TxnPublish(r)
  BY <1>6 DEF RequestStep, EnterGate, SwitchTo, NothingInstalled, SiteBefore, SiteIncumbent,
              SiteSearch, SitePick, SiteCandidate, TxnLock, TxnPrepared, TxnClass, TxnAbort, paths
<1> QED
  BY <1>1, <1>2, <1>3, <1>4, <1>5, <1>6 DEF Next

(* A request that publishes a path moves on. *)
LEMMA RequestMoves ==
    ASSUME TypeOK, TasksInv, NEW r \in Requests,
           RequestedInstalled(r) \/ FallbackInstalled(r) \/ TxnPublish(r)
    PROVE  task'[Request(r)] # task[Request(r)] /\ task'[Egress] = task[Egress]
<1>1. Goto(Request(r), Idle) /\ task[Request(r)].pc \in {"switch", "classes"}
  BY DEF RequestedInstalled, FallbackInstalled, TxnPublish, TxnUnlock, EndSwitch, Switching
<1> QED
  BY <1>1, GotoEffect, IdleType, TaskNames

(* The class of another loop's switch is the only one that it moves. *)
LEMMA OneClassMoves ==
    ASSUME TypeOK, NEW c \in Classes, SwitchOutcome(c)
    PROVE  \A d \in Classes : d # c => active'[d] = active[d]
BY DEF SwitchOutcome, Install, TypeOK, paths

(* The property of one step behind PinnedStays. *)
LEMMA PinnedStep ==
    ASSUME TypeOK, TasksInv, [Next]_vars, NEW c \in Pinned, active[c] # None, active'[c] # active[c]
    PROVE  \E r \in Requests : task'[Request(r)] # task[Request(r)]
<1>1. c \in Classes
  BY PinnedAssumption
<1>2. ASSUME NEW d \in Classes, RecoverSwitch(d) PROVE FALSE
  <2>1. task[Health(d)].pc = "switch" /\ SwitchOutcome(d)
    BY <1>2 DEF RecoverSwitch
  <2>2. c = d
    BY <1>1, <2>1, OneClassMoves
  <2> QED
    BY <2>1, <2>2 DEF TasksInv, PathsInv
<1>3. CASE ChallengeSwitch
  <2>1. PICK d \in Classes : d = task[Probe].class /\ d \notin Pinned /\ SwitchOutcome(d)
    BY <1>3 DEF ChallengeSwitch, TasksInv, KindInv
  <2> QED
    BY <1>1, <2>1, OneClassMoves
<1> QED
  BY <1>2, <1>3, ActiveMoves, RequestMoves

(***************************************************************************)
(* PinnedPathsStay.  With auto_switch off, an established path moves to    *)
(* another node by a step of a control request only: neither the health    *)
(* loop's recovery nor a probe challenger nor an egress rebuild does it.   *)
(***************************************************************************)
THEOREM PinnedPathsStay == Spec => PinnedStays
<1>1. TypeOK /\ TasksInv /\ [Next]_vars =>
        [\A c \in Pinned : active[c] # None /\ active'[c] # active[c] =>
            \E r \in Requests : task'[Request(r)] # task[Request(r)]]_vars
  BY PinnedStep
<1> QED
  BY <1>1, TasksInvariant, PTL DEF Spec, PinnedStays

(***************************************************************************)
(* RebuildKeepsNode.  A step of the egress observer changes no class's     *)
(* node: the rebuild it publishes is of the node the class still has.      *)
(***************************************************************************)
THEOREM RebuildKeepsNode == Spec => EgressKeepsNode
<1>1. ASSUME TypeOK, TasksInv, [Next]_vars, task'[Egress] # task[Egress] PROVE active' = active
  <2>1. ASSUME NEW c \in Classes, RecoverSwitch(c) PROVE FALSE
    BY <1>1, <2>1, GotoEffect, TaskNames DEF RecoverSwitch
  <2>2. ~ChallengeSwitch
    BY <1>1, GotoEffect, TaskNames DEF ChallengeSwitch
  <2> QED
    BY <1>1, <2>1, <2>2, ActiveMoves, RequestMoves
<1>2. TypeOK /\ TasksInv /\ [Next]_vars =>
        [task'[Egress] # task[Egress] => active' = active]_vars
  BY <1>1
<1> QED
  BY <1>2, TasksInvariant, PTL DEF Spec, EgressKeepsNode

-----------------------------------------------------------------------------
(* No circular wait.  Every task that waits is on one of four levels, and    *)
(* waits only for tasks of a lower level or, in the queue of the gate, for   *)
(* tasks before it:                                                          *)
(*   a holder has a class mutex, or has the write gate, and waits for nobody;*)
(*   a task that does not queue for the gate waits for holders of mutexes;   *)
(*   a task in the queue waits for those before it and those in the gate;    *)
(*   a transaction waits for the owner of ctx.subscription_txn.              *)

Holder(t) == \/ task[t].pc \in {"switch", "rebuild"}
             \/ task[t].pc = "classes" /\ Inside(t)

(* A holder waits for nobody: under the write gate every class mutex is free *)
(* or the writer's own.                                                      *)
LEMMA HolderMoves ==
    ASSUME TypeOK, TasksInv, NEW t \in Tasks, Holder(t)
    PROVE  Blockers(t) = {}
<1>1. ~Queued(t) /\ task[t].pc # "txnlock" /\ Inside(t)
  BY DEF TasksInv, GateInv, Holder
<1>2. ASSUME NEW c \in Wanted(t) PROVE classLock[c] = None
  <2>1. c \in Classes /\ classLock[c] # t /\ task[t].pc = "classes"
    BY DEF Wanted, Holder
  <2>2. gate.writer = t /\ t # None /\ gate.readers = {}
    BY <1>1, <2>1, TaskNames DEF TasksInv, GateInv
  <2>3. SUFFICES ASSUME classLock[c] # None PROVE FALSE
    OBVIOUS
  <2>4. PICK u \in Tasks : u = classLock[c] /\ u # t
    BY <2>1, <2>3 DEF TypeOK
  <2>5. task[u].pc \in {"switch", "rebuild"} \/ Inside(u)
    BY <2>1, <2>3, <2>4 DEF TasksInv, LockInv
  <2>6. Inside(u)
    BY <2>5 DEF TasksInv, GateInv
  <2> QED
    BY <2>2, <2>4, <2>6 DEF Inside
<1> QED
  BY <1>1, <1>2 DEF Blockers

(* Who waits for a class mutex waits for a holder. *)
LEMMA MutexWait ==
    ASSUME TypeOK, TasksInv, NEW t \in Tasks, ~Queued(t), task[t].pc # "txnlock",
           NEW u \in Blockers(t)
    PROVE  Holder(u)
<1>1. PICK c \in Classes : u = classLock[c] /\ u # None
  BY DEF Blockers, Wanted
<1> QED
  BY <1>1 DEF TasksInv, LockInv, Holder

(* Who queues for the gate waits for the tasks before it and those inside. *)
LEMMA GateWait ==
    ASSUME TypeOK, TasksInv, NEW k \in DOMAIN gate.queue, NEW u \in Blockers(gate.queue[k])
    PROVE  \/ \E j \in DOMAIN gate.queue : u = gate.queue[j] /\ j < k
           \/ u \in Tasks /\ Inside(u)
<1>1. PICK t \in Tasks : t = gate.queue[k]
  BY DEF TypeOK
<1>2. Queued(t)
  BY <1>1 DEF Queued
<1>3. u # None /\ (u \in Ahead(t) \/ u = gate.writer \/ u \in gate.readers)
  BY <1>1, <1>2 DEF Blockers
<1>4. CASE u \in Ahead(t)
  <2>1. PICK j \in DOMAIN gate.queue, i \in DOMAIN gate.queue :
          u = gate.queue[j] /\ gate.queue[i] = t /\ j < i
    BY <1>4 DEF Ahead
  <2>2. i = k
    BY <1>1, <2>1 DEF TypeOK
  <2> QED
    BY <2>1, <2>2
<1>5. CASE u = gate.writer \/ u \in gate.readers
  BY <1>3, <1>5 DEF TypeOK, Inside
<1> QED
  BY <1>3, <1>4, <1>5

(* Who waits for the transaction mutex waits for its owner, who does not. *)
LEMMA TxnWait ==
    ASSUME TypeOK, TasksInv, NEW t \in Tasks, task[t].pc = "txnlock", NEW u \in Blockers(t)
    PROVE  u \in Tasks /\ task[u].pc \in HasTxn
<1>1. ~Queued(t)
  BY DEF TasksInv, GateInv, AtGate
<1>2. u = txnLock /\ u # None
  BY <1>1 DEF Blockers, Wanted
<1>3. u \in Tasks
  BY <1>2 DEF TypeOK
<1> QED
  BY <1>2, <1>3 DEF TasksInv, LockInv, HasTxn

(* In every set of tasks somebody waits for nobody of the set. *)
LEMMA SomebodyMoves ==
    ASSUME TypeOK, TasksInv, NEW S \in SUBSET Tasks, S # {}
    PROVE  \E t \in S : Blockers(t) \cap S = {}
<1>1. CASE \E t \in S : Holder(t)
  BY <1>1, HolderMoves
<1>2. CASE ~(\E t \in S : Holder(t)) /\ \E t \in S : ~Queued(t) /\ task[t].pc # "txnlock"
  BY <1>2, MutexWait
<1>3. CASE \A t \in S : Queued(t) \/ task[t].pc = "txnlock"
  <2>1. ASSUME NEW u \in Tasks, Inside(u) PROVE u \notin S
    <3>1. ~Queued(u) /\ task[u].pc # "txnlock"
      BY <2>1 DEF TasksInv, GateInv, AtGate
    <3> QED
      BY <1>3, <3>1
  <2>2. CASE \E t \in S : Queued(t)
    <3> DEFINE K == {i \in DOMAIN gate.queue : gate.queue[i] \in S}
    <3>1. K \in SUBSET Nat /\ K # {}
      <4>1. gate.queue \in Seq(Tasks)
        BY DEF TasksInv, GateInv
      <4>2. DOMAIN gate.queue \subseteq Nat
        BY <4>1
      <4> QED
        BY <2>2, <4>2 DEF Queued
    <3>2. PICK k \in K : \A i \in K : k <= i
      BY <3>1, LeastNat
    <3>3. ASSUME NEW u \in Blockers(gate.queue[k]), u \in S PROVE FALSE
      <4>1. ~(u \in Tasks /\ Inside(u))
        BY <2>1, <3>3
      <4>2. PICK j \in DOMAIN gate.queue : u = gate.queue[j] /\ j < k
        BY <3>2, <3>3, <4>1, GateWait
      <4>3. j \in K /\ j \in Nat /\ k \in Nat
        BY <3>1, <3>2, <3>3, <4>2
      <4> QED
        BY <3>2, <4>2, <4>3
    <3> QED
      BY <3>2, <3>3
  <2>3. CASE \A t \in S : task[t].pc = "txnlock"
    <3>1. PICK t \in S : task[t].pc = "txnlock"
      BY <2>3
    <3>2. \A u \in Blockers(t) : u \notin S
      BY <2>3, <3>1, TxnWait DEF HasTxn
    <3> QED
      BY <3>2
  <2> QED
    BY <1>3, <2>2, <2>3
<1> QED
  BY <1>1, <1>2, <1>3

(***************************************************************************)
(* DeadlockFree.  No set of tasks ever waits only for each other, for any  *)
(* number of classes and of requests in flight: the order subscription_txn,*)
(* gate, class mutexes, and the rule that nobody who is in the gate queues *)
(* for it again, leave no circular wait.                                   *)
(***************************************************************************)
THEOREM DeadlockFree == Spec => []NoCircularWait
<1>1. TypeOK /\ TasksInv => NoCircularWait
  BY SomebodyMoves DEF NoCircularWait
<1> QED
  BY <1>1, TasksInvariant, PTL

=============================================================================
