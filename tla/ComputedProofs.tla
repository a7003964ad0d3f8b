--------------------------- MODULE ComputedProofs ---------------------------
(***************************************************************************)
(* Proofs about what Decisions computes by recursion: the delays of the    *)
(* automatic recovery, the paths of a configuration, the scores and ranks  *)
(* of nodes and the pool of a manifest.                                    *)
(*                                                                         *)
(* They are by induction.  A theorem that has a predicate as a parameter   *)
(* is of no use to the provers, so the induction principle is stated for   *)
(* sets of numbers; a recursive function exists because one exists on each *)
(* 0..n, by induction on n.                                                *)
(***************************************************************************)
EXTENDS Decisions, WellFoundedInduction, TLAPS

-----------------------------------------------------------------------------
(* Induction.                                                               *)

(* A set with 0 and every successor has all natural numbers. *)
LEMMA Induction ==
    ASSUME NEW S, 0 \in S, \A n \in Nat : n \in S => n + 1 \in S
    PROVE  Nat \subseteq S
  <1> DEFINE T == Nat \ S
             R == OpToRel(<, Nat)
  <1> SUFFICES ASSUME T # {} PROVE FALSE
    OBVIOUS
  <1>1. IsWellFoundedOn(R, Nat)
    BY NatLessThanWellFounded
  <1>2. \A x, y \in Nat : y < x => <<y, x>> \in R
    BY DEF OpToRel
  <1> HIDE DEF R
  <1>3. T \subseteq Nat
    OBVIOUS
  <1> HIDE DEF T
  <1>4. PICK x \in T : \A y \in T : ~(<<y, x>> \in R)
    BY <1>1, <1>3, WFMin
  <1> USE DEF T
  <1>5. x - 1 \in Nat /\ x - 1 < x /\ x - 1 + 1 = x
    OBVIOUS
  <1>6. x - 1 \in S
    BY <1>2, <1>4, <1>5
  <1> QED
    BY <1>5, <1>6

(* A set of numbers that is not empty and bounded has a greatest one. *)
LEMMA Greatest ==
    ASSUME NEW n \in Nat, NEW S \in SUBSET (0..n), S # {}
    PROVE  Max(S) \in S /\ \A m \in S : m <= Max(S)
  <1> DEFINE I == {k \in Nat : \A T \in SUBSET (0..k) : T # {} => \E x \in T : \A y \in T : x >= y}
  <1>1. 0 \in I
    <2> SUFFICES ASSUME NEW T \in SUBSET (0..0), T # {}
                 PROVE  \E x \in T : \A y \in T : x >= y
      OBVIOUS
    <2>1. \A y \in T : y \in 0..0
      OBVIOUS
    <2>2. \A y \in T : y = 0
      BY <2>1
    <2>3. PICK x \in T : TRUE
      OBVIOUS
    <2>4. \A y \in T : x >= y
      BY <2>2
    <2> QED
      BY <2>4
  <1>2. ASSUME NEW k \in Nat, k \in I PROVE k + 1 \in I
    <2> SUFFICES ASSUME NEW T \in SUBSET (0..(k + 1)), T # {}
                 PROVE  \E x \in T : \A y \in T : x >= y
      OBVIOUS
    <2>1. CASE k + 1 \in T
      BY <2>1
    <2>2. CASE k + 1 \notin T
      <3>1. T \in SUBSET (0..k)
        BY <2>2
      <3> QED
        BY <1>2, <3>1
    <2> QED
      BY <2>1, <2>2
  <1> HIDE DEF I
  <1>3. n \in I
    BY <1>1, <1>2, Induction
  <1> USE DEF I
  <1>4. \E x \in S : \A y \in S : x >= y
    BY <1>3
  <1>5. Max(S) \in S /\ \A y \in S : Max(S) >= y
    BY <1>4 DEF Max
  <1> QED
    BY <1>5

-----------------------------------------------------------------------------
(* The backoff of automatic recovery.                                       *)

(* The functions that Delay and PowerOfTwo are values of. *)
IsDoubled(f, n) == f = [k \in 0..n |-> IF k = 0 THEN InitialBackoff ELSE AtMost(2 * f[k - 1], MaxBackoff)]
IsPower(f, n)   == f = [k \in 0..n |-> IF k = 0 THEN 1 ELSE 2 * f[k - 1]]

(* There are such functions. *)
LEMMA DoubledExists ==
    ASSUME NEW n \in Nat
    PROVE  \E f : IsDoubled(f, n)
  <1> DEFINE I == {k \in Nat : \E f : IsDoubled(f, k)}
  <1>1. 0 \in I
    <2>1. IsDoubled([k \in 0..0 |-> InitialBackoff], 0)
      BY DEF IsDoubled
    <2> QED
      BY <2>1
  <1>2. ASSUME NEW m \in Nat, m \in I PROVE m + 1 \in I
    <2>1. PICK f : IsDoubled(f, m)
      BY <1>2
    <2> DEFINE g == [k \in 0..(m + 1) |-> IF k = m + 1 THEN AtMost(2 * f[m], MaxBackoff) ELSE f[k]]
    <2>2. \A k \in 0..(m + 1) : g[k] = IF k = 0 THEN InitialBackoff ELSE AtMost(2 * g[k - 1], MaxBackoff)
      BY <2>1 DEF IsDoubled
    <2>3. IsDoubled(g, m + 1)
      BY <2>2 DEF IsDoubled
    <2> QED
      BY <2>3
  <1> HIDE DEF I
  <1>3. n \in I
    BY <1>1, <1>2, Induction
  <1> QED
    BY <1>3 DEF I

(* There are such functions. *)
LEMMA PowerExists ==
    ASSUME NEW n \in Nat
    PROVE  \E f : IsPower(f, n)
  <1> DEFINE I == {k \in Nat : \E f : IsPower(f, k)}
  <1>1. 0 \in I
    <2>1. IsPower([k \in 0..0 |-> 1], 0)
      BY DEF IsPower
    <2> QED
      BY <2>1
  <1>2. ASSUME NEW m \in Nat, m \in I PROVE m + 1 \in I
    <2>1. PICK f : IsPower(f, m)
      BY <1>2
    <2> DEFINE g == [k \in 0..(m + 1) |-> IF k = m + 1 THEN 2 * f[m] ELSE f[k]]
    <2>2. \A k \in 0..(m + 1) : g[k] = IF k = 0 THEN 1 ELSE 2 * g[k - 1]
      BY <2>1 DEF IsPower
    <2>3. IsPower(g, m + 1)
      BY <2>2 DEF IsPower
    <2> QED
      BY <2>3
  <1> HIDE DEF I
  <1>3. n \in I
    BY <1>1, <1>2, Induction
  <1> QED
    BY <1>3 DEF I

(* The delay after n failures is InitialBackoff doubled n - 1 times, or the cap. *)
LEMMA DelayIsDoubled ==
    ASSUME NEW n \in Nat \ {0}
    PROVE  /\ Delay(n) = AtMost(InitialBackoff * PowerOfTwo(n - 1), MaxBackoff)
           /\ Delay(n) \in 1..MaxBackoff
  <1> USE RecoveryAssumption
  <1> DEFINE f == CHOOSE f : IsDoubled(f, n - 1)
             p == CHOOSE p : IsPower(p, n - 1)
  <1>1. n - 1 \in Nat
    OBVIOUS
  <1>2. IsDoubled(f, n - 1) /\ IsPower(p, n - 1)
    BY <1>1, DoubledExists, PowerExists
  <1>3. Delay(n) = f[n - 1] /\ PowerOfTwo(n - 1) = p[n - 1]
    BY DEF Delay, PowerOfTwo, IsDoubled, IsPower
  <1> HIDE DEF f, p
  <1> DEFINE I == {k \in Nat : k <= n - 1 => /\ p[k] \in Nat \ {0}
                                             /\ f[k] = AtMost(InitialBackoff * p[k], MaxBackoff)
                                             /\ f[k] \in 1..MaxBackoff}
  <1>4. 0 \in I
    BY <1>1, <1>2 DEF IsDoubled, IsPower, AtMost
  <1>5. ASSUME NEW k \in Nat, k \in I PROVE k + 1 \in I
    <2> SUFFICES ASSUME k + 1 <= n - 1
                 PROVE  /\ p[k + 1] \in Nat \ {0}
                        /\ f[k + 1] = AtMost(InitialBackoff * p[k + 1], MaxBackoff)
                        /\ f[k + 1] \in 1..MaxBackoff
      OBVIOUS
    <2>1. p[k + 1] = 2 * p[k] /\ f[k + 1] = AtMost(2 * f[k], MaxBackoff)
      BY <1>1, <1>2 DEF IsDoubled, IsPower
    <2>2. p[k] \in Nat \ {0} /\ f[k] = AtMost(InitialBackoff * p[k], MaxBackoff) /\ f[k] \in 1..MaxBackoff
      BY <1>5
    <2>3. PICK q \in Nat : q = InitialBackoff * p[k] /\ InitialBackoff * p[k + 1] = 2 * q
      BY <2>1, <2>2
    <2> QED
      BY <2>1, <2>2, <2>3 DEF AtMost
  <1> HIDE DEF I
  <1>6. n - 1 \in I
    BY <1>1, <1>4, <1>5, Induction
  <1> QED
    BY <1>3, <1>6 DEF I

(* A recovery that fails begins its delay. *)
LEMMA RecoveryStep == RecoveryInv /\ RecoveryNext => RecoveryInv'
  <1> SUFFICES ASSUME RecoveryInv, RecoveryNext PROVE RecoveryInv'
    OBVIOUS
  <1> USE RecoveryAssumption DEF RecoveryInv
  <1>1. \A n \in Nat \ {0} : Delay(n) \in 1..MaxBackoff
    BY DelayIsDoubled
  <1>2. CASE Later
    BY <1>1, <1>2 DEF Later, AtMost
  <1>3. CASE Install
    BY <1>3 DEF Install
  <1>4. CASE RecordFailure
    <2>1. failures' \in 1..MaxStreak /\ missed' = failures' /\ wait' = Delay(failures') /\ quiet' = 0
      BY <1>4 DEF RecordFailure, AtMost
    <2>2. wait' \in 1..MaxBackoff
      BY <1>1, <2>1
    <2> QED
      BY <2>1, <2>2
  <1>5. CASE UNCHANGED <<failures, wait, quiet, missed>>
    BY <1>5
  <1>6. CASE OtherInstall
    BY <1>3, <1>6 DEF OtherInstall
  <1>7. CASE HealthTick
    BY <1>3, <1>4, <1>5, <1>7 DEF HealthTick, RecoverAfterHealthFailure
  <1> QED
    BY <1>2, <1>6, <1>7 DEF RecoveryNext

(***************************************************************************)
(* RecoveriesSpaced.  For any backoff and cap: after n failed recoveries   *)
(* the next attempt is InitialBackoff * 2^(n-1) later, or MaxBackoff if    *)
(* that is less, and once a path is installed nothing waits                *)
(* (AutoRecoveryBackoff).                                                  *)
(***************************************************************************)
THEOREM RecoveriesSpaced == Spec => BackoffSound
  <1> USE RecoveryAssumption
  <1>1. Init => RecoveryInv
    BY DEF Init, RecoveryInit, RecoveryInv
  <1>2. RecoveryInv /\ [Next]_vars => RecoveryInv'
    <2>1. ASSUME RecoveryInv, UNCHANGED recoveryVars PROVE RecoveryInv'
      BY <2>1 DEF RecoveryInv, recoveryVars
    <2> QED
      BY <2>1, RecoveryStep DEF Next, vars
  <1>3. RecoveryInv /\ [Next]_vars => [RecoveryNext]_recoveryVars
    BY DEF Next, vars
  <1>4. RecoveryInv /\ RecoveryNext =>
          (did' = "failed" /\ missed > 0
              => quiet >= AtMost(InitialBackoff * PowerOfTwo(missed - 1), MaxBackoff))
    <2> SUFFICES ASSUME RecoveryInv, RecoveryNext, did' = "failed", missed > 0
                 PROVE  quiet >= AtMost(InitialBackoff * PowerOfTwo(missed - 1), MaxBackoff)
      OBVIOUS
    <2>1. wait = 0
      BY DEF RecoveryNext, Later, OtherInstall, HealthTick, RecoverAfterHealthFailure, Install
    <2>2. missed \in Nat \ {0} /\ quiet >= Delay(missed)
      BY <2>1 DEF RecoveryInv
    <2> QED
      BY <2>2, DelayIsDoubled
  <1>5. RecoveryInv /\ RecoveryNext => (did' = "waited" => missed > 0 /\ quiet < MaxBackoff)
    <2> SUFFICES ASSUME RecoveryInv, RecoveryNext, did' = "waited"
                 PROVE  missed > 0 /\ quiet < MaxBackoff
      OBVIOUS
    <2>1. wait > 0
      BY DEF RecoveryNext, Later, OtherInstall, HealthTick, RecoverAfterHealthFailure, Install, RecordFailure
    <2>2. missed \in Nat \ {0} /\ quiet + wait = Delay(missed)
      BY <2>1 DEF RecoveryInv
    <2>3. Delay(missed) <= MaxBackoff
      BY <2>2, DelayIsDoubled
    <2> QED
      BY <2>1, <2>2, <2>3 DEF RecoveryInv
  <1>6. Spec => []RecoveryInv
    BY <1>1, <1>2, PTL DEF Spec
  <1>7. RecoveryInv /\ [Next]_vars =>
          [did' = "failed" /\ missed > 0
              => quiet >= AtMost(InitialBackoff * PowerOfTwo(missed - 1), MaxBackoff)]_recoveryVars
    BY <1>3, <1>4
  <1>8. RecoveryInv /\ [Next]_vars => [did' = "waited" => missed > 0 /\ quiet < MaxBackoff]_recoveryVars
    BY <1>3, <1>5
  <1>9. Spec => RetriesSpaced
    BY <1>6, <1>7, PTL DEF Spec, RetriesSpaced
  <1>10. Spec => CleanSlate
    BY <1>6, <1>8, PTL DEF Spec, CleanSlate
  <1> QED
    BY <1>9, <1>10 DEF BackoffSound

-----------------------------------------------------------------------------
(* The pool of a manifest.                                                  *)

(* A set of numbers that is not empty has a least one. *)
LEMMA Least ==
    ASSUME NEW S \in SUBSET Nat, S # {}
    PROVE  \E x \in S : \A y \in S : x <= y
  <1> DEFINE R == OpToRel(<, Nat)
  <1>1. IsWellFoundedOn(R, Nat)
    BY NatLessThanWellFounded
  <1>2. \A x, y \in Nat : y < x => <<y, x>> \in R
    BY DEF OpToRel
  <1> HIDE DEF R
  <1>3. PICK x \in S : \A y \in S : ~(<<y, x>> \in R)
    BY <1>1, WFMin
  <1>4. ASSUME NEW y \in S PROVE x <= y
    <2>1. x \in Nat /\ y \in Nat /\ ~(y < x)
      BY <1>2, <1>3
    <2> QED
      BY <2>1
  <1> QED
    BY <1>4

(* The node that an entry asks for. *)
NodeFor(entry) == [name |-> entry.name, kind |-> entry.kind,
                   plugin |-> IF entry.kind = "ss" THEN entry.plugin ELSE "none"]

(* A step of parse_str_with_logging. *)
AddEntry(pool, entry) == IF NodeOf(entry) = Missing THEN pool ELSE Join(pool, NodeOf(entry))

(* An entry becomes a node if it is usable. *)
LEMMA NodeOfEntry ==
    ASSUME NEW e \in RawProxy
    PROVE  /\ NodeFor(e) \in Node /\ NodeFor(e).name = e.name
           /\ Usable(e) => NodeOf(e) = NodeFor(e) /\ NodeOf(e) # Missing
           /\ ~Usable(e) => NodeOf(e) = Missing
  <1>1. NodeFor(e) \in Node /\ NodeFor(e).name = e.name
    <2>1. e.name \in {Missing} \cup STRING /\ e.kind \in STRING /\ e.plugin \in STRING
      BY DEF RawProxy
    <2> QED
      BY <2>1 DEF NodeFor, Node
  <1>2. Usable(e) => NodeOf(e) = NodeFor(e)
    BY DEF Usable, NodeOf, SsNode, AnytlsNode, NodeFor, RawProxy
  <1>3. ~Usable(e) => NodeOf(e) = Missing
    BY DEF Usable, NodeOf, SsNode, AnytlsNode, RawProxy
  <1> QED
    BY <1>1, <1>2, <1>3, MissingAssumption

(* The names of the pool are those of all usable entries. *)
LEMMA PoolNames ==
    ASSUME NEW P \in Seq(Node), NEW A \in Seq(RawProxy), PoolOf(P, A), NEW x
    PROVE  x \in NamesIn(P) <=> \E i \in DOMAIN A : Usable(A[i]) /\ A[i].name = x
  <1>1. PICK at \in [DOMAIN P -> FirstUsable(A)] :
          /\ \A i \in FirstUsable(A) : \E n \in DOMAIN P : at[n] = i
          /\ \A n \in DOMAIN P : P[n] = NodeFor(A[at[n]])
    BY DEF PoolOf, NodeFor
  <1>2. \A n \in DOMAIN P : at[n] \in DOMAIN A /\ Usable(A[at[n]]) /\ P[n].name = A[at[n]].name
    BY <1>1, NodeOfEntry DEF FirstUsable
  <1>3. ASSUME NEW i \in DOMAIN A, Usable(A[i]), A[i].name = x PROVE x \in NamesIn(P)
    <2> DEFINE S == {j \in DOMAIN A : Usable(A[j]) /\ A[j].name = x}
    <2>1. S \in SUBSET Nat /\ S # {}
      BY <1>3
    <2>2. PICK j \in S : \A y \in S : j <= y
      BY <2>1, Least
    <2>3. j \in FirstUsable(A)
      BY <2>2 DEF FirstUsable
    <2>4. PICK n \in DOMAIN P : at[n] = j
      BY <1>1, <2>3
    <2> QED
      BY <1>2, <2>2, <2>4 DEF NamesIn
  <1> QED
    BY <1>2, <1>3 DEF NamesIn

(* One more entry. *)
LEMMA PoolExtends ==
    ASSUME NEW P \in Seq(Node), NEW A \in Seq(RawProxy), PoolOf(P, A), NEW e \in RawProxy
    PROVE  AddEntry(P, e) \in Seq(Node) /\ PoolOf(AddEntry(P, e), Append(A, e))
  <1> DEFINE B == Append(A, e)
             l == Len(A) + 1
  <1>1. PICK at \in [DOMAIN P -> FirstUsable(A)] :
          /\ \A m, n \in DOMAIN P : m < n => at[m] < at[n]
          /\ \A i \in FirstUsable(A) : \E n \in DOMAIN P : at[n] = i
          /\ \A n \in DOMAIN P : P[n] = NodeFor(A[at[n]])
    BY DEF PoolOf, NodeFor
  <1>2. /\ B \in Seq(RawProxy) /\ Len(B) = l /\ B[l] = e /\ l \in Nat
        /\ \A i \in DOMAIN A : i \in 1..Len(A) /\ B[i] = A[i] /\ i < l /\ i \in Nat
        /\ DOMAIN B = DOMAIN A \cup {l} /\ l \notin DOMAIN A
    OBVIOUS
  <1>3. \A i \in DOMAIN A : i \in FirstUsable(B) <=> i \in FirstUsable(A)
    <2> SUFFICES ASSUME NEW i \in DOMAIN A PROVE i \in FirstUsable(B) <=> i \in FirstUsable(A)
      OBVIOUS
    <2>1. \A j \in 1..(i - 1) : j \in DOMAIN A
      OBVIOUS
    <2> HIDE DEF B
    <2> QED
      BY <1>2, <2>1 DEF FirstUsable
  <1>4. l \in FirstUsable(B) <=> Usable(e) /\ e.name \notin NamesIn(P)
    <2>1. \A j : j \in 1..(l - 1) <=> j \in DOMAIN A
      OBVIOUS
    <2>2. l \in FirstUsable(B) <=> Usable(e) /\ \A j \in DOMAIN A : Usable(A[j]) => A[j].name # e.name
      <3> HIDE DEF B, l
      <3> QED
        BY <1>2, <2>1 DEF FirstUsable
    <2> QED
      BY <2>2, PoolNames
  <1>5. FirstUsable(B) \subseteq DOMAIN A \cup {l} /\ FirstUsable(A) \subseteq DOMAIN A
    BY <1>2 DEF FirstUsable
  <1>6. CASE Usable(e) /\ e.name \notin NamesIn(P)
    <2>1. AddEntry(P, e) = Append(P, NodeFor(e))
      BY <1>6, NodeOfEntry DEF AddEntry, Join
    <2> DEFINE Q == Append(P, NodeFor(e))
               k == Len(P) + 1
               f == [n \in DOMAIN Q |-> IF n = k THEN l ELSE at[n]]
    <2>2. /\ Q \in Seq(Node) /\ Q[k] = NodeFor(e) /\ k \in Nat
          /\ \A n \in DOMAIN P : Q[n] = P[n] /\ n < k /\ n \in Nat
          /\ DOMAIN Q = DOMAIN P \cup {k} /\ k \notin DOMAIN P
      BY NodeOfEntry
    <2>3. f[k] = l /\ \A n \in DOMAIN P : f[n] = at[n]
      BY <2>2
    <2>4. FirstUsable(B) = FirstUsable(A) \cup {l}
      BY <1>2, <1>3, <1>4, <1>5, <1>6
    <2> HIDE DEF Q, k, l, B
    <2>5. f \in [DOMAIN Q -> FirstUsable(B)]
      BY <2>2, <2>4
    <2> HIDE DEF f
    <2>6. \A n \in DOMAIN P : at[n] \in DOMAIN A
      BY <1>1, <1>5
    <2>7. \A m, n \in DOMAIN Q : m < n => f[m] < f[n]
      BY <1>1, <1>2, <2>2, <2>3, <2>6
    <2>8. \A i \in FirstUsable(B) : \E n \in DOMAIN Q : f[n] = i
      BY <1>1, <2>2, <2>3, <2>4
    <2>9. \A n \in DOMAIN Q : Q[n] = NodeFor(B[f[n]])
      BY <1>1, <1>2, <2>2, <2>3, <2>6
    <2>10. PoolOf(Q, B)
      BY <2>5, <2>7, <2>8, <2>9 DEF PoolOf, NodeFor
    <2> QED
      BY <2>1, <2>2, <2>10 DEF Q, B
  <1>7. CASE ~(Usable(e) /\ e.name \notin NamesIn(P))
    <2>1. AddEntry(P, e) = P
      BY <1>7, NodeOfEntry DEF AddEntry, Join
    <2>2. FirstUsable(B) = FirstUsable(A)
      BY <1>2, <1>3, <1>4, <1>5, <1>7
    <2> HIDE DEF B
    <2>3. \A n \in DOMAIN P : P[n] = NodeFor(B[at[n]])
      BY <1>1, <1>2, <1>5
    <2>4. at \in [DOMAIN P -> FirstUsable(B)] /\ \A i \in FirstUsable(B) : \E n \in DOMAIN P : at[n] = i
      BY <1>1, <2>2
    <2>5. PoolOf(P, B)
      BY <1>1, <2>3, <2>4 DEF PoolOf, NodeFor
    <2> QED
      BY <2>1, <2>5 DEF B
  <1> QED
    BY <1>6, <1>7

(* A step of Listed. *)
AddFile(all, file) == IF file = Unreadable THEN all ELSE all \o file

(* The functions that ParseStr, JoinAll, LoadAll and Listed are values of. *)
IsParsed(g, entries, n) ==
    g = [k \in 0..n |-> IF k = 0 THEN <<>> ELSE AddEntry(g[k - 1], entries[k])]

IsJoined(g, pool, nodes, n) ==
    g = [k \in 0..n |-> IF k = 0 THEN pool ELSE Join(g[k - 1], nodes[k])]

IsLoaded(g, files, n) ==
    g = [k \in 0..n |-> IF k = 0 THEN <<>> ELSE (IF files[k] = Unreadable THEN g[k - 1] ELSE JoinAll(g[k - 1], ParseStr(files[k])))]

IsListed(g, files, n) ==
    g = [k \in 0..n |-> IF k = 0 THEN <<>> ELSE AddFile(g[k - 1], files[k])]

(* There are such functions. *)
LEMMA ParsedExists ==
    ASSUME NEW entries, NEW n \in Nat
    PROVE  \E g : IsParsed(g, entries, n)
  <1> DEFINE I == {k \in Nat : \E g : IsParsed(g, entries, k)}
  <1>1. 0 \in I
    <2>1. IsParsed([k \in 0..0 |-> <<>>], entries, 0)
      BY DEF IsParsed
    <2> QED
      BY <2>1
  <1>2. ASSUME NEW m \in Nat, m \in I PROVE m + 1 \in I
    <2>1. PICK g : IsParsed(g, entries, m)
      BY <1>2
    <2> DEFINE h == [k \in 0..(m + 1) |-> IF k = m + 1 THEN AddEntry(g[m], entries[(m + 1)]) ELSE g[k]]
    <2>2. \A k \in 0..(m + 1) : h[k] = IF k = 0 THEN <<>> ELSE AddEntry(h[k - 1], entries[k])
      BY <2>1 DEF IsParsed
    <2>3. IsParsed(h, entries, m + 1)
      BY <2>2 DEF IsParsed
    <2> QED
      BY <2>3
  <1> HIDE DEF I
  <1>3. n \in I
    BY <1>1, <1>2, Induction
  <1> QED
    BY <1>3 DEF I

(* There are such functions. *)
LEMMA JoinedExists ==
    ASSUME NEW pool, NEW nodes, NEW n \in Nat
    PROVE  \E g : IsJoined(g, pool, nodes, n)
  <1> DEFINE I == {k \in Nat : \E g : IsJoined(g, pool, nodes, k)}
  <1>1. 0 \in I
    <2>1. IsJoined([k \in 0..0 |-> pool], pool, nodes, 0)
      BY DEF IsJoined
    <2> QED
      BY <2>1
  <1>2. ASSUME NEW m \in Nat, m \in I PROVE m + 1 \in I
    <2>1. PICK g : IsJoined(g, pool, nodes, m)
      BY <1>2
    <2> DEFINE h == [k \in 0..(m + 1) |-> IF k = m + 1 THEN Join(g[m], nodes[(m + 1)]) ELSE g[k]]
    <2>2. \A k \in 0..(m + 1) : h[k] = IF k = 0 THEN pool ELSE Join(h[k - 1], nodes[k])
      BY <2>1 DEF IsJoined
    <2>3. IsJoined(h, pool, nodes, m + 1)
      BY <2>2 DEF IsJoined
    <2> QED
      BY <2>3
  <1> HIDE DEF I
  <1>3. n \in I
    BY <1>1, <1>2, Induction
  <1> QED
    BY <1>3 DEF I

(* There are such functions. *)
LEMMA LoadedExists ==
    ASSUME NEW files, NEW n \in Nat
    PROVE  \E g : IsLoaded(g, files, n)
  <1> DEFINE I == {k \in Nat : \E g : IsLoaded(g, files, k)}
  <1>1. 0 \in I
    <2>1. IsLoaded([k \in 0..0 |-> <<>>], files, 0)
      BY DEF IsLoaded
    <2> QED
      BY <2>1
  <1>2. ASSUME NEW m \in Nat, m \in I PROVE m + 1 \in I
    <2>1. PICK g : IsLoaded(g, files, m)
      BY <1>2
    <2> DEFINE h == [k \in 0..(m + 1) |-> IF k = m + 1 THEN (IF files[(m + 1)] = Unreadable THEN g[m] ELSE JoinAll(g[m], ParseStr(files[(m + 1)]))) ELSE g[k]]
    <2>2. \A k \in 0..(m + 1) : h[k] = IF k = 0 THEN <<>> ELSE (IF files[k] = Unreadable THEN h[k - 1] ELSE JoinAll(h[k - 1], ParseStr(files[k])))
      BY <2>1 DEF IsLoaded
    <2>3. IsLoaded(h, files, m + 1)
      BY <2>2 DEF IsLoaded
    <2> QED
      BY <2>3
  <1> HIDE DEF I
  <1>3. n \in I
    BY <1>1, <1>2, Induction
  <1> QED
    BY <1>3 DEF I

(* There are such functions. *)
LEMMA ListedExists ==
    ASSUME NEW files, NEW n \in Nat
    PROVE  \E g : IsListed(g, files, n)
  <1> DEFINE I == {k \in Nat : \E g : IsListed(g, files, k)}
  <1>1. 0 \in I
    <2>1. IsListed([k \in 0..0 |-> <<>>], files, 0)
      BY DEF IsListed
    <2> QED
      BY <2>1
  <1>2. ASSUME NEW m \in Nat, m \in I PROVE m + 1 \in I
    <2>1. PICK g : IsListed(g, files, m)
      BY <1>2
    <2> DEFINE h == [k \in 0..(m + 1) |-> IF k = m + 1 THEN AddFile(g[m], files[(m + 1)]) ELSE g[k]]
    <2>2. \A k \in 0..(m + 1) : h[k] = IF k = 0 THEN <<>> ELSE AddFile(h[k - 1], files[k])
      BY <2>1 DEF IsListed
    <2>3. IsListed(h, files, m + 1)
      BY <2>2 DEF IsListed
    <2> QED
      BY <2>3
  <1> HIDE DEF I
  <1>3. n \in I
    BY <1>1, <1>2, Induction
  <1> QED
    BY <1>3 DEF I

(* Nothing joins. *)
LEMMA JoinAllNone ==
    ASSUME NEW P
    PROVE  JoinAll(P, <<>>) = P
  <1> DEFINE e == CHOOSE f : IsJoined(f, P, <<>>, 0)
  <1>1. IsJoined(e, P, <<>>, 0)
    BY JoinedExists
  <1>2. JoinAll(P, <<>>) = e[0]
    BY DEF JoinAll, IsJoined
  <1> QED
    BY <1>1, <1>2 DEF IsJoined

(* The nodes that join come one after the other. *)
LEMMA JoinAllAppend ==
    ASSUME NEW P, NEW Q \in Seq(Node), NEW x \in Node
    PROVE  JoinAll(P, Append(Q, x)) = Join(JoinAll(P, Q), x)
  <1> DEFINE R == Append(Q, x)
             l == Len(Q)
             g == CHOOSE f : IsJoined(f, P, Q, l)
             h == CHOOSE f : IsJoined(f, P, R, l + 1)
  <1>1. l \in Nat /\ Len(R) = l + 1 /\ R[l + 1] = x /\ \A k \in 1..l : R[k] = Q[k]
    OBVIOUS
  <1>2. IsJoined(g, P, Q, l) /\ IsJoined(h, P, R, l + 1)
    <2>1. l \in Nat /\ l + 1 \in Nat
      BY <1>1
    <2> HIDE DEF l, R
    <2>2. \E f : IsJoined(f, P, Q, l)
      BY <2>1, JoinedExists
    <2>3. \E f : IsJoined(f, P, R, l + 1)
      BY <2>1, JoinedExists
    <2> QED
      BY <2>2, <2>3
  <1>3. JoinAll(P, Q) = g[l]
    BY DEF JoinAll, IsJoined
  <1>4. JoinAll(P, R) = h[l + 1]
    <2> DEFINE m == Len(R)
               u == CHOOSE f : IsJoined(f, P, R, m)
    <2>1. JoinAll(P, R) = u[m]
      BY DEF JoinAll, IsJoined
    <2> QED
      BY <1>1, <2>1
  <1> HIDE DEF R, l, g, h
  <1> DEFINE I == {k \in Nat : k <= l => h[k] = g[k]}
  <1>5. 0 \in I
    BY <1>1, <1>2 DEF IsJoined
  <1>6. ASSUME NEW k \in Nat, k \in I PROVE k + 1 \in I
    <2> SUFFICES ASSUME k + 1 <= l PROVE h[k + 1] = g[k + 1]
      OBVIOUS
    <2>1. h[k + 1] = Join(h[k], R[k + 1]) /\ g[k + 1] = Join(g[k], Q[k + 1])
      BY <1>1, <1>2 DEF IsJoined
    <2> QED
      BY <1>1, <1>6, <2>1
  <1> HIDE DEF I
  <1>7. l \in I
    BY <1>1, <1>5, <1>6, Induction
  <1>8. h[l] = g[l]
    BY <1>1, <1>7 DEF I
  <1>9. h[l + 1] = Join(h[l], R[l + 1])
    BY <1>1, <1>2 DEF IsJoined
  <1> QED
    BY <1>1, <1>3, <1>4, <1>8, <1>9 DEF R

(* The name of a node that joins is taken afterwards. *)
LEMMA JoinNames ==
    ASSUME NEW P \in Seq(Node), NEW x \in Node
    PROVE  Join(P, x) \in Seq(Node) /\ NamesIn(Join(P, x)) = NamesIn(P) \cup {x.name}
  <1>1. CASE x.name \in NamesIn(P)
    BY <1>1 DEF Join
  <1>2. CASE x.name \notin NamesIn(P)
    <2>1. Join(P, x) = Append(P, x)
      BY <1>2 DEF Join
    <2>2. /\ DOMAIN Append(P, x) = DOMAIN P \cup {Len(P) + 1}
          /\ Append(P, x)[Len(P) + 1] = x
          /\ \A i \in DOMAIN P : Append(P, x)[i] = P[i]
      OBVIOUS
    <2> QED
      BY <2>1, <2>2 DEF NamesIn
  <1> QED
    BY <1>1, <1>2

(* One more file: its own pool joins as its entries would. *)
LEMMA FileExtends ==
    ASSUME NEW P \in Seq(Node), NEW A \in Seq(RawProxy), PoolOf(P, A), NEW entries \in Seq(RawProxy)
    PROVE  JoinAll(P, ParseStr(entries)) \in Seq(Node) /\ PoolOf(JoinAll(P, ParseStr(entries)), A \o entries)
  <1> DEFINE l == Len(entries)
             g == CHOOSE f : IsParsed(f, entries, l)
             upto(k) == A \o SubSeq(entries, 1, k)
  <1>1. l \in Nat /\ IsParsed(g, entries, l)
    <2>1. l \in Nat
      OBVIOUS
    <2> HIDE DEF l
    <2>2. \E f : IsParsed(f, entries, l)
      BY <2>1, ParsedExists
    <2> QED
      BY <2>1, <2>2
  <1>2. ParseStr(entries) = g[l]
    BY DEF ParseStr, IsParsed, AddEntry
  <1>3. upto(0) = A /\ upto(l) = A \o entries
    OBVIOUS
  <1>4. \A k \in 0..l : upto(k) \in Seq(RawProxy)
    OBVIOUS
  <1>5. \A k \in Nat : k + 1 <= l => entries[k + 1] \in RawProxy /\ upto(k + 1) = Append(upto(k), entries[k + 1])
    OBVIOUS
  <1> HIDE DEF g, l, upto
  <1> DEFINE I == {k \in Nat : k <= l => /\ g[k] \in Seq(Node) /\ JoinAll(P, g[k]) \in Seq(Node)
                                         /\ PoolOf(JoinAll(P, g[k]), upto(k))
                                         /\ NamesIn(g[k]) \subseteq NamesIn(JoinAll(P, g[k]))}
  <1>6. 0 \in I
    <2>1. g[0] = <<>>
      BY <1>1 DEF IsParsed
    <2>2. <<>> \in Seq(Node) /\ NamesIn(<<>>) = {}
      BY DEF NamesIn
    <2> QED
      BY <1>3, <2>1, <2>2, JoinAllNone
  <1>7. ASSUME NEW k \in Nat, k \in I PROVE k + 1 \in I
    <2> DEFINE D == JoinAll(P, g[k])
               e == entries[k + 1]
    <2> SUFFICES ASSUME k + 1 <= l
                 PROVE  /\ g[k + 1] \in Seq(Node) /\ JoinAll(P, g[k + 1]) \in Seq(Node)
                        /\ PoolOf(JoinAll(P, g[k + 1]), upto(k + 1))
                        /\ NamesIn(g[k + 1]) \subseteq NamesIn(JoinAll(P, g[k + 1]))
      OBVIOUS
    <2>1. g[k + 1] = AddEntry(g[k], e)
      BY <1>1 DEF IsParsed
    <2>2. g[k] \in Seq(Node) /\ D \in Seq(Node) /\ PoolOf(D, upto(k)) /\ NamesIn(g[k]) \subseteq NamesIn(D)
      BY <1>1, <1>7
    <2>3. e \in RawProxy /\ upto(k + 1) = Append(upto(k), e) /\ upto(k) \in Seq(RawProxy)
      BY <1>1, <1>4, <1>5
    <2> HIDE DEF D, e
    <2>4. AddEntry(D, e) \in Seq(Node) /\ PoolOf(AddEntry(D, e), upto(k + 1))
      BY <2>2, <2>3, PoolExtends
    <2>5. /\ g[k + 1] \in Seq(Node) /\ JoinAll(P, g[k + 1]) = AddEntry(D, e)
          /\ NamesIn(g[k + 1]) \subseteq NamesIn(AddEntry(D, e))
      <3>1. CASE NodeOf(e) = Missing
        BY <2>1, <2>2, <3>1 DEF AddEntry, D
      <3>2. CASE NodeOf(e) # Missing
        <4> DEFINE x == NodeOf(e)
        <4>1. x \in Node
          BY <2>3, <3>2, NodeOfEntry
        <4>2. g[k + 1] = Join(g[k], x) /\ AddEntry(D, e) = Join(D, x)
          BY <2>1, <3>2 DEF AddEntry
        <4> HIDE DEF x
        <4>3. g[k + 1] \in Seq(Node) /\ NamesIn(g[k + 1]) \subseteq NamesIn(Join(D, x))
          BY <2>2, <4>1, <4>2, JoinNames
        <4>4. CASE x.name \in NamesIn(g[k])
          BY <2>2, <4>2, <4>3, <4>4 DEF Join, D
        <4>5. CASE x.name \notin NamesIn(g[k])
          <5>1. g[k + 1] = Append(g[k], x)
            BY <4>2, <4>5 DEF Join
          <5> QED
            BY <2>2, <4>1, <4>2, <4>3, <5>1, JoinAllAppend DEF D
        <4> QED
          BY <4>4, <4>5
      <3> QED
        BY <3>1, <3>2
    <2> QED
      BY <2>4, <2>5
  <1> HIDE DEF I
  <1>8. l \in I
    BY <1>1, <1>6, <1>7, Induction
  <1>9. JoinAll(P, g[l]) \in Seq(Node) /\ PoolOf(JoinAll(P, g[l]), upto(l))
    BY <1>1, <1>8 DEF I
  <1> QED
    BY <1>2, <1>3, <1>9

(* The pool of all files that can be read. *)
LEMMA PoolOfFiles ==
    ASSUME NEW files \in Manifests
    PROVE  PoolOf(LoadAll(files), Listed(files))
  <1> DEFINE l == Len(files)
             g == CHOOSE f : IsLoaded(f, files, l)
             h == CHOOSE f : IsListed(f, files, l)
  <1>1. l \in Nat /\ \A k \in 1..l : files[k] \in {Unreadable} \cup Seq(RawProxy)
    BY ManifestsAssumption
  <1>2. LoadAll(files) = g[l] /\ Listed(files) = h[l]
    BY DEF LoadAll, Listed, IsLoaded, IsListed, AddFile
  <1> HIDE DEF l
  <1>3. IsLoaded(g, files, l) /\ IsListed(h, files, l)
    <2>1. \E f : IsLoaded(f, files, l)
      BY <1>1, LoadedExists
    <2>2. \E f : IsListed(f, files, l)
      BY <1>1, ListedExists
    <2> QED
      BY <2>1, <2>2
  <1> HIDE DEF g, h
  <1> DEFINE I == {k \in Nat : k <= l => g[k] \in Seq(Node) /\ h[k] \in Seq(RawProxy) /\ PoolOf(g[k], h[k])}
  <1>4. 0 \in I
    <2>1. g[0] = <<>> /\ h[0] = <<>>
      BY <1>1, <1>3 DEF IsLoaded, IsListed
    <2>2. DOMAIN <<>> = {} /\ FirstUsable(<<>>) = {}
      BY DEF FirstUsable
    <2> DEFINE at == [n \in {} |-> 0]
    <2>3. at \in [DOMAIN <<>> -> FirstUsable(<<>>)]
      BY <2>2
    <2>4. PoolOf(<<>>, <<>>)
      BY <2>2, <2>3 DEF PoolOf
    <2>5. <<>> \in Seq(Node) /\ <<>> \in Seq(RawProxy)
      OBVIOUS
    <2>6. g[0] \in Seq(Node) /\ h[0] \in Seq(RawProxy) /\ PoolOf(g[0], h[0])
      BY <2>1, <2>4, <2>5
    <2> QED
      BY <2>6
  <1>5. ASSUME NEW k \in Nat, k \in I PROVE k + 1 \in I
    <2> DEFINE file == files[k + 1]
    <2> SUFFICES ASSUME k + 1 <= l
                 PROVE  g[k + 1] \in Seq(Node) /\ h[k + 1] \in Seq(RawProxy) /\ PoolOf(g[k + 1], h[k + 1])
      OBVIOUS
    <2>1. /\ g[k + 1] = IF file = Unreadable THEN g[k] ELSE JoinAll(g[k], ParseStr(file))
          /\ h[k + 1] = AddFile(h[k], file)
      BY <1>1, <1>3 DEF IsLoaded, IsListed
    <2>2. g[k] \in Seq(Node) /\ h[k] \in Seq(RawProxy) /\ PoolOf(g[k], h[k])
      BY <1>1, <1>5
    <2>3. file \in {Unreadable} \cup Seq(RawProxy)
      BY <1>1
    <2> HIDE DEF file
    <2>4. CASE file = Unreadable
      BY <2>1, <2>2, <2>4 DEF AddFile
    <2>5. CASE file # Unreadable
      <3>1. file \in Seq(RawProxy) /\ h[k + 1] = h[k] \o file /\ g[k + 1] = JoinAll(g[k], ParseStr(file))
        BY <2>1, <2>3, <2>5 DEF AddFile
      <3>2. h[k + 1] \in Seq(RawProxy)
        BY <2>2, <3>1
      <3> QED
        BY <2>2, <3>1, <3>2, FileExtends
    <2> QED
      BY <2>4, <2>5
  <1> HIDE DEF I
  <1>6. l \in I
    BY <1>1, <1>4, <1>5, Induction
  <1> QED
    BY <1>1, <1>2, <1>6 DEF I

(* What a behaviour is about does not change. *)
LEMMA InputStays == Spec => [](input \in Inputs)
  <1>1. Init => input \in Inputs
    BY DEF Init
  <1>2. input \in Inputs /\ [Next]_vars => (input \in Inputs)'
    BY DEF Next, vars
  <1> QED
    BY <1>1, <1>2, PTL DEF Spec

(***************************************************************************)
(* PoolsComplete.  For manifests of any length and number: no entry that   *)
(* is malformed, of another protocol or with an unknown plugin, and no     *)
(* unreadable file, adds, removes or shadows a node, and of each name the  *)
(* first usable entry is the one that is used (parse_str_with_logging,     *)
(* load_all).                                                              *)
(***************************************************************************)
THEOREM PoolsComplete == Spec => []PoolIsFirstUsable
  <1>1. input \in Inputs => PoolIsFirstUsable
    <2> SUFFICES ASSUME input \in Inputs, input.kind = "manifest"
                 PROVE  PoolOf(LoadAll(input.files), Listed(input.files))
      BY DEF PoolIsFirstUsable
    <2>1. input.files \in Manifests
      BY DEF Inputs
    <2> QED
      BY <2>1, PoolOfFiles
  <1> QED
    BY <1>1, InputStays, PTL

-----------------------------------------------------------------------------
(* Scores.                                                                  *)

(* A larger factor makes no smaller product. *)
LEMMA TimesMonotone ==
    ASSUME NEW k \in Nat, NEW a \in Int, NEW b \in Int, a <= b
    PROVE  k * a <= k * b
  <1> DEFINE I == {n \in Nat : n * a <= n * b}
  <1>1. 0 \in I
    OBVIOUS
  <1>2. ASSUME NEW n \in Nat, n \in I PROVE n + 1 \in I
    <2>1. (n + 1) * a = n * a + a /\ (n + 1) * b = n * b + b /\ n * a \in Int /\ n * b \in Int
      OBVIOUS
    <2> QED
      BY <1>2, <2>1
  <1> HIDE DEF I
  <1>3. k \in I
    BY <1>1, <1>2, Induction
  <1> QED
    BY <1>3 DEF I

(* A moving average is no more than both of its operands. *)
LEMMA BlendBounded ==
    ASSUME NEW s \in Nat, NEW x \in Nat, NEW m \in Nat, s <= m, x <= m
    PROVE  Blend(s, x) \in Nat /\ Blend(s, x) <= m
  <1> USE ScoringAssumption
  <1> DEFINE a == Alpha * s
             b == (10 - Alpha) * x
  <1>1. a \in Nat /\ b \in Nat
    OBVIOUS
  <1>2. a + b <= 10 * m
    <2>1. Alpha * s <= Alpha * m /\ (10 - Alpha) * x <= (10 - Alpha) * m
      BY TimesMonotone
    <2>2. Alpha * m + (10 - Alpha) * m = 10 * m
      OBVIOUS
    <2> QED
      BY <1>1, <2>1, <2>2
  <1>3. Blend(s, x) = (a + b) \div 10
    BY DEF Blend
  <1> HIDE DEF a, b
  <1> QED
    BY <1>1, <1>2, <1>3

(* A moving average is a number. *)
LEMMA BlendTyped ==
    ASSUME NEW s \in Nat, NEW x \in Nat
    PROVE  Blend(s, x) \in Nat
  <1> DEFINE m == IF s > x THEN s ELSE x
  <1>1. m \in Nat /\ s <= m /\ x <= m
    OBVIOUS
  <1> HIDE DEF m
  <1> QED
    BY <1>1, BlendBounded

(* A success rate stays one. *)
LEMMA BlendRate ==
    ASSUME NEW x \in Nat, x <= Scale
    PROVE  Blend(Scale, x) \in 0..Scale /\ Blend(0, x) \in 0..Scale
  <1>1. Scale \in Nat /\ 0 <= Scale /\ Scale <= Scale /\ 0 \in Nat
    BY ScoringAssumption
  <1>2. Blend(Scale, x) \in Nat /\ Blend(Scale, x) <= Scale
    BY <1>1, BlendBounded
  <1>3. Blend(0, x) \in Nat /\ Blend(0, x) <= Scale
    BY <1>1, BlendBounded
  <1> QED
    BY <1>1, <1>2, <1>3

(* A moving average grows with the old value. *)
LEMMA BlendMonotone ==
    ASSUME NEW s \in Nat, NEW x \in Nat, NEW y \in Nat, x <= y
    PROVE  Blend(s, x) <= Blend(s, y)
  <1> USE ScoringAssumption
  <1> DEFINE a == Alpha * s
             b == (10 - Alpha) * x
             c == (10 - Alpha) * y
  <1>1. a \in Nat /\ b \in Nat /\ c \in Nat
    OBVIOUS
  <1>2. b <= c
    BY TimesMonotone
  <1>3. Blend(s, x) = (a + b) \div 10 /\ Blend(s, y) = (a + c) \div 10
    BY DEF Blend
  <1> HIDE DEF a, b, c
  <1> QED
    BY <1>1, <1>2, <1>3

(* The functions that Risen, Faded, StatsOf and RankedCandidates are values of. *)
IsRisen(g, n) ==
    g = [k \in 0..n |-> IF k = 0 THEN 0 ELSE Blend(Scale, g[k - 1])]

IsFaded(g, n) ==
    g = [k \in 0..n |-> IF k = 0 THEN Scale ELSE Blend(0, g[k - 1])]

IsStats(g, history, n) ==
    g = [k \in 0..n |-> IF k = 0 THEN Unprobed ELSE RecordProbe(g[k - 1], history[k])]

IsRanked(g, pool, n) ==
    g = [k \in 0..n |-> IF k = 0 THEN <<>> ELSE (IF IsProbed(pool[k]) THEN InsertRanked(g[k - 1], pool[k]) ELSE g[k - 1])]

(* There are such functions. *)
LEMMA RisenExists ==
    ASSUME NEW n \in Nat
    PROVE  \E g : IsRisen(g, n)
  <1> DEFINE I == {k \in Nat : \E g : IsRisen(g, k)}
  <1>1. 0 \in I
    <2>1. IsRisen([k \in 0..0 |-> 0], 0)
      BY DEF IsRisen
    <2> QED
      BY <2>1
  <1>2. ASSUME NEW m \in Nat, m \in I PROVE m + 1 \in I
    <2>1. PICK g : IsRisen(g, m)
      BY <1>2
    <2> DEFINE h == [k \in 0..(m + 1) |-> IF k = m + 1 THEN Blend(Scale, g[m]) ELSE g[k]]
    <2>2. \A k \in 0..(m + 1) : h[k] = IF k = 0 THEN 0 ELSE Blend(Scale, h[k - 1])
      BY <2>1 DEF IsRisen
    <2>3. IsRisen(h, m + 1)
      BY <2>2 DEF IsRisen
    <2> QED
      BY <2>3
  <1> HIDE DEF I
  <1>3. n \in I
    BY <1>1, <1>2, Induction
  <1> QED
    BY <1>3 DEF I

(* There are such functions. *)
LEMMA FadedExists ==
    ASSUME NEW n \in Nat
    PROVE  \E g : IsFaded(g, n)
  <1> DEFINE I == {k \in Nat : \E g : IsFaded(g, k)}
  <1>1. 0 \in I
    <2>1. IsFaded([k \in 0..0 |-> Scale], 0)
      BY DEF IsFaded
    <2> QED
      BY <2>1
  <1>2. ASSUME NEW m \in Nat, m \in I PROVE m + 1 \in I
    <2>1. PICK g : IsFaded(g, m)
      BY <1>2
    <2> DEFINE h == [k \in 0..(m + 1) |-> IF k = m + 1 THEN Blend(0, g[m]) ELSE g[k]]
    <2>2. \A k \in 0..(m + 1) : h[k] = IF k = 0 THEN Scale ELSE Blend(0, h[k - 1])
      BY <2>1 DEF IsFaded
    <2>3. IsFaded(h, m + 1)
      BY <2>2 DEF IsFaded
    <2> QED
      BY <2>3
  <1> HIDE DEF I
  <1>3. n \in I
    BY <1>1, <1>2, Induction
  <1> QED
    BY <1>3 DEF I

(* There are such functions. *)
LEMMA StatsExist ==
    ASSUME NEW history, NEW n \in Nat
    PROVE  \E g : IsStats(g, history, n)
  <1> DEFINE I == {k \in Nat : \E g : IsStats(g, history, k)}
  <1>1. 0 \in I
    <2>1. IsStats([k \in 0..0 |-> Unprobed], history, 0)
      BY DEF IsStats
    <2> QED
      BY <2>1
  <1>2. ASSUME NEW m \in Nat, m \in I PROVE m + 1 \in I
    <2>1. PICK g : IsStats(g, history, m)
      BY <1>2
    <2> DEFINE h == [k \in 0..(m + 1) |-> IF k = m + 1 THEN RecordProbe(g[m], history[(m + 1)]) ELSE g[k]]
    <2>2. \A k \in 0..(m + 1) : h[k] = IF k = 0 THEN Unprobed ELSE RecordProbe(h[k - 1], history[k])
      BY <2>1 DEF IsStats
    <2>3. IsStats(h, history, m + 1)
      BY <2>2 DEF IsStats
    <2> QED
      BY <2>3
  <1> HIDE DEF I
  <1>3. n \in I
    BY <1>1, <1>2, Induction
  <1> QED
    BY <1>3 DEF I

(* There are such functions. *)
LEMMA RankedExists ==
    ASSUME NEW pool, NEW n \in Nat
    PROVE  \E g : IsRanked(g, pool, n)
  <1> DEFINE I == {k \in Nat : \E g : IsRanked(g, pool, k)}
  <1>1. 0 \in I
    <2>1. IsRanked([k \in 0..0 |-> <<>>], pool, 0)
      BY DEF IsRanked
    <2> QED
      BY <2>1
  <1>2. ASSUME NEW m \in Nat, m \in I PROVE m + 1 \in I
    <2>1. PICK g : IsRanked(g, pool, m)
      BY <1>2
    <2> DEFINE h == [k \in 0..(m + 1) |-> IF k = m + 1 THEN (IF IsProbed(pool[(m + 1)]) THEN InsertRanked(g[m], pool[(m + 1)]) ELSE g[m]) ELSE g[k]]
    <2>2. \A k \in 0..(m + 1) : h[k] = IF k = 0 THEN <<>> ELSE (IF IsProbed(pool[k]) THEN InsertRanked(h[k - 1], pool[k]) ELSE h[k - 1])
      BY <2>1 DEF IsRanked
    <2>3. IsRanked(h, pool, m + 1)
      BY <2>2 DEF IsRanked
    <2> QED
      BY <2>3
  <1> HIDE DEF I
  <1>3. n \in I
    BY <1>1, <1>2, Induction
  <1> QED
    BY <1>3 DEF I

(* One more probe. *)
LEMMA RecordTyped ==
    ASSUME NEW s \in NodeStats, NEW r \in {NoRtt} \cup Nat
    PROVE  /\ RecordProbe(s, r) \in NodeStats
           /\ RecordProbe(s, r).count = s.count + 1
           /\ RecordProbe(s, r).success = LET sample == IF r = NoRtt THEN 0 ELSE Scale
                                          IN  IF s.count = 0 THEN sample ELSE Blend(sample, s.success)
  <1> DEFINE sample == IF r = NoRtt THEN 0 ELSE Scale
             success == IF s.count = 0 THEN sample ELSE Blend(sample, s.success)
             rtt == IF r = NoRtt THEN s.rtt ELSE IF s.rtt = NoRtt THEN r ELSE Blend(r, s.rtt)
  <1>1. s.success \in 0..Scale /\ s.rtt \in {NoRtt} \cup Nat /\ s.count \in Nat
    BY DEF NodeStats
  <1>2. sample \in 0..Scale /\ sample \in Nat /\ Scale \in Nat /\ sample <= Scale
    BY ScoringAssumption
  <1>3. success \in 0..Scale
    <2>1. s.success \in Nat /\ s.success <= Scale
      BY <1>1
    <2> HIDE DEF sample
    <2>2. Blend(sample, s.success) \in Nat /\ Blend(sample, s.success) <= Scale
      BY <1>2, <2>1, BlendBounded
    <2> QED
      BY <1>2, <2>2
  <1>4. rtt \in {NoRtt} \cup Nat
    <2>1. CASE r # NoRtt /\ s.rtt # NoRtt
      <3>1. r \in Nat /\ s.rtt \in Nat
        BY <1>1, <2>1
      <3>2. Blend(r, s.rtt) \in Nat
        BY <3>1, BlendTyped
      <3> QED
        BY <2>1, <3>2
    <2> QED
      BY <1>1, <2>1
  <1>5. RecordProbe(s, r) = [success |-> success, rtt |-> rtt, count |-> s.count + 1]
    BY DEF RecordProbe
  <1> HIDE DEF success, rtt
  <1>6. RecordProbe(s, r) \in NodeStats /\ RecordProbe(s, r).count = s.count + 1 /\ RecordProbe(s, r).success = success
    BY <1>1, <1>3, <1>4, <1>5 DEF NodeStats
  <1> QED
    BY <1>6 DEF success

(* The statistics of a history are those after its probes one by one. *)
LEMMA StatsByProbe ==
    ASSUME NEW h \in Histories
    PROVE  \E g : /\ IsStats(g, h, Len(h)) /\ StatsOf(h) = g[Len(h)]
                  /\ \A k \in 0..Len(h) : g[k] \in NodeStats /\ g[k].count = k /\ (k = 0 => g[k].rtt = NoRtt)
  <1> DEFINE l == Len(h)
             g == CHOOSE f : IsStats(f, h, l)
  <1>1. l \in Nat /\ \A k \in 1..l : h[k] \in {NoRtt} \cup Nat
    BY HistoriesAssumption
  <1>2. StatsOf(h) = g[l]
    BY DEF StatsOf, IsStats
  <1> HIDE DEF l
  <1>3. IsStats(g, h, l)
    <2>1. \E f : IsStats(f, h, l)
      BY <1>1, StatsExist
    <2> QED
      BY <2>1
  <1> HIDE DEF g
  <1> DEFINE I == {k \in Nat : k <= l => g[k] \in NodeStats /\ g[k].count = k /\ (k = 0 => g[k].rtt = NoRtt)}
  <1>4. 0 \in I
    <2>1. g[0] = Unprobed
      BY <1>1, <1>3 DEF IsStats
    <2> QED
      BY <2>1, ScoringAssumption DEF Unprobed, NodeStats
  <1>5. ASSUME NEW k \in Nat, k \in I PROVE k + 1 \in I
    <2> SUFFICES ASSUME k + 1 <= l PROVE g[k + 1] \in NodeStats /\ g[k + 1].count = k + 1
      OBVIOUS
    <2>1. g[k + 1] = RecordProbe(g[k], h[k + 1]) /\ h[k + 1] \in {NoRtt} \cup Nat
      BY <1>1, <1>3 DEF IsStats
    <2>2. g[k] \in NodeStats /\ g[k].count = k
      BY <1>1, <1>5
    <2> QED
      BY <2>1, <2>2, RecordTyped
  <1> HIDE DEF I
  <1>6. \A k \in 0..l : k \in I
    <2>1. Nat \subseteq I
      BY <1>4, <1>5, Induction
    <2> QED
      BY <1>1, <2>1
  <1>7. \A k \in 0..l : g[k] \in NodeStats /\ g[k].count = k /\ (k = 0 => g[k].rtt = NoRtt)
    BY <1>1, <1>6 DEF I
  <1> QED
    BY <1>2, <1>3, <1>7 DEF l

(* Risen and Faded step by step. *)
LEMMA RatesByStep ==
    /\ \E r : /\ IsRisen(r, Recent) /\ Risen(Recent) = r[Recent]
              /\ \A k \in 0..Recent : r[k] \in 0..Scale
    /\ \E r : /\ IsFaded(r, Recent) /\ Faded(Recent) = r[Recent]
              /\ \A k \in 0..Recent : r[k] \in 0..Scale
  <1> DEFINE n == Recent
             r == CHOOSE f : IsRisen(f, n)
             s == CHOOSE f : IsFaded(f, n)
  <1>1. n \in Nat /\ Scale \in Nat
    BY RecentAssumption, ScoringAssumption
  <1>2. Risen(n) = r[n] /\ Faded(n) = s[n]
    BY DEF Risen, Faded, IsRisen, IsFaded
  <1> HIDE DEF n
  <1>3. IsRisen(r, n) /\ IsFaded(s, n)
    <2>1. \E f : IsRisen(f, n)
      BY <1>1, RisenExists
    <2>2. \E f : IsFaded(f, n)
      BY <1>1, FadedExists
    <2> QED
      BY <2>1, <2>2
  <1> HIDE DEF r, s
  <1> DEFINE I == {k \in Nat : k <= n => r[k] \in 0..Scale /\ s[k] \in 0..Scale}
  <1>4. 0 \in I
    BY <1>1, <1>3 DEF IsRisen, IsFaded
  <1>5. ASSUME NEW k \in Nat, k \in I PROVE k + 1 \in I
    <2> SUFFICES ASSUME k + 1 <= n PROVE r[k + 1] \in 0..Scale /\ s[k + 1] \in 0..Scale
      OBVIOUS
    <2>1. r[k + 1] = Blend(Scale, r[k]) /\ s[k + 1] = Blend(0, s[k])
      BY <1>1, <1>3 DEF IsRisen, IsFaded
    <2>2. r[k] \in Nat /\ r[k] <= Scale /\ s[k] \in Nat /\ s[k] <= Scale
      BY <1>1, <1>5
    <2> QED
      BY <2>1, <2>2, BlendRate
  <1> HIDE DEF I
  <1>6. \A k \in 0..n : k \in I
    <2>1. Nat \subseteq I
      BY <1>4, <1>5, Induction
    <2> QED
      BY <1>1, <2>1
  <1>7. \A k \in 0..n : r[k] \in 0..Scale /\ s[k] \in 0..Scale
    BY <1>1, <1>6 DEF I
  <1> QED
    BY <1>2, <1>3, <1>7 DEF n

(* Whatever came before, successes lift the rate to Risen at least. *)
LEMMA RisesLately ==
    ASSUME NEW h \in Histories, Lately(h, TRUE)
    PROVE  StatsOf(h) \in NodeStats /\ StatsOf(h).count > 0 /\ StatsOf(h).success >= Risen(Recent)
  <1> DEFINE l == Len(h)
  <1>1. PICK g : /\ IsStats(g, h, l) /\ StatsOf(h) = g[l]
                 /\ \A k \in 0..l : g[k] \in NodeStats /\ g[k].count = k
    BY StatsByProbe
  <1>2. PICK r : /\ IsRisen(r, Recent) /\ Risen(Recent) = r[Recent]
                 /\ \A k \in 0..Recent : r[k] \in 0..Scale
    BY RatesByStep
  <1>3. /\ l \in Nat /\ Recent \in Nat \ {0} /\ l >= Recent /\ Scale \in Nat
        /\ \A k \in 1..l : h[k] \in {NoRtt} \cup Nat
        /\ \A k \in (l - Recent + 1)..l : h[k] # NoRtt
    BY HistoriesAssumption, RecentAssumption, ScoringAssumption DEF Lately
  <1> HIDE DEF l
  <1> DEFINE I == {k \in Nat : k <= Recent => g[l - Recent + k].success >= r[k]}
  <1>4. 0 \in I
    <2>1. r[0] = 0 /\ g[l - Recent] \in NodeStats
      BY <1>1, <1>2, <1>3 DEF IsRisen
    <2>2. l - Recent + 0 = l - Recent /\ g[l - Recent].success \in Nat
      BY <1>3, <2>1 DEF NodeStats
    <2> QED
      BY <2>1, <2>2
  <1>5. ASSUME NEW k \in Nat, k \in I PROVE k + 1 \in I
    <2> SUFFICES ASSUME k + 1 <= Recent PROVE g[l - Recent + (k + 1)].success >= r[k + 1]
      OBVIOUS
    <2> DEFINE m == l - Recent + k
    <2>1. m \in Nat /\ m + 1 \in 1..l /\ m + 1 >= l - Recent + 1 /\ l - Recent + (k + 1) = m + 1 /\ m \in 0..l
      BY <1>3
    <2>2. g[m].success >= r[k]
      BY <1>3, <1>5
    <2> HIDE DEF m
    <2>3. g[m + 1] = RecordProbe(g[m], h[m + 1]) /\ r[k + 1] = Blend(Scale, r[k])
      <3>1. g[m + 1] = RecordProbe(g[m + 1 - 1], h[m + 1])
        BY <1>1, <1>3, <2>1 DEF IsStats
      <3>2. r[k + 1] = Blend(Scale, r[k + 1 - 1])
        BY <1>2, <1>3 DEF IsRisen
      <3> QED
        BY <2>1, <3>1, <3>2
    <2>4. h[m + 1] \in {NoRtt} \cup Nat /\ h[m + 1] # NoRtt /\ g[m] \in NodeStats /\ r[k] \in 0..Scale
      BY <1>1, <1>2, <1>3, <2>1
    <2>5. g[m + 1].success = IF g[m].count = 0 THEN Scale ELSE Blend(Scale, g[m].success)
      BY <2>3, <2>4, RecordTyped
    <2>6. g[m].success \in Nat /\ r[k] \in Nat /\ r[k] <= Scale
      BY <1>3, <2>4 DEF NodeStats
    <2>7. Blend(Scale, r[k]) \in Nat /\ Blend(Scale, r[k]) <= Scale
      BY <1>3, <2>6, BlendRate
    <2>8. Blend(Scale, r[k]) <= Blend(Scale, g[m].success) /\ Blend(Scale, g[m].success) \in Nat
      BY <1>3, <2>2, <2>6, BlendTyped, BlendMonotone
    <2> QED
      BY <1>3, <2>1, <2>3, <2>5, <2>7, <2>8
  <1> HIDE DEF I
  <1>6. Recent \in I
    BY <1>3, <1>4, <1>5, Induction
  <1>7. g[l - Recent + Recent].success >= r[Recent] /\ l - Recent + Recent = l
    BY <1>3, <1>6 DEF I
  <1>8. g[l] \in NodeStats /\ g[l].count = l /\ l > 0
    BY <1>1, <1>3
  <1> QED
    BY <1>1, <1>2, <1>7, <1>8

(* Whatever came before, failures pull the rate down to Faded at most. *)
LEMMA FadesLately ==
    ASSUME NEW h \in Histories, Lately(h, FALSE)
    PROVE  StatsOf(h) \in NodeStats /\ StatsOf(h).count > 0 /\ StatsOf(h).success <= Faded(Recent)
  <1> DEFINE l == Len(h)
  <1>1. PICK g : /\ IsStats(g, h, l) /\ StatsOf(h) = g[l]
                 /\ \A k \in 0..l : g[k] \in NodeStats /\ g[k].count = k
    BY StatsByProbe
  <1>2. PICK r : /\ IsFaded(r, Recent) /\ Faded(Recent) = r[Recent]
                 /\ \A k \in 0..Recent : r[k] \in 0..Scale
    BY RatesByStep
  <1>3. /\ l \in Nat /\ Recent \in Nat \ {0} /\ l >= Recent /\ Scale \in Nat
        /\ \A k \in 1..l : h[k] \in {NoRtt} \cup Nat
        /\ \A k \in (l - Recent + 1)..l : h[k] = NoRtt
    BY HistoriesAssumption, RecentAssumption, ScoringAssumption DEF Lately
  <1> HIDE DEF l
  <1> DEFINE I == {k \in Nat : k <= Recent => g[l - Recent + k].success <= r[k]}
  <1>4. 0 \in I
    <2>1. r[0] = Scale /\ g[l - Recent] \in NodeStats
      BY <1>1, <1>2, <1>3 DEF IsFaded
    <2>2. l - Recent + 0 = l - Recent /\ g[l - Recent].success \in 0..Scale
      BY <1>3, <2>1 DEF NodeStats
    <2> QED
      BY <1>3, <2>1, <2>2
  <1>5. ASSUME NEW k \in Nat, k \in I PROVE k + 1 \in I
    <2> SUFFICES ASSUME k + 1 <= Recent PROVE g[l - Recent + (k + 1)].success <= r[k + 1]
      OBVIOUS
    <2> DEFINE m == l - Recent + k
    <2>1. m \in Nat /\ m + 1 \in 1..l /\ m + 1 >= l - Recent + 1 /\ l - Recent + (k + 1) = m + 1 /\ m \in 0..l
      BY <1>3
    <2>2. g[m].success <= r[k]
      BY <1>3, <1>5
    <2> HIDE DEF m
    <2>3. g[m + 1] = RecordProbe(g[m], h[m + 1]) /\ r[k + 1] = Blend(0, r[k])
      <3>1. g[m + 1] = RecordProbe(g[m + 1 - 1], h[m + 1])
        BY <1>1, <1>3, <2>1 DEF IsStats
      <3>2. r[k + 1] = Blend(0, r[k + 1 - 1])
        BY <1>2, <1>3 DEF IsFaded
      <3> QED
        BY <2>1, <3>1, <3>2
    <2>4. h[m + 1] \in {NoRtt} \cup Nat /\ h[m + 1] = NoRtt /\ g[m] \in NodeStats /\ r[k] \in 0..Scale
      BY <1>1, <1>2, <1>3, <2>1
    <2>5. g[m + 1].success = IF g[m].count = 0 THEN 0 ELSE Blend(0, g[m].success)
      BY <2>3, <2>4, RecordTyped
    <2>6. g[m].success \in Nat /\ r[k] \in Nat
      BY <1>3, <2>4 DEF NodeStats
    <2>7. Blend(0, r[k]) \in Nat
      BY <2>6, BlendTyped
    <2>8. Blend(0, g[m].success) <= Blend(0, r[k]) /\ Blend(0, g[m].success) \in Nat
      BY <2>2, <2>6, BlendTyped, BlendMonotone
    <2> QED
      BY <2>1, <2>3, <2>5, <2>7, <2>8
  <1> HIDE DEF I
  <1>6. Recent \in I
    BY <1>3, <1>4, <1>5, Induction
  <1>7. g[l - Recent + Recent].success <= r[Recent] /\ l - Recent + Recent = l
    BY <1>3, <1>6 DEF I
  <1>8. g[l] \in NodeStats /\ g[l].count = l /\ l > 0
    BY <1>1, <1>3
  <1> QED
    BY <1>1, <1>2, <1>7, <1>8

(* The greater of two numbers. *)
LEMMA MaxOfTwo ==
    ASSUME NEW a \in Int, NEW b \in Int
    PROVE  Max({a, b}) = IF a >= b THEN a ELSE b
  <1> DEFINE m == IF a >= b THEN a ELSE b
  <1>1. m \in {a, b} /\ \A y \in {a, b} : m >= y
    OBVIOUS
  <1>2. \A x \in {a, b} : (\A y \in {a, b} : x >= y) => x = m
    OBVIOUS
  <1> HIDE DEF m
  <1>3. Max({a, b}) = m
    BY <1>1, <1>2 DEF Max
  <1> QED
    BY <1>3 DEF m

(* What the comparison of two scores says about their success rates. *)
LEMMA ScoresCompared ==
    ASSUME NEW a \in NodeStats, NEW b \in NodeStats
    PROVE  /\ a.success \in Nat /\ b.success \in Nat /\ SuccessTieEps \in Nat
           /\ ScoreCmp(a, b) >= 0 => a.success + SuccessTieEps >= b.success
           /\ ~(ScoreCmp(a, b) >= 0) => b.success + SuccessTieEps >= a.success
           /\ a.success > b.success + SuccessTieEps => ScoreCmp(a, b) >= 0 /\ ~(ScoreCmp(b, a) >= 0)
  <1>1. a.success \in Nat /\ b.success \in Nat /\ SuccessTieEps \in Nat
    BY ScoringAssumption DEF NodeStats, SuccessTieEps
  <1> DEFINE x == a.success
             y == b.success
  <1>2. /\ SuccessCmp(x, y) = IF Abs(x - y) <= SuccessTieEps THEN 0 ELSE IF x < y THEN -1 ELSE 1
        /\ SuccessCmp(y, x) = IF Abs(y - x) <= SuccessTieEps THEN 0 ELSE IF y < x THEN -1 ELSE 1
    BY DEF SuccessCmp
  <1>3. Abs(x - y) = (IF x < y THEN y - x ELSE x - y) /\ Abs(y - x) = (IF x < y THEN y - x ELSE x - y)
    BY <1>1 DEF Abs
  <1>4. SuccessCmp(x, y) # 0 => ScoreCmp(a, b) = SuccessCmp(x, y)
    BY DEF ScoreCmp
  <1>5. SuccessCmp(y, x) # 0 => ScoreCmp(b, a) = SuccessCmp(y, x)
    BY DEF ScoreCmp
  <1> HIDE DEF x, y
  <1>6. x \in Nat /\ y \in Nat
    BY <1>1 DEF x, y
  <1>7. /\ ScoreCmp(a, b) >= 0 => x + SuccessTieEps >= y
        /\ ~(ScoreCmp(a, b) >= 0) => y + SuccessTieEps >= x
        /\ x > y + SuccessTieEps => ScoreCmp(a, b) >= 0 /\ ~(ScoreCmp(b, a) >= 0)
    BY <1>1, <1>2, <1>3, <1>4, <1>5, <1>6
  <1> QED
    BY <1>1, <1>7 DEF x, y

(* A node is inserted behind the last one it is not better than. *)
LEMMA InsertedAt ==
    ASSUME NEW R \in Seq(NodeStats), NEW s \in NodeStats
    PROVE  \E at \in 0..Len(R) :
              /\ at > 0 => ScoreCmp(R[at], s) >= 0
              /\ \A j \in (at + 1)..Len(R) : ~(ScoreCmp(R[j], s) >= 0)
              /\ InsertRanked(R, s) \in Seq(NodeStats) /\ Len(InsertRanked(R, s)) = Len(R) + 1
              /\ \A j \in 1..(Len(R) + 1) :
                    InsertRanked(R, s)[j] = IF j <= at THEN R[j] ELSE IF j = at + 1 THEN s ELSE R[j - 1]
  <1> DEFINE l == Len(R)
             S == {j \in 1..l : ScoreCmp(R[j], s) >= 0} \cup {0}
             at == Max(S)
  <1>1. l \in Nat /\ S \in SUBSET (0..l) /\ S # {}
    OBVIOUS
  <1>2. InsertRanked(R, s) = SubSeq(R, 1, at) \o <<s>> \o SubSeq(R, at + 1, l)
    BY DEF InsertRanked
  <1> HIDE DEF S, l
  <1>3. at \in S /\ \A m \in S : m <= at
    BY <1>1, Greatest
  <1> HIDE DEF at
  <1>4. at \in 0..l
    BY <1>1, <1>3
  <1>5. at > 0 => ScoreCmp(R[at], s) >= 0
    BY <1>3, <1>4 DEF S
  <1>6. \A j \in (at + 1)..l : ~(ScoreCmp(R[j], s) >= 0)
    BY <1>1, <1>3, <1>4 DEF S
  <1> DEFINE A == SubSeq(R, 1, at)
             B == SubSeq(R, at + 1, l)
             C == A \o <<s>>
             Q == C \o B
  <1>7. /\ A \in Seq(NodeStats) /\ Len(A) = at /\ \A j \in 1..at : A[j] = R[j]
        /\ B \in Seq(NodeStats) /\ Len(B) = l - at /\ \A j \in 1..(l - at) : B[j] = R[at + j]
    BY <1>1, <1>4 DEF l
  <1> HIDE DEF A, B
  <1>8. /\ C \in Seq(NodeStats) /\ Len(C) = at + 1 /\ C[at + 1] = s
        /\ \A j \in 1..at : C[j] = R[j]
    BY <1>1, <1>4, <1>7
  <1> HIDE DEF C
  <1>9. Q \in Seq(NodeStats) /\ Len(Q) = l + 1
    BY <1>1, <1>4, <1>7, <1>8
  <1>10. \A j \in 1..(l + 1) : Q[j] = IF j <= at THEN R[j] ELSE IF j = at + 1 THEN s ELSE R[j - 1]
    <2> SUFFICES ASSUME NEW j \in 1..(l + 1)
                 PROVE  Q[j] = IF j <= at THEN R[j] ELSE IF j = at + 1 THEN s ELSE R[j - 1]
      OBVIOUS
    <2>1. Q[j] = IF j <= at + 1 THEN C[j] ELSE B[j - (at + 1)]
      BY <1>1, <1>4, <1>7, <1>8
    <2>2. j > at + 1 => j - (at + 1) \in 1..(l - at) /\ at + (j - (at + 1)) = j - 1
      BY <1>1, <1>4
    <2> QED
      BY <1>1, <1>4, <1>7, <1>8, <2>1, <2>2
  <1> QED
    BY <1>2, <1>4, <1>5, <1>6, <1>9, <1>10 DEF l, A, B, C

(* Candidates are ranked one by one. *)
LEMMA RankedByNode ==
    ASSUME NEW pool, Len(pool) \in Nat
    PROVE  \E g : IsRanked(g, pool, Len(pool)) /\ RankedCandidates(pool) = g[Len(pool)]
  <1> DEFINE l == Len(pool)
             g == CHOOSE f : IsRanked(f, pool, l)
  <1>1. RankedCandidates(pool) = g[l]
    BY DEF RankedCandidates, IsRanked
  <1>2. l \in Nat
    OBVIOUS
  <1> HIDE DEF l
  <1>3. IsRanked(g, pool, l)
    <2>1. \E f : IsRanked(f, pool, l)
      BY <1>2, RankedExists
    <2> QED
      BY <2>1
  <1> QED
    BY <1>1, <1>3 DEF l

(* Whoever comes first, of two nodes with clearly different rates the      *)
(* better one is ranked first.                                             *)
LEMMA BetterIsFirst ==
    ASSUME NEW a \in NodeStats, NEW b \in NodeStats, IsProbed(a), IsProbed(b),
           a.success > b.success + SuccessTieEps
    PROVE  RankedCandidates(<<b, a>>) = <<a, b>>
  <1> DEFINE pool == <<b, a>>
  <1>1. Len(pool) = 2 /\ pool[1] = b /\ pool[2] = a
    OBVIOUS
  <1> HIDE DEF pool
  <1>2. PICK g : IsRanked(g, pool, 2) /\ RankedCandidates(pool) = g[2]
    <2>1. Len(pool) \in Nat
      BY <1>1
    <2>2. \E g : IsRanked(g, pool, Len(pool)) /\ RankedCandidates(pool) = g[Len(pool)]
      BY <2>1, RankedByNode
    <2> QED
      BY <1>1, <2>2
  <1>3. g[0] = <<>> /\ g[1] = InsertRanked(g[0], b) /\ g[2] = InsertRanked(g[1], a)
    BY <1>1, <1>2 DEF IsRanked
  <1>4. g[1] = <<b>>
    <2>1. <<>> \in Seq(NodeStats) /\ Len(<<>>) = 0
      OBVIOUS
    <2>2. PICK at \in 0..Len(<<>>) :
              /\ at > 0 => ScoreCmp(<<>>[at], b) >= 0
              /\ \A j \in (at + 1)..Len(<<>>) : ~(ScoreCmp(<<>>[j], b) >= 0)
              /\ InsertRanked(<<>>, b) \in Seq(NodeStats) /\ Len(InsertRanked(<<>>, b)) = Len(<<>>) + 1
              /\ \A j \in 1..(Len(<<>>) + 1) :
                    InsertRanked(<<>>, b)[j] = IF j <= at THEN <<>>[j] ELSE IF j = at + 1 THEN b ELSE <<>>[j - 1]
      BY <2>1, InsertedAt
    <2>3. g[1] \in Seq(NodeStats) /\ Len(g[1]) = 1 /\ g[1][1] = b
      BY <1>3, <2>1, <2>2
    <2> QED
      BY <2>3
  <1>5. g[2] = <<a, b>>
    <2> DEFINE R == <<b>>
    <2>1. R \in Seq(NodeStats) /\ Len(R) = 1 /\ R[1] = b
      OBVIOUS
    <2> HIDE DEF R
    <2>2. PICK at \in 0..Len(R) :
              /\ at > 0 => ScoreCmp(R[at], a) >= 0
              /\ \A j \in (at + 1)..Len(R) : ~(ScoreCmp(R[j], a) >= 0)
              /\ InsertRanked(R, a) \in Seq(NodeStats) /\ Len(InsertRanked(R, a)) = Len(R) + 1
              /\ \A j \in 1..(Len(R) + 1) :
                    InsertRanked(R, a)[j] = IF j <= at THEN R[j] ELSE IF j = at + 1 THEN a ELSE R[j - 1]
      BY <2>1, InsertedAt
    <2>3. ~(ScoreCmp(b, a) >= 0)
      BY ScoresCompared
    <2>4. at = 0
      BY <2>1, <2>2, <2>3
    <2>5. g[2] = InsertRanked(R, a)
      BY <1>3, <1>4 DEF R
    <2>6. g[2] \in Seq(NodeStats) /\ Len(g[2]) = 2 /\ g[2][1] = a /\ g[2][2] = b
      BY <2>1, <2>2, <2>4, <2>5
    <2> QED
      BY <2>6
  <1> QED
    BY <1>2, <1>5 DEF pool

(* A clear lead in the success rate wins, and a clear deficit never does. *)
LEMMA ClearLeadWins ==
    ASSUME NEW c \in NodeStats, NEW i \in NodeStats, IsProbed(c), IsProbed(i),
           c.success >= Risen(Recent), i.success <= Faded(Recent)
    PROVE  ChallengerWins(c, i) /\ ~ChallengerWins(i, c)
  <1> DEFINE x == c.success
             y == i.success
             u == Risen(Recent)
             v == Faded(Recent)
             hx == Hysteresis * x
             hy == Hysteresis * y
             hu == Hysteresis * u
             hl == Hysteresis * LeastIncumbent
  <1>1. x \in Nat /\ y \in Nat /\ u \in Nat /\ v \in Nat /\ LeastIncumbent \in Nat /\ Hysteresis \in 0..10
    <2>1. Recent \in Nat
      BY RecentAssumption
    <2>2. u \in 0..Scale /\ v \in 0..Scale
      BY <2>1, RatesByStep
    <2>3. Scale \in Nat /\ Hysteresis \in 0..10 /\ LeastIncumbent \in Nat
      BY ScoringAssumption DEF LeastIncumbent
    <2>4. x \in 0..Scale /\ y \in 0..Scale
      BY DEF NodeStats
    <2> QED
      BY <2>2, <2>3, <2>4
  <1>2. x >= u /\ y <= v
    OBVIOUS
  <1>3. (10 - Hysteresis) * u > 10 * v /\ 10 * (u - v) > hl
    BY RecentAssumption
  <1>4. (10 - Hysteresis) * u <= (10 - Hysteresis) * x /\ hy <= hx
    <2>1. 10 - Hysteresis \in Nat /\ Hysteresis \in Nat /\ u <= x /\ y <= v /\ u > v
      <3>1. u > v + SuccessTieEps /\ SuccessTieEps \in Nat
        BY RecentAssumption, ScoringAssumption DEF SuccessTieEps
      <3> HIDE DEF x, y, u, v
      <3> QED
        BY <1>1, <1>2, <3>1
    <2> HIDE DEF x, y, u, v
    <2>2. y <= x
      BY <1>1, <2>1
    <2> QED
      BY <1>1, <2>1, <2>2, TimesMonotone
  <1>5. (10 - Hysteresis) * x = 10 * x - hx /\ hx \in Nat /\ hy \in Nat /\ hl \in Nat
    <2> HIDE DEF x, y
    <2> QED
      BY <1>1
  <1>6. Max({x, LeastIncumbent}) \in {x, LeastIncumbent} /\ Max({y, LeastIncumbent}) \in {y, LeastIncumbent}
    <2> HIDE DEF x, y
    <2>1. x \in Int /\ y \in Int /\ LeastIncumbent \in Int
      BY <1>1
    <2> QED
      BY <2>1, MaxOfTwo
  <1>7. /\ ChallengerWins(c, i) <=> LET margin == Hysteresis * Max({y, LeastIncumbent})
                                    IN  \/ 10 * Abs(x - y) > margin /\ x - y > 0
                                        \/ /\ 10 * Abs(x - y) <= margin
                                           /\ c.rtt # NoRtt
                                           /\ i.rtt = NoRtt \/ c.rtt * (10 + Hysteresis) < i.rtt * 10
        /\ ChallengerWins(i, c) <=> LET margin == Hysteresis * Max({x, LeastIncumbent})
                                    IN  \/ 10 * Abs(y - x) > margin /\ y - x > 0
                                        \/ /\ 10 * Abs(y - x) <= margin
                                           /\ i.rtt # NoRtt
                                           /\ c.rtt = NoRtt \/ i.rtt * (10 + Hysteresis) < c.rtt * 10
    BY DEF ChallengerWins
  <1>8. Abs(x - y) = (IF x < y THEN y - x ELSE x - y) /\ Abs(y - x) = (IF x < y THEN y - x ELSE x - y)
    BY <1>1 DEF Abs
  <1>9. Hysteresis * Max({x, LeastIncumbent}) \in {hx, hl} /\ Hysteresis * Max({y, LeastIncumbent}) \in {hy, hl}
    BY <1>6
  <1> HIDE DEF x, y, u, v, hx, hy, hu, hl
  <1>10. 10 * (x - y) > hx /\ 10 * (x - y) > hy /\ 10 * (x - y) > hl /\ x > y
    BY <1>1, <1>2, <1>3, <1>4, <1>5
  <1> QED
    BY <1>1, <1>5, <1>7, <1>8, <1>9, <1>10

(* Neighbours in a ranking: the one behind exceeds the one before it by no *)
(* more than the tie margin.                                               *)
Near(R) == \A j \in 1..(Len(R) - 1) : R[j].success + SuccessTieEps >= R[j + 1].success

(* An insertion keeps everybody, and neighbours near. *)
LEMMA InsertedNear ==
    ASSUME NEW R \in Seq(NodeStats), NEW s \in NodeStats, Near(R)
    PROVE  /\ InsertRanked(R, s) \in Seq(NodeStats) /\ Near(InsertRanked(R, s))
           /\ \E i \in 1..Len(InsertRanked(R, s)) : InsertRanked(R, s)[i] = s
           /\ \A j \in 1..Len(R) : \E i \in 1..Len(InsertRanked(R, s)) : InsertRanked(R, s)[i] = R[j]
  <1> DEFINE Q == InsertRanked(R, s)
             l == Len(R)
  <1>1. PICK at \in 0..Len(R) :
              /\ at > 0 => ScoreCmp(R[at], s) >= 0
              /\ \A j \in (at + 1)..Len(R) : ~(ScoreCmp(R[j], s) >= 0)
              /\ InsertRanked(R, s) \in Seq(NodeStats) /\ Len(InsertRanked(R, s)) = Len(R) + 1
              /\ \A j \in 1..(Len(R) + 1) :
                    InsertRanked(R, s)[j] = IF j <= at THEN R[j] ELSE IF j = at + 1 THEN s ELSE R[j - 1]
    BY InsertedAt
  <1>2. /\ l \in Nat /\ at \in 0..l /\ Q \in Seq(NodeStats) /\ Len(Q) = l + 1
        /\ at > 0 => ScoreCmp(R[at], s) >= 0
        /\ \A j \in (at + 1)..l : ~(ScoreCmp(R[j], s) >= 0)
        /\ \A j \in 1..(l + 1) : Q[j] = IF j <= at THEN R[j] ELSE IF j = at + 1 THEN s ELSE R[j - 1]
        /\ \A j \in 1..l : R[j] \in NodeStats
    BY <1>1
  <1>3. \A j \in 1..(l - 1) : R[j].success + SuccessTieEps >= R[j + 1].success
    BY DEF Near
  <1> HIDE DEF Q, l
  <1>4. Near(Q)
    <2> SUFFICES ASSUME NEW j \in 1..l PROVE Q[j].success + SuccessTieEps >= Q[j + 1].success
      BY <1>2 DEF Near
    <2>1. j \in 1..(l + 1) /\ j + 1 \in 1..(l + 1)
      BY <1>2
    <2>2. CASE j < at
      <3>1. Q[j] = R[j] /\ Q[j + 1] = R[j + 1] /\ j \in 1..(l - 1)
        BY <1>2, <2>1, <2>2
      <3> QED
        BY <1>3, <3>1
    <2>3. CASE j = at
      <3>1. Q[j] = R[j] /\ Q[j + 1] = s /\ R[j] \in NodeStats /\ ScoreCmp(R[j], s) >= 0
        BY <1>2, <2>1, <2>3
      <3> QED
        BY <3>1, ScoresCompared
    <2>4. CASE j = at + 1
      <3>1. Q[j] = s /\ Q[j + 1] = R[j] /\ R[j] \in NodeStats /\ ~(ScoreCmp(R[j], s) >= 0)
        <4>1. j + 1 - 1 = j /\ ~(j <= at) /\ ~(j + 1 <= at) /\ j + 1 # at + 1 /\ j \in (at + 1)..l
          BY <1>2, <2>4
        <4> QED
          BY <1>2, <2>1, <2>4, <4>1
      <3> QED
        BY <3>1, ScoresCompared
    <2>5. CASE j > at + 1
      <3>1. Q[j] = R[j - 1] /\ Q[j + 1] = R[j] /\ j - 1 \in 1..(l - 1)
        <4>1. j + 1 - 1 = j /\ ~(j <= at) /\ ~(j + 1 <= at) /\ j + 1 # at + 1 /\ j # at + 1
          BY <1>2, <2>5
        <4> QED
          BY <1>2, <2>1, <2>5, <4>1
      <3>2. R[j - 1].success + SuccessTieEps >= R[j - 1 + 1].success /\ j - 1 + 1 = j
        BY <1>3, <3>1
      <3> QED
        BY <3>1, <3>2
    <2> QED
      BY <1>2, <2>2, <2>3, <2>4, <2>5
  <1>5. \E i \in 1..Len(Q) : Q[i] = s
    <2>1. at + 1 \in 1..(l + 1) /\ ~(at + 1 <= at)
      BY <1>2
    <2> QED
      BY <1>2, <2>1
  <1>6. ASSUME NEW j \in 1..l PROVE \E i \in 1..Len(Q) : Q[i] = R[j]
    <2>1. CASE j <= at
      BY <1>2, <2>1
    <2>2. CASE ~(j <= at)
      <3>1. j + 1 \in 1..(l + 1) /\ ~(j + 1 <= at) /\ j + 1 # at + 1 /\ j + 1 - 1 = j
        BY <1>2, <2>2
      <3>2. Q[j + 1] = R[j + 1 - 1]
        <4>1. \A i \in 1..(l + 1) : ~(i <= at) /\ i # at + 1 => Q[i] = R[i - 1]
          BY <1>2
        <4> DEFINE i == j + 1
        <4>2. i \in 1..(l + 1) /\ ~(i <= at) /\ i # at + 1
          BY <3>1
        <4> HIDE DEF i
        <4>3. Q[i] = R[i - 1]
          BY <4>1, <4>2
        <4> QED
          BY <4>3 DEF i
      <3>3. Q[j + 1] = R[j] /\ j + 1 \in 1..Len(Q)
        BY <1>2, <3>1, <3>2
      <3> QED
        BY <3>3
    <2> QED
      BY <2>1, <2>2
  <1> QED
    BY <1>2, <1>4, <1>5, <1>6 DEF Q, l

(* From neighbour to neighbour the margins add up. *)
LEMMA MarginsAddUp ==
    ASSUME NEW R \in Seq(NodeStats), Near(R), NEW j \in 1..Len(R)
    PROVE  R[1].success + (Len(R) - 1) * SuccessTieEps >= R[j].success
  <1> DEFINE l == Len(R)
             I == {k \in Nat : k + 1 <= l => R[1].success + k * SuccessTieEps >= R[k + 1].success}
  <1>1. /\ l \in Nat /\ SuccessTieEps \in Nat
        /\ \A k \in 1..l : R[k].success \in Nat
        /\ \A k \in 1..(l - 1) : R[k].success + SuccessTieEps >= R[k + 1].success
    <2>1. SuccessTieEps \in Nat /\ \A s \in NodeStats : s.success \in Nat
      BY ScoringAssumption DEF SuccessTieEps, NodeStats
    <2> QED
      BY <2>1 DEF Near
  <1> HIDE DEF l
  <1>2. 0 \in I
    BY <1>1
  <1>3. ASSUME NEW k \in Nat, k \in I PROVE k + 1 \in I
    <2> SUFFICES ASSUME k + 1 + 1 <= l
                 PROVE  R[1].success + (k + 1) * SuccessTieEps >= R[k + 1 + 1].success
      OBVIOUS
    <2>1. R[1].success + k * SuccessTieEps >= R[k + 1].success
      BY <1>1, <1>3
    <2>2. R[k + 1].success + SuccessTieEps >= R[k + 1 + 1].success
      BY <1>1
    <2>3. (k + 1) * SuccessTieEps = k * SuccessTieEps + SuccessTieEps /\ k * SuccessTieEps \in Nat
      BY <1>1
    <2>4. R[1].success \in Nat /\ R[k + 1].success \in Nat /\ R[k + 1 + 1].success \in Nat
      BY <1>1
    <2> DEFINE m == k * SuccessTieEps
               n == (k + 1) * SuccessTieEps
               a == R[1].success
               b == R[k + 1].success
               c == R[k + 1 + 1].success
    <2>5. /\ a + m >= b /\ b + SuccessTieEps >= c /\ n = m + SuccessTieEps
          /\ m \in Nat /\ a \in Nat /\ b \in Nat /\ c \in Nat /\ SuccessTieEps \in Nat
      BY <1>1, <2>1, <2>2, <2>3, <2>4
    <2> HIDE DEF m, n, a, b, c
    <2>6. a + n >= c
      BY <2>5
    <2> QED
      BY <2>6 DEF n, a, c
  <1> HIDE DEF I
  <1>4. j - 1 \in I
    <2>1. j - 1 \in Nat
      BY <1>1 DEF l
    <2> QED
      BY <1>2, <1>3, <2>1, Induction
  <1>5. R[1].success + (j - 1) * SuccessTieEps >= R[j].success
    <2>1. j - 1 + 1 = j /\ j <= l
      BY <1>1 DEF l
    <2> QED
      BY <1>4, <2>1 DEF I
  <1>6. (j - 1) * SuccessTieEps <= (l - 1) * SuccessTieEps
    <2>1. j - 1 \in Int /\ l - 1 \in Int /\ j - 1 <= l - 1
      BY <1>1 DEF l
    <2>2. SuccessTieEps * (j - 1) <= SuccessTieEps * (l - 1)
      BY <1>1, <2>1, TimesMonotone
    <2> QED
      BY <1>1, <2>1, <2>2
  <1>7. R[1].success \in Nat /\ R[j].success \in Nat /\ (j - 1) * SuccessTieEps \in Int /\ (l - 1) * SuccessTieEps \in Int
    BY <1>1 DEF l
  <1> QED
    BY <1>5, <1>6, <1>7 DEF l

(* The head of a ranking is near the best of it. *)
LEMMA HeadOfRanking ==
    ASSUME NEW pool \in Rankings, NEW m \in DOMAIN pool, IsProbed(pool[m])
    PROVE  LET ranked == RankedCandidates(pool)
           IN  ranked[1].success + (Len(ranked) - 1) * SuccessTieEps >= pool[m].success
  <1> DEFINE l == Len(pool)
  <1>1. l \in Nat /\ (\A k \in 1..l : pool[k] \in NodeStats) /\ m \in 1..l
    BY RankingsAssumption
  <1>2. PICK g : IsRanked(g, pool, l) /\ RankedCandidates(pool) = g[l]
    BY <1>1, RankedByNode
  <1> HIDE DEF l
  <1> DEFINE I == {k \in Nat : k <= l => /\ g[k] \in Seq(NodeStats) /\ Near(g[k])
                                         /\ \A i \in 1..k : IsProbed(pool[i]) =>
                                               \E j \in 1..Len(g[k]) : g[k][j] = pool[i]}
  <1>3. 0 \in I
    <2>1. g[0] = <<>>
      BY <1>1, <1>2 DEF IsRanked
    <2>2. <<>> \in Seq(NodeStats) /\ Near(<<>>)
      BY DEF Near
    <2>3. g[0] \in Seq(NodeStats) /\ Near(g[0])
      BY <2>1, <2>2
    <2> QED
      BY <2>3
  <1>4. ASSUME NEW k \in Nat, k \in I PROVE k + 1 \in I
    <2> SUFFICES ASSUME k + 1 <= l
                 PROVE  /\ g[k + 1] \in Seq(NodeStats) /\ Near(g[k + 1])
                        /\ \A i \in 1..(k + 1) : IsProbed(pool[i]) =>
                              \E j \in 1..Len(g[k + 1]) : g[k + 1][j] = pool[i]
      OBVIOUS
    <2>1. /\ g[k] \in Seq(NodeStats) /\ Near(g[k])
          /\ \A i \in 1..k : IsProbed(pool[i]) => \E j \in 1..Len(g[k]) : g[k][j] = pool[i]
      BY <1>1, <1>4
    <2>2. /\ g[k + 1] = IF IsProbed(pool[k + 1]) THEN InsertRanked(g[k], pool[k + 1]) ELSE g[k]
          /\ pool[k + 1] \in NodeStats
      BY <1>1, <1>2 DEF IsRanked
    <2>3. \A i \in 1..(k + 1) : i \in 1..k \/ i = k + 1
      OBVIOUS
    <2>4. CASE IsProbed(pool[k + 1])
      <3>1. g[k + 1] = InsertRanked(g[k], pool[k + 1])
        BY <2>2, <2>4
      <3>2. /\ g[k + 1] \in Seq(NodeStats) /\ Near(g[k + 1])
            /\ \E i \in 1..Len(g[k + 1]) : g[k + 1][i] = pool[k + 1]
            /\ \A j \in 1..Len(g[k]) : \E i \in 1..Len(g[k + 1]) : g[k + 1][i] = g[k][j]
        <4> DEFINE R == g[k]
                   s == pool[k + 1]
        <4>1. R \in Seq(NodeStats) /\ Near(R) /\ s \in NodeStats /\ g[k + 1] = InsertRanked(R, s)
          BY <2>1, <2>2, <3>1
        <4> HIDE DEF R, s
        <4>2. /\ InsertRanked(R, s) \in Seq(NodeStats) /\ Near(InsertRanked(R, s))
              /\ \E i \in 1..Len(InsertRanked(R, s)) : InsertRanked(R, s)[i] = s
              /\ \A j \in 1..Len(R) : \E i \in 1..Len(InsertRanked(R, s)) : InsertRanked(R, s)[i] = R[j]
          BY <4>1, InsertedNear
        <4> QED
          BY <4>1, <4>2 DEF R, s
      <3>3. ASSUME NEW i \in 1..k, IsProbed(pool[i]) PROVE \E j \in 1..Len(g[k + 1]) : g[k + 1][j] = pool[i]
        BY <2>1, <3>2, <3>3
      <3> QED
        BY <2>3, <3>2, <3>3
    <2>5. CASE ~IsProbed(pool[k + 1])
      BY <2>1, <2>2, <2>3, <2>5
    <2> QED
      BY <2>4, <2>5
  <1> HIDE DEF I
  <1>5. l \in I
    BY <1>1, <1>3, <1>4, Induction
  <1>6. /\ g[l] \in Seq(NodeStats) /\ Near(g[l])
        /\ \E j \in 1..Len(g[l]) : g[l][j] = pool[m]
    BY <1>1, <1>5 DEF I
  <1>7. g[l][1].success + (Len(g[l]) - 1) * SuccessTieEps >= pool[m].success
    BY <1>6, MarginsAddUp
  <1> QED
    BY <1>2, <1>7

(* Without a clear lead there is no replacement. *)
LEMMA NoLeadNoWin ==
    ASSUME NEW a \in Histories, NEW b \in Histories,
           StatsOf(a).rtt # NoRtt, StatsOf(b).rtt # NoRtt,
           10 * StatsOf(a).success <= (10 + Hysteresis) * StatsOf(b).success,
           (10 + Hysteresis) * StatsOf(a).rtt >= 10 * StatsOf(b).rtt
    PROVE  ~ChallengerWins(StatsOf(a), StatsOf(b))
  <1> DEFINE c == StatsOf(a)
             i == StatsOf(b)
  <1>1. c \in NodeStats
    <2>1. PICK g : StatsOf(a) = g[Len(a)] /\ \A k \in 0..Len(a) : g[k] \in NodeStats
      BY StatsByProbe
    <2>2. Len(a) \in 0..Len(a)
      BY HistoriesAssumption
    <2> QED
      BY <2>1, <2>2
  <1>2. i \in NodeStats /\ IsProbed(i)
    <2>1. PICK g : /\ StatsOf(b) = g[Len(b)]
                   /\ \A k \in 0..Len(b) : g[k] \in NodeStats /\ g[k].count = k /\ (k = 0 => g[k].rtt = NoRtt)
      BY StatsByProbe
    <2>2. Len(b) \in 0..Len(b) /\ Len(b) \in Nat
      BY HistoriesAssumption
    <2>3. i \in NodeStats /\ i.count = Len(b) /\ Len(b) # 0
      BY <2>1, <2>2
    <2> QED
      BY <2>2, <2>3 DEF IsProbed
  <1> HIDE DEF c, i
  <1>3. /\ c.rtt # NoRtt /\ i.rtt # NoRtt
        /\ 10 * c.success <= (10 + Hysteresis) * i.success
        /\ (10 + Hysteresis) * c.rtt >= 10 * i.rtt
    BY DEF c, i
  <1> DEFINE x == c.success
             y == i.success
             t == c.rtt
             u == i.rtt
             hy == Hysteresis * y
             hl == Hysteresis * LeastIncumbent
             ht == Hysteresis * t
  <1>4. x \in Nat /\ y \in Nat /\ t \in Nat /\ u \in Nat /\ LeastIncumbent \in Nat /\ Hysteresis \in Nat
    BY <1>1, <1>2, <1>3, ScoringAssumption DEF NodeStats, LeastIncumbent
  <1>5. /\ ChallengerWins(c, i) => LET margin == Hysteresis * Max({y, LeastIncumbent})
                                   IN  \/ 10 * Abs(x - y) > margin /\ x - y > 0
                                       \/ t * (10 + Hysteresis) < u * 10
    BY <1>2, <1>3 DEF ChallengerWins
  <1> HIDE DEF x, y, t, u
  <1>6. 10 * x <= 10 * y + hy /\ 10 * t + ht >= 10 * u /\ hy \in Nat /\ ht \in Nat
    <2>1. 10 * x <= (10 + Hysteresis) * y /\ (10 + Hysteresis) * t >= 10 * u
      BY <1>3 DEF x, y, t, u
    <2>2. (10 + Hysteresis) * y = 10 * y + hy /\ (10 + Hysteresis) * t = 10 * t + ht /\ hy \in Nat /\ ht \in Nat
      BY <1>4
    <2> QED
      BY <2>1, <2>2
  <1>7. hy <= Hysteresis * Max({y, LeastIncumbent}) /\ Hysteresis * Max({y, LeastIncumbent}) \in Nat
    <2>1. y \in Int /\ LeastIncumbent \in Int
      BY <1>4
    <2>2. Max({y, LeastIncumbent}) = IF y >= LeastIncumbent THEN y ELSE LeastIncumbent
      BY <2>1, MaxOfTwo
    <2>3. Max({y, LeastIncumbent}) \in Nat /\ y <= Max({y, LeastIncumbent})
      BY <1>4, <2>2
    <2> DEFINE z == Max({y, LeastIncumbent})
    <2> HIDE DEF z
    <2>4. z \in Nat /\ y <= z
      BY <2>3 DEF z
    <2>5. Hysteresis * y <= Hysteresis * z /\ Hysteresis * z \in Nat
      BY <1>4, <2>4, TimesMonotone
    <2> QED
      BY <2>5 DEF z
  <1>8. t * (10 + Hysteresis) = 10 * t + ht
    BY <1>4
  <1>9. x - y > 0 => Abs(x - y) = x - y
    BY <1>4 DEF Abs
  <1> HIDE DEF hy, ht, hl
  <1>10. ~ChallengerWins(c, i)
    BY <1>4, <1>5, <1>6, <1>7, <1>8, <1>9
  <1> QED
    BY <1>10 DEF c, i

(***************************************************************************)
(* RanksSound.  For histories and pools of any length, and any weight,     *)
(* hysteresis and resolution: enough recent probes decide the order of two *)
(* nodes and their replacement, nobody is replaced without a clear lead,   *)
(* and the first candidate loses no more than the tie margins              *)
(* (record_probe, ranked_candidates, challenger_wins).                     *)
(***************************************************************************)
THEOREM RanksSound == Spec => []RankingSound
  <1>1. input \in Inputs => RecentDecides
    <2> SUFFICES ASSUME input \in Inputs, input.kind = "histories", Lately(input.a, TRUE), Lately(input.b, FALSE)
                 PROVE  LET good == StatsOf(input.a)
                            bad  == StatsOf(input.b)
                        IN  /\ RankedCandidates(<<bad, good>>) = <<good, bad>>
                            /\ ChallengerWins(good, bad) /\ ~ChallengerWins(bad, good)
      BY DEF RecentDecides
    <2> DEFINE good == StatsOf(input.a)
               bad  == StatsOf(input.b)
    <2>1. input.a \in Histories /\ input.b \in Histories
      BY DEF Inputs
    <2>2. good \in NodeStats /\ good.count > 0 /\ good.success >= Risen(Recent)
      BY <2>1, RisesLately
    <2>3. bad \in NodeStats /\ bad.count > 0 /\ bad.success <= Faded(Recent)
      BY <2>1, FadesLately
    <2> HIDE DEF good, bad
    <2>4. good.success > bad.success + SuccessTieEps
      <3>1. Risen(Recent) \in 0..Scale /\ Faded(Recent) \in 0..Scale
        <4>1. Recent \in Nat
          BY RecentAssumption
        <4> QED
          BY <4>1, RatesByStep
      <3>2. Risen(Recent) > Faded(Recent) + SuccessTieEps /\ SuccessTieEps \in Nat /\ Scale \in Nat
        BY RecentAssumption, ScoringAssumption DEF SuccessTieEps
      <3>3. good.success \in 0..Scale /\ bad.success \in 0..Scale
        BY <2>2, <2>3 DEF NodeStats
      <3> QED
        BY <2>2, <2>3, <3>1, <3>2, <3>3
    <2>5. IsProbed(good) /\ IsProbed(bad)
      BY <2>2, <2>3 DEF IsProbed
    <2>6. RankedCandidates(<<bad, good>>) = <<good, bad>>
      BY <2>2, <2>3, <2>4, <2>5, BetterIsFirst
    <2>7. ChallengerWins(good, bad) /\ ~ChallengerWins(bad, good)
      BY <2>2, <2>3, <2>5, ClearLeadWins
    <2> QED
      BY <2>6, <2>7 DEF good, bad
  <1>2. input \in Inputs => LeadMustBeClear
    <2> SUFFICES ASSUME input \in Inputs, input.kind = "histories"
                 PROVE  LeadMustBeClear
      BY DEF LeadMustBeClear
    <2>1. input.a \in Histories /\ input.b \in Histories
      BY DEF Inputs
    <2> QED
      BY <2>1, NoLeadNoWin DEF LeadMustBeClear
  <1>3. input \in Inputs => HeadNearBest
    <2> SUFFICES ASSUME input \in Inputs, input.kind = "ranking"
                 PROVE  HeadNearBest
      BY DEF HeadNearBest
    <2>1. input.pool \in Rankings
      BY DEF Inputs
    <2> QED
      BY <2>1, HeadOfRanking DEF HeadNearBest, SuccessTieEps
  <1>4. input \in Inputs => RankingSound
    BY <1>1, <1>2, <1>3 DEF RankingSound
  <1> QED
    BY <1>4, InputStays, PTL

-----------------------------------------------------------------------------
(* Paths.                                                                   *)

(* The functions that Canonicalize, Reached and Spelled are values of. *)
IsWalked(g, p, n) ==
    g = [k \in 0..n |-> IF k = 0 THEN <<>> ELSE Walk(g[k - 1], p[k])]

IsFollowed(g, p, n) ==
    g = [k \in 0..n |-> IF k = 0 THEN <<>> ELSE Follow(g[k - 1], p[k])]

IsSpelled(g, base, rest, n) ==
    g = [k \in 0..n |-> IF k = 0 THEN base ELSE Lexically(g[k - 1], rest[k])]

(* There are such functions. *)
LEMMA WalkedExists ==
    ASSUME NEW p, NEW n \in Nat
    PROVE  \E g : IsWalked(g, p, n)
  <1> DEFINE I == {k \in Nat : \E g : IsWalked(g, p, k)}
  <1>1. 0 \in I
    <2>1. IsWalked([k \in 0..0 |-> <<>>], p, 0)
      BY DEF IsWalked
    <2> QED
      BY <2>1
  <1>2. ASSUME NEW m \in Nat, m \in I PROVE m + 1 \in I
    <2>1. PICK g : IsWalked(g, p, m)
      BY <1>2
    <2> DEFINE h == [k \in 0..(m + 1) |-> IF k = m + 1 THEN Walk(g[m], p[(m + 1)]) ELSE g[k]]
    <2>2. \A k \in 0..(m + 1) : h[k] = IF k = 0 THEN <<>> ELSE Walk(h[k - 1], p[k])
      BY <2>1 DEF IsWalked
    <2>3. IsWalked(h, p, m + 1)
      BY <2>2 DEF IsWalked
    <2> QED
      BY <2>3
  <1> HIDE DEF I
  <1>3. n \in I
    BY <1>1, <1>2, Induction
  <1> QED
    BY <1>3 DEF I

(* There are such functions. *)
LEMMA FollowedExists ==
    ASSUME NEW p, NEW n \in Nat
    PROVE  \E g : IsFollowed(g, p, n)
  <1> DEFINE I == {k \in Nat : \E g : IsFollowed(g, p, k)}
  <1>1. 0 \in I
    <2>1. IsFollowed([k \in 0..0 |-> <<>>], p, 0)
      BY DEF IsFollowed
    <2> QED
      BY <2>1
  <1>2. ASSUME NEW m \in Nat, m \in I PROVE m + 1 \in I
    <2>1. PICK g : IsFollowed(g, p, m)
      BY <1>2
    <2> DEFINE h == [k \in 0..(m + 1) |-> IF k = m + 1 THEN Follow(g[m], p[(m + 1)]) ELSE g[k]]
    <2>2. \A k \in 0..(m + 1) : h[k] = IF k = 0 THEN <<>> ELSE Follow(h[k - 1], p[k])
      BY <2>1 DEF IsFollowed
    <2>3. IsFollowed(h, p, m + 1)
      BY <2>2 DEF IsFollowed
    <2> QED
      BY <2>3
  <1> HIDE DEF I
  <1>3. n \in I
    BY <1>1, <1>2, Induction
  <1> QED
    BY <1>3 DEF I

(* There are such functions. *)
LEMMA SpelledExists ==
    ASSUME NEW base, NEW rest, NEW n \in Nat
    PROVE  \E g : IsSpelled(g, base, rest, n)
  <1> DEFINE I == {k \in Nat : \E g : IsSpelled(g, base, rest, k)}
  <1>1. 0 \in I
    <2>1. IsSpelled([k \in 0..0 |-> base], base, rest, 0)
      BY DEF IsSpelled
    <2> QED
      BY <2>1
  <1>2. ASSUME NEW m \in Nat, m \in I PROVE m + 1 \in I
    <2>1. PICK g : IsSpelled(g, base, rest, m)
      BY <1>2
    <2> DEFINE h == [k \in 0..(m + 1) |-> IF k = m + 1 THEN Lexically(g[m], rest[(m + 1)]) ELSE g[k]]
    <2>2. \A k \in 0..(m + 1) : h[k] = IF k = 0 THEN base ELSE Lexically(h[k - 1], rest[k])
      BY <2>1 DEF IsSpelled
    <2>3. IsSpelled(h, base, rest, m + 1)
      BY <2>2 DEF IsSpelled
    <2> QED
      BY <2>3
  <1> HIDE DEF I
  <1>3. n \in I
    BY <1>1, <1>2, Induction
  <1> QED
    BY <1>3 DEF I

(* Without components. *)
LEMMA CanonicalizeNone == Canonicalize(<<>>) = <<>>
  <1> DEFINE e == CHOOSE f : IsWalked(f, <<>>, 0)
  <1>1. IsWalked(e, <<>>, 0)
    BY WalkedExists
  <1>2. Canonicalize(<<>>) = e[0]
    BY DEF Canonicalize, IsWalked
  <1> QED
    BY <1>1, <1>2 DEF IsWalked

(* One more component. *)
LEMMA CanonicalizeAppend ==
    ASSUME NEW q \in Seq(Component), NEW x \in Component
    PROVE  Canonicalize(Append(q, x)) = Walk(Canonicalize(q), x)
  <1> DEFINE r == Append(q, x)
             l == Len(q)
             g == CHOOSE f : IsWalked(f, q, l)
             h == CHOOSE f : IsWalked(f, r, l + 1)
  <1>1. l \in Nat /\ Len(r) = l + 1 /\ r[l + 1] = x /\ \A k \in 1..l : r[k] = q[k]
    OBVIOUS
  <1>2. IsWalked(g, q, l) /\ IsWalked(h, r, l + 1)
    <2>1. l \in Nat /\ l + 1 \in Nat
      BY <1>1
    <2> HIDE DEF l, r
    <2>2. \E f : IsWalked(f, q, l)
      BY <2>1, WalkedExists
    <2>3. \E f : IsWalked(f, r, l + 1)
      BY <2>1, WalkedExists
    <2> QED
      BY <2>2, <2>3
  <1>3. Canonicalize(q) = g[l]
    BY DEF Canonicalize, IsWalked
  <1>4. Canonicalize(r) = h[l + 1]
    <2> DEFINE m == Len(r)
               u == CHOOSE f : IsWalked(f, r, m)
    <2>1. Canonicalize(r) = u[m]
      BY DEF Canonicalize, IsWalked
    <2> QED
      BY <1>1, <2>1
  <1> HIDE DEF r, l, g, h
  <1> DEFINE I == {k \in Nat : k <= l => h[k] = g[k]}
  <1>5. 0 \in I
    BY <1>1, <1>2 DEF IsWalked
  <1>6. ASSUME NEW k \in Nat, k \in I PROVE k + 1 \in I
    <2> SUFFICES ASSUME k + 1 <= l PROVE h[k + 1] = g[k + 1]
      OBVIOUS
    <2>1. h[k + 1] = Walk(h[k], r[k + 1]) /\ g[k + 1] = Walk(g[k], q[k + 1])
      BY <1>1, <1>2 DEF IsWalked
    <2> QED
      BY <1>1, <1>6, <2>1
  <1> HIDE DEF I
  <1>7. l \in I
    BY <1>1, <1>5, <1>6, Induction
  <1>8. h[l] = g[l]
    BY <1>1, <1>7 DEF I
  <1>9. h[l + 1] = Walk(h[l], r[l + 1])
    BY <1>1, <1>2 DEF IsWalked
  <1> QED
    BY <1>1, <1>3, <1>4, <1>8, <1>9 DEF r

(* Without components. *)
LEMMA ReachedNone == Reached(<<>>) = <<>>
  <1> DEFINE e == CHOOSE f : IsFollowed(f, <<>>, 0)
  <1>1. IsFollowed(e, <<>>, 0)
    BY FollowedExists
  <1>2. Reached(<<>>) = e[0]
    BY DEF Reached, IsFollowed
  <1> QED
    BY <1>1, <1>2 DEF IsFollowed

(* One more component. *)
LEMMA ReachedAppend ==
    ASSUME NEW q \in Seq(Component), NEW x \in Component
    PROVE  Reached(Append(q, x)) = Follow(Reached(q), x)
  <1> DEFINE r == Append(q, x)
             l == Len(q)
             g == CHOOSE f : IsFollowed(f, q, l)
             h == CHOOSE f : IsFollowed(f, r, l + 1)
  <1>1. l \in Nat /\ Len(r) = l + 1 /\ r[l + 1] = x /\ \A k \in 1..l : r[k] = q[k]
    OBVIOUS
  <1>2. IsFollowed(g, q, l) /\ IsFollowed(h, r, l + 1)
    <2>1. l \in Nat /\ l + 1 \in Nat
      BY <1>1
    <2> HIDE DEF l, r
    <2>2. \E f : IsFollowed(f, q, l)
      BY <2>1, FollowedExists
    <2>3. \E f : IsFollowed(f, r, l + 1)
      BY <2>1, FollowedExists
    <2> QED
      BY <2>2, <2>3
  <1>3. Reached(q) = g[l]
    BY DEF Reached, IsFollowed
  <1>4. Reached(r) = h[l + 1]
    <2> DEFINE m == Len(r)
               u == CHOOSE f : IsFollowed(f, r, m)
    <2>1. Reached(r) = u[m]
      BY DEF Reached, IsFollowed
    <2> QED
      BY <1>1, <2>1
  <1> HIDE DEF r, l, g, h
  <1> DEFINE I == {k \in Nat : k <= l => h[k] = g[k]}
  <1>5. 0 \in I
    BY <1>1, <1>2 DEF IsFollowed
  <1>6. ASSUME NEW k \in Nat, k \in I PROVE k + 1 \in I
    <2> SUFFICES ASSUME k + 1 <= l PROVE h[k + 1] = g[k + 1]
      OBVIOUS
    <2>1. h[k + 1] = Follow(h[k], r[k + 1]) /\ g[k + 1] = Follow(g[k], q[k + 1])
      BY <1>1, <1>2 DEF IsFollowed
    <2> QED
      BY <1>1, <1>6, <2>1
  <1> HIDE DEF I
  <1>7. l \in I
    BY <1>1, <1>5, <1>6, Induction
  <1>8. h[l] = g[l]
    BY <1>1, <1>7 DEF I
  <1>9. h[l + 1] = Follow(h[l], r[l + 1])
    BY <1>1, <1>2 DEF IsFollowed
  <1> QED
    BY <1>1, <1>3, <1>4, <1>8, <1>9 DEF r

(* Without components. *)
LEMMA SpelledNone ==
    ASSUME NEW base
    PROVE  Spelled(base, <<>>) = base
  <1> DEFINE e == CHOOSE f : IsSpelled(f, base, <<>>, 0)
  <1>1. IsSpelled(e, base, <<>>, 0)
    BY SpelledExists
  <1>2. Spelled(base, <<>>) = e[0]
    BY DEF Spelled, IsSpelled
  <1> QED
    BY <1>1, <1>2 DEF IsSpelled

(* One more component. *)
LEMMA SpelledAppend ==
    ASSUME NEW base, NEW q \in Seq(Component), NEW x \in Component
    PROVE  Spelled(base, Append(q, x)) = Lexically(Spelled(base, q), x)
  <1> DEFINE r == Append(q, x)
             l == Len(q)
             g == CHOOSE f : IsSpelled(f, base, q, l)
             h == CHOOSE f : IsSpelled(f, base, r, l + 1)
  <1>1. l \in Nat /\ Len(r) = l + 1 /\ r[l + 1] = x /\ \A k \in 1..l : r[k] = q[k]
    OBVIOUS
  <1>2. IsSpelled(g, base, q, l) /\ IsSpelled(h, base, r, l + 1)
    <2>1. l \in Nat /\ l + 1 \in Nat
      BY <1>1
    <2> HIDE DEF l, r
    <2>2. \E f : IsSpelled(f, base, q, l)
      BY <2>1, SpelledExists
    <2>3. \E f : IsSpelled(f, base, r, l + 1)
      BY <2>1, SpelledExists
    <2> QED
      BY <2>2, <2>3
  <1>3. Spelled(base, q) = g[l]
    BY DEF Spelled, IsSpelled
  <1>4. Spelled(base, r) = h[l + 1]
    <2> DEFINE m == Len(r)
               u == CHOOSE f : IsSpelled(f, base, r, m)
    <2>1. Spelled(base, r) = u[m]
      BY DEF Spelled, IsSpelled
    <2> QED
      BY <1>1, <2>1
  <1> HIDE DEF r, l, g, h
  <1> DEFINE I == {k \in Nat : k <= l => h[k] = g[k]}
  <1>5. 0 \in I
    BY <1>1, <1>2 DEF IsSpelled
  <1>6. ASSUME NEW k \in Nat, k \in I PROVE k + 1 \in I
    <2> SUFFICES ASSUME k + 1 <= l PROVE h[k + 1] = g[k + 1]
      OBVIOUS
    <2>1. h[k + 1] = Lexically(h[k], r[k + 1]) /\ g[k + 1] = Lexically(g[k], q[k + 1])
      BY <1>1, <1>2 DEF IsSpelled
    <2> QED
      BY <1>1, <1>6, <2>1
  <1> HIDE DEF I
  <1>7. l \in I
    BY <1>1, <1>5, <1>6, Induction
  <1>8. h[l] = g[l]
    BY <1>1, <1>7 DEF I
  <1>9. h[l + 1] = Lexically(h[l], r[l + 1])
    BY <1>1, <1>2 DEF IsSpelled
  <1> QED
    BY <1>1, <1>3, <1>4, <1>8, <1>9 DEF r

(* The prefixes of a path. *)
LEMMA PrefixStep ==
    ASSUME NEW p \in Path, NEW m \in 1..(Len(p) + 1), NEW k \in Nat, m <= k + 1, k + 1 <= Len(p)
    PROVE  /\ SubSeq(p, m, k) \in Path /\ p[k + 1] \in Component
           /\ SubSeq(p, m, k + 1) = Append(SubSeq(p, m, k), p[k + 1])
  <1>1. p \in Seq(Component) /\ Len(p) \in Nat
    BY DEF Path
  <1>2. SubSeq(p, m, k) \in Seq(Component) /\ p[k + 1] \in Component
    BY <1>1
  <1>3. SubSeq(p, m, k + 1) = Append(SubSeq(p, m, k), p[k + 1])
    BY <1>1
  <1> QED
    BY <1>2, <1>3 DEF Path

(* One component more of a path. *)
LEMMA FirstPrefix ==
    ASSUME NEW p \in Path, NEW k \in Nat, k + 1 <= Len(p)
    PROVE  /\ SubSeq(p, 1, k) \in Path /\ p[k + 1] \in Component
           /\ SubSeq(p, 1, k + 1) = Append(SubSeq(p, 1, k), p[k + 1])
  <1> DEFINE m == 1
  <1>1. m \in 1..(Len(p) + 1) /\ m <= k + 1
    BY DEF Path
  <1> HIDE DEF m
  <1>2. /\ SubSeq(p, m, k) \in Path /\ p[k + 1] \in Component
        /\ SubSeq(p, m, k + 1) = Append(SubSeq(p, m, k), p[k + 1])
    BY <1>1, PrefixStep
  <1> QED
    BY <1>2 DEF m

(* The whole path, and none of it. *)
LEMMA PrefixEnds ==
    ASSUME NEW p \in Path
    PROVE  /\ Len(p) \in Nat /\ SubSeq(p, 1, 0) = <<>> /\ SubSeq(p, 1, Len(p)) = p
           /\ <<>> \in Path /\ \A k \in 0..Len(p) : SubSeq(p, 1, k) \in Path
  <1>1. p \in Seq(Component)
    BY DEF Path
  <1> QED
    BY <1>1 DEF Path

(* The kernel gets from path to path. *)
LEMMA FollowTyped ==
    ASSUME NEW q \in Path, NEW c \in Component
    PROVE  Follow(q, c) \in Path
  <1>1. Append(q, c) \in Path
    BY DEF Path
  <1>2. Parent(q) \in Path
    <2>1. CASE q = <<>>
      BY <2>1 DEF Parent
    <2>2. CASE q # <<>>
      <3>1. Front(q) \in Path
        BY <2>2 DEF Front, Path
      <3> QED
        BY <2>2, <3>1 DEF Parent
    <2> QED
      BY <2>1, <2>2
  <1> QED
    BY <1>1, <1>2, FileSystemAssumption DEF Follow

(* It reaches a path. *)
LEMMA ReachedTyped ==
    ASSUME NEW p \in Path
    PROVE  Reached(p) \in Path
  <1> DEFINE I == {k \in Nat : k <= Len(p) => Reached(SubSeq(p, 1, k)) \in Path}
  <1>1. 0 \in I
    BY PrefixEnds, ReachedNone
  <1>2. ASSUME NEW k \in Nat, k \in I PROVE k + 1 \in I
    <2> SUFFICES ASSUME k + 1 <= Len(p) PROVE Reached(SubSeq(p, 1, k + 1)) \in Path
      OBVIOUS
    <2> DEFINE q == SubSeq(p, 1, k)
               c == p[k + 1]
    <2>1. q \in Path /\ c \in Component /\ SubSeq(p, 1, k + 1) = Append(q, c)
      BY FirstPrefix
    <2>2. Reached(q) \in Path
      BY <1>2, PrefixEnds
    <2> HIDE DEF q, c
    <2>3. Reached(Append(q, c)) = Follow(Reached(q), c)
      BY <2>1, ReachedAppend DEF Path
    <2>4. Follow(Reached(q), c) \in Path
      BY <2>1, <2>2, FollowTyped
    <2> QED
      BY <2>1, <2>3, <2>4
  <1> HIDE DEF I
  <1>3. Len(p) \in I
    BY <1>1, <1>2, PrefixEnds, Induction
  <1>4. Reached(SubSeq(p, 1, Len(p))) \in Path
    BY <1>3, PrefixEnds DEF I
  <1> QED
    BY <1>4, PrefixEnds

(* What can be looked up is what the kernel reaches. *)
LEMMA CanonicalIsReached ==
    ASSUME NEW p \in Path, ~Failed(Canonicalize(p))
    PROVE  Canonicalize(p) = Reached(p) /\ Canonicalize(p) \in Dirs \cup Files
  <1> DEFINE where(k) == Canonicalize(SubSeq(p, 1, k))
             I == {k \in Nat : k <= Len(p) => \/ Failed(where(k))
                                              \/ /\ where(k) = Reached(SubSeq(p, 1, k))
                                                 /\ where(k) \in Dirs \cup Files}
  <1>1. 0 \in I
    BY PrefixEnds, CanonicalizeNone, ReachedNone, FileSystemAssumption
  <1>2. ASSUME NEW k \in Nat, k \in I PROVE k + 1 \in I
    <2> DEFINE q == SubSeq(p, 1, k)
               c == p[k + 1]
               at == Canonicalize(q)
               next == Lexically(at, c)
    <2> SUFFICES ASSUME k + 1 <= Len(p), ~Failed(where(k + 1))
                 PROVE  where(k + 1) = Reached(SubSeq(p, 1, k + 1)) /\ where(k + 1) \in Dirs \cup Files
      OBVIOUS
    <2>1. q \in Path /\ c \in Component /\ SubSeq(p, 1, k + 1) = Append(q, c)
      BY FirstPrefix
    <2>2. where(k + 1) = Walk(at, c) /\ Reached(SubSeq(p, 1, k + 1)) = Follow(Reached(q), c)
      <3> HIDE DEF q, c
      <3> QED
        BY <2>1, CanonicalizeAppend, ReachedAppend DEF Path
    <2>3. Failed(at) \/ (at = Reached(q) /\ at \in Dirs \cup Files)
      BY <1>2, PrefixEnds
    <2>4. ~Failed(Walk(at, c))
      BY <2>2
    <2> HIDE DEF where, q, c, at, next, I
    <2>5. ~Failed(at) /\ at \notin Files
      BY <2>4 DEF Walk, Failed
    <2>6. /\ next \in Dirs \cup Files \/ next \in DOMAIN Links
          /\ Walk(at, c) = IF next \in Dirs \cup Files THEN next ELSE Links[next]
          /\ Walk(at, c) \in Dirs \cup Files
      <3>1. Walk(at, c) = CASE next \in Dirs \cup Files     -> next
                            [] next \in DOMAIN Links        -> IF Links[next] \in Dirs \cup Files
                                                               THEN Links[next] ELSE NotFound
                            [] OTHER                        -> NotFound
        BY <2>5 DEF Walk, next
      <3>2. CASE next \in Dirs \cup Files
        <4>1. next \notin DOMAIN Links
          BY <3>2, FileSystemAssumption
        <4> QED
          BY <3>1, <3>2, <4>1
      <3>3. CASE next \notin Dirs \cup Files /\ next \in DOMAIN Links
        <4>1. Walk(at, c) = IF Links[next] \in Dirs \cup Files THEN Links[next] ELSE NotFound
          BY <3>1, <3>3
        <4> QED
          BY <2>4, <3>3, <4>1 DEF Failed
      <3>4. CASE next \notin Dirs \cup Files /\ next \notin DOMAIN Links
        BY <2>4, <3>1, <3>4 DEF Failed
      <3> QED
        BY <3>2, <3>3, <3>4
    <2>7. Follow(at, c) = IF next \in DOMAIN Links THEN Links[next] ELSE next
      BY DEF Follow, next, Lexically
    <2>8. next \in DOMAIN Links => next \notin Dirs \cup Files
      BY FileSystemAssumption
    <2> QED
      BY <2>2, <2>3, <2>5, <2>6, <2>7, <2>8
  <1> HIDE DEF I
  <1>3. Len(p) \in I
    BY <1>1, <1>2, PrefixEnds, Induction
  <1>4. \/ Failed(where(Len(p)))
        \/ where(Len(p)) = Reached(SubSeq(p, 1, Len(p))) /\ where(Len(p)) \in Dirs \cup Files
    <2> HIDE DEF where
    <2> QED
      BY <1>3, PrefixEnds DEF I
  <1> QED
    BY <1>4, PrefixEnds

(* What is behind a missing component has no links in it. *)
LEMMA BehindMissing ==
    ASSUME NEW q \in Path, q \notin Dirs, NEW c \in Component, c # Up
    PROVE  /\ Follow(q, c) = Append(q, c) /\ Lexically(q, c) = Append(q, c)
           /\ Append(q, c) \in Path /\ Append(q, c) \notin Dirs
  <1>1. Append(q, c) \in Path /\ Front(Append(q, c)) = q /\ Append(q, c) # <<>>
    BY DEF Path, Front
  <1>2. Append(q, c) \notin Dirs \cup Files \cup DOMAIN Links
    BY <1>1, FileSystemAssumption
  <1> QED
    BY <1>1, <1>2 DEF Follow, Lexically

(* Where a component is missing the rest of the path is as it is spelled. *)
LEMMA MissingIsSpelled ==
    ASSUME NEW p \in Path, Up \notin Range(p), NEW n \in Nat, n + 1 <= Len(p),
           Append(Reached(SubSeq(p, 1, n)), p[n + 1]) \notin Dirs \cup DOMAIN Links
    PROVE  Reached(p) = Spelled(Reached(SubSeq(p, 1, n)), SubSeq(p, n + 1, Len(p)))
  <1> DEFINE b == Reached(SubSeq(p, 1, n))
             way(k) == Reached(SubSeq(p, 1, k))
             tail(k) == Spelled(b, SubSeq(p, n + 1, k))
             I == {k \in Nat : n + 1 + k <= Len(p) => /\ way(n + 1 + k) = tail(n + 1 + k)
                                                      /\ way(n + 1 + k) \in Path /\ way(n + 1 + k) \notin Dirs}
  <1>1. Len(p) \in Nat /\ \A k \in 1..Len(p) : p[k] \in Component /\ p[k] # Up
    BY DEF Path, Range
  <1>2. b \in Path
    BY <1>1, PrefixEnds, ReachedTyped
  <1>3. 0 \in I
    <2> DEFINE q == SubSeq(p, 1, n)
               c == p[n + 1]
    <2>1. q \in Path /\ c \in Component /\ c # Up /\ SubSeq(p, 1, n + 1) = Append(q, c)
      BY <1>1, FirstPrefix
    <2>2. SubSeq(p, n + 1, n + 1) = Append(<<>>, c)
      <3> DEFINE m == n + 1
      <3>1. m \in 1..(Len(p) + 1) /\ m <= n + 1
        BY <1>1
      <3>2. SubSeq(p, m, n) = <<>>
        BY DEF Path
      <3> HIDE DEF m
      <3>3. SubSeq(p, m, n + 1) = Append(SubSeq(p, m, n), p[n + 1])
        BY <3>1, PrefixStep
      <3>4. SubSeq(p, m, n + 1) = Append(<<>>, p[n + 1])
        BY <3>2, <3>3
      <3> QED
        BY <3>4 DEF m
    <2>3. Append(b, c) \notin Dirs \cup DOMAIN Links
      OBVIOUS
    <2>4. way(n + 1) = Follow(b, c)
      <3> HIDE DEF c
      <3>1. Reached(Append(q, c)) = Follow(Reached(q), c)
        BY <2>1, ReachedAppend DEF Path
      <3> QED
        BY <2>1, <3>1
    <2>5. tail(n + 1) = Lexically(b, c)
      <3> HIDE DEF b, c
      <3>1. <<>> \in Seq(Component)
        OBVIOUS
      <3>2. Spelled(b, Append(<<>>, c)) = Lexically(Spelled(b, <<>>), c)
        BY <2>1, <3>1, SpelledAppend
      <3> QED
        BY <2>2, <3>2, SpelledNone
    <2> HIDE DEF q, c, way, tail, b
    <2>6. way(n + 1) = Append(b, c) /\ tail(n + 1) = Append(b, c)
      BY <2>1, <2>3, <2>4, <2>5 DEF Follow, Lexically
    <2>7. Append(b, c) \in Path
      BY <1>2, <2>1 DEF Path
    <2>8. n + 1 + 0 = n + 1
      OBVIOUS
    <2> QED
      BY <2>3, <2>6, <2>7, <2>8
  <1>4. ASSUME NEW k \in Nat, k \in I PROVE k + 1 \in I
    <2> DEFINE j == n + 1 + k
               c == p[j + 1]
               q == SubSeq(p, 1, j)
               r == SubSeq(p, n + 1, j)
    <2> SUFFICES ASSUME n + 1 + (k + 1) <= Len(p)
                 PROVE  /\ way(n + 1 + (k + 1)) = tail(n + 1 + (k + 1))
                        /\ way(n + 1 + (k + 1)) \in Path /\ way(n + 1 + (k + 1)) \notin Dirs
      OBVIOUS
    <2>1. j \in Nat /\ j + 1 <= Len(p) /\ n + 1 + (k + 1) = j + 1 /\ n + 1 \in 1..(Len(p) + 1) /\ n + 1 <= j + 1
      BY <1>1
    <2>2. way(j) = tail(j) /\ way(j) \in Path /\ way(j) \notin Dirs
      BY <1>1, <1>4
    <2> HIDE DEF j
    <2>3. /\ q \in Path /\ c \in Component /\ c # Up /\ SubSeq(p, 1, j + 1) = Append(q, c)
          /\ r \in Path /\ SubSeq(p, n + 1, j + 1) = Append(r, c)
      BY <1>1, <2>1, FirstPrefix, PrefixStep
    <2>4. way(j + 1) = Follow(way(j), c)
      <3> HIDE DEF q, c
      <3>1. Reached(Append(q, c)) = Follow(Reached(q), c)
        BY <2>3, ReachedAppend DEF Path
      <3> QED
        BY <2>3, <3>1 DEF q
    <2>5. tail(j + 1) = Lexically(tail(j), c)
      <3> HIDE DEF r, c, b
      <3>1. Spelled(b, Append(r, c)) = Lexically(Spelled(b, r), c)
        BY <2>3, SpelledAppend DEF Path
      <3> QED
        BY <2>3, <3>1 DEF r
    <2> HIDE DEF way, tail, c, q, r
    <2>6. /\ Follow(way(j), c) = Append(way(j), c) /\ Lexically(way(j), c) = Append(way(j), c)
          /\ Append(way(j), c) \in Path /\ Append(way(j), c) \notin Dirs
      BY <2>2, <2>3, BehindMissing
    <2> QED
      BY <2>1, <2>2, <2>4, <2>5, <2>6
  <1> HIDE DEF I
  <1>5. Len(p) - (n + 1) \in I
    <2>1. Len(p) - (n + 1) \in Nat
      BY <1>1
    <2> QED
      BY <1>3, <1>4, <2>1, Induction
  <1>6. way(Len(p)) = tail(Len(p))
    <2>1. n + 1 + (Len(p) - (n + 1)) = Len(p)
      BY <1>1
    <2> HIDE DEF way, tail
    <2> QED
      BY <1>1, <1>5, <2>1 DEF I
  <1> QED
    BY <1>6, PrefixEnds

(* A path that is settled is normalized to where the kernel gets with it. *)
LEMMA NormalizedIsReached ==
    ASSUME NEW p \in Path, Settled(p), NormalizedPath(p) # Invalid
    PROVE  NormalizedPath(p) = Reached(p)
  <1> DEFINE prefix(k) == SubSeq(p, 1, k)
             l == Len(p)
             S == {k \in 0..l : SymlinkMetadata(prefix(k)) # NotFound}
             n == Max(S)
             base == Canonicalize(prefix(n))
  <1>1. NormalizedPath(p) = IF Failed(base) THEN Invalid ELSE Spelled(base, SubSeq(p, n + 1, l))
    BY DEF NormalizedPath
  <1>2. l \in Nat /\ prefix(0) = <<>> /\ prefix(l) = p /\ \A k \in 0..l : prefix(k) \in Path
    BY PrefixEnds
  <1>3. 0 \in S
    <2>1. SymlinkMetadata(<<>>) = <<>>
      BY CanonicalizeNone DEF SymlinkMetadata
    <2>2. <<>> # NotFound
      BY PrefixEnds, NamesAssumption
    <2>3. SymlinkMetadata(prefix(0)) # NotFound /\ 0 \in 0..l
      <3> HIDE DEF prefix, l
      <3> QED
        BY <1>2, <2>1, <2>2
    <2> QED
      BY <2>3
  <1>4. S \in SUBSET (0..l) /\ S # {}
    BY <1>3
  <1>5. n \in S /\ \A m \in S : m <= n
    <2> HIDE DEF S, l
    <2> QED
      BY <1>2, <1>4, Greatest
  <1>6. ~Failed(base) /\ NormalizedPath(p) = Spelled(base, SubSeq(p, n + 1, l))
    BY <1>1
  <1>7. n \in 0..l
    BY <1>4, <1>5
  <1>8. CASE ~Failed(Canonicalize(p))
    <2>1. SymlinkMetadata(p) # NotFound
      BY <1>8, NamesAssumption DEF SymlinkMetadata, Failed
    <2>2. l \in S
      <3>1. SymlinkMetadata(prefix(l)) # NotFound /\ l \in 0..l
        <4> HIDE DEF prefix, l
        <4> QED
          BY <1>2, <2>1
      <3> QED
        BY <3>1
    <2> HIDE DEF S, n, l
    <2>3. n = l
      BY <1>2, <1>5, <1>7, <2>2
    <2>4. SubSeq(p, l + 1, l) = <<>>
      BY DEF Path, l
    <2>5. NormalizedPath(p) = Spelled(Canonicalize(p), <<>>)
      BY <1>2, <1>6, <2>3, <2>4
    <2> QED
      BY <1>8, <2>5, SpelledNone, CanonicalIsReached
  <1>9. CASE Failed(Canonicalize(p))
    <2>1. Up \notin Range(p)
      BY <1>9 DEF Settled
    <2>2. n # l
      BY <1>2, <1>6, <1>9
    <2>3. n \in Nat /\ n + 1 \in 0..l /\ n + 1 <= l /\ n + 1 \notin S
      <3> HIDE DEF S, n, l
      <3> QED
        BY <1>2, <1>5, <1>7, <2>2
    <2> DEFINE q == prefix(n)
               c == p[n + 1]
               r == prefix(n + 1)
    <2>4. SymlinkMetadata(r) = NotFound
      BY <2>3
    <2> HIDE DEF n, S
    <2>5. q \in Path /\ c \in Component /\ r = Append(q, c)
      BY <2>3, FirstPrefix
    <2>6. c # Up
      BY <1>2, <2>1, <2>3 DEF Range, Path
    <2>7. base = Reached(q) /\ base \in Dirs \cup Files /\ base \in Path
      <3>1. base = Reached(q) /\ base \in Dirs \cup Files
        BY <1>6, <2>5, CanonicalIsReached
      <3> QED
        BY <3>1, FileSystemAssumption
    <2> HIDE DEF q, c, r, base
    <2>8. Front(r) = q /\ Last(r) = c /\ r # <<>> /\ r \in Path
      BY <2>5 DEF Front, Last, Path
    <2>9. base = Canonicalize(q)
      BY DEF base, q
    <2>10. Lexically(base, c) = Append(base, c)
      BY <2>6 DEF Lexically
    <2>11. Append(base, c) \notin DOMAIN Links
      <3>1. r # NotFound
        BY <2>8, NamesAssumption
      <3> QED
        BY <1>6, <2>4, <2>8, <2>9, <2>10, <3>1 DEF SymlinkMetadata
    <2>12. Canonicalize(r) = NotFound /\ Canonicalize(r) = Walk(base, c)
      <3>1. Canonicalize(r) = NotFound
        <4>1. r # NotFound
          BY <2>8, NamesAssumption
        <4> QED
          BY <2>4, <4>1 DEF SymlinkMetadata
      <3>2. Canonicalize(Append(q, c)) = Walk(Canonicalize(q), c)
        BY <2>5, CanonicalizeAppend DEF Path
      <3> QED
        BY <2>5, <2>9, <3>1, <3>2
    <2>13. Append(base, c) \notin Dirs \cup Files
      <3> SUFFICES ASSUME Append(base, c) \in Dirs \cup Files PROVE FALSE
        OBVIOUS
      <3>1. base \notin Files
        BY <1>6, <2>12, NamesAssumption DEF Walk
      <3>2. Walk(base, c) = Append(base, c)
        <4>1. Append(base, c) \in Dirs \cup Files /\ Append(base, c) \notin DOMAIN Links
          BY <2>11
        <4> QED
          BY <1>6, <2>10, <3>1, <4>1 DEF Walk
      <3> QED
        BY <2>12, <3>2, FileSystemAssumption, NamesAssumption
    <2>14. Append(Reached(SubSeq(p, 1, n)), p[n + 1]) \notin Dirs \cup DOMAIN Links
      BY <2>7, <2>11, <2>13 DEF q, c
    <2>15. Reached(p) = Spelled(Reached(SubSeq(p, 1, n)), SubSeq(p, n + 1, Len(p)))
      BY <2>1, <2>3, <2>14, MissingIsSpelled
    <2> QED
      BY <1>6, <2>7, <2>15 DEF q
  <1> QED
    BY <1>8, <1>9

(* A prefix, component by component. *)
LEMMA PrefixByComponent ==
    ASSUME NEW p \in Path, NEW q \in Path
    PROVE  IsPrefix(p, q) <=> Len(p) <= Len(q) /\ \A i \in 1..Len(p) : p[i] = q[i]
  <1>1. Len(p) \in Nat /\ Len(q) \in Nat /\ p \in Seq(Component) /\ q \in Seq(Component)
    BY DEF Path
  <1> DEFINE l == Len(p)
             a == SubSeq(p, 1, l)
             b == SubSeq(q, 1, l)
  <1>2. SUFFICES ASSUME l <= Len(q)
                 PROVE  a = b <=> \A i \in 1..l : p[i] = q[i]
    BY DEF IsPrefix
  <1>3. /\ Len(a) = l /\ Len(b) = l /\ a \in Seq(Component) /\ b \in Seq(Component)
        /\ \A i \in 1..l : a[i] = p[i] /\ b[i] = q[i]
    BY <1>1, <1>2
  <1> HIDE DEF a, b, l
  <1>4. (\A i \in 1..l : a[i] = b[i]) => a = b
    BY <1>3
  <1> QED
    BY <1>3, <1>4

(* The components of a longer path. *)
LEMMA AppendedPath ==
    ASSUME NEW p \in Path, NEW c \in Component
    PROVE  /\ Append(p, c) \in Path /\ Len(Append(p, c)) = Len(p) + 1 /\ Len(p) \in Nat
           /\ Append(p, c)[Len(p) + 1] = c /\ \A i \in 1..Len(p) : Append(p, c)[i] = p[i]
  BY DEF Path

(* What is apart from a directory is apart from everything in it. *)
LEMMA ChildApart ==
    ASSUME NEW p \in Path, NEW q \in Path, NEW c \in Component, ~Overlap(p, q)
    PROVE  ~Overlap(Append(p, c), q) /\ ~Overlap(q, Append(p, c))
  <1> DEFINE r == Append(p, c)
  <1>1. /\ r \in Path /\ Len(r) = Len(p) + 1 /\ Len(p) \in Nat /\ Len(q) \in Nat
        /\ \A i \in 1..Len(p) : r[i] = p[i]
    BY AppendedPath DEF Path
  <1> HIDE DEF r
  <1>2. ~IsPrefix(p, q) /\ ~IsPrefix(q, p)
    BY DEF Overlap
  <1>3. ~IsPrefix(r, q)
    <2> SUFFICES ASSUME IsPrefix(r, q) PROVE FALSE
      OBVIOUS
    <2>1. Len(r) <= Len(q) /\ \A i \in 1..Len(r) : r[i] = q[i]
      BY <1>1, PrefixByComponent
    <2>2. Len(p) <= Len(q) /\ \A i \in 1..Len(p) : p[i] = q[i]
      BY <1>1, <2>1
    <2> QED
      BY <1>2, <2>2, PrefixByComponent
  <1>4. ~IsPrefix(q, r)
    <2> SUFFICES ASSUME IsPrefix(q, r) PROVE FALSE
      OBVIOUS
    <2>1. Len(q) <= Len(r) /\ \A i \in 1..Len(q) : q[i] = r[i]
      BY <1>1, PrefixByComponent
    <2>2. CASE Len(q) <= Len(p)
      <3>1. \A i \in 1..Len(q) : q[i] = p[i]
        BY <1>1, <2>1, <2>2
      <3> QED
        BY <1>2, <2>2, <3>1, PrefixByComponent
    <2>3. CASE Len(q) > Len(p)
      <3>1. Len(p) <= Len(q) /\ \A i \in 1..Len(p) : p[i] = q[i]
        BY <1>1, <2>1, <2>3
      <3> QED
        BY <1>2, <3>1, PrefixByComponent
    <2> QED
      BY <1>1, <2>2, <2>3
  <1> QED
    BY <1>3, <1>4 DEF Overlap, r

(* Different names in one directory are apart. *)
LEMMA NamesApart ==
    ASSUME NEW p \in Path, NEW b \in Component, NEW c \in Component, b # c
    PROVE  ~Overlap(Append(p, b), Append(p, c))
  <1> DEFINE q == Append(p, b)
             r == Append(p, c)
             l == Len(p) + 1
  <1>1. q \in Path /\ Len(q) = l /\ q[l] = b /\ Len(p) \in Nat
    BY AppendedPath
  <1>2. r \in Path /\ Len(r) = l /\ r[l] = c
    BY AppendedPath
  <1>3. l \in 1..l
    BY <1>1
  <1> HIDE DEF q, r, l
  <1>4. ~IsPrefix(q, r) /\ ~IsPrefix(r, q)
    BY <1>1, <1>2, <1>3, PrefixByComponent
  <1> QED
    BY <1>4 DEF Overlap, q, r

(* No link is in the way of a name the daemon makes. *)
LEMMA OwnNameReached ==
    ASSUME NEW p \in Path, NEW c \in OwnNames
    PROVE  /\ c \in FileName /\ c \in Component /\ c # Up /\ c # <<>>
           /\ Reached(Append(p, c)) = Append(Reached(p), c)
  <1>1. c \in FileName /\ c # <<>>
    <2>1. CASE c = <<"causeway", "jsonl">>
      BY <2>1 DEF FileName
    <2>2. CASE c = <<"daemon", "lock">>
      BY <2>2 DEF FileName
    <2>3. CASE c = <<"control", "sock">>
      BY <2>3 DEF FileName
    <2>4. CASE c = <<"adapters">>
      BY <2>4 DEF FileName
    <2> QED
      BY <2>1, <2>2, <2>3, <2>4 DEF OwnNames
  <1>2. c \in Component /\ c # Up
    BY <1>1, NamesAssumption DEF Component
  <1>3. Reached(p) \in Path
    BY ReachedTyped
  <1>4. Reached(Append(p, c)) = Follow(Reached(p), c)
    BY <1>2, ReachedAppend DEF Path
  <1> DEFINE q == Append(Reached(p), c)
  <1>5. Last(q) = c
    BY <1>2, <1>3 DEF Last, Path
  <1>6. q \notin DOMAIN Links
    BY <1>5, FileSystemAssumption
  <1> QED
    BY <1>1, <1>2, <1>4, <1>6 DEF Follow

(* A path that is not empty and has no `..` in it. *)
Plain(p) == p \in Path /\ p # <<>> /\ Up \notin Range(p)

(* So are the paths next to it and in it. *)
LEMMA PlainPaths ==
    ASSUME NEW p, Plain(p), NEW c \in FileName
    PROVE  Plain(Sibling(p, c)) /\ Plain(Append(p, c)) /\ Last(p) \in FileName /\ Settled(p)
  <1>1. /\ p \in Seq(Component) /\ Len(p) \in Nat \ {0}
        /\ \A i \in 1..Len(p) : p[i] \in Component /\ p[i] # Up
    BY DEF Plain, Path, Range
  <1>2. c \in Component /\ c # Up
    BY NamesAssumption DEF Component
  <1>3. Last(p) \in FileName
    BY <1>1 DEF Last, Component
  <1> DEFINE f == SubSeq(p, 1, Len(p) - 1)
  <1>4. f \in Seq(Component) /\ \A i \in 1..Len(f) : f[i] \in Component /\ f[i] # Up
    BY <1>1
  <1> HIDE DEF f
  <1>5. \A q \in Seq(Component) : (\A i \in 1..Len(q) : q[i] # Up) => Plain(Append(q, c))
    <2> SUFFICES ASSUME NEW q \in Seq(Component), \A i \in 1..Len(q) : q[i] # Up
                 PROVE  Plain(Append(q, c))
      OBVIOUS
    <2> DEFINE r == Append(q, c)
    <2>1. /\ r \in Seq(Component) /\ Len(r) = Len(q) + 1 /\ r[Len(q) + 1] = c
          /\ \A i \in 1..Len(q) : r[i] = q[i]
      BY <1>2
    <2>2. r # <<>> /\ DOMAIN r = 1..(Len(q) + 1)
      BY <1>2
    <2> HIDE DEF r
    <2>3. \A i \in DOMAIN r : r[i] # Up
      BY <1>2, <2>1, <2>2
    <2> QED
      BY <2>1, <2>2, <2>3 DEF Plain, Path, Range, r
  <1>6. Plain(Append(f, c)) /\ Plain(Append(p, c))
    BY <1>1, <1>4, <1>5
  <1> QED
    BY <1>3, <1>6 DEF Sibling, Front, f, Settled, Plain

(* The files and directories the daemon writes or makes its own files in,  *)
(* with the labels of their roles.                                         *)
Base(label, path) == [label |-> label, path |-> path]

Bases(cfg) ==
    {Base(<<"state">>, cfg.state), Base(<<"tmp">>, StateTmp(cfg.state)),
     Base(<<"log">>, cfg.log), Base(<<"run">>, RunDir(cfg.state))}
    \cup {Base(<<"slot", n, suffix>>, CacheSlot(cfg.profiles[n].cache, suffix)) :
            n \in Remote(cfg), suffix \in SlotSuffixes}

OwnDirs == {<<"log">>, <<"run">>}

IsSlot(cfg, b) ==
    \E n \in Remote(cfg), suffix \in SlotSuffixes :
        b = Base(<<"slot", n, suffix>>, CacheSlot(cfg.profiles[n].cache, suffix))

(* What a base is. *)
LEMMA BaseCases ==
    ASSUME NEW cfg, NEW b
    PROVE  b \in Bases(cfg) <=>
              \/ b = Base(<<"state">>, cfg.state)
              \/ b = Base(<<"tmp">>, StateTmp(cfg.state))
              \/ b = Base(<<"log">>, cfg.log)
              \/ b = Base(<<"run">>, RunDir(cfg.state))
              \/ IsSlot(cfg, b)
  BY SMT DEF Bases, IsSlot

(* Every slot of a cache has a role. *)
LEMMA SlotHasRole ==
    ASSUME NEW cfg, NEW n \in Remote(cfg), NEW suffix \in SlotSuffixes
    PROVE  Role(<<"slot", n, suffix>>, CacheSlot(cfg.profiles[n].cache, suffix), "file", "") \in Roles(cfg)
  <1> DEFINE o == Role(<<"slot", n, suffix>>, CacheSlot(cfg.profiles[n].cache, suffix), "file", "")
  <1>1. \A x : x \in SlotRoles(cfg) <=>
                \E m \in Remote(cfg), s \in SlotSuffixes :
                   x = Role(<<"slot", m, s>>, CacheSlot(cfg.profiles[m].cache, s), "file", "")
    BY SMT DEF SlotRoles
  <1>2. \E m \in Remote(cfg), s \in SlotSuffixes :
           o = Role(<<"slot", m, s>>, CacheSlot(cfg.profiles[m].cache, s), "file", "")
    BY Zenon
  <1>3. o \in SlotRoles(cfg)
    <2> HIDE DEF o
    <2> QED
      BY <1>1, <1>2, Zenon
  <1> QED
    BY <1>3, Zenon DEF Roles

(* A cache is a path, and the writable paths are plain ones. *)
LEMMA WritablePlain ==
    ASSUME NEW cfg, IsConfig(cfg), Validate(cfg)
    PROVE  Plain(cfg.state) /\ Plain(cfg.log) /\ \A n \in Remote(cfg) : Plain(cfg.profiles[n].cache)
  <1>1. \A n \in Remote(cfg) : cfg.profiles[n].cache \in Path
    BY DEF IsConfig, Remote, ProfileNames
  <1>2. cfg.state \in Path /\ cfg.log \in Path
    BY DEF IsConfig
  <1> QED
    BY <1>1, <1>2 DEF Validate, SpellingsSafe, Plain

(* The names that are derived are file names. *)
LEMMA DerivedNames ==
    ASSUME NEW name \in FileName, NEW suffix \in SlotSuffixes
    PROVE  /\ (IF Len(name) > 1 THEN Front(name) ELSE name) \o <<"json", "tmp">> \in FileName
           /\ <<"run">> \in FileName /\ Append(name, suffix) \in FileName
  <1>1. CASE Len(name) > 1
    BY <1>1 DEF FileName, SlotSuffixes, Front
  <1>2. CASE ~(Len(name) > 1)
    BY <1>2 DEF FileName, SlotSuffixes
  <1> QED
    BY <1>1, <1>2

(* So the derived paths are plain too. *)
LEMMA BasePlain ==
    ASSUME NEW cfg, IsConfig(cfg), Validate(cfg), NEW b \in Bases(cfg)
    PROVE  Plain(b.path)
  <1>1. Plain(cfg.state) /\ Plain(cfg.log) /\ \A n \in Remote(cfg) : Plain(cfg.profiles[n].cache)
    BY WritablePlain
  <1>2. "causeway-a" \in SlotSuffixes
    BY DEF SlotSuffixes
  <1>3. CASE b = Base(<<"state">>, cfg.state) \/ b = Base(<<"log">>, cfg.log)
    BY <1>1, <1>3 DEF Base
  <1>4. CASE b = Base(<<"tmp">>, StateTmp(cfg.state))
    <2>1. Plain(StateTmp(cfg.state))
      <3> DEFINE name == Last(cfg.state)
                 tmp  == (IF Len(name) > 1 THEN Front(name) ELSE name) \o <<"json", "tmp">>
      <3>1. name \in FileName
        <4>1. <<"json">> \in FileName
          BY DEF FileName
        <4> QED
          BY <1>1, <4>1, PlainPaths
      <3>2. tmp \in FileName
        BY <1>2, <3>1, DerivedNames
      <3>3. StateTmp(cfg.state) = Sibling(cfg.state, tmp)
        BY DEF StateTmp
      <3> HIDE DEF tmp, name
      <3> QED
        BY <1>1, <3>2, <3>3, PlainPaths
    <2> QED
      BY <1>4, <2>1 DEF Base
  <1>5. CASE b = Base(<<"run">>, RunDir(cfg.state))
    <2>1. <<"run">> \in FileName
      BY DEF FileName
    <2>2. Plain(RunDir(cfg.state))
      BY <1>1, <2>1, PlainPaths DEF RunDir
    <2> QED
      BY <1>5, <2>2 DEF Base
  <1>6. CASE IsSlot(cfg, b)
    <2>0. PICK n \in Remote(cfg), suffix \in SlotSuffixes :
                 b = Base(<<"slot", n, suffix>>, CacheSlot(cfg.profiles[n].cache, suffix))
      BY <1>6 DEF IsSlot
    <2> DEFINE cache == cfg.profiles[n].cache
    <2>1. Plain(cache)
      BY <1>1
    <2> HIDE DEF cache
    <2>2. Last(cache) \in FileName
      <3>1. <<"json">> \in FileName
        BY DEF FileName
      <3> QED
        BY <2>1, <3>1, PlainPaths
    <2>3. Append(Last(cache), suffix) \in FileName
      BY <2>2, DerivedNames
    <2>4. Plain(CacheSlot(cache, suffix))
      BY <2>1, <2>3, PlainPaths DEF CacheSlot
    <2> QED
      BY <2>0, <2>4 DEF Base, cache
  <1> QED
    BY <1>3, <1>4, <1>5, <1>6, BaseCases

(* Each of them has a role that is written to, at the path it reaches. *)
LEMMA BaseRole ==
    ASSUME NEW cfg, IsConfig(cfg), Validate(cfg), NEW b \in Bases(cfg)
    PROVE  \E o \in Roles(cfg) :
              /\ o.label = b.label /\ o.path = Reached(b.path) /\ o.access # "read"
              /\ o.namespace = IF b.label = <<"run">> THEN "runtime" ELSE ""
  <1>0. \/ b = Base(<<"state">>, cfg.state)
        \/ b = Base(<<"tmp">>, StateTmp(cfg.state))
        \/ b = Base(<<"log">>, cfg.log)
        \/ b = Base(<<"run">>, RunDir(cfg.state))
        \/ IsSlot(cfg, b)
    BY BaseCases
  <1> DEFINE role(access, namespace) == Role(b.label, b.path, access, namespace)
  <1>1. \E access \in {"file", "dir"} :
           role(access, IF b.label = <<"run">> THEN "runtime" ELSE "") \in Roles(cfg)
    <2>1. CASE b = Base(<<"state">>, cfg.state)
      BY <2>1 DEF Base, Roles
    <2>2. CASE b = Base(<<"tmp">>, StateTmp(cfg.state))
      BY <2>2 DEF Base, Roles
    <2>3. CASE b = Base(<<"log">>, cfg.log)
      BY <2>3 DEF Base, Roles
    <2>4. CASE b = Base(<<"run">>, RunDir(cfg.state))
      BY <2>4 DEF Base, Roles
    <2>5. CASE IsSlot(cfg, b)
      <3>0. PICK n \in Remote(cfg), suffix \in SlotSuffixes :
                 b = Base(<<"slot", n, suffix>>, CacheSlot(cfg.profiles[n].cache, suffix))
        BY <2>5 DEF IsSlot
      <3>1. b.label = <<"slot", n, suffix>> /\ b.path = CacheSlot(cfg.profiles[n].cache, suffix)
        BY <3>0 DEF Base
      <3>2. b.label # <<"run">>
        <4>1. b.label[1] = "slot"
          BY <3>1
        <4> QED
          BY <4>1
      <3> QED
        BY <3>1, <3>2, SlotHasRole
    <2> QED
      BY <2>1, <2>2, <2>3, <2>4, <2>5, <1>0
  <1>2. PICK access \in {"file", "dir"} :
           role(access, IF b.label = <<"run">> THEN "runtime" ELSE "") \in Roles(cfg)
    BY <1>1
  <1> DEFINE o == role(access, IF b.label = <<"run">> THEN "runtime" ELSE "")
  <1>3. /\ o.label = b.label /\ o.path = NormalizedPath(b.path) /\ o.access = access
        /\ o.namespace = IF b.label = <<"run">> THEN "runtime" ELSE ""
    BY DEF Role
  <1>4. o \in Roles(cfg)
    BY <1>2
  <1> HIDE DEF o, role
  <1>5. NormalizedPath(b.path) # Invalid
    BY <1>3, <1>4 DEF Validate, RolesApart
  <1>6. Plain(b.path)
    BY BasePlain
  <1>7. NormalizedPath(b.path) = Reached(b.path)
    BY <1>5, <1>6, NormalizedIsReached DEF Plain, Settled
  <1> QED
    BY <1>3, <1>4, <1>7

(* The path that a label stands for. *)
LabelPath(cfg, label) ==
    CASE label[1] = "state" -> cfg.state
      [] label[1] = "tmp"   -> StateTmp(cfg.state)
      [] label[1] = "log"   -> cfg.log
      [] label[1] = "run"   -> RunDir(cfg.state)
      [] OTHER              -> CacheSlot(cfg.profiles[label[2]].cache, label[3])

(* A label has one path, and only a slot's label says more than its kind. *)
LEMMA LabelNamesBase ==
    ASSUME NEW cfg, NEW b \in Bases(cfg)
    PROVE  /\ b = Base(b.label, LabelPath(cfg, b.label))
           /\ b.label[1] \in {"state", "tmp", "log", "run", "slot"}
           /\ b.label[1] = "log" <=> b.label = <<"log">>
           /\ b.label[1] = "run" <=> b.label = <<"run">>
  <1>0. \/ b = Base(<<"state">>, cfg.state)
        \/ b = Base(<<"tmp">>, StateTmp(cfg.state))
        \/ b = Base(<<"log">>, cfg.log)
        \/ b = Base(<<"run">>, RunDir(cfg.state))
        \/ IsSlot(cfg, b)
    BY BaseCases
  <1>1. CASE b = Base(<<"state">>, cfg.state)
    BY <1>1 DEF Base, LabelPath
  <1>2. CASE b = Base(<<"tmp">>, StateTmp(cfg.state))
    BY <1>2 DEF Base, LabelPath
  <1>3. CASE b = Base(<<"log">>, cfg.log)
    BY <1>3 DEF Base, LabelPath
  <1>4. CASE b = Base(<<"run">>, RunDir(cfg.state))
    BY <1>4 DEF Base, LabelPath
  <1>5. CASE IsSlot(cfg, b)
    <2>0. PICK n \in Remote(cfg), suffix \in SlotSuffixes :
                 b = Base(<<"slot", n, suffix>>, CacheSlot(cfg.profiles[n].cache, suffix))
      BY <1>5 DEF IsSlot
    <2>1. /\ b.label[1] = "slot" /\ b.label[2] = n /\ b.label[3] = suffix
          /\ b = Base(b.label, CacheSlot(cfg.profiles[n].cache, suffix))
      BY <2>0 DEF Base
    <2> QED
      BY <2>1 DEF LabelPath
  <1> QED
    BY <1>0, <1>1, <1>2, <1>3, <1>4, <1>5

(* What the daemon writes is a base or, in a directory of its own, a file *)
(* with a name it makes.                                                  *)
LEMMA WrittenFromBase ==
    ASSUME NEW cfg, NEW w \in Written(cfg)
    PROVE  \E b \in Bases(cfg) :
              IF b.label \in OwnDirs THEN \E c \in OwnNames : w = Append(b.path, c)
              ELSE w = b.path
  <1> DEFINE state == Base(<<"state">>, cfg.state)
             tmp   == Base(<<"tmp">>, StateTmp(cfg.state))
             log   == Base(<<"log">>, cfg.log)
             run   == Base(<<"run">>, RunDir(cfg.state))
  <1>1. state \in Bases(cfg) /\ tmp \in Bases(cfg) /\ log \in Bases(cfg) /\ run \in Bases(cfg)
    BY BaseCases
  <1>2. /\ state.label \notin OwnDirs /\ state.path = cfg.state
        /\ tmp.label \notin OwnDirs /\ tmp.path = StateTmp(cfg.state)
        /\ log.label \in OwnDirs /\ log.path = cfg.log
        /\ run.label \in OwnDirs /\ run.path = RunDir(cfg.state)
    BY DEF Base, OwnDirs
  <1> HIDE DEF state, tmp, log, run
  <1>3. CASE w = cfg.state
    BY <1>1, <1>2, <1>3
  <1>4. CASE w = StateTmp(cfg.state)
    BY <1>1, <1>2, <1>4
  <1>5. CASE w = Append(cfg.log, <<"causeway", "jsonl">>)
    BY <1>1, <1>2, <1>5 DEF OwnNames
  <1>6. CASE w \in {Append(RunDir(cfg.state), <<"daemon", "lock">>), ControlSocket(cfg.state),
                    Append(RunDir(cfg.state), <<"adapters">>)}
    <2>1. \E c \in OwnNames : w = Append(RunDir(cfg.state), c)
      BY <1>6 DEF OwnNames, ControlSocket
    <2> QED
      BY <1>1, <1>2, <2>1
  <1>7. CASE \E n \in Remote(cfg), suffix \in SlotSuffixes :
                w = CacheSlot(cfg.profiles[n].cache, suffix)
    <2>0. PICK n \in Remote(cfg), suffix \in SlotSuffixes :
                 w = CacheSlot(cfg.profiles[n].cache, suffix)
      BY <1>7
    <2> DEFINE slot == Base(<<"slot", n, suffix>>, w)
    <2>1. slot \in Bases(cfg)
      <3>1. IsSlot(cfg, slot)
        BY <2>0 DEF IsSlot
      <3> QED
        BY <3>1, BaseCases
    <2>2. slot.label[1] = "slot" /\ slot.path = w
      BY DEF Base
    <2>3. slot.label \notin OwnDirs
      <3>1. \A d \in OwnDirs : d[1] # "slot"
        BY DEF OwnDirs
      <3> QED
        BY <2>2, <3>1
    <2> HIDE DEF slot
    <2> QED
      BY <2>1, <2>2, <2>3
  <1> QED
    BY <1>3, <1>4, <1>5, <1>6, <1>7 DEF Written

(* Roles of different labels that are not both in the runtime directory do *)
(* not overlap when one is written to.                                     *)
LEMMA RolesDoNotOverlap ==
    ASSUME NEW cfg, Validate(cfg), NEW o \in Roles(cfg), NEW q \in Roles(cfg),
           o.label # q.label, o.access # "read" \/ q.access # "read",
           o.namespace = "" \/ q.namespace = ""
    PROVE  ~Overlap(o.path, q.path)
  <1>1. ~Collide(o, q) /\ ~Collide(q, o)
    BY DEF Validate, RolesApart
  <1>2. ~Within(o.path, q.path)
    BY <1>1 DEF Collide, Within
  <1> QED
    BY <1>2 DEF Within, Overlap

(* Two bases do not overlap. *)
LEMMA BasesApart ==
    ASSUME NEW cfg, IsConfig(cfg), Validate(cfg), NEW a \in Bases(cfg), NEW b \in Bases(cfg),
           a.label # b.label
    PROVE  ~Overlap(Reached(a.path), Reached(b.path))
  <1>1. PICK o \in Roles(cfg) : /\ o.label = a.label /\ o.path = Reached(a.path) /\ o.access # "read"
                                /\ o.namespace = IF a.label = <<"run">> THEN "runtime" ELSE ""
    BY BaseRole
  <1>2. PICK q \in Roles(cfg) : /\ q.label = b.label /\ q.path = Reached(b.path) /\ q.access # "read"
                                /\ q.namespace = IF b.label = <<"run">> THEN "runtime" ELSE ""
    BY BaseRole
  <1>3. o.namespace = "" \/ q.namespace = ""
    BY <1>1, <1>2
  <1>4. ~Overlap(o.path, q.path)
    BY <1>1, <1>2, <1>3, RolesDoNotOverlap
  <1> QED
    BY <1>1, <1>2, <1>4

(* What is only read is a path. *)
LEMMA ReadersArePaths ==
    ASSUME NEW cfg, IsConfig(cfg), NEW r \in ReadOnly(cfg)
    PROVE  r \in Path
  <1>1. cfg.bin \in Path /\ cfg.conf \in Path
    BY DEF IsConfig
  <1>2. \A n \in Remote(cfg) : cfg.profiles[n].cache \in Path
    BY DEF IsConfig, Remote, ProfileNames
  <1>3. \A s \in Sources(cfg) : s.path \in Path
    <2> SUFFICES ASSUME NEW s \in Sources(cfg) PROVE s.path \in Path
      OBVIOUS
    <2>1. \/ \E f \in Range(cfg.files) : s = [of |-> "default", path |-> f]
          \/ \E n \in ProfileNames(cfg) : \E f \in Range(cfg.profiles[n].files) :
                s = [of |-> n, path |-> f]
          \/ \E n \in ProfileNames(cfg) :
                cfg.profiles[n].url # Absent /\ s = [of |-> n, path |-> cfg.profiles[n].url]
      <3>1. s \in LegacyFiles(cfg) => \E f \in Range(cfg.files) : s = [of |-> "default", path |-> f]
        BY DEF LegacyFiles
      <3>2. s \in ProfileFiles(cfg) =>
              \E n \in ProfileNames(cfg) : \E f \in Range(cfg.profiles[n].files) :
                 s = [of |-> n, path |-> f]
        BY DEF ProfileFiles
      <3>3. s \in ProfileUrls(cfg) =>
              \E n \in ProfileNames(cfg) :
                 cfg.profiles[n].url # Absent /\ s = [of |-> n, path |-> cfg.profiles[n].url]
        BY DEF ProfileUrls
      <3> QED
        BY <3>1, <3>2, <3>3 DEF Sources
    <2>2. ASSUME NEW q \in Seq(Path), NEW f \in Range(q) PROVE f \in Path
      BY DEF Range
    <2>3. ASSUME NEW f \in Range(cfg.files), s = [of |-> "default", path |-> f] PROVE s.path \in Path
      BY <2>2, <2>3 DEF IsConfig
    <2>4. ASSUME NEW n \in ProfileNames(cfg), NEW f \in Range(cfg.profiles[n].files),
                 s = [of |-> n, path |-> f]
          PROVE  s.path \in Path
      <3>1. cfg.profiles[n].files \in Seq(Path)
        BY DEF IsConfig, ProfileNames
      <3> QED
        BY <2>2, <2>4, <3>1
    <2>5. ASSUME NEW n \in ProfileNames(cfg), cfg.profiles[n].url # Absent,
                 s = [of |-> n, path |-> cfg.profiles[n].url]
          PROVE  s.path \in Path
      BY <2>5 DEF IsConfig, ProfileNames
    <2> QED
      BY <2>1, <2>3, <2>4, <2>5
  <1> QED
    BY <1>1, <1>2, <1>3 DEF ReadOnly

(* What is only read has a role of its own, at the path it reaches. *)
LEMMA ReaderRole ==
    ASSUME NEW cfg, IsConfig(cfg), Validate(cfg), NEW r \in ReadOnly(cfg), Settled(r)
    PROVE  \E o \in Roles(cfg) : /\ o.label[1] \in {"bin", "conf", "source", "cache"}
                                 /\ o.path = Reached(r) /\ o.namespace = ""
  <1>1. r \in Path
    BY ReadersArePaths
  <1>2. ASSUME NEW label, NEW access, Role(label, r, access, "") \in Roles(cfg),
               label[1] \in {"bin", "conf", "source", "cache"}
        PROVE  \E o \in Roles(cfg) : /\ o.label[1] \in {"bin", "conf", "source", "cache"}
                                     /\ o.path = Reached(r) /\ o.namespace = ""
    <2> DEFINE o == Role(label, r, access, "")
    <2>1. o.label = label /\ o.path = NormalizedPath(r) /\ o.namespace = ""
      BY DEF Role
    <2>2. o \in Roles(cfg)
      BY <1>2
    <2> HIDE DEF o
    <2>3. o.path = Reached(r)
      BY <1>1, <2>1, <2>2, NormalizedIsReached DEF Validate, RolesApart
    <2> QED
      BY <1>2, <2>1, <2>2, <2>3
  <1>3. CASE r = cfg.bin
    <2>1. Role(<<"bin">>, r, "read", "") \in Roles(cfg)
      BY <1>3, Zenon DEF Roles
    <2> QED
      BY <1>2, <2>1
  <1>4. CASE r = cfg.conf
    <2>1. Role(<<"conf">>, r, "read", "") \in Roles(cfg)
      BY <1>4, Zenon DEF Roles
    <2> QED
      BY <1>2, <2>1
  <1>5. CASE \E s \in Sources(cfg) : r = s.path
    <2>1. PICK s \in Sources(cfg) : r = s.path
      BY <1>5
    <2>2. Role(<<"source", s>>, r, "read", "") \in Roles(cfg)
      BY <2>1, Zenon DEF Roles
    <2> QED
      BY <1>2, <2>2
  <1>6. CASE \E n \in Remote(cfg) : r = cfg.profiles[n].cache
    <2>1. PICK n \in Remote(cfg) : r = cfg.profiles[n].cache
      BY <1>6
    <2>2. Role(<<"cache", n>>, r, "file", "") \in Roles(cfg)
      BY <2>1, Zenon DEF Roles
    <2> QED
      BY <1>2, <2>2
  <1>7. \/ r = cfg.bin \/ r = cfg.conf \/ \E s \in Sources(cfg) : r = s.path
        \/ \E n \in Remote(cfg) : r = cfg.profiles[n].cache
    BY DEF ReadOnly
  <1> QED
    BY <1>3, <1>4, <1>5, <1>6, <1>7

(* No base overlaps what is only read. *)
LEMMA BaseApartFromReader ==
    ASSUME NEW cfg, IsConfig(cfg), Validate(cfg), NEW b \in Bases(cfg),
           NEW r \in ReadOnly(cfg), Settled(r)
    PROVE  ~Overlap(Reached(b.path), Reached(r)) /\ Reached(r) \in Path
  <1>1. PICK o \in Roles(cfg) : /\ o.label = b.label /\ o.path = Reached(b.path) /\ o.access # "read"
                                /\ o.namespace = IF b.label = <<"run">> THEN "runtime" ELSE ""
    BY BaseRole
  <1>2. PICK q \in Roles(cfg) : /\ q.label[1] \in {"bin", "conf", "source", "cache"}
                                /\ q.path = Reached(r) /\ q.namespace = ""
    BY ReaderRole
  <1>3. o.label # q.label
    BY <1>1, <1>2, LabelNamesBase
  <1>4. ~Overlap(o.path, q.path)
    BY <1>1, <1>2, <1>3, RolesDoNotOverlap
  <1> QED
    BY <1>1, <1>2, <1>4, ReadersArePaths, ReachedTyped

(* What the daemon writes does not overlap what does not overlap the base. *)
LEMMA WrittenLikeBase ==
    ASSUME NEW p \in Path, NEW q \in Path, ~Overlap(Reached(p), q), q \in Path,
           NEW w, w = p \/ \E c \in OwnNames : w = Append(p, c)
    PROVE  ~Overlap(Reached(w), q) /\ ~Overlap(q, Reached(w)) /\ Reached(w) \in Path
  <1>1. Reached(p) \in Path
    BY ReachedTyped
  <1>2. CASE w = p
    BY <1>1, <1>2 DEF Overlap
  <1>3. CASE \E c \in OwnNames : w = Append(p, c)
    <2>1. PICK c \in OwnNames : w = Append(p, c)
      BY <1>3
    <2>2. c \in Component /\ Reached(w) = Append(Reached(p), c)
      BY <2>1, OwnNameReached
    <2> QED
      BY <1>1, <2>2, ChildApart, AppendedPath
  <1> QED
    BY <1>2, <1>3

(* WritesApart.  The roles keep the bases apart from each other and from   *)
(* what is only read (validate_filesystem_roles), and the rest lies in a   *)
(* base under a name no other writer has.                                  *)
LEMMA AcceptedWritesApart ==
    ASSUME input.kind = "config" => IsConfig(input.cfg)
    PROVE  WritesApart
  <1> DEFINE cfg == input.cfg
  <1>1. SUFFICES ASSUME input.kind = "config", Validate(cfg), IsConfig(cfg)
                 PROVE  /\ \A w \in Written(cfg), r \in ReadOnly(cfg) :
                             Settled(r) => ~Overlap(Reached(w), Reached(r))
                        /\ \A v, w \in Written(cfg) : v # w => ~Overlap(Reached(v), Reached(w))
                        /\ \A n, m \in Remote(cfg) : n # m =>
                             Reached(cfg.profiles[n].cache) # Reached(cfg.profiles[m].cache)
    BY DEF WritesApart
  <1> HIDE DEF cfg
  <1>2. ASSUME NEW w \in Written(cfg), NEW r \in ReadOnly(cfg), Settled(r)
        PROVE  ~Overlap(Reached(w), Reached(r))
    <2>1. PICK b \in Bases(cfg) :
              IF b.label \in OwnDirs THEN \E c \in OwnNames : w = Append(b.path, c)
              ELSE w = b.path
      BY WrittenFromBase
    <2>2. b.path \in Path
      BY <1>1, BasePlain DEF Plain
    <2>3. ~Overlap(Reached(b.path), Reached(r)) /\ Reached(r) \in Path
      BY <1>1, <1>2, BaseApartFromReader
    <2> QED
      BY <2>1, <2>2, <2>3, WrittenLikeBase
  <1>3. ASSUME NEW v \in Written(cfg), NEW w \in Written(cfg), v # w
        PROVE  ~Overlap(Reached(v), Reached(w))
    <2>1. PICK a \in Bases(cfg) :
              IF a.label \in OwnDirs THEN \E c \in OwnNames : v = Append(a.path, c)
              ELSE v = a.path
      BY WrittenFromBase
    <2>2. PICK b \in Bases(cfg) :
              IF b.label \in OwnDirs THEN \E c \in OwnNames : w = Append(b.path, c)
              ELSE w = b.path
      BY WrittenFromBase
    <2>3. a.path \in Path /\ b.path \in Path
      BY <1>1, BasePlain DEF Plain
    <2>4. Reached(a.path) \in Path /\ Reached(b.path) \in Path
      BY <2>3, ReachedTyped
    <2>5. CASE a.label # b.label
      <3>1. ~Overlap(Reached(a.path), Reached(b.path))
        BY <1>1, <2>5, BasesApart
      <3>2. v = a.path \/ \E c \in OwnNames : v = Append(a.path, c)
        BY <2>1
      <3>3. w = b.path \/ \E c \in OwnNames : w = Append(b.path, c)
        BY <2>2
      <3>4. ~Overlap(Reached(b.path), Reached(v)) /\ Reached(v) \in Path
        BY <2>3, <2>4, <3>1, <3>2, WrittenLikeBase
      <3> QED
        BY <2>3, <3>3, <3>4, WrittenLikeBase
    <2>6. CASE a.label = b.label
      <3>1. a.path = b.path
        <4>1. a = b
          BY <2>6, LabelNamesBase
        <4> QED
          BY <4>1
      <3>2. PICK c \in OwnNames : v = Append(a.path, c)
        BY <1>3, <2>1, <2>2, <2>6, <3>1
      <3>3. PICK d \in OwnNames : w = Append(a.path, d)
        BY <1>3, <2>1, <2>2, <2>6, <3>1
      <3>4. c # d /\ c \in Component /\ d \in Component
        BY <1>3, <2>3, <3>2, <3>3, OwnNameReached
      <3>5. /\ Reached(v) = Append(Reached(a.path), c)
            /\ Reached(w) = Append(Reached(a.path), d)
        BY <2>3, <3>2, <3>3, OwnNameReached
      <3> QED
        BY <2>4, <3>4, <3>5, NamesApart
    <2> QED
      BY <2>5, <2>6
  <1>4. ASSUME NEW n \in Remote(cfg), NEW m \in Remote(cfg), n # m
        PROVE  Reached(cfg.profiles[n].cache) # Reached(cfg.profiles[m].cache)
    <2> DEFINE role(k) == Role(<<"cache", k>>, cfg.profiles[k].cache, "file", "")
    <2>1. ASSUME NEW k \in Remote(cfg)
          PROVE  /\ role(k) \in Roles(cfg)
                 /\ role(k).label = <<"cache", k>> /\ role(k).access = "file"
                 /\ role(k).path = Reached(cfg.profiles[k].cache)
      <3>1. role(k) \in Roles(cfg)
        BY Zenon DEF Roles
      <3>2. /\ role(k).label = <<"cache", k>> /\ role(k).access = "file"
            /\ role(k).path = NormalizedPath(cfg.profiles[k].cache)
        BY DEF Role
      <3> HIDE DEF role
      <3>3. NormalizedPath(cfg.profiles[k].cache) # Invalid
        BY <1>1, <3>1, <3>2 DEF Validate, RolesApart
      <3>4. Plain(cfg.profiles[k].cache)
        BY <1>1, WritablePlain
      <3>5. NormalizedPath(cfg.profiles[k].cache) = Reached(cfg.profiles[k].cache)
        BY <3>3, <3>4, NormalizedIsReached DEF Plain, Settled
      <3> QED
        BY <3>1, <3>2, <3>5
    <2> HIDE DEF role
    <2>2. role(n) \in Roles(cfg) /\ role(m) \in Roles(cfg)
      BY <2>1
    <2>3. role(n).label # role(m).label /\ role(n).access # "read"
      <3>1. role(n).label = <<"cache", n>> /\ role(m).label = <<"cache", m>>
        BY <2>1
      <3> QED
        BY <1>4, <2>1, <3>1
    <2>4. role(n).path # role(m).path
      BY <1>1, <2>2, <2>3 DEF Validate, RolesApart, Collide
    <2> QED
      BY <2>1, <2>4
  <1> QED
    BY <1>2, <1>3, <1>4

(* The smaller of two numbers. *)
LEMMA MinOfTwo ==
    ASSUME NEW a \in Int, NEW b \in Int
    PROVE  Min({a, b}) <= a /\ Min({a, b}) <= b /\ Min({a, b}) \in Int
  <1>1. \E x \in {a, b} : \A y \in {a, b} : x <= y
    OBVIOUS
  <1> QED
    BY <1>1 DEF Min

(* TickFits.  A class's samples, its own or inherited, passed the same     *)
(* check against the caps of the policy (Config::validate_at).             *)
LEMMA AcceptedTickFits == TickFits
  <1> DEFINE pol == input.policy
  <1>1. SUFFICES ASSUME PolicyValid(pol), NEW c \in DOMAIN pol.classes
                 PROVE  LET n == ClassSamples(pol, c)
                        IN  /\ n >= 1 /\ n * (pol.timeout + 1000) <= 1000 * pol.interval
                            /\ n * (pol.timeout + 1000) <= 60000
    BY DEF TickFits
  <1> HIDE DEF pol
  <1> DEFINE n == ClassSamples(pol, c)
             budget == n * (pol.timeout + 1000)
  <1>2. n \in 1..10 /\ budget <= TickCap(pol.interval)
    <2>1. CASE pol.classes[c].samples # Absent
      BY <1>1, <2>1 DEF PolicyValid, ClassPolicyValid, ClassSamples, TickBudget
    <2>2. CASE pol.classes[c].samples = Absent
      BY <1>1, <2>2 DEF PolicyValid, ClassSamples, TickBudget
    <2> QED
      BY <2>1, <2>2
  <1>3. pol.interval \in Int /\ pol.timeout \in Int
    <2>1. pol.interval \in 1..MaxIntervalSecs /\ pol.timeout \in 1..MaxTimeoutMs
      BY <1>1, Zenon DEF PolicyValid
    <2>2. MaxIntervalSecs \in Int /\ MaxTimeoutMs \in Int
      BY DEF MaxIntervalSecs, MaxTimeoutMs
    <2>3. \A m \in Int : \A x \in 1..m : x \in Int
      OBVIOUS
    <2> QED
      BY <2>1, <2>2, <2>3, Zenon
  <1>4. /\ TickCap(pol.interval) <= pol.interval * 1000 /\ TickCap(pol.interval) <= 60000
        /\ TickCap(pol.interval) \in Int
    <2> DEFINE ms == pol.interval * 1000
    <2>1. ms \in Int /\ 60000 \in Int
      BY <1>3
    <2>2. TickCap(pol.interval) = Min({ms, 60000})
      BY DEF TickCap, MaxHealthTickMs
    <2> HIDE DEF ms
    <2>3. Min({ms, 60000}) <= ms /\ Min({ms, 60000}) <= 60000 /\ Min({ms, 60000}) \in Int
      BY <2>1, MinOfTwo
    <2> QED
      BY <2>2, <2>3 DEF ms
  <1>5. budget \in Int
    <2> HIDE DEF n
    <2> QED
      BY <1>2, <1>3
  <1>6. n >= 1 /\ budget <= 1000 * pol.interval /\ budget <= 60000
    <2> HIDE DEF n, budget
    <2> QED
      BY <1>2, <1>3, <1>4, <1>5
  <1> QED
    BY <1>6

(* DefaultServes.  The fallback is a profile that was validated            *)
(* (SubscriptionsConfig::validate).                                        *)
LEMMA AcceptedDefaultServes == DefaultServes
  <1> DEFINE cfg == input.cfg
             n   == DefaultProfile(cfg)
  <1>1. SUFFICES ASSUME Validate(cfg)
                 PROVE  \/ cfg.files # <<>> /\ n = "default" /\ DOMAIN cfg.profiles = {}
                        \/ /\ n \in DOMAIN cfg.profiles
                           /\ (cfg.profiles[n].files = <<>>) = (cfg.profiles[n].cache # Absent)
    BY DEF DefaultServes
  <1> HIDE DEF cfg
  <1>2. SubscriptionsValid(cfg)
    BY <1>1 DEF Validate
  <1>3. CASE cfg.files # <<>>
    <2>1. n = "default"
      BY <1>3 DEF DefaultProfile
    <2>2. DOMAIN cfg.profiles = {}
      BY <1>2, <1>3 DEF SubscriptionsValid, ProfileNames
    <2> QED
      BY <1>3, <2>1, <2>2
  <1>4. CASE cfg.files = <<>>
    <2> HIDE DEF n
    <2>1. n \in DOMAIN cfg.profiles /\ ProfileValid(cfg, n)
      BY <1>2, <1>4 DEF SubscriptionsValid, ProfileNames, n
    <2>2. /\ (cfg.profiles[n].files # <<>>) # (cfg.profiles[n].url # Absent)
          /\ (cfg.profiles[n].cache # Absent) = (cfg.profiles[n].url # Absent)
      BY <2>1 DEF ProfileValid
    <2> QED
      BY <2>1, <2>2
  <1> QED
    BY <1>3, <1>4

(* IdentityNamesFile.  What source_identity keeps of a local source is the *)
(* path it reaches.                                                        *)
LEMMA IdentityIsFile ==
    ASSUME input.kind = "spelling" => input.a \in Path /\ input.b \in Path
    PROVE  IdentityNamesFile
  <1> DEFINE local(p) == [files |-> <<p>>, url |-> Absent, cache |-> Absent]
  <1>1. SUFFICES ASSUME input.a \in Path, input.b \in Path, Settled(input.a), Settled(input.b),
                        NormalizedPath(input.a) # Invalid, NormalizedPath(input.b) # Invalid
                 PROVE  SourceIdentity(local(input.a)) = SourceIdentity(local(input.b))
                          <=> Reached(input.a) = Reached(input.b)
    BY DEF IdentityNamesFile
  <1>2. ASSUME NEW p PROVE SourceIdentity(local(p)) = [files |-> <<NormalizedPath(p)>>]
    <2>1. SourceIdentity(local(p)) = [files |-> [i \in 1..1 |-> NormalizedPath(<<p>>[i])]]
      BY DEF SourceIdentity
    <2>2. [i \in 1..1 |-> NormalizedPath(<<p>>[i])] = <<NormalizedPath(p)>>
      OBVIOUS
    <2> QED
      BY <2>1, <2>2
  <1>3. NormalizedPath(input.a) = Reached(input.a) /\ NormalizedPath(input.b) = Reached(input.b)
    BY <1>1, NormalizedIsReached
  <1> HIDE DEF local
  <1>4. /\ SourceIdentity(local(input.a)) = [files |-> <<Reached(input.a)>>]
        /\ SourceIdentity(local(input.b)) = [files |-> <<Reached(input.b)>>]
    BY <1>2, <1>3
  <1>5. \A x, y : [files |-> <<x>>] = [files |-> <<y>>] <=> x = y
    <2> SUFFICES ASSUME NEW x, NEW y, [files |-> <<x>>] = [files |-> <<y>>] PROVE x = y
      OBVIOUS
    <2>1. [files |-> <<x>>].files[1] = x /\ [files |-> <<y>>].files[1] = y
      OBVIOUS
    <2> QED
      BY <2>1
  <1> QED
    BY <1>4, <1>5

(***************************************************************************)
(* ConfigsSound.  For every configuration, policy and file system: what    *)
(* validation accepts keeps the files of the daemon apart, names sources   *)
(* by their file, can start and leaves time for every health tick          *)
(* (Config::validate_at).                                                  *)
(***************************************************************************)
THEOREM ConfigsSound == Spec => []ConfigSound
  <1>1. input \in Inputs => ConfigSound
    <2> SUFFICES ASSUME input \in Inputs PROVE ConfigSound
      OBVIOUS
    <2>1. input.kind = "config" => IsConfig(input.cfg)
      <3> SUFFICES ASSUME input.kind = "config" PROVE IsConfig(input.cfg)
        OBVIOUS
      <3>1. input.cfg \in Configs
        BY DEF Inputs
      <3> QED
        BY <3>1, ConfigsAssumption
    <2>2. input.kind = "spelling" => input.a \in Path /\ input.b \in Path
      <3> SUFFICES ASSUME input.kind = "spelling" PROVE input.a \in Path /\ input.b \in Path
        OBVIOUS
      <3>1. input.a \in Spellings /\ input.b \in Spellings
        BY DEF Inputs
      <3> QED
        BY <3>1, ConfigsAssumption
    <2> QED
      BY <2>1, <2>2, AcceptedWritesApart, AcceptedDefaultServes, IdentityIsFile, AcceptedTickFits
      DEF ConfigSound
  <1> QED
    BY <1>1, InputStays, PTL

=============================================================================
