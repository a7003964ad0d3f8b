-------------------------- MODULE DecisionsProofs --------------------------
(***************************************************************************)
(* Proofs about the state machines of Decisions: the health check for any  *)
(* number of samples, the fetcher for any limit, pipe and body, the        *)
(* observer of routes for any tables, delay and cooldown, and the saving   *)
(* of the state file for any number of saves.                              *)
(***************************************************************************)
EXTENDS Decisions, TLAPS

-----------------------------------------------------------------------------
(* The health check.                                                        *)

(* The loop is somewhere else in the same sample. *)
LEMMA GotoEffect ==
    ASSUME HealthInv, NEW at, Goto(at)
    PROVE  check'.at = at /\ check'.sample = check.sample /\ check'.clock = check.clock
           /\ DOMAIN check' = {"at", "sample", "clock"}
  BY DEF Goto, HealthInv

(* The invariant depends on the target, the place in the check and what is proven. *)
LEMMA GotoHealth ==
    ASSUME HealthInv, NEW at \in {"spacing", "stopped"} \cup Exchange \cup Verdicts, Goto(at),
           UNCHANGED <<form>>, proven \subseteq proven', proven' \subseteq 1..Samples,
           at \in Exchange => check.at \in Exchange,
           at = "probe" => form = "connect",
           at \notin {"spacing", "Healthy"}
    PROVE  HealthInv'
  <1>1. check' \in [at : {"interval", "spacing", "stopped"} \cup Exchange \cup Verdicts,
                    sample : 0..Samples, clock : Nat]
    BY DEF Goto, HealthInv
  <1>2. check'.at = at /\ check'.sample = check.sample
    BY GotoEffect
  <1>3. at \in Exchange => check'.sample # 0 /\ 1..(check'.sample - 1) \subseteq proven'
    BY <1>2 DEF HealthInv
  <1> QED
    BY <1>1, <1>2, <1>3 DEF HealthInv, Exchange, Verdicts

(* A sample that passes has been proven. *)
LEMMA PassesHealth ==
    ASSUME HealthInv, check.at \in Exchange, Passes, Proves, UNCHANGED form
    PROVE  HealthInv'
  <1> USE HealthAssumption
  <1>1. check.sample \in 1..Samples /\ 1..(check.sample - 1) \subseteq proven
    BY DEF HealthInv
  <1>2. 1..check.sample \subseteq proven' /\ proven' \subseteq 1..Samples
    <2>1. proven' = proven \cup {check.sample} /\ proven \subseteq 1..Samples
      BY DEF Proves, HealthInv
    <2>2. \A i \in 1..check.sample : i = check.sample \/ i \in 1..(check.sample - 1)
      BY <1>1
    <2> QED
      BY <1>1, <2>1, <2>2
  <1>3. check' \in [at : {"interval", "spacing", "stopped"} \cup Exchange \cup Verdicts,
                    sample : 0..Samples, clock : Nat]
    BY DEF Passes, HealthInv, Verdicts
  <1>4. \/ check.sample = Samples /\ check'.at = "Healthy"
        \/ check.sample # Samples /\ check'.at = "spacing" /\ check'.sample = check.sample
    BY DEF Passes, HealthInv
  <1> QED
    BY <1>1, <1>2, <1>3, <1>4 DEF HealthInv, Exchange

(* Every step of the health loop and of its surroundings keeps the invariant. *)
LEMMA HealthStep == HealthInv /\ HealthNext => HealthInv'
  <1> SUFFICES ASSUME HealthInv, HealthNext PROVE HealthInv'
    OBVIOUS
  <1> USE HealthAssumption
  <1>0. proven \subseteq 1..Samples /\ check.sample \in 0..Samples /\ check.clock \in Nat
    BY DEF HealthInv
  <1>1. CASE RemoteChange \/ Signal
    BY <1>1 DEF RemoteChange, Signal, HealthInv
  <1>2. ASSUME Sample, ~stopping, UNCHANGED form, proven' \subseteq 1..Samples, 
               check.sample < Samples, 1..check.sample \subseteq proven'
        PROVE  HealthInv'
    <2>1. check' = [at |-> "dial", sample |-> check.sample + 1, clock |-> 0]
      BY <1>2 DEF Sample
    <2>2. /\ check' \in [at : {"interval", "spacing", "stopped"} \cup Exchange \cup Verdicts,
                         sample : 0..Samples, clock : Nat]
          /\ check'.at = "dial" /\ check'.sample = check.sample + 1
      BY <1>0, <1>2, <2>1 DEF Exchange
    <2> QED
      BY <1>0, <1>2, <2>2 DEF HealthInv, Exchange
  <1>3. ASSUME Sample, stopping, UNCHANGED form, proven' \subseteq 1..Samples
        PROVE  HealthInv'
    <2>1. check' \in [at : {"interval", "spacing", "stopped"} \cup Exchange \cup Verdicts,
                      sample : 0..Samples, clock : Nat]
      BY <1>3 DEF Sample, Goto, HealthInv, Verdicts
    <2>2. check'.at = "Cancelled"
      BY <1>3, GotoEffect DEF Sample
    <2> QED
      BY <1>3, <2>1, <2>2 DEF HealthInv, Exchange
  <1>4. CASE StartTick
    <2>1. check.sample = 0 /\ proven' = {} /\ Sample /\ form' = form
      BY <1>4 DEF StartTick, HealthInv
    <2> QED
      BY <1>2, <1>3, <2>1
  <1>5. CASE NextSample
    <2>1. check.sample < Samples /\ 1..check.sample \subseteq proven /\ proven' = proven /\ Sample /\ form' = form
      BY <1>5 DEF NextSample, HealthInv
    <2> QED
      BY <1>0, <1>2, <1>3, <2>1
  <1>6. CASE Dial
    BY <1>0, <1>6, GotoHealth DEF Dial, Fails, Exchange, Verdicts
  <1>7. CASE GetStatus
    <2>1. CASE Proves /\ Passes
      BY <1>7, <2>1, PassesHealth DEF GetStatus, Exchange
    <2>2. CASE Fails /\ (Proves \/ UNCHANGED proven)
      <3>1. proven \subseteq proven' /\ proven' \subseteq 1..Samples
        <4>1. check.sample \in 1..Samples
          BY <1>0, <1>7 DEF GetStatus, HealthInv, Exchange
        <4> QED
          BY <1>0, <2>2, <4>1 DEF Proves
      <3> QED
        BY <1>7, <2>2, <3>1, GotoHealth DEF GetStatus, Fails, Exchange, Verdicts
    <2> QED
      BY <1>7, <2>1, <2>2 DEF GetStatus
  <1>8. CASE TunnelOpen
    BY <1>0, <1>8, GotoHealth DEF TunnelOpen, Fails, Exchange, Verdicts
  <1>9. CASE ProbeAnswer
    <2>1. CASE Proves /\ Passes
      BY <1>9, <2>1, PassesHealth DEF ProbeAnswer, Exchange
    <2>2. CASE Fails /\ UNCHANGED proven
      BY <1>0, <1>9, <2>2, GotoHealth DEF ProbeAnswer, Fails, Exchange, Verdicts
    <2> QED
      BY <1>9, <2>1, <2>2 DEF ProbeAnswer
  <1>10. CASE TimedOut
    BY <1>0, <1>10, GotoHealth DEF TimedOut, Fails, Exchange, Verdicts
  <1>11. CASE TakeVerdict
    <2>1. /\ check'.at \in {"stopped", "interval"} /\ check'.sample = 0 /\ form' = form /\ proven' = proven
          /\ check' \in [at : {"interval", "spacing", "stopped"} \cup Exchange \cup Verdicts,
                         sample : 0..Samples, clock : Nat]
      BY <1>11 DEF TakeVerdict
    <2> QED
      BY <2>1 DEF HealthInv, Exchange
  <1>12. CASE StopWaiting
    BY <1>0, <1>12, GotoHealth DEF StopWaiting, Exchange
  <1>13. CASE Pass
    <2>1. /\ check'.at = check.at /\ check'.sample = check.sample /\ form' = form /\ proven' = proven
          /\ check' \in [at : {"interval", "spacing", "stopped"} \cup Exchange \cup Verdicts,
                         sample : 0..Samples, clock : Nat]
      BY <1>13 DEF Pass, HealthInv
    <2> QED
      BY <2>1 DEF HealthInv
  <1> QED
    BY <1>1, <1>4, <1>5, <1>6, <1>7, <1>8, <1>9, <1>10, <1>11, <1>12, <1>13 DEF HealthNext, LoopStep

(***************************************************************************)
(* HealthyIsAnswered.  For any number of samples and any timeout, a tick   *)
(* is booked as healthy only if the destination itself sent a byte in each *)
(* of them: neither the adapter's own CONNECT answer nor a shutdown, a     *)
(* timeout or a destination that comes and goes makes up for a sample      *)
(* (is_healthy_sampled, connect_status_timed).                             *)
(***************************************************************************)
THEOREM HealthyIsAnswered == Spec => []HealthyMeansAnswered
  <1>1. Init => HealthInv
    BY HealthAssumption DEF Init, HealthInit, HealthInv, Exchange
  <1>2. HealthInv /\ [Next]_vars => HealthInv'
    <2>1. ASSUME HealthInv, UNCHANGED healthVars PROVE HealthInv'
      BY <2>1 DEF HealthInv, healthVars
    <2> QED
      BY <2>1, HealthStep DEF Next, vars
  <1>3. HealthInv => HealthyMeansAnswered
    BY DEF HealthInv, HealthyMeansAnswered
  <1> QED
    BY <1>1, <1>2, <1>3, PTL DEF Spec

(* What the samples before have at most taken. *)
LEMMA ShareGrows ==
    /\ \A n \in Nat : Share(n) \in Nat
    /\ Share(0) = 0
    /\ \A n \in Nat \ {0} : Share(n) = Share(n - 1) + CheckTimeout + Spacing
    /\ \A n \in 0..Samples : Share(n) <= Budget
  <1> USE HealthAssumption
  <1>1. PICK P \in Nat : P = CheckTimeout + Spacing
    OBVIOUS
  <1>2. \A n \in Nat : Share(n) = n * P /\ n * P \in Nat
    BY <1>1 DEF Share
  <1>3. \A n \in Nat \ {0} : n * P = (n - 1) * P + P
    BY <1>1
  <1>4. ASSUME NEW n \in 0..Samples PROVE n * P <= Samples * P
    <2>1. PICK k \in Nat : Samples = n + k
      BY <1>4
    <2>2. Samples * P = n * P + k * P /\ k * P \in Nat /\ n * P \in Nat
      BY <1>1, <2>1
    <2> QED
      BY <1>1, <2>2
  <1> QED
    BY <1>1, <1>2, <1>3, <1>4 DEF Budget, Share

(* A verdict within the tick keeps the invariant. *)
LEMMA VerdictTick ==
    ASSUME TickInv, HealthInv', check.at \in Exchange \cup {"spacing"}, check'.at \in Verdicts,
           check'.sample = check.sample, UNCHANGED <<stopping, spent, late>>
    PROVE  TickInv'
  <1> USE HealthAssumption
  <1>1. check.sample \in 1..Samples /\ check.clock \in Nat /\ spent \in Nat /\ late \in Nat
    BY DEF TickInv, HealthInv
  <1>2. Share(check.sample) = Share(check.sample - 1) + CheckTimeout + Spacing /\ Share(check.sample - 1) \in Nat
    BY <1>1, ShareGrows
  <1>3. spent <= Share(check.sample) /\ late <= CheckTimeout + Spacing
    BY <1>1, <1>2 DEF TickInv
  <1>4. spent' <= Share(check'.sample) /\ late' <= CheckTimeout + Spacing
    BY <1>3
  <1> QED
    BY <1>1, <1>4 DEF TickInv, Verdicts, Exchange

(* A sample that passes is followed by a pause or the verdict. *)
LEMMA PassesTick ==
    ASSUME TickInv, HealthInv', check.at \in Exchange, Passes, UNCHANGED <<stopping, spent, late>>
    PROVE  TickInv'
  <1> USE HealthAssumption
  <1>1. check.sample \in 1..Samples /\ check.clock \in Nat /\ Share(check.sample - 1) \in Nat
    <2>1. check.sample \in 1..Samples /\ check.clock \in Nat
      BY DEF TickInv, HealthInv
    <2> QED
      BY <2>1, ShareGrows
  <1>2. CASE check'.at = "Healthy" /\ check'.sample = check.sample
    BY <1>2, VerdictTick DEF Verdicts
  <1>3. CASE check'.at = "spacing" /\ check'.sample = check.sample /\ check'.clock = 0
    BY <1>1, <1>3 DEF TickInv, Verdicts, Exchange
  <1> QED
    BY <1>2, <1>3 DEF Passes, TickInv, HealthInv

(* Every step keeps the time of the tick within bounds. *)
LEMMA TickStep == TickInv /\ HealthNext => TickInv'
  <1> SUFFICES ASSUME TickInv, HealthNext PROVE TickInv'
    OBVIOUS
  <1> USE HealthAssumption
  <1>0. /\ HealthInv /\ HealthInv' /\ spent \in Nat /\ late \in Nat
        /\ check.sample \in 0..Samples /\ check.clock \in Nat
    BY HealthStep DEF TickInv, HealthInv
  <1>1. CASE RemoteChange \/ Signal
    BY <1>0, <1>1 DEF RemoteChange, Signal, TickInv
  <1>2. ASSUME NEW at \in Exchange \cup {"Unhealthy"}, Goto(at), check.at \in Exchange,
               UNCHANGED <<stopping, spent, late>>
        PROVE  TickInv'
    <2>1. check'.at = at /\ check'.sample = check.sample /\ check'.clock = check.clock
      BY <1>0, <1>2, GotoEffect
    <2>2. CASE at \in Verdicts
      BY <1>0, <1>2, <2>1, <2>2, VerdictTick
    <2>3. CASE at \in Exchange
      BY <1>0, <1>2, <2>1, <2>3 DEF TickInv, Exchange, Verdicts
    <2> QED
      BY <2>2, <2>3 DEF Verdicts
  <1>3. CASE StartTick
    <2>1. check.sample = 0 /\ spent' = 0 /\ late' = 0 /\ stopping' = stopping /\ Sample
      BY <1>0, <1>3 DEF StartTick, HealthInv
    <2>2. CASE stopping
      <3>1. check'.at = "Cancelled" /\ check'.sample = 0
        BY <1>0, <2>1, <2>2, GotoEffect DEF Sample
      <3> QED
        BY <1>0, <2>1, <3>1, ShareGrows DEF TickInv, Exchange, Verdicts
    <2>3. CASE ~stopping
      <3>1. check'.at = "dial" /\ check'.sample = 1 /\ check'.clock = 0
        BY <2>1, <2>3 DEF Sample
      <3> QED
        BY <1>0, <2>1, <3>1, ShareGrows DEF TickInv, Exchange, Verdicts
    <2> QED
      BY <2>2, <2>3
  <1>4. CASE NextSample
    <2>1. /\ check.at = "spacing" /\ check.clock = Spacing /\ check.sample \in 1..Samples
          /\ spent' = spent /\ late' = late /\ stopping' = stopping /\ Sample
      BY <1>0, <1>4 DEF NextSample, TickInv
    <2>2. CASE stopping
      <3>1. check'.at = "Cancelled" /\ check'.sample = check.sample
        BY <1>0, <2>1, <2>2, GotoEffect DEF Sample
      <3> QED
        BY <1>0, <2>1, <3>1, VerdictTick DEF Verdicts
    <2>3. CASE ~stopping
      <3>1. check'.at = "dial" /\ check'.sample = check.sample + 1 /\ check'.clock = 0 /\ late = 0
        BY <2>1, <2>3 DEF Sample, TickInv
      <3>2. /\ Share(check.sample) = Share(check.sample - 1) + CheckTimeout + Spacing
            /\ Share(check.sample) \in Nat /\ Share(check.sample - 1) \in Nat
        BY <2>1, ShareGrows
      <3>3. spent <= Share(check.sample)
        BY <1>0, <2>1, <3>2 DEF TickInv
      <3>4. check'.sample - 1 = check.sample
        BY <2>1, <3>1
      <3>5. spent' <= Share(check'.sample - 1) + check'.clock
        BY <2>1, <3>1, <3>2, <3>3, <3>4
      <3> QED
        BY <1>0, <2>1, <3>1, <3>5 DEF TickInv, Exchange, Verdicts
    <2> QED
      BY <2>2, <2>3
  <1>5. CASE Dial
    BY <1>2, <1>5 DEF Dial, Fails, Exchange
  <1>6. CASE GetStatus
    <2>1. CASE Passes
      BY <1>0, <1>6, <2>1, PassesTick DEF GetStatus, Exchange
    <2>2. CASE Fails
      BY <1>2, <1>6, <2>2 DEF GetStatus, Fails, Exchange
    <2> QED
      BY <1>6, <2>1, <2>2 DEF GetStatus
  <1>7. CASE TunnelOpen
    BY <1>2, <1>7 DEF TunnelOpen, Fails, Exchange
  <1>8. CASE ProbeAnswer
    <2>1. CASE Passes
      BY <1>0, <1>8, <2>1, PassesTick DEF ProbeAnswer, Exchange
    <2>2. CASE Fails
      BY <1>2, <1>8, <2>2 DEF ProbeAnswer, Fails, Exchange
    <2> QED
      BY <1>8, <2>1, <2>2 DEF ProbeAnswer
  <1>9. CASE TimedOut
    BY <1>2, <1>9 DEF TimedOut, Fails
  <1>10. CASE TakeVerdict \/ StopWaiting
    <2>1. /\ check'.at \in {"stopped", "interval"}
          /\ spent' = spent /\ late' = late /\ stopping' = stopping
      BY <1>0, <1>10, GotoEffect DEF TakeVerdict, StopWaiting
    <2> QED
      BY <1>0, <2>1 DEF TickInv, Exchange, Verdicts
  <1>11. CASE Pass
    <2>1. /\ check'.at = check.at /\ check'.sample = check.sample /\ check'.clock = check.clock + 1
          /\ stopping' = stopping /\ spent' \in Nat /\ late' \in Nat /\ spent' <= spent + 1
          /\ late' <= late + 1 /\ (~stopping => late' = late)
          /\ check.at \in Exchange \cup {"spacing"}
      BY <1>0, <1>11 DEF Pass, HealthInv
    <2>2. CASE check.at \in Exchange
      <3>1. /\ check.clock <= CheckTimeout /\ check.clock # CheckTimeout
            /\ spent <= Share(check.sample - 1) + check.clock /\ late <= check.clock
            /\ check.sample \in 1..Samples
        BY <1>0, <1>11, <2>2 DEF Pass, Due, TickInv, HealthInv, Exchange
      <3>2. Share(check.sample - 1) \in Nat
        BY <3>1, ShareGrows
      <3>3. /\ check'.clock <= CheckTimeout /\ late' <= check'.clock
            /\ spent' <= Share(check'.sample - 1) + check'.clock
        BY <1>0, <2>1, <3>1, <3>2
      <3> QED
        BY <1>0, <2>1, <2>2, <3>3 DEF TickInv, Exchange, Verdicts
    <2>3. CASE check.at = "spacing"
      <3>1. /\ check.clock <= Spacing /\ check.clock # Spacing
            /\ spent <= Share(check.sample - 1) + CheckTimeout + check.clock
            /\ late <= CheckTimeout + check.clock /\ check.sample \in 1..Samples
        BY <1>0, <1>11, <2>3 DEF Pass, Due, TickInv
      <3>2. Share(check.sample - 1) \in Nat
        BY <3>1, ShareGrows
      <3>3. /\ check'.clock <= Spacing /\ late' <= CheckTimeout + check'.clock
            /\ spent' <= Share(check'.sample - 1) + CheckTimeout + check'.clock
        BY <1>0, <2>1, <3>1, <3>2
      <3> QED
        BY <1>0, <2>1, <2>3, <3>1, <3>3 DEF TickInv, Exchange, Verdicts
    <2> QED
      BY <2>1, <2>2, <2>3
  <1> QED
    BY <1>1, <1>3, <1>4, <1>5, <1>6, <1>7, <1>8, <1>9, <1>10, <1>11 DEF HealthNext, LoopStep

(***************************************************************************)
(* TicksKeepTheirBudget.  For any number of samples, timeout and pause: a  *)
(* tick takes samples * (timeout + SAMPLE_SPACING) at most, which is what  *)
(* the configuration allows for, and after a shutdown signal one exchange  *)
(* and one pause at most, whatever answers and whatever stays silent       *)
(* (is_healthy_sampled).                                                   *)
(***************************************************************************)
THEOREM TicksKeepTheirBudget == Spec => [](TickWithinBudget /\ StopsWithinSample)
  <1> USE HealthAssumption
  <1>1. Init => TickInv
    BY DEF Init, HealthInit, TickInv, HealthInv, Exchange, Verdicts
  <1>2. TickInv /\ [Next]_vars => TickInv'
    <2>1. ASSUME TickInv, UNCHANGED healthVars PROVE TickInv'
      BY <2>1 DEF TickInv, HealthInv, healthVars
    <2> QED
      BY <2>1, TickStep DEF Next, vars
  <1>3. TickInv => TickWithinBudget /\ StopsWithinSample
    <2> SUFFICES ASSUME TickInv, InTick PROVE spent <= Budget /\ late <= CheckTimeout + Spacing
      BY DEF TickWithinBudget, StopsWithinSample
    <2>1. check.sample \in 0..Samples /\ check.clock \in Nat /\ spent \in Nat /\ late \in Nat
      BY DEF TickInv, HealthInv
    <2>2. CASE check.at \in Verdicts
      <3>1. Share(check.sample) <= Budget /\ Share(check.sample) \in Nat /\ Budget \in Nat
        BY <2>1, ShareGrows DEF Budget
      <3> QED
        BY <2>1, <2>2, <3>1 DEF TickInv
    <2>3. CASE check.at \in Exchange \cup {"spacing"}
      <3>1. check.sample \in 1..Samples
        BY <2>1, <2>3 DEF TickInv, HealthInv
      <3>2. /\ Share(check.sample) <= Budget /\ Share(check.sample) \in Nat /\ Budget \in Nat
            /\ Share(check.sample) = Share(check.sample - 1) + CheckTimeout + Spacing
            /\ Share(check.sample - 1) \in Nat
        BY <3>1, ShareGrows DEF Budget
      <3> QED
        BY <2>1, <2>3, <3>2 DEF TickInv
    <2> QED
      BY <2>2, <2>3 DEF InTick
  <1> QED
    BY <1>1, <1>2, <1>3, PTL DEF Spec

-----------------------------------------------------------------------------
(* The fetcher.                                                             *)

(* Every step of the fetching task and of curl keeps the invariant. *)
LEMMA FetchNextInv == FetchInv /\ FetchNext => FetchInv'
  <1> SUFFICES ASSUME FetchInv, FetchNext PROVE FetchInv'
    OBVIOUS
  <1> USE FetchAssumption DEF FetchInv
  <1>0. ASSUME NEW result \in Results, Return(result)
        PROVE  /\ fetch' \in [at : {"idle", "spawn", "config", "read", "wait", "drop", "done"},
                              attempt : Nat, got : Nat, result : Results \cup {"none"}]
               /\ fetch'.at = "drop" /\ fetch'.result = result /\ fetch'.got = fetch.got
    BY <1>0 DEF Return
  <1> USE DEF Results
  <1>1. CASE CheckUrlFile
    BY <1>0, <1>1 DEF CheckUrlFile
  <1>2. CASE Spawned
    BY <1>2 DEF Spawned
  <1>3. CASE SpawnBusy \/ SpawnFails
    BY <1>0, <1>3 DEF SpawnBusy, SpawnFails
  <1>4. CASE WriteConfig
    BY <1>0, <1>4 DEF WriteConfig
  <1>5. CASE ReadBody
    BY <1>0, <1>5 DEF ReadBody
  <1>6. CASE FetchWait
    BY <1>0, <1>6 DEF FetchWait
  <1>7. CASE DropFetcher
    BY <1>7 DEF DropFetcher
  <1>8. CASE CurlSends
    <2>1. /\ curl'.at = curl.at /\ curl'.left = curl.left - 1 /\ curl'.pipe = curl.pipe + 1
          /\ curl'.ok = curl.ok /\ curl'.size = curl.size /\ fetch' = fetch
          /\ curl.at = "sending" /\ curl.left > 0
      BY <1>8 DEF CurlSends
    <2>2. curl' \in [at : {"none", "config", "sending", "exited", "reaped"},
                     left : Nat, pipe : Nat, ok : BOOLEAN, size : Nat]
      <3>1. curl.left - 1 \in Nat /\ curl.pipe + 1 \in Nat
        BY <2>1
      <3>2. \A a, b \in Nat : [curl EXCEPT !.left = a, !.pipe = b]
                 \in [at : {"none", "config", "sending", "exited", "reaped"},
                      left : Nat, pipe : Nat, ok : BOOLEAN, size : Nat]
        OBVIOUS
      <3> QED
        BY <1>8, <3>1, <3>2 DEF CurlSends
    <2> QED
      BY <2>1, <2>2
  <1>9. CASE CurlExits
    BY <1>9 DEF CurlExits
  <1> QED
    BY <1>1, <1>2, <1>3, <1>4, <1>5, <1>6, <1>7, <1>8, <1>9 DEF FetchNext, FetchStep

(***************************************************************************)
(* BodiesAreWhole.  For any limit, pipe and body, what the fetcher accepts *)
(* is the provider's whole body and within the limit                       *)
(* (communicate_with_fetcher_limit); and when it is done its process is    *)
(* reaped (OwnedFetcher).                                                  *)
(***************************************************************************)
THEOREM BodiesAreWhole == Spec => [](OnlyWholeBodies /\ FetcherReaped)
  <1>1. Init => FetchInv
    BY FetchAssumption DEF Init, FetchInit, FetchInv
  <1>2. FetchInv /\ [Next]_vars => FetchInv'
    <2>1. ASSUME FetchInv, UNCHANGED fetchVars PROVE FetchInv'
      BY <2>1 DEF FetchInv, fetchVars
    <2> QED
      BY <2>1, FetchNextInv DEF Next, vars
  <1>3. FetchInv => OnlyWholeBodies /\ FetcherReaped
    BY DEF FetchInv, OnlyWholeBodies, FetcherReaped
  <1> QED
    BY <1>1, <1>2, <1>3, PTL DEF Spec

-----------------------------------------------------------------------------
(* The observer of routes.                                                  *)

(* A signature is never Nothing, and what is read is one. *)
LEMMA ReadIsSignature == EgressInv => Signature(table) \in Signatures /\ Signature(table) # Nothing
  BY NothingAssumption DEF EgressInv, Signatures

(* A round of the observer keeps the invariant. *)
LEMMA RoundKeepsEgress == EgressInv /\ EgressRound => EgressInv'
  <1> SUFFICES ASSUME EgressInv, EgressRound PROVE EgressInv'
    OBVIOUS
  <1> USE StableForAssumption, CooldownAssumption, NothingAssumption
  <1>1. PICK sig \in Signatures :
          /\ sig # Nothing /\ Observe(sig) /\ table' = table
          /\ sig = read.sig => read' = [read EXCEPT !.seen = read.age]
          /\ sig # read.sig => read' = [sig |-> sig, age |-> 0, seen |-> 0]
          /\ delivered' # Nothing => since' = 0
          /\ delivered' = Nothing => since' = since
    BY ReadIsSignature DEF EgressRound
  <1>2. /\ read' \in [sig : Signatures \cup {Nothing}, age : Nat, seen : Nat] /\ read'.sig = sig
        /\ sig = read.sig => read'.age = read.age /\ read'.seen = read.age
        /\ sig # read.sig => read'.age = 0 /\ read'.seen = 0
    BY <1>1 DEF EgressInv
  <1>3. CASE baseline' = sig /\ candidate' = Nothing /\ last' = since' /\ last' \in Nat \cup {Nothing}
    BY <1>1, <1>2, <1>3 DEF EgressInv, StableIsKnown
  <1>4. CASE baseline = Nothing
    <2>1. baseline' = sig /\ delivered' = Nothing /\ candidate' = Nothing /\ last' = last
      BY <1>1, <1>4 DEF Observe, EgressInv
    <2> QED
      BY <1>1, <1>3, <2>1 DEF EgressInv
  <1>5. CASE baseline # Nothing /\ baseline = sig
    <2>1. baseline' = sig /\ delivered' = Nothing /\ candidate' = Nothing /\ last' = last
      BY <1>1, <1>5 DEF Observe
    <2> QED
      BY <1>1, <1>3, <2>1 DEF EgressInv
  <1>6. CASE baseline # Nothing /\ baseline # sig /\ InCooldown
    <2>1. baseline' = sig /\ delivered' = Nothing /\ candidate' = Nothing /\ last' = last
      BY <1>1, <1>6 DEF Observe, Fold
    <2> QED
      BY <1>1, <1>3, <2>1 DEF EgressInv
  <1>7. CASE baseline # Nothing /\ baseline # sig /\ ~InCooldown /\ Ripe(sig)
    <2>1. /\ baseline' = sig /\ candidate' = Nothing
          /\ \/ last' = 0 /\ delivered' = sig
             \/ last' = last /\ delivered' = Nothing
      BY <1>1, <1>7 DEF Observe, Confirm
    <2> QED
      BY <1>1, <1>3, <2>1 DEF EgressInv
  <1>8. CASE baseline # Nothing /\ baseline # sig /\ ~InCooldown /\ ~Ripe(sig)
    <2>1. /\ baseline' = baseline /\ last' = last /\ delivered' = Nothing
          /\ \/ candidate # Nothing /\ candidate.sig = sig /\ candidate' = candidate
             \/ (candidate = Nothing \/ candidate.sig # sig) /\ candidate' = [sig |-> sig, age |-> 0]
      BY <1>1, <1>8 DEF Observe, Wait
    <2>2. CASE candidate # Nothing /\ candidate.sig = sig /\ candidate' = candidate
      <3>1. sig = read.sig /\ candidate.age = read.age /\ candidate.age \in Nat /\ ~(candidate.age >= StableFor)
        BY <1>8, <2>2 DEF EgressInv, Ripe
      <3> QED
        BY <1>1, <1>2, <2>1, <2>2, <3>1 DEF EgressInv, StableIsKnown
    <2>3. CASE (candidate = Nothing \/ candidate.sig # sig) /\ candidate' = [sig |-> sig, age |-> 0]
      <3>1. sig # read.sig
        BY <1>8, <2>3 DEF EgressInv
      <3>2. candidate' \in [sig : Signatures, age : Nat] /\ candidate'.sig = sig /\ candidate'.age = 0
        BY <2>3
      <3>3. candidate' # Nothing
        BY <3>2
      <3>4. read'.seen = 0 /\ read'.age = 0 /\ read'.sig = sig /\ ~(0 >= StableFor)
        BY <1>2, <3>1
      <3>5. StableIsKnown'
        BY <3>4 DEF StableIsKnown
      <3>6. /\ table' \in Tables /\ baseline' \in Signatures \cup {Nothing} /\ baseline' # Nothing
            /\ last' \in Nat \cup {Nothing} /\ since' = last'
        BY <1>1, <1>8, <2>1 DEF EgressInv
      <3> QED
        BY <1>2, <3>2, <3>3, <3>4, <3>5, <3>6 DEF EgressInv
    <2> QED
      BY <2>1, <2>2, <2>3
  <1> QED
    BY <1>4, <1>5, <1>6, <1>7, <1>8

(* Every step keeps the invariant of the observer. *)
LEMMA EgressStep == EgressInv /\ EgressNext => EgressInv'
  <1> SUFFICES ASSUME EgressInv, EgressNext PROVE EgressInv'
    OBVIOUS
  <1> USE StableForAssumption, CooldownAssumption, NothingAssumption
  <1>1. CASE RouteChange
    BY <1>1 DEF RouteChange, EgressInv, observerVars, StableIsKnown
  <1>2. CASE Elapse
    <2>1. Older(last, Cooldown) \in Nat \cup {Nothing} /\ Older(read.age, StableFor) \in Nat
      BY DEF EgressInv, Older
    <2>2. /\ read' \in [sig : Signatures \cup {Nothing}, age : Nat, seen : Nat]
          /\ read'.sig = read.sig /\ read'.seen = read.seen /\ read'.age = Older(read.age, StableFor)
      BY <1>2, <2>1 DEF Elapse, EgressInv
    <2>3. CASE candidate = Nothing
      BY <1>2, <2>1, <2>2, <2>3 DEF Elapse, EgressInv, StableIsKnown
    <2>4. CASE candidate # Nothing
      <3>1. candidate \in [sig : Signatures, age : Nat] /\ candidate.age = read.age
        BY <2>4 DEF EgressInv
      <3>2. candidate' = [candidate EXCEPT !.age = Older(candidate.age, StableFor)]
        BY <1>2, <2>4 DEF Elapse
      <3>3. /\ candidate' \in [sig : Signatures, age : Nat]
            /\ candidate'.sig = candidate.sig /\ candidate'.age = Older(read.age, StableFor)
        BY <2>1, <3>1, <3>2
      <3> QED
        BY <1>2, <2>1, <2>2, <2>4, <3>1, <3>3 DEF Elapse, EgressInv, StableIsKnown
    <2> QED
      BY <2>3, <2>4
  <1>3. CASE EgressRound
    BY <1>3, RoundKeepsEgress
  <1> QED
    BY <1>1, <1>2, <1>3 DEF EgressNext

(* The routes of a signature's family are equally good. *)
LEMMA EquallyGood ==
    ASSUME NEW sig \in Signatures, NEW f \in Families, NEW r \in sig[f]
    PROVE  r.metric \in Nat /\ \A q \in sig[f] : q.metric = r.metric
  <1>1. PICK routes \in Tables : sig = Signature(routes)
    BY DEF Signatures
  <1>2. sig[f] = Preferred({q \in routes : q.family = f})
    BY <1>1 DEF Signature
  <1>3. \A q \in sig[f] : q \in routes /\ q.metric \in Nat /\ \A o \in sig[f] : q.metric <= o.metric
    BY <1>2, TablesAssumption DEF Preferred
  <1> QED
    BY <1>3

(* Two signatures that differ differ in a route no worse than any of them. *)
LEMMA DifferenceIsPreferred ==
    ASSUME NEW a \in Signatures, NEW b \in Signatures, a # b
    PROVE  \E f \in Families : \E r \in UNION {a[f], b[f]} :
              /\ (r \in a[f]) # (r \in b[f])
              /\ \A q \in a[f] \cup b[f] : r.metric <= q.metric
  <1>1. PICK f \in Families : a[f] # b[f]
    BY DEF Signatures, Signature
  <1>2. \A r \in a[f] : r.metric \in Nat /\ \A q \in a[f] : q.metric = r.metric
    BY EquallyGood
  <1>3. \A r \in b[f] : r.metric \in Nat /\ \A q \in b[f] : q.metric = r.metric
    BY EquallyGood
  <1>4. CASE \E r \in a[f] : \A q \in b[f] : r.metric < q.metric
    <2>1. PICK r \in a[f] : \A q \in b[f] : r.metric < q.metric
      BY <1>4
    <2>2. r \notin b[f] /\ \A q \in a[f] \cup b[f] : r.metric <= q.metric
      BY <1>2, <1>3, <2>1
    <2> QED
      BY <2>1, <2>2
  <1>5. CASE \E r \in b[f] : \A q \in a[f] : r.metric < q.metric
    <2>1. PICK r \in b[f] : \A q \in a[f] : r.metric < q.metric
      BY <1>5
    <2>2. r \notin a[f] /\ \A q \in a[f] \cup b[f] : r.metric <= q.metric
      BY <1>2, <1>3, <2>1
    <2> QED
      BY <2>1, <2>2
  <1>6. CASE /\ \A r \in a[f] : \E q \in b[f] : ~(r.metric < q.metric)
             /\ \A r \in b[f] : \E q \in a[f] : ~(r.metric < q.metric)
    <2>1. \A r \in a[f], q \in b[f] : r.metric = q.metric
      BY <1>2, <1>3, <1>6
    <2>2. PICK r \in a[f] \cup b[f] : (r \in a[f]) # (r \in b[f])
      BY <1>1
    <2>3. \A q \in a[f] \cup b[f] : r.metric <= q.metric
      BY <1>2, <1>3, <2>1, <2>2
    <2> QED
      BY <2>2, <2>3
  <1> QED
    BY <1>4, <1>5, <1>6

(* What a round of the observer may do. *)
LEMMA RoundAllowed ==
    ASSUME EgressInv, EgressRound
    PROVE  /\ delivered' # Nothing =>
                /\ HasDefaultRoute(delivered')
                /\ read.sig = delivered' /\ read.age >= StableFor
                /\ since = Nothing \/ since >= Cooldown
                /\ baseline # Nothing /\ baseline # delivered' /\ delivered' \in Signatures
           /\ (baseline # Nothing /\ baseline' # baseline /\ HasDefaultRoute(baseline'))
                => delivered' = baseline' \/ (since # Nothing /\ since < Cooldown)
  <1> USE StableForAssumption, CooldownAssumption, NothingAssumption
  <1>1. PICK sig \in Signatures : sig # Nothing /\ Observe(sig)
    BY ReadIsSignature DEF EgressRound
  <1>2. CASE baseline = Nothing \/ baseline = sig
    BY <1>1, <1>2 DEF Observe
  <1>3. CASE baseline # Nothing /\ baseline # sig /\ InCooldown
    BY <1>1, <1>3 DEF Observe, Fold, InCooldown, EgressInv
  <1>4. CASE baseline # Nothing /\ baseline # sig /\ ~InCooldown /\ Ripe(sig)
    <2>1. /\ baseline' = sig
          /\ HasDefaultRoute(sig) => delivered' = sig
          /\ ~HasDefaultRoute(sig) => delivered' = Nothing
      BY <1>1, <1>4 DEF Observe, Confirm
    <2>2. read.sig = sig /\ read.age >= StableFor
      BY <1>4 DEF Ripe, EgressInv
    <2>3. since = Nothing \/ since >= Cooldown
      BY <1>4 DEF InCooldown, EgressInv
    <2> QED
      BY <1>1, <1>4, <2>1, <2>2, <2>3
  <1>5. CASE baseline # Nothing /\ baseline # sig /\ ~InCooldown /\ ~Ripe(sig)
    BY <1>1, <1>5 DEF Observe, Wait
  <1> QED
    BY <1>2, <1>3, <1>4, <1>5

(***************************************************************************)
(* StableRoutesFollowed.  For any routing tables, delay and cooldown, the  *)
(* observer delivers only signatures that have been there for StableFor,   *)
(* a cooldown apart and with other preferred routes than before; outside a *)
(* cooldown it does not take a new signature over silently; and one that   *)
(* has been read for StableFor is its baseline (StableEgressObserver).     *)
(***************************************************************************)
THEOREM StableRoutesFollowed == Spec => FollowsStableRoutes
  <1>1. Init => EgressInv
    BY StableForAssumption, NothingAssumption DEF Init, EgressInit, EgressInv, StableIsKnown
  <1>2. EgressInv /\ [Next]_vars => EgressInv'
    <2>1. ASSUME EgressInv, UNCHANGED egressVars PROVE EgressInv'
      BY <2>1 DEF EgressInv, egressVars, observerVars, StableIsKnown
    <2> QED
      BY <2>1, EgressStep DEF Next, vars
  <1>3. ASSUME EgressInv, [Next]_vars
        PROVE  [EgressNext]_egressVars
    BY <1>3 DEF Next, vars
  <1>4. ASSUME EgressInv, EgressNext
        PROVE  /\ delivered' # Nothing =>
                    /\ HasDefaultRoute(delivered')
                    /\ read.sig = delivered' /\ read.age >= StableFor
                    /\ since = Nothing \/ since >= Cooldown
                    /\ baseline # Nothing /\ baseline # delivered' /\ delivered' \in Signatures
               /\ (baseline # Nothing /\ baseline' # baseline /\ HasDefaultRoute(baseline'))
                    => delivered' = baseline' \/ (since # Nothing /\ since < Cooldown)
    <2>1. CASE RouteChange \/ Elapse
      BY <2>1 DEF RouteChange, Elapse, observerVars
    <2>2. CASE EgressRound
      BY <1>4, <2>2, RoundAllowed
    <2> QED
      BY <1>4, <2>1, <2>2 DEF EgressNext
  <1>5. EgressInv /\ [Next]_vars =>
          [delivered' # Nothing =>
             /\ HasDefaultRoute(delivered')
             /\ read.sig = delivered' /\ read.age >= StableFor
             /\ since = Nothing \/ since >= Cooldown]_egressVars
    BY <1>3, <1>4
  <1>6. EgressInv /\ [Next]_vars =>
          [baseline # Nothing /\ baseline' # baseline /\ HasDefaultRoute(baseline')
             => delivered' = baseline' \/ (since # Nothing /\ since < Cooldown)]_egressVars
    BY <1>3, <1>4
  <1>7. EgressInv /\ [Next]_vars =>
          [delivered' # Nothing /\ baseline # Nothing
             => \E f \in Families : \E r \in UNION {baseline[f], delivered'[f]} :
                   /\ (r \in baseline[f]) # (r \in delivered'[f])
                   /\ \A q \in baseline[f] \cup delivered'[f] : r.metric <= q.metric]_egressVars
    <2> SUFFICES ASSUME EgressInv, EgressNext, delivered' # Nothing, baseline # Nothing
                 PROVE  \E f \in Families : \E r \in UNION {baseline[f], delivered'[f]} :
                          /\ (r \in baseline[f]) # (r \in delivered'[f])
                          /\ \A q \in baseline[f] \cup delivered'[f] : r.metric <= q.metric
      BY <1>3
    <2>1. PICK a, b : a = baseline /\ b = delivered'
      OBVIOUS
    <2>2. a \in Signatures /\ b \in Signatures /\ a # b
      BY <1>4, <2>1 DEF EgressInv
    <2> QED
      BY <2>1, <2>2, DifferenceIsPreferred
  <1>8. EgressInv => StableIsKnown
    BY DEF EgressInv
  <1>9. Spec => []EgressInv
    BY <1>1, <1>2, PTL DEF Spec
  <1>10. Spec => DeliveredWasStable
    BY <1>5, <1>9, PTL DEF Spec, DeliveredWasStable
  <1>11. Spec => SilentOnlyInCooldown
    BY <1>6, <1>9, PTL DEF Spec, SilentOnlyInCooldown
  <1>12. Spec => BackupIgnored
    BY <1>7, <1>9, PTL DEF Spec, BackupIgnored
  <1>13. Spec => []StableIsKnown
    BY <1>8, <1>9, PTL
  <1> QED
    BY <1>10, <1>11, <1>12, <1>13 DEF FollowsStableRoutes

-----------------------------------------------------------------------------
(* Saving the state file.                                                   *)

Ats == Finished \cup {"opened", "written", "synced", "renamed"}

(* A document, and the file that consists of it. *)
LEMMA DocFacts ==
    ASSUME NEW n \in Nat
    PROVE  LET doc == Document(n)
           IN  /\ doc.n = n /\ doc.size \in 1..2
               /\ Contents(doc) \in Seq({doc}) /\ Contents(doc) # <<>> /\ Contents(doc)[1] = doc
               /\ Whole(Contents(doc)) /\ \A i \in DOMAIN Contents(doc) : Contents(doc)[i] = doc
  <1> DEFINE doc == Document(n)
             c == Contents(doc)
  <1>1. doc.n = n /\ doc.size \in 1..2
    BY DEF Document
  <1>2. c = [i \in 1..doc.size |-> doc]
    BY DEF Contents
  <1> HIDE DEF doc, c
  <1>3. c \in Seq({doc}) /\ Len(c) = doc.size /\ DOMAIN c = 1..doc.size /\ \A i \in 1..doc.size : c[i] = doc
    BY <1>1, <1>2
  <1>4. c # <<>> /\ c[1] = doc
    BY <1>1, <1>3
  <1>5. Whole(c)
    BY <1>4 DEF Whole, c
  <1> QED
    BY <1>1, <1>3, <1>4, <1>5 DEF doc, c

(* Writing over a file of documents leaves a file of documents; an empty one *)
(* gets exactly the document.                                                *)
LEMMA OverFacts ==
    ASSUME NEW S, NEW doc \in S, NEW chunks \in Seq(S), NEW n \in Nat
    PROVE  /\ Over(chunks, doc, n) \in Seq(S)
           /\ chunks = <<>> /\ n = doc.size => Over(chunks, doc, n) = Contents(doc)
  <1> DEFINE m == IF Len(chunks) > n THEN Len(chunks) ELSE n
  <1>1. m \in Nat /\ \A i \in 1..m : i <= n \/ i \in 1..Len(chunks)
    OBVIOUS
  <1>2. \A i \in 1..m : (IF i <= n THEN doc ELSE chunks[i]) \in S
    BY <1>1
  <1>3. chunks = <<>> => m = n /\ \A i \in 1..m : i <= n
    OBVIOUS
  <1>4. Over(chunks, doc, n) = [i \in 1..m |-> IF i <= n THEN doc ELSE chunks[i]]
    BY DEF Over
  <1> HIDE DEF m
  <1>5. Over(chunks, doc, n) \in Seq(S)
    BY <1>1, <1>2, <1>4
  <1>6. ASSUME chunks = <<>>, n = doc.size PROVE Over(chunks, doc, n) = Contents(doc)
    <2>1. Over(chunks, doc, n) = [i \in 1..n |-> doc]
      BY <1>3, <1>4, <1>6
    <2> QED
      BY <1>6, <2>1 DEF Contents
  <1> QED
    BY <1>5, <1>6

(* A step of one save: the other one is where it was. *)
LEMMA ToEffect ==
    ASSUME FilesInv, NEW w \in Writers, NEW from, NEW at \in Ats, To(w, from, at), UNCHANGED begun
    PROVE  /\ saves' \in [Writers -> [at : Ats, fd : Inodes, doc : Documents, alone : BOOLEAN]]
           /\ Documents' = Documents /\ Named' = Named
           /\ saves[w].at = from /\ saves'[w].at = at
           /\ saves'[w].fd = saves[w].fd /\ saves'[w].doc = saves[w].doc
           /\ saves'[w].alone = saves[w].alone
           /\ \A v \in Writers : v # w => saves'[v] = saves[v]
  <1>1. saves' = [saves EXCEPT ![w].at = at] /\ saves[w].at = from
    BY DEF To
  <1>2. saves \in [Writers -> [at : Ats, fd : Inodes, doc : Documents, alone : BOOLEAN]]
    BY DEF FilesInv, Ats
  <1>3. Documents' = Documents /\ Named' = Named
    BY DEF Documents, Named
  <1> QED
    BY <1>1, <1>2, <1>3

(* Such a step does not change who knows of whom. *)
LEMMA ToOverlap ==
    ASSUME FilesInv, OverlapInv, NEW w \in Writers, NEW from, NEW at \in Ats, To(w, from, at),
           UNCHANGED <<begun, durable, clean>>, Busy(w), at # "idle"
    PROVE  OverlapInv'
  <1>1. /\ saves'[w].at = at /\ saves'[w].doc = saves[w].doc /\ saves'[w].alone = saves[w].alone
        /\ \A v \in Writers : v # w => saves'[v] = saves[v]
    BY ToEffect
  <1>2. \A v \in Writers : /\ Busy(v)' => Busy(v)
                           /\ saves'[v].at # "idle" => saves[v].at # "idle"
                           /\ saves'[v].doc = saves[v].doc /\ saves'[v].alone = saves[v].alone
    BY <1>1 DEF Busy, Finished
  <1> QED
    BY <1>2 DEF OverlapInv

(* A save that overlaps with the other one promises nothing, and no other does. *)
LEMMA Disturbed ==
    ASSUME FilesInv, OverlapInv, NEW w \in Writers, Busy(w), ~saves[w].alone,
           \A v \in Writers : saves'[v].alone = saves[v].alone, clean' = clean
    PROVE  AloneInv' /\ StateInv'
  <1>1. \A v \in Writers : ~saves[v].alone
    BY DEF OverlapInv
  <1>2. ~clean
    BY DEF OverlapInv
  <1> QED
    BY <1>1, <1>2 DEF AloneInv, StateInv

(* Who is alone is the only one at work. *)
LEMMA Alone ==
    ASSUME OverlapInv, NEW w \in Writers, Busy(w), saves[w].alone
    PROVE  \A v \in Writers : v # w => ~Busy(v)
  BY DEF OverlapInv

(* Names on disk lead to files. *)
LEMMA NamesFacts ==
    ASSUME FilesInv
    PROVE  /\ MaxSaves \in Nat /\ begun \in Nat /\ durable \in Nat /\ NoFile \notin Inodes /\ 0..begun \subseteq Inodes
           /\ \A names \in dir.disk :
                 /\ names \in [tmp : Named, state : Named]
                 /\ names.tmp \in (0..begun) \cup {NoFile} /\ names.state \in (0..begun) \cup {NoFile}
                 /\ names.state # NoFile => names.state \in Inodes
                 /\ names.tmp # NoFile => names.tmp \in Inodes
           /\ dir.now \in dir.disk
           /\ \A w \in Writers : \E n \in 0..begun : saves[w].doc = Document(n) /\ saves[w].doc.n = n
  <1>1. MaxSaves \in Nat /\ begun \in 0..MaxSaves /\ durable \in 0..begun
    BY MaxSavesAssumption DEF FilesInv
  <1>2. dir.disk \subseteq [tmp : Named, state : Named] /\ dir.now \in dir.disk
    BY DEF FilesInv
  <1>3. ASSUME NEW w \in Writers PROVE \E n \in 0..begun : saves[w].doc = Document(n) /\ saves[w].doc.n = n
    <2>1. PICK n \in 0..begun : saves[w].doc = Document(n)
      BY DEF FilesInv, Documents
    <2>2. n \in Nat
      BY <1>1
    <2>3. Document(n).n = n
      BY <2>2, DocFacts
    <2> QED
      BY <2>1, <2>3
  <1> QED
    BY <1>1, <1>2, <1>3 DEF Named, NoFile, Inodes

(* A save writes, syncs or fails in its file. *)
LEMMA FileStep ==
    ASSUME SaveInv, NEW w \in Writers,
           NEW from \in {"opened", "written", "synced"}, NEW at \in {"written", "synced", "failed"},
           To(w, from, at), UNCHANGED <<dir, begun, durable, clean>>,
           NEW file \in [now : Seq(Documents), disk : SUBSET Seq(Documents)], file.now \in file.disk,
           inode' = [inode EXCEPT ![saves[w].fd] = file],
           saves[w].alone /\ at = "written" => file.now = Contents(saves[w].doc),
           saves[w].alone /\ at = "synced" => file.disk = {Contents(saves[w].doc)}
    PROVE  SaveInv'
  <1>1. /\ FilesInv /\ TmpInv /\ OverlapInv /\ AloneInv /\ StateInv /\ at \in Ats
        /\ Busy(w) /\ saves[w].fd \in Inodes
    BY DEF SaveInv, FilesInv, Ats, To, Busy, Finished
  <1>2. /\ saves' \in [Writers -> [at : Ats, fd : Inodes, doc : Documents, alone : BOOLEAN]]
        /\ Documents' = Documents /\ Named' = Named /\ saves[w].at = from /\ saves'[w].at = at
        /\ saves'[w].fd = saves[w].fd /\ saves'[w].doc = saves[w].doc /\ saves'[w].alone = saves[w].alone
        /\ \A v \in Writers : v # w => saves'[v] = saves[v]
    BY <1>1, ToEffect
  <1>3. /\ inode'[saves[w].fd] = file /\ inode' \in [Inodes -> [now : Seq(Documents), disk : SUBSET Seq(Documents)]]
        /\ \A i \in Inodes : i # saves[w].fd => inode'[i] = inode[i]
    BY <1>1 DEF FilesInv
  <1>4. FilesInv'
    BY <1>1, <1>2, <1>3 DEF FilesInv, Ats
  <1>5. TmpInv' /\ OverlapInv'
    BY <1>1, ToOverlap DEF TmpInv
  <1>6. CASE ~saves[w].alone
    BY <1>1, <1>2, <1>4, <1>5, <1>6, Disturbed DEF SaveInv
  <1>7. CASE saves[w].alone
    <2>1. dir.now.tmp = saves[w].fd /\ dir.now.tmp # NoFile
      BY <1>1, <1>2, <1>7, NamesFacts DEF AloneInv
    <2>2. \A names \in dir.disk : names.state # NoFile => inode'[names.state] = inode[names.state]
      BY <1>1, <1>3, <2>1, NamesFacts DEF TmpInv
    <2>3. \A v \in Writers : v # w => saves'[v].at \in Finished
      BY <1>1, <1>2, <1>7, Alone DEF Busy
    <2>4. AloneInv'
      <3>1. ASSUME NEW v \in Writers, v # w
            PROVE  saves'[v].at \notin {"opened", "written", "synced", "renamed"}
        BY <2>3, <3>1 DEF Finished
      <3>2. dir'.now.tmp = saves'[w].fd
        BY <1>2, <2>1
      <3>3. /\ at = "written" => inode'[saves'[w].fd].now = Contents(saves'[w].doc)
            /\ at = "synced" => inode'[saves'[w].fd].disk = {Contents(saves'[w].doc)}
        BY <1>2, <1>3, <1>7
      <3> QED
        BY <1>2, <3>1, <3>2, <3>3 DEF AloneInv
    <2>6. ASSUME NEW v \in Writers, saves'[v].alone,
                 saves'[v].at \in {"opened", "written", "synced", "failed"}
          PROVE  NowhereSaved(saves[v].doc)'
      <3>1. /\ saves[v].alone /\ saves[v].at \in {"opened", "written", "synced", "failed"}
            /\ saves'[v].doc = saves[v].doc
        BY <1>2, <2>6
      <3>2. NowhereSaved(saves[v].doc)
        BY <1>1, <3>1 DEF StateInv
      <3> QED
        BY <2>2, <3>1, <3>2 DEF NowhereSaved
    <2>7. StateInv'
      BY <1>1, <2>2, <2>6 DEF StateInv
    <2> QED
      BY <1>4, <1>5, <2>4, <2>7 DEF SaveInv
  <1> QED
    BY <1>6, <1>7

(* A file that is written to holds documents still. *)
LEMMA PutType ==
    ASSUME FilesInv, NEW i \in Inodes, NEW chunks \in Seq(Documents)
    PROVE  /\ Put(inode[i], chunks) \in [now : Seq(Documents), disk : SUBSET Seq(Documents)]
           /\ Put(inode[i], chunks).now = chunks /\ chunks \in Put(inode[i], chunks).disk
  BY DEF FilesInv, Put

(* write_all, sync_all and their errors. *)
LEMMA WriteStep ==
    ASSUME SaveInv, NEW w \in Writers,
           WriteAll(w) \/ WriteFails(w) \/ SyncAll(w) \/ SyncAllFails(w) \/ RenameFails(w)
    PROVE  SaveInv'
  <1>1. /\ FilesInv /\ AloneInv /\ saves[w].fd \in Inodes /\ saves[w].doc \in Documents /\ saves[w].doc.size \in Nat
        /\ inode[saves[w].fd] \in [now : Seq(Documents), disk : SUBSET Seq(Documents)]
        /\ inode[saves[w].fd].now \in inode[saves[w].fd].disk
    <2>1. FilesInv /\ AloneInv
      BY DEF SaveInv
    <2>2. saves[w].fd \in Inodes /\ saves[w].doc \in Documents
      BY <2>1 DEF FilesInv
    <2>3. PICK n \in 0..begun : saves[w].doc = Document(n)
      BY <2>1, NamesFacts
    <2>4. n \in Nat
      BY <2>1, NamesFacts
    <2>5. Document(n).size \in 1..2
      BY <2>4, DocFacts
    <2> QED
      BY <2>1, <2>2, <2>3, <2>5 DEF FilesInv
  <1>2. CASE WriteAll(w)
    <2> DEFINE chunks == Over(inode[saves[w].fd].now, saves[w].doc, saves[w].doc.size)
    <2>1. /\ To(w, "opened", "written") /\ UNCHANGED <<dir, begun, durable, clean>>
          /\ inode' = [inode EXCEPT ![saves[w].fd] = Put(inode[saves[w].fd], chunks)]
      BY <1>2 DEF WriteAll
    <2>2. /\ chunks \in Seq(Documents)
          /\ inode[saves[w].fd].now = <<>> => chunks = Contents(saves[w].doc)
      BY <1>1, OverFacts
    <2>3. saves[w].alone => inode[saves[w].fd].now = <<>>
      BY <1>1, <2>1 DEF AloneInv, To
    <2> HIDE DEF chunks
    <2> DEFINE file == Put(inode[saves[w].fd], chunks)
    <2>4. /\ file \in [now : Seq(Documents), disk : SUBSET Seq(Documents)]
          /\ file.now = chunks /\ file.now \in file.disk
      BY <1>1, <2>2, PutType
    <2>5. inode' = [inode EXCEPT ![saves[w].fd] = file]
      BY <2>1
    <2> HIDE DEF file
    <2> QED
      BY <2>1, <2>2, <2>3, <2>4, <2>5, FileStep
  <1>3. CASE WriteFails(w)
    <2>1. PICK n \in 0..(saves[w].doc.size - 1) :
             inode' = [inode EXCEPT ![saves[w].fd] = Put(inode[saves[w].fd], Over(inode[saves[w].fd].now, saves[w].doc, n))]
      BY <1>3 DEF WriteFails
    <2>2. To(w, "opened", "failed") /\ UNCHANGED <<dir, begun, durable, clean>>
      BY <1>3 DEF WriteFails
    <2> DEFINE chunks == Over(inode[saves[w].fd].now, saves[w].doc, n)
    <2>3. chunks \in Seq(Documents)
      BY <1>1, OverFacts
    <2>4. inode' = [inode EXCEPT ![saves[w].fd] = Put(inode[saves[w].fd], chunks)]
      BY <2>1
    <2> HIDE DEF chunks
    <2> DEFINE file == Put(inode[saves[w].fd], chunks)
    <2>5. /\ file \in [now : Seq(Documents), disk : SUBSET Seq(Documents)]
          /\ file.now \in file.disk
      BY <1>1, <2>3, PutType
    <2>6. inode' = [inode EXCEPT ![saves[w].fd] = file]
      BY <2>4
    <2> HIDE DEF file
    <2> QED
      BY <2>2, <2>5, <2>6, FileStep
  <1>4. CASE SyncAll(w)
    <2> DEFINE file == [inode[saves[w].fd] EXCEPT !.disk = {inode[saves[w].fd].now}]
    <2>1. /\ To(w, "written", "synced") /\ UNCHANGED <<dir, begun, durable, clean>>
          /\ inode' = [inode EXCEPT ![saves[w].fd] = file]
      BY <1>4 DEF SyncAll
    <2>2. /\ file \in [now : Seq(Documents), disk : SUBSET Seq(Documents)]
          /\ file.now \in file.disk /\ file.disk = {inode[saves[w].fd].now}
      BY <1>1
    <2>3. saves[w].alone => inode[saves[w].fd].now = Contents(saves[w].doc)
      BY <1>1, <2>1 DEF AloneInv, To
    <2> HIDE DEF file
    <2> QED
      BY <2>1, <2>2, <2>3, FileStep
  <1>5. CASE SyncAllFails(w) \/ RenameFails(w)
    <2>1. /\ To(w, "written", "failed") \/ To(w, "synced", "failed")
          /\ UNCHANGED <<dir, begun, durable, clean>> /\ inode' = inode
      BY <1>5 DEF SyncAllFails, RenameFails
    <2>2. inode' = [inode EXCEPT ![saves[w].fd] = inode[saves[w].fd]]
      BY <1>1, <2>1 DEF FilesInv
    <2> QED
      BY <1>1, <2>1, <2>2, FileStep
  <1> QED
    BY <1>2, <1>3, <1>4, <1>5

(* A directory that got names, with the names it may have on disk. *)
LEMMA LinkType ==
    ASSUME FilesInv, NEW names \in [tmp : Named, state : Named]
    PROVE  /\ Link(names) \in [now : [tmp : Named, state : Named], disk : SUBSET [tmp : Named, state : Named]]
           /\ Link(names).now = names /\ Link(names).disk = dir.disk \cup {names}
  BY DEF FilesInv, Link

(* rename: the state file of the new directory is the document of the save, *)
(* as far as nobody disturbed it.                                           *)
LEMMA RenameStep ==
    ASSUME SaveInv, NEW w \in Writers, RenameTmp(w)
    PROVE  SaveInv'
  <1> DEFINE tmp == dir.now.tmp
             new == Names(NoFile, dir.now.tmp)
  <1>1. /\ FilesInv /\ TmpInv /\ OverlapInv /\ AloneInv /\ StateInv /\ "renamed" \in Ats
        /\ To(w, "synced", "renamed") /\ UNCHANGED <<inode, begun, durable, clean>>
        /\ tmp # NoFile /\ dir' = Link(new)
    BY DEF SaveInv, RenameTmp, Ats
  <1>2. /\ saves' \in [Writers -> [at : Ats, fd : Inodes, doc : Documents, alone : BOOLEAN]]
        /\ Documents' = Documents /\ Named' = Named /\ saves[w].at = "synced" /\ saves'[w].at = "renamed"
        /\ saves'[w].fd = saves[w].fd /\ saves'[w].doc = saves[w].doc /\ saves'[w].alone = saves[w].alone
        /\ \A v \in Writers : v # w => saves'[v] = saves[v]
    BY <1>1, ToEffect
  <1>3. Busy(w)
    BY <1>2 DEF Busy, Finished
  <1>4. /\ new \in [tmp : Named, state : Named] /\ new.state = tmp /\ new.tmp = NoFile /\ tmp \in Inodes
        /\ dir.now \in dir.disk
    BY <1>1, NamesFacts DEF Names, Named
  <1> HIDE DEF new
  <1>5. /\ dir' \in [now : [tmp : Named, state : Named], disk : SUBSET [tmp : Named, state : Named]]
        /\ dir'.now = new /\ dir'.disk = dir.disk \cup {new}
    BY <1>1, <1>4, LinkType
  <1>6. FilesInv'
    BY <1>1, <1>2, <1>5 DEF FilesInv, Ats
  <1>7. TmpInv'
    BY <1>1, <1>4, <1>5 DEF TmpInv
  <1>8. OverlapInv'
    BY <1>1, <1>3, ToOverlap
  <1>9. CASE ~saves[w].alone
    BY <1>1, <1>2, <1>3, <1>6, <1>7, <1>8, <1>9, Disturbed DEF SaveInv
  <1>10. CASE saves[w].alone
    <2>1. tmp = saves[w].fd /\ inode[tmp].disk = {Contents(saves[w].doc)}
      BY <1>1, <1>2, <1>10 DEF AloneInv
    <2>2. \A v \in Writers : v # w => saves'[v].at \in Finished /\ saves[v].at \in Finished
      BY <1>1, <1>2, <1>3, <1>10, Alone DEF Busy
    <2>3. AloneInv'
      <3>1. ASSUME NEW v \in Writers, v # w
            PROVE  saves'[v].at \notin {"opened", "written", "synced", "renamed"}
        BY <2>2, <3>1 DEF Finished
      <3> QED
        BY <1>1, <1>2, <1>4, <1>5, <2>1, <3>1 DEF AloneInv
    <2>4. PICK n \in 0..begun : saves[w].doc = Document(n) /\ saves[w].doc.n = n
      BY <1>1, NamesFacts
    <2>5. n \in Nat
      BY <1>1, NamesFacts
    <2>6. /\ Whole(Contents(Document(n))) /\ Contents(Document(n))[1] = Document(n)
          /\ \A i \in DOMAIN Contents(Document(n)) : Contents(Document(n))[i] = Document(n)
      BY <2>5, DocFacts
    <2>7. durable <= n /\ durable \in Nat
      BY <1>1, <1>3, <2>4, NamesFacts DEF OverlapInv
    <2>8. \A chunks \in inode[tmp].disk :
              /\ Whole(chunks) /\ chunks[1].n >= durable
              /\ \A i \in DOMAIN chunks : chunks[i] = saves[w].doc
      BY <2>1, <2>4, <2>5, <2>6, <2>7
    <2>9. ASSUME NEW v \in Writers, saves'[v].alone,
                 saves'[v].at \in {"opened", "written", "synced", "failed"}
          PROVE  NowhereSaved(saves[v].doc)'
      <3>1. v # w
        BY <1>2, <2>9
      <3>2. saves'[v] = saves[v] /\ saves[v].at # "idle"
        BY <1>2, <2>9, <3>1
      <3>3. NowhereSaved(saves[v].doc)
        BY <1>1, <2>9, <3>2 DEF StateInv
      <3>4. saves[v].doc # saves[w].doc
        BY <1>1, <3>1, <3>2 DEF OverlapInv
      <3> QED
        BY <1>1, <1>4, <1>5, <2>8, <3>2, <3>3, <3>4 DEF NowhereSaved
    <2>10. StateInv'
      <3>1. clean' => \A names \in dir'.disk : names.state # NoFile =>
              \A chunks \in inode'[names.state].disk :
                  Whole(chunks) /\ (durable' # 0 => chunks[1].n >= durable')
        BY <1>1, <1>4, <1>5, <2>8 DEF StateInv
      <3>2. clean' /\ durable' # 0 => \A names \in dir'.disk : names.state # NoFile
        BY <1>1, <1>4, <1>5 DEF StateInv
      <3> QED
        BY <2>9, <3>1, <3>2 DEF StateInv
    <2> QED
      BY <1>6, <1>7, <1>8, <2>3, <2>10 DEF SaveInv
  <1> QED
    BY <1>9, <1>10

(* sync_parent fails: the names are there, and on disk perhaps. *)
LEMMA SyncParentFailsStep ==
    ASSUME SaveInv, NEW w \in Writers, SyncParentFails(w)
    PROVE  SaveInv'
  <1>1. /\ FilesInv /\ TmpInv /\ OverlapInv /\ AloneInv /\ StateInv /\ "committed" \in Ats
        /\ To(w, "renamed", "committed") /\ UNCHANGED <<inode, dir, begun, durable, clean>>
    BY DEF SaveInv, SyncParentFails, Ats, Finished
  <1>2. /\ saves' \in [Writers -> [at : Ats, fd : Inodes, doc : Documents, alone : BOOLEAN]]
        /\ Documents' = Documents /\ Named' = Named /\ saves[w].at = "renamed" /\ saves'[w].at = "committed"
        /\ \A v \in Writers : v # w => saves'[v] = saves[v]
    BY <1>1, ToEffect
  <1>3. Busy(w)
    BY <1>2 DEF Busy, Finished
  <1>4. FilesInv' /\ TmpInv'
    BY <1>1, <1>2 DEF FilesInv, TmpInv, Ats
  <1>5. OverlapInv'
    BY <1>1, <1>3, ToOverlap
  <1>6. AloneInv'
    <2>1. ASSUME NEW v \in Writers, saves'[v].at \in {"opened", "written", "synced", "renamed"}
          PROVE  saves'[v] = saves[v]
      BY <1>2, <2>1
    <2> QED
      BY <1>1, <2>1 DEF AloneInv
  <1>7. \A doc : NowhereSaved(doc) => NowhereSaved(doc)'
    BY <1>1 DEF NowhereSaved
  <1>8. StateInv'
    BY <1>1, <1>2, <1>7 DEF StateInv
  <1> QED
    BY <1>4, <1>5, <1>6, <1>8 DEF SaveInv

(* sync_parent: what is there is what the disk has. *)
LEMMA SyncParentStep ==
    ASSUME SaveInv, NEW w \in Writers, SyncParent(w)
    PROVE  SaveInv'
  <1>1. /\ FilesInv /\ TmpInv /\ OverlapInv /\ AloneInv /\ StateInv /\ "durable" \in Ats
        /\ To(w, "renamed", "durable") /\ UNCHANGED <<inode, begun>>
        /\ dir' = [dir EXCEPT !.disk = {dir.now}]
    BY DEF SaveInv, SyncParent, Ats, Finished
  <1>2. /\ saves' \in [Writers -> [at : Ats, fd : Inodes, doc : Documents, alone : BOOLEAN]]
        /\ Documents' = Documents /\ Named' = Named /\ saves[w].at = "renamed" /\ saves'[w].at = "durable"
        /\ saves'[w].fd = saves[w].fd /\ saves'[w].doc = saves[w].doc /\ saves'[w].alone = saves[w].alone
        /\ \A v \in Writers : v # w => saves'[v] = saves[v]
    BY <1>1, ToEffect
  <1>3. Busy(w)
    BY <1>2 DEF Busy, Finished
  <1>4. /\ dir' \in [now : [tmp : Named, state : Named], disk : SUBSET [tmp : Named, state : Named]]
        /\ dir'.now = dir.now /\ dir'.disk = {dir.now} /\ dir.now \in dir.disk
    BY <1>1 DEF FilesInv
  <1>5. TmpInv'
    BY <1>1, <1>4 DEF TmpInv
  <1>6. PICK n \in 0..begun : saves[w].doc = Document(n) /\ saves[w].doc.n = n
    BY <1>1, NamesFacts
  <1>7. n \in Nat /\ begun \in Nat
    BY <1>1, NamesFacts
  <1>8. FilesInv'
    <2>1. durable' \in 0..begun /\ clean' \in BOOLEAN
      BY <1>1, <1>6 DEF SyncParent, FilesInv
    <2> QED
      BY <1>1, <1>2, <1>4, <2>1 DEF FilesInv, Ats
  <1>9. CASE ~saves[w].alone
    <2>1. UNCHANGED <<durable, clean>>
      BY <1>9 DEF SyncParent
    <2>2. OverlapInv'
      BY <1>1, <1>3, <2>1, ToOverlap
    <2> QED
      BY <1>1, <1>2, <1>3, <1>5, <1>8, <1>9, <2>1, <2>2, Disturbed DEF SaveInv
  <1>10. CASE saves[w].alone
    <2>1. durable' = n /\ clean' = TRUE
      BY <1>6, <1>10 DEF SyncParent
    <2>2. \A v \in Writers : v # w => saves'[v].at \in Finished
      BY <1>1, <1>2, <1>3, <1>10, Alone DEF Busy
    <2>3. \A v \in Writers : saves'[v].at \in Finished
      BY <1>2, <2>2 DEF Finished
    <2>4. OverlapInv'
      <3>1. \A v \in Writers : /\ saves'[v].at # "idle" => saves[v].at # "idle"
                               /\ saves'[v].doc = saves[v].doc
        BY <1>2
      <3>2. \A v \in Writers : ~Busy(v)'
        BY <2>3 DEF Busy
      <3> QED
        BY <1>1, <3>1, <3>2 DEF OverlapInv
    <2>5. AloneInv'
      BY <2>3 DEF AloneInv, Finished
    <2>6. dir.now.state = saves[w].fd /\ inode[saves[w].fd].disk = {Contents(saves[w].doc)}
      BY <1>1, <1>2, <1>10 DEF AloneInv
    <2>7. /\ Whole(Contents(Document(n))) /\ Contents(Document(n))[1] = Document(n)
      BY <1>7, DocFacts
    <2>8. \A chunks \in inode[dir.now.state].disk : Whole(chunks) /\ chunks[1].n >= n
      BY <1>6, <1>7, <2>6, <2>7
    <2>9. dir.now.state # NoFile
      BY <1>1, <2>6, NamesFacts DEF FilesInv
    <2>10. ASSUME NEW v \in Writers, saves'[v].alone,
                  saves'[v].at \in {"opened", "written", "synced", "failed"}
           PROVE  NowhereSaved(saves[v].doc)'
      <3>1. v # w /\ saves'[v] = saves[v]
        BY <1>2, <2>10
      <3>2. NowhereSaved(saves[v].doc)
        BY <1>1, <2>10, <3>1 DEF StateInv
      <3> QED
        BY <1>1, <1>4, <3>1, <3>2 DEF NowhereSaved
    <2>11. StateInv'
      BY <1>1, <1>4, <2>1, <2>8, <2>9, <2>10 DEF StateInv
    <2> QED
      BY <1>5, <1>8, <2>4, <2>5, <2>11 DEF SaveInv
  <1> QED
    BY <1>9, <1>10

(* A sequence over a set is one over every larger set. *)
LEMMA SeqGrows ==
    ASSUME NEW A, NEW B, A \subseteq B, NEW s \in Seq(A)
    PROVE  s \in Seq(B)
  <1>1. Len(s) \in Nat /\ s = [i \in 1..Len(s) |-> s[i]] /\ \A i \in 1..Len(s) : s[i] \in B
    OBVIOUS
  <1> QED
    BY <1>1

(* The state files on disk are among those that were, and hold no more. *)
LEMMA FewerStates ==
    ASSUME StateInv, clean' => clean, durable' = durable,
           \A names \in dir'.disk : \E old \in dir.disk :
               /\ names.state = old.state
               /\ names.state # NoFile => inode'[names.state].disk \subseteq inode[names.state].disk
    PROVE  /\ clean' => \A names \in dir'.disk : names.state # NoFile =>
                \A chunks \in inode'[names.state].disk :
                    Whole(chunks) /\ (durable' # 0 => chunks[1].n >= durable')
           /\ clean' /\ durable' # 0 => \A names \in dir'.disk : names.state # NoFile
           /\ \A doc : NowhereSaved(doc) => NowhereSaved(doc)'
  <1>1. clean' => \A names \in dir'.disk : names.state # NoFile =>
                \A chunks \in inode'[names.state].disk :
                    Whole(chunks) /\ (durable' # 0 => chunks[1].n >= durable')
    BY DEF StateInv
  <1>2. clean' /\ durable' # 0 => \A names \in dir'.disk : names.state # NoFile
    BY DEF StateInv
  <1>3. ASSUME NEW doc, NowhereSaved(doc) PROVE NowhereSaved(doc)'
    BY <1>3 DEF NowhereSaved
  <1> QED
    BY <1>1, <1>2, <1>3

(* A save begins: its document is a new one, and the other save, if it is *)
(* under way, is no longer alone.                                         *)
LEMMA BeginEffect ==
    ASSUME FilesInv, NEW w \in Writers, NEW at \in {"opened", "failed"}, NEW fd \in Inodes, Begin(w, at, fd)
    PROVE  /\ begun \in Nat /\ begun' = begun + 1 /\ begun' \in 0..MaxSaves /\ UNCHANGED durable /\ ~Busy(w)
           /\ durable' \in 0..begun'
           /\ clean' \in BOOLEAN /\ (clean' => clean /\ \A v \in Writers : ~Busy(v))
           /\ Documents \subseteq Documents' /\ Named \subseteq Named'
           /\ saves' \in [Writers -> [at : Ats, fd : Inodes, doc : Documents', alone : BOOLEAN]]
           /\ saves'[w].at = at /\ saves'[w].fd = fd
           /\ saves'[w].doc = Document(begun + 1) /\ saves'[w].doc.n = begun + 1
           /\ saves'[w].alone <=> \A v \in Writers \ {w} : ~Busy(v)
           /\ \A v \in Writers : v # w =>
                 /\ saves'[v].at = saves[v].at /\ saves'[v].fd = saves[v].fd /\ saves'[v].doc = saves[v].doc
                 /\ saves'[v].alone <=> saves[v].alone /\ ~Busy(v)
  <1> DEFINE alone == \A v \in Writers \ {w} : ~Busy(v)
             T(D) == [at : Ats, fd : Inodes, doc : D, alone : BOOLEAN]
             new(v) == IF v = w THEN [at |-> at, fd |-> fd, doc |-> Document(begun + 1), alone |-> alone]
                       ELSE [saves[v] EXCEPT !.alone = saves[v].alone /\ ~Busy(v)]
  <1>1. MaxSaves \in Nat /\ begun \in 0..MaxSaves /\ durable \in 0..begun /\ clean \in BOOLEAN
    BY MaxSavesAssumption DEF FilesInv
  <1>2. /\ ~Busy(w) /\ begun < MaxSaves /\ begun' = begun + 1 /\ UNCHANGED durable /\ clean' = (clean /\ alone)
        /\ saves' = [v \in Writers |-> new(v)]
    BY DEF Begin
  <1>3. /\ begun \in Nat /\ begun' \in 0..MaxSaves /\ durable' \in 0..begun'
        /\ 0..begun \subseteq 0..begun' /\ begun + 1 \in 0..begun'
    BY <1>1, <1>2
  <1>4. Documents \subseteq Documents' /\ Document(begun + 1) \in Documents' /\ Named \subseteq Named'
    BY <1>3 DEF Documents, Named, NoFile
  <1>5. Document(begun + 1).n = begun + 1
    <2>1. begun + 1 \in Nat
      BY <1>3
    <2> QED
      BY <2>1, DocFacts
  <1>6. \A v \in Writers : saves[v] \in T(Documents)
    BY DEF FilesInv, Ats
  <1>7. clean' \in BOOLEAN /\ (clean' => clean /\ \A v \in Writers : ~Busy(v))
    BY <1>1, <1>2
  <1>8. alone \in BOOLEAN /\ \A v \in Writers : (saves[v].alone /\ ~Busy(v)) \in BOOLEAN
    OBVIOUS
  <1>9. /\ new(w).at = at /\ new(w).fd = fd /\ new(w).doc = Document(begun + 1) /\ (new(w).alone <=> alone)
        /\ new(w) \in T(Documents')
    <2> HIDE DEF alone
    <2> QED
      BY <1>4, <1>8 DEF Ats, Finished
  <1>10. ASSUME NEW v \in Writers, v # w
         PROVE  /\ new(v).at = saves[v].at /\ new(v).fd = saves[v].fd /\ new(v).doc = saves[v].doc
                /\ new(v).alone <=> saves[v].alone /\ ~Busy(v)
                /\ new(v) \in T(Documents')
    <2>1. PICK b \in BOOLEAN : b <=> saves[v].alone /\ ~Busy(v)
      BY <1>8
    <2>2. new(v) = [saves[v] EXCEPT !.alone = b]
      BY <1>10, <2>1
    <2> HIDE DEF new
    <2> QED
      BY <1>4, <1>6, <2>1, <2>2
  <1> HIDE DEF alone, new, T
  <1>11. saves' \in [Writers -> T(Documents')] /\ \A v \in Writers : saves'[v] = new(v)
    BY <1>2, <1>9, <1>10
  <1> QED
    BY <1>2, <1>3, <1>4, <1>5, <1>7, <1>9, <1>10, <1>11 DEF alone, T

(* It knows of the other save, and that one of it. *)
LEMMA BeginOverlap ==
    ASSUME FilesInv, OverlapInv, NEW w \in Writers, NEW at \in {"opened", "failed"}, NEW fd \in Inodes,
           Begin(w, at, fd)
    PROVE  OverlapInv'
  <1>1. /\ begun \in Nat /\ begun' = begun + 1 /\ UNCHANGED durable /\ ~Busy(w) /\ durable \in 0..begun
        /\ clean' => clean /\ \A v \in Writers : ~Busy(v)
        /\ saves'[w].at = at /\ saves'[w].doc.n = begun + 1
        /\ saves'[w].alone <=> \A v \in Writers \ {w} : ~Busy(v)
        /\ \A v \in Writers : v # w =>
              /\ saves'[v].at = saves[v].at /\ saves'[v].doc = saves[v].doc
              /\ saves'[v].alone <=> saves[v].alone /\ ~Busy(v)
    <2>1. durable \in 0..begun
      BY DEF FilesInv
    <2>2. /\ begun \in Nat /\ begun' = begun + 1 /\ UNCHANGED durable /\ ~Busy(w)
          /\ clean' => clean /\ \A v \in Writers : ~Busy(v)
      BY BeginEffect
    <2>3. /\ saves'[w].at = at /\ saves'[w].doc.n = begun + 1
          /\ saves'[w].alone <=> \A v \in Writers \ {w} : ~Busy(v)
      BY BeginEffect
    <2>4. \A v \in Writers : v # w =>
              /\ saves'[v].at = saves[v].at /\ saves'[v].doc = saves[v].doc
              /\ saves'[v].alone <=> saves[v].alone /\ ~Busy(v)
      BY BeginEffect
    <2> QED
      BY <2>1, <2>2, <2>3, <2>4
  <1>2. PICK o \in Writers : o # w /\ Writers = {o, w}
    BY DEF Writers
  <1>3. saves[o].doc.n \in 0..begun
    BY <1>2, NamesFacts
  <1>4. /\ saves'[o].at = saves[o].at /\ saves'[o].doc = saves[o].doc
        /\ saves'[o].alone <=> saves[o].alone /\ ~Busy(o)
        /\ saves'[w].alone <=> ~Busy(o)
        /\ Busy(o)' <=> Busy(o)
    BY <1>1, <1>2 DEF Busy
  <1>5. \A v \in Writers : saves'[v].at # "idle" => saves'[v].doc.n # 0
    BY <1>1, <1>2, <1>4 DEF OverlapInv
  <1>6. \A v \in Writers : Busy(v)' => durable' <= saves'[v].doc.n /\ (clean' => saves'[v].alone)
    BY <1>1, <1>2, <1>4 DEF OverlapInv
  <1>7. saves'[w].doc.n # saves'[o].doc.n
    BY <1>1, <1>3, <1>4
  <1>8. \A v, u \in Writers : v # u =>
          /\ saves'[v].at # "idle" => saves'[v].doc.n # saves'[u].doc.n
          /\ Busy(v)' /\ Busy(u)' => ~saves'[u].alone
          /\ Busy(v)' /\ saves'[u].alone => saves'[v].alone
    BY <1>2, <1>4, <1>7
  <1> QED
    BY <1>5, <1>6, <1>8 DEF OverlapInv

(* No file holds a part of a document that was not there before. *)
LEMMA NewDocument ==
    ASSUME FilesInv
    PROVE  NowhereSaved(Document(begun + 1))
  <1>1. begun \in Nat /\ begun + 1 \in Nat
    BY NamesFacts
  <1>2. ASSUME NEW d \in Documents PROVE d # Document(begun + 1)
    <2>1. PICK n \in 0..begun : d = Document(n)
      BY <1>2 DEF Documents
    <2>2. n \in Nat /\ n # begun + 1
      BY <1>1
    <2>3. Document(n).n = n
      BY <2>2, DocFacts
    <2>4. Document(begun + 1).n = begun + 1
      BY <1>1, DocFacts
    <2> QED
      BY <2>1, <2>2, <2>3, <2>4
  <1>3. ASSUME NEW names \in dir.disk, names.state # NoFile, NEW chunks \in inode[names.state].disk,
               NEW i \in DOMAIN chunks
        PROVE  chunks[i] \in Documents
    <2>1. names.state \in Inodes
      BY <1>3, NamesFacts
    <2>2. chunks \in Seq(Documents)
      BY <2>1 DEF FilesInv
    <2> QED
      BY <2>2
  <1> QED
    BY <1>2, <1>3 DEF NowhereSaved

(* A save begins without having a file, or in the temporary file, which is *)
(* no state file: the state files on disk are as they were.                *)
LEMMA BeginStep ==
    ASSUME SaveInv, NEW w \in Writers, NEW at \in {"opened", "failed"}, NEW fd \in Inodes, Begin(w, at, fd),
           FilesInv', TmpInv',
           \A names \in dir'.disk : \E old \in dir.disk :
               /\ names.state = old.state
               /\ names.state # NoFile => inode'[names.state].disk \subseteq inode[names.state].disk,
           at = "opened" => dir'.now.tmp = fd /\ inode'[fd].now = <<>>
    PROVE  SaveInv'
  <1>1. FilesInv /\ OverlapInv /\ StateInv
    BY DEF SaveInv
  <1>2. /\ UNCHANGED durable /\ (clean' => clean) /\ saves'[w].at = at /\ saves'[w].fd = fd
        /\ saves'[w].doc = Document(begun + 1)
    BY <1>1, BeginEffect
  <1>3. ASSUME NEW v \in Writers, v # w
        PROVE  /\ saves'[v].at = saves[v].at /\ saves'[v].fd = saves[v].fd /\ saves'[v].doc = saves[v].doc
               /\ saves'[v].alone => saves[v].alone /\ saves[v].at \in Finished
    <2>1. /\ saves'[v].at = saves[v].at /\ saves'[v].fd = saves[v].fd /\ saves'[v].doc = saves[v].doc
          /\ saves'[v].alone <=> saves[v].alone /\ ~Busy(v)
      BY <1>1, <1>3, BeginEffect
    <2> QED
      BY <2>1 DEF Busy
  <1>4. OverlapInv'
    BY <1>1, BeginOverlap
  <1>5. AloneInv'
    <2>1. ASSUME NEW v \in Writers, saves'[v].alone, v # w
          PROVE  saves'[v].at \notin {"opened", "written", "synced", "renamed"}
      BY <1>3, <2>1 DEF Finished
    <2> QED
      BY <1>2, <2>1 DEF AloneInv
  <1>6. /\ clean' => \A names \in dir'.disk : names.state # NoFile =>
                \A chunks \in inode'[names.state].disk :
                    Whole(chunks) /\ (durable' # 0 => chunks[1].n >= durable')
        /\ clean' /\ durable' # 0 => \A names \in dir'.disk : names.state # NoFile
        /\ \A doc : NowhereSaved(doc) => NowhereSaved(doc)'
    BY <1>1, <1>2, FewerStates
  <1>7. ASSUME NEW v \in Writers, saves'[v].alone,
               saves'[v].at \in {"opened", "written", "synced", "failed"}
        PROVE  NowhereSaved(saves[v].doc)'
    <2>1. PICK doc : doc = saves'[v].doc
      OBVIOUS
    <2>2. NowhereSaved(doc)
      <3>1. CASE v = w
        BY <1>1, <1>2, <2>1, <3>1, NewDocument
      <3>2. CASE v # w
        BY <1>1, <1>3, <1>7, <2>1, <3>2 DEF StateInv
      <3> QED
        BY <3>1, <3>2
    <2>3. NowhereSaved(doc)'
      BY <1>6, <2>2
    <2> QED
      BY <2>1, <2>3 DEF NowhereSaved
  <1>8. StateInv'
    BY <1>6, <1>7 DEF StateInv
  <1> QED
    BY <1>4, <1>5, <1>8 DEF SaveInv

(* Files and directories of documents and names are so when there are more of them. *)
LEMMA TypesGrow ==
    ASSUME FilesInv, Documents \subseteq Documents', Named \subseteq Named'
    PROVE  /\ \A i \in Inodes : /\ inode[i] \in [now : Seq(Documents'), disk : SUBSET Seq(Documents')]
                                /\ inode[i].now \in inode[i].disk
           /\ dir \in [now : [tmp : Named', state : Named'], disk : SUBSET [tmp : Named', state : Named']]
  <1>1. Seq(Documents) \subseteq Seq(Documents')
    BY SeqGrows
  <1>2. [tmp : Named, state : Named] \subseteq [tmp : Named', state : Named']
    OBVIOUS
  <1> QED
    BY <1>1, <1>2 DEF FilesInv

(* OpenOptions fails. *)
LEMMA OpenTmpFailsStep ==
    ASSUME SaveInv, NEW w \in Writers, OpenTmpFails(w)
    PROVE  SaveInv'
  <1>1. FilesInv /\ TmpInv /\ Begin(w, "failed", 0) /\ UNCHANGED <<inode, dir>>
    BY DEF SaveInv, OpenTmpFails
  <1>2. 0 \in Inodes
    BY MaxSavesAssumption DEF Inodes
  <1>3. /\ begun' \in 0..MaxSaves /\ durable' \in 0..begun' /\ clean' \in BOOLEAN
        /\ Documents \subseteq Documents' /\ Named \subseteq Named'
        /\ saves' \in [Writers -> [at : Ats, fd : Inodes, doc : Documents', alone : BOOLEAN]]
    BY <1>1, <1>2, BeginEffect
  <1>4. /\ \A i \in Inodes : /\ inode[i] \in [now : Seq(Documents'), disk : SUBSET Seq(Documents')]
                             /\ inode[i].now \in inode[i].disk
        /\ dir \in [now : [tmp : Named', state : Named'], disk : SUBSET [tmp : Named', state : Named']]
    BY <1>1, <1>3, TypesGrow
  <1>5. inode' \in [Inodes -> [now : Seq(Documents'), disk : SUBSET Seq(Documents')]]
    BY <1>1, <1>4 DEF FilesInv
  <1>6. FilesInv'
    BY <1>1, <1>3, <1>4, <1>5 DEF FilesInv, Ats
  <1>7. TmpInv'
    BY <1>1 DEF TmpInv
  <1> QED
    BY <1>1, <1>2, <1>6, <1>7, BeginStep

(* OpenOptions: the file is new, or the temporary file. *)
LEMMA OpenTmpStep ==
    ASSUME SaveInv, NEW w \in Writers, OpenTmp(w)
    PROVE  SaveInv'
  <1> DEFINE fd == IF dir.now.tmp = NoFile THEN begun + 1 ELSE dir.now.tmp
             new == [dir.now EXCEPT !.tmp = fd]
             file == Put(inode[fd], <<>>)
  <1>1. /\ FilesInv /\ TmpInv /\ Begin(w, "opened", fd)
        /\ inode' = [inode EXCEPT ![fd] = file] /\ dir' = Link(new)
    BY DEF SaveInv, OpenTmp
  <1>2. begun < MaxSaves
    BY <1>1 DEF Begin
  <1>3. /\ fd \in Inodes /\ fd # NoFile /\ fd \in 0..(begun + 1)
        /\ \A names \in dir.disk : names.state # fd
    BY <1>1, <1>2, NamesFacts, MaxSavesAssumption DEF TmpInv, Inodes, NoFile
  <1> HIDE DEF fd
  <1>4. /\ begun' = begun + 1 /\ begun' \in 0..MaxSaves /\ durable' \in 0..begun' /\ clean' \in BOOLEAN
        /\ Documents \subseteq Documents' /\ Named \subseteq Named'
        /\ saves' \in [Writers -> [at : Ats, fd : Inodes, doc : Documents', alone : BOOLEAN]]
    BY <1>1, <1>3, BeginEffect
  <1>5. /\ \A i \in Inodes : /\ inode[i] \in [now : Seq(Documents'), disk : SUBSET Seq(Documents')]
                             /\ inode[i].now \in inode[i].disk
        /\ dir \in [now : [tmp : Named', state : Named'], disk : SUBSET [tmp : Named', state : Named']]
    BY <1>1, <1>4, TypesGrow
  <1>6. fd \in Named'
    BY <1>3, <1>4 DEF Named
  <1>7. dir.now \in dir.disk /\ dir.now \in [tmp : Named', state : Named']
    BY <1>1, <1>5 DEF FilesInv
  <1>8. new \in [tmp : Named', state : Named'] /\ new.tmp = fd /\ new.state = dir.now.state
    BY <1>6, <1>7
  <1>9. /\ file \in [now : Seq(Documents'), disk : SUBSET Seq(Documents')]
        /\ file.now = <<>> /\ file.now \in file.disk
    <2>1. PICK empty : empty \in Seq(Documents') /\ empty = <<>>
      <3>1. <<>> \in Seq(Documents')
        OBVIOUS
      <3> QED
        BY <3>1, Zenon
    <2>2. inode[fd].disk \subseteq Seq(Documents')
      BY <1>3, <1>5
    <2>3. file = [now |-> empty, disk |-> inode[fd].disk \cup {empty}]
      BY <2>1 DEF Put
    <2> HIDE DEF file
    <2> QED
      BY <2>1, <2>2, <2>3
  <1> HIDE DEF new, file
  <1>10. /\ dir' \in [now : [tmp : Named', state : Named'], disk : SUBSET [tmp : Named', state : Named']]
         /\ dir'.now = new /\ dir'.disk = dir.disk \cup {new}
    BY <1>1, <1>5, <1>8 DEF Link
  <1>11. /\ inode' \in [Inodes -> [now : Seq(Documents'), disk : SUBSET Seq(Documents')]]
         /\ \A i \in Inodes : inode'[i] = IF i = fd THEN file ELSE inode[i]
    BY <1>1, <1>3, <1>5, <1>9 DEF FilesInv
  <1>12. FilesInv'
    BY <1>1, <1>4, <1>5, <1>9, <1>10, <1>11 DEF FilesInv, Ats
  <1>13. TmpInv'
    BY <1>1, <1>3, <1>7, <1>8, <1>10 DEF TmpInv
  <1>14. \A names \in dir'.disk : \E old \in dir.disk :
               /\ names.state = old.state
               /\ names.state # NoFile => inode'[names.state].disk \subseteq inode[names.state].disk
    <2>1. \A old \in dir.disk : old.state # NoFile => old.state \in Inodes /\ old.state # fd
      BY <1>1, <1>3, NamesFacts
    <2>2. \A old \in dir.disk : old.state # NoFile => inode'[old.state] = inode[old.state]
      BY <1>11, <2>1
    <2> QED
      BY <1>7, <1>8, <1>10, <2>2
  <1>15. dir'.now.tmp = fd /\ inode'[fd].now = <<>>
    BY <1>3, <1>8, <1>9, <1>10, <1>11
  <1> QED
    BY <1>1, <1>3, <1>12, <1>13, <1>14, <1>15, BeginStep

(* The process is gone: no save is under way. *)
LEMMA GoneEffect ==
    ASSUME FilesInv, OverlapInv, Gone, UNCHANGED <<begun, durable, clean>>
    PROVE  /\ saves' \in [Writers -> [at : Ats, fd : Inodes, doc : Documents, alone : BOOLEAN]]
           /\ Documents' = Documents /\ Named' = Named
           /\ \A w \in Writers : saves'[w].at \in Finished /\ (saves'[w].at # "idle" => saves'[w] = saves[w])
           /\ OverlapInv'
  <1>1. saves' = [w \in Writers |-> IF Busy(w) THEN NoSave ELSE saves[w]]
    BY DEF Gone
  <1>2. /\ NoSave \in [at : Ats, fd : Inodes, doc : Documents, alone : BOOLEAN]
        /\ NoSave.at = "idle" /\ NoSave.doc.n = 0
    <2>1. Document(0) \in Documents /\ Document(0).n = 0 /\ 0 \in Inodes
      <3>1. 0 \in 0..begun /\ 0 \in Inodes
        BY NamesFacts DEF Inodes
      <3>2. Document(0).n = 0
        BY DocFacts
      <3> QED
        BY <3>1, <3>2 DEF Documents
    <2> QED
      BY <2>1 DEF NoSave, Ats, Finished
  <1>3. \A w \in Writers : saves[w] \in [at : Ats, fd : Inodes, doc : Documents, alone : BOOLEAN]
    BY DEF FilesInv, Ats
  <1>4. \A w \in Writers : (saves'[w] = saves[w] /\ ~Busy(w)) \/ saves'[w] = NoSave
    BY <1>1
  <1> HIDE DEF NoSave
  <1>5. saves' \in [Writers -> [at : Ats, fd : Inodes, doc : Documents, alone : BOOLEAN]]
    BY <1>1, <1>2, <1>3
  <1>6. \A w \in Writers : saves'[w].at \in Finished /\ (saves'[w].at # "idle" => saves'[w] = saves[w])
    BY <1>2, <1>4 DEF Busy, Finished
  <1>7. OverlapInv'
    <2>1. \A w \in Writers : ~Busy(w)'
      BY <1>6 DEF Busy
    <2>2. \A w \in Writers : saves'[w].at # "idle" => saves'[w].doc.n # 0
      BY <1>6 DEF OverlapInv
    <2>3. \A v, w \in Writers : v # w /\ saves'[v].at # "idle" => saves'[v].doc.n # saves'[w].doc.n
      BY <1>2, <1>4, <1>6, <2>2 DEF OverlapInv
    <2> QED
      BY <2>1, <2>2, <2>3 DEF OverlapInv
  <1>8. Documents' = Documents /\ Named' = Named
    BY DEF Documents, Named
  <1> QED
    BY <1>5, <1>6, <1>7, <1>8

(* The daemon or the host dies, and the state files on disk hold no more. *)
LEMMA GoneStep ==
    ASSUME SaveInv, Gone, UNCHANGED <<begun, durable, clean>>, FilesInv', TmpInv',
           \A names \in dir'.disk : \E old \in dir.disk :
               /\ names.state = old.state
               /\ names.state # NoFile => inode'[names.state].disk \subseteq inode[names.state].disk
    PROVE  SaveInv'
  <1>1. FilesInv /\ OverlapInv /\ StateInv
    BY DEF SaveInv
  <1>2. /\ \A w \in Writers : saves'[w].at \in Finished /\ (saves'[w].at # "idle" => saves'[w] = saves[w])
        /\ OverlapInv'
    BY <1>1, GoneEffect
  <1>3. AloneInv'
    BY <1>2 DEF AloneInv, Finished
  <1>4. /\ clean' => \A names \in dir'.disk : names.state # NoFile =>
                \A chunks \in inode'[names.state].disk :
                    Whole(chunks) /\ (durable' # 0 => chunks[1].n >= durable')
        /\ clean' /\ durable' # 0 => \A names \in dir'.disk : names.state # NoFile
        /\ \A doc : NowhereSaved(doc) => NowhereSaved(doc)'
    BY <1>1, FewerStates
  <1>5. ASSUME NEW v \in Writers, saves'[v].alone,
               saves'[v].at \in {"opened", "written", "synced", "failed"}
        PROVE  NowhereSaved(saves[v].doc)'
    <2>1. PICK doc : doc = saves[v].doc /\ saves'[v] = saves[v]
      BY <1>2, <1>5
    <2>2. NowhereSaved(doc)
      BY <1>1, <1>5, <2>1 DEF StateInv
    <2>3. NowhereSaved(doc)'
      BY <1>4, <2>2
    <2> QED
      BY <2>1, <2>3 DEF NowhereSaved
  <1>6. StateInv'
    BY <1>4, <1>5 DEF StateInv
  <1> QED
    BY <1>2, <1>3, <1>6 DEF SaveInv

(* The daemon dies. *)
LEMMA KilledStep ==
    ASSUME SaveInv, Killed
    PROVE  SaveInv'
  <1>1. FilesInv /\ TmpInv /\ OverlapInv /\ Gone /\ UNCHANGED <<inode, dir, begun, durable, clean>>
    BY DEF SaveInv, Killed
  <1>2. /\ saves' \in [Writers -> [at : Ats, fd : Inodes, doc : Documents, alone : BOOLEAN]]
        /\ Documents' = Documents /\ Named' = Named
    BY <1>1, GoneEffect
  <1>3. FilesInv' /\ TmpInv'
    BY <1>1, <1>2 DEF FilesInv, TmpInv, Ats
  <1> QED
    BY <1>1, <1>3, GoneStep

(* The host dies: the disk has one of the directories that it may have, and *)
(* one of the contents of each file that has a name there.                  *)
LEMMA PowerLossStep ==
    ASSUME SaveInv, PowerLoss
    PROVE  SaveInv'
  <1>1. FilesInv /\ TmpInv /\ OverlapInv /\ Gone /\ UNCHANGED <<begun, durable, clean>>
    BY DEF SaveInv, PowerLoss
  <1>2. PICK names \in dir.disk : \E left :
          /\ dir' = [now |-> names, disk |-> {names}]
          /\ \A i \in Inodes : left[i] \in (IF i \in {names.tmp, names.state} THEN inode[i].disk ELSE {<<>>})
          /\ inode' = [i \in Inodes |-> [now |-> left[i], disk |-> {left[i]}]]
    BY DEF PowerLoss
  <1>3. PICK left :
          /\ dir' = [now |-> names, disk |-> {names}]
          /\ \A i \in Inodes : left[i] \in (IF i \in {names.tmp, names.state} THEN inode[i].disk ELSE {<<>>})
          /\ inode' = [i \in Inodes |-> [now |-> left[i], disk |-> {left[i]}]]
    BY <1>2
  <1>4. /\ saves' \in [Writers -> [at : Ats, fd : Inodes, doc : Documents, alone : BOOLEAN]]
        /\ Documents' = Documents /\ Named' = Named
    BY <1>1, GoneEffect
  <1>5. \A i \in Inodes : left[i] \in Seq(Documents)
    <2>1. <<>> \in Seq(Documents)
      OBVIOUS
    <2> QED
      BY <1>1, <1>3, <2>1 DEF FilesInv
  <1>6. /\ inode' \in [Inodes -> [now : Seq(Documents), disk : SUBSET Seq(Documents)]]
        /\ \A i \in Inodes : inode'[i].now \in inode'[i].disk /\ inode'[i].disk = {left[i]}
    BY <1>3, <1>5
  <1>7. /\ dir' \in [now : [tmp : Named, state : Named], disk : SUBSET [tmp : Named, state : Named]]
        /\ dir'.now = names /\ dir'.disk = {names}
    BY <1>1, <1>3, NamesFacts
  <1>8. FilesInv'
    BY <1>1, <1>4, <1>6, <1>7 DEF FilesInv, Ats
  <1>9. TmpInv'
    BY <1>1, <1>7 DEF TmpInv
  <1>10. names.state # NoFile => inode'[names.state].disk \subseteq inode[names.state].disk
    BY <1>1, <1>3, <1>6, NamesFacts
  <1> QED
    BY <1>1, <1>7, <1>8, <1>9, <1>10, GoneStep

(* The invariant holds at first, with a state file or without one. *)
LEMMA SaveInitInv == SaveInit => SaveInv
  <1> SUFFICES ASSUME SaveInit PROVE SaveInv
    OBVIOUS
  <1> DEFINE first == Contents(Document(0))
  <1>1. /\ inode = [i \in Inodes |-> IF i = 0 THEN [now  |-> first, disk |-> {first}]
                                              ELSE [now |-> <<>>, disk |-> {<<>>}]]
        /\ saves = [w \in Writers |-> NoSave] /\ begun = 0 /\ durable = 0 /\ clean = TRUE
    BY DEF SaveInit
  <1>2. PICK s \in {0, NoFile} : dir = [now |-> Names(NoFile, s), disk |-> {Names(NoFile, s)}]
    BY DEF SaveInit
  <1>3. MaxSaves \in Nat /\ 0 \in Inodes /\ NoFile # 0 /\ 0..begun = {0}
    BY <1>1, MaxSavesAssumption DEF Inodes, NoFile
  <1>4. Documents = {Document(0)} /\ Named = {0, NoFile}
    BY <1>3 DEF Documents, Named
  <1>5. Whole(first) /\ first \in Seq(Documents) /\ <<>> \in Seq(Documents)
    BY <1>4, DocFacts
  <1> HIDE DEF first
  <1>6. /\ inode \in [Inodes -> [now : Seq(Documents), disk : SUBSET Seq(Documents)]]
        /\ \A i \in Inodes : inode[i].now \in inode[i].disk
        /\ inode[0].disk = {first}
    BY <1>1, <1>3, <1>5
  <1>7. /\ dir \in [now : [tmp : Named, state : Named], disk : SUBSET [tmp : Named, state : Named]]
        /\ dir.now \in dir.disk /\ dir.now.tmp = NoFile
        /\ \A names \in dir.disk : names.state = s /\ names.tmp = NoFile
    BY <1>2, <1>4 DEF Names
  <1>8. /\ \A w \in Writers : saves[w].at = "idle"
        /\ saves \in [Writers -> [at : Finished \cup {"opened", "written", "synced", "renamed"},
                                  fd : Inodes, doc : Documents, alone : BOOLEAN]]
    BY <1>1, <1>3, <1>4 DEF NoSave, Finished
  <1>9. FilesInv /\ TmpInv
    BY <1>1, <1>3, <1>6, <1>7, <1>8 DEF FilesInv, TmpInv
  <1>10. OverlapInv /\ AloneInv
    BY <1>8 DEF OverlapInv, AloneInv, Busy, Finished
  <1>11. StateInv
    BY <1>1, <1>2, <1>5, <1>6, <1>7, <1>8 DEF StateInv
  <1> QED
    BY <1>9, <1>10, <1>11 DEF SaveInv

(* Nothing else writes the state file. *)
LEMMA SaveStutter == SaveInv /\ UNCHANGED saveVars => SaveInv'
  <1> SUFFICES ASSUME SaveInv, UNCHANGED saveVars PROVE SaveInv'
    OBVIOUS
  <1>1. UNCHANGED <<inode, dir, saves, begun, durable, clean>>
    BY DEF saveVars
  <1>2. FilesInv' /\ TmpInv'
    BY <1>1 DEF SaveInv, FilesInv, TmpInv, Documents, Named
  <1>3. OverlapInv' /\ AloneInv'
    BY <1>1 DEF SaveInv, OverlapInv, AloneInv, Busy
  <1>4. StateInv'
    BY <1>1 DEF SaveInv, StateInv, NowhereSaved
  <1> QED
    BY <1>2, <1>3, <1>4 DEF SaveInv

(* What a restart can find is in the state files on disk. *)
LEMMA SaveInvFound == SaveInv => RestartFindsReported
  <1> SUFFICES ASSUME SaveInv PROVE RestartFindsReported
    OBVIOUS
  <1>1. FilesInv /\ StateInv
    BY DEF SaveInv
  <1>2. ASSUME NEW chunks \in Loadable \cup Survivors
        PROVE  \E names \in dir.disk : names.state # NoFile /\ chunks \in inode[names.state].disk
    <2>1. CASE chunks \in Loadable
      <3>1. dir.now.state # NoFile /\ chunks = inode[dir.now.state].now
        BY <2>1 DEF Loadable
      <3>2. dir.now \in dir.disk /\ dir.now.state \in Inodes
        BY <1>1, <3>1, NamesFacts
      <3>3. chunks \in inode[dir.now.state].disk
        BY <1>1, <3>1, <3>2 DEF FilesInv
      <3> QED
        BY <3>1, <3>2, <3>3
    <2>2. CASE chunks \in Survivors
      BY <2>2 DEF Survivors
    <2> QED
      BY <2>1, <2>2
  <1>3. WholeUnlessOverlap
    BY <1>1, <1>2 DEF WholeUnlessOverlap, StateInv
  <1>4. DurableSurvives
    BY <1>1, <1>2 DEF DurableSurvives, StateInv, Whole
  <1>5. FailedCommitsNothing
    BY <1>1, <1>2 DEF FailedCommitsNothing, StateInv, NowhereSaved
  <1> QED
    BY <1>3, <1>4, <1>5 DEF RestartFindsReported

(***************************************************************************)
(* RestartsFindReported.  For any number of saves by the two writers, with *)
(* errors, kills and power losses anywhere: what a start can load is one   *)
(* whole document as long as no two saves overlapped since the last save   *)
(* that ran alone and was durable, it is no older than that one, and it is *)
(* never the document of a save that ran alone and was refused             *)
(* (save_atomic, SaveOutcome).                                             *)
(***************************************************************************)
THEOREM RestartsFindReported == Spec => []RestartFindsReported
  <1>1. Init => SaveInv
    BY SaveInitInv DEF Init
  <1>2. SaveInv /\ SaveNext => SaveInv'
    BY OpenTmpStep, OpenTmpFailsStep, WriteStep, RenameStep, SyncParentStep, SyncParentFailsStep,
       KilledStep, PowerLossStep DEF SaveNext, Save
  <1>3. SaveInv /\ [Next]_vars => SaveInv'
    BY <1>2, SaveStutter DEF Next, vars
  <1> QED
    BY <1>1, <1>3, SaveInvFound, PTL DEF Spec

=============================================================================
