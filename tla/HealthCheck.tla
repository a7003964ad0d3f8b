---------------------------- MODULE HealthCheck ----------------------------
(***************************************************************************)
(* The sampled health check of a class (health.rs) as health_loop runs it: *)
(* up to Samples exchanges through the class's own listener, SAMPLE_SPACING*)
(* apart, each with a timeout of its own, under the any-fail rule.         *)
(*                                                                         *)
(* The adapter answers CONNECT before it has dialled, so the status line   *)
(* of a tunnel says nothing about the destination; the status line of a    *)
(* GET comes from the destination, or from the adapter when it gives up.   *)
(***************************************************************************)
EXTENDS Naturals

CONSTANTS
    Samples,       \* class_health_samples
    CheckTimeout,  \* health.timeout_ms, in units of time
    Spacing        \* SAMPLE_SPACING, in units of time

ASSUME HealthAssumption ==
    /\ Samples \in Nat \ {0} /\ CheckTimeout \in Nat \ {0} /\ Spacing \in Nat \ {0}

VARIABLES
    form,      \* the target: "get" for http://, "connect" for connect://
    remote,    \* the destination answers at present
    stopping,  \* the shutdown signal was given
    check,     \* where the health loop is, the sample, and the time it has taken
    proven,    \* history: samples of this tick in which the destination sent a byte
    spent,     \* history: time since the tick began
    late       \* history: time since the signal while the tick goes on

healthVars == <<form, remote, stopping, check, proven, spent, late>>

Exchange == {"dial", "status", "probe"}
Verdicts == {"Healthy", "Unhealthy", "Cancelled"}
Budget   == Samples * (CheckTimeout + Spacing)

HealthTypeOK ==
    /\ form \in {"get", "connect"} /\ remote \in BOOLEAN
    /\ stopping \in BOOLEAN
    /\ check.at \in {"interval", "spacing", "stopped"} \cup Exchange \cup Verdicts
    /\ check.sample \in 0..Samples /\ check.clock \in 0..(CheckTimeout + Spacing)
    /\ proven \subseteq 1..Samples

HealthInit ==
    /\ form \in {"get", "connect"} /\ remote \in BOOLEAN
    /\ stopping = FALSE
    /\ check = [at |-> "interval", sample |-> 0, clock |-> 0]
    /\ proven = {} /\ spent = 0 /\ late = 0

InTick == check.at \in Exchange \cup {"spacing"} \cup Verdicts

(* External: the destination, and the operator. *)
RemoteChange ==
    /\ remote' = ~remote
    /\ UNCHANGED <<form, stopping, check, proven, spent, late>>

Signal ==
    /\ ~stopping /\ stopping' = TRUE
    /\ UNCHANGED <<form, remote, check, proven, spent, late>>

Goto(at) == check' = [check EXCEPT !.at = at]

(* The head of the loop of is_healthy_sampled, after its pause. *)
Sample ==
    IF stopping THEN Goto("Cancelled")
    ELSE check' = [at |-> "dial", sample |-> check.sample + 1, clock |-> 0]

(* The interval is over and the gate is held: a tick begins. *)
StartTick ==
    /\ check.at = "interval" /\ Sample
    /\ proven' = {} /\ spent' = 0 /\ late' = 0
    /\ UNCHANGED <<form, remote, stopping>>

NextSample ==
    /\ check.at = "spacing" /\ check.clock = Spacing /\ Sample
    /\ UNCHANGED <<form, remote, stopping, proven, spent, late>>

(* The sample is over. *)
Fails == Goto("Unhealthy")
Passes ==
    check' = IF check.sample = Samples THEN [check EXCEPT !.at = "Healthy"]
             ELSE [check EXCEPT !.at = "spacing", !.clock = 0]

Proves == proven' = proven \cup {check.sample}

(* The entry accepts and takes the request, or does not. *)
Dial ==
    /\ check.at = "dial"
    /\ Goto("status") \/ Fails
    /\ UNCHANGED <<form, remote, stopping, proven, spent, late>>

(* read_status_line of a GET: the destination's own, or the adapter's error. *)
GetStatus ==
    /\ check.at = "status" /\ form = "get"
    /\ \/ remote /\ Proves /\ (Passes \/ Fails)
       \/ Fails /\ UNCHANGED proven
    /\ UNCHANGED <<form, remote, stopping, spent, late>>

(* connect_status_timed that takes the status line for an answer. *)
TunnelOpenSuffices ==
    /\ check.at = "status" /\ form = "connect"
    /\ Passes \/ Fails
    /\ UNCHANGED <<form, remote, stopping, proven, spent, late>>

(* The adapter's 2xx, upon which the probe is written; anything else fails. *)
TunnelOpen ==
    /\ check.at = "status" /\ form = "connect"
    /\ Goto("probe") \/ Fails
    /\ UNCHANGED <<form, remote, stopping, proven, spent, late>>

(* The first byte through the tunnel, or its end. *)
ProbeAnswer ==
    /\ check.at = "probe"
    /\ \/ remote /\ Proves /\ Passes
       \/ Fails /\ UNCHANGED proven
    /\ UNCHANGED <<form, remote, stopping, spent, late>>

(* tokio::time::timeout that does not span the probe. *)
TimedOutBeforeProbe ==
    /\ check.at \in {"dial", "status"} /\ check.clock = CheckTimeout
    /\ Fails
    /\ UNCHANGED <<form, remote, stopping, proven, spent, late>>

(* tokio::time::timeout around the whole exchange. *)
TimedOut ==
    /\ check.at \in Exchange /\ check.clock = CheckTimeout
    /\ Fails
    /\ UNCHANGED <<form, remote, stopping, proven, spent, late>>

(* health_loop takes the verdict: it is booked, or the loop ends. *)
TakeVerdict ==
    /\ check.at \in Verdicts
    /\ check' = [at |-> IF stopping THEN "stopped" ELSE "interval", sample |-> 0, clock |-> 0]
    /\ UNCHANGED <<form, remote, stopping, proven, spent, late>>

(* The select at the head of health_loop. *)
StopWaiting ==
    /\ check.at = "interval" /\ stopping
    /\ Goto("stopped")
    /\ UNCHANGED <<form, remote, stopping, proven, spent, late>>

(* A timer that is due comes before more time passes. *)
Due == check.clock = IF check.at = "spacing" THEN Spacing ELSE CheckTimeout

Pass ==
    /\ check.at \in Exchange \cup {"spacing"} /\ ~Due
    /\ check' = [check EXCEPT !.clock = @ + 1]
    /\ spent' = IF spent > Budget THEN spent ELSE spent + 1
    /\ late' = IF stopping /\ late <= CheckTimeout + Spacing THEN late + 1 ELSE late
    /\ UNCHANGED <<form, remote, stopping, proven>>

LoopStep == StartTick \/ NextSample \/ TimedOut \/ TakeVerdict \/ StopWaiting

HealthNext ==
    \/ RemoteChange \/ Signal \/ Dial \/ GetStatus \/ TunnelOpen \/ ProbeAnswer
    \/ LoopStep \/ Pass

-----------------------------------------------------------------------------
(***************************************************************************)
(* HealthyMeansAnswered.  A tick is booked as healthy only if in each of   *)
(* its samples a byte of the destination came back within the timeout,     *)
(* whatever the adapter said on its own and however the destination        *)
(* changed in between (connect_status_timed, is_healthy_sampled).          *)
(***************************************************************************)
HealthyMeansAnswered == check.at = "Healthy" => proven = 1..Samples

(***************************************************************************)
(* TickWithinBudget.  A tick takes no more than samples * (timeout +       *)
(* SAMPLE_SPACING), which is what the configuration allows for, since it   *)
(* holds the gate all the time ("Worst-case tick cost", health.rs).        *)
(***************************************************************************)
TickWithinBudget == InTick => spent <= Budget

(***************************************************************************)
(* StopsWithinSample.  After the shutdown signal a tick goes on for one    *)
(* pause and one exchange at most, however many samples are left           *)
(* (cancelled in is_healthy_sampled).                                      *)
(***************************************************************************)
StopsWithinSample == InTick => late <= CheckTimeout + Spacing

(***************************************************************************)
(* TicksEnd.  A tick ends even if no peer ever answers, and after the      *)
(* signal the loop ends for good (health_loop).                            *)
(***************************************************************************)
TicksEnd == (InTick ~> ~InTick) /\ (stopping ~> check.at = "stopped")

(***************************************************************************)
(* TickEndsInTime.  A tick ends, within its budget, and soon after a       *)
(* shutdown signal, although the adapter has answered and the destination  *)
(* never does (is_healthy_sampled).                                        *)
(***************************************************************************)
TickEndsInTime == []TickWithinBudget /\ []StopsWithinSample /\ TicksEnd

-----------------------------------------------------------------------------
(***************************************************************************)
(* The inductive invariant behind HealthyMeansAnswered: the samples before *)
(* the present one are proven, and in a pause the present one is as well.  *)
(***************************************************************************)
HealthInv ==
    /\ form \in {"get", "connect"}
    /\ check \in [at : {"interval", "spacing", "stopped"} \cup Exchange \cup Verdicts,
                  sample : 0..Samples, clock : Nat]
    /\ proven \subseteq 1..Samples
    /\ check.at = "interval" => check.sample = 0
    /\ check.at \in Exchange => check.sample # 0 /\ 1..(check.sample - 1) \subseteq proven
    /\ check.at = "probe" => form = "connect"
    /\ check.at = "spacing" => check.sample < Samples /\ 1..check.sample \subseteq proven
    /\ check.at = "Healthy" => 1..Samples \subseteq proven

(***************************************************************************)
(* The inductive invariant behind TickWithinBudget and StopsWithinSample:  *)
(* the samples before the present one have taken their share at most, and  *)
(* time after the signal is time of the present sample, since the next one *)
(* is not begun.                                                           *)
(***************************************************************************)
Share(n) == n * (CheckTimeout + Spacing)

TickInv ==
    /\ HealthInv /\ spent \in Nat /\ late \in Nat
    /\ ~stopping => late = 0
    /\ check.at \in Exchange =>
          /\ check.clock <= CheckTimeout
          /\ spent <= Share(check.sample - 1) + check.clock /\ late <= check.clock
    /\ check.at = "spacing" =>
          /\ check.sample # 0 /\ check.clock <= Spacing
          /\ spent <= Share(check.sample - 1) + CheckTimeout + check.clock
          /\ late <= CheckTimeout + check.clock
    /\ check.at \in Verdicts =>
          spent <= Share(check.sample) /\ late <= CheckTimeout + Spacing

=============================================================================
