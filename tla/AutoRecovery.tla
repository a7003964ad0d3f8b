---------------------------- MODULE AutoRecovery ----------------------------
(***************************************************************************)
(* Automatic recovery of one class (supervisor.rs): the health loop counts *)
(* failed checks, asks for another path at the threshold, and backs off    *)
(* after a recovery that failed (AutoRecoveryBackoff).  Paths installed by *)
(* anybody else, by a manual switch, a challenger, an egress rebuild or a  *)
(* subscription transaction, end the streak.                               *)
(*                                                                         *)
(* retry_not_before is kept as the time still to wait.                     *)
(***************************************************************************)
EXTENDS Integers

CONSTANTS
    Threshold,       \* health.fail_threshold
    InitialBackoff,  \* AUTO_RECOVERY_INITIAL_BACKOFF, in units of time
    MaxBackoff,      \* AUTO_RECOVERY_MAX_BACKOFF, in units of time
    MaxStreak        \* failures in a row that are told apart

ASSUME RecoveryAssumption ==
    /\ Threshold \in Nat \ {0} /\ InitialBackoff \in Nat \ {0}
    /\ MaxBackoff \in Nat /\ MaxBackoff >= InitialBackoff
    /\ MaxStreak \in Nat \ {0}

VARIABLES
    auto,     \* class_auto_switch, which never changes
    active,   \* the class has a path
    healthy,  \* what the next check would find
    streak,   \* health_failures
    failures, \* consecutive_failures of AutoRecoveryBackoff
    wait,     \* time until retry_not_before
    quiet,    \* history: time since the last attempt failed
    missed,   \* history: attempts that failed since a path was installed
    did       \* what this step did

recoveryVars == <<auto, active, healthy, streak, failures, wait, quiet, missed, did>>

AtMost(n, most) == IF n > most THEN most ELSE n

RecoveryTypeOK ==
    /\ auto \in BOOLEAN /\ active \in BOOLEAN /\ healthy \in BOOLEAN
    /\ streak \in 0..Threshold
    /\ failures \in 0..MaxStreak /\ missed \in 0..MaxStreak
    /\ wait \in 0..MaxBackoff /\ quiet \in 0..MaxBackoff
    /\ did \in {"none", "installed", "failed", "waited", "pinned"}

(* The initial activation may have found no node that works. *)
RecoveryInit ==
    /\ auto \in BOOLEAN /\ active \in BOOLEAN /\ healthy \in BOOLEAN
    /\ streak = 0 /\ failures = 0 /\ wait = 0
    /\ quiet = MaxBackoff /\ missed = 0 /\ did = "none"

(* External: time passes, and the upstream fails or works again. *)
Later ==
    /\ wait' = IF wait = 0 THEN 0 ELSE wait - 1
    /\ quiet' = AtMost(quiet + 1, MaxBackoff)
    /\ healthy' \in BOOLEAN /\ did' = "none"
    /\ UNCHANGED <<auto, active, streak, failures, missed>>

(* install_active that leaves the cooldown. *)
InstallKeepsBackoff ==
    /\ active' = TRUE /\ streak' = 0
    /\ missed' = 0 /\ did' = "installed"
    /\ UNCHANGED <<failures, wait, quiet>>

(* install_active: a fresh path and a clean slate. *)
Install ==
    /\ active' = TRUE /\ streak' = 0
    /\ failures' = 0 /\ wait' = 0
    /\ missed' = 0 /\ did' = "installed"
    /\ UNCHANGED quiet

(* A switch, a rebuild or a transaction publishes a path. *)
OtherInstall == Install /\ healthy' \in BOOLEAN /\ UNCHANGED auto

(* The delay of record_failure_at: doubled n - 1 times, never past the cap. *)
Delay(n) ==
    LET doubled[k \in 0..(n - 1)] == IF k = 0 THEN InitialBackoff
                                     ELSE AtMost(2 * doubled[k - 1], MaxBackoff)
    IN  doubled[n - 1]

(* record_failure_at *)
RecordFailure ==
    LET n == AtMost(failures + 1, MaxStreak)
    IN  /\ failures' = n /\ wait' = Delay(n)
        /\ quiet' = 0 /\ missed' = AtMost(missed + 1, MaxStreak)
        /\ did' = "failed"

(* recover_after_health_failure that begins the cooldown anew. *)
RecoverRearms(n) ==
    \/ active /\ ~auto /\ did' = "pinned" /\ streak' = n
       /\ UNCHANGED <<active, failures, wait, quiet, missed>>
    \/ (~active \/ auto) /\ wait > 0 /\ did' = "waited" /\ streak' = n
       /\ wait' = Delay(failures) /\ UNCHANGED <<active, failures, quiet, missed>>
    \/ (~active \/ auto) /\ wait = 0
       /\ (Install \/ (RecordFailure /\ streak' = n /\ UNCHANGED active))

(* recover_after_health_failure, after the streak became n. *)
RecoverAfterHealthFailure(n) ==
    \/ active /\ ~auto /\ did' = "pinned" /\ streak' = n
       /\ UNCHANGED <<active, failures, wait, quiet, missed>>
    \/ (~active \/ auto) /\ wait > 0 /\ did' = "waited" /\ streak' = n
       /\ UNCHANGED <<active, failures, wait, quiet, missed>>
    \/ (~active \/ auto) /\ wait = 0
       /\ (Install \/ (RecordFailure /\ streak' = n /\ UNCHANGED active))

(* record_health_outcome and what the health loop does with it.  Without a *)
(* path the threshold counts as reached.                                   *)
HealthTick ==
    /\ UNCHANGED <<auto, healthy>>
    /\ IF active /\ healthy
       THEN streak' = 0 /\ did' = "none"
            /\ UNCHANGED <<active, failures, wait, quiet, missed>>
       ELSE LET n == IF active THEN AtMost(streak + 1, Threshold) ELSE streak
            IN  IF ~active \/ n >= Threshold
                THEN RecoverAfterHealthFailure(n)
                ELSE streak' = n /\ did' = "none"
                     /\ UNCHANGED <<active, failures, wait, quiet, missed>>

RecoveryNext == Later \/ OtherInstall \/ HealthTick

-----------------------------------------------------------------------------
(* 2 to the n; `^` itself has no laws in the provers. *)
PowerOfTwo(n) ==
    LET power[k \in 0..n] == IF k = 0 THEN 1 ELSE 2 * power[k - 1]
    IN  power[n]

(***************************************************************************)
(* RetriesSpaced.  After n failed recoveries in a row the next attempt     *)
(* comes no sooner than InitialBackoff * 2^(n-1), at most MaxBackoff,      *)
(* later, whether the class has a path or not (AutoRecoveryBackoff).       *)
(***************************************************************************)
RetriesSpaced ==
    [][did' = "failed" /\ missed > 0
          => quiet >= AtMost(InitialBackoff * PowerOfTwo(missed - 1), MaxBackoff)]_recoveryVars

(***************************************************************************)
(* CleanSlate.  No attempt waits for a cooldown when none has failed since *)
(* a path was installed, whoever installed it (install_active).            *)
(***************************************************************************)
CleanSlate == [][did' = "waited" => missed > 0 /\ quiet < MaxBackoff]_recoveryVars

(***************************************************************************)
(* BackoffSound.  The cooldown spaces the attempts of one streak of failed *)
(* recoveries and ends with it (RetriesSpaced, CleanSlate).                *)
(***************************************************************************)
BackoffSound == RetriesSpaced /\ CleanSlate

(***************************************************************************)
(* FailingIsRetried.  A class that automatic selection may move and whose  *)
(* checks fail for good gets attempts again and again: the backoff never   *)
(* grows past its cap and no streak is lost (health_loop).                 *)
(***************************************************************************)
FailingIsRetried ==
    (auto /\ <>[](~healthy /\ active)) \/ <>[](~active)
        => []<>(did \in {"installed", "failed"})

-----------------------------------------------------------------------------
(***************************************************************************)
(* The inductive invariant behind BackoffSound: the failures that are      *)
(* counted are those since a path was installed, and what has been waited  *)
(* and what is still to wait make up their delay.                          *)
(***************************************************************************)
RecoveryInv ==
    /\ failures \in 0..MaxStreak /\ missed = failures
    /\ wait \in 0..MaxBackoff /\ quiet \in 0..MaxBackoff
    /\ wait > 0 => failures > 0 /\ quiet + wait = Delay(failures)
    /\ wait = 0 /\ failures > 0 => quiet >= Delay(failures)

=============================================================================
