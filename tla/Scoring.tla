------------------------------ MODULE Scoring ------------------------------
(***************************************************************************)
(* Scores of nodes (score.rs) and the ranking automatic selection uses     *)
(* (ranked_candidates in supervisor.rs).  Rates and round-trip times are   *)
(* exact: integers in units of 1/Scale, so that alpha, the hysteresis and  *)
(* the tie margin of the code are whole numbers of units.                  *)
(***************************************************************************)
EXTENDS Integers, Sequences, FiniteSetsExt

CONSTANTS
    Scale,       \* units in 1
    Alpha,       \* selection.ema_alpha, in tenths
    Hysteresis,  \* selection.hysteresis, in tenths
    NoRtt        \* rtt_ema_ms is None

ASSUME ScoringAssumption ==
    /\ Scale \in Nat \ {0} /\ Scale % 10000 = 0
    /\ Alpha \in 1..10 /\ Hysteresis \in 0..10

SuccessTieEps == Scale \div 10000   \* SUCCESS_TIE_EPS
LeastIncumbent == Scale \div 20     \* the 0.05 of challenger_wins

Abs(n) == IF n < 0 THEN -n ELSE n

(* A node's moving averages, and how often it was probed. *)
NodeStats == [success : 0..Scale, rtt : {NoRtt} \cup Nat, count : Nat]

(* NodeStats::default *)
Unprobed == [success |-> 0, rtt |-> NoRtt, count |-> 0]

IsProbed(s) == s.count > 0

Blend(sample, old) == (Alpha * sample + (10 - Alpha) * old) \div 10

(* record_probe: rtt is NoRtt for a probe that failed. *)
RecordProbe(s, rtt) ==
    LET sample == IF rtt = NoRtt THEN 0 ELSE Scale
    IN  [success |-> IF s.count = 0 THEN sample ELSE Blend(sample, s.success),
         rtt     |-> IF rtt = NoRtt THEN s.rtt
                     ELSE IF s.rtt = NoRtt THEN rtt ELSE Blend(rtt, s.rtt),
         count   |-> s.count + 1]

(* The statistics after a history of probes, oldest first. *)
StatsOf(history) ==
    LET after[n \in 0..Len(history)] == IF n = 0 THEN Unprobed
                                        ELSE RecordProbe(after[n - 1], history[n])
    IN  after[Len(history)]

(* success_cmp that calls one percent a tie. *)
SuccessCmpWide(a, b) == IF Abs(a - b) <= 100 * SuccessTieEps THEN 0 ELSE IF a < b THEN -1 ELSE 1

(* success_cmp: -1, 0 or 1 *)
SuccessCmp(a, b) == IF Abs(a - b) <= SuccessTieEps THEN 0 ELSE IF a < b THEN -1 ELSE 1

(* score_cmp: the greater is the better one. *)
ScoreCmp(a, b) ==
    IF SuccessCmp(a.success, b.success) # 0 THEN SuccessCmp(a.success, b.success)
    ELSE IF a.rtt = b.rtt THEN 0
    ELSE IF a.rtt = NoRtt THEN -1
    ELSE IF b.rtt = NoRtt THEN 1
    ELSE IF a.rtt < b.rtt THEN 1 ELSE -1

(* External: what sort_by does to a short slice.  An element goes to the   *)
(* right of the last one it is not better than.                            *)
InsertRanked(ranked, s) ==
    LET at == Max({j \in 1..Len(ranked) : ScoreCmp(ranked[j], s) >= 0} \cup {0})
    IN  SubSeq(ranked, 1, at) \o <<s>> \o SubSeq(ranked, at + 1, Len(ranked))

(* ranked_candidates, in descending order; unprobed nodes are left out. *)
RankedCandidates(pool) ==
    LET ranked[n \in 0..Len(pool)] ==
          IF n = 0 THEN <<>>
          ELSE IF IsProbed(pool[n]) THEN InsertRanked(ranked[n - 1], pool[n])
          ELSE ranked[n - 1]
    IN  ranked[Len(pool)]

(* challenger_wins *)
ChallengerWins(c, i) ==
    LET margin == Hysteresis * Max({i.success, LeastIncumbent})  \* in tenths of a unit
        ds     == c.success - i.success
    IN  /\ IsProbed(c)
        /\ \/ ~IsProbed(i)
           \/ 10 * Abs(ds) > margin /\ ds > 0
           \/ /\ 10 * Abs(ds) <= margin
              /\ c.rtt # NoRtt
              /\ i.rtt = NoRtt \/ c.rtt * (10 + Hysteresis) < i.rtt * 10

=============================================================================
