----------------------------- MODULE Decisions -----------------------------
(***************************************************************************)
(* The parts of the daemon that work on their own: when a change of the    *)
(* host's routes rebuilds paths, when a failed recovery is tried again,    *)
(* when a path is healthy, how a manifest is fetched and the state file is *)
(* saved, which node is the better one, which nodes a manifest has and     *)
(* which configuration is accepted.                                        *)
(*                                                                         *)
(* They do not interact here, so a behaviour is about one of them: `input` *)
(* says which.  Five are state machines; scores, pools and configurations  *)
(* are functions of an input that is one of many initial states.           *)
(***************************************************************************)
EXTENDS EgressObserver, AutoRecovery, HealthCheck, ManifestFetch, FileSave, Scoring, ConfigRoles

CONSTANTS
    Histories,  \* probe histories of a node
    Recent,     \* probes that outweigh whatever came before
    Rankings,   \* pools that are ranked: a node's statistics each
    Manifests,  \* the files of a profile
    Configs,    \* configurations
    Spellings,  \* paths a source is spelled with
    Policies    \* health policies

ASSUME HistoriesAssumption == Histories \subseteq Seq({NoRtt} \cup Nat)
ASSUME RankingsAssumption == Rankings \subseteq Seq(NodeStats)
ASSUME ConfigsAssumption == Spellings \subseteq Path /\ \A cfg \in Configs : IsConfig(cfg)
ASSUME ManifestsAssumption == Manifests \subseteq Seq({Unreadable} \cup Seq(RawProxy))

VARIABLE input

vars == <<egressVars, recoveryVars, healthVars, fetchVars, saveVars, input>>

Inputs ==
    [kind : {"egress", "recovery", "health", "fetch", "save"}]
    \cup [kind : {"histories"}, a : Histories, b : Histories]
    \cup [kind : {"ranking"}, pool : Rankings]
    \cup [kind : {"manifest"}, files : Manifests]
    \cup [kind : {"config"}, cfg : Configs]
    \cup [kind : {"spelling"}, a : Spellings, b : Spellings]
    \cup [kind : {"policy"}, policy : Policies]

(* TypeOK.  The variables have their types. *)
TypeOK == EgressTypeOK /\ RecoveryTypeOK /\ HealthTypeOK /\ FetchTypeOK /\ SaveTypeOK

(* The parts that a behaviour is not about stay in one initial state. *)
Init ==
    /\ input \in Inputs
    /\ EgressInit /\ (input.kind # "egress" => table = CHOOSE t \in Tables : TRUE)
    /\ RecoveryInit /\ (input.kind # "recovery" => auto /\ active /\ healthy)
    /\ HealthInit /\ (input.kind # "health" => form = "get" /\ remote)
    /\ FetchInit /\ (input.kind # "fetch" => curl.size = 0)
    /\ SaveInit /\ (input.kind # "save" => dir.now.state # NoFile)

Next ==
    \/ /\ input.kind = "egress" /\ EgressNext
       /\ UNCHANGED <<recoveryVars, healthVars, fetchVars, saveVars, input>>
    \/ /\ input.kind = "recovery" /\ RecoveryNext
       /\ UNCHANGED <<egressVars, healthVars, fetchVars, saveVars, input>>
    \/ /\ input.kind = "health" /\ HealthNext
       /\ UNCHANGED <<egressVars, recoveryVars, fetchVars, saveVars, input>>
    \/ /\ input.kind = "fetch" /\ FetchNext
       /\ UNCHANGED <<egressVars, recoveryVars, healthVars, saveVars, input>>
    \/ /\ input.kind = "save" /\ SaveNext
       /\ UNCHANGED <<egressVars, recoveryVars, healthVars, fetchVars, input>>

Spec == Init /\ [][Next]_vars

(* The loops and tasks are polled and clocks go on; curl, which has a time *)
(* limit, goes on or ends.  No other peer owes an answer.                  *)
FairSpec ==
    /\ Spec
    /\ WF_recoveryVars(input.kind = "recovery" /\ HealthTick)
    /\ WF_recoveryVars(input.kind = "recovery" /\ Later)
    /\ WF_healthVars(input.kind = "health" /\ LoopStep)
    /\ WF_healthVars(input.kind = "health" /\ Pass)
    /\ WF_fetchVars(input.kind = "fetch" /\ FetchStep)
    /\ WF_fetchVars(input.kind = "fetch" /\ (CurlSends \/ CurlExits))

-----------------------------------------------------------------------------
(* Scores.                                                                  *)

(* The last probes of a history all had the outcome that is asked for. *)
Lately(history, ok) ==
    /\ Len(history) >= Recent
    /\ \A i \in (Len(history) - Recent + 1)..Len(history) : (history[i] # NoRtt) = ok

(* The success rate after n successes, and after n failures, at the worst. *)
Risen(n) ==
    LET rate[m \in 0..n] == IF m = 0 THEN 0 ELSE Blend(Scale, rate[m - 1])
    IN  rate[n]

Faded(n) ==
    LET rate[m \in 0..n] == IF m = 0 THEN Scale ELSE Blend(0, rate[m - 1])
    IN  rate[n]

(* That many probes are recent enough to decide. *)
ASSUME RecentAssumption ==
    /\ Recent \in Nat \ {0}
    /\ Risen(Recent) > Faded(Recent) + SuccessTieEps
    /\ (10 - Hysteresis) * Risen(Recent) > 10 * Faded(Recent)
    /\ 10 * (Risen(Recent) - Faded(Recent)) > Hysteresis * LeastIncumbent

(***************************************************************************)
(* RecentDecides.  A node whose last Recent probes all succeeded ranks     *)
(* above a node whose last Recent probes all failed and takes its place    *)
(* for good, whatever came before (record_probe, score_cmp,                *)
(* challenger_wins).                                                       *)
(***************************************************************************)
RecentDecides ==
    (input.kind = "histories" /\ Lately(input.a, TRUE) /\ Lately(input.b, FALSE)) =>
        LET good == StatsOf(input.a)
            bad  == StatsOf(input.b)
        IN  /\ RankedCandidates(<<bad, good>>) = <<good, bad>>
            /\ ChallengerWins(good, bad) /\ ~ChallengerWins(bad, good)

(***************************************************************************)
(* LeadMustBeClear.  A challenger that exceeds the incumbent's success     *)
(* rate by no more than the hysteresis, and is not faster by it either,    *)
(* does not replace it (challenger_wins).                                  *)
(***************************************************************************)
LeadMustBeClear ==
    input.kind = "histories" =>
        LET c == StatsOf(input.a)
            i == StatsOf(input.b)
        IN  (/\ c.rtt # NoRtt /\ i.rtt # NoRtt
             /\ 10 * c.success <= (10 + Hysteresis) * i.success
             /\ (10 + Hysteresis) * c.rtt >= 10 * i.rtt) => ~ChallengerWins(c, i)

(***************************************************************************)
(* NoFlipFlop.  Two nodes with unchanged scores do not replace each other  *)
(* in turn, which is what the hysteresis is for ("avoiding flip-flopping   *)
(* between nodes", score.rs).  It does not hold: the margin grows with the *)
(* incumbent's success rate.  Gaps of exactly the margin, where rounding   *)
(* decides, are left aside.                                                *)
(***************************************************************************)
NoFlipFlop ==
    input.kind = "histories" =>
        LET a == StatsOf(input.a)
            b == StatsOf(input.b)
        IN  (\A s \in {a, b} : 10 * Abs(a.success - b.success) # Hysteresis * s.success)
              => ~(ChallengerWins(a, b) /\ ChallengerWins(b, a))

(***************************************************************************)
(* HeadNearBest.  Although ties are not transitive, the first of n ranked  *)
(* candidates is within n - 1 tie margins of the best success rate of all, *)
(* in whatever order the nodes come (success_cmp, ranked_candidates).      *)
(***************************************************************************)
HeadNearBest ==
    input.kind = "ranking" =>
        LET ranked == RankedCandidates(input.pool)
        IN  \A i \in DOMAIN input.pool : IsProbed(input.pool[i]) =>
              ranked[1].success + (Len(ranked) - 1) * (Scale \div 10000) >= input.pool[i].success

(***************************************************************************)
(* RankingSound.  Ranking and replacement of nodes follow their recent     *)
(* probes, need a clear lead and lose no more than the tie margins (the    *)
(* three properties above).                                                *)
(***************************************************************************)
RankingSound == RecentDecides /\ LeadMustBeClear /\ HeadNearBest

-----------------------------------------------------------------------------
(* Manifests.                                                               *)

(* The entry stands for a node that can be used as it is described. *)
Usable(entry) ==
    \/ entry.kind = "anytls" /\ entry.complete
    \/ entry.kind = "ss" /\ entry.complete /\ entry.plugin \in {"none", "obfs"}

(* All entries of the files that can be read. *)
Listed(files) ==
    LET listed[n \in 0..Len(files)] ==
          IF n = 0 THEN <<>>
          ELSE IF files[n] = Unreadable THEN listed[n - 1]
          ELSE listed[n - 1] \o files[n]
    IN  listed[Len(files)]

(* Where the first usable entries of their names are. *)
FirstUsable(all) ==
    {i \in DOMAIN all : /\ Usable(all[i])
                        /\ \A j \in 1..(i - 1) : Usable(all[j]) => all[j].name # all[i].name}

(* The pool has a node for each first usable entry, in their order. *)
PoolOf(pool, all) ==
    \E at \in [DOMAIN pool -> FirstUsable(all)] :
        /\ \A m, n \in DOMAIN pool : m < n => at[m] < at[n]
        /\ \A i \in FirstUsable(all) : \E n \in DOMAIN pool : at[n] = i
        /\ \A n \in DOMAIN pool :
              LET entry == all[at[n]]
              IN  pool[n] = [name |-> entry.name, kind |-> entry.kind,
                             plugin |-> IF entry.kind = "ss" THEN entry.plugin ELSE "none"]

(***************************************************************************)
(* PoolIsFirstUsable.  The pool of a profile holds, in their order, the    *)
(* first usable entry of every name in its readable files, with the        *)
(* transport the entry asks for: dirty entries and files neither remove    *)
(* nor shadow other nodes, and no unknown plugin degrades to a plain       *)
(* connection (parse_str_with_logging, load_all).                          *)
(***************************************************************************)
PoolIsFirstUsable == input.kind = "manifest" => PoolOf(LoadAll(input.files), Listed(input.files))

-----------------------------------------------------------------------------
(* Configuration.                                                           *)

(* Where the kernel gets with a path once the directories on it exist. *)
Follow(at, c) ==
    LET next == IF c = Up THEN Parent(at) ELSE Append(at, c)
    IN  IF next \in DOMAIN Links THEN Links[next] ELSE next

Reached(p) ==
    LET at[n \in 0..Len(p)] == IF n = 0 THEN <<>> ELSE Follow(at[n - 1], p[n])
    IN  at[Len(p)]

Overlap(p, q) == IsPrefix(p, q) \/ IsPrefix(q, p)

(* Files the running daemon writes, with the owner of each. *)
Written(cfg) ==
    {cfg.state, StateTmp(cfg.state), Append(cfg.log, <<"causeway", "jsonl">>),
     Append(RunDir(cfg.state), <<"daemon", "lock">>), ControlSocket(cfg.state),
     Append(RunDir(cfg.state), <<"adapters">>)}
    \cup {CacheSlot(cfg.profiles[n].cache, suffix) : n \in Remote(cfg), suffix \in SlotSuffixes}

ReadOnly(cfg) ==
    {cfg.bin, cfg.conf} \cup {s.path : s \in Sources(cfg)}
    \cup {cfg.profiles[n].cache : n \in Remote(cfg)}

(* The path can be read now, or has no `..` in it. *)
Settled(p) == Up \notin Range(p) \/ ~Failed(Canonicalize(p))

(***************************************************************************)
(* WritesApart.  With a configuration that is accepted, nothing the daemon *)
(* writes while it runs is, contains or lies in a file that it reads or    *)
(* executes, and no two of its writers meet, through whatever links and    *)
(* spellings the paths go (validate_filesystem_roles).                     *)
(***************************************************************************)
WritesApart ==
    (input.kind = "config" /\ Validate(input.cfg)) =>
        LET written == Written(input.cfg)
        IN  /\ \A w \in written, r \in ReadOnly(input.cfg) :
                  Settled(r) => ~Overlap(Reached(w), Reached(r))
            /\ \A v, w \in written : v # w => ~Overlap(Reached(v), Reached(w))
            /\ \A n, m \in Remote(input.cfg) : n # m =>
                  Reached(input.cfg.profiles[n].cache) # Reached(input.cfg.profiles[m].cache)

(***************************************************************************)
(* LaterSourcesApart.  The same for sources that cannot be read yet.  It   *)
(* does not hold: once a missing directory is there, a `..` behind it lets *)
(* the kernel follow a link that normalized_path took by its name.         *)
(***************************************************************************)
LaterSourcesApart ==
    (input.kind = "config" /\ Validate(input.cfg)) =>
        \A w \in Written(input.cfg), r \in ReadOnly(input.cfg) : ~Overlap(Reached(w), Reached(r))

(***************************************************************************)
(* DefaultServes.  With a configuration that is accepted, the profile a    *)
(* start falls back to exists and has exactly one kind of source           *)
(* (default_profile_name, profile).                                        *)
(***************************************************************************)
DefaultServes ==
    (input.kind = "config" /\ Validate(input.cfg)) =>
        LET cfg == input.cfg
            n   == DefaultProfile(cfg)
        IN  \/ cfg.files # <<>> /\ n = "default" /\ DOMAIN cfg.profiles = {}
            \/ /\ n \in DOMAIN cfg.profiles
               /\ (cfg.profiles[n].files = <<>>) = (cfg.profiles[n].cache # Absent)

(***************************************************************************)
(* IdentityNamesFile.  Two spellings give a source the same identity if    *)
(* and only if they reach the same file, so an alias is no source change   *)
(* and a change of the file always is one (source_identity, which fails    *)
(* where a path cannot be normalized).                                     *)
(***************************************************************************)
IdentityNamesFile ==
    (/\ input.kind = "spelling" /\ Settled(input.a) /\ Settled(input.b)
     /\ NormalizedPath(input.a) # Invalid /\ NormalizedPath(input.b) # Invalid) =>
        LET local(p) == [files |-> <<p>>, url |-> Absent, cache |-> Absent]
        IN  (SourceIdentity(local(input.a)) = SourceIdentity(local(input.b)))
              <=> (Reached(input.a) = Reached(input.b))

(***************************************************************************)
(* TickFits.  With a policy that is accepted, no class's health tick can   *)
(* take longer than the interval or than what a subscription transaction   *)
(* can wait for, inherited or overridden (health_loop).                    *)
(***************************************************************************)
TickFits ==
    (input.kind = "policy" /\ PolicyValid(input.policy)) =>
        \A c \in DOMAIN input.policy.classes :
            LET n == ClassSamples(input.policy, c)
            IN  n >= 1 /\ n * (input.policy.timeout + 1000) <= 1000 * input.policy.interval
                /\ n * (input.policy.timeout + 1000) <= 60000

(***************************************************************************)
(* ConfigSound.  A configuration that is accepted keeps the daemon's files *)
(* apart, names sources by their file, has a profile to start with and     *)
(* leaves time for every health tick (the four properties above).          *)
(***************************************************************************)
ConfigSound == WritesApart /\ DefaultServes /\ IdentityNamesFile /\ TickFits

=============================================================================
