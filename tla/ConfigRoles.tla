---------------------------- MODULE ConfigRoles ----------------------------
(***************************************************************************)
(* Validation of the configuration (config.rs): which files the daemon may *)
(* write, read and execute, and whether any two of these roles can meet    *)
(* through symbolic links, through `..` or through a derived file name.    *)
(*                                                                         *)
(* An absolute path is a sequence of components, a component a file name   *)
(* or Up; a file name is the sequence of its dot-separated parts.  A       *)
(* canonical path has neither links nor Up in it.                          *)
(***************************************************************************)
EXTENDS Integers, Sequences, SequencesExt, FiniteSetsExt, FiniteSets

CONSTANTS
    Dirs,      \* canonical paths of the directories there are at validation
    Files,     \* canonical paths of the files
    Links,     \* canonical path of a symbolic link -> canonical path it names
    Up,        \* the component `..`
    NotFound,  \* a path that leads nowhere
    Invalid,   \* a path that cannot be looked up or normalized
    Absent     \* an optional field that is not set

(* A file name without a `..`, and paths; the names the daemon gives to    *)
(* files in directories of its own.                                        *)
FileName  == Seq(STRING \cup {"json", "tmp", "run", "control", "sock", "daemon", "lock",
                              "adapters", "causeway", "jsonl", "causeway-a", "causeway-b"})
Component == {Up} \cup FileName
Path      == Seq(Component)
OwnNames  == {<<"causeway", "jsonl">>, <<"daemon", "lock">>, <<"control", "sock">>, <<"adapters">>}

ASSUME NamesAssumption ==
    /\ Up \notin FileName
    /\ NotFound \notin Path /\ Invalid \notin Path /\ Absent \notin Path /\ NotFound # Invalid

(* Links are followed, so that no path to a directory or file has one in   *)
(* it; nobody puts one where the daemon makes its own files.               *)
ASSUME FileSystemAssumption ==
    /\ <<>> \in Dirs
    /\ Dirs \cup Files \cup DOMAIN Links \subseteq Path
    /\ \A p \in (Dirs \cup Files \cup DOMAIN Links) \ {<<>>} : Front(p) \in Dirs
    /\ \A p \in DOMAIN Links : /\ Links[p] \in Path /\ p \notin Dirs \cup Files
                               /\ Last(p) \notin OwnNames

Failed(where) == where \in {NotFound, Invalid}

Parent(p) == IF p = <<>> THEN <<>> ELSE Front(p)

(* A component taken by its spelling. *)
Lexically(at, c) == IF c = Up THEN Parent(at) ELSE Append(at, c)

(* External: the kernel's walk, one component at a time. *)
Walk(at, c) ==
    LET next == Lexically(at, c)
    IN  CASE Failed(at)                          -> at
          [] at \in Files                        -> Invalid
          [] OTHER                               ->
               CASE next \in Dirs \cup Files     -> next
                 [] next \in DOMAIN Links        -> IF Links[next] \in Dirs \cup Files
                                                    THEN Links[next] ELSE NotFound
                 [] OTHER                        -> NotFound

Canonicalize(p) ==
    LET at[n \in 0..Len(p)] == IF n = 0 THEN <<>> ELSE Walk(at[n - 1], p[n])
    IN  at[Len(p)]

(* symlink_metadata: does not follow the last component. *)
SymlinkMetadata(p) ==
    IF p # <<>> /\ LET dir == Canonicalize(Front(p))
                   IN  ~Failed(dir) /\ Lexically(dir, Last(p)) \in DOMAIN Links
    THEN p ELSE Canonicalize(p)

(* Components that are not there, by their spelling. *)
Spelled(base, rest) ==
    LET at[n \in 0..Len(rest)] == IF n = 0 THEN base ELSE Lexically(at[n - 1], rest[n])
    IN  at[Len(rest)]

(* normalized_path: the longest prefix there is, resolved, and the missing *)
(* rest by its spelling.                                                   *)
NormalizedPath(p) ==
    LET prefix(k) == SubSeq(p, 1, k)
        longest   == Max({k \in 0..Len(p) : SymlinkMetadata(prefix(k)) # NotFound})
        base      == Canonicalize(prefix(longest))
    IN  IF Failed(base) THEN Invalid
        ELSE Spelled(base, SubSeq(p, longest + 1, Len(p)))

-----------------------------------------------------------------------------
(* Names derived from the configured ones.                                  *)

Sibling(p, name) == Append(Front(p), name)

(* with_extension("json.tmp"), the temporary file of a state save. *)
StateTmp(state) ==
    LET name == Last(state)
    IN  Sibling(state, (IF Len(name) > 1 THEN Front(name) ELSE name) \o <<"json", "tmp">>)

RunDir(state)        == Sibling(state, <<"run">>)
ControlSocket(state) == Append(RunDir(state), <<"control", "sock">>)

(* derived_cache_slot_path *)
CacheSlot(cache, suffix) == Sibling(cache, Append(Last(cache), suffix))
SlotSuffixes == {"causeway-a", "causeway-b"}

-----------------------------------------------------------------------------
(***************************************************************************)
(* A configuration: state, log, bin (one for the three executables) and    *)
(* conf are paths, files the sources of the legacy form, profiles a        *)
(* function to records with files, url and cache, default a name.          *)
(***************************************************************************)
IsConfig(cfg) ==
    /\ cfg.state \in Path /\ cfg.log \in Path /\ cfg.bin \in Path /\ cfg.conf \in Path
    /\ cfg.files \in Seq(Path)
    /\ \A n \in DOMAIN cfg.profiles :
          LET p == cfg.profiles[n]
          IN  p.files \in Seq(Path) /\ p.url \in Path \cup {Absent} /\ p.cache \in Path \cup {Absent}

ProfileNames(cfg) == DOMAIN cfg.profiles
Remote(cfg)       == {n \in ProfileNames(cfg) : cfg.profiles[n].cache # Absent}

Role(label, path, access, namespace) ==
    [label |-> label, path |-> NormalizedPath(path), access |-> access, namespace |-> namespace]

(* The sources of subscriptions, each with whose it is. *)
LegacyFiles(cfg)  == {[of |-> "default", path |-> f] : f \in Range(cfg.files)}
ProfileFiles(cfg) ==
    UNION {{[of |-> n, path |-> f] : f \in Range(cfg.profiles[n].files)} : n \in ProfileNames(cfg)}
ProfileUrls(cfg)  ==
    {[of |-> n, path |-> cfg.profiles[n].url] :
        n \in {m \in ProfileNames(cfg) : cfg.profiles[m].url # Absent}}

Sources(cfg) == LegacyFiles(cfg) \cup ProfileFiles(cfg) \cup ProfileUrls(cfg)

(* SlotRoles that forgets the slots. *)
SlotRolesNone(cfg) == {}

(* The slots a transaction writes next to the cache. *)
SlotRoles(cfg) ==
    {Role(<<"slot", n, suffix>>, CacheSlot(cfg.profiles[n].cache, suffix), "file", "") :
        n \in Remote(cfg), suffix \in SlotSuffixes}

(* The roles of validate_filesystem_roles. *)
Roles(cfg) ==
    {Role(<<"state">>, cfg.state, "file", ""), Role(<<"tmp">>, StateTmp(cfg.state), "file", ""),
     Role(<<"log">>, cfg.log, "dir", ""),
     Role(<<"socket">>, ControlSocket(cfg.state), "file", "runtime"),
     Role(<<"run">>, RunDir(cfg.state), "dir", "runtime"),
     Role(<<"bin">>, cfg.bin, "read", ""), Role(<<"conf">>, cfg.conf, "read", "")}
    \cup {Role(<<"source", s>>, s.path, "read", "") : s \in Sources(cfg)}
    \cup {Role(<<"cache", n>>, cfg.profiles[n].cache, "file", "") : n \in Remote(cfg)}
    \cup SlotRoles(cfg)

Within(p, q) == IsPrefix(p, q) \/ IsPrefix(q, p)

(* validate_role_collisions, for two roles. *)
Collide(left, right) ==
    /\ left.access # "read" \/ right.access # "read"
    /\ \/ left.path = right.path
       \/ /\ left.namespace = "" \/ left.namespace # right.namespace
          /\ Within(left.path, right.path)

(* validate_filesystem_roles *)
RolesApart(cfg) ==
    LET roles == Roles(cfg)
    IN  /\ \A r \in roles : r.path # Invalid
        /\ \A left, right \in roles : left.label # right.label => ~Collide(left, right)

(* validate_writable_path_spellings *)
SpellingsSafe(cfg) ==
    \A p \in {cfg.state, cfg.log} \cup {cfg.profiles[n].cache : n \in Remote(cfg)} :
        p # <<>> /\ Up \notin Range(p)

(* default_profile_name, Absent where it fails. *)
DefaultProfile(cfg) ==
    IF cfg.files # <<>> THEN "default"
    ELSE IF cfg.default # Absent THEN cfg.default
    ELSE IF Cardinality(ProfileNames(cfg)) = 1 THEN CHOOSE n \in ProfileNames(cfg) : TRUE
    ELSE Absent

(* What a cache must not be (protected_paths). *)
Protected(cfg) ==
    {NormalizedPath(p) : p \in {cfg.state, StateTmp(cfg.state), cfg.bin, cfg.conf}
                                 \cup {s.path : s \in Sources(cfg)}}

(* The checks of SubscriptionsConfig::validate on one profile. *)
ProfileValid(cfg, n) ==
    LET p == cfg.profiles[n]
    IN  /\ (p.files # <<>>) # (p.url # Absent)
        /\ (p.cache # Absent) = (p.url # Absent)
        /\ p.cache # Absent =>
             /\ NormalizedPath(p.cache) \notin Protected(cfg) \cup {Invalid}
             /\ \A m \in Remote(cfg) \ {n} :
                  NormalizedPath(cfg.profiles[m].cache) # NormalizedPath(p.cache)

(* SubscriptionsConfig::validate; the legacy form returns early. *)
SubscriptionsValid(cfg) ==
    \/ cfg.files # <<>> /\ ProfileNames(cfg) = {} /\ cfg.default \in {Absent, "default"}
    \/ /\ cfg.files = <<>> /\ ProfileNames(cfg) # {}
       /\ \A n \in ProfileNames(cfg) : ProfileValid(cfg, n)
       /\ DefaultProfile(cfg) \in ProfileNames(cfg)

(* The part of Config::validate_at that is about files. *)
Validate(cfg) == SpellingsSafe(cfg) /\ SubscriptionsValid(cfg) /\ RolesApart(cfg)

(* source_identity: what the state file remembers a source by. *)
SourceIdentity(profile) ==
    IF profile.files # <<>>
    THEN [files |-> [i \in DOMAIN profile.files |-> NormalizedPath(profile.files[i])]]
    ELSE [url |-> NormalizedPath(profile.url), cache |-> NormalizedPath(profile.cache)]

-----------------------------------------------------------------------------
(***************************************************************************)
(* The health policy: interval in seconds, timeout in milliseconds,        *)
(* samples, threshold, and classes, a function to [samples, auto] with     *)
(* Absent for what a class inherits.                                       *)
(***************************************************************************)
MaxHealthTickMs == 60000   \* MAX_HEALTH_TICK_BUDGET_MS
MaxIntervalSecs == 86400   \* MAX_INTERVAL_SECS
MaxTimeoutMs    == 60000   \* MAX_TIMEOUT_MS
MaxThreshold    == 100     \* MAX_FAIL_THRESHOLD

(* health_tick_budget_ms *)
TickBudget(samples, timeout) == samples * (timeout + 1000)

TickCap(interval) == Min({interval * 1000, MaxHealthTickMs})

(* class_health_samples *)
ClassSamples(pol, c) ==
    IF pol.classes[c].samples # Absent THEN pol.classes[c].samples ELSE pol.samples

(* The checks of the class loop; the caps are those of the global values. *)
ClassPolicyValid(pol, c) ==
    pol.classes[c].samples # Absent =>
        /\ pol.classes[c].samples \in 1..10
        /\ TickBudget(pol.classes[c].samples, pol.timeout) <= TickCap(pol.interval)

(* The part of Config::validate_at that is about health checks. *)
PolicyValid(pol) ==
    /\ DOMAIN pol.classes # {}
    /\ \A c \in DOMAIN pol.classes : ClassPolicyValid(pol, c)
    /\ pol.interval \in 1..MaxIntervalSecs
    /\ pol.timeout \in 1..MaxTimeoutMs
    /\ pol.threshold \in 1..MaxThreshold
    /\ pol.samples \in 1..10
    /\ TickBudget(pol.samples, pol.timeout) <= TickCap(pol.interval)

=============================================================================
