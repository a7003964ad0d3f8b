---------------------------- MODULE MCDecisions ----------------------------
(* Small instances of Decisions for TLC. *)
EXTENDS Decisions

(* Routing tables: a and b are equally good, c is a worse backup. *)
Route(family, interface, metric) ==
    [family |-> family, interface |-> interface, metric |-> metric]

MCTables ==
    {v4 \cup v6 : v4 \in SUBSET {Route("ipv4", "a", 1), Route("ipv4", "b", 1), Route("ipv4", "c", 2)},
                  v6 \in {{}, {Route("ipv6", "a", 1)}}}

(* Probe histories with a fast, a slow and no answer. *)
ShortHistories == UNION {[1..n -> {NoRtt, 100000, 200000}] : n \in 0..4}

(* Success rates around two tie margins, and one that is clearly lower. *)
MCScores ==
    {Unprobed} \cup {[success |-> s, rtt |-> r, count |-> 1] :
                        s \in {100000, 99992, 99985, 99980, 99000}, r \in {1, 2, 3}}

MCRankings == [1..3 -> MCScores]

(* Entries of a manifest: usable ones, and dirty ones of the same names. *)
Entry(kind, name, complete, plugin) ==
    [kind |-> kind, name |-> name, complete |-> complete, plugin |-> plugin]

Entries ==
    {Entry("ss", n, TRUE, p) : n \in {"a", "b"}, p \in {"none", "obfs", "modeless"}}
    \cup {Entry("ss", "a", FALSE, "none"), Entry("anytls", "a", TRUE, "modeless"),
          Entry("anytls", "b", FALSE, "none"), Entry("vmess", "a", TRUE, "none"),
          Entry("junk", Missing, FALSE, "none")}

MCManifests ==
    {<<f>> : f \in UNION {[1..n -> Entries] : n \in 0..3}}
    \cup {<<f, g>> : f \in UNION {[1..n -> Entries] : n \in 1..2} \cup {Unreadable},
                     g \in {<<e1>> : e1 \in Entries} \cup {Unreadable}}

(* /d with a secret and a program, /e, and the links /l to /d, /e/k to the *)
(* secret and /e/gone to nothing.                                          *)
d == <<"d">>
e == <<"e">>
l == <<"l">>
k == <<"k">>
secret == <<"secret">>
cache  == <<"cache">>
new    == <<"new">>
logs   == <<"logs">>
gone   == <<"gone">>
state  == <<"state", "json">>

MCDirs  == {<<>>, <<d>>, <<e>>}
MCFiles == {<<d, secret>>, <<d, <<"bin">>>>, <<e, <<"config", "toml">>>>}
MCLinks == [p \in {<<l>>, <<e, k>>, <<e, gone>>} |->
              IF p = <<l>> THEN <<d>> ELSE IF p = <<e, k>> THEN <<d, secret>> ELSE <<d, gone>>]

States == {<<d, state>>, <<l, state>>, <<d, new, <<"state">>>>, <<e, k>>, <<e, Up, d, state>>}
Logs   == {<<d, logs>>, <<l, logs>>, <<d, new>>, <<d, <<"run">>>>, <<l>>}
Urls   == {<<d, secret>>, <<l, secret>>, <<e, k>>, <<e, Up, l, secret>>,
           <<d, <<"cache", "causeway-a">>>>, <<d, <<"state", "json", "tmp">>>>, <<logs, Up, l, <<"cache", "causeway-a">>>>}
CacheFiles == {<<d, cache>>, <<l, cache>>, <<d, new, cache>>, <<d, secret>>, <<e, <<"state", "json", "tmp">>>>}

LocalProfile(f)     == [files |-> <<f>>, url |-> Absent, cache |-> Absent]
RemoteProfile(u, c) == [files |-> <<>>, url |-> u, cache |-> c]

Config(s, g, files, profiles, default) ==
    [state |-> s, log |-> g, bin |-> <<d, <<"bin">>>>, conf |-> <<e, <<"config", "toml">>>>,
     files |-> files, profiles |-> profiles, default |-> default]

MCConfigs ==
    {Config(s, g, <<f>>, [n \in {} |-> 0], x) :
        s \in States, g \in Logs, f \in Urls, x \in {Absent, "default", "p"}}
    \cup {Config(s, g, <<>>, [n \in {"p"} |-> RemoteProfile(u, c)], Absent) :
        s \in States, g \in Logs \cup {<<logs>>}, u \in Urls, c \in CacheFiles}
    \cup {Config(<<e, state>>, <<e, logs>>, <<>>,
                 [n \in {"p", "q"} |-> IF n = "p" THEN RemoteProfile(u, c) ELSE other], x) :
        u \in Urls, c \in CacheFiles, x \in {Absent, "q", "r"},
        other \in {LocalProfile(f) : f \in Urls} \cup {RemoteProfile(f, g) : f \in Urls, g \in CacheFiles}
                  \cup {[files |-> <<>>, url |-> Absent, cache |-> Absent]}}

MCSpellings == Urls \cup CacheFiles \cup {<<e, Up, Up, d, cache>>, <<d, new, Up, cache>>,
                                           <<e, gone>>, <<d, gone>>, <<d, secret, cache>>}

MCPolicies ==
    [interval : {0, 1, 30, 86400}, timeout : {0, 1, 5000, 59000, 60000}, samples : {0, 1, 5, 10, 11},
     threshold : {0, 3}, classes : {[c \in {"x", "y"} |-> [samples |-> n]] : n \in {Absent, 0, 1, 5, 10}}]

=============================================================================
