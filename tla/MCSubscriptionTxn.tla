-------------------------- MODULE MCSubscriptionTxn --------------------------
(* Small instances of SubscriptionTxn for TLC. *)
EXTENDS SubscriptionTxn

CONSTANTS p1, p2,                 \* two profile names
          s1, s2, s3, s4, s5, s6, \* source identities
          x, y                    \* cache files

(* p1 moves between two remote sources that share one cache file (s1, s2);  *)
(* p2 is remote (s3) or local (s4); s5 and s6 are remote sources of p2 and  *)
(* p1 on the cache file of the other.                                       *)
MCCacheOf == [s \in Sources |-> CASE s \in {s1, s2, s5} -> x
                                  [] s \in {s3, s6} -> y
                                  [] OTHER -> None]

Cat(a, b) == [n \in Profiles |-> IF n = p1 THEN a ELSE b]

(* One configuration, never edited: p2 is remote or local. *)
FixedConfigs == {[cat |-> Cat(s1, s), default |-> p1] : s \in {s3, s4}}
NoEdit == {}

(* p1's source changes and returns; its cache file stays its own. *)
SourceConfigs == {[cat |-> Cat(s1, s4), default |-> p1],
                  [cat |-> Cat(s2, s4), default |-> p1]}
AnyEdit == Configs \X Configs

(* p1's source changes, and the remote p2 leaves the configuration and returns. *)
CatalogConfigs == {[cat |-> Cat(s1, s3), default |-> p1],
                   [cat |-> Cat(s2, s3), default |-> p1],
                   [cat |-> Cat(s1, None), default |-> p1]}

(* The operator moves on: s1, once replaced by s2, never returns. *)
ForwardEdits == {<<[cat |-> Cat(s1, s4), default |-> p1], [cat |-> Cat(s2, s4), default |-> p1]>>}

(* p1 and p2 exchange their cache files. *)
SwappedConfigs == {[cat |-> Cat(s1, s3), default |-> p1],
                   [cat |-> Cat(s6, s5), default |-> p1]}

(* p1 leaves the configuration and comes back with another source. *)
RenamedConfigs == {[cat |-> Cat(s1, s4), default |-> p1],
                   [cat |-> Cat(None, s4), default |-> p2],
                   [cat |-> Cat(s2, s4), default |-> p2]}

(* Either profile may be the default. *)
DefaultConfigs == {[cat |-> Cat(s, s4), default |-> d] : s \in {s1, s2}, d \in {p1, p2}}
=============================================================================
