--------------------------- MODULE MCPathLifecycle ---------------------------
(* Small instances of PathLifecycle for TLC. *)
EXTENDS PathLifecycle
LOCAL INSTANCE TLC

CONSTANTS c1, c2, p, q, k1, k2

(* Nothing orders classes, profiles or connections. *)
Symmetry == Permutations(Classes) \cup Permutations(Profiles) \cup Permutations(Conns)
=============================================================================
