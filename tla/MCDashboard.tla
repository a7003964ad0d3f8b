----------------------------- MODULE MCDashboard -----------------------------
(* Small instances of Dashboard for TLC. *)
EXTENDS Dashboard
LOCAL INSTANCE TLC

CONSTANTS p, q, c1, c2

(* Nothing orders profiles or classes. *)
Symmetry == Permutations(Profiles) \cup Permutations(Classes)
=============================================================================
