-------------------------- MODULE MCDaemonInstance --------------------------
(* Small instances of DaemonInstance for TLC. *)
EXTENDS DaemonInstance, TLC

CONSTANTS a, b, c,  \* daemon incarnations
          legacy

Symmetry == Permutations(Daemons)
=============================================================================
