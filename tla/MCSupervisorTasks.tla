-------------------------- MODULE MCSupervisorTasks --------------------------
(* Small instances of SupervisorTasks for TLC. *)
EXTENDS SupervisorTasks

CONSTANTS n1, n2, n3, \* node names
          r1, r2      \* control requests

(* Two profiles that share the name n2. *)
TwoPools == {{n1, n2}, {n2, n3}}
OnePool  == {{n1, n2, n3}}
(* The second profile lacks n1. *)
SmallPools == {{n1, n2}, {n2}}

(* n1 beats the others; n2 and n3 are too close to beat each other. *)
MCBeats == {<<n1, n>> : n \in Nodes \ {n1}}
=============================================================================
