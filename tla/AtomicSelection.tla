--------------------------- MODULE AtomicSelection ---------------------------
(***************************************************************************)
(* What the subscription transaction promises: the operator's selection is *)
(* one value.  It is made durable in one step, goes live in one later      *)
(* step, and is what the daemon serves after any stop, whenever it comes.  *)
(***************************************************************************)
CONSTANTS Selections, Nothing

VARIABLES
    live,   \* the selection being served; Nothing while the daemon is down
    saved   \* the selection a start would serve; Nothing if it would refuse

Init == live = Nothing /\ saved \in Selections \cup {Nothing}

Start == /\ live = Nothing /\ saved # Nothing
         /\ live' = saved
         /\ UNCHANGED saved

(* The next selection is committed only on top of the one that is live. *)
Commit == /\ live # Nothing /\ live = saved
          /\ saved' \in Selections
          /\ UNCHANGED live

Publish == /\ live # Nothing
           /\ live' = saved
           /\ UNCHANGED saved

Stop == /\ live # Nothing
        /\ live' = Nothing
        /\ UNCHANGED saved

Next == Start \/ Commit \/ Publish \/ Stop

Spec == Init /\ [][Next]_<<live, saved>>
=============================================================================
