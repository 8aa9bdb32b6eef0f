---------------------------- MODULE Checkpoints ------------------------------
(***************************************************************************)
(* What dumping and restoring the board promises: a machine that executes  *)
(* its ticks one after the other can be saved at any tick and resumed at a *)
(* saved tick or at the first; saved ticks may get lost, none is invented. *)
(***************************************************************************)
EXTENDS Naturals

VARIABLES
  tick,   \* the instructions the machine has executed since power on
  saved   \* the ticks at which a saved machine can be resumed

Init == tick = 0 /\ saved = {}

Advance == tick' = tick + 1 /\ UNCHANGED saved

(* Saving may replace machines that were saved before.                     *)
Save == saved' \subseteq saved \cup {tick} /\ UNCHANGED tick

Resume == tick' \in saved \cup {0} /\ UNCHANGED saved

Next == Advance \/ Save \/ Resume

Spec == Init /\ [][Next]_<<tick, saved>>
=============================================================================
