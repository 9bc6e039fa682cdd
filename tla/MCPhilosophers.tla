--------------------------- MODULE MCPhilosophers ---------------------------
(* Three philosophers, with every combination of the options -l and -e. *)
EXTENDS Philosophers
=============================================================================
