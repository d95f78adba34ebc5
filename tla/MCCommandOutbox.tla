--------------------------- MODULE MCCommandOutbox ---------------------------
(* Instances of CommandOutbox for TLC. *)
EXTENDS CommandOutbox, TLC

CONSTANTS m1, m2
=============================================================================
