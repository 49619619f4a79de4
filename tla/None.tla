-------------------------------- MODULE None --------------------------------
(* What the code's None is, wherever a value may be missing. *)
CONSTANT NONE
=============================================================================
