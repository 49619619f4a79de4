--------------------------- MODULE MCLoopLineage ---------------------------
(***************************************************************************)
(* LoopLineage for TLC: no definition tells one hotkey from another, and   *)
(* the properties of its run are safety properties.                        *)
(***************************************************************************)
EXTENDS LoopLineage, TLC

Symmetry == Permutations(Hotkeys)

=============================================================================
