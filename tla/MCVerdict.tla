----------------------------- MODULE MCVerdict -----------------------------
(* A slice of two benchmarks and three tasks, graded so that a winner may stand less than twice the *)
(* margin above the king: one handover is then not mistaken for two.                               *)
EXTENDS Verdict

MCSlice == <<"math", "math", "code">>
MCGraded == <<{0, 20}, {0, 1}, {0, 3, 20}>>

ASSUME GateIsFairChecked == GateIsFair

=============================================================================
