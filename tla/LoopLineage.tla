---------------------------- MODULE LoopLineage ----------------------------
(***************************************************************************)
(* ValidatorLoop as the CrownLedger sees it.  Between the save that moves  *)
(* the crown (crown_to or defer_crown) and the save that settles the       *)
(* window the coronation is the process's to finish: the mapping counts it *)
(* as done, which is right exactly when the process does not die between   *)
(* the two.  Every other crash and every failed step is allowed.           *)
(***************************************************************************)
EXTENDS ValidatorLoop

\* The process lives from the save that crowns or defers the winner to the
\* save that settles its window.
Uncut == pc = "settle" /\ run.winner # NONE => pc' # "down"

UncutSpec == Init /\ [][Next /\ Uncut]_vars

\* The running window has crowned its winner and is not settled yet.
MidCoronation == pc = "settle" /\ Crowned # NONE

Ledger == INSTANCE CrownLedger WITH
  throne <- crown,
  lineage <- IF MidCoronation THEN Append(coronations, Crowned) ELSE coronations,
  spent <- IF MidCoronation THEN judged \cup run.judged ELSE judged

\* Every window's run, deferred coronations, reversions and restarts included,
\* is a behaviour of the CrownLedger.
LedgerSpec == Ledger!Spec

=============================================================================
