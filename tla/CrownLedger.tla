---------------------------- MODULE CrownLedger ----------------------------
(***************************************************************************)
(* What the history of the crown promises, without windows, files or       *)
(* copies: every submission is judged at most once, a coronation is of a   *)
(* judged submission that never reigned before and enters the lineage in   *)
(* the same step as the throne, and losing the throne is not a coronation. *)
(***************************************************************************)
EXTENDS Naturals, Sequences

CONSTANTS Hotkeys, \* miners with a submission
          KING0    \* the fixed policy that reigns when no miner does

VARIABLES throne,  \* who reigns
          lineage, \* every miner ever crowned, oldest first
          spent    \* miners whose one shot has been judged

ledger == <<throne, lineage, spent>>

Init ==
  /\ throne = KING0
  /\ lineage = <<>>
  /\ spent = {}

\* Verdicts that crown nobody.
Judge ==
  /\ \E verdicts \in SUBSET (Hotkeys \ spent) : spent' = spent \cup verdicts
  /\ UNCHANGED <<throne, lineage>>

\* h takes the throne, in the step its verdict lands or, deferred, later.
Coronate(h) ==
  /\ \A i \in DOMAIN lineage : lineage[i] # h
  /\ \E verdicts \in SUBSET (Hotkeys \ spent) : spent' = spent \cup verdicts
  /\ h \in spent'
  /\ throne' = h
  /\ lineage' = Append(lineage, h)

\* The king left the metagraph, was too slow, or could not fund its arm.
Revert ==
  /\ throne # KING0
  /\ throne' = KING0
  /\ UNCHANGED <<lineage, spent>>

Next == Judge \/ (\E h \in Hotkeys : Coronate(h)) \/ Revert

Spec == Init /\ [][Next]_ledger

=============================================================================
