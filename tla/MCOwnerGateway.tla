--------------------------- MODULE MCOwnerGateway ---------------------------
(* Two callers of one arm over a journal that already holds a window's cap. *)
EXTENDS OwnerGateway, TLC

CONSTANTS c1, c2, p1, m1

\* Two episodes of one arm share the arm's payer.
OneArm == c1 :> p1 @@ c2 :> p1

\* The journal of the gateway's first start: a window's cap, no debit yet.
MCJournals == {<<[payer |-> p1, op |-> "cap", usd |-> 3, model |-> NONE, window |-> 1]>>}
=============================================================================
