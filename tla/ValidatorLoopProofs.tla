------------------------ MODULE ValidatorLoopProofs ------------------------
(***************************************************************************)
(* Theorems about ValidatorLoop for every set of hotkeys, every number of  *)
(* windows, tasks and promotion attempts, and every number of faults.      *)
(***************************************************************************)
EXTENDS LoopLineage, TLAPS

(***************************************************************************)
(* The inductive invariant.                                                *)
(***************************************************************************)

Unsettling == Scoring \cup {"promote", "supersede", "crown", "settle"}
Settled == {"record", "put", "mark", "remark"}

\* What run holds at each place the main thread can be.
RunOK ==
  /\ pc \in Unsettling => windows[run.window] = NONE
  /\ pc \in Settled => windows[run.window] # NONE
  /\ pc \in {"promote", "supersede", "crown"} => run.winner # NONE
  /\ run.copied => run.winner # NONE
  /\ pc \in Scoring \cup {"promote"} => ~run.copied
  /\ pc \in {"arm", "challengers"} => run.admitted \cap judged = {}

\* h has won a duel whose arm is on disk.
Won(h) == \E w \in Window : arms[w][h] = "wins"

\* Whoever may still be crowned has won, and whoever is crowned is public.
WinnersOK ==
  /\ run.winner # NONE => Won(run.winner)
  /\ run.copied => run.winner \in public
  /\ pending # NONE => Won(pending.hotkey)
  /\ crown # KING0 => crown \in public /\ Won(crown)

LoopInv == TypeOK /\ RunOK /\ ReignLedger /\ WinnersOK

(***************************************************************************)
(* The reign ledger.                                                       *)
(***************************************************************************)

\* What any step does to the crown and its ledger.
LedgerStep ==
  \/ UNCHANGED <<crown, reigns>>
  \/ crown' = crown /\ reigns' = EnsureReign
  \/ \E h \in Kings, reason \in Reason : \/ CrownTo(reigns, h, reason)
                                        \/ CrownTo(EnsureReign, h, reason)

\* The ledger only grows, and a closed reign never changes.
ReignsGrow ==
  /\ Len(reigns) <= Len(reigns')
  /\ \A i \in 1..Len(reigns) - 1 : reigns'[i] = reigns[i]

\* _begin_reign appends one open reign and changes nothing but the ending of
\* the reign that was open.
LEMMA BeginReignAppends ==
  ASSUME NEW STATE ledger, ledger \in Seq(ReignRecord), NEW h \in Kings, NEW reason \in Reason
  PROVE  LET next == BeginReign(ledger, h, reason)
         IN  /\ next \in Seq(ReignRecord)
             /\ Len(next) = Len(ledger) + 1
             /\ next[Len(next)] = [hotkey |-> h, ended |-> NONE]
             /\ \A i \in 1..Len(ledger) - 1 : next[i] = ledger[i]
             /\ ledger # <<>> => next[Len(ledger)] =
                  [hotkey |-> ledger[Len(ledger)].hotkey, ended |-> reason]
<1> DEFINE new == [hotkey |-> h, ended |-> NONE]
           closed == IF ledger = <<>> THEN <<>>
                     ELSE [ledger EXCEPT ![Len(ledger)].ended = reason]
<1>1. new \in ReignRecord
  BY DEF ReignRecord
<1>2. closed \in Seq(ReignRecord) /\ Len(closed) = Len(ledger)
  <2>1. CASE ledger = <<>>
    BY <2>1
  <2>2. CASE ledger # <<>>
    <3>1. Len(ledger) \in 1..Len(ledger) /\ ledger[Len(ledger)] \in ReignRecord
      BY <2>2
    <3>2. [ledger[Len(ledger)] EXCEPT !.ended = reason] \in ReignRecord
      BY <3>1 DEF ReignRecord
    <3> QED
      BY <2>2, <3>1, <3>2
  <2> QED
    BY <2>1, <2>2
<1>3. /\ \A i \in 1..Len(ledger) - 1 : closed[i] = ledger[i]
      /\ ledger # <<>> => closed[Len(ledger)] =
           [hotkey |-> ledger[Len(ledger)].hotkey, ended |-> reason]
  <2>1. CASE ledger = <<>>
    BY <2>1
  <2>2. CASE ledger # <<>>
    <3>1. Len(ledger) \in 1..Len(ledger) /\ ledger[Len(ledger)] \in ReignRecord
      BY <2>2
    <3> QED
      BY <2>2, <3>1 DEF ReignRecord
  <2> QED
    BY <2>1, <2>2
<1>4. BeginReign(ledger, h, reason) = Append(closed, new)
  BY DEF BeginReign
<1> HIDE DEF closed, new
<1>5. /\ Append(closed, new) \in Seq(ReignRecord)
      /\ Len(Append(closed, new)) = Len(ledger) + 1
      /\ Append(closed, new)[Len(ledger) + 1] = new
      /\ \A i \in 1..Len(ledger) : Append(closed, new)[i] = closed[i]
  BY <1>1, <1>2
<1>6. ledger # <<>> => Len(ledger) \in 1..Len(ledger)
  OBVIOUS
<1> QED
  BY <1>3, <1>4, <1>5, <1>6 DEF new

\* Opening the first reign over an empty ledger keeps the ledger in order.
LEMMA EnsureReignOpens ==
  ASSUME crown \in Kings, reigns \in Seq(ReignRecord), ReignLedger
  PROVE  /\ EnsureReign \in Seq(ReignRecord)
         /\ EnsureReign # <<>>
         /\ EnsureReign[Len(EnsureReign)] = [hotkey |-> crown, ended |-> NONE]
         /\ reigns # <<>> => EnsureReign = reigns
         /\ \A i \in 1..Len(EnsureReign) - 1 :
              /\ EnsureReign[i].ended # NONE
              /\ EnsureReign[i].hotkey # EnsureReign[i + 1].hotkey
<1>1. CASE reigns # <<>>
  BY <1>1 DEF EnsureReign, ReignLedger
<1>2. CASE reigns = <<>>
  <2>1. EnsureReign = <<[hotkey |-> crown, ended |-> NONE]>>
    BY <1>2 DEF EnsureReign
  <2>2. [hotkey |-> crown, ended |-> NONE] \in ReignRecord
    BY DEF ReignRecord
  <2> QED
    BY <1>2, <2>1, <2>2
<1> QED
  BY <1>1, <1>2

\* Moving the crown to another hotkey closes one reign and opens the next.
LEMMA CrownToLedger ==
  ASSUME NEW STATE ledger, ledger \in {reigns, EnsureReign}, NEW h \in Kings, NEW reason \in Reason,
         crown \in Kings, reigns \in Seq(ReignRecord), ReignLedger,
         CrownTo(ledger, h, reason)
  PROVE  /\ crown' \in Kings
         /\ reigns' \in Seq(ReignRecord)
         /\ ReignLedger'
         /\ ReignsGrow
<1> USE LoopAssumption
<1>1. /\ ledger \in Seq(ReignRecord)
      /\ reigns # <<>> => ledger = reigns
      /\ ledger # <<>> => ledger[Len(ledger)] = [hotkey |-> crown, ended |-> NONE]
      /\ ledger = <<>> => crown = KING0
      /\ \A i \in 1..Len(ledger) - 1 : /\ ledger[i].ended # NONE
                                       /\ ledger[i].hotkey # ledger[i + 1].hotkey
  BY EnsureReignOpens DEF ReignLedger
<1>2. crown' = h
  BY DEF CrownTo
<1>3. CASE h = crown
  <2>1. reigns' = ledger
    BY <1>3 DEF CrownTo
  <2> QED
    BY <1>1, <1>2, <1>3, <2>1 DEF ReignLedger, ReignsGrow
<1>4. CASE h # crown
  <2> DEFINE next == BeginReign(ledger, h, reason)
  <2>1. reigns' = next
    BY <1>4 DEF CrownTo
  <2>2. /\ next \in Seq(ReignRecord)
        /\ Len(next) = Len(ledger) + 1
        /\ next[Len(next)] = [hotkey |-> h, ended |-> NONE]
        /\ \A i \in 1..Len(ledger) - 1 : next[i] = ledger[i]
        /\ ledger # <<>> => next[Len(ledger)] =
             [hotkey |-> ledger[Len(ledger)].hotkey, ended |-> reason]
    BY <1>1, BeginReignAppends
  <2> HIDE DEF next
  <2>3. Len(ledger) \in Nat /\ Len(reigns) \in Nat /\ Len(reigns) <= Len(ledger)
    BY <1>1
  <2>4. ASSUME NEW i \in 1..Len(next) - 1
        PROVE  next[i].ended # NONE /\ next[i].hotkey # next[i + 1].hotkey
    <3>1. CASE i = Len(ledger)
      <4>1. ledger # <<>>
        BY <2>2, <2>3, <3>1
      <4>2. next[i] = [hotkey |-> crown, ended |-> reason]
        BY <1>1, <2>2, <3>1, <4>1
      <4>3. next[i + 1] = [hotkey |-> h, ended |-> NONE]
        BY <2>2, <3>1
      <4> QED
        BY <1>4, <4>2, <4>3
    <3>2. CASE i < Len(ledger)
      <4>1. next[i] = ledger[i] /\ ledger[i].ended # NONE
        BY <1>1, <2>2, <2>3, <3>2
      <4>2. CASE i + 1 < Len(ledger)
        <5>1. i + 1 \in 1..Len(ledger) - 1 /\ i \in 1..Len(ledger) - 1
          BY <2>2, <2>3, <3>2, <4>2
        <5>2. next[i + 1] = ledger[i + 1]
          BY <2>2, <5>1
        <5> QED
          BY <1>1, <4>1, <5>1, <5>2
      <4>3. CASE i + 1 = Len(ledger)
        <5>1. next[i + 1].hotkey = ledger[i + 1].hotkey
          BY <2>2, <2>3, <4>3
        <5> QED
          BY <1>1, <2>3, <3>2, <4>1, <5>1
      <4> QED
        BY <2>3, <3>2, <4>2, <4>3
    <3> QED
      BY <2>2, <2>3, <3>1, <3>2
  <2>5. next # <<>>
    BY <2>2, <2>3
  <2>6. ReignLedger'
    BY <1>2, <2>1, <2>2, <2>4, <2>5 DEF ReignLedger
  <2>7. ReignsGrow
    BY <1>1, <2>1, <2>2, <2>3 DEF ReignsGrow
  <2> QED
    BY <1>2, <2>1, <2>2, <2>6, <2>7
<1> QED
  BY <1>3, <1>4

\* Whatever a step does to the crown keeps the ledger in order.
LEMMA LedgerStepOK ==
  ASSUME crown \in Kings, reigns \in Seq(ReignRecord), ReignLedger, LedgerStep
  PROVE  /\ crown' \in Kings
         /\ reigns' \in Seq(ReignRecord)
         /\ ReignLedger'
         /\ ReignsGrow
<1>1. CASE UNCHANGED <<crown, reigns>>
  BY <1>1 DEF ReignLedger, ReignsGrow
<1>2. CASE crown' = crown /\ reigns' = EnsureReign
  BY <1>2, EnsureReignOpens DEF ReignLedger, ReignsGrow
<1>3. CASE \E h \in Kings, reason \in Reason : \/ CrownTo(reigns, h, reason)
                                             \/ CrownTo(EnsureReign, h, reason)
  BY <1>3, CrownToLedger
<1> QED
  BY <1>1, <1>2, <1>3 DEF LedgerStep

\* Every step moves the crown through History or leaves it alone.
LEMMA NextLedger ==
  ASSUME LoopInv, Next
  PROVE  LedgerStep
<1> USE LoopAssumption DEF LoopInv
<1>1. CASE SettlePendingCrown
  BY <1>1 DEF SettlePendingCrown, LedgerStep
<1>2. CASE PromotePending
  BY <1>2 DEF PromotePending, LedgerStep, TypeOK, Kings, Reason, PendingCrown
<1>3. CASE RetryOrForfeit
  BY <1>3 DEF RetryOrForfeit, LedgerStep
<1>4. CASE StartWindow
  BY <1>4 DEF StartWindow, LedgerStep, history
<1>5. CASE Republish
  BY <1>5 DEF Republish, LedgerStep, history
<1>6. CASE RefreshWeights
  BY <1>6 DEF RefreshWeights, LedgerStep, ResolveReign, Kings, Reason
<1>7. CASE WindowUnavailable
  BY <1>7 DEF WindowUnavailable, LedgerStep, history
<1>8. CASE OpenWindow
  BY <1>8 DEF OpenWindow, LedgerStep, ResolveReign, Kings, Reason
<1>9. CASE KingRow
  BY <1>9 DEF KingRow, LedgerStep, history
<1>10. CASE KingTooSlow
  BY <1>10 DEF KingTooSlow, LedgerStep, Kings, Reason
<1>11. CASE KingUnreconciled
  BY <1>11 DEF KingUnreconciled, LedgerStep, history
<1>12. CASE KingDefends
  BY <1>12 DEF KingDefends, LedgerStep, Kings, Reason
<1>13. CASE \E h \in Hotkeys : ChallengerArm(h)
  BY <1>13 DEF ChallengerArm, LedgerStep, history
<1>14. CASE Verdict
  BY <1>14 DEF Verdict, LedgerStep, history
<1>15. CASE Promote
  BY <1>15 DEF Promote, LedgerStep, history
<1>16. CASE Supersede
  BY <1>16 DEF Supersede, LedgerStep
<1>17. CASE CrownWinner
  BY <1>17 DEF CrownWinner, LedgerStep, TypeOK, RunOK, Kings, Reason, Run
<1>18. CASE Settle
  BY <1>18 DEF Settle, LedgerStep
<1>19. CASE Record
  BY <1>19 DEF Record, LedgerStep, ResolveReign, Kings, Reason
<1>20. CASE PutReveal
  BY <1>20 DEF PutReveal, LedgerStep, history
<1>21. CASE MarkPublished
  BY <1>21 DEF MarkPublished, LedgerStep
<1>22. CASE Restart
  BY <1>22 DEF Restart, LedgerStep, history
<1>23. CASE Tick
  BY <1>23 DEF Tick, LedgerStep, history
<1>24. CASE \E h \in Hotkeys : Deregister(h)
  BY <1>24 DEF Deregister, LedgerStep, history
<1>25. CASE BackoffElapses
  BY <1>25 DEF BackoffElapses, LedgerStep
<1>26. CASE Crash
  BY <1>26 DEF Crash, LedgerStep, history
<1>27. CASE StepFails
  BY <1>27 DEF StepFails, LedgerStep, history
<1> QED
BY <1>1, <1>2, <1>3, <1>4, <1>5, <1>6, <1>7, <1>8, <1>9, <1>10, <1>11, <1>12, <1>13, <1>14, <1>15,
     <1>16, <1>17, <1>18, <1>19, <1>20, <1>21, <1>22, <1>23, <1>24, <1>25, <1>26, <1>27
DEF Next, MainThread, Poll, Score, Publish, Environment, Failures

\* No step leaves the types.
LEMMA TypeStep ==
  ASSUME LoopInv, Next
  PROVE  TypeOK'
<1> USE LoopAssumption DEF LoopInv
<1> DEFINE Rest ==
      /\ judged' \subseteq Hotkeys
      /\ coronations' \in Seq(Hotkeys)
      /\ windows' \in [Window -> WindowRecord \cup {NONE}]
      /\ pending' \in PendingCrown \cup {NONE}
      /\ kingRows' \in [Window -> Seq(Row)]
      /\ arms' \in [Window -> [Hotkeys -> {"none", "wins", "loses"}]]
      /\ localReveal' \in [Window -> Reveal \cup {NONE, TORN}]
      /\ reveals' \in [Window -> Reveal \cup {NONE}]
      /\ public' \subseteq Hotkeys
      /\ pc' \in PCs
      /\ run' \in Run
      /\ clock' \in 1..MaxWindow + 1
      /\ registered' \subseteq Hotkeys
      /\ faults' \in 0..MaxFaults
<1>a. crown' \in Kings
  BY LedgerStepOK, NextLedger DEF TypeOK
<1>b. NoRun \in Run /\ 1 \in Window
  BY DEF NoRun, Run, Window, Kings
<1>c. /\ run \in Run /\ run.window \in Window /\ run.king \in Kings
      /\ run.admitted \in SUBSET Hotkeys /\ run.refused \in SUBSET Hotkeys
      /\ run.judged \in SUBSET Hotkeys /\ run.winner \in Hotkeys \cup {NONE}
      /\ run.late \in BOOLEAN /\ run.copied \in BOOLEAN
      /\ Crowned \in Hotkeys \cup {NONE}
      /\ Body \in Reveal
  BY DEF TypeOK, Run, Crowned, Body, Reveal
<1>1. ASSUME SettlePendingCrown PROVE Rest
  BY <1>1 DEF SettlePendingCrown, TypeOK, PCs, Polling, files, buckets, world
<1>2. ASSUME PromotePending PROVE Rest
  <2>1. /\ pending \in PendingCrown /\ pending.hotkey \in Hotkeys /\ pending.window \in Window
        /\ windows[pending.window] \in WindowRecord \cup {NONE}
    BY <1>2 DEF PromotePending, TypeOK, PendingCrown
  <2>2. windows'[pending.window] \in WindowRecord
    BY <1>2, <2>1 DEF PromotePending, TypeOK, WindowRecord
  <2>3. windows' \in [Window -> WindowRecord \cup {NONE}]
    BY <1>2, <2>1, <2>2 DEF PromotePending, TypeOK
  <2> QED
    BY <1>2, <2>1, <2>3 DEF PromotePending, TypeOK, PCs, Polling, files, world
<1>3. ASSUME RetryOrForfeit PROVE Rest
  <2>1. pending \in PendingCrown /\ pending.attempts \in 1..PromotionMaxAttempts
    BY <1>3 DEF RetryOrForfeit, TypeOK, PendingCrown
  <2>2. CASE pending.attempts + 1 >= PromotionMaxAttempts
    BY <1>3, <2>2 DEF RetryOrForfeit, TypeOK, PCs, Polling, files, buckets, world
  <2>3. CASE ~(pending.attempts + 1 >= PromotionMaxAttempts)
    <3>1. pending.attempts + 1 \in 1..PromotionMaxAttempts
      BY <2>1, <2>3
    <3>2. pending' = [pending EXCEPT !.attempts = pending.attempts + 1, !.due = FALSE]
      BY <1>3, <2>3 DEF RetryOrForfeit
    <3>3. pending' \in PendingCrown
      BY <2>1, <3>1, <3>2 DEF PendingCrown
    <3> QED
      BY <1>3, <3>3 DEF RetryOrForfeit, TypeOK, PCs, Polling, files, buckets, world
  <2> QED
    BY <2>2, <2>3
<1>4. ASSUME StartWindow PROVE Rest
  <2>1. run' \in Run
    BY <1>4, <1>b DEF StartWindow, Run
  <2> QED
    BY <1>4, <2>1 DEF StartWindow, TypeOK, PCs, Scoring, history, files, buckets, world
<1>5. ASSUME Republish PROVE Rest
  <2>1. reveals' \in [Window -> Reveal \cup {NONE}] /\ run' \in Run
    BY <1>5, <1>c DEF Republish, TypeOK, Run
  <2> QED
    BY <1>5, <2>1 DEF Republish, TypeOK, PCs, Polling, history, files, world
<1>6. ASSUME RefreshWeights PROVE Rest
  BY <1>6, <1>b DEF RefreshWeights, TypeOK, PCs, Polling, files, buckets, world
<1>7. ASSUME WindowUnavailable PROVE Rest
  BY <1>7 DEF WindowUnavailable, TypeOK, PCs, Polling, history, files, buckets, world
<1>8. ASSUME OpenWindow PROVE Rest
  <2>1. PICK admitted \in SUBSET Queue, refused \in SUBSET Queue :
          /\ run' = [run EXCEPT !.king = crown', !.admitted = admitted, !.refused = refused,
                               !.judged = IF admitted = {} THEN refused ELSE {}]
          /\ pc' = IF admitted = {} THEN "settle" ELSE "arm"
    BY <1>8 DEF OpenWindow
  <2>2. Queue \in SUBSET Hotkeys
    BY DEF Queue, TypeOK
  <2>3. run' \in Run
    BY <1>a, <1>c, <2>1, <2>2 DEF Run
  <2> QED
    BY <1>8, <2>1, <2>3 DEF OpenWindow, TypeOK, PCs, Scoring, Publishing, files, buckets, world
<1>9. ASSUME KingRow PROVE Rest
  <2>1. \E late \in BOOLEAN, end \in Endings :
          /\ run.late => late
          /\ late <=> end = "clocked"
          /\ (\E i \in DOMAIN kingRows[run.window] : kingRows[run.window][i].end = "exhausted")
               => end # "answered"
          /\ run' = [run EXCEPT !.late = late]
          /\ kingRows' = [kingRows EXCEPT ![run.window] =
                            Append(@, [by |-> run.king, end |-> end])]
    BY <1>9 DEF KingRow
  <2>2. PICK late \in BOOLEAN, end \in Endings :
          /\ run' = [run EXCEPT !.late = late]
          /\ kingRows' = [kingRows EXCEPT ![run.window] =
                            Append(kingRows[run.window], [by |-> run.king, end |-> end])]
    BY <2>1
  <2>3. run' \in Run
    BY <1>c, <2>2 DEF Run
  <2>4. [by |-> run.king, end |-> end] \in Row
    BY <1>c DEF Row
  <2>5. Append(kingRows[run.window], [by |-> run.king, end |-> end]) \in Seq(Row)
    BY <1>c, <2>4 DEF TypeOK
  <2>6. kingRows' \in [Window -> Seq(Row)]
    BY <1>c, <2>2, <2>5 DEF TypeOK
  <2> QED
    BY <1>9, <2>3, <2>6 DEF KingRow, TypeOK, history, buckets, world
<1>10. ASSUME KingTooSlow PROVE Rest
  <2>1. run' \in Run
    BY <1>10, <1>c DEF KingTooSlow, DeadWindow, Run
  <2> QED
    BY <1>10, <2>1 DEF KingTooSlow, DeadWindow, TypeOK, PCs, Publishing, files, buckets, world
<1>11. ASSUME KingUnreconciled PROVE Rest
  <2>1. run' \in Run
    BY <1>11, <1>c DEF KingUnreconciled, DeadWindow, Run
  <2> QED
    BY <1>11, <2>1 DEF KingUnreconciled, DeadWindow, TypeOK, PCs, Publishing, history, files, buckets, world
<1>12. ASSUME KingDefends PROVE Rest
  BY <1>12 DEF KingDefends, TypeOK, PCs, Scoring, files, buckets, world
<1>13. ASSUME \E h \in Hotkeys : ChallengerArm(h) PROVE Rest
  BY <1>13, <1>c DEF ChallengerArm, TypeOK, history, buckets, world
<1>14. ASSUME Verdict PROVE Rest
  <2>1. PICK deferred \in SUBSET run.admitted, winner \in Hotkeys \cup {NONE} :
          /\ run' = [run EXCEPT !.judged = run.refused \cup (run.admitted \ deferred),
                               !.winner = winner]
          /\ pc' = IF winner = NONE THEN "settle" ELSE "promote"
    BY <1>14, <1>c, Zenon DEF Verdict
  <2>2. run' \in Run /\ pc' \in PCs
    BY <1>c, <2>1 DEF Run, PCs, Publishing
  <2> QED
    BY <1>14, <2>2 DEF Verdict, TypeOK, history, files, buckets, world
<1>15. ASSUME Promote PROVE Rest
  <2>1. run' \in Run
    BY <1>15, <1>c DEF Promote, Run
  <2> QED
    BY <1>15, <1>c, <2>1 DEF Promote, TypeOK, RunOK, PCs, Publishing, history, files, world
<1>16. ASSUME Supersede PROVE Rest
  BY <1>16 DEF Supersede, TypeOK, PCs, Publishing, files, buckets, world
<1>17. ASSUME CrownWinner PROVE Rest
  <2>1. CASE run.copied
    BY <1>17, <2>1 DEF CrownWinner, TypeOK, PCs, Publishing, files, buckets, world
  <2>2. CASE ~run.copied
    <3>1. run.winner \in Hotkeys
      BY <1>17, <1>c DEF CrownWinner, RunOK
    <3>2. 1 \in 1..PromotionMaxAttempts
      OBVIOUS
    <3>3. [window |-> run.window, hotkey |-> run.winner, attempts |-> 1, due |-> FALSE]
            \in PendingCrown
      BY <1>c, <3>1, <3>2 DEF PendingCrown
    <3> QED
      BY <1>17, <2>2, <3>3 DEF CrownWinner, TypeOK, PCs, Publishing, files, buckets, world
  <2> QED
    BY <2>1, <2>2
<1>18. ASSUME Settle PROVE Rest
  <2>1. [crowned |-> Crowned, published |-> FALSE] \in WindowRecord
    BY <1>c DEF WindowRecord
  <2>2. windows' \in [Window -> WindowRecord \cup {NONE}]
    BY <1>18, <1>c, <2>1 DEF Settle, TypeOK
  <2>3. coronations' \in Seq(Hotkeys)
    BY <1>18, <1>c DEF Settle, TypeOK
  <2> QED
    BY <1>18, <1>c, <2>2, <2>3 DEF Settle, TypeOK, PCs, Publishing, files, buckets, world
<1>19. ASSUME Record PROVE Rest
  <2>1. localReveal' \in [Window -> Reveal \cup {NONE, TORN}]
    BY <1>19, <1>c DEF Record, TypeOK
  <2> QED
    BY <1>19, <2>1 DEF Record, TypeOK, PCs, Publishing, buckets, world
<1>20. ASSUME PutReveal PROVE Rest
  <2>1. reveals' \in [Window -> Reveal \cup {NONE}]
    BY <1>20, <1>c DEF PutReveal, TypeOK
  <2> QED
    BY <1>20, <1>b, <2>1 DEF PutReveal, TypeOK, PCs, Polling, Publishing, history, files, world
<1>21. ASSUME MarkPublished PROVE Rest
  <2>1. windows[run.window] \in WindowRecord
    BY <1>21, <1>c DEF MarkPublished, TypeOK, RunOK, Settled
  <2>2. [windows[run.window] EXCEPT !.published = TRUE] \in WindowRecord
    BY <2>1 DEF WindowRecord
  <2>3. windows' \in [Window -> WindowRecord \cup {NONE}]
    BY <1>21, <1>c, <2>2 DEF MarkPublished, TypeOK
  <2> QED
    BY <1>21, <1>b, <2>3 DEF MarkPublished, TypeOK, PCs, Polling, files, buckets, world
<1>22. ASSUME Restart PROVE Rest
  BY <1>22 DEF Restart, TypeOK, PCs, Polling, history, files, buckets, world
<1>23. ASSUME Tick PROVE Rest
  BY <1>23 DEF Tick, TypeOK, history, files, buckets
<1>24. ASSUME \E h \in Hotkeys : Deregister(h) PROVE Rest
  BY <1>24 DEF Deregister, TypeOK, history, files, buckets
<1>25. ASSUME BackoffElapses PROVE Rest
  <2>1. pending' \in PendingCrown
    BY <1>25 DEF BackoffElapses, TypeOK, PendingCrown
  <2> QED
    BY <1>25, <2>1 DEF BackoffElapses, TypeOK, files, buckets, world
<1>26. ASSUME Crash PROVE Rest
  <2>1. localReveal' \in [Window -> Reveal \cup {NONE, TORN}]
    BY <1>26, <1>c DEF Crash, TypeOK
  <2> QED
    BY <1>26, <1>b, <2>1 DEF Crash, Fault, TypeOK, PCs, history, buckets
<1>27. ASSUME StepFails PROVE Rest
  BY <1>27, <1>b DEF StepFails, TypeOK, PCs, Polling, history, files, buckets, Fault
<1> QED
BY LedgerStepOK, NextLedger, <1>1, <1>2, <1>3, <1>4, <1>5, <1>6, <1>7, <1>8, <1>9, <1>10, <1>11,
     <1>12, <1>13, <1>14, <1>15, <1>16, <1>17, <1>18, <1>19, <1>20, <1>21, <1>22, <1>23, <1>24,
     <1>25, <1>26, <1>27
DEF TypeOK, Next, MainThread, Poll, Score, Publish, Environment, Failures

\* No step breaks what run holds at its place.
LEMMA RunStep ==
  ASSUME LoopInv, Next
  PROVE  RunOK'
<1> USE LoopAssumption DEF LoopInv
<1>a. run.window \in Window /\ run.admitted \subseteq Hotkeys /\ NoRun.window = 1
      /\ ~NoRun.copied /\ NoRun.winner = NONE
  BY DEF TypeOK, Run, NoRun
<1>1. CASE SettlePendingCrown
  BY <1>1 DEF SettlePendingCrown, RunOK, Unsettling, Settled, Scoring
<1>2. CASE PromotePending
  BY <1>2 DEF PromotePending, RunOK, Unsettling, Settled, Scoring
<1>3. CASE RetryOrForfeit
  BY <1>3 DEF RetryOrForfeit, RunOK, Unsettling, Settled, Scoring
<1>4. CASE StartWindow
  BY <1>4 DEF StartWindow, RunOK, Settled, history, Completed, NoRun
<1>5. CASE Republish
  <2>1. /\ run'.winner = run.winner /\ run'.copied = run.copied /\ run'.admitted = run.admitted
        /\ pc' = "remark" => run'.window = clock
    BY <1>5 DEF Republish, TypeOK, Run
  <2>2. pc = "poll" /\ pc' \in {"refresh", "idle", "remark"} /\ UNCHANGED <<windows, judged>>
    BY <1>5 DEF Republish, history
  <2>3. pc' = "remark" => windows[clock] # NONE
    BY <1>5 DEF Republish, Completed
  <2> QED
    BY <2>1, <2>2, <2>3 DEF RunOK, Unsettling, Settled, Scoring
<1>6. CASE RefreshWeights
  BY <1>6, <1>a DEF RefreshWeights, RunOK, Unsettling, Settled, Scoring
<1>7. CASE WindowUnavailable
  BY <1>7 DEF WindowUnavailable, RunOK, Unsettling, Settled, Scoring
<1>8. CASE OpenWindow
  BY <1>8 DEF OpenWindow, RunOK, Unsettling, Settled, Scoring, Queue
<1>9. CASE KingRow
  BY <1>9 DEF KingRow, RunOK, history
<1>10. CASE KingTooSlow
  BY <1>10 DEF KingTooSlow, RunOK, TypeOK, Unsettling, Settled, Scoring, DeadWindow, KingArmRan, Run
<1>11. CASE KingUnreconciled
  BY <1>11 DEF KingUnreconciled, RunOK, Unsettling, Settled, Scoring, history, DeadWindow, KingArmRan
<1>12. CASE KingDefends
  BY <1>12 DEF KingDefends, RunOK, Unsettling, Settled, Scoring, KingArmRan
<1>13. CASE \E h \in Hotkeys : ChallengerArm(h)
  BY <1>13 DEF ChallengerArm, RunOK, history
<1>14. CASE Verdict
  <2>1. PICK deferred \in SUBSET run.admitted,
             winner \in Hotkeys \cup {NONE} :
          /\ run' = [run EXCEPT !.judged = run.refused \cup (run.admitted \ deferred),
                               !.winner = winner]
          /\ pc' = IF winner = NONE THEN "settle" ELSE "promote"
    BY <1>14, <1>a, Zenon DEF Verdict
  <2>2. /\ run'.window = run.window /\ run'.winner = winner /\ run'.copied = run.copied
        /\ run'.admitted = run.admitted
    BY <2>1 DEF TypeOK, Run
  <2>3. ~run.copied
    BY <1>14 DEF Verdict, RunOK, Scoring
  <2> QED
    BY <1>14, <2>1, <2>2, <2>3 DEF Verdict, RunOK, Unsettling, Settled, Scoring, history
<1>15. CASE Promote
  BY <1>15 DEF Promote, RunOK, Unsettling, Settled, Scoring, history
<1>16. CASE Supersede
  BY <1>16 DEF Supersede, RunOK, Unsettling, Settled, Scoring
<1>17. CASE CrownWinner
  BY <1>17 DEF CrownWinner, RunOK, Unsettling, Settled, Scoring
<1>18. CASE Settle
  <2>1. [crowned |-> Crowned, published |-> FALSE] \in WindowRecord
    BY DEF WindowRecord, Crowned, TypeOK, Run
  <2>2. windows'[run.window] # NONE
    BY <1>18, <1>a, <2>1 DEF Settle, TypeOK
  <2> QED
    BY <1>18, <2>2 DEF Settle, RunOK, Unsettling, Settled, Scoring
<1>19. CASE Record
  BY <1>19 DEF Record, RunOK, Unsettling, Settled, Scoring
<1>20. CASE PutReveal
  BY <1>20, <1>a DEF PutReveal, RunOK, Unsettling, Settled, Scoring, history
<1>21. CASE MarkPublished
  BY <1>21, <1>a DEF MarkPublished, RunOK, Unsettling, Settled, Scoring
<1>22. CASE Restart
  BY <1>22 DEF Restart, RunOK, Unsettling, Settled, Scoring
<1>23. CASE Tick
  BY <1>23 DEF Tick, RunOK, history
<1>24. CASE \E h \in Hotkeys : Deregister(h)
  BY <1>24 DEF Deregister, RunOK, history
<1>25. CASE BackoffElapses
  BY <1>25 DEF BackoffElapses, RunOK
<1>26. CASE Crash
  BY <1>26, <1>a DEF Crash, RunOK, Unsettling, Settled, Scoring
<1>27. CASE StepFails
  BY <1>27, <1>a DEF StepFails, RunOK, Unsettling, Settled, Scoring
<1> QED
BY <1>1, <1>2, <1>3, <1>4, <1>5, <1>6, <1>7, <1>8, <1>9, <1>10, <1>11, <1>12, <1>13, <1>14, <1>15,
     <1>16, <1>17, <1>18, <1>19, <1>20, <1>21, <1>22, <1>23, <1>24, <1>25, <1>26, <1>27
DEF Next, MainThread, Poll, Score, Publish, Environment, Failures

\* No step crowns, or may later crown, anyone who has not won.
LEMMA WinnersStep ==
  ASSUME LoopInv, Next
  PROVE  WinnersOK'
<1> USE LoopAssumption DEF LoopInv
<1>a. /\ run.window \in Window /\ ~NoRun.copied /\ NoRun.winner = NONE
      /\ run.admitted \subseteq Hotkeys
      /\ crown \in Kings
  BY DEF TypeOK, Run, NoRun
<1>1. CASE SettlePendingCrown
  BY <1>1 DEF SettlePendingCrown, WinnersOK, Won, files, buckets
<1>2. CASE PromotePending
  BY <1>2 DEF PromotePending, WinnersOK, Won, CrownTo, files
<1>3. CASE RetryOrForfeit
  BY <1>3 DEF RetryOrForfeit, WinnersOK, Won, files, buckets
<1>4. CASE StartWindow
  BY <1>4 DEF StartWindow, WinnersOK, Won, history, files, buckets, NoRun
<1>5. CASE Republish
  <2>1. run'.winner = run.winner /\ run'.copied = run.copied
    BY <1>5 DEF Republish, TypeOK, Run
  <2>2. UNCHANGED <<arms, public, pending, crown>>
    BY <1>5 DEF Republish, history, files
  <2> QED
    BY <2>1, <2>2 DEF WinnersOK, Won
<1>6. CASE RefreshWeights
  BY <1>6, <1>a DEF RefreshWeights, WinnersOK, Won, CrownTo, files, buckets, ResolveReign
<1>7. CASE WindowUnavailable
  BY <1>7 DEF WindowUnavailable, WinnersOK, Won, history, files, buckets
<1>8. CASE OpenWindow
  BY <1>8 DEF OpenWindow, WinnersOK, Won, CrownTo, files, buckets, ResolveReign
<1>9. CASE KingRow
  BY <1>9 DEF KingRow, WinnersOK, Won, history, buckets
<1>10. CASE KingTooSlow
  BY <1>10 DEF KingTooSlow, WinnersOK, Won, TypeOK, CrownTo, files, buckets, DeadWindow, Run
<1>11. CASE KingUnreconciled
  BY <1>11 DEF KingUnreconciled, WinnersOK, Won, history, files, buckets, DeadWindow
<1>12. CASE KingDefends
  BY <1>12 DEF KingDefends, WinnersOK, Won, CrownTo, files, buckets
<1>13. CASE \E h \in Hotkeys : ChallengerArm(h)
  <2>1. \A w \in Window, h \in Hotkeys : arms[w][h] = "wins" => arms'[w][h] = "wins"
    BY <1>13, <1>a DEF ChallengerArm, TypeOK
  <2>2. pending # NONE => pending.hotkey \in Hotkeys
    BY DEF TypeOK, PendingCrown
  <2>3. run.winner \in Hotkeys \cup {NONE}
    BY DEF TypeOK, Run
  <2> QED
    BY <1>13, <2>1, <2>2, <2>3 DEF ChallengerArm, WinnersOK, Won, history, buckets
<1>14. CASE Verdict
  <2>1. PICK deferred \in SUBSET run.admitted,
             winner \in {h \in Hotkeys : Won(h)} \cup {NONE} :
          /\ run' = [run EXCEPT !.judged = run.refused \cup (run.admitted \ deferred),
                               !.winner = winner]
          /\ pc' = IF winner = NONE THEN "settle" ELSE "promote"
    BY <1>14, <1>a, Zenon DEF Verdict, Won
  <2>2. run'.winner = winner /\ run'.copied = run.copied
    BY <2>1 DEF TypeOK, Run
  <2>3. ~run.copied
    BY <1>14 DEF Verdict, RunOK, Scoring
  <2> QED
    BY <1>14, <2>1, <2>2, <2>3 DEF Verdict, WinnersOK, Won, history, files, buckets
<1>15. CASE Promote
  BY <1>15 DEF Promote, WinnersOK, Won, history, files
<1>16. CASE Supersede
  BY <1>16 DEF Supersede, WinnersOK, Won, files, buckets
<1>17. CASE CrownWinner
  BY <1>17 DEF CrownWinner, WinnersOK, Won, RunOK, CrownTo, files, buckets
<1>18. CASE Settle
  BY <1>18 DEF Settle, WinnersOK, Won, files, buckets
<1>19. CASE Record
  BY <1>19 DEF Record, WinnersOK, Won, CrownTo, buckets, ResolveReign
<1>20. CASE PutReveal
  BY <1>20, <1>a DEF PutReveal, WinnersOK, Won, history, files
<1>21. CASE MarkPublished
  BY <1>21, <1>a DEF MarkPublished, WinnersOK, Won, files, buckets
<1>22. CASE Restart
  BY <1>22 DEF Restart, WinnersOK, Won, history, files, buckets
<1>23. CASE Tick
  BY <1>23 DEF Tick, WinnersOK, Won, history, files, buckets
<1>24. CASE \E h \in Hotkeys : Deregister(h)
  BY <1>24 DEF Deregister, WinnersOK, Won, history, files, buckets
<1>25. CASE BackoffElapses
  BY <1>25 DEF BackoffElapses, WinnersOK, Won, files, buckets
<1>26. CASE Crash
  BY <1>26, <1>a DEF Crash, WinnersOK, Won, history, buckets
<1>27. CASE StepFails
  BY <1>27, <1>a DEF StepFails, WinnersOK, Won, history, files, buckets
<1> QED
BY <1>1, <1>2, <1>3, <1>4, <1>5, <1>6, <1>7, <1>8, <1>9, <1>10, <1>11, <1>12, <1>13, <1>14, <1>15,
     <1>16, <1>17, <1>18, <1>19, <1>20, <1>21, <1>22, <1>23, <1>24, <1>25, <1>26, <1>27
DEF Next, MainThread, Poll, Score, Publish, Environment, Failures

\* Every step leaves history.json a continuation of what it was.
LEMMA GrowthStep ==
  ASSUME LoopInv, Next
  PROVE  HistoryGrows
<1> USE LoopAssumption DEF LoopInv
<1> DEFINE Kept ==
      /\ judged \subseteq judged'
      /\ Len(coronations) <= Len(coronations')
      /\ \A i \in DOMAIN coronations : coronations'[i] = coronations[i]
      /\ \A w \in Window : Completed(w) =>
           windows'[w] # NONE /\ (windows[w].published => windows'[w].published)
<1>a. /\ run.window \in Window /\ Len(coronations) \in Nat
      /\ pending # NONE => pending.window \in Window /\ pending.hotkey \in Hotkeys
      /\ Crowned \in Hotkeys \cup {NONE}
      /\ \A h \in Hotkeys : /\ Len(Append(coronations, h)) = Len(coronations) + 1
                            /\ \A i \in DOMAIN coronations :
                                 Append(coronations, h)[i] = coronations[i]
      /\ \A w \in Window : windows[w] \in WindowRecord \cup {NONE}
  BY DEF TypeOK, Run, PendingCrown, Crowned
<1>b. Len(coronations) <= Len(coronations)
  BY <1>a
<1>1. ASSUME PromotePending PROVE Kept
  <2>1. windows'[pending.window] \in WindowRecord
    BY <1>1, <1>a DEF PromotePending, TypeOK, WindowRecord
  <2>2. windows[pending.window] # NONE =>
          windows'[pending.window].published = windows[pending.window].published
    BY <1>1, <1>a DEF PromotePending, TypeOK, WindowRecord
  <2>3. \A w \in Window \ {pending.window} : windows'[w] = windows[w]
    BY <1>1, <1>a DEF PromotePending, TypeOK
  <2>4. judged' = judged /\ coronations' = Append(coronations, pending.hotkey)
    BY <1>1 DEF PromotePending
  <2>5. Len(coronations) <= Len(coronations')
    BY <1>1, <1>a, <2>4 DEF PromotePending
  <2>6. \A i \in DOMAIN coronations : coronations'[i] = coronations[i]
    BY <1>1, <1>a, <2>4 DEF PromotePending
  <2> QED
    BY <2>1, <2>2, <2>3, <2>4, <2>5, <2>6 DEF Completed
<1>2. ASSUME Settle PROVE Kept
  <2>1. windows[run.window] = NONE
    BY <1>2 DEF Settle, RunOK, Unsettling
  <2>2. coronations' = coronations \/ \E h \in Hotkeys : coronations' = Append(coronations, h)
    BY <1>2, <1>a DEF Settle
  <2>3. \A w \in Window \ {run.window} : windows'[w] = windows[w]
    BY <1>2, <1>a DEF Settle, TypeOK
  <2>4. Len(coronations) <= Len(coronations')
    BY <1>a, <1>b, <2>2
  <2>5. \A i \in DOMAIN coronations : coronations'[i] = coronations[i]
    BY <1>a, <2>2
  <2> QED
    BY <1>2, <2>1, <2>3, <2>4, <2>5 DEF Settle, Completed
<1>3. ASSUME MarkPublished PROVE Kept
  <2>1. windows[run.window] \in WindowRecord
    BY <1>3, <1>a DEF MarkPublished, RunOK, Settled
  <2>2. [windows[run.window] EXCEPT !.published = TRUE] \in WindowRecord
    BY <2>1 DEF WindowRecord
  <2>3. windows'[run.window] # NONE /\ windows'[run.window].published
    BY <1>3, <1>a, <2>1, <2>2 DEF MarkPublished, TypeOK, WindowRecord
  <2>4. \A w \in Window \ {run.window} : windows'[w] = windows[w]
    BY <1>3, <1>a DEF MarkPublished, TypeOK
  <2> QED
    BY <1>3, <1>b, <2>3, <2>4 DEF MarkPublished, Completed
<1>4. ASSUME UNCHANGED <<judged, coronations, windows>> PROVE Kept
  BY <1>4, <1>b DEF Completed
<1>5. Kept
BY <1>1, <1>2, <1>3, <1>4
DEF Next, MainThread, Poll, Score, Publish, Environment, Failures, history, SettlePendingCrown,
         RetryOrForfeit, StartWindow, Republish, RefreshWeights, WindowUnavailable, OpenWindow,
         KingRow, KingTooSlow, KingUnreconciled, KingDefends, ChallengerArm, Verdict, Promote,
         Supersede, CrownWinner, Record, PutReveal, Restart, Tick, Deregister, BackoffElapses,
         Crash, StepFails
<1> QED
  BY <1>5, LedgerStepOK, NextLedger DEF TypeOK, HistoryGrows, ReignsGrow

\* Only the arms of the unsettled window run, and only of unjudged hotkeys.
LEMMA ArmsStep ==
  ASSUME LoopInv, Next
  PROVE  SettledSpared /\ JudgedSpared
<1> USE LoopAssumption DEF LoopInv, SettledSpared, JudgedSpared
<1>1. CASE KingRow
  <2>1. /\ windows[run.window] = NONE /\ run.window \in Window
        /\ \A w \in Window \ {run.window} : kingRows'[w] = kingRows[w]
    BY <1>1 DEF KingRow, RunOK, Unsettling, Scoring, TypeOK, Run
  <2> QED
    BY <1>1, <2>1 DEF KingRow, Completed
<1>2. CASE \E h \in Hotkeys : ChallengerArm(h)
  <2>1. PICK h \in Hotkeys : ChallengerArm(h)
    BY <1>2
  <2>2. windows[run.window] = NONE /\ run.window \in Window /\ h \notin judged
    BY <2>1 DEF ChallengerArm, RunOK, Unsettling, Scoring, TypeOK, Run
  <2>3. \A w \in Window, k \in Hotkeys : w # run.window \/ k # h => arms'[w][k] = arms[w][k]
    BY <2>1, <2>2 DEF ChallengerArm, TypeOK
  <2>4. \A w \in Window \ {run.window} : arms'[w] = arms[w]
    BY <2>1, <2>2 DEF ChallengerArm, TypeOK
  <2> QED
    BY <2>1, <2>2, <2>3, <2>4 DEF ChallengerArm, Completed
<1>3. CASE UNCHANGED <<kingRows, arms>>
  BY <1>3
<1> QED
BY <1>1, <1>2, <1>3
DEF Next, MainThread, Poll, Score, Publish, Environment, Failures, files, SettlePendingCrown,
         PromotePending, RetryOrForfeit, StartWindow, Republish, RefreshWeights, WindowUnavailable,
         OpenWindow, KingTooSlow, KingUnreconciled, KingDefends, Verdict, Promote, Supersede,
         CrownWinner, Settle, Record, PutReveal, MarkPublished, Restart, Tick, Deregister,
         BackoffElapses, Crash, StepFails

(***************************************************************************)
(* The theorems.                                                           *)
(***************************************************************************)

\* The first state satisfies the invariant: KING0 reigns and nothing has run.
LEMMA InitOK == Init => LoopInv
<1> SUFFICES ASSUME Init PROVE LoopInv
  OBVIOUS
<1> USE LoopAssumption DEF Init
<1>1. NoRun \in Run
  BY DEF NoRun, Run, Window, Kings
<1>2. TypeOK
  BY <1>1 DEF TypeOK, Kings, PCs, Polling
<1>3. RunOK
  BY DEF RunOK, NoRun, Unsettling, Settled, Scoring
<1>4. ReignLedger /\ WinnersOK
  BY DEF ReignLedger, WinnersOK, NoRun
<1> QED
  BY <1>2, <1>3, <1>4 DEF LoopInv

\* A step that changes nothing keeps the invariant.
LEMMA StutterOK ==
  ASSUME LoopInv, UNCHANGED vars
  PROVE  LoopInv'
BY DEF LoopInv, TypeOK, RunOK, ReignLedger, WinnersOK, Won, vars, history, files, buckets, world

\* The invariant the theorems below rest on holds in every reachable state.
THEOREM LoopInvariant == Spec => []LoopInv
<1>1. LoopInv /\ [Next]_vars => LoopInv'
  BY TypeStep, RunStep, WinnersStep, NextLedger, LedgerStepOK, StutterOK DEF LoopInv, TypeOK
<1> QED
  BY InitOK, <1>1, PTL DEF Spec

\* Type correctness of history.json, the files, the buckets and the process.
THEOREM TypeCorrect == Spec => []TypeOK
BY LoopInvariant, PTL DEF LoopInv

\* History keeps one open reign, the crown's, wherever the main thread was cut.
THEOREM ReignLedgerHolds == Spec => []ReignLedger
BY LoopInvariant, PTL DEF LoopInv

\* D14: nobody reigns whose copy has not verified or who has won no duel.
THEOREM CrownIsVerified == Spec => []CrownAfterVerify
<1>1. LoopInv => CrownAfterVerify
  BY DEF LoopInv, WinnersOK, Won, CrownAfterVerify
<1> QED
  BY <1>1, LoopInvariant, PTL

\* history.json only grows, through every fault.
THEOREM HistoryIsAppendOnly == Spec => HistoryAppendOnly
<1>1. LoopInv /\ [Next]_vars => [HistoryGrows]_vars
  BY GrowthStep
<1> QED
  BY <1>1, LoopInvariant, PTL DEF Spec, HistoryAppendOnly

\* A settled window's arms are never run again.
THEOREM SettledWindowsAreFinal == Spec => SettledIsFinal
<1>1. LoopInv /\ [Next]_vars => [SettledSpared]_vars
  BY ArmsStep
<1> QED
  BY <1>1, LoopInvariant, PTL DEF Spec, SettledIsFinal

\* Section 7: no arm of a judged hotkey is ever run.
THEOREM OneShotHolds == Spec => OneShot
<1>1. LoopInv /\ [Next]_vars => [JudgedSpared]_vars
  BY ArmsStep
<1> QED
  BY <1>1, LoopInvariant, PTL DEF Spec, OneShot

(***************************************************************************)
(* The daemon implements the CrownLedger.                                  *)
(***************************************************************************)

\* h is in the lineage.
Reigned(h) == \E i \in DOMAIN coronations : coronations[i] = h

\* Whoever reigned is judged; what a window is about to judge is not judged yet,
\* its winner among it; and a deferred winner is judged, or about to be by the
\* window that defers it, and has never reigned.
LineageOK ==
  /\ \A i \in DOMAIN coronations : coronations[i] \in judged
  /\ pc \in Scoring => run.winner = NONE
  /\ pc \in Unsettling => (run.admitted \cup run.refused \cup run.judged) \cap judged = {}
  /\ pc \in {"promote", "supersede", "crown", "settle"} /\ run.winner # NONE =>
       run.winner \in run.judged
  /\ pending # NONE =>
       /\ ~Reigned(pending.hotkey)
       /\ \/ pending.hotkey \in judged
          \/ pc = "settle" /\ ~run.copied /\ pending.hotkey = run.winner

LineageInv == LoopInv /\ LineageOK

\* No step lets a hotkey be judged, or reign, a second time.
LEMMA LineageStep ==
  ASSUME LineageInv, Next, Uncut
  PROVE  LineageOK'
<1> USE LoopAssumption DEF LineageInv, LoopInv
<1>a. /\ run \in Run /\ run.admitted \subseteq Hotkeys /\ run.refused \subseteq Hotkeys
      /\ run.judged \subseteq Hotkeys /\ run.winner \in Hotkeys \cup {NONE}
      /\ run.copied \in BOOLEAN
      /\ pending # NONE => pending \in PendingCrown
      /\ coronations \in Seq(Hotkeys)
  BY DEF TypeOK, Run
<1>b. /\ NoRun.winner = NONE /\ NoRun.admitted = {} /\ NoRun.refused = {} /\ NoRun.judged = {}
      /\ ~NoRun.copied
  BY DEF NoRun
<1>c. \A h \in Hotkeys :
        /\ \A i \in DOMAIN Append(coronations, h) :
             Append(coronations, h)[i] = h \/ \E j \in DOMAIN coronations : Append(coronations, h)[i] = coronations[j]
  BY <1>a
<1>1. CASE SettlePendingCrown
  BY <1>1 DEF SettlePendingCrown, LineageOK, Reigned, Unsettling, Scoring
<1>2. CASE PromotePending
  BY <1>2 DEF PromotePending, LineageOK, Unsettling, Scoring
<1>3. CASE RetryOrForfeit
  BY <1>3 DEF RetryOrForfeit, LineageOK, Reigned, Unsettling, Scoring
<1>4. CASE StartWindow
  BY <1>4 DEF StartWindow, LineageOK, Reigned, history, NoRun
<1>5. CASE Republish
  BY <1>5 DEF Republish, LineageOK, Reigned, Unsettling, Scoring, history
<1>6. CASE RefreshWeights
  BY <1>6 DEF RefreshWeights, LineageOK, Reigned, Unsettling, Scoring
<1>7. CASE WindowUnavailable
  BY <1>7 DEF WindowUnavailable, LineageOK, Reigned, Unsettling, Scoring, history
<1>8. CASE OpenWindow
  BY <1>8 DEF OpenWindow, LineageOK, Reigned, Scoring, Queue
<1>9. CASE KingRow
  BY <1>9 DEF KingRow, LineageOK, Reigned, history
<1>10. CASE KingTooSlow
  BY <1>10, <1>a DEF KingTooSlow, KingArmRan, LineageOK, Reigned, Unsettling, Scoring, DeadWindow, Run
<1>11. CASE KingUnreconciled
  BY <1>11 DEF KingUnreconciled, KingArmRan, LineageOK, Reigned, Unsettling, Scoring, history, DeadWindow
<1>12. CASE KingDefends
  BY <1>12 DEF KingDefends, KingArmRan, LineageOK, Reigned, Unsettling, Scoring
<1>13. CASE \E h \in Hotkeys : ChallengerArm(h)
  BY <1>13 DEF ChallengerArm, LineageOK, Reigned, history
<1>14. CASE Verdict
  BY <1>14 DEF Verdict, LineageOK, Reigned, Unsettling, Scoring, history
<1>15. CASE Promote
  BY <1>15 DEF Promote, LineageOK, Reigned, Unsettling, Scoring, history
<1>16. CASE Supersede
  BY <1>16 DEF Supersede, LineageOK, Reigned, Unsettling, Scoring
<1>17. CASE CrownWinner
  BY <1>17, <1>a DEF CrownWinner, LineageOK, Reigned, Unsettling, Scoring
<1>18. CASE Settle
  <2>1. /\ judged' = judged \cup run.judged /\ pc' = "record" /\ run' = run /\ pending' = pending
        /\ run.judged \cap judged = {}
        /\ run.winner # NONE => run.winner \in run.judged
    BY <1>18 DEF Settle, LineageOK, Unsettling
  <2>2. pending # NONE => pending.hotkey \in judged'
    BY <1>a, <2>1 DEF LineageOK, PendingCrown
  <2>3. CASE Crowned = NONE
    <3>1. coronations' = coronations
      BY <1>18, <2>3 DEF Settle
    <3> QED
      BY <2>1, <2>2, <3>1 DEF LineageOK, Reigned, Unsettling, Scoring
  <2>4. CASE Crowned # NONE
    <3>1. /\ coronations' = Append(coronations, run.winner) /\ run.copied
          /\ run.winner \in Hotkeys /\ run.winner # NONE
      BY <1>18, <1>a, <2>4 DEF Settle, Crowned
    <3>2. \A i \in DOMAIN coronations' : coronations'[i] = run.winner \/ \E j \in DOMAIN coronations : coronations'[i] = coronations[j]
      BY <1>c, <3>1
    <3>3. pending # NONE => pending.hotkey # run.winner
      BY <1>18, <2>1, <3>1 DEF LineageOK
    <3> QED
      BY <2>1, <2>2, <3>1, <3>2, <3>3 DEF LineageOK, Reigned, Unsettling, Scoring
  <2> QED
    BY <2>3, <2>4
<1>19. CASE Record
  BY <1>19 DEF Record, LineageOK, Reigned, Unsettling, Scoring
<1>20. CASE PutReveal
  BY <1>20 DEF PutReveal, LineageOK, Reigned, Unsettling, Scoring, history
<1>21. CASE MarkPublished
  BY <1>21 DEF MarkPublished, LineageOK, Reigned, Unsettling, Scoring
<1>22. CASE Restart
  BY <1>22 DEF Restart, LineageOK, Reigned, Unsettling, Scoring, history
<1>23. CASE Tick
  BY <1>23 DEF Tick, LineageOK, Reigned, history
<1>24. CASE \E h \in Hotkeys : Deregister(h)
  BY <1>24 DEF Deregister, LineageOK, Reigned, history
<1>25. CASE BackoffElapses
  BY <1>25 DEF BackoffElapses, LineageOK, Reigned
<1>26. CASE Crash
  <2>1. pc' = "down" /\ UNCHANGED <<judged, coronations, pending>> /\ run' = NoRun
    BY <1>26 DEF Crash, history
  <2>2. pending # NONE => pending.hotkey \in judged
    <3>1. CASE pc # "settle"
      BY <3>1 DEF LineageOK
    <3>2. CASE pc = "settle"
      <4>1. run.winner = NONE
        BY <2>1, <3>2 DEF Uncut
      <4>2. pending # NONE => pending.hotkey # NONE
        BY <1>a DEF PendingCrown
      <4> QED
        BY <4>1, <4>2 DEF LineageOK
    <3> QED
      BY <3>1, <3>2
  <2> QED
    BY <2>1, <2>2 DEF LineageOK, Reigned, Unsettling, Scoring
<1>27. CASE StepFails
  BY <1>27 DEF StepFails, LineageOK, Reigned, Unsettling, Scoring, history, Raising
<1> QED
BY <1>1, <1>2, <1>3, <1>4, <1>5, <1>6, <1>7, <1>8, <1>9, <1>10, <1>11, <1>12, <1>13, <1>14, <1>15,
     <1>16, <1>17, <1>18, <1>19, <1>20, <1>21, <1>22, <1>23, <1>24, <1>25, <1>26, <1>27
DEF Next, MainThread, Poll, Score, Publish, Environment, Failures

\* Every step of the daemon is a step of the CrownLedger, or none of its.
LEMMA LedgerSimulates ==
  ASSUME LineageInv, Next, Uncut
  PROVE  Ledger!Next \/ UNCHANGED Ledger!ledger
<1> USE LoopAssumption DEF LineageInv, LoopInv
<1>a. /\ run \in Run /\ run.judged \subseteq Hotkeys /\ run.winner \in Hotkeys \cup {NONE}
      /\ run.copied \in BOOLEAN
      /\ pending # NONE => pending.hotkey \in Hotkeys
  BY DEF TypeOK, Run, PendingCrown
<1>b. ~NoRun.copied /\ {"dethroned", "deregistered", "unfunded", "too slow"} = Reason
  BY DEF NoRun, Reason
<1>1. CASE SettlePendingCrown
  BY <1>1 DEF SettlePendingCrown, MidCoronation, Ledger!ledger
<1>2. CASE PromotePending
  <2>1. ~MidCoronation /\ ~MidCoronation'
    BY <1>2 DEF PromotePending, MidCoronation
  <2>2. pending.hotkey \in Hotkeys /\ pending.hotkey \in judged /\ ~Reigned(pending.hotkey)
    BY <1>2, <1>a DEF PromotePending, LineageOK
  <2>3. \E verdicts \in SUBSET (Hotkeys \ judged) : judged = judged \cup verdicts
    <3>1. {} \in SUBSET (Hotkeys \ judged) /\ judged = judged \cup {}
      OBVIOUS
    <3> QED
      BY <3>1
  <2>4. Ledger!Coronate(pending.hotkey)
    BY <1>2, <2>1, <2>2, <2>3 DEF PromotePending, CrownTo, Reigned, Ledger!Coronate
  <2> QED
    BY <2>2, <2>4 DEF Ledger!Next
<1>3. CASE RetryOrForfeit
  BY <1>3 DEF RetryOrForfeit, MidCoronation, Ledger!ledger
<1>4. CASE StartWindow
  BY <1>4 DEF StartWindow, MidCoronation, Ledger!ledger, history
<1>5. CASE Republish
  BY <1>5 DEF Republish, MidCoronation, Ledger!ledger, history
<1>6. CASE RefreshWeights
  <2>1. ~MidCoronation /\ ~MidCoronation' /\ UNCHANGED <<judged, coronations>>
    BY <1>6 DEF RefreshWeights, MidCoronation
  <2>2. ResolveReign \/ (\E reason \in Reason : CrownTo(reigns, KING0, reason)) \/ UNCHANGED crown
    BY <1>6, <1>b DEF RefreshWeights
  <2> QED
    BY <2>1, <2>2 DEF ResolveReign, CrownTo, Ledger!Next, Ledger!Revert, Ledger!ledger
<1>7. CASE WindowUnavailable
  BY <1>7 DEF WindowUnavailable, MidCoronation, Ledger!ledger, history
<1>8. CASE OpenWindow
  <2>1. ~MidCoronation /\ ~MidCoronation' /\ UNCHANGED <<judged, coronations>>
    BY <1>8, <1>a DEF OpenWindow, MidCoronation, Crowned, RunOK, Scoring
  <2>2. ResolveReign \/ (\E reason \in Reason : CrownTo(reigns, KING0, reason)) \/ UNCHANGED crown
    BY <1>8, <1>b DEF OpenWindow
  <2> QED
    BY <2>1, <2>2 DEF ResolveReign, CrownTo, Ledger!Next, Ledger!Revert, Ledger!ledger
<1>9. CASE KingRow
  BY <1>9 DEF KingRow, MidCoronation, Ledger!ledger, history
<1>10. CASE KingTooSlow
  <2>1. ~MidCoronation /\ ~MidCoronation' /\ UNCHANGED <<judged, coronations>>
    BY <1>10, <1>a DEF KingTooSlow, MidCoronation, Crowned, RunOK, Scoring, DeadWindow, KingArmRan, Run
  <2>2. ResolveReign \/ (\E reason \in Reason : CrownTo(reigns, KING0, reason)) \/ UNCHANGED crown
    BY <1>10, <1>b DEF KingTooSlow
  <2> QED
    BY <2>1, <2>2 DEF ResolveReign, CrownTo, Ledger!Next, Ledger!Revert, Ledger!ledger
<1>11. CASE KingUnreconciled
BY <1>11, <1>a
DEF KingUnreconciled, MidCoronation, Crowned, Ledger!ledger, history, DeadWindow, KingArmRan, RunOK,
         Scoring
<1>12. CASE KingDefends
  <2>1. ~MidCoronation /\ ~MidCoronation' /\ UNCHANGED <<judged, coronations>>
    BY <1>12 DEF KingDefends, MidCoronation, KingArmRan
  <2>2. ResolveReign \/ (\E reason \in Reason : CrownTo(reigns, KING0, reason)) \/ UNCHANGED crown
    BY <1>12, <1>b DEF KingDefends
  <2> QED
    BY <2>1, <2>2 DEF ResolveReign, CrownTo, Ledger!Next, Ledger!Revert, Ledger!ledger
<1>13. CASE \E h \in Hotkeys : ChallengerArm(h)
  BY <1>13 DEF ChallengerArm, MidCoronation, Ledger!ledger, history
<1>14. CASE Verdict
  BY <1>14, <1>a DEF Verdict, MidCoronation, Crowned, Ledger!ledger, history
<1>15. CASE Promote
  BY <1>15 DEF Promote, MidCoronation, Ledger!ledger, history
<1>16. CASE Supersede
  BY <1>16 DEF Supersede, MidCoronation, Ledger!ledger
<1>17. CASE CrownWinner
  <2>1. /\ ~MidCoronation /\ run' = run /\ UNCHANGED <<judged, coronations>>
        /\ MidCoronation' <=> run.copied
        /\ Crowned' = Crowned
    BY <1>17, <1>a DEF CrownWinner, MidCoronation, Crowned, RunOK
  <2>2. CASE run.copied
    <3>1. /\ run.winner \in Hotkeys /\ run.winner \in run.judged /\ run.judged \cap judged = {}
          /\ ~Reigned(run.winner)
      BY <1>17, <1>a, <2>2 DEF CrownWinner, RunOK, LineageOK, Reigned, Unsettling
    <3>2. Ledger!Coronate(run.winner)
      BY <1>17, <1>a, <2>1, <2>2, <3>1 DEF CrownWinner, Crowned, CrownTo, Reigned, Ledger!Coronate
    <3> QED
      BY <3>1, <3>2 DEF Ledger!Next
  <2>3. CASE ~run.copied
    BY <1>17, <2>1, <2>3 DEF CrownWinner, Ledger!ledger
  <2> QED
    BY <2>2, <2>3
<1>18. CASE Settle
  <2>1. ~MidCoronation' /\ UNCHANGED crown /\ judged' = judged \cup run.judged
    BY <1>18 DEF Settle, MidCoronation
  <2>2. CASE Crowned # NONE
    BY <1>18, <2>1, <2>2 DEF Settle, MidCoronation, Ledger!ledger
  <2>3. CASE Crowned = NONE
    <3>1. run.judged \in SUBSET (Hotkeys \ judged)
      BY <1>18, <1>a DEF Settle, LineageOK, Unsettling
    <3>2. Ledger!Judge
      BY <1>18, <2>1, <2>3, <3>1 DEF Settle, MidCoronation, Ledger!Judge
    <3> QED
      BY <3>2 DEF Ledger!Next
  <2> QED
    BY <2>2, <2>3
<1>19. CASE Record
  <2>1. ~MidCoronation /\ ~MidCoronation' /\ UNCHANGED <<judged, coronations>>
    BY <1>19 DEF Record, MidCoronation
  <2>2. ResolveReign \/ (\E reason \in Reason : CrownTo(reigns, KING0, reason)) \/ UNCHANGED crown
    BY <1>19, <1>b DEF Record
  <2> QED
    BY <2>1, <2>2 DEF ResolveReign, CrownTo, Ledger!Next, Ledger!Revert, Ledger!ledger
<1>20. CASE PutReveal
  BY <1>20 DEF PutReveal, MidCoronation, Ledger!ledger, history
<1>21. CASE MarkPublished
  BY <1>21 DEF MarkPublished, MidCoronation, Ledger!ledger
<1>22. CASE Restart
  BY <1>22 DEF Restart, MidCoronation, Ledger!ledger, history
<1>23. CASE Tick
  BY <1>23 DEF Tick, MidCoronation, Crowned, Ledger!ledger, history
<1>24. CASE \E h \in Hotkeys : Deregister(h)
  BY <1>24 DEF Deregister, MidCoronation, Crowned, Ledger!ledger, history
<1>25. CASE BackoffElapses
  BY <1>25 DEF BackoffElapses, MidCoronation, Crowned, Ledger!ledger
<1>26. CASE Crash
  BY <1>26 DEF Crash, Uncut, MidCoronation, Crowned, Ledger!ledger, history
<1>27. CASE StepFails
  BY <1>27 DEF StepFails, MidCoronation, Ledger!ledger, history, Raising
<1> QED
BY <1>1, <1>2, <1>3, <1>4, <1>5, <1>6, <1>7, <1>8, <1>9, <1>10, <1>11, <1>12, <1>13, <1>14, <1>15,
     <1>16, <1>17, <1>18, <1>19, <1>20, <1>21, <1>22, <1>23, <1>24, <1>25, <1>26, <1>27
DEF Next, MainThread, Poll, Score, Publish, Environment, Failures

\* The refinement: as long as no process dies between crowning a winner and
\* settling its window, every behaviour of the daemon, with every other crash,
\* failed step, deferral and reversion, is one of the CrownLedger: nobody is
\* judged or crowned twice, and nobody is crowned unjudged.
THEOREM DaemonKeepsLedger == UncutSpec => LedgerSpec
<1>1. Init => LineageInv
  BY InitOK DEF LineageInv, LineageOK, Init, Scoring
<1>2. LineageInv /\ [Next /\ Uncut]_vars => LineageInv'
  <2>1. LineageInv /\ UNCHANGED vars => LineageOK'
    BY DEF LineageInv, LineageOK, Reigned, vars, history
  <2>2. LoopInv /\ [Next]_vars => LoopInv'
    BY TypeStep, RunStep, WinnersStep, NextLedger, LedgerStepOK, StutterOK DEF LoopInv, TypeOK
  <2> QED
    BY <2>1, <2>2, LineageStep DEF LineageInv
<1>3. Init => Ledger!Init
  BY DEF Init, Ledger!Init, MidCoronation
<1>4. LineageInv /\ [Next /\ Uncut]_vars => [Ledger!Next]_(Ledger!ledger)
  <2>1. UNCHANGED vars => UNCHANGED Ledger!ledger
    BY DEF vars, history, Ledger!ledger, MidCoronation, Crowned
  <2> QED
    BY <2>1, LedgerSimulates
<1> QED
  BY <1>1, <1>2, <1>3, <1>4, PTL DEF UncutSpec, LedgerSpec, Ledger!Spec

=============================================================================
