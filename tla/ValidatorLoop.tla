--------------------------- MODULE ValidatorLoop ---------------------------
(***************************************************************************)
(* The main thread of the validator daemon (v3/validator.py): the polling  *)
(* loop, one window from opening to the published reveal, the deferred     *)
(* coronation, and history.json, with a crash or an exception possible     *)
(* between any two durable writes.                                         *)
(*                                                                         *)
(* Every action that ends in History.save changes the durable variables in *)
(* one step, because save replaces the file through a rename; everything   *)
(* the code does between two saves may be cut by Crash or StepFails.  What *)
(* a duel computes is abstracted to who wins it; admission to which queued *)
(* hotkeys were admitted or refused; the weight write is WeightKeeper's.   *)
(***************************************************************************)
EXTENDS Naturals, Sequences, FiniteSets

CONSTANTS Hotkeys,              \* miners whose submission is committed on chain
          KING0,                \* the fixed policy that reigns when no miner does
          NONE,                 \* Python's None
          TORN,                 \* a file a crash cut in the middle of its write
          MaxWindow,            \* last window of the committed schedule
          Slice,                \* tasks in the king's arm
          PromotionMaxAttempts, \* PROMOTION_MAX_ATTEMPTS
          MaxFaults             \* bound on crashes and failed steps

Window == 1..MaxWindow
Kings == Hotkeys \cup {KING0}
Endings == {"answered", "exhausted", "clocked"}

WindowRecord == [crowned : Hotkeys \cup {NONE}, published : BOOLEAN]
Reveal == [king : Kings, crowned : Hotkeys \cup {NONE}]
Row == [by : Kings, end : Endings]
Reason == {"dethroned", "deregistered", "unfunded", "too slow"}
ReignRecord == [hotkey : Kings, ended : Reason \cup {NONE}]
PendingCrown == [window : Window, hotkey : Hotkeys, 
                 attempts : 1..PromotionMaxAttempts, due : BOOLEAN]
Run == [window : Window, king : Kings, admitted : SUBSET Hotkeys,
        refused : SUBSET Hotkeys, late : BOOLEAN, judged : SUBSET Hotkeys,
        winner : Hotkeys \cup {NONE}, copied : BOOLEAN]

ASSUME LoopAssumption ==
  /\ KING0 \notin Hotkeys
  /\ NONE \notin Hotkeys \cup {KING0}
  /\ NONE \notin WindowRecord \cup Reveal \cup PendingCrown \cup Reason
  /\ TORN \notin {NONE} \cup Reveal
  /\ MaxWindow \in Nat \ {0}
  /\ Slice \in Nat \ {0}
  /\ PromotionMaxAttempts \in Nat \ {0}
  /\ MaxFaults \in Nat

VARIABLES
  \* history.json
  judged,       \* hotkeys whose one shot is spent
  coronations,  \* every hotkey that took the crown, oldest first
  crown,        \* who reigns
  windows,      \* per window NONE, or the settled record
  pending,      \* NONE, or the winner whose public copy has not verified
  reigns,       \* every reign, oldest first; the last one is open
  \* files beside it
  kingRows,     \* checkpoints/window-N/king.jsonl: who ran each row, how it ended
  arms,         \* checkpoints/window-N/<hotkey>.jsonl: how the finished arm compares
  localReveal,  \* reveals/N.json
  \* the public buckets
  reveals,      \* v3/reveal/N.json
  public,       \* hotkeys whose tree verified in the public models bucket
  \* the process
  pc, run,
  \* the world
  clock,        \* the window the chain's head falls in
  registered,   \* hotkeys the metagraph resolves
  faults

history == <<judged, coronations, crown, windows, pending, reigns>>
files == <<kingRows, arms, localReveal>>
buckets == <<reveals, public>>
world == <<clock, registered, faults>>
vars == <<history, files, buckets, pc, run, world>>

NoRun == [window |-> 1, king |-> KING0, admitted |-> {}, refused |-> {},
          late |-> FALSE, judged |-> {}, winner |-> NONE, copied |-> FALSE]

\* Where run_window and _publish can be interrupted.
Scoring == {"open", "arm", "challengers"}
Publishing == {"promote", "supersede", "crown", "settle", "record", "put", "mark"}
Polling == {"idle", "copy", "enthroned", "poll", "remark", "refresh"}
PCs == {"down"} \cup Polling \cup Scoring \cup Publishing

(***************************************************************************)
(* The crown and the reign ledger.                                         *)
(***************************************************************************)

\* History.ensure_reign: whoever holds the crown opens the first reign.
EnsureReign == IF reigns = <<>> THEN <<[hotkey |-> crown, ended |-> NONE]>> ELSE reigns

\* A slip: the open reign is left open.
BeginReignUnclosed(ledger, h, reason) == Append(ledger, [hotkey |-> h, ended |-> NONE])

\* History._begin_reign: close the open reign with the reason, open the next.
BeginReign(ledger, h, reason) ==
  LET closed == IF ledger = <<>> THEN <<>>
                ELSE [ledger EXCEPT ![Len(ledger)].ended = reason]
  IN  Append(closed, [hotkey |-> h, ended |-> NONE])

\* History.crown_to, over a ledger ensure_reign may just have opened.
CrownTo(ledger, h, reason) ==
  /\ crown' = h
  /\ reigns' = IF h # crown THEN BeginReign(ledger, h, reason) ELSE ledger

\* Validator._resolve_reign: the crown reverts once its hotkey stops resolving.
ResolveReign ==
  IF crown \in Hotkeys \ registered
  THEN CrownTo(reigns, KING0, "deregistered")
  ELSE UNCHANGED <<crown, reigns>>

\* Whether the window is settled (History.completed).
Completed(w) == windows[w] # NONE

(***************************************************************************)
(* One poll: the deferred coronation, then the window that is due.         *)
(***************************************************************************)

\* step, up to the copy: nothing pending or its backoff still runs; a winner
\* that deregistered forfeits; otherwise the tree is copied, outside any lock.
SettlePendingCrown ==
  /\ pc = "idle"
  /\ \/ /\ IF pending = NONE THEN TRUE ELSE ~pending.due
        /\ pc' = "poll"
        /\ UNCHANGED pending
     \/ /\ pending # NONE
        /\ pending.due
        /\ pending.hotkey \notin registered
        /\ pending' = NONE
        /\ pc' = "poll"
     \/ /\ pending # NONE
        /\ pending.due
        /\ pending.hotkey \in registered
        /\ pc' = "copy"
        /\ UNCHANGED pending
  /\ UNCHANGED <<judged, coronations, crown, windows, reigns, files, buckets, run, world>>

\* The copy verified on a later poll: History.crown_promoted, one save.  Its
\* windows.setdefault creates the record of a window that was never settled.
PromotePending ==
  /\ pc = "copy"
  /\ pending # NONE
  /\ CrownTo(reigns, pending.hotkey, "dethroned")
  /\ coronations' = Append(coronations, pending.hotkey)
  /\ windows' = [windows EXCEPT ![pending.window] =
                   IF @ = NONE THEN [crowned |-> pending.hotkey, published |-> FALSE]
                   ELSE [@ EXCEPT !.crowned = pending.hotkey]]
  /\ pending' = NONE
  /\ public' = public \cup {pending.hotkey}
  /\ pc' = "enthroned"
  /\ UNCHANGED <<judged, files, reveals, run, world>>

\* Slips: the attempt is not counted; the budget is never enforced.
RetryUncounted ==
  /\ pc = "copy"
  /\ pending # NONE
  /\ pending' = [pending EXCEPT !.due = FALSE]
  /\ pc' = "poll"
  /\ UNCHANGED <<judged, coronations, crown, windows, reigns, files, buckets, run, world>>
\* The copy failed again: back off, or forfeit once the budget is spent.
RetryOrForfeit ==
  /\ pc = "copy"
  /\ pending # NONE
  /\ LET attempts == pending.attempts + 1
     IN  pending' = IF attempts >= PromotionMaxAttempts THEN NONE
                    ELSE [pending EXCEPT !.attempts = attempts, !.due = FALSE]
  /\ pc' = "poll"
  /\ UNCHANGED <<judged, coronations, crown, windows, reigns, files, buckets, run, world>>

\* A slip: a settled window is run again while it is the chain's.
StartSettledWindow ==
  /\ pc = "poll"
  /\ clock \in Window
  /\ run' = [NoRun EXCEPT !.window = clock]
  /\ pc' = "open"
  /\ UNCHANGED <<history, files, buckets, world>>

\* step reads the head: an unsettled window is run.
StartWindow ==
  /\ pc = "poll"
  /\ clock \in Window
  /\ ~Completed(clock)
  /\ run' = [NoRun EXCEPT !.window = clock]
  /\ pc' = "open"
  /\ UNCHANGED <<history, files, buckets, world>>

\* step on a settled window, or past the schedule: re-publish a reveal whose
\* publication was cut short (_republish).  Without a local copy it returns; a
\* torn one raises out of step.
Republish ==
  /\ pc = "poll"
  /\ IF clock \in Window THEN Completed(clock) ELSE TRUE
  /\ LET owed == clock \in Window /\ ~windows[clock].published
     IN  \/ /\ IF owed THEN localReveal[clock] = NONE ELSE TRUE
            /\ pc' = "refresh"
            /\ UNCHANGED <<reveals, run>>
         \/ /\ owed
            /\ localReveal[clock] = TORN
            /\ pc' = "idle"
            /\ UNCHANGED <<reveals, run>>
         \/ /\ owed
            /\ localReveal[clock] \notin {NONE, TORN}
            /\ \/ /\ reveals' = [reveals EXCEPT ![clock] = localReveal[clock]]
                  /\ run' = [run EXCEPT !.window = clock]
                  /\ pc' = "remark"
               \/ /\ pc' = "refresh"           \* the store refused the put again
                  /\ UNCHANGED <<reveals, run>>
  /\ UNCHANGED <<history, files, public, world>>

\* _refresh_weights, on the idle path and after a deferred coronation: the one
\* place a reversion between windows is recorded.
RefreshWeights ==
  /\ pc \in {"refresh", "enthroned"}
  /\ ResolveReign
  /\ pc' = IF pc = "refresh" THEN "idle" ELSE "poll"
  /\ run' = NoRun
  /\ UNCHANGED <<judged, coronations, windows, pending, files, buckets, world>>

(***************************************************************************)
(* One window: run_window up to the verdicts.                              *)
(***************************************************************************)

\* Nothing is scored: _publish is called with no winner.
DeadWindow(spent) ==
  /\ run' = [run EXCEPT !.judged = spent]
  /\ pc' = "settle"

\* WindowUnavailable: the committed window file is missing or fails to verify.
WindowUnavailable ==
  /\ pc = "open"
  /\ pc' = "refresh"
  /\ UNCHANGED <<history, files, buckets, run, world>>

\* A slip: judged hotkeys, whose commitments live forever, stay in the queue.
QueueEveryone == registered

\* _queue: committed hotkeys that resolve, without those already judged.
Queue == registered \ judged

\* The window opens: the queue is read and the reversion resolved on one
\* metagraph read, and the king every duel will face is fixed.  The power gate
\* may refuse the window; otherwise the whole queue is admitted, refused (an
\* invalid artifact or a spent deferral cap: the shot is spent) or left waiting.
OpenWindow ==
  /\ pc = "open"
  /\ ResolveReign
  /\ \E admitted, refused \in SUBSET Queue :
       /\ admitted \cap refused = {}
       /\ run' = [run EXCEPT !.king = crown', !.admitted = admitted, !.refused = refused,
                             !.judged = IF admitted = {} THEN refused ELSE {}]
       /\ pc' = IF admitted = {} THEN "settle" ELSE "arm"
  /\ UNCHANGED <<judged, coronations, windows, pending, files, buckets, world>>

\* One row of the king's arm.  Rows an earlier attempt left are resumed; the
\* deadline is this process's, the allowance the window's (Checkpoint.snapshot).
KingRow ==
  /\ pc = "arm"
  /\ LET w == run.window
         broke == \E i \in DOMAIN kingRows[w] : kingRows[w][i].end = "exhausted"
     IN  /\ Len(kingRows[w]) < Slice
         /\ \E late \in BOOLEAN, end \in Endings :
              /\ run.late => late
              /\ late <=> end = "clocked"
              /\ broke => end # "answered"
              /\ run' = [run EXCEPT !.late = late]
              /\ kingRows' = [kingRows EXCEPT ![w] = Append(@, [by |-> run.king, end |-> end])]
  /\ UNCHANGED <<history, arms, localReveal, buckets, pc, world>>

\* Rows of the finished king's arm that ended this way.
Ended(end) == Cardinality({i \in DOMAIN kingRows[run.window] : kingRows[run.window][i].end = end})

KingArmRan == pc = "arm" /\ Len(kingRows[run.window]) = Slice
\* _king_too_thin: the clock cut the arm below half its slice.
TooThin == 2 * (Slice - Ended("clocked")) < Slice
\* The allowance ran out before half the slice was reached.
Starved == 2 * (Slice - Ended("exhausted")) < Slice

\* A miner king too slow for half its slice loses the reign; the window is dead.
KingTooSlow ==
  /\ KingArmRan
  /\ TooThin
  /\ IF run.king # KING0 THEN CrownTo(reigns, KING0, "too slow") ELSE UNCHANGED <<crown, reigns>>
  /\ DeadWindow(run.refused)
  /\ UNCHANGED <<judged, coronations, windows, pending, files, buckets, world>>

\* The king's spend does not reconcile with the gateway's receipts.
KingUnreconciled ==
  /\ KingArmRan
  /\ ~TooThin
  /\ DeadWindow(run.refused)
  /\ UNCHANGED <<history, files, buckets, world>>

\* A miner king that could not fund half its slice loses the reign, and the
\* duels against the arm it ran go on.
KingDefends ==
  /\ KingArmRan
  /\ ~TooThin
  /\ IF Starved /\ run.king # KING0
     THEN CrownTo(reigns, KING0, "unfunded")
     ELSE UNCHANGED <<crown, reigns>>
  /\ pc' = "challengers"
  /\ UNCHANGED <<judged, coronations, windows, pending, files, buckets, run, world>>

\* One challenger's arm runs to its end, or is resumed whole.
ChallengerArm(h) ==
  /\ pc = "challengers"
  /\ h \in run.admitted
  /\ arms[run.window][h] = "none"
  /\ \E result \in {"wins", "loses"} : arms' = [arms EXCEPT ![run.window][h] = result]
  /\ UNCHANGED <<history, kingRows, localReveal, buckets, pc, run, world>>

\* Every verdict, once every arm has run.  An arm that cannot be reconciled or
\* bought nothing is deferred; succession crowns one of the winners.
Verdict ==
  /\ pc = "challengers"
  /\ \A h \in run.admitted : arms[run.window][h] # "none"
  /\ \E deferred \in SUBSET run.admitted :
       LET scored == run.admitted \ deferred
           winners == {h \in scored : arms[run.window][h] = "wins"}
       IN  \E winner \in IF winners = {} THEN {NONE} ELSE winners :
             /\ run' = [run EXCEPT !.judged = run.refused \cup scored, !.winner = winner]
             /\ pc' = IF winner = NONE THEN "settle" ELSE "promote"
  /\ UNCHANGED <<history, files, buckets, world>>

(***************************************************************************)
(* _publish: copy, persist, write the reveal, set weights, publish.        *)
(***************************************************************************)

\* _promote, before the state lock: the winner's tree is copied and verified.
Promote ==
  /\ pc = "promote"
  /\ \E copied \in BOOLEAN :
       /\ run' = [run EXCEPT !.copied = copied]
       /\ public' = IF copied THEN public \cup {run.winner} ELSE public
  /\ pc' = "supersede"
  /\ UNCHANGED <<history, files, reveals, world>>

\* _supersede_pending: forfeit_crown when another winner still waits.
Supersede ==
  /\ pc = "supersede"
  /\ IF pending # NONE /\ pending.hotkey # run.winner
     THEN pending' = NONE /\ reigns' = EnsureReign
     ELSE UNCHANGED <<pending, reigns>>
  /\ pc' = "crown"
  /\ UNCHANGED <<judged, coronations, crown, windows, files, buckets, run, world>>

\* A slip: the crown does not wait for the copy.
CrownUnverified ==
  /\ pc = "crown"
  /\ CrownTo(EnsureReign, run.winner, "dethroned")
  /\ pc' = "settle"
  /\ UNCHANGED <<judged, coronations, windows, pending, files, buckets, run, world>>

\* crown_to when the copy verified, defer_crown when it did not.
CrownWinner ==
  /\ pc = "crown"
  /\ IF run.copied
     THEN CrownTo(EnsureReign, run.winner, "dethroned") /\ UNCHANGED pending
     ELSE /\ pending' = [window |-> run.window, hotkey |-> run.winner,
                         attempts |-> 1, due |-> FALSE]
          /\ reigns' = EnsureReign
          /\ UNCHANGED crown
  /\ pc' = "settle"
  /\ UNCHANGED <<judged, coronations, windows, files, buckets, run, world>>

\* A slip: the deferred winner enters the lineage at once.
CrownedEarly == run.winner

\* The coronation this window records.
Crowned == IF run.copied THEN run.winner ELSE NONE

\* History.settle: verdicts, coronation and the settled window in one save.
Settle ==
  /\ pc = "settle"
  /\ judged' = judged \cup run.judged
  /\ coronations' = IF Crowned = NONE THEN coronations ELSE Append(coronations, Crowned)
  /\ windows' = [windows EXCEPT ![run.window] = [crowned |-> Crowned, published |-> FALSE]]
  /\ reigns' = EnsureReign
  /\ pc' = "record"
  /\ UNCHANGED <<crown, pending, files, buckets, run, world>>

\* The body of the reveal: the king the duels faced and who took the crown.
Body == [king |-> run.king, crowned |-> Crowned]

\* A second metagraph read resolves the reign again, and the reveal is written
\* to its local file; the weight write that follows never raises.
Record ==
  /\ pc = "record"
  /\ ResolveReign
  /\ localReveal' = [localReveal EXCEPT ![run.window] = Body]
  /\ pc' = "put"
  /\ UNCHANGED <<judged, coronations, windows, pending, kingRows, arms, buckets, run, world>>

\* _put_reveal: a refused put is logged and left to a later poll.
PutReveal ==
  /\ pc = "put"
  /\ \/ /\ reveals' = [reveals EXCEPT ![run.window] = Body]
        /\ pc' = "mark"
        /\ UNCHANGED run
     \/ /\ pc' = "idle"
        /\ run' = NoRun
        /\ UNCHANGED reveals
  /\ UNCHANGED <<history, files, public, world>>

\* History.mark_published, after either put.
MarkPublished ==
  /\ pc \in {"mark", "remark"}
  /\ windows' = [windows EXCEPT ![run.window].published = TRUE]
  /\ pc' = IF pc = "mark" THEN "idle" ELSE "refresh"
  /\ run' = NoRun
  /\ UNCHANGED <<judged, coronations, crown, pending, reigns, files, buckets, world>>

(***************************************************************************)
(* The world and its faults.                                               *)
(***************************************************************************)

\* The head moves into the next window, or past the schedule.
Tick ==
  /\ clock <= MaxWindow
  /\ clock' = clock + 1
  /\ UNCHANGED <<history, files, buckets, pc, run, registered, faults>>

Deregister(h) ==
  /\ h \in registered
  /\ registered' = registered \ {h}
  /\ UNCHANGED <<history, files, buckets, pc, run, clock, faults>>

\* The wall clock reaches the pending crown's next_attempt_at.
BackoffElapses ==
  /\ pending # NONE
  /\ ~pending.due
  /\ pending' = [pending EXCEPT !.due = TRUE]
  /\ UNCHANGED <<judged, coronations, crown, windows, reigns, files, buckets, pc, run, world>>

Fault == faults < MaxFaults /\ faults' = faults + 1

\* The process dies; in the middle of the rewrite that records what the weight
\* write did, it leaves the local reveal torn.
Crash ==
  /\ Fault
  /\ pc # "down"
  /\ pc' = "down"
  /\ run' = NoRun
  /\ \/ UNCHANGED localReveal
     \/ /\ pc = "put"
        /\ localReveal' = [localReveal EXCEPT ![run.window] = TORN]
  /\ UNCHANGED <<history, kingRows, arms, buckets, clock, registered>>

\* Where a chain, store or serving call can raise; run_forever catches it.
Raising == {"poll", "refresh", "enthroned", "open", "arm", "challengers", "record"}

StepFails ==
  /\ Fault
  /\ pc \in Raising
  /\ pc' = "idle"
  /\ run' = NoRun
  /\ UNCHANGED <<history, files, buckets, clock, registered>>

Restart ==
  /\ pc = "down"
  /\ pc' = "idle"
  /\ UNCHANGED <<history, files, buckets, run, world>>

(***************************************************************************)
(* The specification.                                                      *)
(***************************************************************************)

Init ==
  /\ judged = {}
  /\ coronations = <<>>
  /\ crown = KING0
  /\ windows = [w \in Window |-> NONE]
  /\ pending = NONE
  /\ reigns = <<>>
  /\ kingRows = [w \in Window |-> <<>>]
  /\ arms = [w \in Window |-> [h \in Hotkeys |-> "none"]]
  /\ localReveal = [w \in Window |-> NONE]
  /\ reveals = [w \in Window |-> NONE]
  /\ public = {}
  /\ pc = "idle"
  /\ run = NoRun
  /\ clock = 1
  /\ registered = Hotkeys
  /\ faults = 0

Poll == SettlePendingCrown \/ PromotePending \/ RetryOrForfeit \/ StartWindow
        \/ Republish \/ RefreshWeights
Score == WindowUnavailable \/ OpenWindow \/ KingRow \/ KingTooSlow
         \/ KingUnreconciled \/ KingDefends \/ (\E h \in Hotkeys : ChallengerArm(h))
         \/ Verdict
Publish == Promote \/ Supersede \/ CrownWinner \/ Settle \/ Record \/ PutReveal
           \/ MarkPublished
MainThread == Poll \/ Score \/ Publish
Environment == Tick \/ (\E h \in Hotkeys : Deregister(h)) \/ BackoffElapses
Failures == Crash \/ StepFails

Next == MainThread \/ Restart \/ Environment \/ Failures

Spec == Init /\ [][Next]_vars

\* The polling loop keeps taking steps, the supervisor restarts a dead process,
\* and time passes: the chain's head and the retry backoff both move.
Fairness == WF_vars(MainThread) /\ WF_vars(Restart) /\ WF_vars(Tick) /\ WF_vars(BackoffElapses)

FairSpec == Spec /\ Fairness

(***************************************************************************)
(* Properties.                                                             *)
(***************************************************************************)

TypeOK ==
  /\ judged \subseteq Hotkeys
  /\ coronations \in Seq(Hotkeys)
  /\ crown \in Kings
  /\ windows \in [Window -> WindowRecord \cup {NONE}]
  /\ pending \in PendingCrown \cup {NONE}
  /\ reigns \in Seq(ReignRecord)
  /\ kingRows \in [Window -> Seq(Row)]
  /\ arms \in [Window -> [Hotkeys -> {"none", "wins", "loses"}]]
  /\ localReveal \in [Window -> Reveal \cup {NONE, TORN}]
  /\ reveals \in [Window -> Reveal \cup {NONE}]
  /\ public \subseteq Hotkeys
  /\ pc \in PCs
  /\ run \in Run
  /\ clock \in 1..MaxWindow + 1
  /\ registered \subseteq Hotkeys
  /\ faults \in 0..MaxFaults

\* Exactly one reign is open, it is the crown's, and no hotkey follows itself:
\* a reversion, a dethroning, a lost reign and a deferred coronation each close
\* one reign and open one, wherever a crash fell.
ReignLedger ==
  /\ reigns = <<>> => crown = KING0
  /\ reigns # <<>> => reigns[Len(reigns)] = [hotkey |-> crown, ended |-> NONE]
  /\ \A i \in 1..Len(reigns) - 1 : /\ reigns[i].ended # NONE
                                   /\ reigns[i].hotkey # reigns[i + 1].hotkey

\* D14, crown after verify: a miner reigns only after winning a duel whose arm
\* is on disk, and only once its weights verified in the public bucket.
CrownAfterVerify ==
  crown # KING0 => /\ crown \in public
                   /\ \E w \in Window : arms[w][crown] = "wins"

\* Section 7's one shot: no arm of a hotkey already judged is ever run.
JudgedSpared == \A w \in Window, h \in Hotkeys : arms'[w][h] # arms[w][h] => h \notin judged
OneShot == [][JudgedSpared]_vars

\* A settled window is never scored again: no arm of it runs once it is recorded.
SettledSpared ==
  \A w \in Window : Completed(w) => kingRows'[w] = kingRows[w] /\ arms'[w] = arms[w]
SettledIsFinal == [][SettledSpared]_vars

\* History is append-only: shots stay spent, coronations stay in order, settled
\* windows stay settled and published ones published, and a closed reign never
\* changes again.
HistoryGrows ==
  /\ judged \subseteq judged'
  /\ Len(coronations) <= Len(coronations')
  /\ \A i \in DOMAIN coronations : coronations'[i] = coronations[i]
  /\ \A w \in Window : Completed(w) =>
       windows'[w] # NONE /\ (windows[w].published => windows'[w].published)
  /\ Len(reigns) <= Len(reigns')
  /\ \A i \in 1..Len(reigns) - 1 : reigns'[i] = reigns[i]
HistoryAppendOnly == [][HistoryGrows]_vars

\* A deferred coronation is crowned, superseded or forfeited in the end.
PendingResolved == pending # NONE ~> pending = NONE

(***************************************************************************)
(* Claims of the documentation that a fault can break.                     *)
(***************************************************************************)

\* _publish: "The reveal is written locally inside the persist step", so that a
\* settled window whose reveal is not published yet can still be published.
RevealKept ==
  pc = "idle" =>
    \A w \in Window : windows[w] # NONE =>
      windows[w].published \/ localReveal[w] \notin {NONE, TORN}

\* _retained_registrations: "every crowned hotkey is judged", once no window is
\* left to finish.
CrownedIsJudged ==
  pc = "idle" /\ clock \notin Window =>
    /\ crown \in judged \cup {KING0}
    /\ \A i \in DOMAIN coronations : coronations[i] \in judged

\* run_window: "the START-OF-WINDOW king; every duel faces this one".
KingArmIsOneKings ==
  pc = "challengers" => \A i \in DOMAIN kingRows[run.window] :
                          kingRows[run.window][i].by = run.king

=============================================================================
