------------------------------ MODULE DuelArm ------------------------------
(***************************************************************************)
(* One challenger's arm over a window's slice (v3/validator.py,            *)
(* Validator._arm and Checkpoint): batches of concurrent episodes sized by *)
(* the allowance, results checkpointed as they land, dead graders excluded *)
(* window-wide, a futile arm abandoned, the whole resumed after a crash,   *)
(* and the verdict against the king's arm once every arm has run.          *)
(*                                                                         *)
(* Tasks are numbered in nonce order.  An episode scores 0 or 1; a score   *)
(* of 1 is worth Worth dollars of spend, so the `final` of n rows is the   *)
(* sum of Worth * q - spend over n.  One benchmark is modelled.            *)
(***************************************************************************)
EXTENDS Integers, Sequences, FiniteSetsExt, Functions

CONSTANTS NTasks,      \* length of the slice
          Width,       \* EPISODE_CONCURRENCY
          Budget,      \* the payer's balance when the arm is first opened
          MaxSpend,    \* dearest episode
          Worth,       \* dollars one graded point is worth
          Eps,         \* the margin a challenger must clear, in the same unit
          NONE,        \* Python's None
          JUNK,        \* text that does not parse
          MaxCrashes,  \* bound on crashes
          MaxDeaths    \* bound on graders that die

Tasks == 1..NTasks
\* Why an arm has a row: the episode ran, or it was never reached and this is why.
Reasons == {"run", "clock", "exhausted", "futile", "excluded"}
\* dead is not in the file: the grade is the placeholder of a grader that died.
Row == [task : Tasks, why : Reasons, q : {0, 1}, spend : 0..MaxSpend, dead : BOOLEAN]
Unreached(t, why) == [task |-> t, why |-> why, q |-> 0, spend |-> 0, dead |-> FALSE]

ASSUME ArmAssumption ==
  /\ {NTasks, Width, Budget} \subseteq Nat \ {0}
  /\ {MaxSpend, Worth, Eps, MaxCrashes, MaxDeaths} \subseteq Nat
  /\ NONE \notin Row \cup Nat /\ \A tasks \in SUBSET Tasks : NONE # tasks
  /\ JUNK \notin Row

VARIABLES
  lines, torn,        \* the arm's checkpoint, and whether its last line is cut
  excludedFile,       \* the tasks excluded.jsonl names
  exclusionsTail,     \* "clean", "torn" or "damaged"
  budgetFile,         \* NONE, JUNK (cut) or the snapshot
  king,               \* the king's rows: their q, or NONE for his clock tail
  pc,                 \* where the daemon is
  failed,             \* guard.failed
  resumed, placed,    \* per task, the row read back, and the row of this attempt
  remaining, spent, runs, index, width,  \* the locals of _arm
  batch, open,        \* tasks of the batch, and those whose episode still runs
  late,               \* the per-duel clock has run out
  judgedWith,         \* guard.failed when the arm was first abandoned, or NONE
  crashes, deaths

disk == <<lines, torn, excludedFile, exclusionsTail, budgetFile>>
money == <<remaining, spent, runs>>
bounds == <<crashes, deaths>>
vars == <<disk, king, pc, failed, resumed, placed, money, index, width, batch, open, late,
          judgedWith, bounds>>

\* What a slice's rows cost, task by task, and what those of some tasks do.
Costs(f) == [t \in Tasks |-> IF f[t] = NONE THEN 0 ELSE f[t].spend]
Spend(f, tasks) == SumFunctionOnSet(Costs(f), tasks)
NoRows == [t \in Tasks |-> NONE]

(***************************************************************************)
(* The checkpoint.                                                         *)
(***************************************************************************)

\* resume: reading stops at the first line that does not parse.
ReadableLines == {i \in 1..Len(lines) : \A j \in 1..i : lines[j] # JUNK}
Resumed == [t \in Tasks |->
  LET at == {i \in ReadableLines : lines[i].task = t}
  IN  IF at = {} THEN NONE ELSE lines[Max(at)]]

\* append: behind a line without its newline, both make one that does not parse.
Appended(row) == IF torn THEN [lines EXCEPT ![Len(lines)] = JUNK] ELSE Append(lines, row)
AppendRow(row) == lines' = Appended(row) /\ torn' = FALSE

\* A slip: the exclusion is remembered by the guard only.
ExcludeInMemory(t) ==
  /\ failed' = failed \cup {t}
  /\ UNCHANGED <<excludedFile, exclusionsTail>>

\* _GraderGuard._exclude: remembered, and durable before the episode goes on.
Exclude(t) ==
  /\ failed' = failed \cup {t}
  /\ IF exclusionsTail = "clean"
     THEN excludedFile' = excludedFile \cup {t} /\ UNCHANGED exclusionsTail
     ELSE exclusionsTail' = "damaged" /\ UNCHANGED excludedFile

(***************************************************************************)
(* Scores.                                                                 *)
(***************************************************************************)

\* What an arm's rows are worth; an unrun task scores 1 and costs nothing.
Value(row) == IF row = NONE THEN Worth ELSE Worth * row.q - row.spend
Points(f, kept) == SumFunctionOnSet([t \in Tasks |-> Value(f[t])], kept)
KingClocked == {t \in Tasks : king[t] = NONE}
\* The bar: the king's score over the same tasks, and the margin.
Bar(kept) ==
  SumFunctionOnSet([t \in Tasks |-> IF king[t] = NONE THEN 0 ELSE Worth * king[t]], kept)
    + Eps * Cardinality(kept)

\* A slip: a dead grader's placeholder counts as a zero in the ceiling.
DroppedByClockOnly == KingClocked

\* What leaves the comparison on both sides: dead graders and the king's clock.
Dropped == failed \cup KingClocked

\* best_possible_final <= the king's final + EPS, over the tasks kept.
Hopeless ==
  LET kept == Tasks \ Dropped
  IN  /\ \E t \in Tasks : placed[t] # NONE
      /\ kept # {}
      /\ Points(placed, kept) <= Bar(kept)

\* What a verdict compares: a clock tail of either arm leaves both (window.exclude).
Compared(f) == {t \in Tasks : /\ f[t] # NONE /\ f[t].why # "clock"
                             /\ t \notin failed \cup KingClocked}
Beats(f) == Compared(f) # {} /\ Points(f, Compared(f)) > Bar(Compared(f))

(***************************************************************************)
(* The arm.                                                                *)
(***************************************************************************)

\* The first batch is one episode; later ones what the money buys at the mean price.
BatchWidth(rem, sp, n) ==
  IF n = 0 \/ sp = 0 \/ rem <= 0 THEN 1 ELSE Max({1, Min({Width, (rem * n) \div sp})})

\* A slip: the allowance forgets what earlier attempts spent.
RemainingFresh == Budget

\* The snapshot less the spend of the rows read back.
RemainingAfter == Budget - Spend(Resumed, Tasks)

\* _arm opens: resume, snapshot, a fresh clock.
Open ==
  /\ pc = "start"
  /\ budgetFile # JUNK
  /\ budgetFile' = Budget
  /\ resumed' = Resumed
  /\ placed' = NoRows
  /\ remaining' = RemainingAfter
  /\ spent' = 0 /\ runs' = 0 /\ index' = 1 /\ width' = 1
  /\ batch' = {} /\ open' = {} /\ late' = FALSE
  /\ pc' = "filling"
  /\ UNCHANGED <<lines, torn, excludedFile, exclusionsTail, king, failed, judgedWith, bounds>>

\* The snapshot was cut while it was first written: it does not parse, ever again.
OpenRaises ==
  /\ pc = "start"
  /\ budgetFile = JUNK
  /\ pc' = "wedged"
  /\ UNCHANGED <<disk, king, failed, resumed, placed, money, index, width, batch, open, late,
                 judgedWith, bounds>>

Filling == pc = "filling" /\ index <= NTasks /\ Cardinality(batch) < width

\* A task read back, or dropped by the window before the arm reached it.
Skip ==
  /\ Filling
  /\ \/ resumed[index] # NONE /\ placed' = [placed EXCEPT ![index] = resumed[index]]
     \/ /\ resumed[index] = NONE
        /\ index \in failed
        /\ placed' = [placed EXCEPT ![index] = Unreached(index, "excluded")]
  /\ index' = index + 1
  /\ UNCHANGED <<disk, king, pc, failed, resumed, money, width, batch, open, late, judgedWith, bounds>>

\* Nothing is left of the allowance.
Exhausted == remaining <= 0

\* A task the clock or the allowance keeps the arm from: checkpointed as such.
Unreach ==
  /\ Filling
  /\ resumed[index] = NONE
  /\ index \notin failed
  /\ late \/ Exhausted
  /\ LET row == Unreached(index, IF late THEN "clock" ELSE "exhausted")
     IN  /\ placed' = [placed EXCEPT ![index] = row]
         /\ AppendRow(row)
  /\ index' = index + 1
  /\ UNCHANGED <<excludedFile, exclusionsTail, budgetFile, king, pc, failed, resumed, money, width,
                 batch, open, late, judgedWith, bounds>>

Enlist ==
  /\ Filling
  /\ resumed[index] = NONE
  /\ index \notin failed
  /\ ~late /\ ~Exhausted
  /\ batch' = batch \cup {index}
  /\ index' = index + 1
  /\ UNCHANGED <<disk, king, pc, failed, resumed, placed, money, width, open, late, judgedWith, bounds>>

Dispatch ==
  /\ pc = "filling"
  /\ ~Filling
  /\ pc' = IF batch = {} THEN IF index > NTasks THEN "done" ELSE "filling" ELSE "running"
  /\ open' = batch
  /\ width' = IF batch = {} THEN BatchWidth(remaining, spent, runs) ELSE width
  /\ UNCHANGED <<disk, king, failed, resumed, placed, money, index, batch, late, judgedWith, bounds>>

\* A grader or sandbox dies under a running episode.
GraderDies(t) ==
  /\ pc = "running"
  /\ t \in open \ failed
  /\ deaths < MaxDeaths
  /\ deaths' = deaths + 1
  /\ Exclude(t)
  /\ UNCHANGED <<lines, torn, budgetFile, king, pc, resumed, placed, money, index, width, batch,
                 open, late, judgedWith, crashes>>

\* The row of an episode; a placeholder if the task's grader died under it.
Ran(t, q, s) == [task |-> t, why |-> "run", q |-> q, spend |-> s, dead |-> t \in failed]

\* An episode ends; its row is on disk before its peers'.  A dead grader's row
\* carries 0.0, a dead sandbox's whatever the answer was graded.
Finish(t, q, s) ==
  /\ pc = "running"
  /\ t \in open
  /\ placed' = [placed EXCEPT ![t] = Ran(t, q, s)]
  /\ AppendRow(Ran(t, q, s))
  /\ open' = open \ {t}
  /\ UNCHANGED <<excludedFile, exclusionsTail, budgetFile, king, pc, failed, resumed, money, index,
                 width, batch, late, judgedWith, bounds>>

\* The batch is in: account for it, then ask whether the arm can still win.
Account ==
  /\ pc = "running"
  /\ open = {}
  /\ LET cost == Spend(placed, batch)
     IN  /\ remaining' = remaining - cost
         /\ spent' = spent + cost
         /\ runs' = runs + Cardinality(batch)
         /\ width' = BatchWidth(remaining - cost, spent + cost, runs + Cardinality(batch))
  /\ batch' = {}
  /\ IF index <= NTasks /\ Hopeless
     THEN pc' = "abandoning" /\ judgedWith' = IF judgedWith = NONE THEN failed ELSE judgedWith
     ELSE pc' = "filling" /\ UNCHANGED judgedWith
  /\ UNCHANGED <<disk, king, failed, resumed, placed, index, open, late, bounds>>

\* A slip: the abandoned tail overwrites rows an earlier attempt paid for.
AbandonOverwrites ==
  /\ pc = "abandoning"
  /\ IF index > NTasks
     THEN pc' = "filling" /\ UNCHANGED <<placed, lines, torn, index>>
     ELSE /\ index' = index + 1
          /\ placed' = [placed EXCEPT ![index] = Unreached(index, "futile")]
          /\ AppendRow(Unreached(index, "futile"))
          /\ UNCHANGED pc
  /\ UNCHANGED <<excludedFile, exclusionsTail, budgetFile, king, failed, resumed, money, width, batch,
                 open, late, judgedWith, bounds>>

\* The tail of a futile arm: rows read back are kept, the rest is never bought.
Abandon ==
  /\ pc = "abandoning"
  /\ IF index > NTasks
     THEN pc' = "filling" /\ UNCHANGED <<placed, lines, torn, index>>
     ELSE /\ index' = index + 1
          /\ IF resumed[index] # NONE
             THEN placed' = [placed EXCEPT ![index] = resumed[index]] /\ UNCHANGED <<lines, torn>>
             ELSE /\ placed' = [placed EXCEPT ![index] = Unreached(index, "futile")]
                  /\ AppendRow(Unreached(index, "futile"))
          /\ UNCHANGED pc
  /\ UNCHANGED <<excludedFile, exclusionsTail, budgetFile, king, failed, resumed, money, width, batch,
                 open, late, judgedWith, bounds>>

(***************************************************************************)
(* The window around the arm.                                              *)
(***************************************************************************)

\* DUEL_WALL_CLOCK_SECONDS pass: the clock is only looked at before an episode.
ClockRunsOut ==
  /\ Filling
  /\ ~late
  /\ late' = TRUE
  /\ UNCHANGED <<disk, king, pc, failed, resumed, placed, money, index, width, batch, open,
                 judgedWith, bounds>>

\* A grader dies in another arm, before this one was judged.
OtherArmsGraderDies(t) ==
  /\ pc \in {"start", "done"}
  /\ deaths < MaxDeaths
  /\ t \notin failed
  /\ deaths' = deaths + 1
  /\ Exclude(t)
  /\ UNCHANGED <<lines, torn, budgetFile, king, pc, resumed, placed, money, index, width, batch,
                 open, late, judgedWith, crashes>>

\* adjudicate: after the last arm.
Judge ==
  /\ pc = "done"
  /\ pc' = "judged"
  /\ UNCHANGED <<disk, king, failed, resumed, placed, money, index, width, batch, open, late,
                 judgedWith, bounds>>

\* The rows an append may be writing.
InFlight ==
  {Ran(t, q, s) : t \in IF pc = "running" THEN open ELSE {}, q \in {0, 1}, s \in 0..MaxSpend}
    \cup {Unreached(index, why) : why \in {w \in Reasons :
            /\ index <= NTasks /\ resumed[index] = NONE
            /\ \/ pc = "abandoning" /\ w = "futile"
               \/ /\ Filling /\ index \notin failed /\ (late \/ Exhausted)
                  /\ w = IF late THEN "clock" ELSE "exhausted"}}

\* That line is cut: a part of it is written, or all of it but the newline.
CutRow ==
  \/ UNCHANGED <<lines, torn>>
  \/ /\ torn' = TRUE
     /\ \E r \in InFlight :
          lines' \in IF torn THEN {[lines EXCEPT ![Len(lines)] = JUNK]}
                     ELSE {Append(lines, JUNK), Append(lines, r)}

\* An exclusion being written is cut, its newline only or more of it.
CutExclusion ==
  \/ UNCHANGED <<excludedFile, exclusionsTail>>
  \/ /\ pc = "running" /\ deaths < MaxDeaths
     /\ exclusionsTail' = IF exclusionsTail = "clean" THEN "torn" ELSE "damaged"
     /\ \E t \in open \ failed : excludedFile' \in {excludedFile, excludedFile \cup {t}}
\* The snapshot is created and not yet written.
CutBudget ==
  \/ UNCHANGED budgetFile
  \/ pc = "start" /\ budgetFile = NONE /\ budgetFile' = JUNK

\* The process dies; the arm that was abandoned is still on its way to be.
Crash ==
  /\ pc \in {"start", "filling", "running", "abandoning", "done"}
  /\ crashes < MaxCrashes
  /\ crashes' = crashes + 1
  /\ CutRow /\ CutExclusion /\ CutBudget
  /\ pc' = "down"
  /\ failed' = {} /\ resumed' = NoRows /\ placed' = NoRows
  /\ remaining' = 0 /\ spent' = 0 /\ runs' = 0 /\ index' = 1 /\ width' = 1
  /\ batch' = {} /\ open' = {} /\ late' = FALSE
  /\ UNCHANGED <<king, judgedWith, deaths>>

\* run_window again: the exclusions are read back, or refused as damaged.
Restart ==
  /\ pc = "down"
  /\ IF exclusionsTail = "damaged"
     THEN pc' = "wedged" /\ UNCHANGED failed
     ELSE pc' = "start" /\ failed' = excludedFile
  /\ UNCHANGED <<disk, king, resumed, placed, money, index, width, batch, open, late, judgedWith, bounds>>

\* The king's arm has run: any grades, and a clock tail short enough to price.
Init ==
  /\ lines = <<>> /\ torn = FALSE
  /\ excludedFile = {} /\ exclusionsTail = "clean" /\ budgetFile = NONE
  /\ \E cut \in (NTasks + 1) \div 2..NTasks :
       king \in {k \in [Tasks -> {0, 1, NONE}] : \A t \in Tasks : k[t] = NONE <=> t > cut}
  /\ pc = "start" /\ failed = {}
  /\ resumed = NoRows /\ placed = NoRows
  /\ remaining = 0 /\ spent = 0 /\ runs = 0 /\ index = 1 /\ width = 1
  /\ batch = {} /\ open = {} /\ late = FALSE
  /\ judgedWith = NONE
  /\ crashes = 0 /\ deaths = 0

\* What the daemon does by itself.
Step ==
  \/ Open \/ OpenRaises \/ Skip \/ Unreach \/ Enlist \/ Dispatch \/ Account \/ Abandon
  \/ Judge \/ Restart
  \/ \E t \in Tasks, q \in {0, 1}, s \in 0..MaxSpend : Finish(t, q, s)

Next ==
  \/ Step
  \/ ClockRunsOut \/ Crash
  \/ \E t \in Tasks : GraderDies(t) \/ OtherArmsGraderDies(t)

Spec == Init /\ [][Next]_vars

(***************************************************************************)
(* Properties.                                                             *)
(***************************************************************************)

\* What is known of a task's spend: the row read back, and another if one was bought.
Known == [t \in Tasks |-> Costs(resumed)[t] + IF placed[t] = resumed[t] THEN 0 ELSE Costs(placed)[t]]

\* No verdict compares the grade of a task whose grader or sandbox died, in
\* whichever attempt it died and whatever the crashes cut: the exclusion is on
\* disk before the row that must not count (_GraderGuard._exclude).
PlaceholderNeverScored ==
  pc = "judged" => \A t \in Compared(placed) : ~placed[t].dead

\* Every row an earlier attempt left readable is the row the verdict reads: an
\* episode that was paid for is neither bought again nor replaced by a row that
\* says it was never reached (_arm's resume, futile tail included).
PaidRowsKept ==
  pc \in {"done", "judged"} => \A t \in Tasks : resumed[t] # NONE => placed[t] = resumed[t]

\* Exhaustion binds: a batch only runs while what this and earlier attempts are
\* known to have spent leaves something of the snapshot, so the overrun is that
\* batch's spend and not the arm's, across any restart (_arm's allowance).
AllowanceBinds ==
  pc = "running" => SumFunctionOnSet(Known, Tasks \ batch) < Budget

\* What the placed rows could have become had the futile tail been bought: full
\* marks, for nothing.
BestContinuation ==
  [t \in Tasks |-> IF placed[t] # NONE /\ placed[t].why = "futile"
                   THEN [placed[t] EXCEPT !.q = 1] ELSE placed[t]]

Abandoned == \E t \in Tasks : placed[t] # NONE /\ placed[t].why = "futile"
OwnClockTail == \E t \in Tasks : placed[t] # NONE /\ placed[t].why = "clock"

\* An arm abandoned as futile could not have won, whatever the tail it was not
\* given would have scored, for as long as no exclusion follows the first
\* abandonment and no clock tail of its own leaves the comparison
\* (best_possible_final against adjudicate's pairing).
FutileCannotWin ==
  pc = "judged" /\ Abandoned /\ failed = judgedWith /\ ~OwnClockTail
    => ~Beats(BestContinuation)

\* The same under later exclusions, as best_possible_final promises ("no
\* continuation whatsoever can beat the figure it returns"; what later
\* exclusions do to it "is the safe direction").
FutileIsFinal ==
  pc = "judged" /\ Abandoned /\ ~OwnClockTail => ~Beats(BestContinuation)

\* An episode whose complete row is in the file is not bought again: a torn line
\* "costs at most the one task that was in flight" (Checkpoint).
TornTailCostsOneTask ==
  pc = "filling" => \A i \in 1..Len(lines) :
    lines[i] # JUNK /\ lines[i].why = "run" => lines[i].task \notin batch

=============================================================================
