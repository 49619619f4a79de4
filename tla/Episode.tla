------------------------------- MODULE Episode -------------------------------
(***************************************************************************)
(* Inside one task of one arm (scaffold.run_episode): the Conductor is     *)
(* asked for one action at a time, a delegate is a bounded loop of         *)
(* provider calls and reads, and what it returned is graded and kept in    *)
(* the window's outcome table.  The arms of a window run one after         *)
(* another over the same tasks and share the table: the second arm to make *)
(* a choice replays the draw the first one bought, at the first one's      *)
(* price.  The tasks of one arm run concurrently; the process may die      *)
(* anywhere, and an arm resumes from its checkpointed results.             *)
(*                                                                         *)
(* All arms here run ONE policy, because that is what the table is for:    *)
(* identical policies must tie.  The policy is an arbitrary function of    *)
(* the rendered state; its values are chosen as they are first needed.     *)
(* A provider turn costs 1, so a delegate costs its number of turns.       *)
(***************************************************************************)
EXTENDS Grading, Sequences, Functions, SequencesExt, None

CONSTANTS
  NArms,       \* arms of the window, in the order they run
  Tasks, Models,
  MaxSteps, MaxReads,
  ParseLimit,  \* MAX_CONSECUTIVE_PARSE_FAILURES
  Budget,      \* the allowance of every arm's payer
  MaxDeaths    \* deaths of the process

Arms == 1..NArms
Keys == Tasks \X Models \X (1..MaxSteps)
Garbage == [kind |-> "garbage"]
Stop == [kind |-> "stop"]
Delegate(m) == [kind |-> "delegate", model |-> m]
Actions == {Garbage, Stop} \cup {Delegate(m) : m \in Models}

\* StepRecord, the delegate a worker is running, the episode in flight and EpisodeResult.
Steps == [kind : {"garbage", "stop", "delegate"}, model : Models \cup {NONE}, attempt : Nat,
          success : BOOLEAN, cost : Nat, failure : {NONE, "refused", "worker"}]
Pendings == [key : Keys, phase : {"call", "grade"}, reads : Nat, cost : Nat]
Episodes == [steps : Seq(Steps), fumbles : Nat, spent : Nat, best : Nat, allowance : Int,
             pending : Pendings \cup {NONE}]
Reasons == {"excluded", "budget_exhausted", "wall_clock", "parse_failures", "stop", "max_steps"}
Results == [steps : Seq(Steps), score : Nat, spent : Nat, reason : Reasons]

ASSUME EpisodeAssumption ==
  /\ IsFiniteSet(Tasks)
  /\ {MaxSteps, ParseLimit} \subseteq Nat \ {0} /\ {NArms, MaxReads, Budget, MaxDeaths} \subseteq Nat
  /\ NONE \notin Models \cup {"refused", "worker"} \cup Pendings \cup Episodes \cup Results

VARIABLES
  arm,       \* the arm running; NArms + 1 when the window's arms are done
  episodes,  \* task -> the episode in flight, or NONE
  results,   \* arm -> task -> its checkpointed result, or NONE
  table,     \* OutcomeTable._rows: key -> row
  file,      \* the rows a reopened table would read
  torn,      \* the file holds a line no reader gets past
  excluded,  \* _GraderGuard.failed, which is durable
  charged,   \* arm -> what the seam has debited its payer
  policy,    \* rendered state -> action, where it has been asked
  deaths,
  stored,    \* history: key -> how many draws put returned for
  lost,      \* history: arm -> what episodes that died had been debited
  mistaken   \* history: the tasks of which a failure of the harness decided a grade or a read

episodeVars == <<arm, episodes, results, table, file, torn, excluded, charged, policy, deaths,
                 stored, lost, mistaken>>
history == <<stored, lost, mistaken>>
disk == <<table, file, torn, stored>>

NoRows == <<>>
With(rows, key, row) == [k \in DOMAIN rows \cup {key} |-> IF k = key THEN row ELSE rows[k]]
Fresh(allowance) ==
  [steps |-> <<>>, fumbles |-> 0, spent |-> 0, best |-> 0, allowance |-> allowance, pending |-> NONE]

Spend(a) == LET done == {t \in Tasks : results[a][t] # NONE}
            IN SumFunctionOnSet([t \in done |-> results[a][t].spent], done)
Lifted(step) == [kind |-> step.kind, model |-> step.model, success |-> step.success, cost |-> step.cost]

\* render: all the Conductor sees of a history.
Rendered(t, ep) == <<t, [i \in DOMAIN ep.steps |-> Lifted(ep.steps[i])]>>

Answers(t, ep) ==
  LET prompt == Rendered(t, ep) IN
  IF prompt \in DOMAIN policy THEN {policy[prompt]} ELSE Actions

Asks(t, ep, action) ==
  /\ action \in Answers(t, ep)
  /\ policy' = With(policy, Rendered(t, ep), action)

Step(kind, model, attempt, score, cost, failure) ==
  [kind |-> kind, model |-> model, attempt |-> attempt, success |-> score = Full,
   cost |-> cost, failure |-> failure]

Result(steps, score, spent, reason) ==
  [steps |-> steps, score |-> score, spent |-> spent, reason |-> reason]

Record(t, result) ==
  /\ results' = [results EXCEPT ![arm][t] = result]
  /\ episodes' = [episodes EXCEPT ![t] = NONE]

\* The episode took this step; the loop goes round, or has used its last index.
Took(t, ep, step, score, cost) ==
  LET steps == Append(ep.steps, step)
      next == [ep EXCEPT !.steps = steps, !.spent = @ + cost,
                         !.best = IF score > @ THEN score ELSE @, !.pending = NONE]
  IN IF Len(steps) = MaxSteps
     THEN Record(t, Result(steps, next.best, next.spent, "max_steps"))
     ELSE episodes' = [episodes EXCEPT ![t] = next] /\ UNCHANGED results

Deciding(t) == arm \in Arms /\ episodes[t] # NONE /\ episodes[t].pending = NONE

-----------------------------------------------------------------------------
EpisodeInit ==
  /\ arm = 1
  /\ episodes = [t \in Tasks |-> NONE]
  /\ results = [a \in Arms |-> [t \in Tasks |-> NONE]]
  /\ table = NoRows /\ file = NoRows /\ torn = FALSE
  /\ excluded = {}
  /\ charged = [a \in Arms |-> 0]
  /\ policy = NoRows
  /\ deaths = 0
  /\ stored = [k \in Keys |-> 0]
  /\ lost = [a \in Arms |-> 0]
  /\ mistaken = {}

Running == {t \in Tasks : episodes[t] # NONE}

\* What the episodes in flight have been debited: their steps, and the delegate not yet done.
Debited(ep) == ep.spent + IF ep.pending = NONE THEN 0 ELSE ep.pending.cost
DebitedNow == SumFunctionOnSet([t \in Running |-> Debited(episodes[t])], Running)
Left == {t \in Tasks : results[arm][t] = NONE}

\* A batch: every task the arm has no result for, against the allowance as it now stands.
Dispatch ==
  /\ arm \in Arms /\ Running = {} /\ Left # {}
  /\ LET remaining == Budget - Spend(arm)
         skipped == Left \cap excluded
     IN /\ results' = [results EXCEPT ![arm] =
                         [t \in Tasks |-> IF t \in skipped THEN Result(<<>>, 0, 0, "excluded")
                                          ELSE IF t \in Left /\ remaining <= 0
                                               THEN Result(<<>>, 0, 0, "budget_exhausted")
                                          ELSE @[t]]]
        /\ episodes' = [t \in Tasks |-> IF t \in Left \ skipped /\ remaining > 0
                                        THEN Fresh(remaining) ELSE NONE]
  /\ UNCHANGED <<arm, table, file, torn, excluded, charged, policy, deaths, history>>

NextArm ==
  /\ arm \in Arms /\ Left = {}
  /\ arm' = arm + 1
  /\ UNCHANGED <<episodes, results, table, file, torn, excluded, charged, policy, deaths, history>>

\* The two cuts at the top of the loop: the clock scores the task 0, the allowance does not.
OutOfTime(t) ==
  /\ Deciding(t)
  /\ Record(t, Result(episodes[t].steps, 0, episodes[t].spent, "wall_clock"))
  /\ UNCHANGED <<arm, table, file, torn, excluded, charged, policy, deaths, history>>

OutOfMoney(t) ==
  /\ Deciding(t)
  /\ episodes[t].spent >= episodes[t].allowance
  /\ Record(t, Result(episodes[t].steps, episodes[t].best, episodes[t].spent, "budget_exhausted"))
  /\ UNCHANGED <<arm, table, file, torn, excluded, charged, policy, deaths, history>>

MayAct(t) == Deciding(t) /\ episodes[t].spent < episodes[t].allowance

Fumble(t) ==
  /\ MayAct(t)
  /\ LET ep == episodes[t]
         step == Step("garbage", NONE, 0, 0, 0, NONE)
     IN /\ Asks(t, ep, Garbage)
        /\ IF ep.fumbles + 1 = ParseLimit
           THEN Record(t, Result(Append(ep.steps, step), ep.best, ep.spent, "parse_failures"))
           ELSE Took(t, [ep EXCEPT !.fumbles = @ + 1], step, 0, 0)
  /\ UNCHANGED <<arm, table, file, torn, excluded, charged, deaths, history>>

Submit(t) ==
  /\ MayAct(t)
  /\ LET ep == episodes[t] IN
       /\ Asks(t, ep, Stop)
       /\ Record(t, Result(Append(ep.steps, Step("stop", NONE, 0, 0, 0, NONE)),
                           ep.best, ep.spent, "stop"))
  /\ UNCHANGED <<arm, table, file, torn, excluded, charged, deaths, history>>

Attempt(ep, m) == 1 + Cardinality({i \in DOMAIN ep.steps : ep.steps[i].model = m})

\* OwnerGateway.call and replay: refused only to an exhausted balance, and here also to a payer's
\* key the provider turned away; what is accepted is debited in full.
Funded(a) == charged[a] < Budget

\* A miss opens the delegate's read loop.
Miss(t, m) ==
  /\ MayAct(t)
  /\ LET ep == episodes[t]
         key == <<t, m, Attempt(ep, m)>>
     IN /\ Asks(t, ep, Delegate(m))
        /\ key \notin DOMAIN table
        /\ episodes' = [episodes EXCEPT ![t] =
             [ep EXCEPT !.fumbles = 0, !.pending = [key |-> key, phase |-> "call", reads |-> 0, cost |-> 0]]]
  /\ UNCHANGED <<arm, results, table, file, torn, excluded, charged, deaths, history>>

\* A hit: the stored draw, grade and price, no provider and no grader, and the same debit.
PriceOfAFreeHit(row) == 0
Price(row) == row.cost

Hit(t, m) ==
  /\ MayAct(t)
  /\ LET ep == [episodes[t] EXCEPT !.fumbles = 0]
         key == <<t, m, Attempt(ep, m)>>
         row == table[key]
     IN /\ Asks(t, episodes[t], Delegate(m))
        /\ key \in DOMAIN table
        /\ \/ /\ Funded(arm)
              /\ charged' = [charged EXCEPT ![arm] = @ + Price(row)]
              /\ Took(t, ep, Step("delegate", m, key[3], row.grade, Price(row), row.failure),
                      row.grade, Price(row))
           \/ /\ ~Funded(arm)
              /\ UNCHANGED charged
              /\ Took(t, ep, Step("delegate", m, key[3], 0, 0, "refused"), 0, 0)
  /\ UNCHANGED <<arm, table, file, torn, excluded, deaths, history>>

Calling(t) == arm \in Arms /\ episodes[t] # NONE /\ episodes[t].pending # NONE
              /\ episodes[t].pending.phase = "call"
InGrading(t) == arm \in Arms /\ episodes[t] # NONE /\ episodes[t].pending # NONE
              /\ episodes[t].pending.phase = "grade"

\* _GraderGuard: what died is remembered, on disk, and the task leaves every arm.
Guard(t) == excluded' = excluded \cup {t}

MayRead(pending) == pending.reads < MaxReads

Priced(t) == charged' = [charged EXCEPT ![arm] = @ + 1]

\* The reply asks to read and the read is answered: the same model is asked again.
ReplyReads(t) ==
  /\ "observation" \in ReadOutcomes
  /\ Calling(t) /\ Funded(arm) /\ MayRead(episodes[t].pending)
  /\ Priced(t)
  /\ LET pending == episodes[t].pending IN
       episodes' = [episodes EXCEPT ![t].pending =
                      [pending EXCEPT !.reads = pending.reads + 1, !.cost = pending.cost + 1]]
  /\ UNCHANGED <<arm, results, table, file, torn, excluded, policy, deaths, history>>

\* The reply is the submission; so is one whose read failed, which costs every arm the task.
ReplySubmits(t) ==
  /\ Calling(t) /\ Funded(arm)
  /\ Priced(t)
  /\ LET pending == episodes[t].pending IN
       episodes' = [episodes EXCEPT ![t].pending =
                      [pending EXCEPT !.phase = "grade", !.cost = pending.cost + 1]]
  /\ \/ UNCHANGED <<excluded, mistaken>>
     \/ /\ MayRead(episodes[t].pending) /\ "died" \in ReadOutcomes
        /\ Guard(t) /\ mistaken' = mistaken \cup {t}
  /\ UNCHANGED <<arm, results, table, file, torn, policy, deaths, stored, lost>>

CostForgotten(pending) == 0
CostSoFar(pending) == pending.cost

\* OutcomeTable.put: first writer wins; the row is on disk before put returns.  Behind a torn line
\* it is on disk and no reader reaches it.
Put(row) ==
  IF row.key \in DOMAIN table
  THEN UNCHANGED disk
  ELSE /\ table' = With(table, row.key, row)
       /\ file' = IF torn THEN file ELSE With(file, row.key, row)
       /\ stored' = [stored EXCEPT ![row.key] = @ + 1]
       /\ UNCHANGED torn

Row(pending, grade, failure) ==
  [key |-> pending.key, cost |-> CostSoFar(pending), grade |-> grade, failure |-> failure]

\* What the table must remember of a call that brought no answer.
Outcome(failure) == failure = "worker"

\* The call raised: the meter's refusal is a dead step, the model's failure an outcome.
CallFails(t, failure) ==
  /\ Calling(t)
  /\ failure = "worker" => Funded(arm)
  /\ LET pending == episodes[t].pending
         row == Row(pending, 0, failure)
     IN /\ IF Outcome(failure) THEN Put(row) ELSE UNCHANGED disk
        /\ Took(t, episodes[t],
                Step("delegate", pending.key[2], pending.key[3], 0, CostSoFar(pending), failure),
                0, CostSoFar(pending))
  /\ UNCHANGED <<arm, excluded, charged, policy, deaths, lost, mistaken>>

\* The answer is graded and kept; a grader that dies scores 0 and drops the task from every arm.
Grade(t, verdict) ==
  /\ InGrading(t)
  /\ LET pending == episodes[t].pending
         score == IF verdict.score = Died THEN 0 ELSE verdict.score
         row == Row(pending, score, NONE)
     IN /\ Put(row)
        /\ Took(t, episodes[t],
                Step("delegate", pending.key[2], pending.key[3], score, CostSoFar(pending), NONE),
                score, CostSoFar(pending))
  /\ IF verdict.score = Died THEN Guard(t) ELSE UNCHANGED excluded
  /\ mistaken' = IF verdict.mistaken THEN mistaken \cup {t} ELSE mistaken
  /\ UNCHANGED <<arm, charged, policy, deaths, lost>>

\* The process dies: a table reopened on its file, the arm resumed from its results.
ReopenedEmpty(rows) == NoRows
Reopened(rows) == rows

Die ==
  /\ deaths < MaxDeaths
  /\ deaths' = deaths + 1
  /\ table' = Reopened(file)
  /\ episodes' = [t \in Tasks |-> NONE]
  /\ lost' = [lost EXCEPT ![arm] = @ + DebitedNow]
  /\ UNCHANGED <<arm, results, excluded, charged, policy, stored, mistaken>>

Crash == Running # {} /\ Die /\ UNCHANGED <<file, torn>>

\* ... in the middle of appending a row.
CrashInPut(t) == (Calling(t) \/ InGrading(t)) /\ Die /\ torn' = TRUE /\ UNCHANGED file

TaskNext(t) ==
  \/ OutOfTime(t) \/ OutOfMoney(t) \/ Fumble(t) \/ Submit(t)
  \/ \E m \in Models : Miss(t, m) \/ Hit(t, m)
  \/ ReplyReads(t) \/ ReplySubmits(t)
  \/ \E failure \in {"refused", "worker"} : CallFails(t, failure)
  \/ \E verdict \in Verdicts : Grade(t, verdict)

EpisodeNext ==
  \/ Dispatch \/ NextArm \/ Crash
  \/ \E t \in Tasks : TaskNext(t) \/ CrashInPut(t)

EpisodeSpec == EpisodeInit /\ [][EpisodeNext]_episodeVars

-----------------------------------------------------------------------------
\* A result that only the policy and the draws decided.
Uncut(r) ==
  /\ r.reason \in {"stop", "max_steps", "parse_failures"}
  /\ \A i \in DOMAIN r.steps : r.steps[i].failure # "refused"

\* Identical policies tie exactly: two arms that made the same choices have the same steps, score
\* and spend, whichever of them bought the draws and whatever died in between (OutcomeTable's
\* "under replay identical policies tie exactly").
TwinsTie ==
  \A x, y \in Arms, t \in Tasks \ excluded :
    results[x][t] # NONE /\ results[y][t] # NONE /\ Uncut(results[x][t]) /\ Uncut(results[y][t])
      => results[x][t] = results[y][t]

\* No failure of the harness that a log shows is scored: the task a dead container, daemon or mount
\* decided a grade or a read of is out of every arm, and stays out after a restart (base.py 38-44,
\* simulate.py 594-627).  What no log shows, a starved workload and a cut R2E-Gym summary, is scored
\* and no part of mistaken (Grading.Unseen).
HarnessIsNotScored == mistaken \subseteq excluded

\* A draw is bought once: after put has returned for a key no arm and no restart buys it again
\* (OutcomeTable: "a restart re-buys nothing").
RebuysNothing == \A k \in Keys : stored[k] <= 1

\* Every dollar a payer was debited is in a result, in an episode in flight, or was lost with an
\* episode that died: a delegate that fails half way is charged for its first half, and a refused
\* replay is not charged (_call_worker's accumulated cost, _replay).
EveryDollarIsRecorded ==
  \A x \in Arms :
    charged[x] = Spend(x) + lost[x] + (IF x = arm THEN DebitedNow ELSE 0)

=============================================================================
