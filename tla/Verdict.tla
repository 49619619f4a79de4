------------------------------ MODULE Verdict ------------------------------
(***************************************************************************)
(* Who takes the crown: window.exclude, the three-condition verdict of     *)
(* duel.py, its rematches in commit order, and simulate.adjudicate, over   *)
(* the arms a window ran.  An arm answers a prefix of the slice; its       *)
(* allowance or the per-duel clock may take the rest, and a grader may die *)
(* under any of them.                                                      *)
(*                                                                         *)
(* Numbers are exact: a mean is multiplied by Scale, an aggregate by the   *)
(* number of benchmarks, and the bootstrap is its whole distribution in    *)
(* place of N_BOOT draws from it.                                          *)
(***************************************************************************)
EXTENDS Integers, Sequences, FiniteSets, Functions, SequencesExt

CONSTANTS
  Slice,          \* the benchmark of each task, in slice order
  Graded,         \* bound: the scores each task may be graded, in twentieths of a correct answer
  Contenders,     \* how many challengers are judged, numbered in (block, hotkey) order
  Free,           \* bound: those whose arms are arbitrary; a later one repeats an earlier arm
  MaxDead,        \* bound: tasks whose grader dies
  NOBODY          \* no crown placed

ASSUME SliceAssumption ==
  /\ Slice \in Seq(Range(Slice)) /\ Cardinality(Range(Slice)) >= 2
  /\ Graded \in [DOMAIN Slice -> SUBSET Nat] /\ Contenders \in Nat

VARIABLES
  arms,     \* the arms run so far, in order: the king's, then the contenders'
  failed,   \* guard.failed: the tasks whose grader died
  placed    \* the adjudication, or NOBODY until it is made

verdictVars == <<arms, failed, placed>>

Tasks == DOMAIN Slice

-----------------------------------------------------------------------------
(* Prices.  A correct answer is worth 200 and a worker's call costs 1, so  *)
(* EPS = 0.05 is 10 and BREADTH_FLOOR = EPS / 10 is 1.                     *)

Eps == 10
Floor == 1
Scale == 12                                       \* a multiple of every task count
Final(row) == 10 * row.score - row.spend
AtLeastHalf(n, of) == 2 * n >= of                 \* MIN_SLICE_REACHED

Answered(score) == [score |-> score, spend |-> 1, why |-> "run"]
Starved == [score |-> 0, spend |-> 0, why |-> "budget_exhausted"]
Clocked == [score |-> 0, spend |-> 0, why |-> "duel_wall_clock"]

Answers == {a \in [Tasks -> UNION Range(Graded)] : \A t \in Tasks : a[t] \in Graded[t]}
Arms == {[t \in Tasks |-> IF t <= n THEN Answered(a[t]) ELSE tail] :
           n \in 0 .. Len(Slice), a \in Answers, tail \in {Starved, Clocked}}

How(arm, why) == {t \in Tasks : arm[t].why = why}
Late(arm) == How(arm, "duel_wall_clock")

-----------------------------------------------------------------------------
(* One pair of arms.                                                       *)

\* window.exclude: a task leaves both arms or neither.
KeptByIncumbent(incumbent, challenger, dead) == Tasks \ (dead \union Late(incumbent))
Kept(incumbent, challenger, dead) == Tasks \ (dead \union Late(incumbent) \union Late(challenger))
ThinnedByClock(incumbent, challenger, dead) ==
  (Late(incumbent) \union Late(challenger)) \ dead # {}

Benchmarks(kept) == {Slice[t] : t \in kept}

\* A benchmark's delta over a draw of its rows, the same rows of both arms.
BenchmarkDelta(incumbent, challenger, draw, b) ==
  LET rows == {t \in DOMAIN draw : Slice[t] = b}
      gain == [t \in rows |-> Final(challenger[draw[t]]) - Final(incumbent[draw[t]])]
  IN  (Scale * SumFunctionOnSet(gain, rows)) \div Cardinality(rows)

\* Equal weight per benchmark, never per task.
Delta(incumbent, challenger, draw) ==
  LET bs == Benchmarks(DOMAIN draw)
  IN  SumFunctionOnSet([b \in bs |-> BenchmarkDelta(incumbent, challenger, draw, b)], bs)

AllRows(kept) == [t \in kept |-> t]
Resamples(kept) == {draw \in [kept -> kept] : \A t \in kept : Slice[draw[t]] = Slice[t]}

\* lcb > 0: the fifth percentile of the paired bootstrap.
Separable(incumbent, challenger, kept) ==
  LET draws == Resamples(kept)
  IN  20 * Cardinality({draw \in draws : Delta(incumbent, challenger, draw) <= 0})
        < Cardinality(draws)

\* DuelVerdict.counted: movement below the floor is none.
Counted(d) == IF d > Floor * Scale \/ -d > Floor * Scale THEN d ELSE 0

\* loo_min > 0 and median > 0, over the counted deltas.
Spread(counted) ==
  LET bs == DOMAIN counted
      sorted == SetToSortSeq(bs, LAMBDA b, c : counted[b] < counted[c])
      n == Len(sorted)
  IN  /\ \A b \in bs : SumFunctionOnSet(counted, bs \ {b}) > 0
      /\ counted[sorted[(n + 1) \div 2]] + counted[sorted[n \div 2 + 1]] > 0

Broad(incumbent, challenger, kept) ==
  Spread([b \in Benchmarks(kept) |->
            Counted(BenchmarkDelta(incumbent, challenger, AllRows(kept), b))])

ChallengerWins(incumbent, challenger, kept) ==
  /\ Delta(incumbent, challenger, AllRows(kept)) > Eps * Scale * Cardinality(Benchmarks(kept))
  /\ Separable(incumbent, challenger, kept)
  /\ Broad(incumbent, challenger, kept)

\* verdict_of: only a slice the clock thinned may go unpriced; duel's refusal of
\* any other is raised again.
VerdictOf(incumbent, challenger, dead) ==
  LET kept == Kept(incumbent, challenger, dead)
  IN  IF Cardinality(Benchmarks(kept)) >= 2
        THEN IF ChallengerWins(incumbent, challenger, kept) THEN "wins" ELSE "loses"
        ELSE IF ThinnedByClock(incumbent, challenger, dead) THEN "unpriced" ELSE "raises"

-----------------------------------------------------------------------------
(* The power gate: the reference arms, asked with the duel's own bootstrap *)
(* whether the window can separate policies at all.                        *)

\* Graded quality, spend unpriced.
QualityOnly(arm) == [t \in Tasks |-> [arm[t] EXCEPT !.spend = 0]]

\* Either policy may lead; breadth is not asked of the gate.
Separates(kingZero, contrast, dead) ==
  LET kept == Tasks \ dead
      leads(a, b) ==
        /\ Delta(b, a, AllRows(kept)) > Eps * Scale * Cardinality(Benchmarks(kept))
        /\ Separable(b, a, kept)
  IN  IF Cardinality(Benchmarks(kept)) < 2 THEN "raises"
      ELSE IF \/ leads(QualityOnly(kingZero), QualityOnly(contrast))
              \/ leads(QualityOnly(contrast), QualityOnly(kingZero)) THEN "opens" ELSE "refuses"

\* The placeholder of a dead grader moves no window, and no window is refused in which one
\* reference policy would take the other's crown at equal prices (reference.power_gate).
GateIsFair ==
  \A a, b \in {[t \in Tasks |-> Answered(g[t])] : g \in Answers}, dead \in SUBSET Tasks :
    /\ \A t \in dead : Separates([a EXCEPT ![t] = Answered(0)], b, dead) = Separates(a, b, dead)
    /\ VerdictOf(QualityOnly(a), QualityOnly(b), dead) = "wins" => Separates(a, b, dead) = "opens"

-----------------------------------------------------------------------------
(* The window's crown.                                                     *)

Spend(arm) == SumFunctionOnSet([t \in Tasks |-> arm[t].spend], Tasks)
Reached(arm) == Tasks \ (How(arm, "budget_exhausted") \union Late(arm))
Eligible(arm) == Spend(arm) > 0 /\ AtLeastHalf(Cardinality(Reached(arm)), Len(Slice))
KingTooThin(arm) == ~AtLeastHalf(Cardinality(Tasks \ Late(arm)), Len(Slice))

\* The arm of the king is the first; contender c's is the one after c others.
ArmOf(c) == arms[c + 1]
King == 0

FirstWinner(holders) == holders[2]
\* Whom a later winner must clear: the contender that holds the crown.
Reigning(holders) == Last(holders)

\* succession: the holders of the crown in turn, the king first.  A winner
\* after the first must clear the arm that holds the crown.
Duel(i, c) == VerdictOf(ArmOf(i), ArmOf(c), failed)
CrownsWithoutRematch(winners) == <<King>> \o SetToSortSeq(winners, <)
Succession(winners) ==
  LET holders[c \in 0 .. Contenders] ==
        IF c = 0 THEN <<King>>
        ELSE LET before == holders[c - 1]
                 clears == Len(before) = 1 \/ Duel(Reigning(before), c) = "wins"
             IN  IF c \in winners /\ clears THEN Append(before, c) ELSE before
  IN  holders[Contenders]

Adjudicated ==
  LET duels == [c \in 1 .. Contenders |-> Duel(King, c)]
      winners == {c \in 1 .. Contenders : duels[c] = "wins" /\ Eligible(ArmOf(c))}
  IN  IF KingTooThin(ArmOf(King)) THEN [how |-> "deferred", holders |-> <<King>>]
      ELSE IF "raises" \in Range(duels) THEN [how |-> "raised", holders |-> <<King>>]
      ELSE [how |-> "judged", holders |-> Succession(winners)]

-----------------------------------------------------------------------------

VerdictInit == arms = <<>> /\ failed = {} /\ placed = NOBODY

\* The king's arm, then each challenger's, on the one slice.
RunArm(arm) ==
  /\ Len(arms) <= Contenders
  /\ Len(arms) > Free => arm \in Range(arms)
  /\ arms' = Append(arms, arm)
  /\ UNCHANGED <<failed, placed>>

\* _GraderGuard: the task is remembered for the window, whatever arm was running.
GraderDies(t) ==
  /\ arms # <<>> /\ placed = NOBODY
  /\ t \notin failed /\ Cardinality(failed) < MaxDead
  /\ failed' = failed \union {t}
  /\ UNCHANGED <<arms, placed>>

\* Every verdict, only once every arm has run.
Adjudicate ==
  /\ Len(arms) = Contenders + 1 /\ placed = NOBODY
  /\ placed' = Adjudicated
  /\ UNCHANGED <<arms, failed>>

VerdictNext == (\E arm \in Arms : RunArm(arm)) \/ (\E t \in Tasks : GraderDies(t)) \/ Adjudicate

VerdictSpec == VerdictInit /\ [][VerdictNext]_verdictVars

-----------------------------------------------------------------------------
Adjudged == placed # NOBODY /\ placed.how = "judged"
Crown == Last(placed.holders)

\* The rows of b both arms answered with a live grader, and an arm's worth on
\* them: the reference the deltas are differences of.
Worth(arm, kept) ==
  LET final == [t \in kept |-> Final(arm[t])]
      of(b) == {t \in kept : Slice[t] = b}
      mean == [b \in Benchmarks(kept) |->
                 (Scale * SumFunctionOnSet(final, of(b))) \div Cardinality(of(b))]
  IN  SumFunctionOnSet(mean, Benchmarks(kept))

\* "A later submission has to add real points over what came before it" (duel.py
\* succession): where the clock cut no arm, the crowned arm stands EPS above the
\* king's for every hand the crown went through.
HandoversAddUp ==
  Adjudged /\ (\A arm \in Range(arms) : Late(arm) = {})
    => LET kept == Tasks \ failed
           step == Eps * Scale * Cardinality(Benchmarks(kept))
       IN  Worth(ArmOf(Crown), kept)
             >= Worth(ArmOf(King), kept) + (Len(placed.holders) - 1) * step

\* "A near-copy of the KING never wins" and neither does one of the contender that holds the crown
\* (duel.py succession): an arm that repeats the king's row for row is never crowned; one that
\* repeats an earlier contender's takes the crown only from somebody who took it in between, and
\* where the clock cut no arm only if the earlier one never held it.
CopyTakesNothing ==
  Adjudged => \A j \in Range(placed.holders) \ {King}, i \in 0 .. Contenders :
     i < j /\ ArmOf(i) = ArmOf(j) =>
       /\ i # King
       /\ \E k \in Range(placed.holders) : i < k /\ k < j
       /\ i \in Range(placed.holders) => \E arm \in Range(arms) : Late(arm) # {}

\* A task one arm never reached before its clock, or whose grader died under any
\* arm of the window, decides no duel: whatever the other arm did there, the
\* verdict of the pair is the same.
UnansweredDecidesNothing ==
  Adjudged => \A i \in 0 .. Contenders, j \in 1 .. Contenders, t \in Tasks :
     i < j => \A row \in {Answered(0), Answered(20)} :
       LET verdict == VerdictOf(ArmOf(i), ArmOf(j), failed)
           incumbent == [ArmOf(i) EXCEPT ![t] = row]
           challenger == [ArmOf(j) EXCEPT ![t] = row]
       IN  /\ t \in failed \union Late(ArmOf(j)) => VerdictOf(incumbent, ArmOf(j), failed) = verdict
           /\ t \in failed \union Late(ArmOf(i)) => VerdictOf(ArmOf(i), challenger, failed) = verdict

=============================================================================
