-------------------------------- MODULE World --------------------------------
(***************************************************************************)
(* What a daemon is started with: today's catalog cut down to the pool the *)
(* price table was fitted on, the fixed policies built from it, and the    *)
(* task pool a window's slice is drawn from.  Pure functions of what the   *)
(* owner configured and the vendor lists; Schedule builds on them, and the *)
(* assumptions below are evaluated over small catalogs and pools.          *)
(***************************************************************************)
EXTENDS Integers, Sequences, FiniteSets, FiniteSetsExt, SequencesExt, None

-----------------------------------------------------------------------------
(* The catalog: a function from model ids to prices. *)

\* One row of the vendor's list.  A price of -1 is no price.
Rows == [id : 1..3, price : -1..2, variant : {"plain", "free", "batch"},
         temperature : BOOLEAN, textOnly : BOOLEAN]
Entry(row) == row.price >= 0
Usable(row) == row.variant = "plain" /\ row.price > 0 /\ row.temperature /\ row.textOnly

\* A row that cannot be priced or served is dropped; an id listed twice refuses the whole list.
Snapshot(payload) ==
  LET rows == {k \in DOMAIN payload : Entry(payload[k]) /\ Usable(payload[k])}
      ids == {payload[k].id : k \in rows}
  IN  IF Cardinality(ids) # Cardinality(rows) THEN NONE
      ELSE [id \in ids |-> payload[CHOOSE k \in rows : payload[k].id = id].price]

\* The pool the table was fitted on, or nothing: no substitute for a missing model.
Narrow(catalog, pool) ==
  IF ~(pool \subseteq DOMAIN catalog) \/ Cardinality(pool) < 2 THEN NONE
  ELSE [id \in pool |-> catalog[id]]

-----------------------------------------------------------------------------
(* The fixed policies: ladders over the catalog, cheapest first. *)

Policies == {"always-cheapest", "always-strongest", "cascade"}
ByPrice(catalog) ==
  SetToSortSeq(DOMAIN catalog,
    LAMBDA a, b : catalog[a] < catalog[b] \/ (catalog[a] = catalog[b] /\ a < b))

\* round() of a half goes to the even neighbour.
Half(n) == IF n % 2 = 0 THEN n \div 2 ELSE 2 * ((n + 1) \div 4)
Places(policy, n) ==
  CASE policy = "always-cheapest" -> {1}
    [] policy = "always-strongest" -> {n}
    [] policy = "cascade" -> {1, 1 + Half(n - 1), n}
Rungs(policy, catalog) ==
  LET models == ByPrice(catalog)
      places == SetToSortSeq(Places(policy, Len(models)), <)
  IN  [k \in DOMAIN places |-> models[places[k]]]
ContrastFor(policy) == IF policy = "always-cheapest" THEN "always-strongest" ELSE "always-cheapest"
Top(rungs) == rungs[Len(rungs)]


\* A ladder is climbed from its first rung, one step a rung, until something solves the task.
Act(rungs, step, solved) == IF solved \/ step > Len(rungs) THEN NONE ELSE rungs[step]
Climb(rungs, solvers) ==
  LET asked[step \in Nat] ==
        LET choice == Act(rungs, step, step > 1 /\ rungs[step - 1] \in solvers)
        IN  IF choice = NONE THEN {} ELSE {choice} \cup asked[step + 1]
  IN  asked[1]

\* What the sweep pins: the best fixed policy on quality, the cheaper one on a tie, then the name's
\* place; and the two arms the price of a dollar is fitted between.
Order == <<"always-cheapest", "always-strongest", "cascade">>
Better(p, q, arms) ==
  \/ arms[p].quality > arms[q].quality
  \/ arms[p].quality = arms[q].quality /\ arms[p].spend < arms[q].spend
  \/ /\ arms[p].quality = arms[q].quality /\ arms[p].spend = arms[q].spend
     /\ \E i \in 1..3 : \E j \in i..3 : Order[i] = p /\ Order[j] = q
KingZero(arms) == CHOOSE p \in DOMAIN arms : \A q \in DOMAIN arms : Better(p, q, arms)
FitPool(arms) ==
  IF ~({"always-cheapest", "always-strongest"} \subseteq DOMAIN arms) THEN NONE
  ELSE [kingZero |-> KingZero(arms), floor |-> "always-cheapest",
        top |-> IF KingZero(arms) = "always-cheapest" THEN ContrastFor("always-cheapest") ELSE KingZero(arms)]

\* The slope is never fitted between an arm and itself, and the arm above the floor is one that
\* ends on another model than the floor does.
SlopeHasTwoEnds ==
  \A swept \in {Policies, Policies \ {"cascade"}} :
    \A arms \in [swept -> [quality : 0..2, spend : 0..1]], catalog \in [1..3 -> 1..2] :
      LET fit == FitPool(arms)
      IN  Top(Rungs(fit.top, catalog)) # Top(Rungs(fit.floor, catalog))
ASSUME SlopeHasTwoEndsChecked == SlopeHasTwoEnds

\* King zero and its contrast end on different models, whatever the prices; and where dearer models
\* solve what cheaper ones do, what a ladder solves is what its top rung solves, so there is a task
\* that one of the two solves and the other does not.
PairSeparates ==
  \A n \in 2..4 : \A catalog \in [1..n -> 1..2], policy \in Policies :
    LET rungs == Rungs(policy, catalog)
        contrast == Rungs(ContrastFor(policy), catalog)
        solvers(k) == {ByPrice(catalog)[i] : i \in k..n}
    IN  /\ Top(rungs) # Top(contrast)
        /\ \A k \in 1..n + 1 : Climb(rungs, solvers(k)) \cap solvers(k) # {} <=> Top(rungs) \in solvers(k)
        /\ \E k \in 1..n : (Climb(rungs, solvers(k)) \cap solvers(k) = {})
                             # (Climb(contrast, solvers(k)) \cap solvers(k) = {})
ASSUME PairSeparatesChecked == PairSeparates

-----------------------------------------------------------------------------
(* The world a process is built with, or NONE: it does not start. *)

\* An owner's configuration on a day.  table: the benchmarks it prices, TRUE where its own guard
\* flags them; pool: the models it was fitted on; tasks: the task pool.
Benchmarks(tasks) == {task.benchmark : task \in tasks}
Priced(config) ==
  {b \in DOMAIN config.table : ~config.table[b] /\ b \in Benchmarks(config.tasks)}
Pins(config) ==
  LET listed == Snapshot(config.payload)
      catalog == IF listed = NONE THEN NONE ELSE Narrow(listed, config.pool)
  IN  IF \/ catalog = NONE
         \/ ~(Benchmarks(config.tasks) \subseteq DOMAIN config.table)
         \/ Cardinality(Priced(config)) < 2
      THEN NONE
      ELSE [catalog |-> catalog, kingZero |-> Rungs(config.king, catalog),
            contrast |-> Rungs(ContrastFor(config.king), catalog), tasks |-> config.tasks]

-----------------------------------------------------------------------------
(* The draw: within each benchmark, by a hash of nonce, window and task. *)

\* Tasks are records of an id, a benchmark and a text.  The hash is any order of the ids that moves
\* with the nonce and the window; ties cannot happen (the id is part of the key).
DrawKey(nonce, window, task) == (task.id * (nonce + window) + nonce) % 5
OrderKey(nonce, task) == (task.id * nonce + 2) % 5
Ranked(tasks, nonce, window) ==
  SetToSortSeq(tasks,
    LAMBDA s, t : \/ DrawKey(nonce, window, s) < DrawKey(nonce, window, t)
                  \/ DrawKey(nonce, window, s) = DrawKey(nonce, window, t) /\ s.id < t.id)
TaskOrder(tasks, nonce) ==
  SetToSortSeq(tasks,
    LAMBDA s, t : OrderKey(nonce, s) < OrderKey(nonce, t) \/ (OrderKey(nonce, s) = OrderKey(nonce, t) /\ s.id < t.id))

NameOrder == [x |-> 1, y |-> 2, z |-> 3]
Stratum(tasks, benchmark) == {task \in tasks : task.benchmark = benchmark}
Draw(tasks, nonce, window, perBenchmark, minimum) ==
  LET wide == {b \in Benchmarks(tasks) : Cardinality(Stratum(tasks, b)) >= minimum}
      picks(b) == LET ranked == Ranked(Stratum(tasks, b), nonce, window)
                  IN  ToSet(SubSeq(ranked, 1, IF Len(ranked) < perBenchmark THEN Len(ranked) ELSE perBenchmark))
      picked == UNION {picks(b) : b \in wide}
  IN  IF perBenchmark < minimum \/ picked = {} THEN NONE
      ELSE [tasks |-> TaskOrder(picked, nonce),
            narrowed |-> {<<b, Cardinality(Stratum(tasks, b))>> : b \in Benchmarks(tasks) \ wide}]

\* Every benchmark that can supply its minimum is in the slice, in equal numbers as far as it goes;
\* the others are named; and no benchmark's draw depends on which others are there.
SlicesAreStratified ==
  \A benchmarkOf \in [1..4 -> {"x", "y", "z"}] : \A nonce \in 1..2, window \in 1..2, per \in 1..2, minimum \in 1..2 :
    LET tasks == {[id |-> n, benchmark |-> benchmarkOf[n], text |-> "v1"] : n \in 1..4}
        slice == Draw(tasks, nonce, window, per, minimum)
    IN  slice # NONE =>
          \A b \in Benchmarks(tasks) :
            LET available == Cardinality(Stratum(tasks, b))
                alone == Draw(Stratum(tasks, b), nonce, window, per, minimum)
            IN  IF available < minimum THEN <<b, available>> \in slice.narrowed
                ELSE /\ Cardinality(Stratum(ToSet(slice.tasks), b)) = Min({available, per})
                     /\ Stratum(ToSet(slice.tasks), b) = ToSet(alone.tasks)
ASSUME SlicesAreStratifiedChecked == SlicesAreStratified

\* The reference arms' share of the slice: round by round, one task of each benchmark that has one.
Subsample(tasks, nonce, size) ==
  LET order(b) == TaskOrder(Stratum(tasks, b), nonce)
      depth(task) == CHOOSE k \in 1..Cardinality(tasks) :
                       k \in DOMAIN order(task.benchmark) /\ order(task.benchmark)[k] = task
      before(s, t) == \/ depth(s) < depth(t)
                      \/ depth(s) = depth(t) /\ NameOrder[s.benchmark] < NameOrder[t.benchmark]
      rounds == SetToSortSeq(tasks, before)
  IN  TaskOrder({rounds[k] : k \in {k \in DOMAIN rounds : k <= size}}, nonce)

\* No benchmark is left out while another is drawn twice, and what the gate measures is a part of
\* the slice the duel runs.
SubsampleIsEven ==
  \A benchmarkOf \in [1..4 -> {"x", "y", "z"}], nonce \in 1..2, size \in 1..5 :
    LET tasks == {[id |-> n, benchmark |-> benchmarkOf[n], text |-> "v1"] : n \in 1..4}
        picked == ToSet(Subsample(tasks, nonce, size))
    IN  /\ Cardinality(picked) = Min({size, 4})
        /\ \A b, c \in Benchmarks(tasks) :
             Cardinality(Stratum(picked, c)) > Cardinality(Stratum(picked, b)) + 1 =>
               Stratum(tasks, b) \subseteq picked
ASSUME SubsampleIsEvenChecked == SubsampleIsEven

-----------------------------------------------------------------------------
(* The launch arithmetic of the cadence. *)

CheckWeightCadence(windowBlocks, rateLimit) == windowBlocks > rateLimit
WindowsToDrain(depth, duels) == (depth + duels - 1) \div duels
CheckLaunch(windowBlocks, immunity, rateLimit, refresh, depth, duels) ==
  /\ CheckWeightCadence(windowBlocks, rateLimit)
  /\ refresh > rateLimit
  /\ immunity >= (WindowsToDrain(depth, duels) + 1) * windowBlocks
\* The subnet may be more generous than what the owner declared, never less.
CheckChainLaunch(subnet, config, refresh, depth, duels) ==
  /\ subnet.immunity >= config.immunity
  /\ CheckLaunch(config.windowBlocks, subnet.immunity, subnet.rateLimit, refresh, depth, duels)

\* Whoever commits while at most depth hotkeys wait is still immune when the window that judges it
\* opens, and all through that window.
QueueFitsImmunity ==
  \A windowBlocks \in 1..3, depth \in 1..4, duels \in 1..3, immunity \in 0..18, rateLimit \in 0..3 :
    CheckLaunch(windowBlocks, immunity, rateLimit, 4, depth, duels) =>
      \A place \in 1..depth, arrival \in 1..windowBlocks :
        (WindowsToDrain(place, duels) * windowBlocks - arrival) + windowBlocks <= immunity
ASSUME QueueFitsImmunityChecked == QueueFitsImmunity
=============================================================================
