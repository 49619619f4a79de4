--------------------------- MODULE DuelArmProofs ---------------------------
(***************************************************************************)
(* Theorems about DuelArm for every slice, allowance, batch width and king, *)
(* and every number of crashes and dead graders.                           *)
(***************************************************************************)
EXTENDS DuelArm, Sums

(***************************************************************************)
(* The inductive invariant.                                                *)
(***************************************************************************)

Attempting == {"filling", "running", "abandoning", "done", "judged"}

\* The part of the types the argument needs; no sums.
ArmTypes ==
  /\ lines \in Seq(Row \cup {JUNK})
  /\ torn \in BOOLEAN /\ (torn => Len(lines) > 0)
  /\ resumed \in [Tasks -> Row \cup {NONE}]
  /\ placed \in [Tasks -> Row \cup {NONE}]
  /\ \A t \in Tasks : resumed[t] # NONE => resumed[t].task = t
  /\ \A t \in Tasks : placed[t] # NONE => placed[t].task = t
  /\ index \in 1..NTasks + 1
  /\ batch \subseteq Tasks /\ open \subseteq batch
  /\ pc \in {"start", "down", "wedged"} \cup Attempting

\* Every task the arm has passed and an earlier attempt had a row for holds
\* that row; what the batch buys, no earlier attempt had.
Kept ==
  /\ \A t \in batch : resumed[t] = NONE /\ t < index
  /\ \A t \in Tasks : t < index /\ resumed[t] # NONE => placed[t] = resumed[t]
  /\ pc \in {"done", "judged"} => index = NTasks + 1

\* The tasks of which a placeholder is among the rows, in memory or on disk.
DeadTasks == {t \in Tasks :
  \/ \E i \in 1..Len(lines) : lines[i] # JUNK /\ lines[i].task = t /\ lines[i].dead
  \/ resumed[t] # NONE /\ resumed[t].dead
  \/ placed[t] # NONE /\ placed[t].dead}

\* The guard knows them while the process lives; what it has failed and they are
\* in the exclusion record, unless that record will be refused.
Durable ==
  /\ exclusionsTail # "damaged" => failed \cup DeadTasks \subseteq excludedFile
  /\ pc \notin {"down", "wedged"} => DeadTasks \subseteq failed

\* The tasks on record, the set the arm was judged with, and the king's rows.
RecordTypes ==
  /\ failed \subseteq Tasks /\ excludedFile \subseteq Tasks
  /\ judgedWith \in (SUBSET Tasks) \cup {NONE}
  /\ king \in [Tasks -> {0, 1, NONE}]

\* What this attempt will hold of a task if nothing more is bought: the row placed,
\* or the one read back.
InHand == [t \in Tasks |-> IF placed[t] # NONE THEN placed[t] ELSE resumed[t]]

\* What the file held of each task before its n-th line.
Before(n) == [t \in Tasks |->
  LET at == {k \in 1..n - 1 : lines[k].task = t}
  IN  IF at = {} THEN NONE ELSE lines[CHOOSE k \in at : TRUE]]

\* What a row could still be worth (a futile tail, full marks for nothing), and rows.
Potential(row) == IF row # NONE /\ row.why = "futile" THEN Worth ELSE Value(row)
Ceiling(f, kept) == SumFunctionOnSet([t \in Tasks |-> Potential(f[t])], kept)

\* The rows are where the index and the batch say.
Placing ==
  /\ \A t \in Tasks : t >= index \/ t \in open \/ (pc = "filling" /\ t \in batch) => placed[t] = NONE
  /\ pc \in Attempting => \A t \in Tasks : t < index /\ t \notin batch => placed[t] # NONE
  /\ pc = "running" => batch # {} /\ \A t \in batch \ open : placed[t] # NONE
  /\ pc # "running" => open = {}
  /\ pc \in {"abandoning", "done", "judged"} => batch = {}

\* A row that says its task was excluded is of a task the guard knows, and in no file.
Excluding ==
  /\ pc \in Attempting => \A t \in Tasks :
       InHand[t] # NONE /\ InHand[t].why = "excluded" => t \in failed
  /\ \A i \in 1..Len(lines) : lines[i] # JUNK => lines[i].why # "excluded"

\* No task has two readable rows, what is readable is in hand, and a file without a
\* damaged line has every row that is in hand.
Ledger ==
  /\ \A i, j \in ReadableLines : lines[i].task = lines[j].task => i = j
  /\ pc \in Attempting => \A i \in ReadableLines : InHand[lines[i].task] = lines[i]
  /\ pc \in Attempting /\ (\A i \in 1..Len(lines) : lines[i] # JUNK) =>
       \A t \in Tasks : InHand[t] # NONE /\ InHand[t].why # "excluded" =>
         \E i \in 1..Len(lines) : lines[i] = InHand[t]

\* What remains is the snapshot less what is known to be spent outside the batch.
Money ==
  /\ remaining \in Int
  /\ pc \in {"filling", "running", "abandoning"} =>
       remaining = Budget - SumFunctionOnSet(Known, Tasks \ batch)
  /\ batch # {} => remaining > 0

\* What the first abandonment compared, and rows that cannot clear the bar there.
KeptThen == Tasks \ (judgedWith \cup KingClocked)
Lost(f) == Ceiling(f, KeptThen) <= Bar(KeptThen)

\* No exclusion has followed the first abandonment: in memory while the process
\* lives, in the record while it does not.
Fixed ==
  /\ judgedWith # NONE
  /\ IF pc = "down" THEN exclusionsTail # "damaged" /\ excludedFile = judgedWith
     ELSE pc # "wedged" /\ failed = judgedWith

FutileInHand == \E t \in Tasks : InHand[t] # NONE /\ InHand[t].why = "futile"

\* What the arm was judged with is not forgotten.
Recorded ==
  judgedWith # NONE =>
    /\ pc \notin {"down", "wedged"} => judgedWith \subseteq failed
    /\ pc = "down" /\ exclusionsTail # "damaged" => judgedWith \subseteq excludedFile

\* An arm that was never abandoned has no futile row anywhere.
Unjudged ==
  judgedWith = NONE =>
    /\ pc # "abandoning" /\ (pc \in Attempting => ~FutileInHand)
    /\ \A i \in 1..Len(lines) : lines[i] # JUNK => lines[i].why # "futile"

\* While no exclusion follows: what the file held before a futile row could not win,
\* nor can what is in hand once the arm is abandoned or a futile row was read back.
FileLost == Fixed => \A i \in ReadableLines : lines[i].why = "futile" => Lost(Before(i))
HandLost == Fixed /\ pc \in Attempting /\ (pc = "abandoning" \/ FutileInHand) => Lost(InHand)
Futility == Recorded /\ Unjudged /\ FileLost /\ HandLost

\* The inductive invariant: what the rows are and where, what is on record, what was
\* spent, and what cannot be won any more.
ArmInv ==
  /\ ArmTypes /\ Kept /\ Durable
  /\ RecordTypes /\ Placing /\ Excluding /\ Ledger /\ Money /\ Futility

(***************************************************************************)
(* The checkpoint.                                                         *)
(***************************************************************************)

\* A non-empty set of line numbers has a last one (Checkpoint.resume's dict keeps
\* the last row of a task).
LEMMA LastLine ==
  ASSUME NEW n \in Nat, NEW S, S \subseteq 1..n, S # {}
  PROVE  Max(S) \in S
<1> DEFINE T == {k \in Nat : \E i \in S : k = n - i}
<1>1. T # {} /\ T \subseteq Nat
  <2>1. PICK i \in S : TRUE  OBVIOUS
  <2>2. n - i \in Nat  BY <2>1
  <2> QED  BY <2>1, <2>2
<1>2. PICK k \in T : \A m \in T : ~(<<m, k>> \in OpToRel(<, Nat))
  BY <1>1, NatLessThanWellFounded, WFMin
<1>3. PICK i \in S : k = n - i  BY <1>2
<1>4. ASSUME NEW j \in S  PROVE i >= j
  <2>1. n - j \in T  OBVIOUS
  <2>2. ~(n - j < k)  BY <1>2, <2>1, <1>1 DEF OpToRel
  <2> QED  BY <2>2, <1>3
<1>5. \E x \in S : \A y \in S : x >= y  BY <1>3, <1>4
<1> QED  BY <1>5 DEF Max

\* What resume returns for a task is a row of the file, and is that task's.
LEMMA ResumedRow ==
  ASSUME lines \in Seq(Row \cup {JUNK}), NEW t \in Tasks, Resumed[t] # NONE
  PROVE  \E i \in 1..Len(lines) : /\ i \in ReadableLines /\ lines[i] \in Row /\ lines[i] # JUNK
                                  /\ lines[i].task = t /\ lines[i] = Resumed[t]
<1> DEFINE at == {i \in ReadableLines : lines[i].task = t}
<1>1. Resumed[t] = IF at = {} THEN NONE ELSE lines[Max(at)]  BY Zenon DEF Resumed
<1>2. at # {}  BY <1>1
<1>3. at \subseteq 1..Len(lines) /\ Len(lines) \in Nat  BY DEF ReadableLines
<1>4. Max(at) \in at  BY <1>2, <1>3, LastLine, Zenon
<1>5. PICK i \in at : i = Max(at)  BY <1>4
<1>6. Resumed[t] = lines[i]  BY <1>1, <1>2, <1>5
<1>7. i \in ReadableLines /\ i \in 1..Len(lines) /\ lines[i].task = t /\ lines[i] # JUNK
  BY <1>3 DEF ReadableLines
<1>8. lines[i] \in Row  BY <1>7
<1> QED  BY <1>6, <1>7, <1>8

\* resume: what it returns is typed.
LEMMA ResumedType ==
  ASSUME lines \in Seq(Row \cup {JUNK})
  PROVE  /\ Resumed \in [Tasks -> Row \cup {NONE}]
         /\ \A t \in Tasks : Resumed[t] # NONE => Resumed[t].task = t
<1>1. \A t \in Tasks : Resumed[t] \in Row \cup {NONE}  BY ResumedRow
<1>2. Resumed = [t \in Tasks |-> Resumed[t]]  BY Zenon DEF Resumed
<1> QED  BY <1>1, <1>2, ResumedRow

\* append: every row of the file afterwards was there before or is the new one.
LEMMA AppendedRows ==
  ASSUME lines \in Seq(Row \cup {JUNK}), torn => Len(lines) > 0, NEW row \in Row \cup {JUNK}
  PROVE  /\ Appended(row) \in Seq(Row \cup {JUNK})
         /\ \A i \in 1..Len(Appended(row)) : Appended(row)[i] # JUNK =>
              \/ Appended(row)[i] = row
              \/ \E j \in 1..Len(lines) : Appended(row)[i] = lines[j]
<1>1. CASE torn  BY <1>1 DEF Appended
<1>2. CASE ~torn  BY <1>2 DEF Appended
<1> QED  BY <1>1, <1>2

(***************************************************************************)
(* Rows.                                                                   *)
(***************************************************************************)

\* NONE and JUNK are no rows; a row that says why a task was not reached is one,
\* and no placeholder.
LEMMA UnreachedRow ==
  /\ NONE \notin Row /\ JUNK \notin Row
  /\ \A t \in Tasks, why \in Reasons :
       /\ Unreached(t, why) \in Row
       /\ Unreached(t, why).task = t
       /\ ~Unreached(t, why).dead
<1>1. NONE \notin Row /\ JUNK \notin Row /\ MaxSpend \in Nat  BY ArmAssumption
<1> QED  BY <1>1 DEF Unreached, Row

\* The row of an episode is a row, and a placeholder only of a failed task.
LEMMA RanRow ==
  ASSUME NEW t \in Tasks, NEW q \in {0, 1}, NEW s \in 0..MaxSpend
  PROVE  /\ Ran(t, q, s) \in Row
         /\ Ran(t, q, s).task = t
         /\ Ran(t, q, s).dead => t \in failed
<1> DEFINE d == t \in failed
<1>1. d \in BOOLEAN  OBVIOUS
<1>2. Ran(t, q, s) = [task |-> t, why |-> "run", q |-> q, spend |-> s, dead |-> d]
  BY Zenon DEF Ran
<1> HIDE DEF d
<1>3. Ran(t, q, s) \in Row /\ Ran(t, q, s).task = t /\ Ran(t, q, s).dead = d
  BY <1>1, <1>2 DEF Row, Reasons
<1> QED  BY <1>3 DEF d

\* What an append may be writing when the process dies is a row, and a
\* placeholder only of a task the guard has failed.
LEMMA InFlightRows ==
  ASSUME ArmTypes
  PROVE  \A r \in InFlight : r \in Row /\ (r.dead => r.task \in failed)
<1> SUFFICES ASSUME NEW r \in InFlight PROVE r \in Row /\ (r.dead => r.task \in failed)
  OBVIOUS
<1>1. \/ \E t \in open, q \in {0, 1}, s \in 0..MaxSpend : r = Ran(t, q, s)
      \/ \E why \in Reasons : index <= NTasks /\ r = Unreached(index, why)
  BY DEF InFlight
<1>2. open \subseteq Tasks  BY DEF ArmTypes
<1>3. index <= NTasks => index \in Tasks  BY ArmAssumption DEF ArmTypes, Tasks
<1> QED  BY <1>1, <1>2, <1>3, RanRow, UnreachedRow

(***************************************************************************)
(* Every action preserves the invariant.                                   *)
(***************************************************************************)

\* A task number is a position of the slice, and an index is one, or one past the last.
LEMMA TasksIndex ==
  /\ NTasks \in Nat \ {0}
  /\ \A i \in 1..NTasks + 1 : i <= NTasks <=> i \in Tasks
  /\ \A i \in Tasks : i + 1 \in 1..NTasks + 1
BY ArmAssumption DEF Tasks

\* An arm without rows has no row anywhere.
LEMMA NoRowsRow == NoRows \in [Tasks -> Row \cup {NONE}] /\ \A t \in Tasks : NoRows[t] = NONE
BY DEF NoRows

\* The first state is well-typed.
LEMMA TypesInit == Init => ArmTypes
<1> SUFFICES ASSUME Init PROVE ArmTypes  OBVIOUS
<1>1. lines \in Seq(Row \cup {JUNK}) /\ torn = FALSE /\ batch = {} /\ open = {} /\ pc = "start"
  BY DEF Init
<1>2. resumed = NoRows /\ placed = NoRows /\ index = 1  BY DEF Init
<1>3. /\ resumed \in [Tasks -> Row \cup {NONE}] /\ placed \in [Tasks -> Row \cup {NONE}]
      /\ \A t \in Tasks : resumed[t] = NONE /\ placed[t] = NONE
  BY <1>2, NoRowsRow
<1>4. index \in 1..NTasks + 1  BY <1>2, TasksIndex
<1> QED  BY <1>1, <1>3, <1>4 DEF ArmTypes, Attempting

\* A row lands in the file.
LEMMA AppendTypes ==
  ASSUME ArmTypes, NEW row \in Row \cup {JUNK}, AppendRow(row)
  PROVE  lines' \in Seq(Row \cup {JUNK}) /\ torn' = FALSE
BY AppendedRows DEF ArmTypes, AppendRow

\* A row is placed.
LEMMA PlaceTypes ==
  ASSUME ArmTypes, NEW t \in Tasks, NEW row \in Row, row.task = t, placed' = [placed EXCEPT ![t] = row]
  PROVE  /\ placed' \in [Tasks -> Row \cup {NONE}]
         /\ \A u \in Tasks : placed'[u] # NONE => placed'[u].task = u
         /\ \A u \in Tasks : placed'[u] = IF u = t THEN row ELSE placed[u]
BY DEF ArmTypes

\* Every step of the arm keeps the types.
LEMMA TypesStep == ArmTypes /\ [Next]_vars => ArmTypes'
<1> SUFFICES ASSUME ArmTypes, [Next]_vars PROVE ArmTypes'  OBVIOUS
<1> USE TasksIndex
<1>1. CASE Open
  <2>1. resumed' = Resumed /\ placed' = NoRows /\ index' = 1 /\ batch' = {} /\ open' = {}
        /\ pc' = "filling" /\ UNCHANGED <<lines, torn>>
    BY <1>1 DEF Open
  <2> QED  BY <2>1, ResumedType, NoRowsRow DEF ArmTypes, Attempting
<1>2. CASE OpenRaises
  BY <1>2 DEF OpenRaises, ArmTypes, Attempting, disk
<1>3. CASE Skip
  <2>1. index \in Tasks  BY <1>3 DEF Skip, Filling, ArmTypes
  <2>2. PICK row \in Row : row.task = index /\ placed' = [placed EXCEPT ![index] = row]
    BY <1>3, <2>1, UnreachedRow DEF Skip, ArmTypes, Reasons
  <2>3. /\ placed' \in [Tasks -> Row \cup {NONE}]
        /\ \A u \in Tasks : placed'[u] # NONE => placed'[u].task = u
    BY <2>1, <2>2, PlaceTypes
  <2> QED  BY <1>3, <2>1, <2>3 DEF Skip, ArmTypes, disk
<1>4. CASE Unreach
  <2>1. index \in Tasks  BY <1>4 DEF Unreach, Filling, ArmTypes
  <2>2. PICK row \in Row : row.task = index /\ placed' = [placed EXCEPT ![index] = row]
                           /\ AppendRow(row)
    BY <1>4, <2>1, UnreachedRow DEF Unreach, Reasons
  <2>3. /\ placed' \in [Tasks -> Row \cup {NONE}]
        /\ \A u \in Tasks : placed'[u] # NONE => placed'[u].task = u
    BY <2>1, <2>2, PlaceTypes
  <2> QED  BY <1>4, <2>1, <2>2, <2>3, AppendTypes DEF Unreach, ArmTypes
<1>5. CASE Enlist
  <2>1. index \in Tasks  BY <1>5 DEF Enlist, Filling, ArmTypes
  <2> QED  BY <1>5, <2>1 DEF Enlist, ArmTypes, disk
<1>6. CASE Dispatch
  BY <1>6 DEF Dispatch, ArmTypes, Attempting, disk
<1>7. ASSUME NEW t \in Tasks, GraderDies(t) \/ OtherArmsGraderDies(t)  PROVE ArmTypes'
  BY <1>7 DEF GraderDies, OtherArmsGraderDies, ArmTypes
<1>8. ASSUME NEW t \in Tasks, NEW q \in {0, 1}, NEW s \in 0..MaxSpend, Finish(t, q, s)  PROVE ArmTypes'
  <2>1. Ran(t, q, s) \in Row /\ Ran(t, q, s).task = t  BY RanRow
  <2>2. /\ placed' \in [Tasks -> Row \cup {NONE}]
        /\ \A u \in Tasks : placed'[u] # NONE => placed'[u].task = u
    BY <1>8, <2>1, PlaceTypes DEF Finish
  <2>3. lines' \in Seq(Row \cup {JUNK}) /\ torn' = FALSE  BY <1>8, <2>1, AppendTypes DEF Finish
  <2> QED  BY <1>8, <2>2, <2>3 DEF Finish, ArmTypes
<1>9. CASE Account
  <2>1. batch' = {} /\ open = {} /\ pc' \in Attempting /\ UNCHANGED <<lines, torn, resumed, placed, index, open>>
    BY <1>9 DEF Account, Attempting, disk
  <2> QED  BY <2>1 DEF ArmTypes
<1>10. CASE Abandon
  <2>1. CASE index > NTasks  BY <1>10, <2>1 DEF Abandon, ArmTypes, Attempting
  <2>2. CASE ~(index > NTasks)
    <3>1. index \in Tasks  BY <2>2 DEF ArmTypes
    <3>2. PICK row \in Row : /\ row.task = index /\ placed' = [placed EXCEPT ![index] = row]
                             /\ UNCHANGED <<lines, torn>> \/ AppendRow(row)
      BY <1>10, <2>2, <3>1, UnreachedRow DEF Abandon, ArmTypes, Reasons
    <3>3. /\ placed' \in [Tasks -> Row \cup {NONE}]
          /\ \A u \in Tasks : placed'[u] # NONE => placed'[u].task = u
      BY <3>1, <3>2, PlaceTypes
    <3>4. lines' \in Seq(Row \cup {JUNK}) /\ torn' \in BOOLEAN /\ (torn' => Len(lines') > 0)
      <4>1. CASE UNCHANGED <<lines, torn>>  BY <4>1 DEF ArmTypes
      <4>2. CASE AppendRow(row)  BY <4>2, AppendTypes
      <4> QED  BY <3>2, <4>1, <4>2
    <3> QED  BY <1>10, <2>2, <3>1, <3>3, <3>4 DEF Abandon, ArmTypes
  <2> QED  BY <2>1, <2>2
<1>11. CASE ClockRunsOut \/ Judge
  BY <1>11 DEF ClockRunsOut, Judge, ArmTypes, Attempting, disk
<1>12. CASE Crash
  <2>1. resumed' = NoRows /\ placed' = NoRows /\ index' = 1 /\ batch' = {} /\ open' = {} /\ pc' = "down"
    BY <1>12 DEF Crash
  <2>2. lines' \in Seq(Row \cup {JUNK}) /\ torn' \in BOOLEAN /\ (torn' => Len(lines') > 0)
    <3>1. CASE UNCHANGED <<lines, torn>>  BY <3>1 DEF ArmTypes
    <3>2. CASE ~UNCHANGED <<lines, torn>>
      <4>1. PICK r \in InFlight : lines' \in IF torn THEN {[lines EXCEPT ![Len(lines)] = JUNK]}
                                             ELSE {Append(lines, JUNK), Append(lines, r)}
        BY <1>12, <3>2 DEF Crash, CutRow
      <4>2. r \in Row  BY InFlightRows
      <4>3. torn' = TRUE  BY <1>12, <3>2 DEF Crash, CutRow
      <4>4. CASE torn  BY <4>1, <4>3, <4>4 DEF ArmTypes
      <4>5. CASE ~torn
        <5>1. \E x \in Row \cup {JUNK} : lines' = Append(lines, x)  BY <4>1, <4>2, <4>5
        <5> QED  BY <4>3, <5>1 DEF ArmTypes
      <4> QED  BY <4>4, <4>5
    <3> QED  BY <3>1, <3>2
  <2> QED  BY <2>1, <2>2, NoRowsRow DEF ArmTypes
<1>13. CASE Restart
  BY <1>13 DEF Restart, ArmTypes, Attempting, disk
<1>14. CASE UNCHANGED vars
  BY <1>14 DEF vars, ArmTypes, disk
<1> QED  BY <1>1, <1>2, <1>3, <1>4, <1>5, <1>6, <1>7, <1>8, <1>9, <1>10, <1>11, <1>12, <1>13, <1>14
         DEF Next, Step

\* Every step keeps the rows read back (Checkpoint.resume) and buys none of their tasks again.
LEMMA KeptStep == ArmTypes /\ Kept /\ [Next]_vars => Kept'
<1> SUFFICES ASSUME ArmTypes, Kept, [Next]_vars PROVE Kept'  OBVIOUS
<1> USE TasksIndex
<1>1. CASE Open
  <2>1. index' = 1 /\ batch' = {} /\ pc' = "filling"  BY <1>1 DEF Open
  <2>2. \A t \in Tasks : ~(t < 1)  BY DEF Tasks
  <2> QED  BY <2>1, <2>2 DEF Kept
<1>2. CASE OpenRaises \/ ClockRunsOut \/ Judge \/ Restart \/ UNCHANGED vars
  BY <1>2 DEF OpenRaises, ClockRunsOut, Judge, Restart, vars, Kept
<1>3. CASE Skip
  <2>1. index \in Tasks /\ index' = index + 1 /\ UNCHANGED <<pc, resumed, batch>> /\ pc = "filling"
    BY <1>3 DEF Skip, Filling, ArmTypes
  <2>2. \E row : placed' = [placed EXCEPT ![index] = row] /\ (resumed[index] # NONE => row = resumed[index])
    BY <1>3 DEF Skip
  <2> QED  BY <2>1, <2>2 DEF ArmTypes, Kept, Tasks
<1>4. CASE Unreach
  <2>1. index \in Tasks /\ index' = index + 1 /\ UNCHANGED <<pc, resumed, batch>> /\ pc = "filling"
    BY <1>4 DEF Unreach, Filling, ArmTypes
  <2>2. resumed[index] = NONE /\ \E row : placed' = [placed EXCEPT ![index] = row]
    BY <1>4 DEF Unreach
  <2> QED  BY <2>1, <2>2 DEF ArmTypes, Kept, Tasks
<1>5. CASE Enlist
  <2>1. index \in Tasks /\ index' = index + 1 /\ UNCHANGED <<pc, resumed, placed>> /\ pc = "filling"
    BY <1>5 DEF Enlist, Filling, ArmTypes
  <2>2. resumed[index] = NONE /\ batch' = batch \cup {index}  BY <1>5 DEF Enlist
  <2> QED  BY <2>1, <2>2 DEF ArmTypes, Kept, Tasks
<1>6. CASE Dispatch
  <2>1. UNCHANGED <<resumed, placed, index, batch>> /\ pc' \notin {"judged"} /\ (pc' = "done" => index > NTasks)
    BY <1>6 DEF Dispatch
  <2> QED  BY <2>1 DEF ArmTypes, Kept
<1>7. ASSUME NEW t \in Tasks, GraderDies(t) \/ OtherArmsGraderDies(t)  PROVE Kept'
  BY <1>7 DEF GraderDies, OtherArmsGraderDies, Kept
<1>8. ASSUME NEW t \in Tasks, NEW q \in {0, 1}, NEW s \in 0..MaxSpend, Finish(t, q, s)  PROVE Kept'
  <2>1. t \in batch /\ resumed[t] = NONE  BY <1>8 DEF Finish, ArmTypes, Kept
  <2>2. UNCHANGED <<pc, resumed, index, batch>> /\ pc = "running"
        /\ placed' = [placed EXCEPT ![t] = Ran(t, q, s)]
    BY <1>8 DEF Finish
  <2> QED  BY <2>1, <2>2 DEF ArmTypes, Kept
<1>9. CASE Account
  <2>1. batch' = {} /\ pc' \notin {"done", "judged"} /\ UNCHANGED <<resumed, placed, index>>
    BY <1>9 DEF Account
  <2> QED  BY <2>1 DEF Kept
<1>10. CASE Abandon
  <2>1. CASE index > NTasks  BY <1>10, <2>1 DEF Abandon, Kept
  <2>2. CASE ~(index > NTasks)
    <3>1. index \in Tasks  BY <2>2 DEF ArmTypes
    <3>2. index' = index + 1 /\ UNCHANGED <<pc, resumed, batch>> /\ pc = "abandoning"
      BY <1>10, <2>2, <3>1 DEF Abandon, ArmTypes
    <3>3. \E row : placed' = [placed EXCEPT ![index] = row] /\ (resumed[index] # NONE => row = resumed[index])
      BY <1>10, <2>2, <3>1 DEF Abandon, ArmTypes
    <3> QED  BY <3>1, <3>2, <3>3 DEF ArmTypes, Kept, Tasks
  <2> QED  BY <2>1, <2>2
<1>11. CASE Crash
  <2>1. resumed' = NoRows /\ batch' = {} /\ pc' = "down"  BY <1>11 DEF Crash
  <2> QED  BY <2>1, NoRowsRow DEF Kept
<1> QED  BY <1>1, <1>2, <1>3, <1>4, <1>5, <1>6, <1>7, <1>8, <1>9, <1>10, <1>11 DEF Next, Step

\* A placeholder that appears among the rows is of a task the guard has failed.
LEMMA DeadTasksGrow ==
  ASSUME ArmTypes, Next
  PROVE  DeadTasks' \subseteq DeadTasks \cup failed
<1> USE TasksIndex
<1> DEFINE LinesOK == \A i \in 1..Len(lines') : lines'[i] # JUNK /\ lines'[i].dead =>
                        lines'[i].task \in DeadTasks \cup failed
           ResumedOK == \A t \in Tasks : resumed'[t] # NONE /\ resumed'[t].dead =>
                          t \in DeadTasks \cup failed
           PlacedOK == \A t \in Tasks : placed'[t] # NONE /\ placed'[t].dead =>
                         t \in DeadTasks \cup failed
<1>a. LinesOK /\ ResumedOK /\ PlacedOK => DeadTasks' \subseteq DeadTasks \cup failed
  BY DEF DeadTasks
<1>b. \A i \in 1..Len(lines) : lines[i] # JUNK /\ lines[i].dead => lines[i].task \in DeadTasks
  <2>1. \A i \in 1..Len(lines) : lines[i] # JUNK => lines[i].task \in Tasks  BY DEF ArmTypes, Row
  <2> QED  BY <2>1 DEF DeadTasks
<1>c. UNCHANGED lines => LinesOK  BY <1>b
<1>d. ASSUME NEW row \in Row, row.dead => row.task \in DeadTasks \cup failed, AppendRow(row)
      PROVE LinesOK
  BY <1>b, <1>d, AppendedRows DEF AppendRow, ArmTypes
<1>e. UNCHANGED resumed => ResumedOK  BY DEF DeadTasks
<1>f. UNCHANGED placed => PlacedOK  BY DEF DeadTasks
<1>g. ASSUME NEW t \in Tasks, NEW row \in Row, row.task = t, row.dead => t \in DeadTasks \cup failed,
             placed' = [placed EXCEPT ![t] = row]
      PROVE PlacedOK
  BY <1>g, PlaceTypes, UnreachedRow DEF DeadTasks
<1> HIDE DEF LinesOK, ResumedOK, PlacedOK
<1>1. CASE Open
  <2>1. resumed' = Resumed /\ placed' = NoRows /\ UNCHANGED lines  BY <1>1 DEF Open
  <2>2. ASSUME NEW t \in Tasks, Resumed[t] # NONE, Resumed[t].dead  PROVE t \in DeadTasks
    <3>1. PICK i \in 1..Len(lines) : lines[i] # JUNK /\ lines[i].task = t /\ lines[i] = Resumed[t]
      BY <2>2, ResumedRow DEF ArmTypes
    <3> QED  BY <1>b, <2>2, <3>1
  <2>3. ResumedOK /\ PlacedOK  BY <2>1, <2>2, NoRowsRow DEF ResumedOK, PlacedOK
  <2> QED  BY <1>a, <1>c, <2>1, <2>3
<1>2. CASE OpenRaises \/ ClockRunsOut \/ Judge \/ Restart \/ Enlist \/ Dispatch \/ Account
  <2>1. UNCHANGED <<lines, resumed, placed>>
    BY <1>2 DEF OpenRaises, ClockRunsOut, Judge, Restart, Enlist, Dispatch, Account, disk
  <2> QED  BY <1>a, <1>c, <1>e, <1>f, <2>1
<1>3. CASE Skip
  <2>1. index \in Tasks  BY <1>3 DEF Skip, Filling, ArmTypes
  <2>2. PICK row \in Row : /\ row.task = index /\ placed' = [placed EXCEPT ![index] = row]
                           /\ row.dead => index \in DeadTasks
    BY <1>3, <2>1, UnreachedRow DEF Skip, ArmTypes, Reasons, DeadTasks
  <2>3. PlacedOK  BY <1>g, <2>1, <2>2
  <2>4. UNCHANGED <<lines, resumed>>  BY <1>3 DEF Skip, disk
  <2> QED  BY <1>a, <1>c, <1>e, <2>3, <2>4
<1>4. CASE Unreach
  <2>1. index \in Tasks  BY <1>4 DEF Unreach, Filling, ArmTypes
  <2>2. PICK row \in Row : /\ row.task = index /\ placed' = [placed EXCEPT ![index] = row]
                           /\ ~row.dead /\ AppendRow(row)
    BY <1>4, <2>1, UnreachedRow DEF Unreach, Reasons
  <2>3. PlacedOK  BY <1>g, <2>1, <2>2
  <2>4. LinesOK  BY <1>d, <2>2
  <2>5. UNCHANGED resumed  BY <1>4 DEF Unreach
  <2> QED  BY <1>a, <1>e, <2>3, <2>4, <2>5
<1>5. ASSUME NEW t \in Tasks, GraderDies(t) \/ OtherArmsGraderDies(t)
      PROVE DeadTasks' \subseteq DeadTasks \cup failed
  <2>1. UNCHANGED <<lines, resumed, placed>>  BY <1>5 DEF GraderDies, OtherArmsGraderDies
  <2> QED  BY <1>a, <1>c, <1>e, <1>f, <2>1
<1>6. ASSUME NEW t \in Tasks, NEW q \in {0, 1}, NEW s \in 0..MaxSpend, Finish(t, q, s)
      PROVE DeadTasks' \subseteq DeadTasks \cup failed
  <2>1. Ran(t, q, s) \in Row /\ Ran(t, q, s).task = t /\ (Ran(t, q, s).dead => t \in failed)
    BY RanRow
  <2>2. PlacedOK  BY <1>6, <1>g, <2>1 DEF Finish
  <2>3. LinesOK  BY <1>6, <1>d, <2>1 DEF Finish
  <2>4. UNCHANGED resumed  BY <1>6 DEF Finish
  <2> QED  BY <1>a, <1>e, <2>2, <2>3, <2>4
<1>7. CASE Abandon
  <2>1. CASE index > NTasks
    BY <1>7, <1>a, <1>c, <1>e, <1>f, <2>1 DEF Abandon
  <2>2. CASE ~(index > NTasks)
    <3>1. index \in Tasks  BY <2>2 DEF ArmTypes
    <3>2. PICK row \in Row : /\ row.task = index /\ placed' = [placed EXCEPT ![index] = row]
                             /\ row.dead => index \in DeadTasks
                             /\ UNCHANGED lines \/ AppendRow(row)
      BY <1>7, <2>2, <3>1, UnreachedRow DEF Abandon, ArmTypes, Reasons, DeadTasks
    <3>3. PlacedOK  BY <1>g, <3>1, <3>2
    <3>4. LinesOK  BY <1>c, <1>d, <3>2
    <3>5. UNCHANGED resumed  BY <1>7 DEF Abandon
    <3> QED  BY <1>a, <1>e, <3>3, <3>4, <3>5
  <2> QED  BY <2>1, <2>2
<1>8. CASE Crash
  <2>1. resumed' = NoRows /\ placed' = NoRows  BY <1>8 DEF Crash
  <2>2. ResumedOK /\ PlacedOK  BY <2>1, NoRowsRow DEF ResumedOK, PlacedOK
  <2>3. LinesOK
    <3>1. CASE UNCHANGED <<lines, torn>>  BY <1>c, <3>1
    <3>2. CASE ~UNCHANGED <<lines, torn>>
      <4>1. PICK r \in InFlight : lines' \in IF torn THEN {[lines EXCEPT ![Len(lines)] = JUNK]}
                                             ELSE {Append(lines, JUNK), Append(lines, r)}
        BY <1>8, <3>2 DEF Crash, CutRow
      <4>2. r \in Row /\ (r.dead => r.task \in failed)  BY InFlightRows
      <4>3. \A i \in 1..Len(lines') : lines'[i] # JUNK =>
              lines'[i] = r \/ \E j \in 1..Len(lines) : lines'[i] = lines[j]
        <5>1. CASE torn  BY <4>1, <5>1 DEF ArmTypes
        <5>2. CASE ~torn
          <6>1. PICK x \in {JUNK, r} : lines' = Append(lines, x)  BY <4>1, <5>2
          <6> QED  BY <4>2, <6>1 DEF ArmTypes
        <5> QED  BY <5>1, <5>2
      <4> QED  BY <1>b, <4>2, <4>3 DEF LinesOK
    <3> QED  BY <3>1, <3>2
  <2> QED  BY <1>a, <2>2, <2>3
<1> QED  BY <1>1, <1>2, <1>3, <1>4, <1>5, <1>6, <1>7, <1>8 DEF Next, Step

\* Every step keeps the tasks of the placeholders on record (Checkpoint.exclude).
LEMMA DurableStep == ArmTypes /\ Durable /\ [Next]_vars => Durable'
<1> SUFFICES ASSUME ArmTypes, Durable, [Next]_vars PROVE Durable'  OBVIOUS
<1>1. CASE UNCHANGED vars
  BY <1>1 DEF vars, disk, Durable, DeadTasks
<1>2. CASE Next
  <2>1. DeadTasks' \subseteq DeadTasks \cup failed  BY <1>2, DeadTasksGrow
  <2>2. CASE Open \/ Skip \/ Unreach \/ Enlist \/ Dispatch \/ Account \/ Abandon \/ Judge \/ ClockRunsOut
    <3>1. UNCHANGED <<failed, excludedFile, exclusionsTail>> /\ pc \notin {"down", "wedged"}
      BY <2>2
         DEF Open, Skip, Unreach, Enlist, Dispatch, Account, Abandon, Judge, ClockRunsOut,
             Filling, disk
    <3> QED  BY <2>1, <3>1 DEF Durable
  <2>3. CASE OpenRaises
    BY <2>1, <2>3 DEF OpenRaises, Durable, disk
  <2>4. ASSUME NEW t \in Tasks, NEW q \in {0, 1}, NEW s \in 0..MaxSpend, Finish(t, q, s)
        PROVE Durable'
    BY <2>1, <2>4 DEF Finish, Durable
  <2>5. ASSUME NEW t \in Tasks, GraderDies(t) \/ OtherArmsGraderDies(t)  PROVE Durable'
    <3>1. Exclude(t) /\ pc \notin {"down", "wedged"}  BY <2>5 DEF GraderDies, OtherArmsGraderDies
    <3>2. /\ failed' = failed \cup {t}
          /\ exclusionsTail' # "damaged" =>
               exclusionsTail = "clean" /\ excludedFile' = excludedFile \cup {t}
      BY <3>1 DEF Exclude
    <3> QED  BY <2>1, <3>1, <3>2 DEF Durable
  <2>6. CASE Crash
    <3>1. failed' = {} /\ pc' = "down"  BY <2>6 DEF Crash
    <3>2. exclusionsTail' # "damaged" => exclusionsTail # "damaged" /\ excludedFile \subseteq excludedFile'
      BY <2>6 DEF Crash, CutExclusion
    <3> QED  BY <2>1, <3>1, <3>2 DEF Durable
  <2>7. CASE Restart
    <3>1. DeadTasks' = DeadTasks  BY <2>7 DEF Restart, disk, DeadTasks
    <3> QED  BY <2>7, <3>1 DEF Restart, disk, Durable
  <2> QED  BY <1>2, <2>2, <2>3, <2>4, <2>5, <2>6, <2>7 DEF Next, Step
<1> QED  BY <1>1, <1>2

(***************************************************************************)
(* Where the rows are, and the names on record.                            *)
(***************************************************************************)

\* The names of tasks on record stay typed.
LEMMA RecordStep == ArmTypes /\ RecordTypes /\ [Next]_vars => RecordTypes'
<1> SUFFICES ASSUME ArmTypes, RecordTypes, [Next]_vars PROVE RecordTypes'  OBVIOUS
<1>1. king' = king
  BY DEF Next, Step, vars, Open, OpenRaises, Skip, Unreach, Enlist, Dispatch, Account, Abandon,
     Judge,
         Restart, Finish, ClockRunsOut, Crash, GraderDies, OtherArmsGraderDies
<1>2. judgedWith' \in {judgedWith, failed}
  BY DEF Next, Step, vars, Open, OpenRaises, Skip, Unreach, Enlist, Dispatch, Account, Abandon,
     Judge,
         Restart, Finish, ClockRunsOut, Crash, GraderDies, OtherArmsGraderDies
<1>3. failed' \subseteq Tasks /\ excludedFile' \subseteq Tasks
  <2>1. CASE Open \/ OpenRaises \/ Skip \/ Unreach \/ Enlist \/ Dispatch \/ Account \/ Abandon \/ Judge
             \/ ClockRunsOut \/ UNCHANGED vars
    <3>1. UNCHANGED <<failed, excludedFile>>
      BY <2>1 DEF Open, OpenRaises, Skip, Unreach, Enlist, Dispatch, Account, Abandon, Judge,
                  ClockRunsOut, vars, disk
    <3> QED  BY <3>1 DEF RecordTypes
  <2>2. ASSUME NEW t \in Tasks, NEW q \in {0, 1}, NEW s \in 0..MaxSpend, Finish(t, q, s)
        PROVE failed' \subseteq Tasks /\ excludedFile' \subseteq Tasks
    BY <2>2 DEF Finish, RecordTypes
  <2>3. ASSUME NEW t \in Tasks, GraderDies(t) \/ OtherArmsGraderDies(t)
        PROVE failed' \subseteq Tasks /\ excludedFile' \subseteq Tasks
    <3>1. Exclude(t)  BY <2>3 DEF GraderDies, OtherArmsGraderDies
    <3> QED  BY <3>1 DEF Exclude, RecordTypes
  <2>4. CASE Crash
    <3>1. failed' = {} /\ CutExclusion  BY <2>4 DEF Crash
    <3> QED  BY <3>1 DEF CutExclusion, RecordTypes, ArmTypes
  <2>5. CASE Restart
    BY <2>5 DEF Restart, RecordTypes, disk
  <2> QED  BY <2>1, <2>2, <2>3, <2>4, <2>5 DEF Next, Step
<1> QED  BY <1>1, <1>2, <1>3 DEF RecordTypes

\* Every step keeps the rows where the index and the batch say they are.
LEMMA PlacingStep == ArmTypes /\ Kept /\ Placing /\ [Next]_vars => Placing'
<1> SUFFICES ASSUME ArmTypes, Kept, Placing, [Next]_vars PROVE Placing'  OBVIOUS
<1> USE TasksIndex
<1>1. CASE Open
  <2>1. pc' = "filling" /\ index' = 1 /\ batch' = {} /\ open' = {} /\ placed' = NoRows
    BY <1>1 DEF Open
  <2>2. \A t \in Tasks : ~(t < 1)  BY DEF Tasks
  <2> QED  BY <2>1, <2>2, NoRowsRow DEF Placing, Attempting
<1>2. CASE OpenRaises \/ UNCHANGED vars \/ ClockRunsOut \/ Judge
  BY <1>2 DEF OpenRaises, vars, ClockRunsOut, Judge, Placing, Attempting, Filling
<1>3. CASE Skip
  <2>1. /\ pc = "filling" /\ index \in Tasks /\ index' = index + 1
        /\ UNCHANGED <<pc, batch, open>>
    BY <1>3 DEF Skip, Filling, ArmTypes
  <2>2. \E row \in Row : placed' = [placed EXCEPT ![index] = row]
    BY <1>3, <2>1, UnreachedRow DEF Skip, ArmTypes, Reasons
  <2>3. index \notin batch /\ index \notin open  BY <2>1 DEF Kept, ArmTypes, Tasks
  <2> QED  BY <2>1, <2>2, <2>3, UnreachedRow DEF ArmTypes, Placing, Tasks, Attempting
<1>4. CASE Unreach
  <2>1. /\ pc = "filling" /\ index \in Tasks /\ index' = index + 1
        /\ UNCHANGED <<pc, batch, open>>
    BY <1>4 DEF Unreach, Filling, ArmTypes
  <2>2. \E row \in Row : placed' = [placed EXCEPT ![index] = row]
    BY <1>4, <2>1, UnreachedRow DEF Unreach, Reasons
  <2>3. index \notin batch /\ index \notin open  BY <2>1 DEF Kept, ArmTypes, Tasks
  <2> QED  BY <2>1, <2>2, <2>3, UnreachedRow DEF ArmTypes, Placing, Tasks, Attempting
<1>5. CASE Enlist
  <2>1. /\ pc = "filling" /\ index \in Tasks /\ index' = index + 1 /\ batch' = batch \cup {index}
        /\ UNCHANGED <<pc, placed, open>>
    BY <1>5 DEF Enlist, Filling, ArmTypes
  <2>2. placed[index] = NONE /\ open = {}  BY <2>1 DEF Placing, Tasks
  <2> QED  BY <2>1, <2>2 DEF ArmTypes, Placing, Tasks, Attempting
<1>6. CASE Dispatch
  <2>1. pc = "filling" /\ open' = batch /\ UNCHANGED <<placed, index, batch>>
        /\ pc' = IF batch = {} THEN IF index > NTasks THEN "done" ELSE "filling" ELSE "running"
    BY <1>6 DEF Dispatch
  <2> QED  BY <2>1 DEF ArmTypes, Placing, Attempting
<1>7. ASSUME NEW t \in Tasks, GraderDies(t) \/ OtherArmsGraderDies(t)  PROVE Placing'
  BY <1>7 DEF GraderDies, OtherArmsGraderDies, Placing
<1>8. ASSUME NEW t \in Tasks, NEW q \in {0, 1}, NEW s \in 0..MaxSpend, Finish(t, q, s)  PROVE Placing'
  <2>1. /\ pc = "running" /\ t \in open /\ open' = open \ {t} /\ UNCHANGED <<pc, batch, index>>
        /\ placed' = [placed EXCEPT ![t] = Ran(t, q, s)]
    BY <1>8 DEF Finish
  <2>2. Ran(t, q, s) # NONE  BY RanRow, UnreachedRow
  <2>3. t \in batch /\ t < index  BY <2>1 DEF Kept, ArmTypes
  <2> QED  BY <2>1, <2>2, <2>3 DEF ArmTypes, Placing, Tasks
<1>9. CASE Account
  <2>1. /\ pc = "running" /\ open = {} /\ batch' = {} /\ UNCHANGED <<placed, index, open>>
        /\ pc' \in {"filling", "abandoning"}
    BY <1>9 DEF Account
  <2> QED  BY <2>1 DEF ArmTypes, Placing, Attempting
<1>10. CASE Abandon
  <2>1. CASE index > NTasks
    <3>1. pc = "abandoning" /\ pc' = "filling" /\ UNCHANGED <<placed, index, batch, open>>
      BY <1>10, <2>1 DEF Abandon
    <3> QED  BY <3>1 DEF Placing, Attempting
  <2>2. CASE ~(index > NTasks)
    <3>1. /\ pc = "abandoning" /\ index \in Tasks /\ index' = index + 1
          /\ UNCHANGED <<pc, batch, open>>
      BY <1>10, <2>2 DEF Abandon, ArmTypes
    <3>2. \E row \in Row : placed' = [placed EXCEPT ![index] = row]
      BY <1>10, <2>2, <3>1, UnreachedRow DEF Abandon, ArmTypes, Reasons
    <3>3. batch = {} /\ open = {}  BY <3>1 DEF Placing
    <3> QED  BY <3>1, <3>2, <3>3, UnreachedRow DEF ArmTypes, Placing, Tasks, Attempting
  <2> QED  BY <2>1, <2>2
<1>11. CASE Crash
  <2>1. placed' = NoRows /\ batch' = {} /\ open' = {} /\ pc' = "down"  BY <1>11 DEF Crash
  <2> QED  BY <2>1, NoRowsRow DEF Placing, Attempting
<1>12. CASE Restart
  BY <1>12 DEF Restart, Placing, Attempting
<1> QED
  BY <1>1, <1>2, <1>3, <1>4, <1>5, <1>6, <1>7, <1>8, <1>9, <1>10, <1>11, <1>12 DEF Next, Step

(***************************************************************************)
(* What a step does to the rows in hand and to the file.                   *)
(***************************************************************************)

\* A row lands on a task that had none.
Lands(t, row) ==
  /\ InHand[t] = NONE
  /\ InHand' = [InHand EXCEPT ![t] = row]
  /\ UNCHANGED <<failed, judgedWith, excludedFile, exclusionsTail, resumed, pc>>
  /\ pc \in Attempting
  /\ \/ row.why = "excluded" /\ t \in failed /\ UNCHANGED lines
     \/ row.why # "excluded" /\ AppendRow(row)
  /\ row.why = "futile" => pc = "abandoning"

\* Neither moves, and no attempt begins.
Still ==
  /\ UNCHANGED <<InHand, lines, resumed>>
  /\ pc' \in Attempting => pc \in Attempting /\ failed \subseteq failed'

\* The file after a crash: as it was, or with what an append had written.
Cut(r) ==
  \/ UNCHANGED lines
  \/ lines' \in {Append(lines, JUNK), Append(lines, r)}
  \/ Len(lines) > 0 /\ lines' = [lines EXCEPT ![Len(lines)] = JUNK]

\* Placing a row puts it in hand.
LEMMA PlacedInHand ==
  ASSUME ArmTypes, NEW t \in Tasks, NEW row \in Row, placed' = [placed EXCEPT ![t] = row],
         UNCHANGED resumed
  PROVE  InHand' = [InHand EXCEPT ![t] = row]
<1>1. row # NONE  BY UnreachedRow
<1>2. \A u \in Tasks : placed'[u] = IF u = t THEN row ELSE placed[u]  BY DEF ArmTypes
<1>3. \A u \in Tasks : (IF placed'[u] # NONE THEN placed'[u] ELSE resumed'[u])
                         = IF u = t THEN row ELSE IF placed[u] # NONE THEN placed[u] ELSE resumed[u]
  BY <1>1, <1>2
<1> QED  BY <1>3 DEF InHand

\* A step leaves rows and file alone, lands one row, opens an attempt or is a crash.
LEMMA StepKinds ==
  ASSUME ArmTypes, Kept, Placing, [Next]_vars
  PROVE  \/ Still
         \/ \E t \in Tasks, row \in Row : row.task = t /\ Lands(t, row)
         \/ Open
         \/ Crash
<1> USE TasksIndex
<1>1. CASE OpenRaises \/ UNCHANGED vars \/ ClockRunsOut \/ Judge \/ Enlist \/ Dispatch \/ Account \/ Restart
  BY <1>1
     DEF OpenRaises, vars, ClockRunsOut, Judge, Enlist, Dispatch, Account, Restart, disk, Still,
         InHand,
              Attempting, Filling
<1>2. ASSUME NEW t \in Tasks, GraderDies(t) \/ OtherArmsGraderDies(t)  PROVE Still
  BY <1>2 DEF GraderDies, OtherArmsGraderDies, Still, InHand, Exclude
<1>3. CASE Skip
  <2>1. index \in Tasks /\ pc = "filling" /\ placed[index] = NONE
        /\ UNCHANGED <<pc, lines, resumed, failed, judgedWith, excludedFile, exclusionsTail>>
    BY <1>3 DEF Skip, Filling, ArmTypes, disk, Placing
  <2>2. CASE resumed[index] # NONE
    <3>1. placed' = [placed EXCEPT ![index] = resumed[index]]  BY <1>3, <2>2 DEF Skip
    <3>2. \A u \in Tasks : (IF placed'[u] # NONE THEN placed'[u] ELSE resumed'[u])
                         = IF placed[u] # NONE THEN placed[u] ELSE resumed[u]
      BY <2>1, <2>2, <3>1 DEF ArmTypes
    <3> QED  BY <2>1, <3>2 DEF Still, InHand
  <2>3. CASE resumed[index] = NONE
    <3> DEFINE row == Unreached(index, "excluded")
    <3>1. placed' = [placed EXCEPT ![index] = row] /\ index \in failed  BY <1>3, <2>3 DEF Skip
    <3>2. row \in Row /\ row.task = index  BY <2>1, UnreachedRow DEF Reasons
    <3>3. row.why = "excluded"  BY DEF Unreached
    <3> HIDE DEF row
    <3>4. InHand' = [InHand EXCEPT ![index] = row]  BY <2>1, <3>1, <3>2, PlacedInHand
    <3>5. InHand[index] = NONE  BY <2>1, <2>3 DEF InHand
    <3> QED  BY <2>1, <3>1, <3>2, <3>3, <3>4, <3>5 DEF Lands, Attempting
  <2> QED  BY <2>2, <2>3
<1>4. CASE Unreach
  <2>1. /\ index \in Tasks /\ pc = "filling" /\ placed[index] = NONE /\ resumed[index] = NONE
        /\ UNCHANGED <<pc, resumed, failed, judgedWith, excludedFile, exclusionsTail>>
    BY <1>4 DEF Unreach, Filling, ArmTypes, Placing
  <2>2. PICK why \in {"clock", "exhausted"} :
          /\ placed' = [placed EXCEPT ![index] = Unreached(index, why)]
          /\ AppendRow(Unreached(index, why))
    BY <1>4 DEF Unreach
  <2> DEFINE row == Unreached(index, why)
  <2>3. row \in Row /\ row.task = index  BY <2>1, UnreachedRow DEF Reasons
  <2>4. row.why = why  BY DEF Unreached
  <2> HIDE DEF row
  <2>5. InHand' = [InHand EXCEPT ![index] = row]  BY <2>1, <2>2, <2>3, PlacedInHand DEF row
  <2>6. InHand[index] = NONE  BY <2>1 DEF InHand
  <2>7. AppendRow(row)  BY <2>2 DEF row
  <2> QED  BY <2>1, <2>3, <2>4, <2>5, <2>6, <2>7 DEF Lands, Attempting
<1>5. ASSUME NEW t \in Tasks, NEW q \in {0, 1}, NEW s \in 0..MaxSpend, Finish(t, q, s)
      PROVE  \E u \in Tasks, row \in Row : row.task = u /\ Lands(u, row)
  <2>1. /\ pc = "running" /\ placed[t] = NONE /\ resumed[t] = NONE
        /\ UNCHANGED <<pc, resumed, failed, judgedWith, excludedFile, exclusionsTail>>
        /\ placed' = [placed EXCEPT ![t] = Ran(t, q, s)] /\ AppendRow(Ran(t, q, s))
    BY <1>5 DEF Finish, Placing, Kept, ArmTypes
  <2>2. Ran(t, q, s) \in Row /\ Ran(t, q, s).task = t  BY RanRow
  <2>3. Ran(t, q, s).why = "run"  BY DEF Ran
  <2>4. InHand' = [InHand EXCEPT ![t] = Ran(t, q, s)]  BY <2>1, <2>2, PlacedInHand
  <2>5. InHand[t] = NONE  BY <2>1 DEF InHand
  <2>6. Lands(t, Ran(t, q, s))  BY <2>1, <2>3, <2>4, <2>5 DEF Lands, Attempting
  <2> QED  BY <2>2, <2>6
<1>6. CASE Abandon
  <2>1. CASE index > NTasks
    <3>1. pc = "abandoning" /\ UNCHANGED <<placed, lines, resumed, failed>>
      BY <1>6, <2>1 DEF Abandon
    <3> QED  BY <3>1 DEF Still, InHand, Attempting
  <2>2. CASE ~(index > NTasks)
    <3>1. /\ pc = "abandoning" /\ index \in Tasks /\ placed[index] = NONE
          /\ UNCHANGED <<pc, resumed, failed, judgedWith, excludedFile, exclusionsTail>>
      BY <1>6, <2>2 DEF Abandon, ArmTypes, Placing
    <3>2. CASE resumed[index] # NONE
      <4>1. placed' = [placed EXCEPT ![index] = resumed[index]] /\ UNCHANGED lines
        BY <1>6, <2>2, <3>2 DEF Abandon
      <4>2. \A u \in Tasks : (IF placed'[u] # NONE THEN placed'[u] ELSE resumed'[u])
                           = IF placed[u] # NONE THEN placed[u] ELSE resumed[u]
        BY <3>1, <3>2, <4>1 DEF ArmTypes
      <4> QED  BY <3>1, <4>1, <4>2 DEF Still, InHand
    <3>3. CASE resumed[index] = NONE
      <4> DEFINE row == Unreached(index, "futile")
      <4>1. placed' = [placed EXCEPT ![index] = row] /\ AppendRow(row)
        BY <1>6, <2>2, <3>3 DEF Abandon
      <4>2. row \in Row /\ row.task = index  BY <3>1, UnreachedRow DEF Reasons
      <4>3. row.why = "futile"  BY DEF Unreached
      <4> HIDE DEF row
      <4>4. InHand' = [InHand EXCEPT ![index] = row]  BY <3>1, <4>1, <4>2, PlacedInHand
      <4>5. InHand[index] = NONE  BY <3>1, <3>3 DEF InHand
      <4> QED  BY <3>1, <4>1, <4>2, <4>3, <4>4, <4>5 DEF Lands, Attempting
    <3> QED  BY <3>2, <3>3
  <2> QED  BY <2>1, <2>2
<1> QED  BY <1>1, <1>2, <1>3, <1>4, <1>5, <1>6 DEF Next, Step

\* append leaves the file as a crash might: extended, or its last line no row.
LEMMA AppendCuts ==
  ASSUME ArmTypes, NEW row \in Row, AppendRow(row)
  PROVE  /\ Cut(row)
         /\ lines' = Append(lines, row) \/ \E i \in 1..Len(lines') : lines'[i] = JUNK
<1>1. lines' = Appended(row)  BY DEF AppendRow
<1>2. lines \in Seq(Row \cup {JUNK}) /\ (torn => Len(lines) > 0)  BY DEF ArmTypes
<1>3. CASE torn
  <2>1. Len(lines) > 0 /\ lines' = [lines EXCEPT ![Len(lines)] = JUNK]
    BY <1>1, <1>2, <1>3 DEF Appended
  <2>2. Len(lines') = Len(lines) /\ lines'[Len(lines)] = JUNK  BY <1>2, <2>1
  <2>3. Len(lines) \in 1..Len(lines')  BY <1>2, <2>1, <2>2
  <2>4. Cut(row)  BY <2>1 DEF Cut
  <2> QED  BY <2>2, <2>3, <2>4
<1>4. CASE ~torn  BY <1>1, <1>4 DEF Appended, Cut
<1> QED  BY <1>3, <1>4

\* What a crash leaves in the file, and of which row.
LEMMA CrashCuts ==
  ASSUME ArmTypes, Kept, Placing, Crash
  PROVE  \/ UNCHANGED lines
         \/ \E r \in Row : /\ Cut(r) /\ pc \in Attempting /\ InHand[r.task] = NONE
                           /\ r.why # "excluded" /\ (r.why = "futile" => pc = "abandoning")
<1> SUFFICES ASSUME lines' # lines
             PROVE \E r \in Row : /\ Cut(r) /\ pc \in Attempting /\ InHand[r.task] = NONE
                                  /\ r.why # "excluded" /\ (r.why = "futile" => pc = "abandoning")
  OBVIOUS
<1>1. PICK r \in InFlight : lines' \in IF torn THEN {[lines EXCEPT ![Len(lines)] = JUNK]}
                                       ELSE {Append(lines, JUNK), Append(lines, r)}
  BY DEF Crash, CutRow
<1>2. r \in Row  BY InFlightRows
<1>3. Cut(r)  BY <1>1 DEF Cut, ArmTypes
<1>4. CASE \E t \in open, q \in {0, 1}, s \in 0..MaxSpend : pc = "running" /\ r = Ran(t, q, s)
  <2>1. PICK t \in open, q \in {0, 1}, s \in 0..MaxSpend : pc = "running" /\ r = Ran(t, q, s)
    BY <1>4
  <2>2. t \in Tasks /\ placed[t] = NONE /\ resumed[t] = NONE  BY DEF ArmTypes, Kept, Placing
  <2>3. r.task = t /\ r.why = "run"  BY <2>1 DEF Ran
  <2> QED  BY <1>2, <1>3, <2>1, <2>2, <2>3 DEF InHand, Attempting
<1>5. CASE \E why \in {"futile", "clock", "exhausted"} :
             /\ pc \in Attempting /\ index \in Tasks /\ resumed[index] = NONE
             /\ r = Unreached(index, why) /\ (why = "futile" => pc = "abandoning")
  <2>1. PICK why \in {"futile", "clock", "exhausted"} :
             /\ pc \in Attempting /\ index \in Tasks /\ resumed[index] = NONE
             /\ r = Unreached(index, why) /\ (why = "futile" => pc = "abandoning")
    BY <1>5
  <2>2. placed[index] = NONE  BY <2>1 DEF Placing, Tasks
  <2>3. r.task = index /\ r.why = why  BY <2>1 DEF Unreached
  <2> QED  BY <1>2, <1>3, <2>1, <2>2, <2>3 DEF InHand
<1>6. \/ \E t \in open, q \in {0, 1}, s \in 0..MaxSpend : pc = "running" /\ r = Ran(t, q, s)
      \/ \E why \in {"futile", "clock", "exhausted"} :
             /\ pc \in Attempting /\ index \in Tasks /\ resumed[index] = NONE
             /\ r = Unreached(index, why) /\ (why = "futile" => pc = "abandoning")
  BY TasksIndex DEF InFlight, Filling, Attempting, ArmTypes
<1> QED  BY <1>4, <1>5, <1>6

\* What is readable of a file an append was cut in, or not.
LEMMA CutReads ==
  ASSUME ArmTypes, NEW r \in Row, Cut(r), NEW i \in ReadableLines'
  PROVE  /\ \/ i \in ReadableLines /\ lines'[i] = lines[i]
            \/ /\ i = Len(lines) + 1 /\ lines'[i] = r
               /\ \A k \in 1..Len(lines) : lines[k] # JUNK
         /\ \A k \in 1..i - 1 : k \in 1..Len(lines) /\ lines'[k] = lines[k]
<1>1. lines \in Seq(Row \cup {JUNK})  BY DEF ArmTypes
<1>2. i \in 1..Len(lines') /\ \A j \in 1..i : lines'[j] # JUNK  BY DEF ReadableLines
<1>3. CASE UNCHANGED lines  BY <1>1, <1>2, <1>3 DEF ReadableLines
<1>4. CASE Len(lines) > 0 /\ lines' = [lines EXCEPT ![Len(lines)] = JUNK]
  <2>1. i < Len(lines)  BY <1>1, <1>2, <1>4
  <2>0. \A k \in 1..Len(lines) : k # Len(lines) => lines'[k] = lines[k]  BY <1>1, <1>4
  <2>2. \A k \in 1..i : lines'[k] = lines[k]
    <3>1. Len(lines) \in Nat /\ i \in Nat  BY <1>1, <1>2
    <3>2. \A k \in 1..i : k \in 1..Len(lines) /\ k # Len(lines)  BY <2>1, <3>1
    <3> QED  BY <2>0, <3>2
  <2> QED  BY <1>1, <1>2, <2>1, <2>2 DEF ReadableLines
<1>5. ASSUME NEW x \in {JUNK, r}, lines' = Append(lines, x)
      PROVE  /\ \/ i \in ReadableLines /\ lines'[i] = lines[i]
                \/ /\ i = Len(lines) + 1 /\ lines'[i] = r
                   /\ \A k \in 1..Len(lines) : lines[k] # JUNK
             /\ \A k \in 1..i - 1 : k \in 1..Len(lines) /\ lines'[k] = lines[k]
  <2>1. Len(lines) \in Nat /\ Len(lines') = Len(lines) + 1 /\ lines'[Len(lines) + 1] = x
        /\ \A k \in 1..Len(lines) : lines'[k] = lines[k]
    BY <1>1, <1>5, UnreachedRow
  <2>2. CASE i = Len(lines) + 1  BY <1>2, <2>1, <2>2
  <2>3. CASE i # Len(lines) + 1
    <3>1. i \in 1..Len(lines)  BY <1>2, <2>1, <2>3
    <3> QED  BY <1>2, <2>1, <3>1 DEF ReadableLines
  <2> QED  BY <2>2, <2>3
<1> QED  BY <1>3, <1>4, <1>5 DEF Cut

\* A line of a cut file that is a row is an old one, or the row that was written.
LEMMA CutLines ==
  ASSUME ArmTypes, NEW r \in Row, Cut(r), NEW i \in 1..Len(lines'), lines'[i] # JUNK
  PROVE  lines'[i] = r \/ \E j \in 1..Len(lines) : lines'[i] = lines[j]
<1>1. lines \in Seq(Row \cup {JUNK})  BY DEF ArmTypes
<1>2. CASE UNCHANGED lines  BY <1>2
<1>3. CASE Len(lines) > 0 /\ lines' = [lines EXCEPT ![Len(lines)] = JUNK]  BY <1>1, <1>3
<1>4. ASSUME NEW x \in {JUNK, r}, lines' = Append(lines, x)
      PROVE  lines'[i] = r \/ \E j \in 1..Len(lines) : lines'[i] = lines[j]
  BY <1>1, <1>4, UnreachedRow
<1> QED  BY <1>2, <1>3, <1>4 DEF Cut

\* resume: a readable row is what its task gets back, once no task has two.
LEMMA ResumedReads ==
  ASSUME ArmTypes, \A i, j \in ReadableLines : lines[i].task = lines[j].task => i = j,
         NEW i \in ReadableLines
  PROVE  lines[i] \in Row /\ Resumed[lines[i].task] = lines[i]
<1>1. i \in 1..Len(lines) /\ lines[i] # JUNK /\ lines[i] \in Row  BY DEF ReadableLines, ArmTypes
<1> DEFINE t == lines[i].task
           at == {k \in ReadableLines : lines[k].task = t}
<1>2. t \in Tasks  BY <1>1 DEF Row
<1>3. Resumed[t] = IF at = {} THEN NONE ELSE lines[Max(at)]  BY <1>2, Zenon DEF Resumed
<1>4. at = {i}  OBVIOUS
<1>5. Max(at) \in at
  <2>1. at \subseteq 1..Len(lines) /\ at # {} /\ Len(lines) \in Nat
    BY <1>4 DEF ReadableLines, ArmTypes
  <2> HIDE DEF at
  <2> QED  BY <2>1, LastLine
<1>6. Max(at) = i  BY <1>4, <1>5
<1> QED  BY <1>1, <1>3, <1>4, <1>6

(***************************************************************************)
(* The exclusions and the file.                                            *)
(***************************************************************************)

\* _arm opens with what the file says in hand.
LEMMA OpensInHand ==
  ASSUME ArmTypes, Open
  PROVE  /\ pc = "start" /\ pc' = "filling" /\ InHand' = Resumed
         /\ UNCHANGED <<lines, failed, judgedWith, excludedFile, exclusionsTail>>
<1>1. resumed' = Resumed /\ placed' = NoRows /\ pc = "start" /\ pc' = "filling"
      /\ UNCHANGED <<lines, failed, judgedWith, excludedFile, exclusionsTail>>
  BY DEF Open
<1>2. Resumed = [t \in Tasks |-> Resumed[t]]  BY Zenon DEF Resumed
<1> QED  BY <1>1, <1>2, NoRowsRow DEF InHand

\* What is in hand of a task is a row of it, or none.
LEMMA InHandType ==
  ASSUME ArmTypes
  PROVE  /\ InHand \in [Tasks -> Row \cup {NONE}]
         /\ \A t \in Tasks : InHand[t] # NONE => InHand[t].task = t
BY DEF InHand, ArmTypes

\* Every step keeps the excluded rows in memory and known to the guard.
LEMMA ExcludingStep ==
  ArmTypes /\ Kept /\ Placing /\ Excluding /\ [Next]_vars => Excluding'
<1> SUFFICES ASSUME ArmTypes, Kept, Placing, Excluding, [Next]_vars PROVE Excluding'
  OBVIOUS
<1>1. CASE Still  BY <1>1 DEF Still, Excluding
<1>2. ASSUME NEW t \in Tasks, NEW row \in Row, row.task = t, Lands(t, row)  PROVE Excluding'
  <2>1. \A u \in Tasks : InHand'[u] = IF u = t THEN row ELSE InHand[u]
    BY <1>2, InHandType DEF Lands
  <2>2. pc' \in Attempting => \A u \in Tasks :
           InHand'[u] # NONE /\ InHand'[u].why = "excluded" => u \in failed'
    BY <1>2, <2>1 DEF Lands, Excluding
  <2>3. CASE UNCHANGED lines  BY <2>2, <2>3 DEF Excluding
  <2>4. CASE row.why # "excluded" /\ AppendRow(row)
    <3>1. Cut(row)  BY <2>4, AppendCuts
    <3>2. \A i \in 1..Len(lines') : lines'[i] # JUNK => lines'[i].why # "excluded"
      <4> SUFFICES ASSUME NEW i \in 1..Len(lines'), lines'[i] # JUNK
                   PROVE lines'[i].why # "excluded"
        OBVIOUS
      <4>1. lines'[i] = row \/ \E j \in 1..Len(lines) : lines'[i] = lines[j]  BY <3>1, CutLines
      <4> QED  BY <2>4, <4>1 DEF Excluding
    <3> QED  BY <2>2, <3>2 DEF Excluding
  <2> QED  BY <1>2, <2>3, <2>4 DEF Lands
<1>3. CASE Open
  <2>1. InHand' = Resumed /\ UNCHANGED lines  BY <1>3, OpensInHand
  <2>2. \A t \in Tasks : Resumed[t] # NONE => Resumed[t].why # "excluded"
    BY ResumedRow DEF ArmTypes, Excluding
  <2> QED  BY <2>1, <2>2 DEF Excluding
<1>4. CASE Crash
  <2>1. pc' = "down"  BY <1>4 DEF Crash
  <2>2. CASE UNCHANGED lines  BY <2>1, <2>2 DEF Excluding, Attempting
  <2>3. ASSUME NEW r \in Row, Cut(r), r.why # "excluded" PROVE Excluding'
    <3>1. \A i \in 1..Len(lines') : lines'[i] # JUNK => lines'[i].why # "excluded"
      <4> SUFFICES ASSUME NEW i \in 1..Len(lines'), lines'[i] # JUNK
                   PROVE lines'[i].why # "excluded"
        OBVIOUS
      <4>1. lines'[i] = r \/ \E j \in 1..Len(lines) : lines'[i] = lines[j]  BY <2>3, CutLines
      <4> QED  BY <2>3, <4>1 DEF Excluding
    <3> QED  BY <2>1, <3>1 DEF Excluding, Attempting
  <2> QED  BY <1>4, <2>2, <2>3, CrashCuts
<1> QED  BY <1>1, <1>2, <1>3, <1>4, StepKinds

\* Every step keeps the file and the rows in hand in step.
LEMMA LedgerStep ==
  ArmTypes /\ Kept /\ Placing /\ Excluding /\ Ledger /\ [Next]_vars => Ledger'
<1> SUFFICES ASSUME ArmTypes, Kept, Placing, Excluding, Ledger, [Next]_vars PROVE Ledger'
  OBVIOUS
<1>1. CASE Still
  <2>1. UNCHANGED <<InHand, lines>> /\ (pc' \in Attempting => pc \in Attempting)  BY <1>1 DEF Still
  <2>2. ReadableLines' = ReadableLines  BY <2>1 DEF ReadableLines
  <2> QED  BY <2>1, <2>2 DEF Ledger
<1>a. ASSUME NEW r \in Row, Cut(r), \A i \in ReadableLines : lines[i].task # r.task
      PROVE  \A i, j \in ReadableLines' : lines'[i].task = lines'[j].task => i = j
  BY <1>a, CutReads DEF Ledger
<1>2. ASSUME NEW t \in Tasks, NEW row \in Row, row.task = t, Lands(t, row)  PROVE Ledger'
  <2>1. \A u \in Tasks : InHand'[u] = IF u = t THEN row ELSE InHand[u]
    BY <1>2, InHandType DEF Lands
  <2>2. pc \in Attempting /\ pc' = pc /\ InHand[t] = NONE  BY <1>2 DEF Lands
  <2>3. \A i \in ReadableLines : lines[i] \in Row /\ lines[i] = InHand[lines[i].task] /\ lines[i].task # t
    <3>1. \A i \in ReadableLines : lines[i] \in Row  BY DEF ReadableLines, ArmTypes
    <3> QED  BY <2>2, <3>1, UnreachedRow DEF Ledger
  <2>4. CASE row.why = "excluded" /\ UNCHANGED lines
    <3>1. ReadableLines' = ReadableLines  BY <2>4 DEF ReadableLines
    <3>2. \A i \in ReadableLines' : InHand'[lines'[i].task] = lines'[i]
      <4> SUFFICES ASSUME NEW i \in ReadableLines PROVE InHand'[lines[i].task] = lines[i]
        BY <2>4, <3>1
      <4>1. lines[i].task \in Tasks  BY <2>3 DEF Row
      <4> QED  BY <2>1, <2>3, <4>1
    <3>3. \A u \in Tasks : InHand'[u] # NONE /\ InHand'[u].why # "excluded" => InHand'[u] = InHand[u]
      BY <2>1, <2>4
    <3> QED  BY <2>2, <2>4, <3>1, <3>2, <3>3 DEF Ledger
  <2>5. CASE row.why # "excluded" /\ AppendRow(row)
    <3>1. Cut(row) /\ (lines' = Append(lines, row) \/ \E i \in 1..Len(lines') : lines'[i] = JUNK)
      BY <2>5, AppendCuts
    <3>2. \A i, j \in ReadableLines' : lines'[i].task = lines'[j].task => i = j
      BY <1>2, <1>a, <2>3, <3>1
    <3>3. \A i \in ReadableLines' : InHand'[lines'[i].task] = lines'[i]
      <4> SUFFICES ASSUME NEW i \in ReadableLines' PROVE InHand'[lines'[i].task] = lines'[i]
        OBVIOUS
      <4>1. (i \in ReadableLines /\ lines'[i] = lines[i]) \/ lines'[i] = row  BY <3>1, CutReads
      <4>2. CASE i \in ReadableLines /\ lines'[i] = lines[i]
        <5>1. lines[i].task \in Tasks  BY <2>3, <4>2 DEF Row
        <5> QED  BY <2>1, <2>3, <4>2, <5>1
      <4>3. CASE lines'[i] = row  BY <1>2, <2>1, <4>3
      <4> QED  BY <4>1, <4>2, <4>3
    <3>4. ASSUME \A i \in 1..Len(lines') : lines'[i] # JUNK,
                 NEW u \in Tasks, InHand'[u] # NONE, InHand'[u].why # "excluded"
          PROVE  \E i \in 1..Len(lines') : lines'[i] = InHand'[u]
      <4>1. lines' = Append(lines, row) /\ lines \in Seq(Row \cup {JUNK})
        BY <3>1, <3>4 DEF ArmTypes
      <4>2. /\ Len(lines) \in Nat /\ Len(lines') = Len(lines) + 1 /\ lines'[Len(lines) + 1] = row
            /\ \A k \in 1..Len(lines) : lines'[k] = lines[k]
        BY <4>1
      <4>3. CASE u = t
        <5>1. Len(lines) + 1 \in 1..Len(lines')  BY <4>2
        <5> QED  BY <2>1, <4>2, <4>3, <5>1
      <4>4. CASE u # t
        <5>1. \A k \in 1..Len(lines) : k \in 1..Len(lines') /\ lines[k] # JUNK  BY <3>4, <4>2
        <5>2. \E i \in 1..Len(lines) : lines[i] = InHand[u]
          BY <2>1, <2>2, <3>4, <4>4, <5>1 DEF Ledger
        <5> QED  BY <2>1, <4>2, <4>4, <5>1, <5>2
      <4> QED  BY <4>3, <4>4
    <3> QED  BY <3>2, <3>3, <3>4 DEF Ledger
  <2> QED  BY <1>2, <2>4, <2>5 DEF Lands
<1>3. CASE Open
  <2>1. InHand' = Resumed /\ UNCHANGED lines  BY <1>3, OpensInHand
  <2>2. ReadableLines' = ReadableLines  BY <2>1 DEF ReadableLines
  <2>3. \A i \in ReadableLines : Resumed[lines[i].task] = lines[i]  BY ResumedReads DEF Ledger
  <2>4. \A t \in Tasks : Resumed[t] # NONE => \E i \in 1..Len(lines) : lines[i] = Resumed[t]
    BY ResumedRow DEF ArmTypes
  <2> QED  BY <2>1, <2>2, <2>3, <2>4 DEF Ledger
<1>4. CASE Crash
  <2>1. pc' = "down"  BY <1>4 DEF Crash
  <2>2. CASE UNCHANGED lines
    <3>1. ReadableLines' = ReadableLines  BY <2>2 DEF ReadableLines
    <3> QED  BY <2>1, <2>2, <3>1 DEF Ledger, Attempting
  <2>3. ASSUME NEW r \in Row, Cut(r), pc \in Attempting, InHand[r.task] = NONE PROVE Ledger'
    <3>1. \A i \in ReadableLines : lines[i] \in Row  BY DEF ReadableLines, ArmTypes
    <3>2. \A i \in ReadableLines : lines[i].task # r.task  BY <2>3, <3>1, UnreachedRow DEF Ledger
    <3>3. \A i, j \in ReadableLines' : lines'[i].task = lines'[j].task => i = j  BY <1>a, <2>3, <3>2
    <3> QED  BY <2>1, <3>3 DEF Ledger, Attempting
  <2> QED  BY <1>4, <2>2, <2>3, CrashCuts
<1> QED  BY <1>1, <1>2, <1>3, <1>4, StepKinds

(***************************************************************************)
(* The allowance.                                                          *)
(***************************************************************************)

\* The slice is finite, and so are its parts.
LEMMA TasksFinite == IsFiniteSet(Tasks) /\ \A S \in SUBSET Tasks : IsFiniteSet(S)
<1>1. IsFiniteSet(Tasks)  BY FS_Interval, TasksIndex DEF Tasks
<1> QED  BY <1>1, FS_Subset

\* What rows cost are integers.
LEMMA CostsType ==
  ASSUME NEW f, f \in [Tasks -> Row \cup {NONE}], NEW t \in Tasks
  PROVE  Costs(f)[t] \in Int /\ Costs(f)[t] = IF f[t] = NONE THEN 0 ELSE f[t].spend
<1>1. f[t] # NONE => f[t].spend \in Int  BY ArmAssumption DEF Row
<1> QED  BY <1>1 DEF Costs

\* What is known of a task's spend is an integer, and what its rows say.
LEMMA KnownIs ==
  ASSUME ArmTypes, NEW t \in Tasks
  PROVE  /\ Known[t] = Costs(resumed)[t] + IF placed[t] = resumed[t] THEN 0 ELSE Costs(placed)[t]
         /\ Known[t] \in Int
<1>1. Known[t] = Costs(resumed)[t] + IF placed[t] = resumed[t] THEN 0 ELSE Costs(placed)[t]
  BY DEF Known
<1>2. Costs(resumed)[t] \in Int /\ Costs(placed)[t] \in Int  BY CostsType DEF ArmTypes
<1> QED  BY <1>1, <1>2

\* A task whose rows are as they were costs what it did.
LEMMA KnownStays ==
  ASSUME ArmTypes, ArmTypes', NEW t \in Tasks, placed'[t] = placed[t], resumed'[t] = resumed[t]
  PROVE  Known'[t] = Known[t]
<1>1. Costs(resumed)'[t] = Costs(resumed)[t] /\ Costs(placed)'[t] = Costs(placed)[t]
  BY DEF Costs
<1>2. Known'[t] = Costs(resumed)'[t] + IF placed'[t] = resumed'[t] THEN 0 ELSE Costs(placed)'[t]
  BY DEF Known
<1>3. Known[t] = Costs(resumed)[t] + IF placed[t] = resumed[t] THEN 0 ELSE Costs(placed)[t]
  BY DEF Known
<1> QED  BY <1>1, <1>2, <1>3

\* Neither does placing the row that was read back, or one that cost nothing.
LEMMA KnownOfFree ==
  ASSUME ArmTypes, ArmTypes', NEW t \in Tasks, NEW row \in Row, placed[t] = NONE, placed'[t] = row,
         resumed' = resumed, row = resumed[t] \/ (resumed[t] = NONE /\ row.spend = 0)
  PROVE  Known'[t] = Known[t]
<1>1. /\ Costs(placed)'[t] = row.spend /\ Costs(placed)[t] = 0
      /\ Costs(resumed)'[t] = Costs(resumed)[t]
  BY UnreachedRow DEF Costs
<1>2. Known'[t] = Costs(resumed)'[t] + IF placed'[t] = resumed'[t] THEN 0 ELSE Costs(placed)'[t]
  BY DEF Known
<1>3. Known[t] = Costs(resumed)[t] + IF placed[t] = resumed[t] THEN 0 ELSE Costs(placed)[t]
  BY DEF Known
<1>4. Costs(resumed)[t] \in Int  BY CostsType DEF ArmTypes
<1> QED  BY <1>1, <1>2, <1>3, <1>4, UnreachedRow

\* The sum stays when its summands do.
LEMMA SpendStays ==
  ASSUME ArmTypes, ArmTypes', batch' = batch, \A t \in Tasks \ batch : Known'[t] = Known[t]
  PROVE  SumFunctionOnSet(Known, Tasks \ batch)' = SumFunctionOnSet(Known, Tasks \ batch)
<1>1. IsFiniteSet(Tasks \ batch)  BY TasksFinite
<1>2. \A t \in Tasks \ batch : Known[t] \in Int  BY KnownIs
<1>3. SumFunctionOnSet(Known, Tasks \ batch) = SumFunctionOnSet(Known', Tasks \ batch)
  BY <1>1, <1>2, SumSame
<1> QED  BY <1>3

\* Every step keeps the allowance: what is left is the snapshot less what is
\* known to be spent, and a batch is only opened on something.
LEMMA MoneyStep == ArmTypes /\ Kept /\ Placing /\ Money /\ [Next]_vars => Money'
<1> SUFFICES ASSUME ArmTypes, Kept, Placing, Money, [Next]_vars PROVE Money'  OBVIOUS
<1> USE TasksIndex
<1>t. ArmTypes'  BY TypesStep
<1> DEFINE Accounting == {"filling", "running", "abandoning"}
           Total == SumFunctionOnSet(Known, Tasks \ batch)
<1>a. ASSUME batch' = batch, remaining' = remaining, pc' \in Accounting => pc \in Accounting,
             \A t \in Tasks \ batch : Known'[t] = Known[t]
      PROVE  Money'
  <2>1. Total' = Total  BY <1>a, <1>t, SpendStays
  <2> HIDE DEF Total
  <2>2. remaining \in Int /\ (pc \in Accounting => remaining = Budget - Total) /\ (batch # {} => remaining > 0)
    BY DEF Money, Total
  <2>3. remaining' \in Int /\ (pc' \in Accounting => remaining' = Budget - Total') /\ (batch' # {} => remaining' > 0)
    BY <1>a, <2>1, <2>2
  <2> QED  BY <2>3 DEF Money, Total
<1>b. ASSUME NEW row \in Row, index \in Tasks, placed[index] = NONE, placed' = [placed EXCEPT ![index] = row],
             UNCHANGED <<resumed, batch, remaining, pc>>,
             row = resumed[index] \/ (resumed[index] = NONE /\ row.spend = 0)
      PROVE  Money'
  <2>1. placed'[index] = row /\ \A t \in Tasks : t # index => placed'[t] = placed[t]
    BY <1>b DEF ArmTypes
  <2>2. Known'[index] = Known[index]  BY <1>b, <1>t, <2>1, KnownOfFree
  <2>3. \A t \in Tasks : t # index => Known'[t] = Known[t]  BY <1>b, <1>t, <2>1, KnownStays
  <2> QED  BY <1>a, <1>b, <2>2, <2>3
<1>1. CASE Open
  <2>1. /\ remaining' = Budget - SumFunctionOnSet(Costs(Resumed), Tasks)
        /\ resumed' = Resumed /\ placed' = NoRows /\ batch' = {}
    BY <1>1 DEF Open, RemainingAfter, Spend
  <2>2. \A t \in Tasks : Costs(Resumed)[t] \in Int  BY CostsType, ResumedType DEF ArmTypes
  <2>3. ASSUME NEW t \in Tasks PROVE Known'[t] = Costs(Resumed)[t]
    <3>1. Known'[t] = Costs(resumed')[t] + IF placed'[t] = resumed'[t] THEN 0 ELSE Costs(placed')[t]
      BY DEF Known, Costs
    <3>2. Costs(placed')[t] = 0  BY <2>1, NoRowsRow DEF Costs
    <3> QED  BY <2>1, <2>2, <3>1, <3>2
  <2>4. SumFunctionOnSet(Costs(Resumed), Tasks) = SumFunctionOnSet(Known', Tasks)
    BY <2>2, <2>3, TasksFinite, SumSame
  <2>5. SumFunctionOnSet(Costs(Resumed), Tasks) \in Int  BY <2>2, TasksFinite, SumType
  <2>6. Tasks \ batch' = Tasks  BY <2>1
  <2>7. remaining' \in Int  BY <2>1, <2>5, ArmAssumption
  <2> QED  BY <2>1, <2>4, <2>6, <2>7 DEF Money
<1>2. CASE OpenRaises \/ UNCHANGED vars \/ ClockRunsOut \/ Judge \/ Dispatch \/ Restart
  <2>1. UNCHANGED <<placed, resumed, batch, remaining>> /\ (pc' \in Accounting => pc \in Accounting)
    BY <1>2 DEF OpenRaises, vars, ClockRunsOut, Judge, Dispatch, Restart, money, Filling
  <2> QED  BY <1>a, <1>t, <2>1, KnownStays
<1>3. CASE Skip
  <2>1. /\ pc = "filling" /\ index \in Tasks /\ placed[index] = NONE
        /\ UNCHANGED <<resumed, batch, remaining, pc>>
    BY <1>3 DEF Skip, Filling, ArmTypes, money, Placing
  <2>2. CASE resumed[index] # NONE
    BY <1>3, <1>b, <2>1, <2>2 DEF Skip, ArmTypes
  <2>3. CASE resumed[index] = NONE
    <3>1. placed' = [placed EXCEPT ![index] = Unreached(index, "excluded")]  BY <1>3, <2>3 DEF Skip
    <3>2. Unreached(index, "excluded").spend = 0  BY DEF Unreached
    <3>3. Unreached(index, "excluded") \in Row  BY <2>1, UnreachedRow DEF Reasons
    <3> QED  BY <1>b, <2>1, <2>3, <3>1, <3>2, <3>3
  <2> QED  BY <2>2, <2>3
<1>4. CASE Unreach
  <2>1. /\ pc = "filling" /\ index \in Tasks /\ placed[index] = NONE /\ resumed[index] = NONE
        /\ UNCHANGED <<resumed, batch, remaining, pc>>
    BY <1>4 DEF Unreach, Filling, ArmTypes, money, Placing
  <2>2. PICK why \in {"clock", "exhausted"} : placed' = [placed EXCEPT ![index] = Unreached(index, why)]
    BY <1>4 DEF Unreach
  <2>3. Unreached(index, why).spend = 0  BY DEF Unreached
  <2>4. Unreached(index, why) \in Row  BY <2>1, UnreachedRow DEF Reasons
  <2> QED  BY <1>b, <2>1, <2>2, <2>3, <2>4
<1>5. CASE Enlist
  <2>1. /\ pc = "filling" /\ index \in Tasks /\ placed[index] = NONE /\ resumed[index] = NONE
        /\ index \notin batch /\ batch' = batch \cup {index}
        /\ UNCHANGED <<placed, resumed, remaining, pc>> /\ ~(remaining <= 0)
    BY <1>5 DEF Enlist, Filling, ArmTypes, money, Placing, Kept, Exhausted, Tasks
  <2>2. \A t \in Tasks : Known'[t] = Known[t]  BY <1>t, <2>1, KnownStays
  <2>3. Known[index] = 0
    <3>1. Costs(resumed)[index] = 0  BY <2>1, CostsType DEF ArmTypes
    <3> QED  BY <2>1, <3>1, KnownIs
  <2>4. /\ IsFiniteSet(Tasks \ batch) /\ index \in Tasks \ batch
        /\ \A t \in Tasks \ batch : Known[t] \in Int
    BY <2>1, TasksFinite, KnownIs
  <2>5. Total = Known[index] + SumFunctionOnSet(Known, (Tasks \ batch) \ {index})
    BY <2>4, SumTake
  <2>6. (Tasks \ batch) \ {index} = Tasks \ batch'  BY <2>1
  <2>7. IsFiniteSet(Tasks \ batch') /\ \A t \in Tasks \ batch' : Known[t] \in Int
    BY <2>1, TasksFinite, KnownIs
  <2>8. SumFunctionOnSet(Known, Tasks \ batch') = SumFunctionOnSet(Known', Tasks \ batch')
    BY <2>2, <2>7, SumSame
  <2>9. SumFunctionOnSet(Known, Tasks \ batch') \in Int  BY <2>7, SumType
  <2>10. Total' = Total
    <3>1. Total' = SumFunctionOnSet(Known', Tasks \ batch')  OBVIOUS
    <3>2. Total = Known[index] + SumFunctionOnSet(Known, Tasks \ batch')  BY <2>5, <2>6
    <3> HIDE DEF Total
    <3> QED  BY <2>3, <2>8, <2>9, <3>1, <3>2
  <2> HIDE DEF Total
  <2>11. remaining \in Int /\ remaining = Budget - Total  BY <2>1 DEF Money, Total
  <2>12. remaining' \in Int /\ remaining' = Budget - Total' /\ remaining' > 0
    BY <2>1, <2>10, <2>11
  <2> QED  BY <2>12 DEF Money, Total
<1>6. ASSUME NEW t \in Tasks, GraderDies(t) \/ OtherArmsGraderDies(t)  PROVE Money'
  <2>1. UNCHANGED <<placed, resumed, batch, remaining, pc>>
    BY <1>6 DEF GraderDies, OtherArmsGraderDies, money
  <2> QED  BY <1>a, <1>t, <2>1, KnownStays
<1>7. ASSUME NEW t \in Tasks, NEW q \in {0, 1}, NEW s \in 0..MaxSpend, Finish(t, q, s)  PROVE Money'
  <2>1. /\ t \in batch /\ UNCHANGED <<resumed, batch, remaining, pc>>
        /\ \A u \in Tasks : u # t => placed'[u] = placed[u]
    BY <1>7 DEF Finish, ArmTypes, money
  <2>2. \A u \in Tasks \ batch : Known'[u] = Known[u]  BY <1>t, <2>1, KnownStays
  <2> QED  BY <1>a, <2>1, <2>2
<1>8. CASE Account
  <2>1. /\ pc = "running" /\ open = {} /\ batch' = {}
        /\ remaining' = remaining - SumFunctionOnSet(Costs(placed), batch)
        /\ UNCHANGED <<placed, resumed>>
    BY <1>8 DEF Account, Spend
  <2>2. \A t \in Tasks : Known'[t] = Known[t]  BY <1>t, <2>1, KnownStays
  <2>3. \A t \in Tasks : Known[t] \in Int  BY KnownIs
  <2>4. batch \subseteq Tasks /\ IsFiniteSet(batch) /\ IsFiniteSet(Tasks)
    BY TasksFinite DEF ArmTypes
  <2>5. \A t \in batch : Costs(placed)[t] \in Int /\ Costs(placed)[t] = Known[t]
    <3> SUFFICES ASSUME NEW t \in batch
                 PROVE Costs(placed)[t] \in Int /\ Costs(placed)[t] = Known[t]
      OBVIOUS
    <3>1. t \in Tasks /\ resumed[t] = NONE /\ placed[t] # NONE  BY <2>1, <2>4 DEF Kept, Placing
    <3>2. Costs(resumed)[t] = 0 /\ Costs(placed)[t] \in Int  BY <3>1, CostsType DEF ArmTypes
    <3> QED  BY <3>1, <3>2, KnownIs
  <2>6. SumFunctionOnSet(Costs(placed), batch) = SumFunctionOnSet(Known, batch)
    BY <2>4, <2>5, SumSame
  <2>7. SumFunctionOnSet(Known, Tasks) = SumFunctionOnSet(Known, batch) + Total
    BY <2>3, <2>4, SumSplit
  <2>8. SumFunctionOnSet(Known, Tasks) = SumFunctionOnSet(Known', Tasks)
    BY <2>2, <2>3, <2>4, SumSame
  <2>9. Tasks \ batch' = Tasks  BY <2>1
  <2>10. Total' = SumFunctionOnSet(Known', Tasks)  BY <2>9
  <2>11. SumFunctionOnSet(Known, batch) \in Int /\ Total \in Int
    BY <2>3, <2>4, TasksFinite, SumType
  <2> HIDE DEF Total
  <2>12. remaining \in Int /\ remaining = Budget - Total  BY <2>1 DEF Money, Total
  <2>13. remaining' \in Int /\ remaining' = Budget - Total'
    BY <2>1, <2>6, <2>7, <2>8, <2>10, <2>11, <2>12, ArmAssumption
  <2> QED  BY <2>1, <2>13 DEF Money, Total
<1>9. CASE Abandon
  <2>1. CASE index > NTasks
    <3>1. pc = "abandoning" /\ UNCHANGED <<placed, resumed, batch, remaining>>
      BY <1>9, <2>1 DEF Abandon, money
    <3> QED  BY <1>a, <1>t, <3>1, KnownStays
  <2>2. CASE ~(index > NTasks)
    <3>1. /\ pc = "abandoning" /\ index \in Tasks /\ placed[index] = NONE
          /\ UNCHANGED <<resumed, batch, remaining, pc>>
      BY <1>9, <2>2 DEF Abandon, ArmTypes, money, Placing
    <3>2. CASE resumed[index] # NONE
      BY <1>9, <1>b, <2>2, <3>1, <3>2 DEF Abandon, ArmTypes
    <3>3. CASE resumed[index] = NONE
      <4>1. placed' = [placed EXCEPT ![index] = Unreached(index, "futile")]
        BY <1>9, <2>2, <3>3 DEF Abandon
      <4>2. Unreached(index, "futile").spend = 0  BY DEF Unreached
      <4>3. Unreached(index, "futile") \in Row  BY <3>1, UnreachedRow DEF Reasons
      <4> QED  BY <1>b, <3>1, <3>3, <4>1, <4>2, <4>3
    <3> QED  BY <3>2, <3>3
  <2> QED  BY <2>1, <2>2
<1>10. CASE Crash
  <2>1. remaining' = 0 /\ batch' = {} /\ pc' = "down"  BY <1>10 DEF Crash
  <2> QED  BY <2>1 DEF Money
<1> QED  BY <1>1, <1>2, <1>3, <1>4, <1>5, <1>6, <1>7, <1>8, <1>9, <1>10 DEF Next, Step

(***************************************************************************)
(* Futility.                                                               *)
(***************************************************************************)

\* A row is worth no more than a full mark for nothing, and an integer.
LEMMA ValueType ==
  ASSUME NEW row \in Row \cup {NONE}
  PROVE  /\ Value(row) \in Int /\ Value(row) <= Worth
         /\ Potential(row) \in Int /\ Potential(row) <= Worth /\ Value(row) <= Potential(row)
<1>1. Worth \in Nat /\ MaxSpend \in Nat  BY ArmAssumption
<1>2. CASE row = NONE  BY <1>1, <1>2 DEF Value, Potential
<1>3. CASE row # NONE
  <2>1. row.q \in {0, 1} /\ row.spend \in 0..MaxSpend  BY <1>3 DEF Row
  <2>2. Worth * row.q \in {0, Worth}  BY <1>1, <2>1
  <2>3. Value(row) = Worth * row.q - row.spend  BY <1>3 DEF Value
  <2>4. Value(row) \in Int /\ Value(row) <= Worth  BY <1>1, <2>1, <2>2, <2>3
  <2> QED  BY <1>1, <2>4 DEF Potential
<1> QED  BY <1>2, <1>3

\* A ceiling falls with its rows' potentials.
LEMMA CeilingFalls ==
  ASSUME NEW f, f \in [Tasks -> Row \cup {NONE}], NEW g, g \in [Tasks -> Row \cup {NONE}],
         NEW kept \in SUBSET Tasks, \A t \in kept : Potential(g[t]) <= Potential(f[t])
  PROVE  Ceiling(g, kept) <= Ceiling(f, kept)
<1> DEFINE F == [t \in Tasks |-> Potential(f[t])]
           G == [t \in Tasks |-> Potential(g[t])]
<1>1. \A t \in kept : F[t] \in Int /\ G[t] \in Int /\ G[t] <= F[t]  BY ValueType
<1>2. IsFiniteSet(kept)  BY TasksFinite
<1> HIDE DEF F, G
<1>3. SumFunctionOnSet(G, kept) <= SumFunctionOnSet(F, kept)  BY <1>1, <1>2, SumMonotone
<1> QED  BY <1>3 DEF Ceiling, F, G

\* A ceiling is an integer.
LEMMA CeilingType ==
  ASSUME NEW f, f \in [Tasks -> Row \cup {NONE}], NEW kept \in SUBSET Tasks
  PROVE  Ceiling(f, kept) \in Int
<1> DEFINE F == [t \in Tasks |-> Potential(f[t])]
<1>1. \A t \in kept : F[t] \in Int  BY ValueType
<1>2. IsFiniteSet(kept)  BY TasksFinite
<1> HIDE DEF F
<1>3. SumFunctionOnSet(F, kept) \in Int  BY <1>1, <1>2, SumType
<1> QED  BY <1>3 DEF Ceiling, F

\* So is the bar.
LEMMA BarType ==
  ASSUME RecordTypes, NEW kept \in SUBSET Tasks
  PROVE  Bar(kept) \in Int
<1> DEFINE K == [t \in Tasks |-> IF king[t] = NONE THEN 0 ELSE Worth * king[t]]
<1>1. \A t \in kept : K[t] \in Int
  <2> SUFFICES ASSUME NEW t \in kept PROVE K[t] \in Int  OBVIOUS
  <2>1. king[t] # NONE => Worth * king[t] \in {0, Worth}  BY ArmAssumption DEF RecordTypes
  <2> QED  BY <2>1, ArmAssumption
<1>2. IsFiniteSet(kept)  BY TasksFinite
<1>3. Cardinality(kept) \in Nat /\ Eps * Cardinality(kept) \in Int
  BY <1>2, FS_CardinalityType, ArmAssumption
<1> HIDE DEF K
<1>4. SumFunctionOnSet(K, kept) \in Int  BY <1>1, <1>2, SumType
<1> QED  BY <1>3, <1>4 DEF Bar, K

\* What is lost stays so as rows come in.
LEMMA LostStays ==
  ASSUME RecordTypes, NEW f, f \in [Tasks -> Row \cup {NONE}], NEW g, g \in [Tasks -> Row \cup {NONE}],
         Lost(f), \A t \in KeptThen : Potential(g[t]) <= Potential(f[t])
  PROVE  Lost(g)
<1>1. KeptThen \in SUBSET Tasks  BY DEF KeptThen
<1>2. Ceiling(g, KeptThen) <= Ceiling(f, KeptThen)  BY <1>1, CeilingFalls
<1>3. Ceiling(g, KeptThen) \in Int /\ Ceiling(f, KeptThen) \in Int /\ Bar(KeptThen) \in Int
  BY <1>1, CeilingType, BarType
<1> QED  BY <1>2, <1>3 DEF Lost

\* The bar the first abandonment was measured against does not move.
LEMMA BarStays ==
  ASSUME judgedWith' = judgedWith, king' = king
  PROVE  KeptThen' = KeptThen /\ Bar(KeptThen)' = Bar(KeptThen)
<1>1. KingClocked' = KingClocked  BY DEF KingClocked
<1>2. KeptThen' = KeptThen  BY <1>1 DEF KeptThen
<1> QED  BY <1>2 DEF Bar

\* What the file held before a line is what is in hand, on the tasks a verdict keeps.
LEMMA BeforeCovers ==
  ASSUME ArmTypes, pc \in Attempting, Excluding, Ledger, \A i \in 1..Len(lines) : lines[i] # JUNK,
         NEW t \in Tasks, t \notin failed
  PROVE  Potential(Before(Len(lines) + 1)[t]) <= Potential(InHand[t])
<1> DEFINE at == {k \in 1..Len(lines) : lines[k].task = t}
<1>1. Len(lines) \in Nat /\ \A i \in 1..Len(lines) : lines[i] \in Row  BY DEF ArmTypes
<1>2. Before(Len(lines) + 1)[t] = IF at = {} THEN NONE ELSE lines[CHOOSE k \in at : TRUE]
  <2> DEFINE below == {k \in 1..(Len(lines) + 1) - 1 : lines[k].task = t}
  <2>1. Before(Len(lines) + 1)[t] = IF below = {} THEN NONE ELSE lines[CHOOSE k \in below : TRUE]
    BY Zenon DEF Before
  <2>2. (Len(lines) + 1) - 1 = Len(lines)  BY <1>1
  <2>3. below = at  BY <2>2
  <2> HIDE DEF below, at
  <2> QED  BY <2>1, <2>3
<1>3. ReadableLines = 1..Len(lines)  BY DEF ReadableLines
<1>4. InHand[t] \in Row \cup {NONE} /\ (InHand[t] # NONE => InHand[t].task = t)  BY InHandType
<1>5. CASE at = {}
  <2>1. InHand[t] = NONE
    <3> SUFFICES ASSUME InHand[t] # NONE PROVE FALSE  OBVIOUS
    <3>1. InHand[t].why # "excluded"  BY DEF Excluding
    <3>2. PICK i \in 1..Len(lines) : lines[i] = InHand[t]  BY <3>1 DEF Ledger
    <3> QED  BY <1>4, <1>5, <3>2
  <2>2. Before(Len(lines) + 1)[t] = NONE  BY <1>2, <1>5
  <2>3. Potential(NONE) \in Int  BY ValueType
  <2> QED  BY <2>1, <2>2, <2>3
<1>6. CASE at # {}
  <2>1. PICK k \in at : Before(Len(lines) + 1)[t] = lines[k]  BY <1>2, <1>6
  <2>2. lines[k] = InHand[t]  BY <1>3, <2>1 DEF Ledger
  <2>3. Potential(InHand[t]) \in Int  BY <1>4, ValueType
  <2> QED  BY <2>1, <2>2, <2>3
<1> QED  BY <1>5, <1>6

\* What the file held before a line is a row for each task, or none.
LEMMA BeforeType ==
  ASSUME ArmTypes, NEW n \in Nat, n - 1 <= Len(lines), \A k \in 1..n - 1 : lines[k] # JUNK
  PROVE  Before(n) \in [Tasks -> Row \cup {NONE}]
<1>1. \A k \in 1..n - 1 : lines[k] \in Row  BY DEF ArmTypes
<1>2. ASSUME NEW t \in Tasks
      PROVE  (LET at == {k \in 1..n - 1 : lines[k].task = t}
              IN  IF at = {} THEN NONE ELSE lines[CHOOSE k \in at : TRUE]) \in Row \cup {NONE}
  <2> DEFINE at == {k \in 1..n - 1 : lines[k].task = t}
  <2>1. at # {} => (CHOOSE k \in at : TRUE) \in at  OBVIOUS
  <2>2. at # {} => lines[CHOOSE k \in at : TRUE] \in Row  BY <1>1, <2>1
  <2> HIDE DEF at
  <2>3. (IF at = {} THEN NONE ELSE lines[CHOOSE k \in at : TRUE]) \in Row \cup {NONE}  BY <2>2
  <2> QED  BY <2>3 DEF at
<1> QED  BY <1>2, Zenon DEF Before

\* It only depends on the lines before it.
LEMMA BeforeStays ==
  ASSUME NEW n \in Nat, \A k \in 1..n - 1 : lines'[k] = lines[k]
  PROVE  Before(n)' = Before(n)
<1>1. ASSUME NEW t \in Tasks
      PROVE  (LET at == {k \in 1..n - 1 : lines'[k].task = t}
              IN  IF at = {} THEN NONE ELSE lines'[CHOOSE k \in at : TRUE])
             = (LET at == {k \in 1..n - 1 : lines[k].task = t}
                IN  IF at = {} THEN NONE ELSE lines[CHOOSE k \in at : TRUE])
  <2> DEFINE new == {k \in 1..n - 1 : lines'[k].task = t}
             old == {k \in 1..n - 1 : lines[k].task = t}
  <2>1. new = old  OBVIOUS
  <2>2. old # {} => (CHOOSE k \in old : TRUE) \in 1..n - 1  OBVIOUS
  <2>3. old # {} => lines'[CHOOSE k \in old : TRUE] = lines[CHOOSE k \in old : TRUE]  BY <2>2
  <2> HIDE DEF new, old
  <2>4. (IF new = {} THEN NONE ELSE lines'[CHOOSE k \in new : TRUE])
          = (IF old = {} THEN NONE ELSE lines[CHOOSE k \in old : TRUE])
    BY <2>1, <2>3
  <2> QED  BY <2>4 DEF new, old
<1> QED  BY <1>1, Zenon DEF Before

\* Each readable line of a file a row was written to, or cut, still says that what
\* came before it could not win, if what is in hand cannot.
LEMMA FileStaysLost ==
  ASSUME ArmTypes, RecordTypes, Excluding, Ledger, pc \in Attempting,
         NEW r \in Row, Cut(r), judgedWith' = judgedWith, king' = king, failed = judgedWith,
         \A i \in ReadableLines : lines[i].why = "futile" => Lost(Before(i)),
         r.why = "futile" => Lost(InHand)
  PROVE  \A i \in ReadableLines' : lines'[i].why = "futile" => Lost(Before(i))'
<1> SUFFICES ASSUME NEW i \in ReadableLines', lines'[i].why = "futile" PROVE Lost(Before(i))'
  OBVIOUS
<1>0. i \in Nat  BY DEF ReadableLines
<1>1. /\ \/ i \in ReadableLines /\ lines'[i] = lines[i]
         \/ /\ i = Len(lines) + 1 /\ lines'[i] = r
            /\ \A k \in 1..Len(lines) : lines[k] # JUNK
      /\ \A k \in 1..i - 1 : k \in 1..Len(lines) /\ lines'[k] = lines[k]
  BY CutReads
<1>2. Before(i)' = Before(i)  BY <1>0, <1>1, BeforeStays
<1>3. KeptThen' = KeptThen /\ Bar(KeptThen)' = Bar(KeptThen)  BY BarStays
<1>4. Lost(Before(i))
  <2>1. CASE i \in ReadableLines /\ lines'[i] = lines[i]  BY <2>1
  <2>2. CASE i = Len(lines) + 1 /\ lines'[i] = r /\ \A k \in 1..Len(lines) : lines[k] # JUNK
    <3>1. Lost(InHand)  BY <2>2
    <3>2. \A t \in KeptThen : Potential(Before(i)[t]) <= Potential(InHand[t])
      BY <2>2, BeforeCovers DEF KeptThen
    <3>3. Before(i) \in [Tasks -> Row \cup {NONE}]
      BY <1>0, <2>2, BeforeType DEF ArmTypes
    <3> QED  BY <3>1, <3>2, <3>3, InHandType, LostStays
  <2> QED  BY <1>1, <2>1, <2>2
<1>5. Ceiling(Before(i), KeptThen)' = Ceiling(Before(i), KeptThen)  BY <1>2, <1>3
<1> QED  BY <1>3, <1>4, <1>5 DEF Lost

\* None is no set of tasks.
LEMMA NotNone == \A S \in SUBSET Tasks : S # NONE
BY ArmAssumption

\* Only Account abandons an arm, and only then is the set it was judged with set.
LEMMA OnlyAccountAbandons ==
  ASSUME ArmTypes, [Next]_vars, ~Account
  PROVE  judgedWith' = judgedWith /\ (pc' = "abandoning" => pc = "abandoning")
BY DEF Next, Step, vars, Open, OpenRaises, Skip, Unreach, Enlist, Dispatch, Abandon, Judge,
       Restart, Finish, ClockRunsOut, Crash, GraderDies, OtherArmsGraderDies

\* The king's rows stay.
LEMMA KingStays ==
  ASSUME [Next]_vars
  PROVE  king' = king
BY DEF Next, Step, vars, Open, OpenRaises, Skip, Unreach, Enlist, Dispatch, Account, Abandon, Judge,
       Restart, Finish, ClockRunsOut, Crash, GraderDies, OtherArmsGraderDies

\* While the process lives the guard only learns of more tasks.
LEMMA FailedGrows ==
  ASSUME ArmTypes, [Next]_vars, ~Crash, ~Restart
  PROVE  /\ failed \subseteq failed'
         /\ \/ pc \notin {"down", "wedged"}
            \/ UNCHANGED <<pc, failed, excludedFile, exclusionsTail>>
<1>1. CASE Open \/ OpenRaises \/ Skip \/ Unreach \/ Enlist \/ Dispatch \/ Account \/ Abandon \/ Judge
           \/ ClockRunsOut
  BY <1>1
     DEF Open, OpenRaises, Skip, Unreach, Enlist, Dispatch, Account, Abandon, Judge,
         ClockRunsOut, Filling
<1>2. ASSUME NEW t \in Tasks, NEW q \in {0, 1}, NEW s \in 0..MaxSpend, Finish(t, q, s)
      PROVE  failed \subseteq failed' /\ pc \notin {"down", "wedged"}
  BY <1>2 DEF Finish
<1>3. ASSUME NEW t \in Tasks, GraderDies(t) \/ OtherArmsGraderDies(t)
      PROVE  failed \subseteq failed' /\ pc \notin {"down", "wedged"}
  BY <1>3 DEF GraderDies, OtherArmsGraderDies, Exclude
<1>4. CASE UNCHANGED vars  BY <1>4 DEF vars, disk
<1> QED  BY <1>1, <1>2, <1>3, <1>4 DEF Next, Step

\* Every step keeps the tasks the arm was judged with on record.
LEMMA RecordedStep == ArmTypes /\ Durable /\ Recorded /\ [Next]_vars => Recorded'
<1> SUFFICES ASSUME ArmTypes, Durable, Recorded, [Next]_vars PROVE Recorded'  OBVIOUS
<1>1. CASE Crash
  <2>1. pc' = "down" /\ pc \notin {"down", "wedged"} /\ judgedWith' = judgedWith /\ CutExclusion
    BY <1>1 DEF Crash
  <2>2. exclusionsTail' # "damaged" => exclusionsTail # "damaged" /\ excludedFile \subseteq excludedFile'
    BY <2>1 DEF CutExclusion
  <2> QED  BY <2>1, <2>2 DEF Durable, Recorded
<1>2. CASE Restart
  BY <1>2 DEF Restart, disk, Recorded
<1>3. CASE Account
  BY <1>3 DEF Account, Recorded
<1>4. CASE ~Crash /\ ~Restart /\ ~Account
  <2>1. failed \subseteq failed' /\ judgedWith' = judgedWith
    BY <1>4, FailedGrows, OnlyAccountAbandons
  <2>2. CASE UNCHANGED <<pc, failed, excludedFile, exclusionsTail>>  BY <2>1, <2>2 DEF Recorded
  <2>3. CASE pc \notin {"down", "wedged"}
    <3>1. pc' # "down"
      BY <1>4, <2>3
         DEF Next, Step, vars, Open, OpenRaises, Skip, Unreach, Enlist, Dispatch, Abandon, Judge,
             Finish, ClockRunsOut, GraderDies, OtherArmsGraderDies
    <3> QED  BY <2>1, <2>3, <3>1 DEF Recorded
  <2> QED  BY <1>4, <2>2, <2>3, FailedGrows
<1> QED  BY <1>1, <1>2, <1>3, <1>4

\* What is judged with the exclusions of now was with those of the step before.
LEMMA FixedBefore ==
  ASSUME ArmTypes, Durable, Recorded, [Next]_vars, judgedWith' = judgedWith, Fixed'
  PROVE  Fixed /\ (Crash => failed = judgedWith)
<1>1. CASE Crash
  <2>1. pc' = "down" /\ pc \notin {"down", "wedged"} /\ CutExclusion  BY <1>1 DEF Crash
  <2>2. exclusionsTail' # "damaged" => exclusionsTail # "damaged" /\ excludedFile \subseteq excludedFile'
    BY <2>1 DEF CutExclusion
  <2>3. judgedWith # NONE /\ exclusionsTail' # "damaged" /\ excludedFile' = judgedWith
    BY <2>1 DEF Fixed
  <2>4. failed \subseteq judgedWith  BY <2>2, <2>3 DEF Durable
  <2>5. judgedWith \subseteq failed  BY <2>1, <2>3 DEF Recorded
  <2> QED  BY <2>1, <2>3, <2>4, <2>5 DEF Fixed
<1>2. CASE Restart
  BY <1>2 DEF Restart, Crash, disk, Fixed
<1>3. CASE ~Crash /\ ~Restart
  <2>1. failed \subseteq failed'  BY <1>3, FailedGrows
  <2>2. CASE UNCHANGED <<pc, failed, excludedFile, exclusionsTail>>  BY <1>3, <2>2 DEF Fixed
  <2>3. CASE pc \notin {"down", "wedged"}
    <3>1. pc' # "down"
      BY <1>3, <2>3
         DEF Next, Step, vars, Open, OpenRaises, Skip, Unreach, Enlist, Dispatch, Account, Abandon, Judge,
             Finish, ClockRunsOut, GraderDies, OtherArmsGraderDies
    <3>2. judgedWith # NONE /\ failed' = judgedWith  BY <3>1 DEF Fixed
    <3>3. judgedWith \subseteq failed  BY <2>3, <3>2 DEF Recorded
    <3>4. failed = judgedWith  BY <2>1, <3>2, <3>3
    <3> QED  BY <1>3, <2>3, <3>2, <3>4 DEF Fixed
  <2> QED  BY <1>3, <2>2, <2>3, FailedGrows
<1> QED  BY <1>1, <1>2, <1>3

\* What the futility check finds hopeless is lost, whatever the rows still to be
\* read back say.
LEMMA HopelessIsLost ==
  ASSUME ArmTypes, RecordTypes, Hopeless, ~FutileInHand
  PROVE  Ceiling(InHand, Tasks \ (failed \cup KingClocked)) <= Bar(Tasks \ (failed \cup KingClocked))
<1> DEFINE kept == Tasks \ (failed \cup KingClocked)
           P == [t \in Tasks |-> Potential(InHand[t])]
           V == [t \in Tasks |-> Value(placed[t])]
<1>0. kept \in SUBSET Tasks  OBVIOUS
<1>1. Points(placed, kept) <= Bar(kept)  BY DEF Hopeless, Dropped
<1>2. \A t \in kept : P[t] \in Int /\ V[t] \in Int /\ P[t] <= V[t]
  <2> SUFFICES ASSUME NEW t \in kept PROVE P[t] \in Int /\ V[t] \in Int /\ P[t] <= V[t]
    OBVIOUS
  <2>1. /\ InHand[t] \in Row \cup {NONE} /\ placed[t] \in Row \cup {NONE}
        /\ InHand[t] # NONE => InHand[t].why # "futile"
    BY InHandType DEF ArmTypes, FutileInHand
  <2>2. /\ Potential(InHand[t]) \in Int /\ Value(placed[t]) \in Int /\ Potential(InHand[t]) <= Worth
    BY <2>1, ValueType
  <2>3. CASE placed[t] = NONE
    <3>1. Value(placed[t]) = Worth  BY <2>3 DEF Value
    <3> QED  BY <2>2, <3>1
  <2>4. CASE placed[t] # NONE
    <3>1. InHand[t] = placed[t]  BY <2>4 DEF InHand
    <3>2. Potential(InHand[t]) = Value(placed[t])  BY <2>1, <2>4, <3>1 DEF Potential
    <3> QED  BY <2>2, <3>2
  <2> QED  BY <2>3, <2>4
<1>3. IsFiniteSet(kept)  BY <1>0, TasksFinite
<1>4. Bar(kept) \in Int  BY <1>0, BarType
<1> HIDE DEF kept, P, V
<1>5. SumFunctionOnSet(P, kept) <= SumFunctionOnSet(V, kept)  BY <1>2, <1>3, SumMonotone
<1>6. SumFunctionOnSet(P, kept) \in Int /\ SumFunctionOnSet(V, kept) \in Int  BY <1>2, <1>3, SumType
<1>7. Points(placed, kept) = SumFunctionOnSet(V, kept)  BY DEF Points, V
<1>8. Ceiling(InHand, kept) = SumFunctionOnSet(P, kept)  BY DEF Ceiling, P
<1>9. Ceiling(InHand, kept) <= Bar(kept)  BY <1>1, <1>4, <1>5, <1>6, <1>7, <1>8
<1> QED  BY <1>9 DEF kept

\* The file is as it was.
LEMMA FileSame ==
  ASSUME ArmTypes, judgedWith' = judgedWith, king' = king, UNCHANGED lines,
         \A i \in ReadableLines : lines[i].why = "futile" => Lost(Before(i))
  PROVE  \A i \in ReadableLines' : lines'[i].why = "futile" => Lost(Before(i))'
<1>1. ReadableLines' = ReadableLines  BY DEF ReadableLines
<1>2. \A i \in ReadableLines : Before(i)' = Before(i)  BY BeforeStays DEF ReadableLines
<1>3. KeptThen' = KeptThen /\ Bar(KeptThen)' = Bar(KeptThen)  BY BarStays
<1> SUFFICES ASSUME NEW i \in ReadableLines, lines[i].why = "futile" PROVE Lost(Before(i))'
  BY <1>1
<1>4. Before(i)' = Before(i)  BY <1>2
<1>5. Lost(Before(i))  OBVIOUS
<1>6. Ceiling(Before(i), KeptThen)' = Ceiling(Before(i), KeptThen)  BY <1>3, <1>4
<1> QED  BY <1>3, <1>5, <1>6 DEF Lost

\* Rows come in: what could not win before cannot with them.
LEMMA HandStaysLost ==
  ASSUME ArmTypes, RecordTypes, ArmTypes', judgedWith' = judgedWith, king' = king, NEW f,
         f \in [Tasks -> Row \cup {NONE}], Lost(f),
         \A t \in KeptThen : f[t] = NONE \/ InHand'[t] = f[t]
  PROVE  Lost(InHand)'
<1>1. InHand' \in [Tasks -> Row \cup {NONE}]
  <2>1. ArmTypes' => InHand' \in [Tasks -> Row \cup {NONE}]  BY DEF InHand, ArmTypes
  <2> QED  BY <2>1
<1>2. KeptThen' = KeptThen /\ Bar(KeptThen)' = Bar(KeptThen)  BY BarStays
<1> DEFINE g == InHand'
<1>3. \A t \in KeptThen : Potential(g[t]) <= Potential(f[t])
  <2> SUFFICES ASSUME NEW t \in KeptThen PROVE Potential(g[t]) <= Potential(f[t])  OBVIOUS
  <2>1. t \in Tasks  BY DEF KeptThen
  <2>2. Potential(g[t]) \in Int /\ Potential(g[t]) <= Worth  BY <1>1, <2>1, ValueType
  <2>3. Potential(NONE) = Worth  BY DEF Potential, Value
  <2> QED  BY <2>2, <2>3
<1>4. g \in [Tasks -> Row \cup {NONE}]  BY <1>1
<1> HIDE DEF g
<1>5. Lost(g)  BY <1>3, <1>4, LostStays
<1>6. Ceiling(g, KeptThen) <= Bar(KeptThen)  BY <1>5 DEF Lost
<1>7. Ceiling(InHand, KeptThen)' = Ceiling(g, KeptThen)  BY <1>2 DEF g
<1> QED  BY <1>2, <1>6, <1>7 DEF Lost

\* Every step keeps the bound of an abandoned arm.
LEMMA FutilityStep ==
  /\ ArmTypes /\ RecordTypes /\ Kept /\ Durable /\ Placing /\ Excluding /\ Ledger
  /\ Futility /\ [Next]_vars
  => Futility'
<1> SUFFICES ASSUME ArmTypes, RecordTypes, Kept, Durable, Placing, Excluding, Ledger, Futility,
                    [Next]_vars
             PROVE  Futility'
  OBVIOUS
<1>t. ArmTypes' /\ king' = king /\ Recorded /\ Recorded' /\ Unjudged /\ FileLost /\ HandLost
  BY TypesStep, KingStays, RecordedStep DEF Futility
<1>1. CASE Account
  <2>1. /\ pc = "running" /\ failed' = failed /\ UNCHANGED <<InHand, lines>>
        /\ pc' \in {"filling", "abandoning"}
    BY <1>1 DEF Account, disk, InHand
  <2>2. CASE pc' # "abandoning"
    <3>1. judgedWith' = judgedWith  BY <1>1, <2>2 DEF Account
    <3>2. Unjudged'  BY <1>t, <2>1, <2>2, <3>1 DEF Unjudged, FutileInHand, Attempting
    <3>3. FileLost'  BY <1>t, <3>1, <2>1, FixedBefore, FileSame DEF FileLost
    <3>4. HandLost'
      <4> SUFFICES ASSUME Fixed', FutileInHand' PROVE Lost(InHand)'  BY <2>2 DEF HandLost
      <4>1. Lost(InHand)
        BY <1>t, <2>1, <3>1, FixedBefore DEF HandLost, FutileInHand, Attempting
      <4> QED  BY <1>t, <2>1, <3>1, <4>1, InHandType, HandStaysLost
    <3> QED  BY <1>t, <3>2, <3>3, <3>4 DEF Futility
  <2>3. CASE pc' = "abandoning"
    <3>1. Hopeless /\ judgedWith' = IF judgedWith = NONE THEN failed ELSE judgedWith
      BY <1>1, <2>3 DEF Account
    <3>2. judgedWith' # NONE  BY <3>1, NotNone DEF RecordTypes
    <3>3. Unjudged'  BY <3>2 DEF Unjudged
    <3>4. FileLost'
      <4>1. CASE judgedWith = NONE
        <5>1. \A i \in ReadableLines' : lines'[i].why # "futile"
          BY <1>t, <2>1, <4>1 DEF Unjudged, ReadableLines
        <5> QED  BY <5>1 DEF FileLost
      <4>2. CASE judgedWith # NONE
        <5>1. judgedWith' = judgedWith  BY <3>1, <4>2
        <5> QED  BY <1>t, <2>1, <5>1, FixedBefore, FileSame DEF FileLost
      <4> QED  BY <4>1, <4>2
    <3>5. HandLost'
      <4> SUFFICES ASSUME Fixed' PROVE Lost(InHand)'  BY DEF HandLost
      <4>1. judgedWith' = failed  BY <2>1, <2>3 DEF Fixed
      <4>2. CASE ~FutileInHand
        <5>1. Ceiling(InHand, Tasks \ (failed \cup KingClocked)) <= Bar(Tasks \ (failed \cup KingClocked))
          BY <3>1, <4>2, HopelessIsLost
        <5>2. KingClocked' = KingClocked  BY <1>t DEF KingClocked
        <5>3. KeptThen' = Tasks \ (failed \cup KingClocked)  BY <4>1, <5>2 DEF KeptThen
        <5>4. Bar(KeptThen)' = Bar(Tasks \ (failed \cup KingClocked))  BY <1>t, <5>3 DEF Bar
        <5>5. Ceiling(InHand, KeptThen)' = Ceiling(InHand, Tasks \ (failed \cup KingClocked))
          BY <2>1, <5>3
        <5> QED  BY <5>1, <5>4, <5>5 DEF Lost
      <4>3. CASE FutileInHand
        <5>1. judgedWith # NONE  BY <1>t, <2>1, <4>3 DEF Unjudged, Attempting
        <5>2. judgedWith' = judgedWith  BY <3>1, <5>1
        <5>3. Lost(InHand)  BY <1>t, <2>1, <4>3, <5>2, FixedBefore DEF HandLost, Attempting
        <5> QED  BY <1>t, <2>1, <5>2, <5>3, InHandType, HandStaysLost
      <4> QED  BY <4>2, <4>3
    <3> QED  BY <1>t, <3>3, <3>4, <3>5 DEF Futility
  <2> QED  BY <2>2, <2>3
<1>2. ASSUME ~Account PROVE Futility'
  <2>0. judgedWith' = judgedWith /\ (pc' = "abandoning" => pc = "abandoning")
    BY <1>2, OnlyAccountAbandons
  <2>1. CASE Still
    <3>1. UNCHANGED <<InHand, lines>> /\ (pc' \in Attempting => pc \in Attempting)
      BY <2>1 DEF Still
    <3>2. Unjudged'  BY <1>t, <2>0, <3>1 DEF Unjudged, FutileInHand
    <3>3. FileLost'  BY <1>t, <2>0, <3>1, FixedBefore, FileSame DEF FileLost
    <3>4. HandLost'
      <4> SUFFICES ASSUME Fixed', pc' \in Attempting, pc' = "abandoning" \/ FutileInHand'
                   PROVE  Lost(InHand)'
        BY DEF HandLost
      <4>1. Lost(InHand)  BY <1>t, <2>0, <3>1, FixedBefore DEF HandLost, FutileInHand
      <4> QED  BY <1>t, <2>0, <3>1, <4>1, InHandType, HandStaysLost
    <3> QED  BY <1>t, <3>2, <3>3, <3>4 DEF Futility
  <2>2. ASSUME NEW t \in Tasks, NEW row \in Row, row.task = t, Lands(t, row)  PROVE Futility'
    <3>1. /\ \A u \in Tasks : InHand'[u] = IF u = t THEN row ELSE InHand[u]
          /\ InHand[t] = NONE /\ pc \in Attempting /\ pc' = pc /\ failed' = failed
          /\ row.why = "futile" => pc = "abandoning"
      BY <2>2, InHandType DEF Lands
    <3>2. Unjudged'
      <4> SUFFICES ASSUME judgedWith = NONE
                   PROVE  /\ pc' # "abandoning" /\ (pc' \in Attempting => ~FutileInHand')
                          /\ \A i \in 1..Len(lines') : lines'[i] # JUNK => lines'[i].why # "futile"
        BY <2>0 DEF Unjudged
      <4>1. pc # "abandoning" /\ row.why # "futile"  BY <1>t, <3>1 DEF Unjudged
      <4>2. ~FutileInHand'  BY <1>t, <3>1, <4>1 DEF Unjudged, FutileInHand
      <4>3. CASE UNCHANGED lines  BY <1>t, <3>1, <4>1, <4>2, <4>3 DEF Unjudged
      <4>4. CASE AppendRow(row)
        <5>1. Cut(row)  BY <4>4, AppendCuts
        <5>2. \A i \in 1..Len(lines') : lines'[i] # JUNK => lines'[i].why # "futile"
          BY <1>t, <4>1, <5>1, CutLines DEF Unjudged
        <5> QED  BY <3>1, <4>1, <4>2, <5>2
      <4> QED  BY <2>2, <4>3, <4>4 DEF Lands
    <3>3. FileLost'
      <4> SUFFICES ASSUME Fixed'
                   PROVE \A i \in ReadableLines' : lines'[i].why = "futile" => Lost(Before(i))'
        BY DEF FileLost
      <4>1. Fixed  BY <1>t, <2>0, FixedBefore
      <4>2. \A i \in ReadableLines : lines[i].why = "futile" => Lost(Before(i))
        BY <1>t, <4>1 DEF FileLost
      <4>3. CASE UNCHANGED lines  BY <1>t, <2>0, <4>2, <4>3, FileSame
      <4>4. CASE AppendRow(row)
        <5>1. Cut(row)  BY <4>4, AppendCuts
        <5>2. failed = judgedWith  BY <3>1, <4>1 DEF Fixed, Attempting
        <5>3. row.why = "futile" => Lost(InHand)  BY <1>t, <3>1, <4>1 DEF HandLost
        <5> QED  BY <1>t, <2>0, <3>1, <4>2, <5>1, <5>2, <5>3, FileStaysLost
      <4> QED  BY <2>2, <4>3, <4>4 DEF Lands
    <3>4. HandLost'
      <4> SUFFICES ASSUME Fixed', pc' = "abandoning" \/ FutileInHand' PROVE Lost(InHand)'
        BY DEF HandLost
      <4>1. Fixed  BY <1>t, <2>0, FixedBefore
      <4>2. pc = "abandoning" \/ FutileInHand  BY <3>1 DEF FutileInHand
      <4>3. Lost(InHand)  BY <1>t, <3>1, <4>1, <4>2 DEF HandLost
      <4>4. \A u \in KeptThen : InHand[u] = NONE \/ InHand'[u] = InHand[u]
        BY <3>1 DEF KeptThen
      <4> QED  BY <1>t, <2>0, <4>3, <4>4, InHandType, HandStaysLost
    <3> QED  BY <1>t, <3>2, <3>3, <3>4 DEF Futility
  <2>3. CASE Open
    <3>1. pc = "start" /\ pc' = "filling" /\ InHand' = Resumed /\ UNCHANGED lines
      BY <2>3, OpensInHand
    <3>2. Unjudged'
      <4> SUFFICES ASSUME judgedWith = NONE
                   PROVE  /\ ~FutileInHand'
                          /\ \A i \in 1..Len(lines) : lines[i] # JUNK => lines[i].why # "futile"
        BY <2>0, <3>1 DEF Unjudged
      <4>1. \A i \in 1..Len(lines) : lines[i] # JUNK => lines[i].why # "futile"
        BY <1>t DEF Unjudged
      <4>2. \A t \in Tasks : Resumed[t] # NONE => Resumed[t].why # "futile"
        BY <4>1, ResumedRow DEF ArmTypes
      <4> QED  BY <3>1, <4>1, <4>2 DEF FutileInHand
    <3>3. FileLost'  BY <1>t, <2>0, <3>1, FixedBefore, FileSame DEF FileLost
    <3>4. HandLost'
      <4> SUFFICES ASSUME Fixed', FutileInHand' PROVE Lost(InHand)'  BY <3>1 DEF HandLost
      <4>1. Fixed  BY <1>t, <2>0, FixedBefore
      <4>2. PICK t \in Tasks : Resumed[t] # NONE /\ Resumed[t].why = "futile"
        BY <3>1 DEF FutileInHand
      <4>3. PICK i \in 1..Len(lines) : i \in ReadableLines /\ lines[i] = Resumed[t]
        BY <4>2, ResumedRow DEF ArmTypes
      <4>4. Lost(Before(i))  BY <1>t, <4>1, <4>2, <4>3 DEF FileLost
      <4>5. \A k \in 1..i : k \in ReadableLines  BY <4>3 DEF ReadableLines
      <4>6. Before(i) \in [Tasks -> Row \cup {NONE}]
        <5>1. i \in Nat /\ i - 1 <= Len(lines) /\ \A k \in 1..i - 1 : lines[k] # JUNK
          BY <4>3 DEF ReadableLines, ArmTypes
        <5> QED  BY <5>1, BeforeType
      <4>7. ASSUME NEW u \in Tasks PROVE Before(i)[u] = NONE \/ Resumed[u] = Before(i)[u]
        <5> DEFINE at == {k \in 1..i - 1 : lines[k].task = u}
        <5>1. Before(i)[u] = IF at = {} THEN NONE ELSE lines[CHOOSE k \in at : TRUE]
          BY Zenon DEF Before
        <5>2. at # {} => (CHOOSE k \in at : TRUE) \in at  OBVIOUS
        <5>3. \A k \in at : Resumed[u] = lines[k]
          <6> SUFFICES ASSUME NEW k \in at PROVE Resumed[u] = lines[k]  OBVIOUS
          <6>1. k \in ReadableLines /\ lines[k].task = u  BY <4>5
          <6> QED  BY <6>1, ResumedReads DEF Ledger
        <5> HIDE DEF at
        <5> QED  BY <5>1, <5>2, <5>3
      <4>8. \A u \in KeptThen : Before(i)[u] = NONE \/ InHand'[u] = Before(i)[u]
        BY <3>1, <4>7 DEF KeptThen
      <4> QED  BY <1>t, <2>0, <4>4, <4>6, <4>8, HandStaysLost
    <3> QED  BY <1>t, <3>2, <3>3, <3>4 DEF Futility
  <2>4. CASE Crash
    <3>1. pc' = "down"  BY <2>4 DEF Crash
    <3>2. HandLost'  BY <3>1 DEF HandLost, Attempting
    <3>3. CASE UNCHANGED lines
      <4>1. Unjudged'  BY <1>t, <2>0, <3>1, <3>3 DEF Unjudged, Attempting
      <4>2. FileLost'  BY <1>t, <2>0, <3>3, FixedBefore, FileSame DEF FileLost
      <4> QED  BY <1>t, <3>2, <4>1, <4>2 DEF Futility
    <3>4. ASSUME NEW r \in Row, Cut(r), pc \in Attempting, r.why = "futile" => pc = "abandoning"
          PROVE  Futility'
      <4>1. Unjudged'
        <5>1. ASSUME judgedWith = NONE
              PROVE  \A i \in 1..Len(lines') : lines'[i] # JUNK => lines'[i].why # "futile"
          BY <1>t, <3>4, <5>1, CutLines DEF Unjudged
        <5> QED  BY <2>0, <3>1, <5>1 DEF Unjudged, Attempting
      <4>2. FileLost'
        <5> SUFFICES ASSUME Fixed'
                     PROVE \A i \in ReadableLines' : lines'[i].why = "futile" => Lost(Before(i))'
          BY DEF FileLost
        <5>1. Fixed /\ failed = judgedWith  BY <1>t, <2>0, <2>4, FixedBefore
        <5>2. \A i \in ReadableLines : lines[i].why = "futile" => Lost(Before(i))
          BY <1>t, <5>1 DEF FileLost
        <5>3. r.why = "futile" => Lost(InHand)  BY <1>t, <3>4, <5>1 DEF HandLost
        <5> QED  BY <1>t, <2>0, <3>4, <5>1, <5>2, <5>3, FileStaysLost
      <4> QED  BY <1>t, <3>2, <4>1, <4>2 DEF Futility
    <3> QED  BY <2>4, <3>3, <3>4, CrashCuts
  <2> QED  BY <2>1, <2>2, <2>3, <2>4, StepKinds
<1> QED  BY <1>1, <1>2

(***************************************************************************)
(* Theorems.                                                               *)
(***************************************************************************)

\* The invariant holds of an arm that has not been opened.
LEMMA ArmInvInit == Init => ArmInv
<1> SUFFICES ASSUME Init PROVE ArmInv  OBVIOUS
<1>1. ArmTypes  BY TypesInit
<1>2. /\ lines = <<>> /\ failed = {} /\ excludedFile = {} /\ batch = {} /\ open = {} /\ pc = "start"
      /\ remaining = 0 /\ judgedWith = NONE /\ index = 1
      /\ \A t \in Tasks : resumed[t] = NONE /\ placed[t] = NONE
  BY NoRowsRow DEF Init
<1>3. DeadTasks = {} /\ ReadableLines = {}  BY <1>2 DEF DeadTasks, ReadableLines
<1>4. Kept /\ Durable  BY <1>2, <1>3 DEF Kept, Durable
<1>5. RecordTypes
  <2>1. PICK cut \in (NTasks + 1) \div 2..NTasks :
          king \in {k \in [Tasks -> {0, 1, NONE}] : \A t \in Tasks : k[t] = NONE <=> t > cut}
    BY Zenon DEF Init
  <2>2. king \in [Tasks -> {0, 1, NONE}]  BY <2>1, Zenon
  <2>3. judgedWith \in (SUBSET Tasks) \cup {NONE}  BY <1>2, Zenon
  <2> QED  BY <1>2, <2>2, <2>3 DEF RecordTypes
<1>6. Placing /\ Excluding  BY <1>2 DEF Placing, Excluding, Attempting
<1>7. Ledger /\ Money  BY <1>2, <1>3 DEF Ledger, Money, Attempting
<1>8. Futility  BY <1>2 DEF Futility, Recorded, Unjudged, FileLost, HandLost, Fixed, Attempting
<1> QED  BY <1>1, <1>4, <1>5, <1>6, <1>7, <1>8 DEF ArmInv

\* The inductive invariant holds in every reachable state.
THEOREM ArmInvariant == Spec => []ArmInv
<1>1. ArmInv /\ [Next]_vars => ArmInv'
  BY TypesStep, KeptStep, DurableStep, RecordStep, PlacingStep, ExcludingStep, LedgerStep,
     MoneyStep,
     FutilityStep
     DEF ArmInv
<1> QED  BY <1>1, ArmInvInit, PTL DEF Spec

\* For every slice and any number of crashes: no verdict compares the grade of a
\* task whose grader or sandbox died (_GraderGuard._exclude before the row).
THEOREM PlaceholdersAreNeverScored == Spec => []PlaceholderNeverScored
<1>1. ArmInv => PlaceholderNeverScored
  <2> SUFFICES ASSUME ArmInv, pc = "judged", NEW t \in Compared(placed), placed[t].dead PROVE FALSE
    BY DEF PlaceholderNeverScored, ArmInv, ArmTypes, Row, Compared
  <2>1. t \in Tasks /\ placed[t] # NONE  BY DEF Compared
  <2>2. t \in failed  BY <2>1 DEF ArmInv, Durable, DeadTasks
  <2> QED  BY <2>2 DEF Compared
<1> QED  BY <1>1, ArmInvariant, PTL

\* For every slice and any number of crashes: a row an earlier attempt left
\* readable is the row the verdict reads (_arm's resume, futile tail included).
THEOREM PaidRowsAreKept == Spec => []PaidRowsKept
<1>1. ArmInv => PaidRowsKept
  <2> SUFFICES ASSUME ArmInv, pc \in {"done", "judged"}, NEW t \in Tasks, resumed[t] # NONE
               PROVE placed[t] = resumed[t]
    BY DEF PaidRowsKept
  <2>1. t < index  BY TasksIndex DEF ArmInv, Kept, Tasks
  <2> QED  BY <2>1 DEF ArmInv, Kept
<1> QED  BY <1>1, ArmInvariant, PTL

\* For every slice, allowance and width, and any number of crashes: exhaustion binds.
\* A batch only runs while what is known to be spent leaves something of the
\* snapshot (_arm's allowance).
THEOREM ExhaustionBinds == Spec => []AllowanceBinds
<1>1. ArmInv => AllowanceBinds
  <2> SUFFICES ASSUME ArmInv, pc = "running"
               PROVE  SumFunctionOnSet(Known, Tasks \ batch) < Budget
    BY DEF AllowanceBinds
  <2>1. remaining = Budget - SumFunctionOnSet(Known, Tasks \ batch) /\ remaining > 0
    BY DEF ArmInv, Placing, Money
  <2>2. SumFunctionOnSet(Known, Tasks \ batch) \in Int
    BY TasksFinite, KnownIs, SumType DEF ArmInv
  <2> QED  BY <2>1, <2>2, ArmAssumption
<1> QED  BY <1>1, ArmInvariant, PTL

\* For every slice, king and number of crashes: an arm abandoned as futile could
\* not have won with whatever tail it was not given (best_possible_final against
\* adjudicate's pairing).
THEOREM AbandonedCannotWin == Spec => []FutileCannotWin
<1>1. ArmInv => FutileCannotWin
  <2> SUFFICES ASSUME ArmInv, pc = "judged", Abandoned, failed = judgedWith, ~OwnClockTail
               PROVE  ~Beats(BestContinuation)
    BY DEF FutileCannotWin
  <2> DEFINE B == BestContinuation
  <2>1. ArmTypes /\ RecordTypes /\ Kept /\ Placing /\ HandLost  BY DEF ArmInv, Futility
  <2>2. \A t \in Tasks : placed[t] \in Row /\ placed[t] # NONE
    BY <2>1, TasksIndex DEF Kept, Placing, Attempting, ArmTypes, Tasks
  <2>3. InHand = [t \in Tasks |-> placed[t]]  BY <2>2 DEF InHand
  <2>4. Lost(InHand)
    <3>1. judgedWith # NONE  BY <2>1, NotNone DEF RecordTypes
    <3>2. Fixed  BY <3>1 DEF Fixed
    <3>3. FutileInHand  BY <2>3 DEF Abandoned, FutileInHand
    <3> QED  BY <2>1, <3>2, <3>3 DEF HandLost, Attempting
  <2>5. \A t \in Tasks : /\ B[t] \in Row /\ B[t] # NONE /\ B[t].why = placed[t].why
                         /\ Value(B[t]) <= Potential(InHand[t])
    <3> SUFFICES ASSUME NEW t \in Tasks
                 PROVE  /\ B[t] \in Row /\ B[t] # NONE /\ B[t].why = placed[t].why
                        /\ Value(B[t]) <= Potential(InHand[t])
      OBVIOUS
    <3>1. placed[t] \in Row /\ placed[t] # NONE /\ InHand[t] = placed[t]  BY <2>2, <2>3
    <3>2. B[t] = IF placed[t].why = "futile" THEN [placed[t] EXCEPT !.q = 1] ELSE placed[t]
      BY <3>1 DEF BestContinuation
    <3>3. B[t] \in Row /\ B[t].why = placed[t].why  BY <3>1, <3>2 DEF Row
    <3>4. B[t] # NONE  BY <3>3, UnreachedRow
    <3> HIDE DEF B
    <3>5. Value(B[t]) \in Int /\ Value(B[t]) <= Worth  BY <3>3, ValueType
    <3>6. CASE placed[t].why = "futile"
      <4>1. Potential(InHand[t]) = Worth  BY <3>1, <3>6 DEF Potential
      <4> QED  BY <3>3, <3>4, <3>5, <4>1
    <3>7. CASE placed[t].why # "futile"
      <4>1. Potential(InHand[t]) = Value(B[t])  BY <3>1, <3>2, <3>7 DEF Potential
      <4> QED  BY <3>3, <3>4, <3>5, <4>1
    <3> QED  BY <3>6, <3>7
  <2> HIDE DEF B
  <2>6. Compared(B) = KeptThen
    <3>1. \A t \in Tasks : B[t].why # "clock"  BY <2>2, <2>5 DEF OwnClockTail
    <3> QED  BY <2>5, <3>1 DEF Compared, KeptThen
  <2>7. Points(B, KeptThen) <= Ceiling(InHand, KeptThen) /\ Points(B, KeptThen) \in Int
    <3> DEFINE V == [t \in Tasks |-> Value(B[t])]
               P == [t \in Tasks |-> Potential(InHand[t])]
    <3>1. KeptThen \subseteq Tasks /\ IsFiniteSet(KeptThen)  BY TasksFinite DEF KeptThen
    <3>2. \A t \in KeptThen : V[t] \in Int /\ P[t] \in Int /\ V[t] <= P[t]
      BY <2>1, <2>5, <3>1, ValueType, InHandType
    <3> HIDE DEF V, P
    <3>3. SumFunctionOnSet(V, KeptThen) <= SumFunctionOnSet(P, KeptThen)  BY <3>1, <3>2, SumMonotone
    <3>4. SumFunctionOnSet(V, KeptThen) \in Int  BY <3>1, <3>2, SumType
    <3> QED  BY <3>3, <3>4 DEF Points, Ceiling, V, P
  <2>8. Ceiling(InHand, KeptThen) \in Int /\ Bar(KeptThen) \in Int
    BY <2>1, InHandType, CeilingType, BarType DEF KeptThen
  <2>9. ~(Points(B, KeptThen) > Bar(KeptThen))  BY <2>4, <2>7, <2>8 DEF Lost
  <2> QED  BY <2>6, <2>9 DEF Beats, B
<1> QED  BY <1>1, ArmInvariant, PTL
=============================================================================
