---------------------------- MODULE ChainProofs -----------------------------
(* Proofs about what the validator reads and writes on chain:
   the committed schedule (Schedule) and its launch arithmetic (World), the weights
   (WeightKeeper) and who they pay (Emissions). *)
EXTENDS Schedule, WeightKeeper, Sums

(***************************************************************************)
(* Proofs about the window file.  A file that an arm was run on is never   *)
(* replaced: the daemon writes only where its own look found none, and     *)
(* nobody else replaces a file at all.  So whatever ran in a window ran on *)
(* the file that is there now, in any process, under any configuration.    *)
(***************************************************************************)
ScheduleTypeInv ==
  /\ bucket = [w \in Windows |-> bucket[w]]
  /\ ran = [w \in Windows |-> ran[w]]
  /\ run = [window |-> run.window, at |-> run.at, opened |-> run.opened]
  /\ run.at \in {"idle", "look", "build", "load", "arms", "ran"}

\* A loop has a process, whose root on chain was its own schedule, and a window.
ProcessInv ==
  /\ daemon # NONE => daemon.root = daemon.manifest
  /\ run.at # "idle" => daemon # NONE /\ run.window \in Windows

\* Arms run on the file that is there, and that file is the window's own entry of the root.
OpenInv ==
  run.at \in {"arms", "ran"} =>
    /\ bucket[run.window] # NONE
    /\ run.opened.slice = bucket[run.window].slice
    /\ run.opened.catalog = bucket[run.window].catalog
    /\ \E entry \in daemon.root :
         entry.epoch = run.window /\ run.opened.slice = SliceOf(entry, Nonce[run.window])

\* What ran, ran on the file that is there; a daemon about to write one has run nothing.
RanInv ==
  /\ \A w \in Windows : \A a \in ran[w] :
       bucket[w] # NONE /\ a.slice = bucket[w].slice /\ a.catalog = bucket[w].catalog
  /\ run.at = "build" => ran[run.window] = {}

ScheduleInv == ScheduleTypeInv /\ ProcessInv /\ OpenInv /\ RanInv /\ RunsAsCommitted

\* The first state satisfies the invariant.
LEMMA ScheduleStart == ScheduleInit => ScheduleInv
BY DEF ScheduleInit, Idle, ScheduleInv, ScheduleTypeInv, ProcessInv, OpenInv, RanInv, RunsAsCommitted

\* Where nothing ran and the loop is not in the window's arms, a file may come and go.
LEMMA FileComes ==
  ASSUME ScheduleInv, NEW w \in Windows, NEW file, bucket' = [bucket EXCEPT ![w] = file],
         ran[w] = {}, run.at \in {"arms", "ran"} => run.window # w,
         UNCHANGED <<daemon, run, ran>>
  PROVE  ScheduleInv'
<1>1. \A v \in Windows : v # w => bucket'[v] = bucket[v]
  BY DEF ScheduleInv, ScheduleTypeInv
<1>2. ScheduleTypeInv' /\ ProcessInv' /\ RunsAsCommitted'
  BY DEF ScheduleInv, ScheduleTypeInv, ProcessInv, RunsAsCommitted
<1>3. OpenInv'
  BY <1>1 DEF ScheduleInv, OpenInv, ProcessInv
<1>4. RanInv'
  BY <1>1 DEF ScheduleInv, RanInv
<1> QED
  BY <1>2, <1>3, <1>4 DEF ScheduleInv

\* The loop leaves its window, or dies.
LEMMA GivesUpKeeps ==
  ASSUME ScheduleInv, run' = Idle, daemon' \in {daemon, NONE}, UNCHANGED <<bucket, ran>>
  PROVE  ScheduleInv'
BY DEF Idle, ScheduleInv, ScheduleTypeInv, ProcessInv, OpenInv, RanInv, RunsAsCommitted

\* Opening a window (_open) keeps the invariant.
LEMMA LoadKeeps == ASSUME ScheduleInv, Load PROVE ScheduleInv'
<1> DEFINE file == bucket[run.window]
<1>1. /\ run.at = "load" /\ UNCHANGED <<bucket, daemon, ran>>
      /\ run' = [run EXCEPT !.at = "arms", !.opened = [slice |-> file.slice, catalog |-> file.catalog]]
      /\ Opens(file, run.window)
  BY DEF Load, At
<1>2. run.window \in Windows /\ daemon.root = daemon.manifest
  BY <1>1 DEF ScheduleInv, ProcessInv
<1>3. /\ run'.at = "arms" /\ run'.window = run.window
      /\ run'.opened.slice = file.slice /\ run'.opened.catalog = file.catalog
      /\ run' = [window |-> run'.window, at |-> run'.at, opened |-> run'.opened]
  BY <1>1 DEF ScheduleInv, ScheduleTypeInv
<1>4. \E entry \in daemon.root :
        entry.epoch = run.window /\ file.slice = SliceOf(entry, Nonce[run.window])
  BY <1>1, <1>2 DEF Opens, Verify
<1>5. OpenInv'
  BY <1>1, <1>3, <1>4 DEF OpenInv, Opens
<1>6. ScheduleTypeInv' /\ ProcessInv' /\ RanInv' /\ RunsAsCommitted'
  BY <1>1, <1>2, <1>3 DEF ScheduleInv, ScheduleTypeInv, ProcessInv, RanInv, RunsAsCommitted
<1> QED
  BY <1>5, <1>6 DEF ScheduleInv

\* Running one arm on the opened window keeps the invariant.
LEMMA RunArmKeeps == ASSUME ScheduleInv, RunArm PROVE ScheduleInv'
<1>1. /\ run.at = "arms" /\ UNCHANGED <<bucket, daemon>> /\ run' = [run EXCEPT !.at = "ran"]
      /\ ran' = [ran EXCEPT ![run.window] = @ \cup {Seen}]
  BY DEF RunArm, At, GoTo
<1>2. run.window \in Windows
  BY <1>1 DEF ScheduleInv, ProcessInv
<1>3. /\ run'.at = "ran" /\ run'.window = run.window /\ run'.opened = run.opened
      /\ run' = [window |-> run'.window, at |-> run'.at, opened |-> run'.opened]
  BY <1>1 DEF ScheduleInv, ScheduleTypeInv
<1>4. /\ ran'[run.window] = ran[run.window] \cup {Seen}
      /\ \A v \in Windows : v # run.window => ran'[v] = ran[v]
      /\ ran' = [w \in Windows |-> ran'[w]]
  BY <1>1, <1>2 DEF ScheduleInv, ScheduleTypeInv
<1>5. /\ bucket[run.window] # NONE /\ Seen.slice = bucket[run.window].slice
      /\ Seen.catalog = bucket[run.window].catalog
      /\ \E entry \in Seen.root :
           entry.epoch = run.window /\ Seen.slice = SliceOf(entry, Nonce[run.window])
  BY <1>1 DEF ScheduleInv, OpenInv, Seen
<1>6. OpenInv' /\ ScheduleTypeInv' /\ ProcessInv'
  BY <1>1, <1>2, <1>3, <1>4 DEF ScheduleInv, ScheduleTypeInv, OpenInv, ProcessInv
<1>7. RanInv'
  BY <1>1, <1>3, <1>4, <1>5 DEF ScheduleInv, RanInv
<1>8. RunsAsCommitted'
  <2> SUFFICES ASSUME NEW w \in Windows, NEW a \in ran'[w]
               PROVE  \E entry \in a.root : entry.epoch = w /\ a.slice = SliceOf(entry, Nonce[w])
    BY DEF RunsAsCommitted
  <2>1. CASE a \in ran[w]
    BY <2>1 DEF ScheduleInv, RunsAsCommitted
  <2>2. CASE w = run.window /\ a = Seen
    BY <2>2, <1>5
  <2> QED
    BY <2>1, <2>2, <1>4
<1> QED
  BY <1>6, <1>7, <1>8 DEF ScheduleInv

\* Every step keeps the invariant.
LEMMA ScheduleKeeps == ScheduleInv /\ [ScheduleNext]_scheduleVars => ScheduleInv'
<1> SUFFICES ASSUME ScheduleInv, [ScheduleNext]_scheduleVars PROVE ScheduleInv'
  OBVIOUS
<1>1. CASE UNCHANGED <<bucket, daemon, run, ran>>
  BY <1>1 DEF ScheduleInv, ScheduleTypeInv, ProcessInv, OpenInv, RanInv, RunsAsCommitted
<1>2. ASSUME NEW config \in Configs, Start(config)
      PROVE  ScheduleInv'
  <2>1. run.at = "idle" /\ UNCHANGED <<bucket, run, ran>>
        /\ daemon' = [pins |-> Pins(config), manifest |-> Manifest(config), root |-> slot]
        /\ slot = Manifest(config)
    BY <1>2 DEF Start, Committed, ScheduleInv, ProcessInv
  <2> QED
    BY <2>1 DEF ScheduleInv, ScheduleTypeInv, ProcessInv, OpenInv, RanInv, RunsAsCommitted
<1>3. ASSUME NEW w \in Windows, NEW config \in Configs, NEW e \in Windows, NEW nonce, NEW signed,
             HandPublish(w, config, e, nonce, signed)
      PROVE  ScheduleInv'
  <2> DEFINE file == [Build(EntryOf(Manifest(config), e), Pins(config).catalog, nonce)
                        EXCEPT !.signed = signed, !.epoch = w]
  <2>1. /\ bucket[w] = NONE /\ bucket' = [bucket EXCEPT ![w] = file]
        /\ UNCHANGED <<daemon, run, ran>>
    BY <1>3 DEF HandPublish
  <2>2. ran[w] = {} /\ (run.at \in {"arms", "ran"} => run.window # w)
    BY <2>1 DEF ScheduleInv, RanInv, OpenInv
  <2> HIDE DEF file
  <2> QED
    BY <2>1, <2>2, FileComes
<1>4. CASE Step
  <2>1. UNCHANGED <<bucket, daemon, ran>> /\ daemon # NONE /\ WindowAt \in Windows
        /\ run' = [window |-> WindowAt, at |-> "look", opened |-> NONE]
    BY <1>4 DEF Step, WindowAt
  <2> QED
    BY <2>1 DEF ScheduleInv, ScheduleTypeInv, ProcessInv, OpenInv, RanInv, RunsAsCommitted
<1>5. ASSUME NEW fails \in BOOLEAN, Look(fails)
      PROVE  ScheduleInv'
  <2>1. /\ UNCHANGED <<bucket, daemon, ran>> /\ run.at = "look"
        /\ run'.at \in {"build", "load"} /\ run'.window = run.window
        /\ run' = [window |-> run'.window, at |-> run'.at, opened |-> run'.opened]
        /\ run'.at = "build" => bucket[run.window] = NONE
    BY <1>5 DEF Look, At, GoTo, AfterLook, ScheduleInv, ScheduleTypeInv
  <2>2. run'.at = "build" => ran[run.window] = {}
    BY <2>1 DEF ScheduleInv, RanInv, ProcessInv
  <2> QED
    BY <2>1, <2>2 DEF ScheduleInv, ScheduleTypeInv, ProcessInv, OpenInv, RanInv, RunsAsCommitted
\* A file of its own, where nothing ran: the loop goes on to read it back, or gives up.
<1>6. CASE Publish \/ PublishRaises
  <2>1. run.at = "build" /\ UNCHANGED <<daemon, ran>> /\ run.window \in Windows
        /\ ran[run.window] = {}
    BY <1>6 DEF Publish, PublishRaises, At, ScheduleInv, ProcessInv, RanInv
  <2>2. \A v \in Windows : v # run.window => bucket'[v] = bucket[v]
    BY <1>6, <2>1 DEF Publish, PublishRaises, ScheduleInv, ScheduleTypeInv
  <2>3. bucket' = [w \in Windows |-> bucket'[w]]
    BY <1>6, <2>1 DEF Publish, PublishRaises, ScheduleInv, ScheduleTypeInv
  <2>4. /\ run'.at \in {"load", "idle"} /\ (run'.at = "load" => run'.window = run.window)
        /\ run' = [window |-> run'.window, at |-> run'.at, opened |-> run'.opened]
    BY <1>6 DEF Publish, PublishRaises, GoTo, GivesUp, Idle, ScheduleInv, ScheduleTypeInv
  <2>5. ScheduleTypeInv' /\ ProcessInv' /\ OpenInv' /\ RunsAsCommitted'
    BY <2>1, <2>3, <2>4 DEF ScheduleInv, ScheduleTypeInv, ProcessInv, OpenInv, RunsAsCommitted
  <2>6. RanInv'
    BY <2>1, <2>2, <2>4 DEF ScheduleInv, RanInv
  <2> QED
    BY <2>5, <2>6 DEF ScheduleInv
<1>7. CASE Crash \/ WindowUnavailable \/ StepFails \/ Settle
  BY <1>7, GivesUpKeeps DEF Crash, WindowUnavailable, StepFails, Settle, GivesUp
<1> QED
  BY <1>1, <1>2, <1>3, <1>4, <1>5, <1>6, <1>7, LoadKeeps, RunArmKeeps
     DEF ScheduleNext, Works, scheduleVars, CommitSchedule, Advance

\* The file, the loop that opened it and what ran on it, together.
THEOREM ScheduleInvariant == ScheduleSpec => []ScheduleInv
  BY ScheduleStart, ScheduleKeeps, PTL DEF ScheduleSpec

\* All the arms of a window ran on one slice and one catalog, whatever the owner re-committed or
\* restarted with in the middle of it (_publish_window never replaces a file).
THEOREM OneWorld == ScheduleSpec => []OneWorldPerWindow
<1>1. ScheduleInv => OneWorldPerWindow
  BY DEF ScheduleInv, RanInv, OneWorldPerWindow
<1> QED
  BY <1>1, ScheduleInvariant, PTL

\* Every arm ran the slice of the window's own entry of the root its daemon found on chain, drawn
\* with the window's own nonce, whoever put the file (window.verify, _open).  The entry names no
\* prices: that the arms of a window ran on one catalog is OneWorld.
THEOREM RanAsCommitted == ScheduleSpec => []RunsAsCommitted
<1>1. ScheduleInv => RunsAsCommitted
  BY DEF ScheduleInv
<1> QED
  BY <1>1, ScheduleInvariant, PTL

(***************************************************************************)
(* Proofs about the weight writes.  The state lock makes every critical    *)
(* section the only one: no history can change under a slate that waits to *)
(* be written.  The gate is never shorter than what is left of the rate    *)
(* limit once a background write was refused, so a second one finds the    *)
(* chain open.  What a slate holds is never expanded: the arguments need   *)
(* only what it was computed from.                                         *)
(***************************************************************************)

WriterPlaces == {"idle", "locked", "refreshing", "settling", "settled", "writing", "publishing"}

WeightsTypeInv ==
  /\ lock \in Threads \cup {NONE}
  /\ at \in [Threads -> WriterPlaces]
  /\ slate = [t \in Threads |-> slate[t]]
  /\ read = [t \in Threads |-> read[t]]
  /\ lag \in [Threads -> Nat]
  /\ age \in 0..(RateLimit + 1)
  /\ refused \in BOOLEAN

\* One thread at a time is in a critical section, and only there does it hold a slate.
LockInv ==
  \A t \in Threads :
    /\ at[t] # "idle" => lock = t
    /\ slate[t] # NONE => at[t] \in {"writing", "publishing"}

\* After a refusal the gate covers the rest of the limit; who got past it finds none left.
GateInv ==
  refused =>
    /\ age = RateLimit + 1 \/ (gate \in Nat /\ gate + age >= RateLimit + 1)
    /\ \A t \in Threads : at[t] = "writing" => age = RateLimit + 1

WeightsInv == WeightsTypeInv /\ LockInv /\ PaysHistory /\ GateInv

\* The first state satisfies the invariant.
LEMMA WeightsStart == WeightsInit => WeightsInv
<1> SUFFICES ASSUME WeightsInit PROVE WeightsInv
  OBVIOUS
<1>1. WeightsTypeInv
  <2>1. RateLimit + 1 \in 0..(RateLimit + 1)
    BY LaunchAssumption
  <2>2. lag \in [Threads -> Nat] /\ at \in [Threads -> WriterPlaces]
    BY DEF WeightsInit, WriterPlaces
  <2> QED
    BY <2>1, <2>2 DEF WeightsInit, WeightsTypeInv
<1>3. LockInv
  BY DEF WeightsInit, LockInv
<1>2. PaysHistory /\ GateInv
  BY DEF WeightsInit, PaysHistory, GateInv
<1> QED
  BY <1>1, <1>2, <1>3 DEF WeightsInv

\* Steps of a thread that leaves the lock without a write.
LEMMA SkipKeeps ==
  ASSUME WeightsInv, NEW t \in Threads, lock = t, Skip(t)
  PROVE  WeightsTypeInv' /\ LockInv' /\ GateInv' /\ slate' = [slate EXCEPT ![t] = NONE]
         /\ \A u \in Threads : slate'[u] = NONE
<1>1. \A u \in Threads : u # t => at[u] = "idle" /\ slate[u] = NONE
  BY DEF WeightsInv, LockInv
<1>2. WeightsTypeInv'
  BY DEF WeightsInv, WeightsTypeInv, Skip, Release, chain, WriterPlaces
<1>3. \A u \in Threads : at'[u] = "idle" /\ slate'[u] = NONE
  BY <1>1 DEF Skip, Release, WeightsInv, WeightsTypeInv
<1>4. LockInv' /\ GateInv'
  BY <1>3 DEF LockInv, GateInv, Skip, chain, memory, WeightsInv
<1> QED
  BY <1>2, <1>3, <1>4 DEF Skip, Release

\* Steps of a thread that has computed a slate on the metagraph as it is.
LEMMA ComputeKeeps ==
  ASSUME WeightsInv, NEW t \in Threads, lock = t, NEW s, NEW pc \in {"writing", "publishing"},
         Compute(t, s, pc), refused /\ pc = "writing" => age = RateLimit + 1
  PROVE  /\ WeightsTypeInv' /\ LockInv' /\ GateInv'
         /\ \A u \in Threads : u # t => slate'[u] = NONE
         /\ slate'[t] = s /\ read'[t] = hotkeyOf
<1>1. \A u \in Threads : u # t => at[u] = "idle" /\ slate[u] = NONE
  BY DEF WeightsInv, LockInv
<1>2. WeightsTypeInv'
  BY DEF WeightsInv, WeightsTypeInv, Compute, chain, WriterPlaces
<1>3. /\ \A u \in Threads : u # t => at'[u] = "idle" /\ slate'[u] = NONE
      /\ at'[t] = pc /\ slate'[t] = s /\ read'[t] = hotkeyOf
  BY <1>1 DEF Compute, WeightsInv, WeightsTypeInv
<1>4. LockInv' /\ GateInv'
  BY <1>3 DEF LockInv, GateInv, Compute, chain, memory, WeightsInv
<1> QED
  BY <1>2, <1>3, <1>4

\* What is due is past the gate, so after a refusal it is past the limit.
LEMMA DueIsOpen ==
  ASSUME WeightsInv, NEW s, Due(s), refused
  PROVE  age = RateLimit + 1
BY LaunchAssumption DEF WeightsInv, WeightsTypeInv, GateInv, Due

\* The keeper thread (_keep_weights_once) keeps the invariant.
LEMMA KeeperKeeps ==
  ASSUME WeightsInv, Keeper
  PROVE  WeightsInv'
<1>1. CASE KeeperEnters
  <2>1. \A t \in Threads : at[t] = "idle" /\ slate[t] = NONE
    BY <1>1, NobodyHoldsTheLock DEF KeeperEnters, WeightsInv, LockInv
  <2>2. WeightsTypeInv' /\ LockInv'
    BY <1>1, <2>1 DEF KeeperEnters, WeightsInv, WeightsTypeInv, LockInv, Threads, WriterPlaces, chain
  <2>3. PaysHistory' /\ GateInv'
    BY <1>1, <2>1 DEF KeeperEnters, WeightsInv, WeightsTypeInv, PaysHistory, GateInv, Threads, chain, memory
  <2> QED
    BY <2>2, <2>3 DEF WeightsInv
<1>2. CASE KeeperDecides
  <2>1. lock = "keeper" /\ "keeper" \in Threads /\ UNCHANGED history
    BY <1>2 DEF KeeperDecides, WeightsInv, LockInv, Threads
  <2>2. CASE Due(CurrentSlate)
    <3>1. Compute("keeper", CurrentSlate, "writing")
      BY <1>2, <2>2 DEF KeeperDecides
    <3>2. refused => age = RateLimit + 1
      BY <2>2, DueIsOpen
    <3>3. /\ WeightsTypeInv' /\ LockInv' /\ GateInv'
          /\ \A u \in Threads : u # "keeper" => slate'[u] = NONE
          /\ slate'["keeper"] = CurrentSlate /\ read'["keeper"] = hotkeyOf
      BY <2>1, <3>1, <3>2, ComputeKeeps
    <3>4. PaysHistory'
      BY <2>1, <3>3 DEF PaysHistory, CurrentSlate, SlateOn, KingOn, history
    <3> QED
      BY <3>3, <3>4 DEF WeightsInv
  <2>3. CASE Skip("keeper")
    BY <2>1, <2>3, SkipKeeps DEF WeightsInv, PaysHistory
  <2> QED
    BY <1>2, <2>2, <2>3 DEF KeeperDecides
<1>3. CASE KeeperFails
  <2>1. lock = "keeper" /\ "keeper" \in Threads /\ Skip("keeper")
    BY <1>3 DEF KeeperFails, WeightsInv, LockInv, Threads
  <2> QED
    BY <2>1, SkipKeeps DEF WeightsInv, PaysHistory
<1> QED
  BY <1>1, <1>2, <1>3 DEF Keeper

\* The main thread keeps the invariant.
LEMMA LoopKeeps ==
  ASSUME WeightsInv, Loop
  PROVE  WeightsInv'
<1> "loop" \in Threads /\ Threads = {"loop", "keeper"}
  BY DEF Threads
<1>1. ASSUME NEW pc \in {"refreshing", "settling"}, LoopEnters(pc)
      PROVE  WeightsInv'
  <2>1. \A t \in Threads : at[t] = "idle" /\ slate[t] = NONE
    BY <1>1, NobodyHoldsTheLock DEF LoopEnters, WeightsInv, LockInv
  <2>2. WeightsTypeInv' /\ LockInv'
    BY <1>1, <2>1 DEF LoopEnters, WeightsInv, WeightsTypeInv, LockInv, WriterPlaces, chain
  <2>3. PaysHistory' /\ GateInv'
    BY <1>1, <2>1 DEF LoopEnters, WeightsInv, WeightsTypeInv, PaysHistory, GateInv, chain, memory
  <2> QED
    BY <2>2, <2>3 DEF WeightsInv
\* The reversion is recorded as it was already paid: the king it leaves pays the same slate.
<1>2. ASSUME ResolveReign, NEW m, m = hotkeyOf
      PROVE  SlateOn(m)' = SlateOn(m)
  BY <1>2 DEF ResolveReign, SlateOn, KingOn
<1>3. CASE LoopRefreshes
  <2>1. lock = "loop" /\ ResolveReign
    BY <1>3 DEF LoopRefreshes, WeightsInv, LockInv
  <2>2. CASE Due(CurrentSlate)
    <3>1. Compute("loop", CurrentSlate, "writing")
      BY <1>3, <2>2 DEF LoopRefreshes
    <3>2. refused => age = RateLimit + 1
      BY <2>2, DueIsOpen
    <3>3. /\ WeightsTypeInv' /\ LockInv' /\ GateInv'
          /\ \A u \in Threads : u # "loop" => slate'[u] = NONE
          /\ slate'["loop"] = CurrentSlate /\ read'["loop"] = hotkeyOf
      BY <2>1, <3>1, <3>2, ComputeKeeps
    <3>4. PaysHistory'
      BY <2>1, <3>3, <1>2 DEF PaysHistory, CurrentSlate, SlateOn, KingOn
    <3> QED
      BY <3>3, <3>4 DEF WeightsInv
  <2>3. CASE Skip("loop")
    BY <2>1, <2>3, SkipKeeps DEF WeightsInv, PaysHistory
  <2> QED
    BY <1>3, <2>2, <2>3 DEF LoopRefreshes
<1>4. ASSUME NEW winner \in Hotkeys \cup {NONE}, LoopSettles(winner)
      PROVE  WeightsInv'
  <2>1. \A t \in Threads : slate[t] = NONE
    BY <1>4 DEF LoopSettles, WeightsInv, LockInv
  <2>2. WeightsTypeInv' /\ LockInv'
    BY <1>4, <2>1 DEF LoopSettles, WeightsInv, WeightsTypeInv, LockInv, WriterPlaces, chain
  <2>3. PaysHistory' /\ GateInv'
    BY <1>4, <2>1 DEF LoopSettles, WeightsInv, WeightsTypeInv, PaysHistory, GateInv, chain, memory
  <2> QED
    BY <2>2, <2>3 DEF WeightsInv
<1>5. CASE LoopComputes
  <2>1. lock = "loop" /\ ResolveReign /\ Compute("loop", CurrentSlate, "publishing")
    BY <1>5 DEF LoopComputes, WeightsInv, LockInv
  <2>2. /\ WeightsTypeInv' /\ LockInv' /\ GateInv'
        /\ \A u \in Threads : u # "loop" => slate'[u] = NONE
        /\ slate'["loop"] = CurrentSlate /\ read'["loop"] = hotkeyOf
    BY <2>1, ComputeKeeps
  <2>3. PaysHistory'
    BY <2>1, <2>2, <1>2 DEF PaysHistory, CurrentSlate, SlateOn, KingOn
  <2> QED
    BY <2>2, <2>3 DEF WeightsInv
<1>6. CASE LoopFails
  <2>1. lock = "loop" /\ Skip("loop")
    BY <1>6 DEF LoopFails, WeightsInv, LockInv
  <2> QED
    BY <2>1, SkipKeeps DEF WeightsInv, PaysHistory
<1>7. ASSUME NEW h \in Hotkeys \cup {KING0}, LoopCrowns(h)
      PROVE  WeightsInv'
  <2>1. \A t \in Threads : slate[t] = NONE
    BY <1>7, NobodyHoldsTheLock DEF LoopCrowns, WeightsInv, LockInv
  <2>2. WeightsTypeInv' /\ LockInv' /\ PaysHistory' /\ GateInv'
    BY <1>7, <2>1
       DEF LoopCrowns, WeightsInv, WeightsTypeInv, LockInv, PaysHistory, GateInv, chain, threads, memory
  <2> QED
    BY <2>2 DEF WeightsInv
<1> QED
  BY <1>1, <1>3, <1>4, <1>5, <1>6, <1>7 DEF Loop

\* Blocks, registrations and deregistrations keep the invariant.
LEMMA WorldKeeps ==
  ASSUME WeightsInv, World
  PROVE  WeightsInv'
<1>1. CASE Tick
  <2>1. WeightsTypeInv'
    BY <1>1, LaunchAssumption DEF Tick, WeightsInv, WeightsTypeInv, AtMost
  <2>2. LockInv' /\ PaysHistory'
    BY <1>1 DEF Tick, WeightsInv, LockInv, PaysHistory, SlateOn, KingOn, history
  <2>3. GateInv'
    BY <1>1, LaunchAssumption DEF Tick, WeightsInv, WeightsTypeInv, GateInv, AtMost, AtLeast0
  <2> QED
    BY <2>1, <2>2, <2>3 DEF WeightsInv
<1>2. ASSUME UNCHANGED <<onChain, age, history, threads, memory, refused, crashes>>
      PROVE  WeightsInv'
  BY <1>2 DEF WeightsInv, WeightsTypeInv, LockInv, PaysHistory, GateInv, SlateOn, KingOn, history, threads, memory
<1> QED
  BY <1>1, <1>2 DEF World, Deregister, Register

\* A restart (_seed_weight_clock) keeps the invariant.
LEMMA RestartKeeps ==
  ASSUME WeightsInv, Restart
  PROVE  WeightsInv'
BY DEF Restart, WeightsInv, WeightsTypeInv, LockInv, PaysHistory, GateInv, WriterPlaces, chain

\* A write leaves the lock, whatever came of it.  Only a refusal sets the history bit, and with it
\* a gate that ends with the limit.
LEMMA WriteKeeps ==
  ASSUME WeightsInv, NEW t \in Threads, WriteWeights(t)
  PROVE  WeightsInv'
<1>1. at[t] \in {"writing", "publishing"} /\ lock = t /\ Release(t)
  BY DEF WriteWeights, WeightsInv, LockInv
<1>2. \A u \in Threads : u # t => at[u] = "idle" /\ slate[u] = NONE
  BY <1>1 DEF WeightsInv, LockInv
<1>3. \A u \in Threads : at'[u] = "idle" /\ slate'[u] = NONE
  BY <1>1, <1>2 DEF Release, WeightsInv, WeightsTypeInv
<1>4. age' = age \/ (age' = 0 /\ refused' = FALSE)
  BY DEF WriteWeights, Landed, RateLimited, Raised, Included
<1>5. refused' \in BOOLEAN
  BY DEF WriteWeights, Landed, RateLimited, Raised, Included, WeightsInv, WeightsTypeInv
<1>6. WeightsTypeInv'
  <2>1. age' \in 0..(RateLimit + 1)
    BY <1>4, LaunchAssumption DEF WeightsInv, WeightsTypeInv
  <2>2. lock' = NONE /\ at' \in [Threads -> WriterPlaces] /\ lag' \in [Threads -> Nat]
        /\ slate' = [u \in Threads |-> slate'[u]] /\ read' = [u \in Threads |-> read'[u]]
    BY <1>1 DEF WeightsInv, WeightsTypeInv, Release, WriterPlaces
  <2> QED
    BY <1>5, <2>1, <2>2 DEF WeightsTypeInv
<1>7. ASSUME refused'
      PROVE  age' = RateLimit + 1 \/ (gate' \in Nat /\ gate' + age' >= RateLimit + 1)
  <2>1. CASE RateLimited(t)
    <3>1. age <= RateLimit /\ age' = age /\ ~ (refused /\ at[t] = "writing")
      BY <2>1, LaunchAssumption DEF RateLimited, Limited, WeightsInv, WeightsTypeInv, GateInv
    <3>2. gate' = RateLimit - age + 1
      BY <2>1, <3>1, <1>1, <1>7 DEF RateLimited, Wait
    <3> QED
      BY <3>1, <3>2, LaunchAssumption DEF WeightsInv, WeightsTypeInv
  <2>2. CASE Raised(t)
    <3>1. refused /\ at[t] = "writing" /\ age' = age
      BY <2>2, <1>1, <1>7 DEF Raised, Included
    <3> QED
      BY <3>1 DEF WeightsInv, GateInv
  <2> QED
    BY <1>7, <2>1, <2>2 DEF WriteWeights, Landed, Included
<1>8. LockInv' /\ PaysHistory' /\ GateInv'
  BY <1>3, <1>7 DEF LockInv, PaysHistory, GateInv
<1> QED
  BY <1>6, <1>8 DEF WeightsInv

\* Every step keeps the invariant.
LEMMA WeightsStep == WeightsInv /\ [WeightsNext]_weightsVars => WeightsInv'
<1> SUFFICES ASSUME WeightsInv, [WeightsNext]_weightsVars PROVE WeightsInv'
  OBVIOUS
<1>1. CASE UNCHANGED weightsVars
  BY <1>1 DEF weightsVars, chain, history, threads, memory, WeightsInv, WeightsTypeInv, LockInv, PaysHistory, GateInv,
              SlateOn, KingOn
<1> QED
  BY <1>1, KeeperKeeps, LoopKeeps, WorldKeeps, RestartKeeps, WriteKeeps DEF WeightsNext

\* The lock, the slates in hand and the gate, together.
THEOREM KeeperInvariant == WeightsSpec => []WeightsInv
  BY WeightsStart, WeightsStep, PTL DEF WeightsSpec

\* What either thread is about to write is what the persisted history pays on the metagraph it
\* read: no interleaving of the window, the idle refresh, the keeper, a restart and the chain
\* lands a half-settled window (_write_weights under the state lock).
THEOREM SlatesPayHistory == WeightsSpec => []PaysHistory
<1>1. WeightsInv => PaysHistory
  BY DEF WeightsInv
<1> QED
  BY <1>1, KeeperInvariant, PTL

\* Between two updates of the chain at most one background write is refused (_retry_at_block is
\* set from the wait the refusal carries, and _weights_due honours it).
THEOREM RefusedOnce == WeightsSpec => OneRefusal
<1>1. WeightsInv => \A t \in Threads : at[t] = "writing" /\ RateLimited(t) => ~ refused
  BY LaunchAssumption DEF WeightsInv, WeightsTypeInv, GateInv, RateLimited, Limited
<1>2. WeightsInv /\ [WeightsNext]_weightsVars =>
       [\A t \in Threads : at[t] = "writing" /\ RateLimited(t) => ~ refused]_weightsVars
  BY <1>1
<1> QED
  BY <1>2, KeeperInvariant, PTL DEF WeightsSpec, OneRefusal

(***************************************************************************)
(* Proofs about the launch arithmetic of the cadence (World).              *)
(***************************************************************************)

\* How many windows a queue takes: the least number of full windows it fits in.
LEMMA WindowsOf ==
  ASSUME NEW depth \in Nat, NEW duels \in Nat \ {0}
  PROVE  /\ WindowsToDrain(depth, duels) \in Nat
         /\ duels * WindowsToDrain(depth, duels) <= depth + duels - 1
         /\ depth <= duels * WindowsToDrain(depth, duels)
<1> DEFINE x == depth + duels - 1
           q == x \div duels
<1>1. x \in Nat /\ q \in Int /\ duels * q <= x /\ x < duels * q + duels  OBVIOUS
<1>2. WindowsToDrain(depth, duels) = q  BY DEF WindowsToDrain
<1> HIDE DEF q
<1>3. depth <= duels * q /\ duels * q <= depth + duels - 1
  <2>1. duels * q \in Int  BY <1>1
  <2> QED  BY <1>1, <2>1
<1>4. q \in Nat
  <2>1. duels * q + duels > 0  BY <1>1
  <2>2. q >= 0  BY <1>1, <2>1
  <2> QED  BY <1>1, <2>2
<1> QED  BY <1>2, <1>3, <1>4

\* A longer queue takes no fewer windows.
LEMMA LongerTakesNoFewer ==
  ASSUME NEW depth \in Nat, NEW place \in 0 .. depth, NEW duels \in Nat \ {0}
  PROVE  WindowsToDrain(place, duels) <= WindowsToDrain(depth, duels)
<1> DEFINE p == WindowsToDrain(place, duels)
           d == WindowsToDrain(depth, duels)
<1>1. /\ p \in Nat /\ d \in Nat
      /\ duels * p <= place + duels - 1 /\ depth <= duels * d
  <2>1. place \in Nat  OBVIOUS
  <2> QED  BY <2>1, WindowsOf
<1> HIDE DEF p, d
<1>2. duels * p < duels * d + duels
  <2>1. duels * p \in Int /\ duels * d \in Int  BY <1>1
  <2> QED  BY <1>1, <2>1
<1>3. p < d + 1
  <2>1. duels * (p - d - 1) < 0  BY <1>1, <1>2
  <2> DEFINE e == p - d - 1
  <2>2. e \in Int /\ duels * e < 0  BY <1>1, <2>1
  <2>3. e < 0
    <3> HIDE DEF e
    <3> QED  BY <2>2
  <2> QED  BY <1>1, <2>3
<1> QED  BY <1>1, <1>3 DEF p, d

\* QueueFitsImmunity, for every cadence: whoever commits while no more than the depth of the launch
\* check hotkeys wait is still immune when the window that judges it opens, and all through that
\* window (config.check_launch; checked again against the chain's own parameters).
THEOREM LaunchOutlastsTheQueue ==
  ASSUME NEW windowBlocks \in Nat, NEW immunity \in Nat, NEW rateLimit \in Nat, NEW refresh \in Nat,
         NEW depth \in Nat, NEW duels \in Nat \ {0},
         CheckLaunch(windowBlocks, immunity, rateLimit, refresh, depth, duels),
         NEW place \in 1 .. depth, NEW arrival \in 1 .. windowBlocks
  PROVE  (WindowsToDrain(place, duels) * windowBlocks - arrival) + windowBlocks <= immunity
<1> DEFINE p == WindowsToDrain(place, duels)
           d == WindowsToDrain(depth, duels)
<1>1. p \in Nat /\ d \in Nat /\ p <= d
  <2>1. place \in Nat /\ place \in 0 .. depth  OBVIOUS
  <2> QED  BY <2>1, WindowsOf, LongerTakesNoFewer
<1>2. (d + 1) * windowBlocks <= immunity  BY DEF CheckLaunch
<1> HIDE DEF p, d
<1>3. p * windowBlocks <= d * windowBlocks /\ p * windowBlocks \in Nat /\ d * windowBlocks \in Nat
  <2>1. (d - p) * windowBlocks >= 0
    <3>1. d - p \in Nat  BY <1>1
    <3> QED  BY <3>1
  <2>2. (d - p) * windowBlocks = d * windowBlocks - p * windowBlocks  BY <1>1
  <2>3. p * windowBlocks \in Nat /\ d * windowBlocks \in Nat  BY <1>1
  <2> QED  BY <2>1, <2>2, <2>3
<1>4. (d + 1) * windowBlocks = d * windowBlocks + windowBlocks  BY <1>1
<1>5. p * windowBlocks - arrival + windowBlocks <= immunity  BY <1>2, <1>3, <1>4
<1> QED  BY <1>5 DEF p

(***************************************************************************)
(* Proofs about the pension.  The list a fold of the coronations makes is   *)
(* the former kings in the order of their last coronation, at most five;   *)
(* a hotkey's place in it is its rank; and the shares, the king's and one  *)
(* slot's after another, never make up more than the whole.                *)
(***************************************************************************)

\* One turn of the loop of Lineage.pensioners.
Heard(h, list, king) ==
  IF h = king \/ Contains(list, h) \/ Len(list) = Len(PensionShares)
    THEN list ELSE Append(list, h)

\* The loop over any of the coronations, the latest first, as a fact about a function; and up to
\* a number of them.
Hears(g, c, king) ==
  \A s \in SUBSET DOMAIN c :
    g[s] = IF s = {} THEN <<>> ELSE Heard(c[Min(s)], g[s \ {Min(s)}], king)
HearsTo(g, c, king, n) ==
  \A s \in SUBSET DOMAIN c : Cardinality(s) <= n =>
    g[s] = IF s = {} THEN <<>> ELSE Heard(c[Min(s)], g[s \ {Min(s)}], king)

\* The least of some positions is one of them.
LEMMA MinIs ==
  ASSUME NEW s, s \subseteq Nat, s # {}
  PROVE  Min(s) \in s /\ \A m \in s : Min(s) <= m
<1>1. \E x \in s : \A y \in s : x <= y  BY LeastNat
<1> QED  BY <1>1 DEF Min

\* The greatest of some positions is one of them.
LEMMA MaxIs ==
  ASSUME NEW n \in Nat, NEW s, s \subseteq 1 .. n, s # {}
  PROVE  Max(s) \in s /\ \A m \in s : m <= Max(s)
<1> DEFINE N == {n - x : x \in s}
<1>1. N \subseteq Nat /\ N # {}
  <2>1. \A x \in s : n - x \in Nat  OBVIOUS
  <2>2. N # {}  OBVIOUS
  <2> QED  BY <2>1, <2>2
<1>2. PICK d \in N : \A m \in N : d <= m
  <2> HIDE DEF N
  <2> QED  BY <1>1, LeastNat
<1>3. PICK x \in s : d = n - x  OBVIOUS
<1>4. ASSUME NEW y \in s PROVE y <= x
  <2>1. n - y \in N  OBVIOUS
  <2>2. d <= n - y  BY <1>2, <2>1
  <2>3. x \in Nat /\ y \in Nat  OBVIOUS
  <2> HIDE DEF N
  <2> QED  BY <1>3, <2>2, <2>3
<1>5. \E z \in s : \A y \in s : z >= y
  <2>1. \A y \in s : x >= y
    <3>1. \A y \in s : y \in Nat /\ x \in Nat  OBVIOUS
    <3> HIDE DEF N
    <3> QED  BY <1>4, <3>1
  <2> QED  BY <2>1
<1>6. Max(s) \in s /\ \A y \in s : Max(s) >= y  BY <1>5 DEF Max
<1>7. \A y \in s : y \in Nat  OBVIOUS
<1> HIDE DEF N
<1> QED  BY <1>6, <1>7

\* The loop has a result up to every number of coronations.
LEMMA HeardUpTo ==
  ASSUME NEW c, IsFiniteSet(DOMAIN c), DOMAIN c \subseteq Nat, NEW king, NEW n \in Nat
  PROVE  \E g : HearsTo(g, c, king, n)
<1> DEFINE D == DOMAIN c
           Bad == {k \in Nat : ~\E g : HearsTo(g, c, king, k)}
<1>1. \A s \in SUBSET D : IsFiniteSet(s) /\ Cardinality(s) \in Nat
  BY FS_Subset, FS_CardinalityType
<1>2. ASSUME Bad # {} PROVE FALSE
  <2>1. PICK k \in Bad : \A m \in Bad : k <= m
    <3>1. Bad \subseteq Nat  OBVIOUS
    <3> HIDE DEF Bad
    <3> QED  BY <1>2, <3>1, LeastNat
  <2>2. CASE k = 0
    <3> DEFINE g == [s \in SUBSET D |-> <<>>]
    <3>1. \A s \in SUBSET D : Cardinality(s) <= 0 => s = {} /\ g[s] = <<>>
      BY <1>1, FS_EmptySet
    <3>2. HearsTo(g, c, king, 0)  BY <3>1 DEF HearsTo
    <3> QED  BY <2>2, <3>2
  <2>3. CASE k # 0
    <3>1. k - 1 \in Nat /\ k \in Nat  BY <2>3
    <3>2. k - 1 \notin Bad
      <4> HIDE DEF Bad
      <4> QED  BY <2>1, <3>1
    <3>3. PICK g : HearsTo(g, c, king, k - 1)  BY <3>1, <3>2
    <3> DEFINE h == [s \in SUBSET D |->
                      IF s = {} THEN <<>> ELSE Heard(c[Min(s)], g[s \ {Min(s)}], king)]
    <3>4. ASSUME NEW s \in SUBSET D, Cardinality(s) <= k, s # {}
          PROVE  h[s \ {Min(s)}] = g[s \ {Min(s)}]
      <4> DEFINE t == s \ {Min(s)}
      <4>1. Min(s) \in s  BY <3>4, MinIs
      <4>2. IsFiniteSet(s) /\ Cardinality(s) \in Nat  BY <1>1
      <4>3. t \in SUBSET D /\ Cardinality(t) = Cardinality(s) - 1  BY <4>1, <4>2, OneFewer
      <4>4. Cardinality(t) <= k - 1  BY <3>1, <3>4, <4>2, <4>3
      <4>5. g[t] = IF t = {} THEN <<>> ELSE Heard(c[Min(t)], g[t \ {Min(t)}], king)
        BY <3>3, <4>3, <4>4 DEF HearsTo
      <4>6. h[t] = IF t = {} THEN <<>> ELSE Heard(c[Min(t)], g[t \ {Min(t)}], king)
        BY <4>3
      <4> QED  BY <4>5, <4>6
    <3>5. HearsTo(h, c, king, k)
      <4> SUFFICES ASSUME NEW s \in SUBSET D, Cardinality(s) <= k
                   PROVE  h[s] = IF s = {} THEN <<>> ELSE Heard(c[Min(s)], h[s \ {Min(s)}], king)
        BY DEF HearsTo
      <4>1. CASE s = {}  BY <4>1
      <4>2. CASE s # {}
        <5>1. h[s] = Heard(c[Min(s)], g[s \ {Min(s)}], king)  BY <4>2
        <5> QED  BY <3>4, <4>2, <5>1
      <4> QED  BY <4>1, <4>2
    <3> QED  BY <3>5
  <2> QED  BY <2>2, <2>3
<1>3. n \notin Bad  BY <1>2
<1> QED  BY <1>3

\* What Pensioners is: the loop over all of them.
LEMMA PensionersAreHeard ==
  ASSUME NEW c, IsFiniteSet(DOMAIN c), DOMAIN c \subseteq Nat, NEW king
  PROVE  \E g : Hears(g, c, king) /\ g[DOMAIN c] = Pensioners(c, king)
<1> DEFINE D == DOMAIN c
           It == CHOOSE it : it = [s \in SUBSET D |->
                   IF s = {} THEN <<>> ELSE Heard(c[Min(s)], it[s \ {Min(s)}], king)]
<1>1. Pensioners(c, king) = It[D]
  BY DEF Pensioners, FoldRight, MapThenFoldSet, Heard
<1>2. PICK g : HearsTo(g, c, king, Cardinality(D))
  <2>1. Cardinality(D) \in Nat  BY FS_CardinalityType
  <2> HIDE DEF It
  <2> QED  BY <2>1, HeardUpTo
<1>3. \A s \in SUBSET D : Cardinality(s) <= Cardinality(D)  BY FS_Subset
<1> DEFINE h == [s \in SUBSET D |-> g[s]]
<1>4. h = [s \in SUBSET D |->
                   IF s = {} THEN <<>> ELSE Heard(c[Min(s)], h[s \ {Min(s)}], king)]
  <2>1. \A s \in SUBSET D : h[s] = IF s = {} THEN <<>> ELSE Heard(c[Min(s)], h[s \ {Min(s)}], king)
    <3> SUFFICES ASSUME NEW s \in SUBSET D
                 PROVE  h[s] = IF s = {} THEN <<>> ELSE Heard(c[Min(s)], h[s \ {Min(s)}], king)
      OBVIOUS
    <3>1. g[s] = IF s = {} THEN <<>> ELSE Heard(c[Min(s)], g[s \ {Min(s)}], king)
      BY <1>2, <1>3 DEF HearsTo
    <3> QED  BY <3>1
  <2> QED  BY <2>1
<1>5. It = [s \in SUBSET D |->
                   IF s = {} THEN <<>> ELSE Heard(c[Min(s)], It[s \ {Min(s)}], king)]
  BY <1>4
<1> HIDE DEF It
<1>6. Hears(It, c, king)  BY <1>5 DEF Hears
<1> QED  BY <1>1, <1>6

\* When a hotkey was last crowned: a coronation of its, and none after it is.
LEMMA LastIs ==
  ASSUME NEW H, NEW c \in Seq(H), NEW h
  PROVE  /\ LastCrowned(c, h) \in 0 .. Len(c)
         /\ h \in ToSet(c) => LastCrowned(c, h) \in 1 .. Len(c) /\ c[LastCrowned(c, h)] = h
         /\ LastCrowned(c, h) # 0 => h \in ToSet(c)
         /\ \A i \in 1 .. Len(c) : c[i] = h => i <= LastCrowned(c, h)
<1> DEFINE I == {i \in 1 .. Len(c) : c[i] = h}
<1>1. Len(c) \in Nat /\ DOMAIN c = 1 .. Len(c)  OBVIOUS
<1>2. LastCrowned(c, h) = IF I # {} THEN Max(I) ELSE 0  BY DEF LastCrowned, SelectLastInSeq
<1>3. I # {} => Max(I) \in I /\ \A m \in I : m <= Max(I)
  <2>1. I \subseteq 1 .. Len(c)  OBVIOUS
  <2> HIDE DEF I
  <2> QED  BY <1>1, <2>1, MaxIs
<1>4. h \in ToSet(c) <=> I # {}  BY <1>1 DEF ToSet
<1>5. CASE I = {}
  <2>1. LastCrowned(c, h) = 0 /\ h \notin ToSet(c)  BY <1>2, <1>4, <1>5
  <2>2. \A i \in 1 .. Len(c) : c[i] # h  BY <1>5
  <2> QED  BY <1>1, <2>1, <2>2
<1>6. CASE I # {}
  <2>1. LastCrowned(c, h) \in I /\ \A m \in I : m <= LastCrowned(c, h)  BY <1>2, <1>3, <1>6
  <2>2. LastCrowned(c, h) \in 1 .. Len(c) /\ c[LastCrowned(c, h)] = h  BY <2>1
  <2>3. \A i \in 1 .. Len(c) : c[i] = h => i <= LastCrowned(c, h)  BY <2>1
  <2> HIDE DEF I
  <2> QED  BY <1>1, <1>4, <1>6, <2>2, <2>3
<1> QED  BY <1>5, <1>6

\* What holds of the list once the coronations from i on have been heard: at most five former kings,
\* each as of its last coronation, the latest first; and whoever was crowned among them is listed, or
\* five crowned later are.
ListOK(p, c, king, i) ==
  /\ p \in Seq(ToSet(c)) /\ Len(p) <= 5
  /\ \A k \in 1 .. Len(p) : p[k] # king /\ LastCrowned(c, p[k]) >= i
  /\ \A k \in 1 .. Len(p), m \in 1 .. Len(p) :
       k < m => LastCrowned(c, p[k]) > LastCrowned(c, p[m])
  /\ \A h \in ToSet(c) \ {king} : LastCrowned(c, h) >= i =>
       \/ Contains(p, h)
       \/ Len(p) = 5 /\ \A k \in 1 .. 5 : LastCrowned(c, p[k]) > LastCrowned(c, h)

\* One turn of the loop keeps that so.
LEMMA HeardOK ==
  ASSUME NEW H, NEW c \in Seq(H), NEW king, NEW i \in 1 .. Len(c), NEW p, ListOK(p, c, king, i + 1)
  PROVE  ListOK(Heard(c[i], p, king), c, king, i)
<1> DEFINE R(h) == LastCrowned(c, h)
<1>0. i \in Nat /\ Len(c) \in Nat  OBVIOUS
<1>1. /\ p \in Seq(ToSet(c)) /\ Len(p) \in Nat /\ Len(p) <= 5
      /\ \A k \in 1 .. Len(p) : p[k] # king /\ R(p[k]) >= i + 1
      /\ \A k \in 1 .. Len(p), m \in 1 .. Len(p) : k < m => R(p[k]) > R(p[m])
      /\ \A h \in ToSet(c) \ {king} : R(h) >= i + 1 =>
           Contains(p, h) \/ (Len(p) = 5 /\ \A k \in 1 .. 5 : R(p[k]) > R(h))
  <2>1. p \in Seq(ToSet(c)) /\ Len(p) <= 5  BY DEF ListOK
  <2>2. Len(p) \in Nat  BY <2>1
  <2> QED  BY <2>1, <2>2 DEF ListOK
<1>2. \A h : /\ R(h) \in Nat
             /\ h \in ToSet(c) => R(h) \in 1 .. Len(c) /\ c[R(h)] = h
             /\ \A j \in 1 .. Len(c) : c[j] = h => j <= R(h)
  BY LastIs
<1>3. c[i] \in ToSet(c) /\ R(c[i]) >= i
  <2>1. i \in DOMAIN c  OBVIOUS
  <2>2. R(c[i]) \in Nat /\ i <= R(c[i])  BY <1>2
  <2> QED  BY <1>0, <2>1, <2>2 DEF ToSet
<1>4. ASSUME NEW h \in ToSet(c), R(h) >= i PROVE R(h) >= i + 1 \/ h = c[i]
  BY <1>0, <1>2, <1>4
<1>5. Len(PensionShares) = 5  BY DEF PensionShares
<1> HIDE DEF R
<1>6. CASE c[i] = king \/ Contains(p, c[i]) \/ Len(p) = 5
  <2>1. Heard(c[i], p, king) = p  BY <1>5, <1>6 DEF Heard
  <2>2. \A k \in 1 .. Len(p) : p[k] # king /\ R(p[k]) >= i
    BY <1>0, <1>1, <1>2
  <2>3. ASSUME NEW h \in ToSet(c) \ {king}, R(h) >= i
        PROVE  Contains(p, h) \/ (Len(p) = 5 /\ \A k \in 1 .. 5 : R(p[k]) > R(h))
    <3>1. CASE R(h) >= i + 1  BY <1>1, <3>1
    <3>2. CASE ~(R(h) >= i + 1)
      <4>1. h = c[i]  BY <1>4, <2>3, <3>2
      <4>2. CASE Contains(p, c[i])  BY <4>1, <4>2
      <4>3. CASE Len(p) = 5
        <5>1. \A k \in 1 .. 5 : R(p[k]) >= i + 1 /\ R(p[k]) \in Nat  BY <1>1, <1>2, <4>3
        <5>2. R(h) \in Nat  BY <1>2
        <5> QED  BY <1>0, <3>2, <4>3, <5>1, <5>2
      <4> QED  BY <1>6, <4>1, <4>2, <4>3
    <3> QED  BY <3>1, <3>2
  <2>4. ListOK(p, c, king, i)  BY <1>1, <2>2, <2>3 DEF ListOK, R
  <2> QED  BY <2>1, <2>4
<1>7. CASE ~(c[i] = king \/ Contains(p, c[i]) \/ Len(p) = 5)
  <2> DEFINE q == Append(p, c[i])
             n == Len(p)
  <2>1. Heard(c[i], p, king) = q  BY <1>5, <1>7 DEF Heard
  <2>2. /\ q \in Seq(ToSet(c)) /\ Len(q) = n + 1 /\ q[n + 1] = c[i]
        /\ \A k \in 1 .. n : q[k] = p[k]
    BY <1>1, <1>3
  <2>0. n \in Nat /\ n <= 5 /\ n # 5  BY <1>1, <1>7
  <2> HIDE DEF q, n
  <2>3. n \in Nat /\ n + 1 <= 5  BY <2>0
  <2>4. R(c[i]) = i
    <3>1. ~(R(c[i]) >= i + 1)
      <4>1. c[i] \in ToSet(c) \ {king}  BY <1>3, <1>7
      <4> QED  BY <1>1, <1>7, <4>1
    <3>2. R(c[i]) \in Nat  BY <1>2
    <3> QED  BY <1>0, <1>3, <3>1, <3>2
  <2>5. \A k \in 1 .. n : q[k] # king /\ R(q[k]) >= i + 1 /\ R(q[k]) \in Nat
    BY <1>1, <1>2, <2>2 DEF n
  <2>6. ASSUME NEW k \in 1 .. n + 1 PROVE q[k] # king /\ R(q[k]) >= i
    <3>1. CASE k = n + 1
      <4>1. i >= i  BY <1>0
      <4> QED  BY <1>7, <2>2, <2>4, <3>1, <4>1
    <3>2. CASE k # n + 1
      <4>1. k \in 1 .. n  BY <2>3, <3>2
      <4> QED  BY <1>0, <2>5, <4>1
    <3> QED  BY <3>1, <3>2
  <2>7. ASSUME NEW k \in 1 .. n + 1, NEW m \in 1 .. n + 1, k < m PROVE R(q[k]) > R(q[m])
    <3>1. k \in 1 .. n  BY <2>3, <2>7
    <3>2. CASE m = n + 1
      <4>1. R(q[m]) = i /\ R(q[k]) >= i + 1 /\ R(q[k]) \in Nat  BY <2>2, <2>4, <2>5, <3>1, <3>2
      <4> QED  BY <1>0, <4>1
    <3>3. CASE m # n + 1
      <4>1. m \in 1 .. n  BY <2>3, <3>3
      <4>2. R(p[k]) > R(p[m])  BY <1>1, <2>7, <3>1, <4>1 DEF n
      <4> QED  BY <2>2, <3>1, <4>1, <4>2
    <3> QED  BY <3>2, <3>3
  <2>8. ASSUME NEW h \in ToSet(c) \ {king}, R(h) >= i
        PROVE  Contains(q, h)
    <3>1. CASE h = c[i]
      <4>1. n + 1 \in 1 .. Len(q)  BY <2>2, <2>3
      <4> QED  BY <2>2, <3>1, <4>1 DEF Contains
    <3>2. CASE h # c[i]
      <4>1. Contains(p, h)  BY <1>1, <1>4, <1>7, <2>8, <3>2
      <4>2. PICK k \in 1 .. n : p[k] = h  BY <4>1 DEF Contains, n
      <4>3. k \in 1 .. Len(q)  BY <2>2, <2>3
      <4> QED  BY <2>2, <4>2, <4>3 DEF Contains
    <3> QED  BY <3>1, <3>2
  <2>9. ListOK(q, c, king, i)
    BY <2>2, <2>3, <2>6, <2>7, <2>8 DEF ListOK, R
  <2> QED  BY <2>1, <2>9
<1> QED  BY <1>6, <1>7

\* So it holds of the pensioners.
LEMMA PensionersOK ==
  ASSUME NEW H, NEW c \in Seq(H), NEW king
  PROVE  ListOK(Pensioners(c, king), c, king, 1)
<1> DEFINE n == Len(c)
<1>1. n \in Nat /\ DOMAIN c = 1 .. n  OBVIOUS
<1>2. IsFiniteSet(DOMAIN c) /\ DOMAIN c \subseteq Nat
  <2> HIDE DEF n
  <2> QED  BY <1>1, FS_Interval
<1>3. PICK g : Hears(g, c, king) /\ g[DOMAIN c] = Pensioners(c, king)
  BY <1>2, PensionersAreHeard
<1>4. g[{}] = <<>>  BY <1>3 DEF Hears
<1>5. ASSUME NEW i \in 1 .. n PROVE g[i .. n] = Heard(c[i], g[i + 1 .. n], king)
  <2>1. i .. n \in SUBSET DOMAIN c /\ i .. n # {}  BY <1>1
  <2>2. Min(i .. n) = i
    <3>1. i \in i .. n /\ \A m \in i .. n : i <= m  BY <1>1
    <3>2. i .. n \subseteq Nat  BY <1>1
    <3>3. Min(i .. n) \in i .. n /\ \A m \in i .. n : Min(i .. n) <= m  BY <2>1, <3>2, MinIs
    <3>4. Min(i .. n) \in Nat /\ i \in Nat /\ Min(i .. n) <= i /\ i <= Min(i .. n)
      BY <3>1, <3>2, <3>3
    <3> QED  BY <3>4
  <2>3. (i .. n) \ {i} = i + 1 .. n  BY <1>1
  <2> QED  BY <1>3, <2>1, <2>2, <2>3 DEF Hears
<1>6. ListOK(<<>>, c, king, n + 1)
  <2>1. <<>> \in Seq(ToSet(c)) /\ Len(<<>>) = 0  OBVIOUS
  <2>2. \A h : ~(LastCrowned(c, h) >= n + 1)
    <3>1. \A h : LastCrowned(c, h) \in 0 .. n  BY LastIs
    <3> HIDE DEF n
    <3> QED  BY <1>1, <3>1
  <2> QED  BY <2>1, <2>2 DEF ListOK
<1> HIDE DEF n
<1> DEFINE Bad == {d \in 0 .. n : ~ListOK(g[n + 1 - d .. n], c, king, n + 1 - d)}
<1>7. ASSUME Bad # {} PROVE FALSE
  <2>1. PICK d \in Bad : \A m \in Bad : d <= m
    <3>1. Bad \subseteq Nat  BY <1>1
    <3> HIDE DEF Bad
    <3> QED  BY <1>7, <3>1, LeastNat
  <2>2. CASE d = 0
    <3>1. n + 1 - d = n + 1 /\ n + 1 .. n = {}  BY <1>1, <2>2
    <3> QED  BY <1>4, <1>6, <3>1
  <2>3. CASE d # 0
    <3>1. d - 1 \in 0 .. n /\ ~(d <= d - 1)  BY <1>1, <2>3
    <3>2. d - 1 \notin Bad
      <4> HIDE DEF Bad
      <4> QED  BY <2>1, <3>1
    <3> DEFINE i == n + 1 - d
    <3>3. i \in 1 .. n /\ n + 1 - (d - 1) = i + 1  BY <1>1, <2>3
    <3>4. ListOK(g[i + 1 .. n], c, king, i + 1)  BY <3>1, <3>2, <3>3
    <3>5. ~ListOK(g[i .. n], c, king, i)  OBVIOUS
    <3> HIDE DEF i, Bad
    <3>6. i \in 1 .. Len(c)  BY <3>3 DEF n
    <3>7. ListOK(g[i .. n], c, king, i)  BY <1>5, <3>3, <3>4, <3>6, HeardOK
    <3> QED  BY <3>5, <3>7
  <2> QED  BY <2>2, <2>3
<1>8. n \in 0 .. n /\ n + 1 - n = 1  BY <1>1
<1>9. ListOK(g[1 .. n], c, king, 1)  BY <1>7, <1>8
<1> QED  BY <1>1, <1>3, <1>9


\* The hotkeys of a lineage are finitely many.
LEMMA HotkeysFinite ==
  ASSUME NEW H, NEW c \in Seq(H)
  PROVE  IsFiniteSet(ToSet(c))
<1>1. IsFiniteSet(1 .. Len(c))  BY FS_Interval
<1>2. c \in Surjection(1 .. Len(c), ToSet(c))  BY DEF Surjection, ToSet
<1> QED  BY <1>1, <1>2, FS_Surjection

\* The first several of such a list are as many.
LEMMA AsMany ==
  ASSUME NEW H, NEW c \in Seq(H), NEW king, NEW p, ListOK(p, c, king, 1), NEW n \in 0 .. Len(p)
  PROVE  Cardinality({p[j] : j \in 1 .. n}) = n
<1> DEFINE f == [j \in 1 .. n |-> p[j]]
           B == {p[j] : j \in 1 .. n}
<1>1. Len(p) \in Nat /\ n \in Nat /\ \A j \in 1 .. n : j \in 1 .. Len(p)  BY DEF ListOK
<1>2. ASSUME NEW j \in 1 .. n, NEW k \in 1 .. n, j < k PROVE p[j] # p[k]
  <2>1. LastCrowned(c, p[j]) > LastCrowned(c, p[k])  BY <1>1, <1>2 DEF ListOK
  <2>2. LastCrowned(c, p[j]) \in Nat /\ LastCrowned(c, p[k]) \in Nat  BY LastIs
  <2> QED  BY <2>1, <2>2
<1>3. \A j \in 1 .. n, k \in 1 .. n : f[j] = f[k] => j = k
  <2>1. \A j \in 1 .. n, k \in 1 .. n : j = k \/ j < k \/ k < j  BY <1>1
  <2> QED  BY <1>2, <2>1
<1>4. f \in [1 .. n -> B]  OBVIOUS
<1>5. \A b \in B : \E j \in 1 .. n : f[j] = b  OBVIOUS
<1>6. f \in Bijection(1 .. n, B)
  <2> HIDE DEF f, B
  <2> QED  BY <1>3, <1>4, <1>5 DEF Bijection, Injection, Surjection, IsInjective
<1>7. ExistsBijection(1 .. n, B)  BY <1>6 DEF ExistsBijection
<1> HIDE DEF B
<1>8. Cardinality(B) = n  BY <1>1, <1>7, FS_CountingElements
<1> QED  BY <1>8 DEF B

\* The rank of a pensioner is its place in the list, and whoever is not listed ranks behind the cut.
LEMMA RankIs ==
  ASSUME NEW H, NEW c \in Seq(H), NEW king, NEW p, ListOK(p, c, king, 1)
  PROVE  /\ \A k \in 1 .. Len(p) : Rank(c, king, p[k]) = k - 1
         /\ \A h \in ToSet(c) \ {king} :
              ~Contains(p, h) => Rank(c, king, h) \in Nat /\ Rank(c, king, h) >= 5
<1> DEFINE R(h) == LastCrowned(c, h)
           Ahead(h) == {x \in ToSet(c) \ {king, h} : R(x) > R(h)}
<1>1. /\ p \in Seq(ToSet(c)) /\ Len(p) \in Nat /\ Len(p) <= 5
      /\ \A k \in 1 .. Len(p) : p[k] # king /\ R(p[k]) >= 1
      /\ \A k \in 1 .. Len(p), m \in 1 .. Len(p) : k < m => R(p[k]) > R(p[m])
      /\ \A h \in ToSet(c) \ {king} : R(h) >= 1 =>
           Contains(p, h) \/ (Len(p) = 5 /\ \A k \in 1 .. 5 : R(p[k]) > R(h))
  <2>1. p \in Seq(ToSet(c)) /\ Len(p) <= 5  BY DEF ListOK
  <2>2. Len(p) \in Nat  BY <2>1
  <2> QED  BY <2>1, <2>2 DEF ListOK
<1>2. \A h : R(h) \in Nat /\ (h \in ToSet(c) => R(h) >= 1)
  <2>1. \A h : R(h) \in 0 .. Len(c) /\ (h \in ToSet(c) => R(h) \in 1 .. Len(c))  BY LastIs
  <2> HIDE DEF R
  <2> QED  BY <2>1
<1>3. \A h : IsFiniteSet(Ahead(h)) /\ Cardinality(Ahead(h)) \in Nat /\ Rank(c, king, h) = Cardinality(Ahead(h))
  <2>1. \A h : Ahead(h) \in SUBSET ToSet(c) /\ Rank(c, king, h) = Cardinality(Ahead(h))  BY DEF Rank
  <2> HIDE DEF Ahead
  <2> QED  BY <2>1, HotkeysFinite, FS_Subset, FS_CardinalityType
<1> HIDE DEF R
<1>4. ASSUME NEW k \in 1 .. Len(p) PROVE Rank(c, king, p[k]) = k - 1
  <2>0. k \in Nat /\ k - 1 \in 0 .. Len(p) /\ \A j \in 1 .. k - 1 : j \in 1 .. Len(p) /\ j < k
    BY <1>1
  <2>1. ASSUME NEW j \in 1 .. k - 1 PROVE p[j] \in Ahead(p[k])
    <3>1. p[j] \in ToSet(c) /\ p[j] # king /\ R(p[j]) > R(p[k])  BY <1>1, <2>0
    <3>2. R(p[j]) \in Nat /\ R(p[k]) \in Nat  BY <1>2
    <3>3. p[j] # p[k]  BY <3>1, <3>2
    <3> QED  BY <3>1, <3>3
  <2>2. ASSUME NEW x \in Ahead(p[k]) PROVE \E j \in 1 .. k - 1 : p[j] = x
    <3>1. x \in ToSet(c) \ {king} /\ x # p[k] /\ R(x) > R(p[k]) /\ R(x) >= 1  BY <1>2
    <3>2. R(x) \in Nat /\ R(p[k]) \in Nat  BY <1>2
    <3>3. CASE Contains(p, x)
      <4>1. PICK j \in 1 .. Len(p) : p[j] = x  BY <3>3 DEF Contains
      <4>2. ~(k < j)  BY <1>1, <3>1, <3>2, <4>1
      <4>3. j # k  BY <3>1, <4>1
      <4>4. j \in 1 .. k - 1  BY <1>1, <2>0, <4>2, <4>3
      <4> QED  BY <4>1, <4>4
    <3>4. CASE ~Contains(p, x)
      <4>1. Len(p) = 5 /\ R(p[k]) > R(x)  BY <1>1, <3>1, <3>4
      <4> QED  BY <3>1, <3>2, <4>1
    <3> QED  BY <3>3, <3>4
  <2>3. Ahead(p[k]) = {p[j] : j \in 1 .. k - 1}
    <3> HIDE DEF Ahead
    <3> QED  BY <2>1, <2>2
  <2> HIDE DEF Ahead
  <2> QED  BY <1>3, <2>0, <2>3, AsMany
<1>5. ASSUME NEW h \in ToSet(c) \ {king}, ~Contains(p, h)
      PROVE  Rank(c, king, h) \in Nat /\ Rank(c, king, h) >= 5
  <2>1. Len(p) = 5 /\ \A j \in 1 .. 5 : R(p[j]) > R(h)  BY <1>1, <1>2, <1>5
  <2>2. ASSUME NEW j \in 1 .. 5 PROVE p[j] \in Ahead(h)
    <3>0. j \in 1 .. Len(p)  BY <2>1
    <3>a. p[j] \in ToSet(c) /\ p[j] # king  BY <1>1, <3>0
    <3>b. R(p[j]) > R(h)  BY <2>1
    <3>1. p[j] \in ToSet(c) /\ p[j] # king /\ R(p[j]) > R(h)  BY <3>a, <3>b
    <3>2. R(p[j]) \in Nat /\ R(h) \in Nat  BY <1>2
    <3>3. p[j] # h  BY <3>1, <3>2
    <3> QED  BY <3>1, <3>3
  <2> DEFINE B == {p[j] : j \in 1 .. 5}
  <2>3. B \in SUBSET Ahead(h)
    <3> HIDE DEF Ahead
    <3> QED  BY <2>2
  <2>4. Cardinality(B) = 5
    <3>1. 5 \in 0 .. Len(p)  BY <2>1
    <3> QED  BY <3>1, AsMany
  <2> HIDE DEF Ahead, B
  <2>5. Cardinality(B) <= Cardinality(Ahead(h))  BY <1>3, <2>3, FS_Subset
  <2> QED  BY <1>3, <2>4, <2>5
<1> QED  BY <1>4, <1>5

\* At most one summand is not nothing, and that one is so much.
OnlyOne(f, S, v) ==
  /\ \A x \in S : f[x] \in {0, v}
  /\ \A x \in S, y \in S : f[x] # 0 /\ f[y] # 0 => x = y

\* A sum with at most one summand that is not nothing.
LEMMA SumOne ==
  ASSUME NEW S, IsFiniteSet(S), NEW f, NEW v \in Nat, OnlyOne(f, S, v)
  PROVE  SumFunctionOnSet(f, S) \in Int /\ SumFunctionOnSet(f, S) <= v
<1>1. CASE \A x \in S : f[x] = 0
  <2>1. SumFunctionOnSet(f, S) = 0  BY <1>1, SumZero
  <2> QED  BY <2>1
<1>2. CASE \E x \in S : f[x] # 0
  <2>1. PICK x \in S : f[x] # 0  BY <1>2
  <2>2. f[x] = v /\ \A y \in S \ {x} : f[y] = 0  BY <2>1 DEF OnlyOne
  <2>3. \A y \in S : f[y] \in Int  BY DEF OnlyOne
  <2>4. SumFunctionOnSet(f, S) = f[x] + SumFunctionOnSet(f, S \ {x})  BY <2>3, SumTake
  <2>5. SumFunctionOnSet(f, S \ {x}) = 0
    <3>1. IsFiniteSet(S \ {x})  BY FS_Subset
    <3> QED  BY <2>2, <3>1, SumZero
  <2> QED  BY <2>2, <2>4, <2>5
<1> QED  BY <1>1, <1>2

\* One function adds two others.
Adds(h, f, g, S) == \A x \in S : g[x] \in Int /\ h[x] = f[x] + g[x]

\* A sum of sums, the one with at most one summand that is not nothing.
LEMMA SumOneMore ==
  ASSUME NEW S, IsFiniteSet(S), NEW f, NEW g, NEW h, NEW v \in Nat, NEW n \in Int,
         OnlyOne(f, S, v), Adds(h, f, g, S),
         SumFunctionOnSet(g, S) <= n
  PROVE  SumFunctionOnSet(h, S) <= v + n
<1>1. SumFunctionOnSet(f, S) \in Int /\ SumFunctionOnSet(f, S) <= v  BY SumOne
<1>2. \A x \in S : f[x] \in Int /\ g[x] \in Int /\ h[x] \in Int  BY DEF OnlyOne, Adds
<1>3. \A x \in S : g[x] = h[x] - f[x]  BY <1>2 DEF Adds
<1>4. SumFunctionOnSet(g, S) = SumFunctionOnSet(h, S) - SumFunctionOnSet(f, S)
  BY <1>2, <1>3, SumMinus
<1>5. SumFunctionOnSet(g, S) \in Int /\ SumFunctionOnSet(h, S) \in Int  BY <1>2, SumType
<1> QED  BY <1>1, <1>4, <1>5

\* What the king is paid at a uid, the genesis policy included.
KingPay(king, graph, zero) ==
  [u \in DOMAIN graph |->
     IF king = KING0 THEN IF u = zero THEN KingShare ELSE 0
     ELSE IF graph[u] = king THEN KingShare ELSE 0]
\* What the slots of the list from the k-th on are paid at a uid.
SlotPay(p, graph, k) ==
  [u \in DOMAIN graph |-> IF k <= Len(p) /\ graph[u] = p[k] THEN 6 - k ELSE 0]
Earned(c, king, graph, zero) ==
  [u \in DOMAIN graph |->
     (IF king = KING0 /\ u = zero THEN KingShare ELSE 0) + ShareOf(c, king, graph[u])]

\* Where in the list a hotkey is.
PlaceOf(p, h) == SelectInSeq(p, LAMBDA x : x = h)

\* What a hotkey's share is: its slot's.
LEMMA SharesAreSlots ==
  ASSUME NEW H, NEW c \in Seq(H), NEW king, NEW h, h # king, NEW p, ListOK(p, c, king, 1)
  PROVE  /\ \A k \in 1 .. Len(p) : p[k] = h => ShareOf(c, king, h) = 6 - k
                                            /\ PensionShares[PlaceOf(p, h)] = 6 - k
         /\ ~Contains(p, h) => ShareOf(c, king, h) = 0
         /\ ShareOf(c, king, h) \in Nat
<1>1. /\ p \in Seq(ToSet(c)) /\ Len(p) \in Nat /\ Len(p) <= 5
      /\ \A k \in 1 .. Len(p), m \in 1 .. Len(p) :
           k < m => LastCrowned(c, p[k]) > LastCrowned(c, p[m])
  BY DEF ListOK
<1>2. /\ Len(PensionShares) = 5
      /\ \A k \in 1 .. 5 : PensionShares[k] = 6 - k  BY DEF PensionShares
<1>3. ASSUME NEW k \in 1 .. Len(p), p[k] = h
      PROVE  ShareOf(c, king, h) = 6 - k /\ PensionShares[PlaceOf(p, h)] = 6 - k
  <2>1. h \in ToSet(c) /\ Rank(c, king, h) = k - 1  BY <1>1, <1>3, RankIs
  <2>2. k \in 1 .. 5 /\ k - 1 < 5 /\ k - 1 + 1 = k  BY <1>1
  <2>3. ShareOf(c, king, h) = PensionShares[k]  BY <1>2, <2>1, <2>2 DEF ShareOf
  <2> DEFINE I == {i \in 1 .. Len(p) : p[i] = h}
  <2>4. PlaceOf(p, h) = IF I # {} THEN Min(I) ELSE 0  BY DEF PlaceOf, SelectInSeq
  <2>5. I \subseteq Nat /\ k \in I  BY <1>3
  <2>6. Min(I) \in I
    <3> HIDE DEF I
    <3> QED  BY <2>5, MinIs
  <2> DEFINE j == Min(I)
  <2>7. j \in 1 .. Len(p) /\ p[j] = h  BY <2>6
  <2> HIDE DEF j, I
  <2>8. j = k
    <3>1. LastCrowned(c, h) \in Nat  BY LastIs
    <3>2. ~(j < k) /\ ~(k < j)  BY <1>1, <1>3, <2>7, <3>1
    <3> QED  BY <1>1, <2>7, <3>2
  <2>9. PlaceOf(p, h) = k  BY <2>4, <2>5, <2>8 DEF j
  <2> QED  BY <1>2, <2>2, <2>3, <2>9
<1>4. ASSUME ~Contains(p, h) PROVE ShareOf(c, king, h) = 0
  <2>1. CASE h \in ToSet(c)
    <3>1. Rank(c, king, h) \in Nat /\ Rank(c, king, h) >= 5  BY <1>4, <2>1, RankIs
    <3>2. ~(Rank(c, king, h) < 5)  BY <3>1
    <3> QED  BY <1>2, <3>2 DEF ShareOf
  <2>2. CASE h \notin ToSet(c)  BY <2>2 DEF ShareOf
  <2> QED  BY <2>1, <2>2
<1>5. ShareOf(c, king, h) \in Nat
  <2>1. CASE Contains(p, h)
    <3>1. PICK k \in 1 .. Len(p) : p[k] = h  BY <2>1 DEF Contains
    <3>2. ShareOf(c, king, h) = 6 - k  BY <1>3, <3>1
    <3> QED  BY <1>1, <3>2
  <2> QED  BY <1>4, <2>1
<1> QED  BY <1>3, <1>4, <1>5


\* No miner goes by the name of the best fixed policy.
NamesNoPolicy(graph) == \A u \in DOMAIN graph : graph[u] # KING0

\* What is paid at a uid is the king's share or its slot's.
LEMMA EarnedIsPaid ==
  ASSUME NEW H, KING0 \notin H, NEW c \in Seq(H), NEW king, NEW graph,
         NamesNoPolicy(graph), NEW zero, NEW p, ListOK(p, c, king, 1),
         NEW u \in DOMAIN graph
  PROVE  Earned(c, king, graph, zero)[u]
           = KingPay(king, graph, zero)[u]
               + (SlotPay(p, graph, 1)[u] + (SlotPay(p, graph, 2)[u] + (SlotPay(p, graph, 3)[u]
                    + (SlotPay(p, graph, 4)[u] + (SlotPay(p, graph, 5)[u] + 0)))))
<1> DEFINE h == graph[u]
           rest(k) == SlotPay(p, graph, k)[u]
           share == ShareOf(c, king, h)
           kp == KingPay(king, graph, zero)[u]
           gen == IF king = KING0 /\ u = zero THEN KingShare ELSE 0
<1>1. /\ p \in Seq(ToSet(c)) /\ Len(p) \in Nat /\ Len(p) <= 5
      /\ \A k \in 1 .. Len(p) : p[k] # king
      /\ \A k \in 1 .. Len(p), m \in 1 .. Len(p) :
           k < m => LastCrowned(c, p[k]) > LastCrowned(c, p[m])
  BY DEF ListOK
<1>2. \A k : rest(k) = IF k <= Len(p) /\ h = p[k] THEN 6 - k ELSE 0  BY DEF SlotPay
<1>3. kp = IF king = KING0 THEN gen ELSE IF h = king THEN KingShare ELSE 0  BY DEF KingPay
<1>4. Earned(c, king, graph, zero)[u] = gen + share  BY DEF Earned
<1>5. gen \in {0, 85} /\ kp \in {0, 85}  BY <1>3 DEF KingShare
<1>6. CASE h = king
  <2>1. share = 85 /\ kp = 85 /\ gen = 0  BY <1>3, <1>6 DEF ShareOf, KingShare, NamesNoPolicy
  <2>2. \A k \in 1 .. 5 : rest(k) = 0  BY <1>1, <1>2, <1>6
  <2> HIDE DEF rest, share, kp, gen
  <2> QED  BY <1>4, <2>1, <2>2 DEF rest, share, kp, gen
<1>7. CASE h # king
  <2>1. kp = gen  BY <1>3, <1>7
  <2>2. CASE \E k \in 1 .. Len(p) : p[k] = h
    <3>1. PICK k \in 1 .. Len(p) : p[k] = h  BY <2>2
    <3>2. share = 6 - k  BY <1>7, <3>1, SharesAreSlots
    <3>3. k \in 1 .. 5 /\ rest(k) = 6 - k  BY <1>1, <1>2, <3>1
    <3>4. ASSUME NEW j \in 1 .. 5, j # k PROVE rest(j) = 0
      <4>1. LastCrowned(c, h) \in Nat  BY LastIs
      <4>2. ~(j \in 1 .. Len(p) /\ p[j] = h)  BY <1>1, <3>1, <3>4, <4>1
      <4>3. j \in 1 .. 5 /\ (j <= Len(p) => j \in 1 .. Len(p))  BY <1>1
      <4> QED  BY <1>2, <4>2, <4>3
    <3> HIDE DEF rest, share, kp, gen
    <3>5. rest(1) + (rest(2) + (rest(3) + (rest(4) + (rest(5) + 0)))) = 6 - k
      <4>1. k = 1 \/ k = 2 \/ k = 3 \/ k = 4 \/ k = 5  BY <3>3
      <4>2. \A j \in 1 .. 5 : rest(j) = IF j = k THEN 6 - k ELSE 0  BY <3>3, <3>4
      <4>3. /\ rest(1) = IF 1 = k THEN 6 - k ELSE 0
            /\ rest(2) = IF 2 = k THEN 6 - k ELSE 0
            /\ rest(3) = IF 3 = k THEN 6 - k ELSE 0
            /\ rest(4) = IF 4 = k THEN 6 - k ELSE 0
            /\ rest(5) = IF 5 = k THEN 6 - k ELSE 0  BY <4>2
      <4> QED  BY <4>1, <4>3
    <3>6. gen + share = kp + (rest(1) + (rest(2) + (rest(3) + (rest(4) + (rest(5) + 0)))))
      BY <2>1, <3>2, <3>5
    <3> QED  BY <1>4, <3>6 DEF rest, share, kp, gen
  <2>3. CASE ~\E k \in 1 .. Len(p) : p[k] = h
    <3>1. share = 0  BY <1>7, <2>3, SharesAreSlots DEF Contains
    <3>2. \A k \in 1 .. 5 : rest(k) = 0
      <4>1. \A k \in 1 .. 5 : k <= Len(p) => k \in 1 .. Len(p)  BY <1>1
      <4> QED  BY <1>2, <2>3, <4>1
    <3> HIDE DEF rest, share, kp, gen
    <3>3. gen + share = kp + (rest(1) + (rest(2) + (rest(3) + (rest(4) + (rest(5) + 0)))))
      BY <1>5, <2>1, <3>1, <3>2
    <3> QED  BY <1>4, <3>3 DEF rest, share, kp, gen
  <2> QED  BY <2>2, <2>3
<1> QED  BY <1>6, <1>7

\* A metagraph lists a hotkey at one uid.
OneEach(graph) ==
  \A u \in DOMAIN graph, v \in DOMAIN graph :
    graph[u] = graph[v] /\ graph[u] # NOBODY => u = v

\* All the shares together are no more than the whole.
LEMMA NoMoreThanWhole ==
  ASSUME NEW H, KING0 \notin H, NOBODY \notin H, NEW c \in Seq(H), NEW king, king # NOBODY,
         NEW graph, IsFiniteSet(DOMAIN graph), OneEach(graph),
         NamesNoPolicy(graph), NEW zero, NEW p, ListOK(p, c, king, 1)
  PROVE  LET earned == Earned(c, king, graph, zero)
         IN  /\ \A u \in DOMAIN graph : earned[u] \in Nat
             /\ SumFunctionOnSet(earned, DOMAIN graph) \in Int
             /\ SumFunctionOnSet(earned, DOMAIN graph) <= 100
<1> DEFINE U == DOMAIN graph
           S(k) == SlotPay(p, graph, k)
           g6 == [u \in U |-> 0]
           g5 == [u \in U |-> S(5)[u] + g6[u]]
           g4 == [u \in U |-> S(4)[u] + g5[u]]
           g3 == [u \in U |-> S(3)[u] + g4[u]]
           g2 == [u \in U |-> S(2)[u] + g3[u]]
           g1 == [u \in U |-> S(1)[u] + g2[u]]
           kp == KingPay(king, graph, zero)
           earned == Earned(c, king, graph, zero)
<1>1. ASSUME NEW k \in 1 .. 5
      PROVE  OnlyOne(S(k), U, 6 - k)
  <2>1. \A u \in U : S(k)[u] = IF k <= Len(p) /\ graph[u] = p[k] THEN 6 - k ELSE 0
    BY DEF SlotPay
  <2>2. k <= Len(p) => p[k] # NOBODY
    <3>1. p \in Seq(ToSet(c)) /\ Len(p) \in Nat  BY DEF ListOK
    <3>2. k <= Len(p) => p[k] \in ToSet(c)  BY <3>1
    <3>3. ToSet(c) \subseteq H  BY DEF ToSet
    <3> QED  BY <3>2, <3>3
  <2>3. \A u \in U : S(k)[u] \in {0, 6 - k}
    <3> HIDE DEF S
    <3> QED  BY <2>1
  <2>4. ASSUME NEW u \in U, NEW v \in U, S(k)[u] # 0, S(k)[v] # 0 PROVE u = v
    <3>1. k <= Len(p) /\ graph[u] = p[k] /\ graph[v] = p[k]
      <4> HIDE DEF S
      <4> QED  BY <2>1, <2>4
    <3> QED  BY <2>2, <3>1 DEF OneEach
  <2> HIDE DEF S
  <2> QED  BY <2>3, <2>4 DEF OnlyOne
<1>2. OnlyOne(kp, U, 85)
  <2>1. \A u \in U : kp[u] = IF king = KING0 THEN IF u = zero THEN 85 ELSE 0
                             ELSE IF graph[u] = king THEN 85 ELSE 0
    BY DEF KingPay, KingShare
  <2> HIDE DEF kp
  <2> QED  BY <2>1 DEF OneEach, OnlyOne
<1>3. ASSUME NEW u \in U PROVE earned[u] = kp[u] + g1[u]
  <2>1. earned[u] = kp[u] + (S(1)[u] + (S(2)[u] + (S(3)[u] + (S(4)[u] + (S(5)[u] + 0)))))
    <3> HIDE DEF g1, g2, g3, g4, g5, g6
    <3> QED  BY EarnedIsPaid
  <2> HIDE DEF earned, kp, S
  <2>2. g1[u] = S(1)[u] + (S(2)[u] + (S(3)[u] + (S(4)[u] + (S(5)[u] + 0))))  OBVIOUS
  <2> QED  BY <2>1, <2>2
<1> DEFINE Sum(f) == SumFunctionOnSet(f, U)
<1>4. ASSUME NEW k \in 1 .. 5 PROVE \A u \in U : S(k)[u] \in Nat
  <2> HIDE DEF S
  <2> QED  BY <1>1 DEF OnlyOne
<1>5. /\ \A u \in U : g6[u] = 0
      /\ \A u \in U : g5[u] = S(5)[u] + g6[u]
      /\ \A u \in U : g4[u] = S(4)[u] + g5[u]
      /\ \A u \in U : g3[u] = S(3)[u] + g4[u]
      /\ \A u \in U : g2[u] = S(2)[u] + g3[u]
      /\ \A u \in U : g1[u] = S(1)[u] + g2[u]
  OBVIOUS
<1> HIDE DEF S, g1, g2, g3, g4, g5, g6, kp, earned
<1>6. /\ \A u \in U : S(1)[u] \in Nat
      /\ \A u \in U : S(2)[u] \in Nat
      /\ \A u \in U : S(3)[u] \in Nat
      /\ \A u \in U : S(4)[u] \in Nat
      /\ \A u \in U : S(5)[u] \in Nat
  BY <1>4
<1>7. \A u \in U : /\ g6[u] \in Nat /\ g5[u] \in Nat /\ g4[u] \in Nat
                   /\ g3[u] \in Nat /\ g2[u] \in Nat /\ g1[u] \in Nat
  <2> SUFFICES ASSUME NEW u \in U
               PROVE  /\ g6[u] \in Nat /\ g5[u] \in Nat /\ g4[u] \in Nat
                      /\ g3[u] \in Nat /\ g2[u] \in Nat /\ g1[u] \in Nat
    OBVIOUS
  <2>6. g6[u] \in Nat  BY <1>5
  <2>5. g5[u] \in Nat
    <3>1. g5[u] = S(5)[u] + g6[u] /\ S(5)[u] \in Nat  BY <1>5, <1>6
    <3> QED  BY <2>6, <3>1
  <2>4. g4[u] \in Nat
    <3>1. g4[u] = S(4)[u] + g5[u] /\ S(4)[u] \in Nat  BY <1>5, <1>6
    <3> QED  BY <2>5, <3>1
  <2>3. g3[u] \in Nat
    <3>1. g3[u] = S(3)[u] + g4[u] /\ S(3)[u] \in Nat  BY <1>5, <1>6
    <3> QED  BY <2>4, <3>1
  <2>2. g2[u] \in Nat
    <3>1. g2[u] = S(2)[u] + g3[u] /\ S(2)[u] \in Nat  BY <1>5, <1>6
    <3> QED  BY <2>3, <3>1
  <2>1. g1[u] \in Nat
    <3>1. g1[u] = S(1)[u] + g2[u] /\ S(1)[u] \in Nat  BY <1>5, <1>6
    <3> QED  BY <2>2, <3>1
  <2> QED  BY <2>1, <2>2, <2>3, <2>4, <2>5, <2>6
<1>8. \A u \in U : earned[u] \in Nat
  <2>1. \A u \in U : kp[u] \in Nat /\ g1[u] \in Nat  BY <1>2, <1>7 DEF OnlyOne
  <2> QED  BY <1>3, <2>1
<1>9. Sum(g6) <= 0  BY <1>5, SumZero
<1>10. Sum(g5) <= 1
  <2>1. OnlyOne(S(5), U, 1)
    <3>1. OnlyOne(S(5), U, 6 - 5) /\ 6 - 5 = 1  BY <1>1
    <3> QED  BY <3>1
  <2>2. Adds(g5, S(5), g6, U)  BY <1>5, <1>7 DEF Adds
  <2>3. Sum(g5) <= 1 + 0  BY <1>9, <2>1, <2>2, SumOneMore
  <2> QED  BY <2>3
<1>11. Sum(g4) <= 3
  <2>1. OnlyOne(S(4), U, 2)
    <3>1. OnlyOne(S(4), U, 6 - 4) /\ 6 - 4 = 2  BY <1>1
    <3> QED  BY <3>1
  <2>2. Adds(g4, S(4), g5, U)  BY <1>5, <1>7 DEF Adds
  <2>3. Sum(g4) <= 2 + 1  BY <1>10, <2>1, <2>2, SumOneMore
  <2> QED  BY <2>3
<1>12. Sum(g3) <= 6
  <2>1. OnlyOne(S(3), U, 3)
    <3>1. OnlyOne(S(3), U, 6 - 3) /\ 6 - 3 = 3  BY <1>1
    <3> QED  BY <3>1
  <2>2. Adds(g3, S(3), g4, U)  BY <1>5, <1>7 DEF Adds
  <2>3. Sum(g3) <= 3 + 3  BY <1>11, <2>1, <2>2, SumOneMore
  <2> QED  BY <2>3
<1>13. Sum(g2) <= 10
  <2>1. OnlyOne(S(2), U, 4)
    <3>1. OnlyOne(S(2), U, 6 - 2) /\ 6 - 2 = 4  BY <1>1
    <3> QED  BY <3>1
  <2>2. Adds(g2, S(2), g3, U)  BY <1>5, <1>7 DEF Adds
  <2>3. Sum(g2) <= 4 + 6  BY <1>12, <2>1, <2>2, SumOneMore
  <2> QED  BY <2>3
<1>14. Sum(g1) <= 15
  <2>1. OnlyOne(S(1), U, 5)
    <3>1. OnlyOne(S(1), U, 6 - 1) /\ 6 - 1 = 5  BY <1>1
    <3> QED  BY <3>1
  <2>2. Adds(g1, S(1), g2, U)  BY <1>5, <1>7 DEF Adds
  <2>3. Sum(g1) <= 5 + 10  BY <1>13, <2>1, <2>2, SumOneMore
  <2> QED  BY <2>3
<1>15. Sum(earned) <= 100
  <2>1. Adds(earned, kp, g1, U)  BY <1>3, <1>7 DEF Adds
  <2>2. Sum(earned) <= 85 + 15  BY <1>2, <1>14, <2>1, SumOneMore
  <2> QED  BY <2>2
<1>16. Sum(earned) \in Int
  <2>1. \A u \in U : earned[u] \in Int  BY <1>8
  <2> QED  BY <2>1, SumType
<1> QED  BY <1>8, <1>15, <1>16 DEF earned

\* RankGoesByTheLastCoronation, for every lineage of coronations, every king and every metagraph that
\* lists a hotkey once: a former king's share goes with the number of hotkeys crowned after its last
\* coronation, the reigning king's aside, to the uid the chain gives it (Lineage.pensioners and
\* emission_weights); a rank that resolves nowhere moves nobody up; the shares make up the whole, and
\* what the burn uid gets on top of its own is never negative.
THEOREM PensionsGoByTheLastCoronation ==
  ASSUME NEW H, KING0 \notin H, NOBODY \notin H, NEW lineage \in Seq(H),
         NEW king \in H \cup {KING0}, KING0 # NOBODY,
         NEW graph, IsFiniteSet(DOMAIN graph), OneEach(graph),
         NamesNoPolicy(graph),
         NEW burnUid \in DOMAIN graph, NEW kingZeroUid
  PROVE  LET paying == EmissionWeights(lineage, king, graph, burnUid, kingZeroUid)
             owed(u) == (IF king = KING0 /\ u = kingZeroUid THEN KingShare ELSE 0)
                          + ShareOf(lineage, king, graph[u])
         IN  /\ \A u \in DOMAIN graph \ {burnUid} : paying[u] = owed(u)
             /\ paying[burnUid] >= owed(burnUid)
             /\ FoldFunction(+, 0, paying) = Whole
<1> DEFINE U == DOMAIN graph
           p == Pensioners(lineage, king)
           gen(u) == IF king = KING0 /\ u = kingZeroUid THEN KingShare ELSE 0
           earn(u) == IF graph[u] = king /\ king # KING0 THEN KingShare
                      ELSE IF Contains(p, graph[u])
                             THEN PensionShares[PlaceOf(p, graph[u])]
                             ELSE 0
           paid == [u \in U |-> earn(u) + gen(u)]
           earned == Earned(lineage, king, graph, kingZeroUid)
           burn == Whole - FoldFunction(+, 0, paid)
           paying == EmissionWeights(lineage, king, graph, burnUid, kingZeroUid)
<1>1. ListOK(p, lineage, king, 1)  BY PensionersOK
<1>2. paying = [paid EXCEPT ![burnUid] = paid[burnUid] + burn]  BY DEF EmissionWeights, PlaceOf
<1>3. ASSUME NEW u \in U PROVE earn(u) = ShareOf(lineage, king, graph[u])
  <2>1. CASE graph[u] = king  BY <2>1 DEF ShareOf, NamesNoPolicy
  <2>2. CASE graph[u] # king /\ Contains(p, graph[u])
    <3>1. PICK k \in 1 .. Len(p) : p[k] = graph[u]  BY <2>2 DEF Contains
    <3>2. /\ ShareOf(lineage, king, graph[u]) = 6 - k
          /\ PensionShares[PlaceOf(p, graph[u])] = 6 - k
      BY <1>1, <2>2, <3>1, SharesAreSlots
    <3> QED  BY <2>2, <3>2, Zenon
  <2>3. CASE graph[u] # king /\ ~Contains(p, graph[u])
    <3>1. ShareOf(lineage, king, graph[u]) = 0
      BY <1>1, <2>3, SharesAreSlots
    <3> QED  BY <2>3, <3>1, Zenon
  <2> QED  BY <2>1, <2>2, <2>3
<1>4. king # NOBODY  OBVIOUS
<1>5. /\ \A u \in U : earned[u] \in Nat
      /\ SumFunctionOnSet(earned, U) \in Int /\ SumFunctionOnSet(earned, U) <= 100
  BY <1>1, <1>4, NoMoreThanWhole
<1>6. \A u \in U : gen(u) \in Nat /\ ShareOf(lineage, king, graph[u]) \in Nat
  <2>1. \A u \in U : graph[u] # king => ShareOf(lineage, king, graph[u]) \in Nat
    BY <1>1, SharesAreSlots
  <2>2. \A u \in U : graph[u] = king => ShareOf(lineage, king, graph[u]) = 85
    BY DEF ShareOf, KingShare
  <2> QED  BY <2>1, <2>2 DEF KingShare
<1>7. \A u \in U : earned[u] = gen(u) + ShareOf(lineage, king, graph[u])  BY DEF Earned
<1> HIDE DEF earn, gen, p
<1>8. paid = earned
  <2>1. earned = [u \in U |-> earned[u]]  BY DEF Earned
  <2>2. \A u \in U : earn(u) + gen(u) = earned[u]
    <3> HIDE DEF earned, U
    <3> QED  BY <1>3, <1>6, <1>7
  <2> HIDE DEF earned, U
  <2> QED  BY <2>1, <2>2
<1>9. FoldFunction(+, 0, paid) = SumFunctionOnSet(earned, U)
  BY <1>8 DEF FoldFunction, SumFunctionOnSet, Earned
<1>10. DOMAIN paid = U  OBVIOUS
<1> HIDE DEF paid, earned, paying
<1>11. /\ DOMAIN paying = U
       /\ \A u \in U \ {burnUid} : paying[u] = earned[u]
       /\ paying[burnUid] = earned[burnUid] + (100 - SumFunctionOnSet(earned, U))
  BY <1>2, <1>8, <1>9, <1>10 DEF Whole
<1>12. SumFunctionOnSet(paying, U)
         = SumFunctionOnSet(earned, U) + paying[burnUid] - earned[burnUid]
  <2>1. \A u \in U : paying[u] \in Int /\ earned[u] \in Int  BY <1>5, <1>11
  <2>2. \A u \in U \ {burnUid} : earned[u] = paying[u]  BY <1>11
  <2> QED  BY <2>1, <2>2, SumChange
<1>13. SumFunctionOnSet(paying, U) = 100  BY <1>5, <1>11, <1>12
<1>14. FoldFunction(+, 0, paying) = Whole
  BY <1>11, <1>13 DEF FoldFunction, SumFunctionOnSet, Whole
<1>15. paying[burnUid] >= earned[burnUid]  BY <1>5, <1>11
<1> QED  BY <1>7, <1>11, <1>14, <1>15 DEF paying, gen

=============================================================================
