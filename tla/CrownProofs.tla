----------------------------- MODULE CrownProofs -----------------------------
(***************************************************************************)
(* Who gets to the crown and who takes it, for every value of the          *)
(* constants: a shot that is lost without a duel was lost by a tree at     *)
(* fault (Queue), and the window's crown is placed by verdicts that add up *)
(* and that a copy or an unanswered task does not decide (Verdict).        *)
(***************************************************************************)
EXTENDS Queue, Verdict, Sums

(***************************************************************************)
(* The inductive invariant.                                                *)
(***************************************************************************)

Failures == [hotkey : Hotkeys, stage : StageSet, outage : BOOLEAN, works : BOOLEAN]
Runs ==
  [todo : SUBSET Hotkeys, paid : SUBSET Hotkeys, admitted : SUBSET Hotkeys, refused : SUBSET Hotkeys,
   failed : SUBSET Failures, over : SUBSET Hotkeys, worked : SUBSET StageSet, down : SUBSET StageSet,
   closing : BOOLEAN]

TypeOK ==
  /\ fate \in [Hotkeys -> Fates \cup {NONE}]
  /\ funded \subseteq Hotkeys
  /\ verdict \in [Hotkeys -> {NONE, "artifact", "cap", "duel"}]
  /\ counted \in [Hotkeys -> Nat] /\ counting \subseteq Hotkeys
  /\ window \in Runs \cup {NONE}
  /\ glitched \subseteq Hotkeys

\* Nothing is held for or against a hotkey that has committed nothing.
NothingBeforeTheCommit ==
  \A h \in Hotkeys \ Committed :
    /\ verdict[h] = NONE /\ counted[h] = 0 /\ h \notin counting /\ h \notin glitched
    /\ window # NONE => /\ h \notin window.todo \cup window.admitted \cup window.refused \cup window.over
                        /\ \A e \in window.failed : e.hotkey # h

AtFault(h) == fate[h].stage # NONE

\* A hotkey that is spared has met its one passing failure, and nothing was counted for it before.
FirstGlitch(h) == h \in glitched /\ counted[h] = 0 /\ h \notin counting

\* What this run has gathered: the refused and those over the cap are at fault; a stage that worked
\* for somebody is up; and a failure at a stage that is up is the tree's or its one glitch.
RunOK ==
  window # NONE =>
    /\ \A h \in window.refused \cup window.over : AtFault(h)
    /\ window.worked \cap window.down = {}
    /\ \A e \in window.failed :
         /\ e.works <=> e.stage \notin window.down
         /\ e.works => AtFault(e.hotkey) \/ window.closing \/ FirstGlitch(e.hotkey)

\* A sound tree is counted against at most once in its life, for its glitch, and the cap is not met by one.
CountOK ==
  /\ \A h \in Committed : ~AtFault(h) =>
       /\ h \in counting => h \in glitched /\ counted[h] = 0
       /\ counted[h] # 0 => h \in glitched /\ counted[h] = 1
  /\ glitched # {} => MaxDeferrals > 0

Inv == TypeOK /\ NothingBeforeTheCommit /\ RunOK /\ CountOK /\ SoundTreeIsDuelled

(***************************************************************************)
(* The stages.                                                             *)
(***************************************************************************)

\* An entry that a stage fails has a first one; what comes before it works.
LEMMA FirstFailure ==
  ASSUME NEW h \in Hotkeys, window # NONE, window.down \subseteq StageSet
  PROVE  LET s == FailedStage(h)
         IN  /\ s = NONE => \A t \in StageSet : ~Fails(h, t)
             /\ s # NONE => s \in StageSet /\ Fails(h, s) /\ \A t \in Before(s) : ~Fails(h, t)
             /\ Before(s) \subseteq StageSet
<1> USE QueueAssumption
<1>1. /\ DOMAIN Stages \subseteq Nat
      /\ \A i \in DOMAIN Stages : Stages[i] \in StageSet
      /\ \A s \in StageSet : \E i \in DOMAIN Stages : Stages[i] = s
      /\ \A i, j \in DOMAIN Stages : Stages[i] = Stages[j] => i = j
  BY DEF StageSet, ToSet, IsInjective
<1>2. \A s : Before(s) \subseteq StageSet
  BY <1>1 DEF Before
<1>3. CASE \A s \in StageSet : ~Fails(h, s)
  BY <1>2, <1>3 DEF FailedStage
<1>4. CASE \E s \in StageSet : Fails(h, s)
  <2> DEFINE places == {i \in DOMAIN Stages : Fails(h, Stages[i])}
  <2>1. places # {} /\ places \subseteq Nat
    BY <1>1, <1>4
  <2>2. PICK i \in places : \A j \in places : ~ (<<j, i>> \in OpToRel(<, Nat))
    BY <2>1, NatLessThanWellFounded, WFMin
  <2>3. \A j \in DOMAIN Stages : j < i => ~Fails(h, Stages[j])
    BY <1>1, <2>1, <2>2 DEF OpToRel
  <2>4. ASSUME NEW t \in Before(Stages[i])
        PROVE  ~Fails(h, t)
    <3>1. PICK j \in DOMAIN Stages : t = Stages[j] /\ \E k \in DOMAIN Stages : Stages[k] = Stages[i] /\ j < k
      BY DEF Before
    <3>2. j < i
      BY <1>1, <2>2, <3>1
    <3> QED
      BY <2>3, <3>1, <3>2
  <2>5. Stages[i] \in StageSet /\ Fails(h, Stages[i])
    BY <1>1, <2>2
  <2>6. LET s == FailedStage(h)
        IN  s \in StageSet /\ Fails(h, s) /\ \A t \in Before(s) : ~Fails(h, t)
    BY <1>4, <2>4, <2>5 DEF FailedStage
  <2> QED
    BY <1>2, <2>6
<1> QED
  BY <1>3, <1>4

\* What Admit and Glitch may put on a run: the stages that worked are up.
LEMMA ReachedIsUp ==
  ASSUME NEW h \in Hotkeys, window # NONE, window.down \subseteq StageSet
  PROVE  LET s == FailedStage(h)
             reached == IF s = NONE THEN StageSet ELSE Before(s)
         IN  reached \subseteq StageSet /\ reached \cap window.down = {}
BY FirstFailure DEF Fails

\* A stage that fails an entry and is up fails it for its tree.
LEMMA UpIsTheTrees ==
  ASSUME NEW h \in Hotkeys, window # NONE, window.down \subseteq StageSet, FailedStage(h) # NONE
  PROVE  FailedStage(h) \in StageSet /\ (FailedStage(h) \notin window.down => AtFault(h))
<1>1. FailedStage(h) \in StageSet /\ Fails(h, FailedStage(h))
  BY FirstFailure
<1> QED
  BY <1>1 DEF Fails, AtFault

(***************************************************************************)
(* What the moves of a run do.                                             *)
(***************************************************************************)

\* An opened run holds committed hotkeys and has gathered nothing.
LEMMA OpenDoes ==
  ASSUME TypeOK, Open
  PROVE  /\ window' \in Runs /\ window'.todo \subseteq Committed
         /\ window'.admitted = {} /\ window'.refused = {} /\ window'.over = {}
         /\ window'.failed = {} /\ window'.worked = {}
         /\ UNCHANGED <<fate, live, funded, verdict, counted, counting, glitched>>
<1>1. PICK missed \in SUBSET (Committed \cap live), blockless \in SUBSET (Committed \cap live),
           down \in SUBSET StageSet, void \in BOOLEAN :
        LET pending == {h \in (Committed \cap live) \ missed : ~Judged(h)}
            queue == QueueOf(pending) \ blockless
        IN  window' = [todo |-> IF void THEN {} ELSE queue, paid |-> funded,
                       admitted |-> {}, refused |-> {}, failed |-> {}, over |-> {}, worked |-> {},
                       down |-> down, closing |-> void]
  BY DEF Open
<1>2. ASSUME NEW S \in SUBSET Committed
      PROVE  QueueOf(S) \subseteq Committed
  BY DEF QueueOf, Foremost
<1>3. QueueOf({h \in (Committed \cap live) \ missed : ~Judged(h)}) \subseteq Committed
  BY <1>2
<1>4. Committed \subseteq Hotkeys /\ funded \subseteq Hotkeys
  BY DEF Committed, TypeOK
<1>5. UNCHANGED <<fate, live, funded, verdict, counted, counting, glitched>>
  BY DEF Open, UpsetIf, Upset, budget
<1> QED
  BY <1>1, <1>3, <1>4, <1>5 DEF Runs

\* h leaves the queue; worked: what it got past; entry: the failure it left, if any.
Passes(h, reached) ==
  /\ window' \in Runs
  /\ window'.todo = window.todo \ {h} /\ window'.admitted \subseteq window.admitted \cup {h}
  /\ window'.down = window.down /\ window'.over = window.over /\ window'.closing = window.closing
  /\ window'.worked = window.worked \cup reached /\ reached \cap window.down = {}

\* One entry of the admission loop (_admit): it is refused or noted as failed only where its
\* tree is at fault or its stage is down.
LEMMA AdmitDoes ==
  ASSUME TypeOK, NEW h \in Hotkeys, window # NONE, Admit(h)
  PROVE  /\ \E reached \in SUBSET StageSet : Passes(h, reached)
         /\ window'.refused = window.refused \/ (AtFault(h) /\ window'.refused = window.refused \cup {h})
         /\ \/ window'.failed = window.failed
            \/ \E e \in Failures : /\ window'.failed = window.failed \cup {e} /\ e.hotkey = h
                                   /\ e.works <=> e.stage \notin window.down
                                   /\ e.works => AtFault(h)
         /\ counting' \in {counting, counting \ {h}}
         /\ UNCHANGED <<fate, live, funded, verdict, counted, glitched>>
<1> DEFINE s == FailedStage(h)
           reached == IF s = NONE THEN StageSet ELSE Before(s)
           tried == [window EXCEPT !.todo = @ \ {h}, !.worked = @ \cup reached]
<1>1. window \in Runs /\ reached \subseteq StageSet /\ reached \cap window.down = {}
  BY ReachedIsUp DEF TypeOK, Runs
<1>2. s # NONE => s \in StageSet /\ (s \notin window.down => AtFault(h))
  BY <1>1, UpIsTheTrees DEF Runs
<1>3. tried \in Runs /\ UNCHANGED <<fate, live, funded, verdict, counted, glitched>>
  BY <1>1 DEF Runs, Admit, budget
<1>4. /\ tried.todo = window.todo \ {h} /\ tried.worked = window.worked \cup reached
      /\ tried.admitted = window.admitted /\ tried.refused = window.refused /\ tried.failed = window.failed
      /\ tried.down = window.down /\ tried.over = window.over /\ tried.closing = window.closing
  BY <1>1 DEF Runs
<1>5. \/ window' = [tried EXCEPT !.admitted = @ \cup {h}] /\ counting' = counting \ {h}
      \/ s # NONE /\ IsArtifact(h, s) /\ window' = [tried EXCEPT !.refused = @ \cup {h}] /\ counting' = counting
      \/ /\ s # NONE /\ counting' = counting
         /\ \E outage \in {FALSE, ~Works(s)} : window' = [tried EXCEPT !.failed = @ \cup {Failure(h, s, outage)}]
  BY DEF Admit, Forget
<1> HIDE DEF tried, reached, s
<1>6. CASE window' = [tried EXCEPT !.admitted = @ \cup {h}] /\ counting' = counting \ {h}
  BY <1>1, <1>3, <1>4, <1>6 DEF Runs, Passes
<1>7. CASE s # NONE /\ IsArtifact(h, s) /\ window' = [tried EXCEPT !.refused = @ \cup {h}] /\ counting' = counting
  BY <1>1, <1>2, <1>3, <1>4, <1>7 DEF Runs, Passes, IsArtifact
<1>8. ASSUME NEW outage \in BOOLEAN, s # NONE, counting' = counting,
             window' = [tried EXCEPT !.failed = @ \cup {Failure(h, s, outage)}]
      PROVE  /\ Passes(h, reached) /\ window'.refused = window.refused
             /\ \E e \in Failures : /\ window'.failed = window.failed \cup {e} /\ e.hotkey = h
                                    /\ e.works <=> e.stage \notin window.down
                                    /\ e.works => AtFault(h)
  <2>1. /\ Failure(h, s, outage) \in Failures /\ Failure(h, s, outage).hotkey = h
        /\ Failure(h, s, outage).works <=> s \notin window.down
        /\ Failure(h, s, outage).stage = s
    BY <1>2, <1>8 DEF Failure, Failures, Works
  <2> HIDE DEF Failure
  <2>2. Passes(h, reached) /\ window'.refused = window.refused /\ window'.failed = window.failed \cup {Failure(h, s, outage)}
    BY <1>1, <1>3, <1>4, <1>8, <2>1 DEF Runs, Passes
  <2> QED
    BY <1>2, <1>8, <2>1, <2>2
<1> QED
  BY <1>1, <1>3, <1>5, <1>6, <1>7, <1>8 DEF Works

\* A stage fails once although it is up: the entry is noted as failed, and is not refused for
\* it.
LEMMA GlitchDoes ==
  ASSUME TypeOK, NEW h \in Hotkeys, window # NONE, Glitch(h)
  PROVE  /\ \E reached \in SUBSET StageSet : Passes(h, reached)
         /\ window'.refused = window.refused
         /\ \E e \in Failures : /\ window'.failed = window.failed \cup {e} /\ e.hotkey = h
                                /\ e.works <=> e.stage \notin window.down
         /\ h \notin glitched /\ glitched' = glitched \cup {h} /\ MaxDeferrals > 0
         /\ UNCHANGED <<fate, live, funded, verdict, counted, counting>>
<1>1. window \in Runs /\ FailedStage(h) = NONE
  BY DEF TypeOK, Glitch
<1>2. \A t \in StageSet : t \notin window.down
  BY <1>1, FirstFailure DEF Runs, Fails
<1>3. \A s : Before(s) \subseteq StageSet
  BY QueueAssumption DEF Before, StageSet, ToSet
<1>4. PICK s \in StageSet : window' = [window EXCEPT !.todo = @ \ {h}, !.worked = @ \cup Before(s),
                                                   !.failed = @ \cup {Failure(h, s, FALSE)}]
  BY DEF Glitch
<1>5. /\ Failure(h, s, FALSE) \in Failures /\ Failure(h, s, FALSE).hotkey = h
      /\ Failure(h, s, FALSE).works <=> s \notin window.down
      /\ Failure(h, s, FALSE).stage = s
  BY DEF Failure, Failures, Works
<1>6. Passes(h, Before(s)) /\ window'.refused = window.refused /\ window'.failed = window.failed \cup {Failure(h, s, FALSE)}
  BY <1>1, <1>2, <1>3, <1>4, <1>5 DEF Runs, Passes
<1> QED
  BY <1>3, <1>5, <1>6 DEF Glitch

\* What is counted against at the close failed at a stage that is up.
LEMMA CloseDoes ==
  ASSUME TypeOK, RunOK, CloseAdmission
  PROVE  /\ window # NONE /\ window' \in Runs /\ window'.todo = window.todo
         /\ window'.admitted = window.admitted /\ window'.refused = window.refused /\ window'.failed = window.failed
         /\ window'.worked = window.worked /\ window'.down = window.down /\ window'.closing = TRUE
         /\ \E against \in SUBSET Hotkeys :
              /\ \A h \in against : (\E e \in window.failed : e.hotkey = h) /\ (AtFault(h) \/ FirstGlitch(h))
              /\ counting' = counting \cup against
              /\ window'.over = {h \in against : counted[h] + 1 > MaxDeferrals}
         /\ UNCHANGED <<fate, live, funded, verdict, counted, glitched>>
<1> DEFINE against == {entry.hotkey : entry \in {e \in window.failed : Counts(e)}}
           over == {h \in against : counted[h] + 1 > MaxDeferrals}
<1>1. window \in Runs /\ ~window.closing /\ window # NONE
  BY DEF TypeOK, CloseAdmission
<1>2. against \subseteq Hotkeys
  BY <1>1 DEF Runs, Failures
<1>3. ASSUME NEW e \in window.failed, Counts(e)
      PROVE  AtFault(e.hotkey) \/ FirstGlitch(e.hotkey)
  <2>1. e.works
    BY <1>1, <1>3 DEF Counts, StageWorked, RunOK, Runs
  <2> QED
    BY <1>1, <2>1 DEF RunOK
<1>4. counting' = counting \cup against /\ window' = [window EXCEPT !.closing = TRUE, !.over = over]
  BY DEF CloseAdmission
<1>5. /\ window' \in Runs /\ window'.todo = window.todo
      /\ window'.admitted = window.admitted /\ window'.refused = window.refused /\ window'.failed = window.failed
      /\ window'.worked = window.worked /\ window'.down = window.down /\ window'.closing = TRUE
      /\ window'.over = over
  BY <1>1, <1>2, <1>4 DEF Runs
<1>6. \A h \in against : (\E e \in window.failed : e.hotkey = h) /\ (AtFault(h) \/ FirstGlitch(h))
  BY <1>3
<1>7. UNCHANGED <<fate, live, funded, verdict, counted, glitched>>
  BY DEF CloseAdmission, budget
<1> HIDE DEF against
<1> QED
  BY <1>1, <1>2, <1>4, <1>5, <1>6, <1>7

(***************************************************************************)
(* Every step keeps the invariant.                                         *)
(***************************************************************************)

\* No step leaves the types.
LEMMA TypeStep ==
  ASSUME Inv, Next
  PROVE  TypeOK'
<1> USE QueueAssumption DEF Inv
<1>1. ASSUME NEW h \in Hotkeys, NEW f \in Fates, Commit(h, f) PROVE TypeOK'
  BY <1>1 DEF Commit, TypeOK, Runs, Failures, budget, Committed
<1>2. ASSUME NEW h \in Hotkeys, Fund(h) PROVE TypeOK'
  BY <1>2 DEF Fund, TypeOK, Runs, Failures, budget, Committed
<1>3. ASSUME NEW h \in Hotkeys, RunDry(h) PROVE TypeOK'
  BY <1>3 DEF RunDry, Upset, TypeOK, Runs, Failures, budget, Committed
<1>4. ASSUME NEW h \in Hotkeys, Deregister(h) PROVE TypeOK'
  BY <1>4 DEF Deregister, Upset, TypeOK, Runs, Failures, budget, Committed
<1>5. ASSUME Open PROVE TypeOK'
  BY <1>5, OpenDoes DEF TypeOK, Runs, Failures, budget, Committed
<1>6. ASSUME NEW h \in Hotkeys, h \in window.todo, window # NONE, ~window.closing, Defer(h) PROVE TypeOK'
  BY <1>6 DEF Defer, Pass, TypeOK, Runs, Failures, budget, Committed
<1>7. ASSUME NEW h \in Hotkeys, h \in window.todo, window # NONE, ~window.closing, Admit(h) PROVE TypeOK'
  BY <1>7, AdmitDoes DEF Passes, TypeOK, Runs, Failures, budget, Committed
<1>8. ASSUME NEW h \in Hotkeys, h \in window.todo, window # NONE, ~window.closing, Glitch(h) PROVE TypeOK'
  BY <1>8, GlitchDoes DEF Passes, TypeOK, Runs, Failures, budget, Committed
<1>9. ASSUME CloseAdmission PROVE TypeOK'
  BY <1>9, CloseDoes DEF TypeOK, Runs, Failures, budget, Committed
<1>10. ASSUME Settle PROVE TypeOK'
  BY <1>10 DEF Settle, UpsetIf, Upset, Folded, TypeOK, Runs, Failures, budget, Committed
<1>11. ASSUME Crash PROVE TypeOK'
  BY <1>11 DEF Crash, Upset, Folded, TypeOK, Runs, Failures, budget, Committed
<1>12. AdmitNext => \E h \in Hotkeys : /\ h \in window.todo /\ window # NONE /\ ~window.closing
                                       /\ Defer(h) \/ Admit(h) \/ Glitch(h)
  BY DEF AdmitNext, TypeOK, Runs
<1> QED
  BY <1>1, <1>2, <1>3, <1>4, <1>5, <1>6, <1>7, <1>8, <1>9, <1>10, <1>11, <1>12 DEF Next, Windows

\* Nothing is gathered on a hotkey before its commit.
LEMMA NothingStep ==
  ASSUME Inv, Next
  PROVE  NothingBeforeTheCommit'
<1> USE QueueAssumption DEF Inv
<1>1. ASSUME NEW h \in Hotkeys, NEW f \in Fates, Commit(h, f) PROVE NothingBeforeTheCommit'
  BY <1>1 DEF Commit, NothingBeforeTheCommit, TypeOK, Runs, budget, Committed
<1>2. ASSUME NEW h \in Hotkeys, Fund(h) PROVE NothingBeforeTheCommit'
  BY <1>2 DEF Fund, NothingBeforeTheCommit, TypeOK, Runs, budget, Committed
<1>3. ASSUME NEW h \in Hotkeys, RunDry(h) PROVE NothingBeforeTheCommit'
  BY <1>3 DEF RunDry, Upset, NothingBeforeTheCommit, TypeOK, Runs, budget, Committed
<1>4. ASSUME NEW h \in Hotkeys, Deregister(h) PROVE NothingBeforeTheCommit'
  BY <1>4 DEF Deregister, Upset, NothingBeforeTheCommit, TypeOK, Runs, budget, Committed
<1>5. ASSUME Open PROVE NothingBeforeTheCommit'
  BY <1>5, OpenDoes DEF NothingBeforeTheCommit, TypeOK, Runs, budget, Committed
<1>6. ASSUME NEW h \in Hotkeys, h \in window.todo, window # NONE, ~window.closing, Defer(h) PROVE NothingBeforeTheCommit'
  BY <1>6 DEF Defer, Pass, NothingBeforeTheCommit, TypeOK, Runs, budget, Committed
<1>7. ASSUME NEW h \in Hotkeys, h \in window.todo, window # NONE, ~window.closing, Admit(h) PROVE NothingBeforeTheCommit'
  <2>1. h \in Committed
    BY <1>7 DEF NothingBeforeTheCommit
  <2>2. /\ window'.todo \subseteq window.todo /\ window'.admitted \subseteq window.admitted \cup {h}
        /\ window'.refused \subseteq window.refused \cup {h} /\ window'.over = window.over
        /\ \A e \in window'.failed : e \in window.failed \/ e.hotkey = h
    BY <1>7, AdmitDoes DEF Passes
  <2>3. counting' \subseteq counting /\ UNCHANGED <<fate, verdict, counted, glitched>>
    BY <1>7, AdmitDoes
  <2> QED
    BY <1>7, <2>1, <2>2, <2>3 DEF NothingBeforeTheCommit, Committed
<1>8. ASSUME NEW h \in Hotkeys, h \in window.todo, window # NONE, ~window.closing, Glitch(h) PROVE NothingBeforeTheCommit'
  BY <1>8, GlitchDoes DEF Passes, NothingBeforeTheCommit, TypeOK, Runs, budget, Committed
<1>9. ASSUME CloseAdmission PROVE NothingBeforeTheCommit'
  <2>1. PICK against \in SUBSET Hotkeys :
          /\ \A h \in against : \E e \in window.failed : e.hotkey = h
          /\ counting' = counting \cup against
          /\ window'.over \subseteq against
    BY <1>9, CloseDoes
  <2>2. /\ window # NONE /\ window'.todo = window.todo
        /\ window'.admitted = window.admitted /\ window'.refused = window.refused /\ window'.failed = window.failed
        /\ UNCHANGED <<fate, verdict, counted, glitched>>
    BY <1>9, CloseDoes
  <2> QED
    BY <2>1, <2>2 DEF NothingBeforeTheCommit, Committed
<1>10. ASSUME Settle PROVE NothingBeforeTheCommit'
  BY <1>10
     DEF Settle, UpsetIf, Upset, Folded, NothingBeforeTheCommit, TypeOK, Runs, budget, Committed
<1>11. ASSUME Crash PROVE NothingBeforeTheCommit'
  BY <1>11 DEF Crash, Upset, Folded, NothingBeforeTheCommit, TypeOK, Runs, budget, Committed
<1>12. AdmitNext => \E h \in Hotkeys : /\ h \in window.todo /\ window # NONE /\ ~window.closing
                                       /\ Defer(h) \/ Admit(h) \/ Glitch(h)
  BY DEF AdmitNext, TypeOK, Runs
<1> QED
  BY <1>1, <1>2, <1>3, <1>4, <1>5, <1>6, <1>7, <1>8, <1>9, <1>10, <1>11, <1>12 DEF Next, Windows

\* What a run gathers against a hotkey is its own fault or its one glitch.
LEMMA RunStep ==
  ASSUME Inv, Next
  PROVE  RunOK'
<1> USE QueueAssumption DEF Inv
<1>1. ASSUME NEW h \in Hotkeys, NEW f \in Fates, Commit(h, f) PROVE RunOK'
  BY <1>1 DEF Commit, RunOK, AtFault, FirstGlitch, TypeOK, Runs, budget, Committed
<1>2. ASSUME NEW h \in Hotkeys, Fund(h) PROVE RunOK'
  BY <1>2 DEF Fund, RunOK, AtFault, FirstGlitch, TypeOK, Runs, budget, Committed
<1>3. ASSUME NEW h \in Hotkeys, RunDry(h) PROVE RunOK'
  BY <1>3 DEF RunDry, Upset, RunOK, AtFault, FirstGlitch, TypeOK, Runs, budget, Committed
<1>4. ASSUME NEW h \in Hotkeys, Deregister(h) PROVE RunOK'
  BY <1>4 DEF Deregister, Upset, RunOK, AtFault, FirstGlitch, TypeOK, Runs, budget, Committed
<1>5. ASSUME Open PROVE RunOK'
  BY <1>5, OpenDoes DEF RunOK, AtFault, FirstGlitch, TypeOK, Runs, budget, Committed
<1>6. ASSUME NEW h \in Hotkeys, h \in window.todo, window # NONE, ~window.closing, Defer(h) PROVE RunOK'
  BY <1>6 DEF Defer, Pass, RunOK, AtFault, FirstGlitch, TypeOK, Runs, budget, Committed
<1>7. ASSUME NEW h \in Hotkeys, h \in window.todo, window # NONE, ~window.closing, Admit(h) PROVE RunOK'
  BY <1>7, AdmitDoes DEF Passes, RunOK, AtFault, FirstGlitch, TypeOK, Runs, budget, Committed
<1>8. ASSUME NEW h \in Hotkeys, h \in window.todo, window # NONE, ~window.closing, Glitch(h) PROVE RunOK'
  <2>1. PICK e \in Failures : /\ window'.failed = window.failed \cup {e} /\ e.hotkey = h
                              /\ e.works <=> e.stage \notin window.down
    BY <1>8, GlitchDoes
  <2>2. PICK reached \in SUBSET StageSet : Passes(h, reached)
    BY <1>8, GlitchDoes
  <2>3. /\ window'.refused = window.refused /\ h \notin glitched /\ glitched' = glitched \cup {h}
        /\ UNCHANGED <<fate, counted, counting>> /\ h \in Committed
    BY <1>8, GlitchDoes DEF NothingBeforeTheCommit
  <2>4. AtFault(h) \/ FirstGlitch(h)'
    BY <2>3 DEF CountOK, FirstGlitch
  <2>5. \A g \in Hotkeys : AtFault(g)' = AtFault(g) /\ (FirstGlitch(g) => FirstGlitch(g)')
    BY <2>3 DEF AtFault, FirstGlitch
  <2>6. AtFault(h)' = AtFault(h) /\ window.failed \subseteq Failures
    BY <1>8, <2>5 DEF TypeOK, Runs
  <2>7. \A f \in Failures : f.hotkey \in Hotkeys
    BY DEF Failures
  <2>8. ASSUME NEW f \in window'.failed
        PROVE  /\ f.works <=> f.stage \notin window'.down
               /\ f.works => AtFault(f.hotkey)' \/ window'.closing \/ FirstGlitch(f.hotkey)'
    BY <1>8, <2>1, <2>2, <2>4, <2>5, <2>6, <2>7 DEF RunOK, Passes
  <2> QED
    BY <1>8, <2>2, <2>3, <2>8 DEF RunOK, Passes, AtFault
<1>9. ASSUME CloseAdmission PROVE RunOK'
  <2>1. PICK against \in SUBSET Hotkeys :
          /\ \A h \in against : AtFault(h) \/ FirstGlitch(h)
          /\ window'.over = {h \in against : counted[h] + 1 > MaxDeferrals}
    BY <1>9, CloseDoes
  <2>2. /\ window # NONE /\ window'.closing = TRUE
        /\ window'.refused = window.refused /\ window'.failed = window.failed
        /\ window'.worked = window.worked /\ window'.down = window.down /\ UNCHANGED fate
    BY <1>9, CloseDoes
  <2>3. ASSUME NEW h \in window'.over PROVE AtFault(h)
    BY <2>1, <2>3 DEF CountOK, FirstGlitch, TypeOK
  <2> QED
    BY <2>2, <2>3 DEF RunOK, AtFault
<1>10. ASSUME Settle PROVE RunOK'
  BY <1>10
     DEF Settle, UpsetIf, Upset, Folded, RunOK, AtFault, FirstGlitch, TypeOK, Runs, budget,
         Committed
<1>11. ASSUME Crash PROVE RunOK'
  BY <1>11 DEF Crash, Upset, Folded, RunOK, AtFault, FirstGlitch, TypeOK, Runs, budget, Committed
<1>12. AdmitNext => \E h \in Hotkeys : /\ h \in window.todo /\ window # NONE /\ ~window.closing
                                       /\ Defer(h) \/ Admit(h) \/ Glitch(h)
  BY DEF AdmitNext, TypeOK, Runs
<1> QED
  BY <1>1, <1>2, <1>3, <1>4, <1>5, <1>6, <1>7, <1>8, <1>9, <1>10, <1>11, <1>12 DEF Next, Windows

\* A sound tree is counted against once.
LEMMA CountStep ==
  ASSUME Inv, Next
  PROVE  CountOK'
<1> USE QueueAssumption DEF Inv
<1>1. ASSUME NEW h \in Hotkeys, NEW f \in Fates, Commit(h, f) PROVE CountOK'
  BY <1>1 DEF Commit, CountOK, NothingBeforeTheCommit, AtFault, TypeOK, budget, Committed
<1>2. ASSUME NEW h \in Hotkeys, Fund(h) PROVE CountOK'
  BY <1>2 DEF Fund, CountOK, AtFault, FirstGlitch, TypeOK, Runs, budget, Committed
<1>3. ASSUME NEW h \in Hotkeys, RunDry(h) PROVE CountOK'
  BY <1>3 DEF RunDry, Upset, CountOK, AtFault, FirstGlitch, TypeOK, Runs, budget, Committed
<1>4. ASSUME NEW h \in Hotkeys, Deregister(h) PROVE CountOK'
  BY <1>4 DEF Deregister, Upset, CountOK, AtFault, FirstGlitch, TypeOK, Runs, budget, Committed
<1>5. ASSUME Open PROVE CountOK'
  BY <1>5, OpenDoes DEF CountOK, AtFault, FirstGlitch, TypeOK, Runs, budget, Committed
<1>6. ASSUME NEW h \in Hotkeys, h \in window.todo, window # NONE, ~window.closing, Defer(h) PROVE CountOK'
  BY <1>6 DEF Defer, Pass, CountOK, AtFault, FirstGlitch, TypeOK, Runs, budget, Committed
<1>7. ASSUME NEW h \in Hotkeys, h \in window.todo, window # NONE, ~window.closing, Admit(h) PROVE CountOK'
  BY <1>7, AdmitDoes DEF Passes, CountOK, AtFault, FirstGlitch, TypeOK, Runs, budget, Committed
<1>8. ASSUME NEW h \in Hotkeys, h \in window.todo, window # NONE, ~window.closing, Glitch(h) PROVE CountOK'
  BY <1>8, GlitchDoes DEF Passes, CountOK, AtFault, FirstGlitch, TypeOK, Runs, budget, Committed
<1>9. ASSUME CloseAdmission PROVE CountOK'
  <2>1. PICK against \in SUBSET Hotkeys :
          /\ \A h \in against : AtFault(h) \/ FirstGlitch(h)
          /\ counting' = counting \cup against
    BY <1>9, CloseDoes
  <2>2. UNCHANGED <<fate, counted, glitched>>
    BY <1>9, CloseDoes
  <2> QED
    BY <2>1, <2>2 DEF CountOK, AtFault, FirstGlitch, Committed
<1>10. ASSUME Settle PROVE CountOK'
  BY <1>10
     DEF Settle, UpsetIf, Upset, Folded, CountOK, AtFault, FirstGlitch, TypeOK, Runs, budget,
         Committed
<1>11. ASSUME Crash PROVE CountOK'
  BY <1>11 DEF Crash, Upset, Folded, CountOK, AtFault, FirstGlitch, TypeOK, Runs, budget, Committed
<1>12. AdmitNext => \E h \in Hotkeys : /\ h \in window.todo /\ window # NONE /\ ~window.closing
                                       /\ Defer(h) \/ Admit(h) \/ Glitch(h)
  BY DEF AdmitNext, TypeOK, Runs
<1> QED
  BY <1>1, <1>2, <1>3, <1>4, <1>5, <1>6, <1>7, <1>8, <1>9, <1>10, <1>11, <1>12 DEF Next, Windows

\* Only a tree at fault loses its shot without a duel.
LEMMA VerdictStep ==
  ASSUME Inv, Next
  PROVE  SoundTreeIsDuelled'
<1> USE QueueAssumption DEF Inv
<1>1. ASSUME NEW h \in Hotkeys, NEW f \in Fates, Commit(h, f) PROVE SoundTreeIsDuelled'
  BY <1>1 DEF Commit, SoundTreeIsDuelled, NothingBeforeTheCommit, TypeOK, Committed
<1>2. ASSUME NEW h \in Hotkeys, Fund(h) PROVE SoundTreeIsDuelled'
  BY <1>2 DEF Fund, SoundTreeIsDuelled, AtFault, TypeOK, Runs, budget, Committed
<1>3. ASSUME NEW h \in Hotkeys, RunDry(h) PROVE SoundTreeIsDuelled'
  BY <1>3 DEF RunDry, Upset, SoundTreeIsDuelled, AtFault, TypeOK, Runs, budget, Committed
<1>4. ASSUME NEW h \in Hotkeys, Deregister(h) PROVE SoundTreeIsDuelled'
  BY <1>4 DEF Deregister, Upset, SoundTreeIsDuelled, AtFault, TypeOK, Runs, budget, Committed
<1>5. ASSUME Open PROVE SoundTreeIsDuelled'
  BY <1>5, OpenDoes DEF SoundTreeIsDuelled, AtFault, TypeOK, Runs, budget, Committed
<1>6. ASSUME NEW h \in Hotkeys, h \in window.todo, window # NONE, ~window.closing, Defer(h) PROVE SoundTreeIsDuelled'
  BY <1>6 DEF Defer, Pass, SoundTreeIsDuelled, AtFault, TypeOK, Runs, budget, Committed
<1>7. ASSUME NEW h \in Hotkeys, h \in window.todo, window # NONE, ~window.closing, Admit(h) PROVE SoundTreeIsDuelled'
  BY <1>7, AdmitDoes DEF Passes, SoundTreeIsDuelled, AtFault, TypeOK, Runs, budget, Committed
<1>8. ASSUME NEW h \in Hotkeys, h \in window.todo, window # NONE, ~window.closing, Glitch(h) PROVE SoundTreeIsDuelled'
  BY <1>8, GlitchDoes DEF Passes, SoundTreeIsDuelled, AtFault, TypeOK, Runs, budget, Committed
<1>9. ASSUME CloseAdmission PROVE SoundTreeIsDuelled'
  BY <1>9, CloseDoes DEF SoundTreeIsDuelled, AtFault, TypeOK, Runs, budget, Committed
<1>10. ASSUME Settle PROVE SoundTreeIsDuelled'
  <2>1. window # NONE /\ UNCHANGED fate /\ \A h \in window.refused \cup window.over : fate[h].stage # NONE
    BY <1>10 DEF Settle, RunOK, AtFault
  <2>2. ASSUME NEW h \in Hotkeys, verdict'[h] \in {"artifact", "cap"}
        PROVE  h \in window.refused \cup window.over \/ verdict'[h] = verdict[h]
    BY <1>10, <2>2 DEF Settle
  <2> QED
    BY <2>1, <2>2 DEF SoundTreeIsDuelled
<1>11. ASSUME Crash PROVE SoundTreeIsDuelled'
  BY <1>11 DEF Crash, Upset, Folded, SoundTreeIsDuelled, AtFault, TypeOK, Runs, budget, Committed
<1>12. AdmitNext => \E h \in Hotkeys : /\ h \in window.todo /\ window # NONE /\ ~window.closing
                                       /\ Defer(h) \/ Admit(h) \/ Glitch(h)
  BY DEF AdmitNext, TypeOK, Runs
<1> QED
  BY <1>1, <1>2, <1>3, <1>4, <1>5, <1>6, <1>7, <1>8, <1>9, <1>10, <1>11, <1>12 DEF Next, Windows

(***************************************************************************)
(* The theorems.                                                           *)
(***************************************************************************)

\* The invariant holds in every reachable state.
THEOREM QueueInvariant == Spec => []Inv
<1>1. Init => Inv
  BY QueueAssumption
     DEF Init, Inv, TypeOK, NothingBeforeTheCommit, RunOK, CountOK, SoundTreeIsDuelled, Committed
<1>2. Inv /\ UNCHANGED vars => Inv'
  BY
     DEF Inv, TypeOK, NothingBeforeTheCommit, RunOK, CountOK, SoundTreeIsDuelled, Committed,
         AtFault, FirstGlitch,
         vars, budget
<1>3. Inv /\ [Next]_vars => Inv'
  BY <1>2, TypeStep, NothingStep, RunStep, CountStep, VerdictStep DEF Inv
<1> QED
  BY <1>1, <1>3, PTL DEF Spec

\* A shot is lost without a duel only to a tree at fault, however often the owner's
\* link, host and daemon fail, and however many windows are run again.
THEOREM SoundTreesAreDuelled == Spec => []SoundTreeIsDuelled
BY QueueInvariant, PTL DEF Inv

(***************************************************************************)
(* The verdict.  First the arithmetic: means are rounded down.             *)
(***************************************************************************)

\* The quotient of an integer by a positive number.
LEMMA Quotient ==
  ASSUME NEW x \in Int, NEW n \in Nat \ {0}
  PROVE  /\ x \div n \in Int
         /\ n * (x \div n) <= x /\ x < n * (x \div n) + n
         /\ x = 0 => x \div n = 0
OBVIOUS

\* Rounding down a difference is no more than the difference of what is rounded down.
LEMMA QuotientMinus ==
  ASSUME NEW x \in Int, NEW y \in Int, NEW n \in Nat \ {0}
  PROVE  (x - y) \div n <= x \div n - y \div n
<1> DEFINE p == x \div n
           q == y \div n
           r == (x - y) \div n
<1>1. /\ p \in Int /\ n * p <= x /\ x < n * p + n
      /\ q \in Int /\ n * q <= y /\ y < n * q + n
      /\ r \in Int /\ n * r <= x - y
  BY Quotient
<1> HIDE DEF p, q, r
<1>2. n * r < n * p - n * q + n  BY <1>1
<1>3. n * (r - p + q - 1) < 0  BY <1>1, <1>2
<1> DEFINE d == r - p + q - 1
<1>4. d \in Int /\ n * d < 0 BY <1>1, <1>3
<1>5. d < 0
  <2> HIDE DEF d
  <2> QED  BY <1>4
<1> QED  BY <1>1, <1>5 DEF p, q, r

(***************************************************************************)
(* Two arms on one slice.                                                  *)
(***************************************************************************)

Rows == [score : Nat, spend : Nat, why : {"run", "budget_exhausted", "duel_wall_clock"}]
ArmsOfSlice == [Tasks -> Rows]

\* A slice is finite, and so are its benchmarks and the rows of each.
LEMMA SliceIsFinite ==
  ASSUME NEW kept \in SUBSET Tasks
  PROVE  /\ IsFiniteSet(kept) /\ IsFiniteSet(Benchmarks(kept))
         /\ Cardinality(Benchmarks(kept)) \in Nat
         /\ \A b : IsFiniteSet({t \in kept : Slice[t] = b})
         /\ \A b \in Benchmarks(kept) : Cardinality({t \in kept : Slice[t] = b}) \in Nat \ {0}
<1>1. IsFiniteSet(Tasks)
  <2>1. Len(Slice) \in Nat /\ Tasks = 1 .. Len(Slice)  BY SliceAssumption DEF Tasks
  <2> QED  BY <2>1, FS_Interval
<1>2. IsFiniteSet(kept)  BY <1>1, FS_Subset
<1>3. IsFiniteSet(Benchmarks(kept)) /\ Cardinality(Benchmarks(kept)) \in Nat
  <2> DEFINE name == [t \in kept |-> Slice[t]]
  <2>1. name \in Surjection(kept, Benchmarks(kept))  BY DEF Benchmarks, Surjection
  <2> QED  BY <1>2, <2>1, FS_Surjection, FS_CardinalityType
<1>4. ASSUME NEW b PROVE IsFiniteSet({t \in kept : Slice[t] = b})  BY <1>2, FS_Subset
<1>5. ASSUME NEW b \in Benchmarks(kept) PROVE Cardinality({t \in kept : Slice[t] = b}) \in Nat \ {0}
  <2>1. {t \in kept : Slice[t] = b} # {}  BY DEF Benchmarks
  <2> QED  BY <1>4, <2>1, FS_CardinalityType, FS_EmptySet
<1> QED  BY <1>2, <1>3, <1>4, <1>5

\* A row's price is an integer.
LEMMA FinalIsInt ==
  ASSUME NEW row \in Rows
  PROVE  Final(row) \in Int
BY DEF Final, Rows

\* Two pairs of arms whose kept rows are the same.
Alike(a, c, a2, c2, kept) == \A t \in kept : a[t] = a2[t] /\ c[t] = c2[t]

\* Only the kept rows are read: a draw of them prices alike arms alike.
LEMMA AlikeDeltas ==
  ASSUME NEW kept, NEW a, NEW c, NEW a2, NEW c2, Alike(a, c, a2, c2, kept),
         NEW draw \in [kept -> kept]
  PROVE  /\ \A b : BenchmarkDelta(a, c, draw, b) = BenchmarkDelta(a2, c2, draw, b)
         /\ Delta(a, c, draw) = Delta(a2, c2, draw)
<1>1. ASSUME NEW b PROVE BenchmarkDelta(a, c, draw, b) = BenchmarkDelta(a2, c2, draw, b)
  <2> DEFINE rows == {t \in DOMAIN draw : Slice[t] = b}
             gain == [t \in rows |-> Final(c[draw[t]]) - Final(a[draw[t]])]
             gain2 == [t \in rows |-> Final(c2[draw[t]]) - Final(a2[draw[t]])]
  <2>1. \A t \in rows : draw[t] \in kept  OBVIOUS
  <2>2. \A t \in rows : c[draw[t]] = c2[draw[t]] /\ a[draw[t]] = a2[draw[t]]
    BY <2>1 DEF Alike
  <2>3. gain = gain2  BY <2>2
  <2> QED  BY <2>3 DEF BenchmarkDelta
<1>2. [b \in Benchmarks(DOMAIN draw) |-> BenchmarkDelta(a, c, draw, b)]
        = [b \in Benchmarks(DOMAIN draw) |-> BenchmarkDelta(a2, c2, draw, b)]
  BY <1>1
<1>3. Delta(a, c, draw) = Delta(a2, c2, draw)  BY <1>2 DEF Delta
<1> QED  BY <1>1, <1>3

\* So alike arms stand alike apart, and are told apart alike.
LEMMA AlikeSeparable ==
  ASSUME NEW kept, NEW a, NEW c, NEW a2, NEW c2, Alike(a, c, a2, c2, kept)
  PROVE  /\ Delta(a, c, AllRows(kept)) = Delta(a2, c2, AllRows(kept))
         /\ Separable(a, c, kept) = Separable(a2, c2, kept)
<1>1. AllRows(kept) \in [kept -> kept]  BY DEF AllRows
<1>2. Delta(a, c, AllRows(kept)) = Delta(a2, c2, AllRows(kept))  BY <1>1, AlikeDeltas
<1>3. \A draw \in Resamples(kept) : Delta(a, c, draw) = Delta(a2, c2, draw)
  BY AlikeDeltas DEF Resamples
<1>4. {draw \in Resamples(kept) : Delta(a, c, draw) <= 0}
        = {draw \in Resamples(kept) : Delta(a2, c2, draw) <= 0}
  BY <1>3
<1>5. Separable(a, c, kept) = Separable(a2, c2, kept)  BY <1>4 DEF Separable
<1> QED  BY <1>2, <1>5

\* So alike arms win alike.
LEMMA AlikeWins ==
  ASSUME NEW kept, NEW a, NEW c, NEW a2, NEW c2, Alike(a, c, a2, c2, kept)
  PROVE  ChallengerWins(a, c, kept) = ChallengerWins(a2, c2, kept)
<1>1. AllRows(kept) \in [kept -> kept]  BY DEF AllRows
<1>2. \A b : BenchmarkDelta(a, c, AllRows(kept), b) = BenchmarkDelta(a2, c2, AllRows(kept), b)
  BY <1>1, AlikeDeltas
<1>3. [b \in Benchmarks(kept) |-> Counted(BenchmarkDelta(a, c, AllRows(kept), b))]
        = [b \in Benchmarks(kept) |-> Counted(BenchmarkDelta(a2, c2, AllRows(kept), b))]
  BY <1>2
<1>4. Broad(a, c, kept) = Broad(a2, c2, kept)  BY <1>3 DEF Broad
<1> QED  BY <1>4, AlikeSeparable DEF ChallengerWins

\* A verdict is a function of the rows kept and of what the clock took.
LEMMA AlikeVerdicts ==
  ASSUME NEW a, NEW c, NEW a2, NEW c2, NEW dead,
         Kept(a, c, dead) = Kept(a2, c2, dead),
         ThinnedByClock(a, c, dead) = ThinnedByClock(a2, c2, dead),
         Alike(a, c, a2, c2, Kept(a, c, dead))
  PROVE  VerdictOf(a, c, dead) = VerdictOf(a2, c2, dead)
<1>1. ChallengerWins(a, c, Kept(a, c, dead)) = ChallengerWins(a2, c2, Kept(a, c, dead))
  BY AlikeWins
<1> QED  BY <1>1 DEF VerdictOf


(***************************************************************************)
(* A task that decides nothing.                                            *)
(***************************************************************************)

\* The incumbent's row of a task the pair does not keep may be any answer.
LEMMA IncumbentUnanswered ==
  ASSUME NEW a \in ArmsOfSlice, NEW c \in ArmsOfSlice, NEW dead, NEW t \in dead \union Late(c),
         t \in Tasks, NEW row, row.why = "run"
  PROVE  VerdictOf([a EXCEPT ![t] = row], c, dead) = VerdictOf(a, c, dead)
<1> DEFINE a2 == [a EXCEPT ![t] = row]
<1>1. \A u \in Tasks : a2[u] = IF u = t THEN row ELSE a[u]  BY DEF ArmsOfSlice
<1> HIDE DEF a2
<1>2. Late(a2) = Late(a) \ {t}  BY <1>1 DEF Late, How
<1>3. Kept(a, c, dead) = Kept(a2, c, dead)  BY <1>2 DEF Kept
<1>4. ThinnedByClock(a, c, dead) = ThinnedByClock(a2, c, dead)
  BY <1>2 DEF ThinnedByClock, Late, How
<1>5. Alike(a, c, a2, c, Kept(a, c, dead))  BY <1>1 DEF Alike, Kept
<1>6. VerdictOf(a, c, dead) = VerdictOf(a2, c, dead)  BY <1>3, <1>4, <1>5, AlikeVerdicts
<1> QED  BY <1>6 DEF a2

\* So may the challenger's.
LEMMA ChallengerUnanswered ==
  ASSUME NEW a \in ArmsOfSlice, NEW c \in ArmsOfSlice, NEW dead, NEW t \in dead \union Late(a),
         t \in Tasks, NEW row, row.why = "run"
  PROVE  VerdictOf(a, [c EXCEPT ![t] = row], dead) = VerdictOf(a, c, dead)
<1> DEFINE c2 == [c EXCEPT ![t] = row]
<1>1. \A u \in Tasks : c2[u] = IF u = t THEN row ELSE c[u]  BY DEF ArmsOfSlice
<1> HIDE DEF c2
<1>2. Late(c2) = Late(c) \ {t}  BY <1>1 DEF Late, How
<1>3. Kept(a, c, dead) = Kept(a, c2, dead)  BY <1>2 DEF Kept
<1>4. ThinnedByClock(a, c, dead) = ThinnedByClock(a, c2, dead)
  BY <1>2 DEF ThinnedByClock, Late, How
<1>5. Alike(a, c, a, c2, Kept(a, c, dead))  BY <1>1 DEF Alike, Kept
<1>6. VerdictOf(a, c, dead) = VerdictOf(a, c2, dead)  BY <1>3, <1>4, <1>5, AlikeVerdicts
<1> QED  BY <1>6 DEF c2

(***************************************************************************)
(* A copy ties, and a winner stands EPS above whom it beats.               *)
(***************************************************************************)

\* What one benchmark's rows of an arm are worth: its mean, scaled.
Mean(arm, kept, b) ==
  (Scale * SumFunctionOnSet([t \in kept |-> Final(arm[t])], {t \in kept : Slice[t] = b}))
    \div Cardinality({t \in kept : Slice[t] = b})

\* A benchmark's mean is an integer, and its delta no more than the difference of the two means.
LEMMA DeltaOfMeans ==
  ASSUME NEW a \in ArmsOfSlice, NEW c \in ArmsOfSlice, NEW kept \in SUBSET Tasks,
         NEW b \in Benchmarks(kept)
  PROVE  /\ Mean(a, kept, b) \in Int /\ Mean(c, kept, b) \in Int
         /\ BenchmarkDelta(a, c, AllRows(kept), b) \in Int
         /\ BenchmarkDelta(a, c, AllRows(kept), b) <= Mean(c, kept, b) - Mean(a, kept, b)
         /\ a = c => BenchmarkDelta(a, c, AllRows(kept), b) = 0
<1> DEFINE rows == {t \in kept : Slice[t] = b}
           n == Cardinality(rows)
           fa == [t \in kept |-> Final(a[t])]
           fc == [t \in kept |-> Final(c[t])]
           gain == [t \in rows |-> Final(c[t]) - Final(a[t])]
           x == SumFunctionOnSet(fc, rows)
           y == SumFunctionOnSet(fa, rows)
           z == SumFunctionOnSet(gain, rows)
<1>1. IsFiniteSet(rows) /\ n \in Nat \ {0}  BY SliceIsFinite
<1>2. \A t \in rows : fa[t] \in Int /\ fc[t] \in Int /\ gain[t] = fc[t] - fa[t]
  <2>1. \A t \in rows : a[t] \in Rows /\ c[t] \in Rows  BY DEF ArmsOfSlice
  <2> QED  BY <2>1, FinalIsInt
<1>3. BenchmarkDelta(a, c, AllRows(kept), b) = (Scale * z) \div n
  <2>1. DOMAIN AllRows(kept) = kept /\ \A t \in kept : AllRows(kept)[t] = t  BY DEF AllRows
  <2>2. {t \in DOMAIN AllRows(kept) : Slice[t] = b} = rows  BY <2>1
  <2>3. [t \in rows |-> Final(c[AllRows(kept)[t]]) - Final(a[AllRows(kept)[t]])] = gain
    BY <2>1
  <2> QED  BY <2>2, <2>3 DEF BenchmarkDelta
<1>4. Mean(a, kept, b) = (Scale * y) \div n /\ Mean(c, kept, b) = (Scale * x) \div n
  BY DEF Mean
<1> HIDE DEF n, fa, fc, gain, rows
<1>5. x \in Int /\ y \in Int /\ z = x - y
  BY <1>1, <1>2, SumType, SumMinus
<1> HIDE DEF x, y, z
<1>6. Scale \in Int  BY DEF Scale
<1>7. (Scale * z) = Scale * x - Scale * y  BY <1>5, <1>6
<1>8. Scale * x \in Int /\ Scale * y \in Int /\ Scale * z \in Int  BY <1>5, <1>6
<1>9. /\ (Scale * x) \div n \in Int /\ (Scale * y) \div n \in Int /\ (Scale * z) \div n \in Int
      /\ Scale * z = 0 => (Scale * z) \div n = 0
  BY <1>1, <1>8, Quotient
<1>10. (Scale * z) \div n <= (Scale * x) \div n - (Scale * y) \div n
  BY <1>1, <1>7, <1>8, QuotientMinus
<1>11. a = c => Scale * z = 0
  <2>1. a = c => x = y  BY DEF x, y, fa, fc
  <2> QED  BY <2>1, <1>5, <1>6
<1> QED  BY <1>3, <1>4, <1>9, <1>10, <1>11

\* An arm's worth is the sum of its means.
LEMMA WorthOfMeans ==
  ASSUME NEW arm, NEW kept
  PROVE  Worth(arm, kept)
           = SumFunctionOnSet([b \in Benchmarks(kept) |-> Mean(arm, kept, b)], Benchmarks(kept))
BY DEF Worth, Mean

\* The delta of a pair over all its rows is no more than the difference in worth, and
\* nothing for two arms that are the same.
LEMMA DeltaOfWorths ==
  ASSUME NEW a \in ArmsOfSlice, NEW c \in ArmsOfSlice, NEW kept \in SUBSET Tasks
  PROVE  /\ Worth(a, kept) \in Int /\ Worth(c, kept) \in Int
         /\ Delta(a, c, AllRows(kept)) \in Int
         /\ Delta(a, c, AllRows(kept)) <= Worth(c, kept) - Worth(a, kept)
         /\ a = c => Delta(a, c, AllRows(kept)) = 0
<1> DEFINE bs == Benchmarks(kept)
           wa == [b \in bs |-> Mean(a, kept, b)]
           wc == [b \in bs |-> Mean(c, kept, b)]
           rise == [b \in bs |-> wc[b] - wa[b]]
           ds == [b \in bs |-> BenchmarkDelta(a, c, AllRows(kept), b)]
<1>1. IsFiniteSet(bs)  BY SliceIsFinite
<1>2. \A b \in bs : /\ wa[b] \in Int /\ wc[b] \in Int /\ rise[b] \in Int /\ ds[b] \in Int
                    /\ rise[b] = wc[b] - wa[b] /\ ds[b] <= rise[b]
                    /\ a = c => ds[b] = 0
  BY DeltaOfMeans
<1>3. /\ Worth(a, kept) = SumFunctionOnSet(wa, bs) /\ Worth(c, kept) = SumFunctionOnSet(wc, bs)
  BY WorthOfMeans
<1>4. Delta(a, c, AllRows(kept)) = SumFunctionOnSet(ds, bs)
  <2>1. DOMAIN AllRows(kept) = kept  BY DEF AllRows
  <2> QED  BY <2>1 DEF Delta
<1> HIDE DEF bs, wa, wc, rise, ds
<1>5. /\ SumFunctionOnSet(wa, bs) \in Int /\ SumFunctionOnSet(wc, bs) \in Int
      /\ SumFunctionOnSet(rise, bs) = SumFunctionOnSet(wc, bs) - SumFunctionOnSet(wa, bs)
      /\ SumFunctionOnSet(ds, bs) \in Int
      /\ SumFunctionOnSet(ds, bs) <= SumFunctionOnSet(rise, bs)
  BY <1>1, <1>2, SumType, SumMinus, SumMonotone
<1>6. a = c => SumFunctionOnSet(ds, bs) = 0  BY <1>1, <1>2, SumZero
<1> QED  BY <1>3, <1>4, <1>5, <1>6

\* The margin a duel is won by, over all its benchmarks.
Step(kept) == Eps * Scale * Cardinality(Benchmarks(kept))

\* A winner's arm is worth the margin more than that of whom it beats.
LEMMA WinnerIsWorthMore ==
  ASSUME NEW a \in ArmsOfSlice, NEW c \in ArmsOfSlice, NEW dead, VerdictOf(a, c, dead) = "wins"
  PROVE  LET kept == Kept(a, c, dead)
         IN  /\ Worth(a, kept) \in Int /\ Worth(c, kept) \in Int
             /\ Step(kept) \in Nat \ {0}
             /\ Worth(c, kept) >= Worth(a, kept) + Step(kept)
<1> DEFINE kept == Kept(a, c, dead)
<1>1. kept \in SUBSET Tasks  BY DEF Kept
<1>2. ChallengerWins(a, c, kept) /\ Cardinality(Benchmarks(kept)) >= 2
  BY DEF VerdictOf
<1>3. Delta(a, c, AllRows(kept)) > Step(kept)  BY <1>2 DEF ChallengerWins, Step
<1>4. Cardinality(Benchmarks(kept)) \in Nat  BY <1>1, SliceIsFinite
<1>5. Step(kept) \in Nat \ {0}  BY <1>2, <1>4 DEF Step, Eps, Scale
<1> HIDE DEF kept
<1> QED  BY <1>1, <1>3, <1>5, DeltaOfWorths DEF kept

\* A copy never wins.
LEMMA CopyTies ==
  ASSUME NEW a \in ArmsOfSlice, NEW dead
  PROVE  VerdictOf(a, a, dead) # "wins"
<1> SUFFICES ASSUME VerdictOf(a, a, dead) = "wins" PROVE FALSE
  OBVIOUS
<1> DEFINE kept == Kept(a, a, dead)
<1> HIDE DEF kept
<1>1. /\ Worth(a, kept) \in Int /\ Step(kept) \in Nat \ {0}
      /\ Worth(a, kept) >= Worth(a, kept) + Step(kept)
  BY WinnerIsWorthMore DEF kept
<1> QED  BY <1>1

(***************************************************************************)
(* The succession.                                                         *)
(***************************************************************************)

\* The holders after one more contender.
Passed(before, c, winners) ==
  IF c \in winners /\ (Len(before) = 1 \/ Duel(Reigning(before), c) = "wins")
    THEN Append(before, c) ELSE before

\* The recursion of the succession, up to a contender.
Climbs(h, winners, n) ==
  \A c \in 0 .. n : h[c] = IF c = 0 THEN <<King>> ELSE Passed(h[c - 1], c, winners)

\* The recursion has a solution up to every contender.
LEMMA ClimbsUpTo ==
  ASSUME NEW winners, NEW n \in Nat
  PROVE  \E h : Climbs(h, winners, n)
<1> DEFINE Bad == {k \in Nat : ~\E h : Climbs(h, winners, k)}
<1>1. ASSUME Bad # {} PROVE FALSE
  <2>1. PICK k \in Bad : \A m \in Bad : k <= m
    <3>1. Bad \subseteq Nat  OBVIOUS
    <3> HIDE DEF Bad
    <3> QED  BY <1>1, <3>1, LeastNat
  <2>2. CASE k = 0
    <3> DEFINE h == [c \in {0} |-> <<King>>]
    <3>1. h[0] = <<King>>  OBVIOUS
    <3> HIDE DEF h
    <3>2. Climbs(h, winners, 0)
      <4> SUFFICES ASSUME NEW c \in 0 .. 0
                   PROVE  h[c] = IF c = 0 THEN <<King>> ELSE Passed(h[c - 1], c, winners)
        BY DEF Climbs
      <4>1. c = 0  OBVIOUS
      <4> QED  BY <3>1, <4>1
    <3> QED  BY <2>2, <3>2
  <2>3. CASE k # 0
    <3>1. k - 1 \in Nat /\ k \in Nat  BY <2>3
    <3>2. k - 1 \notin Bad
      <4> HIDE DEF Bad
      <4> QED  BY <2>1, <3>1
    <3>3. PICK g : Climbs(g, winners, k - 1)  BY <3>1, <3>2
    <3> DEFINE h == [c \in 0 .. k |-> IF c = k THEN Passed(g[k - 1], k, winners) ELSE g[c]]
    <3>4. \A c \in 0 .. k : h[c] = IF c = k THEN Passed(g[k - 1], k, winners) ELSE g[c]
      OBVIOUS
    <3> HIDE DEF h, Bad
    <3>5. ASSUME NEW c \in 0 .. k
          PROVE  h[c] = IF c = 0 THEN <<King>> ELSE Passed(h[c - 1], c, winners)
      <4>1. CASE c = k
        <5>1. k - 1 \in 0 .. k /\ k - 1 # k  BY <3>1
        <5>2. h[k - 1] = g[k - 1] /\ h[k] = Passed(g[k - 1], k, winners)  BY <3>1, <3>4, <5>1
        <5> QED  BY <2>3, <4>1, <5>2
      <4>2. CASE c # k
        <5>1. c \in 0 .. k - 1  BY <3>1, <4>2
        <5>2. h[c] = g[c]  BY <3>4, <4>2
        <5>3. c # 0 => c - 1 \in 0 .. k /\ c - 1 # k  BY <3>1, <5>1
        <5>4. c # 0 => h[c - 1] = g[c - 1]  BY <3>4, <5>3
        <5> QED  BY <3>3, <5>1, <5>2, <5>4 DEF Climbs
      <4> QED  BY <4>1, <4>2
    <3>6. Climbs(h, winners, k)  BY <3>5 DEF Climbs
    <3> QED  BY <3>6 DEF Bad
  <2> QED  BY <2>2, <2>3
<1>2. n \notin Bad  BY <1>1
<1> QED  BY <1>2

\* The succession is that recursion's last value.
LEMMA SuccessionClimbs ==
  ASSUME NEW winners
  PROVE  \E h : Climbs(h, winners, Contenders) /\ h[Contenders] = Succession(winners)
<1> DEFINE step(h, c) == IF c = 0 THEN <<King>>
                         ELSE LET before == h[c - 1]
                                  clears == Len(before) = 1 \/ Duel(Reigning(before), c) = "wins"
                              IN  IF c \in winners /\ clears THEN Append(before, c) ELSE before
           It == CHOOSE h : h = [c \in 0 .. Contenders |-> step(h, c)]
<1>1. Succession(winners) = It[Contenders]  BY DEF Succession
<1>2. \A h, c : step(h, c) = IF c = 0 THEN <<King>> ELSE Passed(h[c - 1], c, winners)
  BY DEF Passed
<1> HIDE DEF step
<1>3. Contenders \in Nat  BY SliceAssumption
<1>4. PICK g : Climbs(g, winners, Contenders)
  <2> HIDE DEF It
  <2> QED  BY <1>3, ClimbsUpTo
<1> DEFINE h == [c \in 0 .. Contenders |-> g[c]]
<1>5. \A c \in 0 .. Contenders : h[c] = step(h, c)
  <2> SUFFICES ASSUME NEW c \in 0 .. Contenders PROVE h[c] = step(h, c)
    OBVIOUS
  <2>1. c # 0 => c - 1 \in 0 .. Contenders  BY <1>3
  <2>2. h[c] = g[c] /\ (c # 0 => h[c - 1] = g[c - 1])  BY <2>1
  <2> HIDE DEF h
  <2> QED  BY <1>2, <1>4, <2>2 DEF Climbs
<1>6. h = [c \in 0 .. Contenders |-> step(h, c)]  BY <1>5
<1>7. It = [c \in 0 .. Contenders |-> step(It, c)]  BY <1>6
<1>8. \A c \in 0 .. Contenders : It[c] = step(It, c)
  <2> HIDE DEF It
  <2> QED  BY <1>7
<1> HIDE DEF It
<1>9. Climbs(It, winners, Contenders)  BY <1>2, <1>8 DEF Climbs
<1> QED  BY <1>1, <1>9

\* What holds of the holders once the contenders up to c have been heard: the king, then winners in
\* their order, each of whom beat the one before; and every winner heard either held the crown or
\* was turned away by the holder of his turn.
HoldersOK(h, c, winners) ==
  /\ h \in Seq(Nat) /\ Len(h) >= 1 /\ h[1] = King
  /\ \A k \in 2 .. Len(h) : h[k] \in winners /\ h[k - 1] < h[k] /\ h[k] <= c
  /\ \A k \in 3 .. Len(h) : Duel(h[k - 1], h[k]) = "wins"
  /\ \A i \in winners : i <= c =>
       \/ \E k \in 2 .. Len(h) : h[k] = i
       \/ \E k \in 2 .. Len(h) : /\ h[k] < i /\ (k < Len(h) => i < h[k + 1])
                                 /\ Duel(h[k], i) # "wins"

\* One more contender keeps that so.
LEMMA PassedOK ==
  ASSUME NEW winners, winners \subseteq Nat \ {0}, NEW h, NEW c \in Nat \ {0},
         HoldersOK(h, c - 1, winners)
  PROVE  HoldersOK(Passed(h, c, winners), c, winners)
<1> DEFINE n == Len(h)
<1>1. /\ h \in Seq(Nat) /\ n \in Nat /\ n >= 1 /\ h[1] = 0
      /\ \A k \in 1 .. n : h[k] \in Nat
  BY DEF HoldersOK, King
<1>2. \A k \in 1 .. n : h[k] <= c - 1
  <2>1. \A k \in 2 .. n : h[k] <= c - 1  BY DEF HoldersOK
  <2> QED  BY <1>1, <2>1
<1>3. Reigning(h) = h[n]  BY <1>1 DEF Reigning, Last
<1>4. CASE c \in winners /\ (n = 1 \/ Duel(h[n], c) = "wins")
  <2> DEFINE g == Append(h, c)
  <2>1. Passed(h, c, winners) = g  BY <1>3, <1>4 DEF Passed
  <2>2. /\ g \in Seq(Nat) /\ Len(g) = n + 1 /\ g[n + 1] = c
        /\ \A k \in 1 .. n : g[k] = h[k]
    BY <1>1
  <2> HIDE DEF g
  <2>3. g[1] = King  BY <1>1, <2>2 DEF King
  <2>4. ASSUME NEW k \in 2 .. Len(g) PROVE g[k] \in winners /\ g[k - 1] < g[k] /\ g[k] <= c
    <3>1. CASE k = n + 1
      <4>1. k - 1 = n /\ n \in 1 .. n  BY <1>1, <3>1
      <4> QED  BY <1>1, <1>2, <1>4, <2>2, <3>1, <4>1
    <3>2. CASE k # n + 1
      <4>1. k \in 2 .. n /\ k \in 1 .. n /\ k - 1 \in 1 .. n  BY <1>1, <2>2, <3>2
      <4>2. h[k] \in winners /\ h[k - 1] < h[k] /\ h[k] <= c - 1  BY <4>1 DEF HoldersOK
      <4>3. g[k] = h[k] /\ g[k - 1] = h[k - 1] /\ h[k] \in Nat  BY <1>1, <2>2, <4>1
      <4> QED  BY <4>2, <4>3
    <3> QED  BY <3>1, <3>2
  <2>5. ASSUME NEW k \in 3 .. Len(g) PROVE Duel(g[k - 1], g[k]) = "wins"
    <3>1. CASE k = n + 1
      <4>1. k - 1 = n /\ n \in 1 .. n /\ n # 1  BY <1>1, <3>1
      <4>2. g[k - 1] = h[n] /\ g[k] = c  BY <2>2, <3>1, <4>1
      <4> QED  BY <1>4, <4>1, <4>2
    <3>2. CASE k # n + 1
      <4>1. k \in 3 .. n /\ k \in 1 .. n /\ k - 1 \in 1 .. n  BY <1>1, <2>2, <3>2
      <4>2. Duel(h[k - 1], h[k]) = "wins"  BY <4>1 DEF HoldersOK
      <4> QED  BY <2>2, <4>1, <4>2
    <3> QED  BY <3>1, <3>2
  <2>6. ASSUME NEW i \in winners, i <= c
        PROVE  \/ \E k \in 2 .. Len(g) : g[k] = i
               \/ \E k \in 2 .. Len(g) : /\ g[k] < i /\ (k < Len(g) => i < g[k + 1])
                                         /\ Duel(g[k], i) # "wins"
    <3>1. CASE i = c
      <4>1. n + 1 \in 2 .. Len(g)  BY <1>1, <2>2
      <4> QED  BY <2>2, <3>1, <4>1
    <3>2. CASE i # c
      <4>1. i <= c - 1 /\ i \in Nat  BY <2>6, <3>2
      <4>2. CASE \E k \in 2 .. n : h[k] = i
        <5>1. PICK k \in 2 .. n : h[k] = i  BY <4>2
        <5>2. k \in 2 .. Len(g) /\ k \in 1 .. n  BY <1>1, <2>2
        <5> QED  BY <2>2, <5>1, <5>2
      <4>3. CASE \E k \in 2 .. n : /\ h[k] < i /\ (k < n => i < h[k + 1])
                                   /\ Duel(h[k], i) # "wins"
        <5>1. PICK k \in 2 .. n : h[k] < i /\ (k < n => i < h[k + 1]) /\ Duel(h[k], i) # "wins"
          BY <4>3
        <5>2. k \in 2 .. Len(g) /\ k \in 1 .. n  BY <1>1, <2>2
        <5>3. k < Len(g) => i < g[k + 1]
          <6>1. CASE k = n  BY <2>2, <4>1, <6>1
          <6>2. CASE k # n
            <7>1. k < n /\ k + 1 \in 1 .. n  BY <1>1, <6>2
            <7> QED  BY <2>2, <5>1, <7>1
          <6> QED  BY <6>1, <6>2
        <5>4. g[k] = h[k]  BY <2>2, <5>2
        <5> QED  BY <5>1, <5>2, <5>3, <5>4
      <4> QED  BY <4>1, <4>2, <4>3 DEF HoldersOK
    <3> QED  BY <3>1, <3>2
  <2>7. Len(g) >= 1  BY <1>1, <2>2
  <2>8. HoldersOK(g, c, winners)  BY <2>2, <2>3, <2>4, <2>5, <2>6, <2>7 DEF HoldersOK
  <2> QED  BY <2>1, <2>8
<1>5. CASE ~(c \in winners /\ (n = 1 \/ Duel(h[n], c) = "wins"))
  <2>1. Passed(h, c, winners) = h  BY <1>3, <1>5 DEF Passed
  <2>2. ASSUME NEW k \in 2 .. n PROVE h[k] \in winners /\ h[k - 1] < h[k] /\ h[k] <= c
    <3>1. h[k] \in winners /\ h[k - 1] < h[k] /\ h[k] <= c - 1  BY DEF HoldersOK
    <3>2. h[k] \in Nat  BY <1>1
    <3> QED  BY <3>1, <3>2
  <2>3. ASSUME NEW i \in winners, i <= c
        PROVE  \/ \E k \in 2 .. n : h[k] = i
               \/ \E k \in 2 .. n : h[k] < i /\ (k < n => i < h[k + 1]) /\ Duel(h[k], i) # "wins"
    <3>1. CASE i = c
      <4>1. n # 1 /\ Duel(h[n], c) # "wins"  BY <1>5, <2>3, <3>1
      <4>2. n \in 2 .. n /\ n \in 1 .. n /\ ~(n < n)
        <5>1. n \in Nat /\ n >= 1 /\ n # 1  BY <1>1, <4>1
        <5> HIDE DEF n
        <5> QED  BY <5>1
      <4>3. h[n] < c  BY <1>1, <1>2, <4>2
      <4> QED  BY <3>1, <4>1, <4>2, <4>3
    <3>2. CASE i # c
      <4>1. i <= c - 1  BY <2>3, <3>2
      <4> QED  BY <4>1 DEF HoldersOK
    <3> QED  BY <3>1, <3>2
  <2>4. \A k \in 3 .. n : Duel(h[k - 1], h[k]) = "wins"  BY DEF HoldersOK
  <2>5. HoldersOK(h, c, winners)  BY <1>1, <2>2, <2>3, <2>4 DEF HoldersOK, King
  <2> QED  BY <2>1, <2>5
<1> QED  BY <1>4, <1>5

\* So it holds of the succession.
LEMMA SuccessionOK ==
  ASSUME NEW winners, winners \subseteq 1 .. Contenders
  PROVE  HoldersOK(Succession(winners), Contenders, winners)
<1>1. PICK h : Climbs(h, winners, Contenders) /\ h[Contenders] = Succession(winners)
  BY SuccessionClimbs
<1>2. Contenders \in Nat  BY SliceAssumption
<1>3. winners \subseteq Nat \ {0}  BY <1>2
<1> DEFINE Bad == {k \in 0 .. Contenders : ~HoldersOK(h[k], k, winners)}
<1>4. ASSUME Bad # {} PROVE FALSE
  <2>1. PICK k \in Bad : \A m \in Bad : k <= m
    <3>1. Bad \subseteq Nat  BY <1>2
    <3> HIDE DEF Bad
    <3> QED  BY <1>4, <3>1, LeastNat
  <2>2. CASE k = 0
    <3>1. h[0] = <<King>>  BY <1>1, <1>2 DEF Climbs
    <3>2. HoldersOK(<<King>>, 0, winners)  BY <1>3 DEF HoldersOK, King
    <3> QED  BY <2>2, <3>1, <3>2
  <2>3. CASE k # 0
    <3>1. k - 1 \in 0 .. Contenders /\ k \in Nat \ {0} /\ ~(k <= k - 1)  BY <1>2, <2>3
    <3>2. k - 1 \notin Bad
      <4> HIDE DEF Bad
      <4> QED  BY <2>1, <3>1
    <3>3. HoldersOK(h[k - 1], k - 1, winners)  BY <3>1, <3>2
    <3>4. h[k] = Passed(h[k - 1], k, winners)  BY <1>1, <2>3 DEF Climbs
    <3> HIDE DEF Bad
    <3>5. HoldersOK(h[k], k, winners)  BY <1>3, <3>1, <3>3, <3>4, PassedOK
    <3> QED  BY <3>5 DEF Bad
  <2> QED  BY <2>2, <2>3
<1>5. Contenders \in 0 .. Contenders  BY <1>2
<1> QED  BY <1>1, <1>4, <1>5

\* The holders stand in their order.
LEMMA HoldersClimb ==
  ASSUME NEW h, NEW c, NEW winners, HoldersOK(h, c, winners)
  PROVE  \A p \in 1 .. Len(h), q \in 1 .. Len(h) :
           /\ h[p] \in Nat /\ (p < q => h[p] < h[q]) /\ (h[p] < h[q] => p < q)
<1> DEFINE n == Len(h)
<1>1. n \in Nat /\ \A k \in 1 .. n : h[k] \in Nat  BY DEF HoldersOK
<1>2. \A k \in 2 .. n : h[k - 1] < h[k]  BY DEF HoldersOK
<1> HIDE DEF n
<1>3. ASSUME NEW p \in 1 .. n, NEW q \in 1 .. n, p < q PROVE h[p] < h[q]
  <2> DEFINE Bad == {k \in p + 1 .. n : ~(h[p] < h[k])}
  <2>1. ASSUME Bad # {} PROVE FALSE
    <3>1. PICK k \in Bad : \A m \in Bad : k <= m
      <4>1. Bad \subseteq Nat  BY <1>1
      <4> HIDE DEF Bad
      <4> QED  BY <2>1, <4>1, LeastNat
    <3>2. k \in 2 .. n /\ k \in 1 .. n /\ k - 1 \in 1 .. n /\ k \in Nat /\ ~(k <= k - 1)  BY <1>1
    <3>3. h[k - 1] < h[k] /\ h[k] \in Nat /\ h[k - 1] \in Nat /\ h[p] \in Nat
      BY <1>1, <1>2, <3>2
    <3>4. ~(h[p] < h[k])  OBVIOUS
    <3>5. k - 1 # p  BY <3>3, <3>4
    <3>6. k - 1 \in p + 1 .. n  BY <1>1, <3>2, <3>5
    <3>7. h[p] < h[k - 1]  BY <3>1, <3>2, <3>6
    <3> QED  BY <3>3, <3>4, <3>7
  <2>2. q \in p + 1 .. n  BY <1>1, <1>3
  <2> QED  BY <2>1, <2>2
<1>4. ASSUME NEW p \in 1 .. n, NEW q \in 1 .. n, h[p] < h[q] PROVE p < q
  <2>1. h[p] \in Nat /\ h[q] \in Nat  BY <1>1
  <2>2. p # q  BY <1>4, <2>1
  <2>3. ~(q < p)  BY <1>3, <1>4, <2>1
  <2> QED  BY <1>1, <2>2, <2>3
<1> QED  BY <1>1, <1>3, <1>4 DEF n

(***************************************************************************)
(* The window.                                                             *)
(***************************************************************************)

VerdictTypeOK ==
  /\ arms \in Seq(ArmsOfSlice) /\ Len(arms) <= Contenders + 1
  /\ failed \subseteq Tasks

\* The crown is placed once, over every arm, and nothing it was read from changes after.
PlacedOnce == placed # NOBODY => Len(arms) = Contenders + 1 /\ placed = Adjudicated

VerdictInv == VerdictTypeOK /\ PlacedOnce

\* An arm that may run is one of the slice.
LEMMA ArmsAreOfSlice == Arms \subseteq ArmsOfSlice
<1> SUFFICES ASSUME NEW arm \in Arms PROVE arm \in ArmsOfSlice
  OBVIOUS
<1>0. PICK n \in 0 .. Len(Slice), a \in Answers, tail \in {Starved, Clocked} :
        arm = [t \in Tasks |-> IF t <= n THEN Answered(a[t]) ELSE tail]
  BY DEF Arms
<1>1. ASSUME NEW t \in Tasks PROVE a[t] \in Nat
  <2>1. a[t] \in Graded[t] /\ Graded[t] \subseteq Nat
    BY SliceAssumption DEF Answers, Tasks
  <2> QED  BY <2>1
<1>2. \A t \in Tasks : Answered(a[t]) \in Rows  BY <1>1 DEF Answered, Rows
<1>3. tail \in Rows  BY DEF Starved, Clocked, Rows
<1> QED  BY <1>0, <1>2, <1>3 DEF ArmsOfSlice

\* The adjudication is over what is there.
LEMMA VerdictInductive == VerdictInv /\ [VerdictNext]_verdictVars => VerdictInv'
<1> SUFFICES ASSUME VerdictInv, [VerdictNext]_verdictVars PROVE VerdictInv'
  OBVIOUS
<1>1. /\ arms \in Seq(ArmsOfSlice) /\ Len(arms) \in Nat /\ Len(arms) <= Contenders + 1
      /\ failed \subseteq Tasks /\ Contenders \in Nat
  BY SliceAssumption DEF VerdictInv, VerdictTypeOK
<1>2. ASSUME NEW arm \in Arms, RunArm(arm) PROVE VerdictInv'
  <2>1. /\ arms' \in Seq(ArmsOfSlice) /\ Len(arms') = Len(arms) + 1
        /\ placed' = placed /\ failed' = failed /\ Len(arms) <= Contenders
    BY <1>1, <1>2, ArmsAreOfSlice DEF RunArm
  <2>2. placed = NOBODY  BY <1>1, <2>1 DEF VerdictInv, PlacedOnce
  <2> QED  BY <1>1, <2>1, <2>2 DEF VerdictInv, VerdictTypeOK, PlacedOnce
<1>3. ASSUME NEW t \in Tasks, GraderDies(t) PROVE VerdictInv'
  BY <1>1, <1>3 DEF GraderDies, VerdictInv, VerdictTypeOK, PlacedOnce
<1>4. ASSUME Adjudicate \/ UNCHANGED verdictVars PROVE VerdictInv'
  <2>1. arms' = arms /\ failed' = failed  BY <1>4 DEF Adjudicate, verdictVars
  <2>2. Adjudicated' = Adjudicated
    BY <2>1 DEF Adjudicated, Duel, ArmOf, Succession, Reigning
  <2>3. placed' # NOBODY => Len(arms) = Contenders + 1 /\ placed' = Adjudicated
    BY <1>4 DEF Adjudicate, verdictVars, VerdictInv, PlacedOnce
  <2> QED  BY <1>1, <2>1, <2>2, <2>3 DEF VerdictInv, VerdictTypeOK, PlacedOnce
<1> QED  BY <1>2, <1>3, <1>4 DEF VerdictNext

\* The arms and the adjudication are always as they should be.
THEOREM VerdictInvariant == VerdictSpec => []VerdictInv
<1>1. VerdictInit => VerdictInv
  BY SliceAssumption DEF VerdictInit, VerdictInv, VerdictTypeOK, PlacedOnce
<1> QED  BY <1>1, VerdictInductive, PTL DEF VerdictSpec

\* Those who may be crowned.
Winners == {c \in 1 .. Contenders : Duel(King, c) = "wins" /\ Eligible(ArmOf(c))}

\* A judged window's holders are the succession of its winners.
LEMMA JudgedHolders ==
  ASSUME VerdictInv, Adjudged
  PROVE  /\ HoldersOK(placed.holders, Contenders, Winners)
         /\ Contenders \in Nat
         /\ \A i \in 0 .. Contenders : ArmOf(i) \in ArmsOfSlice /\ ArmOf(i) \in Range(arms)
<1>1. placed = Adjudicated /\ placed.how = "judged" /\ Len(arms) = Contenders + 1
  BY DEF VerdictInv, PlacedOnce, Adjudged
<1> DEFINE duels == [c \in 1 .. Contenders |-> Duel(King, c)]
           winners == {c \in 1 .. Contenders : duels[c] = "wins" /\ Eligible(ArmOf(c))}
<1>2. winners = Winners  BY DEF Winners
<1>3. placed.holders = Succession(winners)
  <2> HIDE DEF winners
  <2>1. \/ Adjudicated = [how |-> "deferred", holders |-> <<King>>]
        \/ Adjudicated = [how |-> "raised", holders |-> <<King>>]
        \/ Adjudicated = [how |-> "judged", holders |-> Succession(winners)]
    BY DEF Adjudicated, winners
  <2> QED  BY <1>1, <2>1
<1>4. Winners \subseteq 1 .. Contenders  BY DEF Winners
<1>5. Contenders \in Nat  BY SliceAssumption
<1>6. ASSUME NEW i \in 0 .. Contenders PROVE ArmOf(i) \in ArmsOfSlice /\ ArmOf(i) \in Range(arms)
  <2>1. arms \in Seq(ArmsOfSlice) /\ i + 1 \in 1 .. Len(arms)
    BY <1>1, <1>5 DEF VerdictInv, VerdictTypeOK
  <2> QED  BY <2>1 DEF ArmOf, Range
<1> QED  BY <1>2, <1>3, <1>4, <1>5, <1>6, SuccessionOK

\* One handover: a holder beat the one before it, the king included.
LEMMA Handover ==
  ASSUME VerdictInv, Adjudged, NEW k \in 2 .. Len(placed.holders)
  PROVE  LET h == placed.holders
         IN  /\ h[k - 1] \in 0 .. Contenders /\ h[k] \in 1 .. Contenders
             /\ Duel(h[k - 1], h[k]) = "wins"
<1> DEFINE h == placed.holders
<1>1. HoldersOK(h, Contenders, Winners) /\ Contenders \in Nat  BY JudgedHolders
<1>2. \A m \in 2 .. Len(h) : h[m] \in 1 .. Contenders /\ Duel(King, h[m]) = "wins"
  BY <1>1 DEF HoldersOK, Winners
<1>3. Len(h) \in Nat  BY <1>1 DEF HoldersOK
<1>4. CASE k = 2
  BY <1>1, <1>2, <1>4 DEF HoldersOK, King
<1>5. CASE k # 2
  <2>1. k \in 3 .. Len(h) /\ k - 1 \in 2 .. Len(h)  BY <1>3, <1>5
  <2> QED  BY <1>1, <1>2, <2>1 DEF HoldersOK
<1> QED  BY <1>4, <1>5

\* Where the clock cut no arm, every handover raises the worth of the crowned arm by the margin.
LEMMA WorthClimbs ==
  ASSUME VerdictInv, Adjudged, \A arm \in Range(arms) : Late(arm) = {},
         NEW p \in 1 .. Len(placed.holders), NEW q \in p .. Len(placed.holders)
  PROVE  LET h == placed.holders
             kept == Tasks \ failed
         IN  /\ Worth(ArmOf(h[p]), kept) \in Int /\ Worth(ArmOf(h[q]), kept) \in Int
             /\ Step(kept) \in Nat /\ (p # q => Step(kept) # 0)
             /\ Worth(ArmOf(h[q]), kept) >= Worth(ArmOf(h[p]), kept) + (q - p) * Step(kept)
<1> DEFINE h == placed.holders
           kept == Tasks \ failed
           w(k) == Worth(ArmOf(h[k]), kept)
           s == Step(kept)
<1>1. /\ HoldersOK(h, Contenders, Winners) /\ Contenders \in Nat
      /\ \A i \in 0 .. Contenders : ArmOf(i) \in ArmsOfSlice /\ Late(ArmOf(i)) = {}
  BY JudgedHolders
<1>2. Len(h) \in Nat  BY <1>1 DEF HoldersOK
<1>3. \A k \in 1 .. Len(h) : h[k] \in 0 .. Contenders
  <2>1. h[1] = 0  BY <1>1 DEF HoldersOK, King
  <2>2. \A k \in 2 .. Len(h) : h[k] \in 1 .. Contenders  BY Handover
  <2> QED  BY <1>1, <1>2, <2>1, <2>2
<1>4. kept \in SUBSET Tasks  OBVIOUS
<1>5. ASSUME NEW k \in 1 .. Len(h) PROVE w(k) \in Int
  <2>1. ArmOf(h[k]) \in ArmsOfSlice  BY <1>1, <1>3
  <2> QED  BY <1>4, <2>1, DeltaOfWorths
<1>6. s \in Nat
  <2>1. Cardinality(Benchmarks(kept)) \in Nat  BY <1>4, SliceIsFinite
  <2> QED  BY <2>1 DEF Step, Eps, Scale
<1>7. ASSUME NEW k \in 2 .. Len(h) PROVE w(k) >= w(k - 1) + s /\ s # 0
  <2>1. Duel(h[k - 1], h[k]) = "wins"  BY Handover
  <2>2. h[k - 1] \in 0 .. Contenders /\ h[k] \in 0 .. Contenders
    <3>1. k - 1 \in 1 .. Len(h) /\ k \in 1 .. Len(h)  BY <1>2
    <3> QED  BY <1>3, <3>1
  <2> DEFINE a == ArmOf(h[k - 1])
             c == ArmOf(h[k])
  <2>3. /\ a \in ArmsOfSlice /\ c \in ArmsOfSlice /\ Late(a) = {} /\ Late(c) = {}
    BY <1>1, <2>2
  <2>4. Kept(a, c, failed) = kept  BY <2>3 DEF Kept
  <2>5. VerdictOf(a, c, failed) = "wins"  BY <2>1 DEF Duel
  <2> HIDE DEF a, c, kept
  <2>6. Worth(c, kept) >= Worth(a, kept) + Step(kept) /\ Step(kept) # 0
    BY <2>3, <2>4, <2>5, WinnerIsWorthMore
  <2> QED  BY <2>6 DEF a, c
<1> HIDE DEF w, s
<1> DEFINE Bad == {k \in p .. Len(h) : ~(w(k) >= w(p) + (k - p) * s)}
<1>8. ASSUME Bad # {} PROVE FALSE
  <2>1. PICK k \in Bad : \A m \in Bad : k <= m
    <3>1. Bad \subseteq Nat  BY <1>2
    <3> HIDE DEF Bad
    <3> QED  BY <1>8, <3>1, LeastNat
  <2>2. k \in p .. Len(h) /\ k \in 1 .. Len(h) /\ p \in 1 .. Len(h) /\ k \in Int /\ p \in Int
    BY <1>2
  <2>3. w(k) \in Int /\ w(p) \in Int  BY <1>5, <2>2
  <2>4. k # p  BY <1>6, <2>3
  <2>5. k - 1 \in p .. Len(h) /\ k - 1 \in 1 .. Len(h) /\ k \in 2 .. Len(h) /\ ~(k <= k - 1)
    BY <1>2, <2>2, <2>4
  <2>6. k - 1 \notin Bad
    <3> HIDE DEF Bad
    <3> QED  BY <2>1, <2>5
  <2>7. w(k - 1) >= w(p) + ((k - 1) - p) * s  BY <2>5, <2>6
  <2>8. w(k) >= w(k - 1) + s /\ w(k - 1) \in Int  BY <1>5, <1>7, <2>5
  <2>9. ((k - 1) - p) * s + s = (k - p) * s  BY <1>6, <2>2
  <2>10. ((k - 1) - p) * s \in Int /\ (k - p) * s \in Int  BY <1>6, <2>2
  <2>11. ~(w(k) >= w(p) + (k - p) * s)  OBVIOUS
  <2> HIDE DEF Bad
  <2> QED  BY <1>6, <2>3, <2>7, <2>8, <2>9, <2>10, <2>11
<1>9. w(q) >= w(p) + (q - p) * s  BY <1>8
<1>10. p # q => s # 0
  <2> SUFFICES ASSUME p # q PROVE s # 0
    OBVIOUS
  <2>1. q \in 2 .. Len(h)  BY <1>2
  <2> QED  BY <1>7, <2>1
<1>11. p \in 1 .. Len(h) /\ q \in 1 .. Len(h)  BY <1>2
<1> QED  BY <1>5, <1>6, <1>9, <1>10, <1>11 DEF w, s

\* "A later submission has to add real points over what came before it" (duel.py succession): where
\* the clock cut no arm, the margin is cleared again by every hand the crown goes through.
THEOREM EveryHandoverAddsUp == VerdictSpec => []HandoversAddUp
<1>1. VerdictInv => HandoversAddUp
  <2> SUFFICES ASSUME VerdictInv, Adjudged, \A arm \in Range(arms) : Late(arm) = {}
               PROVE  LET kept == Tasks \ failed
                      IN  Worth(ArmOf(Crown), kept) >=
                            Worth(ArmOf(King), kept) + (Len(placed.holders) - 1) * Step(kept)
    BY DEF HandoversAddUp, Step
  <2> DEFINE h == placed.holders
  <2>1. HoldersOK(h, Contenders, Winners)  BY JudgedHolders
  <2>2. h \in Seq(Nat) /\ Len(h) \in Nat /\ Len(h) >= 1 /\ h[1] = King
    BY <2>1 DEF HoldersOK
  <2>3. Crown = h[Len(h)]  BY DEF Crown, Last
  <2>4. 1 \in 1 .. Len(h) /\ Len(h) \in 1 .. Len(h)  BY <2>2
  <2> QED  BY <2>2, <2>3, <2>4, WorthClimbs
<1> QED  BY <1>1, VerdictInvariant, PTL

\* "A near-copy of the KING never wins" (duel.py succession): an arm that repeats the king's is never
\* crowned, and one that repeats an earlier contender's takes the crown only from somebody who took
\* it in between, and where the clock cut no arm only if the earlier one never held it.
THEOREM NoCopyTakesTheCrown == VerdictSpec => []CopyTakesNothing
<1>1. VerdictInv => CopyTakesNothing
  <2> SUFFICES ASSUME VerdictInv, Adjudged, NEW j \in Range(placed.holders) \ {King},
                      NEW i \in 0 .. Contenders, i < j, ArmOf(i) = ArmOf(j)
               PROVE  /\ i # King
                      /\ \E k \in Range(placed.holders) : i < k /\ k < j
                      /\ i \in Range(placed.holders) => \E arm \in Range(arms) : Late(arm) # {}
    BY DEF CopyTakesNothing
  <2> DEFINE h == placed.holders
             n == Len(h)
  <2>1. /\ HoldersOK(h, Contenders, Winners) /\ Contenders \in Nat
        /\ \A c \in 0 .. Contenders : ArmOf(c) \in ArmsOfSlice
    BY JudgedHolders
  <2>2. h \in Seq(Nat) /\ n \in Nat /\ h[1] = King /\ DOMAIN h = 1 .. n
    BY <2>1 DEF HoldersOK
  <2>3. \A p \in 1 .. n, r \in 1 .. n :
          /\ h[p] \in Nat /\ (p < r => h[p] < h[r]) /\ (h[p] < h[r] => p < r)
    BY <2>1, HoldersClimb
  <2>4. PICK q \in 1 .. n : h[q] = j  BY <2>2 DEF Range
  <2>5. q \in 2 .. n  BY <2>2, <2>4
  <2>6. j \in Winners  BY <2>1, <2>4, <2>5 DEF HoldersOK
  <2>7. \A c \in 0 .. Contenders : VerdictOf(ArmOf(c), ArmOf(c), failed) # "wins"
    BY <2>1, CopyTies
  <2>8. i # King
    <3>1. Duel(King, j) = "wins"  BY <2>6 DEF Winners
    <3> QED  BY <2>7, <3>1 DEF Duel
  <2>9. i \in Winners
    <3>1. i \in 1 .. Contenders  BY <2>1, <2>8 DEF King
    <3>2. Duel(King, i) = "wins" /\ Eligible(ArmOf(i))  BY <2>6 DEF Winners, Duel
    <3> QED  BY <3>1, <3>2 DEF Winners
  <2>10. Duel(i, j) # "wins"  BY <2>7 DEF Duel
  <2>11. \A k \in 3 .. n : Duel(h[k - 1], h[k]) = "wins"  BY <2>1 DEF HoldersOK
  <2>12. ASSUME NEW p \in 2 .. n, p < q, p + 1 # q, i < h[p + 1]
         PROVE  \E k \in Range(h) : i < k /\ k < j
    <3>1. p + 1 \in 1 .. n /\ p + 1 < q  BY <2>2, <2>12
    <3>2. h[p + 1] < j /\ h[p + 1] \in Range(h)  BY <2>2, <2>3, <2>4, <3>1 DEF Range
    <3> QED  BY <2>12, <3>2
  <2>13. CASE \E p \in 2 .. n : h[p] = i
    <3>1. PICK p \in 2 .. n : h[p] = i  BY <2>13
    <3>2. p \in 1 .. n /\ p < q  BY <2>2, <2>3, <2>4, <3>1
    <3>3. p + 1 # q
      <4>1. ASSUME p + 1 = q PROVE FALSE
        <5>1. q \in 3 .. n /\ q - 1 = p  BY <2>2, <4>1
        <5> QED  BY <2>4, <2>10, <2>11, <3>1, <5>1
      <4> QED  BY <4>1
    <3>4. i < h[p + 1]
      <4>1. p + 1 \in 1 .. n /\ p < p + 1  BY <2>2, <3>2
      <4> QED  BY <2>3, <3>1, <3>2, <4>1
    <3>5. \E k \in Range(h) : i < k /\ k < j  BY <2>12, <3>2, <3>3, <3>4
    <3>6. \E arm \in Range(arms) : Late(arm) # {}
      <4> SUFFICES ASSUME \A arm \in Range(arms) : Late(arm) = {} PROVE FALSE
        OBVIOUS
      <4> DEFINE kept == Tasks \ failed
                 a == ArmOf(j)
      <4>1. q \in p .. n /\ p # q  BY <2>2, <3>2
      <4>2. /\ Worth(a, kept) \in Int /\ Step(kept) \in Nat /\ Step(kept) # 0
            /\ Worth(a, kept) >= Worth(a, kept) + (q - p) * Step(kept)
        BY <2>4, <3>1, <3>2, <4>1, WorthClimbs
      <4>3. q - p \in Nat \ {0}  BY <2>2, <3>2
      <4> DEFINE d == q - p
                 s == Step(kept)
      <4>4. d * s > 0
        <5> HIDE DEF d, s
        <5>1. d \in Nat \ {0} /\ s \in Nat \ {0}  BY <4>2, <4>3 DEF d, s
        <5> QED  BY <5>1
      <4>5. d * s \in Int  BY <4>2, <4>3
      <4> QED  BY <4>2, <4>4, <4>5
    <3> QED  BY <2>8, <3>5, <3>6
  <2>14. CASE /\ ~\E p \in 2 .. n : h[p] = i
              /\ \E p \in 2 .. n : /\ h[p] < i /\ (p < n => i < h[p + 1])
                                   /\ Duel(h[p], i) # "wins"
    <3>1. PICK p \in 2 .. n : h[p] < i /\ (p < n => i < h[p + 1]) /\ Duel(h[p], i) # "wins"
      BY <2>14
    <3>2. p \in 1 .. n /\ p < q
      <4>1. p \in 1 .. n /\ h[p] \in Nat  BY <2>2, <2>3
      <4>2. h[p] < h[q]  BY <2>1, <2>3, <2>4, <3>1, <4>1
      <4> QED  BY <2>3, <4>1, <4>2
    <3>3. i < h[p + 1]  BY <2>2, <3>1, <3>2
    <3>4. p + 1 # q
      <4>1. ASSUME p + 1 = q PROVE FALSE
        <5>1. q \in 3 .. n /\ q - 1 = p  BY <2>2, <4>1
        <5>2. Duel(h[p], j) = "wins"  BY <2>4, <2>11, <5>1
        <5> QED  BY <3>1, <5>2 DEF Duel
      <4> QED  BY <4>1
    <3>5. \E k \in Range(h) : i < k /\ k < j  BY <2>12, <3>2, <3>3, <3>4
    <3>6. i \notin Range(h)
      <4>1. ASSUME NEW p2 \in 1 .. n, h[p2] = i PROVE FALSE
        <5>1. p2 # 1  BY <2>2, <2>8, <4>1
        <5>2. p2 \in 2 .. n  BY <2>2, <5>1
        <5> QED  BY <2>14, <4>1, <5>2
      <4> QED  BY <2>2, <4>1 DEF Range
    <3> QED  BY <2>8, <3>5, <3>6
  <2> QED  BY <2>1, <2>9, <2>13, <2>14 DEF HoldersOK
<1> QED  BY <1>1, VerdictInvariant, PTL

\* A task one arm of a pair never reached before its clock, or whose grader died under any arm of the
\* window, decides no duel (window.exclude): whatever the other arm did there, the verdict is the same.
THEOREM TheUnansweredDecidesNothing == VerdictSpec => []UnansweredDecidesNothing
<1>1. VerdictInv => UnansweredDecidesNothing
  <2> SUFFICES ASSUME VerdictInv, Adjudged, NEW i \in 0 .. Contenders, NEW j \in 1 .. Contenders,
                      NEW t \in Tasks, NEW row \in {Answered(0), Answered(20)}
               PROVE  LET same == VerdictOf(ArmOf(i), ArmOf(j), failed)
                          incumbent == [ArmOf(i) EXCEPT ![t] = row]
                          challenger == [ArmOf(j) EXCEPT ![t] = row]
                      IN  /\ t \in failed \union Late(ArmOf(j))
                               => VerdictOf(incumbent, ArmOf(j), failed) = same
                          /\ t \in failed \union Late(ArmOf(i))
                               => VerdictOf(ArmOf(i), challenger, failed) = same
    BY DEF UnansweredDecidesNothing
  <2>1. row.why = "run"  BY DEF Answered
  <2>2. j \in 0 .. Contenders  BY SliceAssumption
  <2>3. ArmOf(i) \in ArmsOfSlice /\ ArmOf(j) \in ArmsOfSlice  BY <2>2, JudgedHolders
  <2> QED  BY <2>1, <2>3, IncumbentUnanswered, ChallengerUnanswered
<1> QED  BY <1>1, VerdictInvariant, PTL

(***************************************************************************)
(* The power gate.                                                         *)
(***************************************************************************)

\* The gate's answer is a function of the rows kept.
LEMMA AlikeGates ==
  ASSUME NEW a, NEW c, NEW a2, NEW c2, NEW dead,
         Alike(QualityOnly(a), QualityOnly(c), QualityOnly(a2), QualityOnly(c2), Tasks \ dead)
  PROVE  Separates(a, c, dead) = Separates(a2, c2, dead)
<1> DEFINE kept == Tasks \ dead
<1>1. Alike(QualityOnly(c), QualityOnly(a), QualityOnly(c2), QualityOnly(a2), kept)  BY DEF Alike
<1>2. /\ Delta(QualityOnly(a), QualityOnly(c), AllRows(kept))
           = Delta(QualityOnly(a2), QualityOnly(c2), AllRows(kept))
      /\ Separable(QualityOnly(a), QualityOnly(c), kept)
           = Separable(QualityOnly(a2), QualityOnly(c2), kept)
  BY AlikeSeparable
<1>3. /\ Delta(QualityOnly(c), QualityOnly(a), AllRows(kept))
           = Delta(QualityOnly(c2), QualityOnly(a2), AllRows(kept))
      /\ Separable(QualityOnly(c), QualityOnly(a), kept)
           = Separable(QualityOnly(c2), QualityOnly(a2), kept)
  BY <1>1, AlikeSeparable
<1> QED  BY <1>2, <1>3 DEF Separates

\* The placeholder of a dead grader moves no window, and no window is refused in which one reference
\* policy would take the other's crown at equal prices (reference.power_gate), for any slice and any
\* grades.
THEOREM TheGateIsFair == GateIsFair
<1> SUFFICES ASSUME NEW a \in {[t \in Tasks |-> Answered(g[t])] : g \in Answers},
                    NEW b \in {[t \in Tasks |-> Answered(g[t])] : g \in Answers},
                    NEW dead \in SUBSET Tasks
             PROVE  /\ \A t \in dead : Separates([a EXCEPT ![t] = Answered(0)], b, dead)
                                         = Separates(a, b, dead)
                    /\ VerdictOf(QualityOnly(a), QualityOnly(b), dead) = "wins"
                         => Separates(a, b, dead) = "opens"
  BY DEF GateIsFair
<1>1. PICK f \in Answers : a = [t \in Tasks |-> Answered(f[t])]  OBVIOUS
<1>2. PICK g \in Answers : b = [t \in Tasks |-> Answered(g[t])]  OBVIOUS
<1>3. ASSUME NEW t \in dead
      PROVE  Separates([a EXCEPT ![t] = Answered(0)], b, dead) = Separates(a, b, dead)
  <2> DEFINE a2 == [a EXCEPT ![t] = Answered(0)]
  <2>1. \A u \in Tasks \ dead : a2[u] = a[u]  BY <1>1
  <2> HIDE DEF a2
  <2>2. \A u \in Tasks \ dead : QualityOnly(a2)[u] = QualityOnly(a)[u]
    BY <2>1 DEF QualityOnly
  <2>3. Separates(a2, b, dead) = Separates(a, b, dead)
    BY <2>2, AlikeGates DEF Alike
  <2> QED  BY <2>3 DEF a2
<1>4. ASSUME VerdictOf(QualityOnly(a), QualityOnly(b), dead) = "wins"
      PROVE  Separates(a, b, dead) = "opens"
  <2>1. \A t \in Tasks : a[t].why = "run" /\ b[t].why = "run"  BY <1>1, <1>2 DEF Answered
  <2>2. \A t \in Tasks : QualityOnly(a)[t].why = "run" /\ QualityOnly(b)[t].why = "run"
    <3>1. \A t \in Tasks : a[t] = [score |-> f[t], spend |-> 1, why |-> "run"]
      BY <1>1 DEF Answered
    <3>2. \A t \in Tasks : b[t] = [score |-> g[t], spend |-> 1, why |-> "run"]
      BY <1>2 DEF Answered
    <3>3. \A x : [[score |-> x, spend |-> 1, why |-> "run"] EXCEPT !.spend = 0].why = "run"
      OBVIOUS
    <3>4. \A t \in Tasks : /\ QualityOnly(a)[t] = [a[t] EXCEPT !.spend = 0]
                           /\ QualityOnly(b)[t] = [b[t] EXCEPT !.spend = 0]
      BY DEF QualityOnly
    <3>5. ASSUME NEW t \in Tasks
          PROVE  QualityOnly(a)[t].why = "run" /\ QualityOnly(b)[t].why = "run"
      <4>1. QualityOnly(a)[t] = [[score |-> f[t], spend |-> 1, why |-> "run"] EXCEPT !.spend = 0]
        BY <3>1, <3>4
      <4>2. QualityOnly(b)[t] = [[score |-> g[t], spend |-> 1, why |-> "run"] EXCEPT !.spend = 0]
        BY <3>2, <3>4
      <4> QED  BY <3>3, <4>1, <4>2
    <3> QED  BY <3>5
  <2>3. Late(QualityOnly(a)) = {} /\ Late(QualityOnly(b)) = {}  BY <2>2 DEF Late, How
  <2>4. Kept(QualityOnly(a), QualityOnly(b), dead) = Tasks \ dead  BY <2>3 DEF Kept
  <2>5. /\ Cardinality(Benchmarks(Tasks \ dead)) >= 2
        /\ ChallengerWins(QualityOnly(a), QualityOnly(b), Tasks \ dead)
    BY <1>4, <2>4 DEF VerdictOf
  <2>6. Cardinality(Benchmarks(Tasks \ dead)) \in Nat  BY SliceIsFinite
  <2>7. ~(Cardinality(Benchmarks(Tasks \ dead)) < 2)  BY <2>5, <2>6
  <2> QED  BY <2>5, <2>7 DEF ChallengerWins, Separates
<1> QED  BY <1>3, <1>4

=============================================================================
