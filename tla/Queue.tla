-------------------------------- MODULE Queue --------------------------------
(***************************************************************************)
(* The challenger queue and its admission: Validator._queue and phases 1   *)
(* to 3 of run_window, over windows that may be void, crash and be run     *)
(* again.  Who is judged, who rolls over with the shot intact, and whom an *)
(* owner-side failure is counted against.                                  *)
(*                                                                         *)
(* Admission goes through Stages in order; a stage's resource (the bucket  *)
(* and the trees disk, the serving host) may be down for one run of a      *)
(* window.  A tree has a fate: it is good; broken (an artifact failure);   *)
(* it reproduces an owner-side failure at one stage; or it is mute (it     *)
(* loads, and its arm reaches no worker).  The duel itself is a choice:    *)
(* ValidatorLoop and DuelArm model it.                                     *)
(***************************************************************************)
EXTENDS Admission

CONSTANTS
  Count,           \* bound: hotkeys; they are the numbers in the order of their commits
  Stages,          \* the admission stages, a sequence
  Probed,          \* the stages that can be probed
  Fates,           \* the fates a tree may have
  MaxQueueDepth, MaxDuels, MaxDeferrals,
  MaxMute,         \* bound: mute trees
  MaxUpsets        \* bound: outages, void windows, crashes, chain reads that miss a slot,
                   \* deregistrations and emptied accounts, together

StageSet == ToSet(Stages)

ASSUME QueueAssumption ==
  /\ Count \in Nat /\ MaxDeferrals \in Nat
  /\ Stages \in Seq(StageSet) /\ IsInjective(Stages) 
  /\ NONE \notin StageSet \cup {"artifact", "cap"} /\ NONE \notin Fates
  /\ \A f \in Fates : f.stage \in StageSet \cup {NONE}

VARIABLES
  fate,        \* hotkey -> the fate of its tree, or NONE before the commit
  live,        \* the hotkeys that hold a uid
  funded,      \* the hotkeys whose key or credit has something to spend
  verdict,     \* History.judged, with the reason: hotkey -> NONE, "artifact", "cap" or "duel"
  counted,     \* History.infra_deferrals: hotkey -> how many earlier windows count against it
  counting,    \* ... and the hotkeys this window counts against
  window,      \* the run of the current window, or NONE between two runs
  glitched,    \* the sound trees that have met a failure that passed (one each)
  upsets

budget == <<glitched, upsets>>
vars == <<fate, live, funded, verdict, counted, counting, window, budget>>

Hotkeys == 1..Count
Good == [kind |-> "good", stage |-> NONE]
Committed == {h \in Hotkeys : fate[h] # NONE}
Judged(h) == verdict[h] # NONE

Init ==
  /\ fate = [h \in Hotkeys |-> NONE]
  /\ live = Hotkeys /\ funded = {}
  /\ verdict = [h \in Hotkeys |-> NONE]
  /\ counted = [h \in Hotkeys |-> 0] /\ counting = {}
  /\ window = NONE /\ glitched = {} /\ upsets = 0

Upset == upsets < MaxUpsets /\ upsets' = upsets + 1 /\ UNCHANGED glitched
UpsetIf(condition) == IF condition THEN Upset ELSE UNCHANGED budget

-----------------------------------------------------------------------------
(* The miners.  A window reads all of this when it opens, so it changes between windows here. *)

MuteTrees == {h \in Hotkeys : fate[h] # NONE /\ fate[h].kind = "mute"}

Commit(h, f) ==
  /\ window = NONE /\ h \in live /\ fate[h] = NONE
  /\ \A k \in 1..(h - 1) : fate[k] # NONE
  /\ f.kind = "mute" => Cardinality(MuteTrees) < MaxMute
  /\ fate' = [fate EXCEPT ![h] = f]
  /\ UNCHANGED <<live, funded, verdict, counted, counting, window, budget>>

Fund(h) ==
  /\ window = NONE /\ fate[h] # NONE /\ h \notin funded
  /\ funded' = funded \cup {h}
  /\ UNCHANGED <<fate, live, verdict, counted, counting, window, budget>>

RunDry(h) ==
  /\ window = NONE /\ h \in funded /\ Upset
  /\ funded' = funded \ {h}
  /\ UNCHANGED <<fate, live, verdict, counted, counting, window>>

Deregister(h) ==
  /\ window = NONE /\ fate[h] # NONE /\ h \in live /\ Upset
  /\ live' = live \ {h}
  /\ UNCHANGED <<fate, funded, verdict, counted, counting, window>>

-----------------------------------------------------------------------------
(***************************************************************************)
(* _queue: judged hotkeys leave first; the depth cap counts the funded     *)
(* only (what is left spends its shot in the mailbox: Submissions).  A     *)
(* slot the chain read missed is not in the queue; a hotkey without a      *)
(* registration block holds its place and is not queued either.            *)
(***************************************************************************)
Foremost(S, n) == {h \in S : Cardinality({k \in S : k < h}) < n}

\* Mutant: the depth cap counts everybody.
QueueAllCounted(pending) == Foremost(pending, MaxQueueDepth)

QueueOf(pending) == Foremost(pending \cap funded, MaxQueueDepth) \cup (pending \ funded)

\* The window opens: its file, the power gate and the queue.  It is void if the gate does not
\* separate the two reference policies.
Open ==
  /\ window = NONE
  /\ \E missed, blockless \in SUBSET (Committed \cap live), down \in SUBSET StageSet,
        void \in BOOLEAN :
       /\ Cardinality(missed) + Cardinality(blockless) + Cardinality(down)
            + (IF void THEN 1 ELSE 0) <= 1
       /\ UpsetIf(missed \cup blockless \cup down # {} \/ void)
       /\ LET pending == {h \in (Committed \cap live) \ missed : ~Judged(h)}
              queue == QueueOf(pending) \ blockless
          IN /\ queue # {}
             /\ window' = [todo |-> IF void THEN {} ELSE queue, paid |-> funded,
                           admitted |-> {}, refused |-> {}, failed |-> {}, over |-> {}, worked |-> {},
                           down |-> down, closing |-> void]
  /\ UNCHANGED <<fate, live, funded, verdict, counted, counting>>

-----------------------------------------------------------------------------
(***************************************************************************)
(* Phase 3, one entry: deferred behind the duel cap, deferred unfunded, or *)
(* admitted stage by stage.  An owner-side failure is probed at once and   *)
(* decided after the loop.                                                 *)
(***************************************************************************)
Before(s) == {Stages[i] : i \in {j \in DOMAIN Stages : \E k \in DOMAIN Stages :
                                   Stages[k] = s /\ j < k}}

\* The first stage that fails this entry, or NONE.
Fails(h, s) == s \in window.down \/ fate[h].stage = s
FailedStage(h) ==
  IF \E s \in StageSet : Fails(h, s)
  THEN CHOOSE s \in StageSet : Fails(h, s) /\ \A t \in Before(s) : ~Fails(h, t)
  ELSE NONE

IsArtifact(h, s) == s \notin window.down /\ fate[h].kind = "broken"
Works(s) == s \notin window.down

Failure(h, s, outage) == [hotkey |-> h, stage |-> s, outage |-> outage, works |-> Works(s)]
Pass(h) == window' = [window EXCEPT !.todo = @ \ {h}]

Forget(h) == counting' = counting \ {h}

\* Deferred behind the duel cap, or without an allowance.
Defer(h) ==
  /\ Cardinality(window.admitted) = MaxDuels \/ h \notin window.paid
  /\ Pass(h)
  /\ UNCHANGED <<fate, live, funded, verdict, counted, counting, budget>>

Admit(h) ==
  LET s == FailedStage(h)
      reached == IF s = NONE THEN StageSet ELSE Before(s)
      tried == [window EXCEPT !.todo = @ \ {h}, !.worked = @ \cup reached]
  IN /\ Cardinality(window.admitted) < MaxDuels /\ h \in window.paid
     /\ \/ /\ s = NONE
           /\ window' = [tried EXCEPT !.admitted = @ \cup {h}]
           /\ Forget(h)
           /\ UNCHANGED budget
        \/ /\ s # NONE /\ IsArtifact(h, s)
           /\ window' = [tried EXCEPT !.refused = @ \cup {h}]
           /\ UNCHANGED <<counting, budget>>
        \/ /\ s # NONE /\ ~IsArtifact(h, s)
           /\ \E outage \in {FALSE, ~Works(s)} :      \* its type may say so; a tree's never does
                window' = [tried EXCEPT !.failed = @ \cup {Failure(h, s, outage)}]
           /\ UNCHANGED <<counting, budget>>
     /\ UNCHANGED <<fate, live, funded, verdict, counted>>

\* A failure that passes: the stage works again when it is probed, and for everybody else.
Glitch(h) ==
  /\ Cardinality(window.admitted) < MaxDuels /\ h \in window.paid
  /\ FailedStage(h) = NONE /\ h \notin glitched /\ MaxDeferrals > 0
  /\ upsets < MaxUpsets /\ upsets' = upsets + 1
  /\ glitched' = glitched \cup {h}
  /\ \E s \in StageSet :
       window' = [window EXCEPT !.todo = @ \ {h}, !.worked = @ \cup Before(s),
                                !.failed = @ \cup {Failure(h, s, FALSE)}]
  /\ UNCHANGED <<fate, live, funded, verdict, counted, counting>>

\* The queue in its order: the funded in the order of their commits, then the others.
Ahead(k, h) == IF h \in window.paid THEN k \in window.paid /\ k < h ELSE k \in window.paid \/ k < h

AdmitNext ==
  /\ window # NONE /\ ~window.closing /\ window.todo # {}
  /\ \E h \in window.todo :
       /\ \A k \in window.todo : ~Ahead(k, h)
       /\ Defer(h) \/ Admit(h) \/ Glitch(h)

\* _owner_side_outcome: the probe's word, or without a probe that another entry got past the stage.
\* Mutant: a stage that cannot be probed works.
WorksUnlessOutage(entry) == entry.stage \in Probed => entry.works
StageWorked(entry) ==
  IF entry.stage \in Probed THEN entry.works ELSE entry.stage \in window.worked

Counts(entry) == ~entry.outage /\ StageWorked(entry)

CloseAdmission ==
  /\ window # NONE /\ ~window.closing /\ window.todo = {}
  /\ LET against == {entry.hotkey : entry \in {e \in window.failed : Counts(e)}}
         over == {h \in against : counted[h] + 1 > MaxDeferrals}
     IN /\ counting' = counting \cup against
        /\ window' = [window EXCEPT !.closing = TRUE, !.over = over]
  /\ UNCHANGED <<fate, live, funded, verdict, counted, budget>>

-----------------------------------------------------------------------------
(***************************************************************************)
(* Phases 4 to 7 and the settle.  The king's arm may be unusable, which    *)
(* defers every duel; a mute arm is deferred on its own; the rest is       *)
(* judged.  What was refused at admission is judged in any case.           *)
(***************************************************************************)
Folded == [h \in Hotkeys |-> IF h \in counting THEN counted[h] + 1 ELSE counted[h]]

Settle ==
  /\ window # NONE /\ window.closing
  /\ \E unusable \in BOOLEAN :
       /\ UpsetIf(unusable)
       /\ verdict' = [h \in Hotkeys |->
            CASE h \in window.refused -> "artifact"
              [] h \in window.over -> "cap"
              [] h \in window.admitted \ MuteTrees /\ ~unusable -> "duel"
              [] OTHER -> verdict[h]]
  /\ counted' = Folded /\ counting' = {}
  /\ window' = NONE
  /\ UNCHANGED <<fate, live, funded>>

\* The daemon dies, or an exception leaves the window; it is run again, or the chain has moved on.
Crash ==
  /\ window # NONE /\ Upset
  /\ window' = NONE
  /\ \/ UNCHANGED <<counted, counting>>
     \/ counted' = Folded /\ counting' = {}
  /\ UNCHANGED <<fate, live, funded, verdict>>

Windows == Open \/ AdmitNext \/ CloseAdmission \/ Settle

Next ==
  \/ Windows \/ Crash
  \/ \E h \in Hotkeys : Fund(h) \/ RunDry(h) \/ Deregister(h) \/ \E f \in Fates : Commit(h, f)

Spec == Init /\ [][Next]_vars
FairSpec == Spec /\ WF_vars(Windows)

-----------------------------------------------------------------------------
\* A shot is lost without a duel only to a tree at fault: an outage that meets every entry, at any
\* stage and in any number of windows, never walks a sound tree to the deferral cap
\* (_owner_side_outcome, _stage_works).
SoundTreeIsDuelled ==
  \A h \in Hotkeys : verdict[h] \in {"artifact", "cap"} => fate[h].stage # NONE

Waiting == {h \in live \cap funded : fate[h] = Good /\ ~Judged(h)}

\* Every funded entry that stays registered is judged in the end, however many entries ahead of it
\* have no allowance or fail admission, as long as fewer of them than a window has duels reach no
\* worker (_queue, MAX_INFRA_DEFERRALS, run_window): those are deferred without a count.
FundedIsJudged == <>[](Waiting = {})
=============================================================================
