------------------------------ MODULE Schedule ------------------------------
(***************************************************************************)
(* How a window comes by its tasks, its prices and its models.  The owner  *)
(* commits one root for the whole schedule; a daemon starts only if what   *)
(* it computes from its own world is that root; at window open it builds,  *)
(* signs and puts the window's file unless there is one, and then reads    *)
(* back and checks whatever is there before an arm runs.  The owner may    *)
(* re-commit, and the daemon may die and come back with another world, in  *)
(* the middle of a window.                                                 *)
(***************************************************************************)
EXTENDS World

CONSTANTS
  Governance,   \* another mechanism's record in the owner's slot
  Final,        \* the committed windows are 1..Final
  Nonce,       \* window -> the hash of the block it opens at
  Configs,     \* the configurations the owner may be running with
  Subnet,      \* the chain's immunity period and weights rate limit
  RefreshBlocks, Depth, Duels,  \* WEIGHT_REFRESH_BLOCKS, MAX_QUEUE_DEPTH, MAX_DUELS_PER_WINDOW
  MaxFaults,   \* bound: failed calls, deaths, and files put by somebody else
  MaxStarts    \* bound: daemons started

Windows == 1..Final

VARIABLES
  slot,     \* the owner's commitment slot: NONE, Governance or a manifest
  bucket,   \* window -> the file at window_path, or NONE
  head,     \* the window the chain's head is in
  daemon,   \* NONE, or the process: its pins, its schedule's manifest, the slot as preflight read it
  run,      \* what its loop is doing: the window, where it is, and what it opened
  settled,  \* windows history has settled
  ran,      \* ghost: window -> what its arms, of every attempt, were run on
  faults, starts

scheduleVars == <<slot, bucket, head, daemon, run, settled, ran, faults, starts>>

-----------------------------------------------------------------------------
(* The schedule and the file. *)

\* The digest of a pool is every field of every task, so here the pool itself.
PoolDigest(tasks) == tasks
ScheduleEntry(w, config) ==
  [epoch |-> w, perBenchmark |-> config.perBenchmark, minimum |-> config.minimum,
   poolDigest |-> PoolDigest(config.tasks)]
Manifest(config) == {ScheduleEntry(w, config) : w \in Windows}
EntryOf(manifest, w) == CHOOSE entry \in manifest : entry.epoch = w

SliceOf(entry, nonce) == Draw(entry.poolDigest, nonce, entry.epoch, entry.perBenchmark, entry.minimum)
Build(entry, catalog, nonce) ==
  [signed |-> TRUE, epoch |-> entry.epoch, schedule |-> entry, nonce |-> nonce,
   catalog |-> catalog, slice |-> SliceOf(entry, nonce)]

\* Signed by the owner; in the committed schedule, and this window's entry there; over this pool;
\* and the slice is the one its nonce draws.
VerifyMembership(file, w, manifest, tasks) ==
  /\ file.signed /\ file.epoch = w
  /\ file.schedule \in manifest
  /\ file.slice = SliceOf(file.schedule, file.nonce)
Verify(file, w, manifest, tasks) ==
  /\ file.signed /\ file.epoch = w
  /\ file.schedule \in manifest /\ file.schedule.epoch = w
  /\ file.schedule.poolDigest = PoolDigest(tasks)
  /\ file.slice # NONE /\ file.slice = SliceOf(file.schedule, file.nonce)

-----------------------------------------------------------------------------
Idle == [window |-> NONE, at |-> "idle", opened |-> NONE]
At(place) == run.at = place
GoTo(place) == run' = [run EXCEPT !.at = place]
Fault == faults < MaxFaults /\ faults' = faults + 1
GivesUp == run' = Idle  \* the step raises; the loop logs it and polls again

ScheduleInit ==
  /\ slot \in {NONE, Governance}
  /\ bucket = [w \in Windows |-> NONE]
  /\ head = 0 /\ daemon = NONE /\ run = Idle
  /\ settled = {} /\ ran = [w \in Windows |-> {}]
  /\ faults = 0 /\ starts = 0

\* thirtyspokes-owner commit-schedule: the slot is overwritten, unless it holds another
\* mechanism's record and the owner did not say that mechanism is retired.
CommitSchedule(config, replaceGovernance) ==
  /\ Pins(config) # NONE
  /\ slot = Governance => replaceGovernance
  /\ slot' = Manifest(config)
  /\ slot' # slot
  /\ UNCHANGED <<bucket, head, daemon, run, settled, ran, faults, starts>>

\* The daemon's preflight, once per process.
CommittedAtAll(config) == slot # NONE /\ slot # Governance
Committed(config) == slot = Manifest(config)
Start(config) ==
  /\ daemon = NONE /\ starts < MaxStarts
  /\ Pins(config) # NONE
  /\ CheckChainLaunch(Subnet, config, RefreshBlocks, Depth, Duels)
  /\ Committed(config)
  /\ daemon' = [pins |-> Pins(config), manifest |-> Manifest(config), root |-> slot]
  /\ starts' = starts + 1
  /\ UNCHANGED <<slot, bucket, head, run, settled, ran, faults>>

Crash ==
  /\ daemon # NONE /\ Fault
  /\ daemon' = NONE /\ run' = Idle
  /\ UNCHANGED <<slot, bucket, head, settled, ran, starts>>

\* The head moves on whatever the daemon does; after the last window no window is open.
Advance ==
  /\ head <= Final /\ head' = head + 1
  /\ UNCHANGED <<slot, bucket, daemon, run, settled, ran, faults, starts>>
WindowAt == IF head \in Windows THEN head ELSE NONE

\* Somebody with the owner's key, or without it, puts a file where there is none: one of another
\* configuration, another window's entry, another block's hash.
HandPublish(w, config, e, nonce, signed) ==
  /\ w >= head
  /\ bucket[w] = NONE /\ Fault
  /\ Pins(config) # NONE
  /\ LET file == Build(EntryOf(Manifest(config), e), Pins(config).catalog, nonce)
     IN  bucket' = [bucket EXCEPT ![w] = [file EXCEPT !.signed = signed, !.epoch = w]]
  /\ UNCHANGED <<slot, head, daemon, run, settled, ran, starts>>

-----------------------------------------------------------------------------
(* One step of the loop. *)

\* The head names an unsettled window.
Step ==
  /\ daemon # NONE /\ At("idle")
  /\ WindowAt # NONE /\ WindowAt \notin settled
  /\ run' = [window |-> WindowAt, at |-> "look", opened |-> NONE]
  /\ UNCHANGED <<slot, bucket, head, daemon, settled, ran, faults, starts>>

\* Only a key that is not there licenses a write; any other failed read leaves the file to Load.
OverwriteUnread(file, fails) == IF file = NONE \/ fails THEN "build" ELSE "load"
LeaveToOthers(file, fails) == "load"
AfterLook(file, fails) == IF file = NONE /\ ~fails THEN "build" ELSE "load"
Look(fails) ==
  /\ At("look")
  /\ IF fails THEN Fault ELSE UNCHANGED faults
  /\ GoTo(AfterLook(bucket[run.window], fails))
  /\ UNCHANGED <<slot, bucket, head, daemon, settled, ran, starts>>

Record == Build(EntryOf(daemon.manifest, run.window), daemon.pins.catalog, Nonce[run.window])
Publish ==
  /\ At("build") /\ Record.slice # NONE
  /\ bucket' = [bucket EXCEPT ![run.window] = Record]
  /\ GoTo("load")
  /\ UNCHANGED <<slot, head, daemon, settled, ran, faults, starts>>
\* A slice that cannot be drawn, a beacon that raises, or a put that raises, landed or not.
PublishRaises ==
  /\ At("build") /\ GivesUp
  /\ \/ Record.slice = NONE /\ UNCHANGED <<bucket, faults>>
     \/ Record.slice # NONE /\ Fault
        /\ bucket' \in {bucket, [bucket EXCEPT ![run.window] = Record]}
  /\ UNCHANGED <<slot, head, daemon, settled, ran, starts>>

Opens(file, w) ==
  /\ file # NONE
  /\ Verify(file, w, daemon.manifest, daemon.pins.tasks)
  /\ file.nonce = Nonce[w]
Load ==
  /\ At("load") /\ Opens(bucket[run.window], run.window)
  /\ LET file == bucket[run.window]
     IN  run' = [run EXCEPT !.at = "arms", !.opened = [slice |-> file.slice, catalog |-> file.catalog]]
  /\ UNCHANGED <<slot, bucket, head, daemon, settled, ran, faults, starts>>
WindowUnavailable ==
  /\ At("load") /\ GivesUp
  /\ \/ ~Opens(bucket[run.window], run.window) /\ UNCHANGED faults
     \/ Opens(bucket[run.window], run.window) /\ Fault
  /\ UNCHANGED <<slot, bucket, head, daemon, settled, ran, starts>>

\* An arm runs; its episodes stay in the window's checkpoint whatever becomes of the attempt.
Seen == [slice |-> run.opened.slice, catalog |-> run.opened.catalog, root |-> daemon.root]
RunArm ==
  /\ At("arms") /\ GoTo("ran")
  /\ ran' = [ran EXCEPT ![run.window] = @ \cup {Seen}]
  /\ UNCHANGED <<slot, bucket, head, daemon, settled, faults, starts>>
StepFails ==
  /\ run.at \in {"arms", "ran"} /\ Fault /\ GivesUp
  /\ UNCHANGED <<slot, bucket, head, daemon, settled, ran, starts>>
Settle ==
  /\ At("ran") /\ run' = Idle
  /\ settled' = settled \cup {run.window}
  /\ UNCHANGED <<slot, bucket, head, daemon, ran, faults, starts>>

Works ==
  \/ Step \/ Look(FALSE) \/ Publish \/ Load \/ RunArm \/ Settle
  \/ PublishRaises \/ WindowUnavailable
ScheduleNext ==
  \/ Works
  \/ \E config \in Configs : Start(config) \/ \E replace \in BOOLEAN : CommitSchedule(config, replace)
  \/ \E w, other \in Windows, config \in Configs :
       \/ HandPublish(w, config, other, Nonce[w], TRUE)
       \/ HandPublish(w, config, w, Nonce[other], TRUE)
       \/ HandPublish(w, config, w, Nonce[w], FALSE)
  \/ Crash \/ Advance \/ Look(TRUE) \/ StepFails
ScheduleSpec == ScheduleInit /\ [][ScheduleNext]_scheduleVars
\* The loop polls for ever and every call it makes returns or raises.
ScheduleFairSpec == ScheduleSpec /\ WF_scheduleVars(Works)

-----------------------------------------------------------------------------
(* Whatever the owner restarts with in the middle of a window - other prices, other models, a new *)
(* commit - all the arms of one window that ever ran, ran on the same tasks and the same catalog; *)
(* so rows kept from an earlier attempt may be compared with rows of a later one                  *)
(* (validator._publish_window: "no second build can hand a later arm a different catalog").       *)
OneWorldPerWindow ==
  \A w \in Windows : \A a, b \in ran[w] : a.slice = b.slice /\ a.catalog = b.catalog

(* What ran in a window is what anybody derives for it from the root that was on chain when the   *)
(* daemon started and the hash of the block the window opened at: no file anybody put, no other   *)
(* window's entry and no other nonce gave it another slice (window.verify, validator._open).      *)
RunsAsCommitted ==
  \A w \in Windows : \A a \in ran[w] :
    \E entry \in a.root : entry.epoch = w /\ a.slice = SliceOf(entry, Nonce[w])

(* A window that stays open under a daemon, with no file or with a file it accepts, is run to its *)
(* end: nobody else has to publish the window file (validator._publish_window).                   *)
Openable(w) ==
  \/ bucket[w] = NONE /\ SliceOf(EntryOf(daemon.manifest, w), Nonce[w]) # NONE
  \/ Opens(bucket[w], w)
OpenWindowIsRun ==
  \A w \in Windows : <>[](daemon # NONE /\ head = w /\ Openable(w)) => <>(w \in settled)
=============================================================================
