# TLA+ models of the thirtyspokes validator (v3)

The repository runs a subnet in which miners submit router models, one per
hotkey and for ever, and an owner's validator duels them against a reigning
king, window after window, on money each party funds itself.  The validator is
one long-lived daemon with durable state in a handful of files, two public
buckets, a serving host it drives over ssh, a chain it polls and a second
thread that keeps its weights fresh.  What can go wrong is therefore mostly not
in a function but between two writes: a crash, an exception caught by the
polling loop, a file cut in the middle, a script that outlives whoever started
it, a hotkey that leaves the chain while a copy takes hours.  This directory
models those parts in TLA+, checks them with TLC on small instances, and proves
with TLAPS, for every size, all the safety properties the runs check.

All paths below are relative to `src/thirtyspokes/v3/` unless they say
otherwise.

## 1. Inventory of the system

| component | code | state | operations | interacts with | hard behaviour | what makes it correct | modules |
|---|---|---|---|---|---|---|---|
| Main loop and history | `validator.py` `Validator.step`, `run_window`, `_publish`, `History` | `history.json`, `reveals/N.json` | poll, open, score, settle, publish, retry a coronation, revert a reign | chain, stores, checkpoint, keeper | crash or exception between any two writes; reversions while a window runs; deferred coronations | one shot each, settled windows final, one open reign, a crown only after a public copy | `ValidatorLoop`, `LoopLineage`, `CrownLedger` |
| Arm and checkpoint | `validator.py` `Checkpoint`, `_arm`; `simulate.py` `_GraderGuard`; `score.py` `best_possible_final` | one JSONL per arm, `excluded.jsonl`, a budget file | resume, run a batch, exclude a task, abandon a futile arm | gateway, outcome table | torn tails, concurrent episodes, restarts, exclusions made by later arms | paid rows are kept, placeholders never scored, the allowance binds, a futile arm could not have won | `DuelArm` |
| Weight keeper | `validator.py` `_keep_weights_once`, `_refresh_weights`, `_write_weights`, `_weights_due` | last slate and block, retry gate | tick, refresh, write, seed after a restart | history, chain | two threads under two locks, the chain's rate limit, uids changing hands | the chain comes to hold the slate history pays, and never a half-settled one | `WeightKeeper`, `Emissions` |
| Queue and admission | `validator.py` `_queue`, `_admit`, `_owner_side_outcome`; `admission.py` | infrastructure deferrals | order, cap, fund, admit by stages, defer, refuse | mailbox, chain, serving, trees | starvation, caps, blame | a shot is spent only for the miner's fault; a funded commit is judged | `Queue`, `Admission` |
| Succession and emissions | `duel.py` `succession`; `simulate.py` `adjudicate`; `window.py` `exclude`; `emissions.py` | none (pure) | price a pair, crown winners in commit order; split the emission | history, arms | intransitive rematches, clock tails, dead graders, ranks | every handover adds the margin; a copy takes nothing; ranks never skip | `Verdict`, `Emissions` |
| Gateway | `gateway.py` `OwnerGateway` | balances, holds, journal | fund, call, settle, replay, credit, restart | arms, provider, owner's tool | sixteen callers, a condition variable, a journal two processes append to | overrun of at most one call, no stranded hold, books that agree | `OwnerGateway` |
| Mailbox | `access.py` `Mailbox`; `owner.py` `issue_round` | issued and spent, one file; `watch.json` | issue, rotate, consume | owner's tools, validator, miner | two processes rewriting one file, lost envelopes | whatever was minted is remembered; the first credential arrives | `Mailbox`, `Submissions` |
| Retention | `validator.py` `_retire_judged`, `_sweep_unclaimed`; `store.py` | purged registrations | survey, plan, delete | history, mailbox, chain | stale reads | nothing the durable state names is deleted | `Submissions` |
| Window schedule and draw | `window.py`, `owner.py`, `validator.py` `_publish_window`, `_open` | schedule on chain, window files | commit, build, publish, verify, draw | chain, store, world | restarts with another world, files somebody else put | a window runs on the committed slice and on one catalog | `Schedule`, `World` |
| World and reference policies | `world.py`, `pool.py`, `reference.py` | none (pure) | snapshot, narrow, pin, ladder, subsample, gate | schedule | expiring lists, ties | the gate can tell the reference arms apart | `World`, `Verdict` |
| Episode and outcome table | `scaffold.py`, `render.py`, `action.py` | `outcomes.jsonl` | step an episode, replay a draw, read, grade | gateway, graders | clocks, cuts, torn tails, concurrent tasks | one draw per key; identical policies tie | `Episode` |
| Benchmarks and sandbox | `benchmarks/`, `tools.py` | containers, mounts | preflight, grade, read | episode, docker | a log cut anywhere, a mount that resolves elsewhere | no failure of the harness is a grade | `Grading` |
| Store and transfer | `store.py`, `hosttrees.py` | buckets, trees on the serving host | fetch, verify, promote | queue, main loop | orphaned scripts, multipart uploads left open, corrupted reads | what is marked is what was judged; only the miner's bytes are refused | `Transfer` |
| Serving | `serve.py`, `validator.py` `local_serving` | cards of a remote host | launch, evict, probe, diagnose, ask | arms, admission | servers that die, survive or appear late | own weights answer; only the tree's fault is charged to it | `Serving` |
| Chain access | `chain.py` | none | read, commit, set weights | keeper, loop, submissions | partial reads, rate limit | | as the environment of the above |
| Key funding, provider, command lines, dev kit, prompts | `funding.py`, `openrouter.py`, `miner.py`, `owner.py`, `devkit.py`, `conductor.py`, `types.py`, `archetypes.py` | | | | | | what other parts see of them |
| Outside v3 | `koth/`, `serve/`, `gateway/`, `subnet/`, `tee/`, `eval/` of the package | | | | | | not modelled |

## 2. Modules

| module | models | role |
|---|---|---|
| `ValidatorLoop` | the main thread: `Validator.step` … `_republish`, `History` | detailed specification, properties |
| `CrownLedger` | what the history of the crown promises, without windows, files or copies | abstract specification |
| `LoopLineage` | `ValidatorLoop` with the mapping to `CrownLedger` | refinement |
| `DuelArm` | one challenger's arm | detailed specification, properties |
| `OwnerGateway` | `gateway.py`: one meter, many calling threads, one journal | detailed specification, properties |
| `WeightKeeper` (on `Emissions`) | two threads that write weights, and the chain they write to | detailed specification, properties |
| `Emissions` | the emission schedule | pure, with its reference definition |
| `Mailbox` | the one-shot ledger and its writers | component of `Submissions` |
| `Submissions` | watcher, owner's key command, miners, daemon and bucket around the ledger | composition, properties |
| `Queue` (on `Admission`) | the queue and its admission over windows | detailed specification, properties |
| `Admission` | the artifact checks | pure, with its reference definition |
| `Episode` (on `Grading`) | one window's arms inside their tasks, with the outcome table | detailed specification, properties |
| `Grading` | graders, sandbox, read channel | pure, checked over every reply and trouble |
| `Transfer` | one tree from the private bucket to the host to the public bucket | detailed specification, properties |
| `Verdict` | `exclude`, `challenger_wins`, `succession`, `adjudicate`, the power gate | algorithm over every arm, properties |
| `Serving` | the cards of the serving host and everybody who asks them | detailed specification, properties |
| `Schedule` (on `World`) | the committed schedule, the window files, the daemon's world | detailed specification, properties |
| `World` | catalog, pins, ladders, draw, subsample, launch arithmetic | pure, with reference definitions |
| `None` | the code's `None` | the constant several modules share |
| `ValidatorLoopProofs`, `DuelArmProofs`, `OwnerGatewayProofs` | `LoopLineage`, `DuelArm`, `OwnerGateway` | TLAPS proofs (section 5) |
| `StoreProofs` | `Submissions`, `Transfer` | TLAPS proofs |
| `ChainProofs` | `Schedule`, `World`, `WeightKeeper`, `Emissions` | TLAPS proofs |
| `CrownProofs` | `Queue`, `Verdict` | TLAPS proofs |
| `AnswerProofs` | `Serving`, `Episode`, `Grading` | TLAPS proofs |
| `Sums` | | TLAPS proofs about sums over finite sets, which the others cite |
| `MCOwnerGateway`, `MCQueue`, `MCVerdict`, `MCSchedule`, `MCLoopLineage` | | values and symmetry for TLC |

### ValidatorLoop

The variables are the program's own durable state and its position.

* `judged`, `coronations`, `crown`, `windows`, `pending`, `reigns` are the
  fields of `history.json`.  `History.save` replaces the file through a rename,
  so an action that ends in a save changes them in one step, and memory and
  file are always equal.
* `kingRows`, `arms` are the checkpoint files of the king's and the
  challengers' arms, `localReveal` the file `reveals/N.json`, which is written
  in place: it can be `TORN`.
* `reveals`, `public` are the public buckets.
* `pc`, `run` are the point `step` has reached and the locals of `run_window`
  and `_publish`; a crash forgets them.
* `clock` is the window of the chain's head, `registered` what the metagraph
  resolves.

One action stands for the code between two points at which the durable state,
the chain or the process can change under it:

| action | code |
|---|---|
| `SettlePendingCrown`, `PromotePending`, `RetryOrForfeit` | `_settle_pending_crown`, split around the copy, which runs for hours outside any lock |
| `StartWindow`, `Republish`, `RefreshWeights`, `WindowUnavailable` | `step` and `_refresh_weights` |
| `OpenWindow` | `run_window` up to admission; the power gate and `_admit` are a choice of who is admitted and who is refused (`Queue` opens it up) |
| `KingRow`, `KingTooSlow`, `KingUnreconciled`, `KingDefends`, `ChallengerArm`, `Verdict` | the arms and phase 6 (`DuelArm`, `Verdict` open them up) |
| `Promote`, `Supersede`, `CrownWinner`, `Settle`, `Record`, `PutReveal`, `MarkPublished` | `_publish` and `_settle_and_write`, one per save, put or chain read |
| `Crash`, `StepFails`, `Restart` | a dead process; an exception `run_forever` catches; the supervisor |
| `Tick`, `Deregister`, `BackoffElapses` | the chain and the wall clock |

Abstractions: what a duel computes is who wins it; the queue is the set of
committed hotkeys that resolve and are not judged; the weight write never
raises and changes nothing the loop reads, so it is folded into the step that
follows it (`WeightKeeper` has both); a hotkey that left does not register
again; a full disk is not modelled for `history.json`.

### CrownLedger and LoopLineage

`CrownLedger` says in three variables what a reader of the history relies on:
shots are spent once, a coronation is of a judged submission that never
reigned, it enters the lineage in the step that gives it the throne, and losing
the throne is no coronation.  `LoopLineage` maps the loop to it.  Between the
save that moves the crown and the save that settles the window, the mapping
counts the coronation as done (`MidCoronation`).  That is right exactly when
the process does not die between the two saves, so `UncutSpec` allows every
crash and every failed step but that one; what a crash does there is described
under `CrownedIsJudged` below.

### OwnerGateway

One action is one critical section of the lock `_money`; what a thread does
outside the lock (the provider's answer, building a receipt) lies between two
actions, where every other thread may run.

* `book` is what replaying journal rows yields: balances, caps, ceilings and
  which ceilings come from live rows.  It is a record of its own because the
  live gateway and a restarted one compute it by the same rule (`Apply`).
* `held`, `holding`, `short`, `probing` are the counters of the same names.
* `journal`, `torn`, `consumed` are the file, whether its last line is cut, and
  the mark of how far this process has applied it, counted in rows.
* `calls` is the program counter and the locals of each calling thread.
* `receipts`, `closed`, `unfunded` are the arm's `DuelLedger`, the last its
  `unfunded_calls`; `opened` is where this process's rows begin.
* `excused` and `orphans` are history variables: payers of whom the bound on
  the overrun is not promised, and rows whose fsync failed after they were
  written.

| action | code |
|---|---|
| `Ask`, `RefuseClosed`, `RefuseUnfunded`, `RefuseCongested`, `Wait`, `Expire` | the predicate loops of `call` and `replay` |
| `Reserve`, `Settle`, `ProviderFails`, `KeyRefused` | `call` from the reservation to the settle, every exit through `_unhold`; the last is a 401 or 402, which counts beside the refusals of an empty allowance |
| `Replay`, `Mint` | the debit of a row bought before; the receipt, in its own critical section |
| `Refresh`, `RefreshRaises`, `Bind`, `Close` | the main thread; `Bind` only between arms, as `_fund` calls it |
| `Credit` | `thirtyspokes-owner credit`, another process on the same file |
| `Unrecorded` (in `Settle`, `Replay`, `Bind`) | an append the disk refuses, before, during or after the write |
| `Crash`, `Restart` | |

Left out: tokens and signatures; which provider a call is sent to.  Dollars are
integers, so the float residue `_unhold` snaps to zero does not arise.

### DuelArm

`ValidatorLoop` sees an arm as one step per row; `DuelArm` is that step opened
up.  Tasks are numbered in nonce order.

* `lines`, `torn` are the arm's JSONL and whether its last line lacks its end;
  `excludedFile`, `exclusionsTail` the same for `excluded.jsonl`, where a
  damaged line before the last is refused instead of ending the read;
  `budgetFile` is the snapshot of the allowance.
* `failed` is the guard's set; `resumed`, `placed`, `remaining`, `spent`,
  `runs`, `index`, `width`, `batch` are the locals of `_arm`.
* `open` are the episodes of the batch whose threads still run; `late` says the
  per-duel clock is past.
* A row carries why it exists, its score (0 or 1), its spend and, as history
  only, whether its grade is a placeholder.
* `judgedWith` is a history variable: what the guard had failed when the arm
  was first abandoned.

| action | code |
|---|---|
| `Open`, `OpenRaises` | `resume`, `snapshot` and the deadline |
| `Skip`, `Unreach`, `Enlist` | one turn of the loop that fills a batch |
| `Dispatch`, `Finish`, `Account` | the pool, one episode's row under `writing`, the accounting in nonce order and the futility check |
| `Abandon` | one turn of the loop over a futile tail |
| `GraderDies`, `OtherArmsGraderDies` | `_GraderGuard._exclude`, in this arm's episodes or in an arm before or after it |
| `Judge` | `adjudicate` after the last arm |
| `Crash`, `Restart` | an append cut anywhere, also behind its last character; the exclusions read back |

Left out: the steps inside an episode (`Episode`) and what sends a worker call
(`OwnerGateway`); the meter's audit; an infinite allowance, which only the
offline sweep uses; a second benchmark (`Verdict` has two).  A king's task is
worth its score alone, and winning is clearing his mean by the margin, which
`challenger_wins` demands among other things: what does not win here does not
win there.  The king's own arm runs the same code without the futility check.

### WeightKeeper and Emissions

* `hotkeyOf` is the metagraph, `onChain` and `age` this validator's slate there
  and the blocks since its last update; `coronations`, `crown` what history
  holds of the lineage; `lock` the state lock; `at`, `slate`, `read`, `lag` the
  locals of both threads; `written`, `kept`, `gate`, `failures` the fields
  `_written_slate`, `_last_weight_block`, `_retry_at_block`, `_weight_failures`,
  relative to the head.
* `KeeperEnters`, `KeeperDecides`, `KeeperFails` are `_keep_weights_once`;
  `LoopEnters`, `LoopRefreshes`, `LoopSettles`, `LoopComputes`, `LoopFails` the
  refresh and the window's write of the main thread; `LoopCrowns` the crown
  changed in a critical section of its own; `WriteWeights` is `_write_weights`
  with its three ends: landed, refused by the rate limit, or raised, in which
  case the write may have landed unheard; `Restart` is `_seed_weight_clock`.

`Emissions` is `Lineage.pensioners` and `emission_weights`, in hundredths.

### Mailbox and Submissions

`Mailbox` has the ledger, every writer's copy of it (`mem`), the envelope a
writer has sealed and not yet published (`outbox`) and the published ones.  A
transaction (`Mint`, `Consume`, `Refuse`) is one step: `_transaction` re-reads
the file under a lock and replaces it by a rename.  `Submissions` puts the
processes around it: `BeginPass` … `EndPass`, `PutRaises`, `WatcherRestarts`
are `owner.watch` and `issue_round` with `watch.json`; `IssueKey`, `PublishKey`
the `--key-only` command; `OpenSession`, `Upload`, `CommitReady`,
`SessionEnds` the miner's `submit`; `OpenWindow`, `Spend`, `Settle`,
`ResolvePending` the daemon's side of the ledger and of history;
`RetireJudged`, `Survey`, `Plan`, `DeletePrefix`, `EndSweep` the two sweeps,
with the chain read, the listing and the deletes as separate steps.

### Queue and Admission

A hotkey's number is its place in the commit order (`Foremost` takes the first
of them, `Ahead` who is taken before whom), `fate` is what a tree does (good; broken; it
reproduces an owner-side failure at one stage; it is mute: it loads and its arm
reaches no worker), `verdict` the judged record, `counted` and `counting` the
infrastructure deferrals of earlier and of this window.  `Open` is `_queue`
with the depth cap over the funded, `AdmitNext` one turn of the admission loop
(`Defer`, `Admit`, `Glitch`), `CloseAdmission` is `_owner_side_outcome` with
the probe or the evidence of other entries, `Settle` the rest of the window.
`Admission` is `admit`: two checks that read names, seven that open files, in
their order, the first failure being the reason; and what `transformers` builds
from a config, as the comments of `_architectural` describe it.

### Episode and Grading

`episodes` are the tasks in flight with their history of steps and the delegate
that is open, `results` the checkpointed ones, `table` and `file` the outcome
table and what a reopened one would read, `charged` what the meter debited per
arm, `policy` the Conductor: an arbitrary function of the rendered state whose
values are chosen when first asked, the same for every arm.  `Dispatch`,
`OutOfTime`, `OutOfMoney`, `Fumble`, `Submit`, `Miss`, `Hit`, `ReplyReads`,
`ReplySubmits`, `CallFails`, `Grade` are the branches of `run_episode`,
`_call_worker`, `_replay` and `_graded`; `Crash`, `CrashInPut` the
process's death, also in the middle of an append.  What a grade can be is
computed by `Grading`: every reply, every trouble of a container, five
adapters; a death drops the task.

### Transfer

`bucket` is what the miner left, `tree` and `marker` the host's disk, `public`,
`named`, `uploads` the public prefix, its manifest and the multipart uploads
open under it.  `job` is the script the controller listens to and `orphans`
those it no longer does: `JobWorks` and `OrphanWorks` take the same steps
(`FetchOne`, `HashOne`, `PutPart`).  `StartFetch`, `FetchAnswers` are
`fetch_submission` and `_judge_fetch`; `StartPromotion` … `PutManifest` are
`promote_submission` and `HostTrees.upload`; `RunnerFails`, `Crash` leave a
script behind.

### Verdict

Three tasks of two benchmarks; an arm answers a prefix of the slice, and its
allowance or its clock takes the rest.  `RunArm` adds an arm, `GraderDies`
removes a task from every pair, `Adjudicate` is `adjudicate` with
`succession`.  Means are scaled to integers and the bootstrap is its whole
distribution in place of a sample.  `Separates` is `power_gate`, with the same
bootstrap.

### Serving

`server`, `survivor`, `marked`, `late`, `linked` are the host: what was last
started on each card's port, an old server that outlived its kill, whether the
log shows a load error, restart scripts still to run, the forward.  `cards`,
`recency`, `held`, `turn`, `threads` are `RemoteServing` and its callers; a
handle without a card is a `ManagedConductor`.  `Slow` trees load after the
readiness deadline.
`Ensure`, `Launch`, `Ready`, `Deadline`, `Diagnose` are the branches of
`ensure`, `_launch` and `_diagnose` under the lock, `Find` is `local_serving`,
`Ask` is `act` with `_check_model`.

### Schedule and World

`slot` is the owner's commitment slot, `bucket` the window files, `daemon` the
process with the pins and the manifest it computed and the slot as its
preflight read it, `run` the step it is in, `ran` a history variable: what the
arms of each window ever ran on.  `CommitSchedule`, `Start`, `Crash`,
`HandPublish` are the owner, the supervisor and anybody who can put a file;
`Step`, `Look`, `Publish`, `PublishRaises`, `Load`, `WindowUnavailable`,
`RunArm`, `StepFails`, `Settle` are `step`, `_publish_window`, `_open` and the
window around them.  `World` computes the pins from a configuration and a day's
price list, and the slice from a pool and a nonce; hashes are arbitrary orders.

## 3. Runs

| run | question | bounds |
|---|---|---|
| `loop_crash` | does history stay consistent, and does a deferred coronation end, when the process dies or raises anywhere? | two challengers, one window, two tasks, one fault, two attempts at a copy |
| `loop_lineage` | does the loop implement the crown ledger, and is a shot never run twice? | two challengers, interchangeable, two windows, one task, one fault anywhere but between the two saves of a coronation |
| `gateway` | do concurrent calls, the journal and the owner's tool keep the books, and each other alive? | two callers of one payer, three calls of price 0 or 2, one credit, one crash or damaged write, two windows, a starting cap of three |
| `duel_arm` | is what was paid for kept, what is scored real, what is abandoned lost? | three tasks, batches of two, spends 0 to 2 of 3, every king, one dead grader, one crash |
| `weight_keeper` | does the chain come to pay the history, and never anything else? | two hotkeys, two uids, a rate limit of one block, a cadence and a backoff of two, two moves of a uid, one new king, one restart |
| `submissions` | is every credential remembered and handed out, and nothing still owed deleted? | two hotkeys, one of which uploads, two registrations, two generations, one issue per pass, one upset |
| `queue` | is a funded commit judged, and a sound one never refused? | three commits, depth two, two duels a window, one deferral allowed, one mute tree, two upsets, two stages of which one can be probed |
| `episode` | do identical policies tie, is a draw bought once, is a failure of the harness ever a grade? | two arms, one task, two models, two steps, one read, two unparsable replies, an allowance of two calls, one death of the process |
| `transfer` | is only the miner's tree refused, and only the judged tree published? | two files, two attempts of a put, two faults, one crash |
| `verdict` | what does the succession crown, and on which tasks? | three contenders of whom two are arbitrary and the third may copy any, three tasks of two benchmarks, one dead grader |
| `serving` | whose weights answer, and whom is a failed load charged to? | two cards, three good trees of which two share their bytes, one corrupt, one too slow for the deadline, two threads, two upsets, both ways to serve |
| `schedule` | on which tasks does a window run, and on one catalog? | two windows, five configurations, two starts, two faults |

Four modules, and `MCVerdict` for `Verdict`, also state facts about pure functions
as `ASSUME`, which TLC evaluates before each run; section 4 lists them.

Why the bounds are enough.

* Loop.  Two challengers are needed for a supersession and for a winner and a
  loser in one window, and three would add only another bystander; two windows
  for a deferred coronation that meets the next winner; two tasks for an arm cut
  at half its slice; one fault because every state a restart begins from is a
  state some single fault leaves (the process keeps nothing).
  `PromotionMaxAttempts = 2` gives one retry and the forfeit.  The theorems of
  section 5 do not depend on any of these bounds.
* Gateway.  Two callers of one payer compete for one allowance; the first call
  probes and teaches the price, after which two run side by side, and the third
  finds what a settle has returned while the other is in flight.  `MaxBalance`
  bounds only how often a damaged journal's rows are applied again.
* Arm.  Three tasks are a first batch of one and a second of two, or three
  batches of one; spends of 0 to 2 out of 3 give a batch that exhausts the
  allowance, one that overruns it and one that leaves it, and a mean of zero;
  the king's rows range over every score and every clock tail that
  `_king_too_thin` lets through.  The clock may pass before any task.
* Keeper.  Two uids are a hotkey that leaves and another that takes its uid; a
  cadence longer than the rate limit and a backoff that outlasts it are what the
  code's constants are to each other; the chain's own lag of one block separates
  what was written from what is visible.
* Submissions.  One pass that issues one key leaves another hotkey waiting; two
  registrations are a hotkey that comes back; two generations are a rotation.
* Queue.  Three commits exceed the depth; two duels a window with one mute tree
  is the largest number of mute trees under which nobody starves (see
  "Disagreements"); one counted deferral is the smallest cap, and the easiest
  one to reach wrongly.
* Episode.  Two arms of one policy over one table is a purchase and a replay;
  one task suffices because a row's key names its task.
* Transfer.  Two files are a tree of which a part is there; two attempts a
  retried part; a crash and a fault leave at most one script behind that still
  writes while the next attempt does.
* Verdict.  An arm is a prefix of three tasks with every graded score; a copy
  has to be compared with one arm before it and with the king, which needs two
  arbitrary contenders; two benchmarks are the fewest a duel can be priced
  on.  The scores let a winner stand less than twice the margin above the king,
  so that one handover is told from two.
* Serving.  Three good trees on two cards force an eviction; two threads are the
  one that asks and the one whose launch evicts.
* Schedule.  A window in which the process restarts with each of the other
  configurations, and the next.

Deadlock is not checked in any run: an arm ends with its verdict, a transfer
with a marked tree, a schedule with its last window; past it the daemon only
polls.

Fairness.

* `ValidatorLoop`.  `MainThread`: `run_forever` loops without an exit and catches
  every exception of `step`, and each blocking call in it has a timeout.
  `Restart`: the daemon runs under a supervisor.  `Tick`: the chain produces
  blocks.  `BackoffElapses`: `next_attempt_at` is a time on the wall clock.
* `OwnerGateway`.  Each caller's `Proceed`: a thread runs, and a provider answers
  or times out.  No fairness is assumed of the deadline, so `EveryCallEnds` says
  that nobody needs it.
* `WeightKeeper`.  Weak fairness of blocks, of the main thread leaving a lock it
  holds and of `set_weights` returning; strong fairness of `KeeperEnters` and
  `KeeperDecides`, because the keeper loses a lock or a metagraph read any number
  of times but not every time, and of a write that lands, because a chain that
  refuses every write cannot be made to hold anything.  The main thread may never
  poll again.
* `Submissions`, `Queue`, `Schedule`: weak fairness of the polling loop
  (`Watching`, `Windows`, `Works`), which runs under the same supervisor;
  `Transfer`: of the controller and of the script it listens to, none of orphans.
* `Serving`, `Episode`, `DuelArm`, `Verdict`, `LoopLineage` state no liveness and
  assume none.

Nowhere is fairness assumed of faults, crashes, deregistrations, operators or
miners, nor that a copy succeeds.

## 4. Properties

Loop:

* `ReignLedger`: exactly one reign is open, it is the crown's, and no hotkey
  follows itself.
* `CrownAfterVerify`: a miner reigns only after an arm of its won and its
  weights verified in the public bucket, also when the coronation is deferred.
* `SettledIsFinal`, `OneShot`: no arm of a settled window or of a judged hotkey
  runs again, also after a crash.
* `PendingResolved`: a deferred coronation is crowned, superseded or forfeited.
* `LedgerSpec`: refinement of `CrownLedger`.

Gateway:

* `OverrunIsOneCall`: under any interleaving of calls, replays and restarts, a
  payer's balance ends below zero by less than one call.
* `UnfundedIsReal`: a payer is counted as out of money only if all its holds
  together would not leave it a dollar, or by a call in flight whose key the
  provider refuses, at any balance; each such call counts once.
* `EveryCallEnds`: no caller is parked with nobody left to wake it.
* `NeverDoubleCounts`: live books against the journal, through refreshes, failed
  writes and restarts.
* `AuditReconciles`: receipts are the journal's debits.

Arm:

* `PlaceholderNeverScored`: the 0.0 of a dead grader reaches no verdict, in
  whichever attempt or arm it died.
* `PaidRowsKept`: no restart and no abandonment replaces a row already paid for.
* `AllowanceBinds`: a batch runs only on money that is left, across restarts.
* `FutileCannotWin`: with the tail at full marks for nothing, an abandoned arm
  still would not have won.  It sets aside an arm with a clock tail of its own.
  Such a tail can only precede an abandonment across a restart: the rows of an
  earlier attempt's clock tail count as zeros in the ceiling and leave the
  comparison in `window.exclude`.

Weights:

* `PaysHistory`: what a thread is about to write is what the persisted history
  pays on the metagraph it read; no half-settled window, no slate older than a
  coronation.
* `OneRefusal`: the rate limit refuses a background write at most once between
  two updates of the chain.
* `ChainConverges`: with the keeper alone, the chain comes to hold the slate the
  history pays, whatever was refused, failed, landed unheard or was forgotten.

Submissions:

* `RevocationList`: every credential a miner can hold is in the list the operator
  revokes from.
* `OwedIsKept`: no sweep deletes what a verdict, a crown or a shot not yet judged
  depends on.
* `SignalledIsKept`: an upload whose ready signal was on chain when the sweep
  began is never swept, whatever slots of the survey failed.
* `FirstCredentialArrives`: a registration is handed a credential in the end.

Queue:

* `SoundTreeIsDuelled`: an outage, at any stage and in any number of windows,
  never walks a sound tree to the deferral cap.
* `FundedIsJudged`: a funded commit that stays is judged in the end, if fewer
  trees than a window has duels reach no worker.

Episode:

* `TwinsTie`: two arms that made the same choices have the same steps, score and
  spend.
* `RebuysNothing`: after `put` has returned no arm and no restart buys that draw
  again.
* `EveryDollarIsRecorded`: every dollar debited is in a result, in an episode in
  flight, or was lost with an episode that died.
* `HarnessIsNotScored`: a task of which a grade or a read was decided by a dead
  container, daemon or mount is out of every arm.  It speaks of what a log shows:
  a workload that starved in a container that reports, and a cut R2E-Gym
  summary, are scored (`Unseen`; section 4, Disagreements).

Transfer:

* `RefusedIsTheMiners`: a submission is refused for what the miner uploaded.
* `MarkedIsJudged`: the marker beside a tree and the manifest under a prefix are
  true and stay true, whatever an orphaned script still does.
* `SoundIsPublished`: what an attempt leaves behind never stops the next.

Verdict:

* `HandoversAddUp`: where the clock cut no arm, the crowned arm stands the margin
  above the king's for every hand the crown went through.
* `CopyTakesNothing`: an arm that repeats the king's is never crowned; one that
  repeats an earlier contender's takes the crown only from somebody who took it in
  between, and, where the clock cut no arm, only if the earlier one never held it.
* `UnansweredDecidesNothing`: a task one arm never reached before its clock, or
  whose grader died under any arm, decides no duel.

Serving:

* `OwnWeightsAnswer`: no text is taken for a miner's that another tree's weights
  wrote, whatever was restarted on the port in between.
* `ChargedIsAtFault`: a tree is refused for its load only if it cannot be served;
  what is excused is a tree whose port a late script took.
* `EvictionIsInvisible`: without an upset a sound tree's turn never fails,
  however many trees share the cards.

Schedule:

* `OneWorldPerWindow`: all arms of one window that ever ran, ran on the same tasks
  and the same catalog.
* `RunsAsCommitted`: those are the tasks the owner's root commits to for that
  window; the root names no prices.
* `OpenWindowIsRun`: a window the process can open is run, while the chain is in
  it.

Facts evaluated over bounded data:

* `Admission`: an admitted config builds the pinned model in every field, however
  it nests its text tower (`AdmittedBuildsThePinned`); the model the checks are
  defined against passes them, only a tree described like it does, and the
  owner's disk refuses nobody (`ChecksDefineTheReference`).
* `Grading`: a host that passes preflight grades (`PreflightSuffices`); an admitted
  R2E row tells the fix from no fix (`RowsDiscriminate`); a workload that starved
  never scores more for it (`StarvedNeverPays`); a worker that was
  invited to read is answered (`ChannelAgrees`); no worker is shown what is not
  the repository's source (`ReadsAreConfined`).
* `World`: the reference pair separates (`PairSeparates`), the slope is fitted
  between two arms (`SlopeHasTwoEnds`), the slice is stratified
  (`SlicesAreStratified`), the gate's subsample is even and a part of it
  (`SubsampleIsEven`), and whoever waits in a queue of the declared depth is
  immune until the end of the window that judges it (`QueueFitsImmunity`).
* `Verdict`: no window is refused in which one reference policy would take the
  other's crown (`GateIsFair`).
* `Emissions`: the pension goes by the last coronation (`RankGoesByTheLastCoronation`).

### Disagreements between the documentation and the code

The first eight are definitions of a module that say what a comment says, and
TLC refutes them.  To see the counterexample, give the named cfg the constants
below, and the definition as its only INVARIANT (PROPERTY, for
`DamageIsRefused`).

* `RevealKept` (`LoopCrash.cfg`, `SPECIFICATION Spec`, `Slice = 1`).  The comment
  of `_publish` says the reveal is written inside the persist step.  Between the
  settling save and the write lies a metagraph read that can raise, and the
  write is in place: the reveal of a settled window can be lost for good, or
  make every later poll of that window raise.
* `CrownedIsJudged` (the same).  `crown_to` and `settle` are two saves.  A crash
  between them, with the window gone when the daemon is back, leaves a king that
  was neither judged nor entered in `coronations`; a deferred crown saved
  without its settle is later crowned with a window record no verdicts belong to.
* `KingArmIsOneKings` (`LoopCrash.cfg`, `SPECIFICATION Spec`).  The king's
  checkpoint does not name the king.  After an interruption and a change of the
  crown the next attempt resumes another king's rows.
* `CreditsCounted` (`Gateway.cfg`, `MaxCalls = 1`, `MaxEvents = 0`).  `_record`
  moves the mark to the end of the file, over a credit another process appended
  since the last refresh.  It stays invisible until a restart.
* `DamageIsRefused` (`Gateway.cfg`, `MaxCalls = 1`, `MaxCredits = 2`).  `_replay`
  raises at a damaged line after it applied the rows before it, without moving
  the mark: they are applied again every time.
* `FutileIsFinal` (`DuelArm.cfg`).  The ceiling "can only rise" with later
  exclusions, as `best_possible_final` says, but the arm it condemned is not
  asked again.  A grader that dies in a later duel, on a task this arm lost and
  the king won, lifts the arm over the king.
* `TornTailCostsOneTask` (`DuelArm.cfg`, `Budget = 2`, `MaxSpend = 1`,
  `MaxCrashes = 2`, `MaxDeaths = 0`).  A row appended behind a torn line merges
  with it into a line that does not parse.  The attempt that wrote it goes on
  unharmed; the next one reads nothing behind it, buys those episodes again, and
  its allowance does not know the first purchase.

* `StarvedIsExcluded` (`Episode.cfg`).  The comments say of the memory and pids
  caps that breaching one "produces no verdict and therefore an exclusion, never a
  zero" (`sandbox.py:228-230`, `real.py:576-578`, `swebench_pro.py:129-131`,
  `r2egym.py:139-142`).  That is so of the clock, on which `run` raises.  What a cap
  kills is a process of the container; the driver or the runner behind it goes on
  and prints a whole report, and the grader counts it: an answer whose tests all
  pass scores 0 if they starve.  TLC reports the definition, which is about no
  state, as equal to FALSE.  `StarvedNeverPays` is what holds.

The others were met while modelling.  Some are a run's own property under larger
bounds, and all are why a bound or an excuse in a module is where it is.

* Gateway.  The comment at `_freed` says it is notified by every change that can
  teach a price; a replay's debit can teach one (`_learn` in `replay`) and
  notifies nobody, so a caller waiting for another payer's probe waits for that
  probe's end.  A row appended behind a torn line makes one damaged line of both,
  and no gateway starts on that journal again.
* Queue.  An arm that reaches no worker is deferred (`validator.py:1568`) and
  that deferral is not counted, so the challenger is admitted again in every
  window, ahead of whoever committed later.  As many of them as a window has
  duels starve the queue behind them, against the wait the comments at
  `validator.py:1729` and `:1781` rely on (`Queue.cfg` with
  `MaxMute = 2` refutes `FundedIsJudged`).
* Weights.  When the window's own write raises, or is refused while the head
  cannot be read, it replaces the retry gate by its shorter backoff, so the
  keeper asks again before the limit is over, against the comment near
  `validator.py:2840`.
* Mailbox.  A `--key-only` issue leaves a record without the field that
  `outstanding` reads.  `issue_round` keys what it has seen by hotkey, so a lost
  publish followed by a deregistration is not repaired.  A commit between its
  read and its issue gives a rotated credential to a prefix already committed.
* Retention.  A ready signal that lands after the survey of the unclaimed sweep
  is swept; `SignalledIsKept` therefore speaks of signals on chain when it began.
  A purged registration whose miner commits the same signal again at a later
  block is skipped for ever.
* Episode.  With two deaths `TwinsTie` and `RebuysNothing` do not hold
  (`Episode.cfg` with `MaxDeaths = 2`): a table row written behind a torn line
  hides itself and all behind it, and is bought again (`scaffold.py:172-174`
  promise otherwise).  A grader that dies has its placeholder stored as a table
  row like a grade (`scaffold.py:534-536`).  The offline `run_window` can overrun
  by one delegate per episode in flight, not by one (`scaffold.py:337`).
* Grading.  An R2E-Gym summary cut in its middle scores 0 like a failed test, where
  the other four show a cut report.  `HarnessIsNotScored` sets it aside with the
  starved workloads (`Unseen`).
* Serving.  `ensure` does not probe a card it believes to serve, so a server that
  died makes every turn raise, and the window is tried again and again, where
  `serve.py:590-594` says it is relaunched.  A load that ends between the last
  failed poll and the diagnosis is reported as an outage of the forward.  A
  restart script that outlives its ssh timeout, or a slow host, can turn a sound
  tree's load into a refusal.
* Schedule.  The window file pins the catalog, while ladders and prices come from
  the world of the process that runs it.  A `WindowError` of the build is raised
  outside the `try` of `_publish_window`.  A commitment made while the daemon
  runs overwrites the root it read, unnoticed.  The genesis block and the cadence
  are not in the commitment.
* Verdict.  "A later submission has to add real points over what came before it"
  (`duel.py:571-573`) holds of arms no clock cut.  Pairs are compared on the rows
  both reached, so a clock tail can make the comparison intransitive: of six tasks
  of two benchmarks, m and c in turn, let r score 10/20 on the first three and 2/20
  after, i 10/20 on the first three and then run out of clock, h 8/20 on the first
  three and 20/20 after, committed in that order over a king that scores nothing.
  i ties with r on what it reached, h beats r on the whole slice, and a copy of i
  takes the crown from h.  `CopyTakesNothing` says what is left of the claim.
* Verdict.  A grader that is dead on all but one benchmark makes `adjudicate`
  raise; the exclusions are durable, so a re-run of the window raises again.  A
  reference arm whose owner runs out of money inside the subsample scores its
  tail 0, since `_require_owner_funds` asks only for a positive balance.
* Admission.  `admission.py` says an `OSError` is not converted.  Depending on the
  Python version `rglob` and `is_file` skip what they cannot read, so a failing
  mount can look like a missing tensor.

## 5. Proofs

Every theorem about behaviours is of the module's own specification (`Spec`, or
the module's name for it; two are of a stronger one, below) and of every value of
the constants the module's `ASSUME`s admit: any number of hotkeys, windows, files,
cards, threads, tasks, stages, attempts, calls and faults.  Each proof has the same
shape: an inductive invariant, named in the table, a lemma per action or family of
actions that it is kept, and a temporal step.  Each invariant was first checked by
TLC on the run's own instance.

| module | assumptions on the constants | theorem | says |
|---|---|---|---|
| `ValidatorLoopProofs` | `LoopAssumption` | `LoopInvariant`, `TypeCorrect` | `[]LoopInv`, `[]TypeOK` |
| | | `ReignLedgerHolds` | `[]ReignLedger` |
| | | `CrownIsVerified` | `[]CrownAfterVerify` |
| | | `HistoryIsAppendOnly` | `HistoryAppendOnly`: no step forgets |
| | | `SettledWindowsAreFinal`, `OneShotHolds` | `SettledIsFinal`, `OneShot` |
| | | `DaemonKeepsLedger` | `UncutSpec => LedgerSpec`: the loop implements `CrownLedger` |
| `DuelArmProofs` | `ArmAssumption` | `ArmInvariant` | `[]ArmInv` |
| | | `PlaceholdersAreNeverScored`, `PaidRowsAreKept` | `[]PlaceholderNeverScored`, `[]PaidRowsKept` |
| | | `ExhaustionBinds` | `[]AllowanceBinds` |
| | | `AbandonedCannotWin` | `[]FutileCannotWin` |
| `OwnerGatewayProofs` | `GatewayAssumption` | `GatewayInvariant` | `[]Inv` |
| | | `GatewayOverrunIsOneCall` | `[]OverrunIsOneCall` |
| | | `GatewayNeverDoubleCounts`, `GatewayAuditReconciles` | `[]NeverDoubleCounts`, `[]AuditReconciles` |
| | | `GatewayUnfundedIsReal` | `UnfundedIsReal`, of every step |
| `StoreProofs`, `Submissions` | `MailboxAssumption`, `ProcessesAssumption` | `MailboxRemembers` | `MailboxSpec => [](MailboxTypeOK /\ RevocationList)` |
| | | `SubmissionsInvariant` | `[]SubInv` |
| | | `ImplementsMailbox` | `SubmissionsSpec => MailboxSpec`: the processes use the ledger through its transactions only |
| | | `RevocationListHolds` | `[]RevocationList`, from the two above |
| | | `OwedStays`, `SignalledStays` | `OwedIsKept`, `SignalledIsKept` |
| `StoreProofs`, `Transfer` | `AttemptsAssumption`, `NothingAssumption` | `TransferInvariant` | `[]TransferInv` |
| | | `NeverRefusedForThePath`, `MarksAreTrue` | `[]RefusedIsTheMiners`, `[]MarkedIsJudged` |
| `ChainProofs`, `WeightKeeper` | `LaunchAssumption`, `NobodyHoldsTheLock` | `KeeperInvariant` | `[]WeightsInv` |
| | | `SlatesPayHistory`, `RefusedOnce` | `[]PaysHistory`, `OneRefusal` |
| `ChainProofs`, `Schedule` | none | `ScheduleInvariant` | `[]ScheduleInv` |
| | | `OneWorld`, `RanAsCommitted` | `[]OneWorldPerWindow`, `[]RunsAsCommitted` |
| `ChainProofs`, `World` | none | `LaunchOutlastsTheQueue` | what `QueueFitsImmunity` says, for every cadence, depth and immunity |
| `ChainProofs`, `Emissions` | in the theorem | `PensionsGoByTheLastCoronation` | what `RankGoesByTheLastCoronation` says, for every lineage, king and metagraph |
| `CrownProofs`, `Queue` | `QueueAssumption` | `QueueInvariant`, `SoundTreesAreDuelled` | `[]Inv`, `[]SoundTreeIsDuelled` |
| `CrownProofs`, `Verdict` | `SliceAssumption` | `VerdictInvariant` | `[]VerdictInv` |
| | | `EveryHandoverAddsUp`, `NoCopyTakesTheCrown` | `[]HandoversAddUp`, `[]CopyTakesNothing` |
| | | `TheUnansweredDecidesNothing` | `[]UnansweredDecidesNothing` |
| | | `TheGateIsFair` | `GateIsFair`, for every slice and grades |
| `AnswerProofs`, `Serving` | `ServingAssumption` | `ServingInvariant` | `[]ServingInv` |
| | | `AnsweredByItsOwnWeights`, `ChargedOnlyAtFault`, `EvictionDoesNotShow` | `[]OwnWeightsAnswer`, `[]ChargedIsAtFault`, `[]EvictionIsInvisible` |
| `AnswerProofs`, `Episode` | `EpisodeAssumption`, `ChecksAssumption` | `EpisodeInvariant` | `[]EpisodeTypeOK` |
| | | `HarnessIsNeverScored`, `EveryDollarRecorded` | `[]HarnessIsNotScored`, `[]EveryDollarIsRecorded` |
| | | `IntactRebuysNothing`, `IntactTwinsTie` | `IntactSpec => []RebuysNothing`, `IntactSpec => []TwinsTie` |
| | and `MaxDeaths <= 1` | `NeverRebuys`, `TwinsAlwaysTie` | the same of `EpisodeSpec` |
| `AnswerProofs`, `Grading` | `ChecksAssumption` | `EveryRowDiscriminates` | `RowsDiscriminate`, for any tests |
| | | `StarvingNeverPays` | `StarvedNeverPays`, for any tests and replies |

Where a theorem is not of the module's own specification, it is because the
property is false of it, and section 4 says how: `UncutSpec` has no process die
between the two saves of a coronation, and `IntactSpec` none die behind a torn
line.  One death at most, the run's bound, is enough for the latter.

The assumptions say that bounds are numbers, that values that stand for "none"
are none of the real ones, and what the code itself insists on:
`check_weight_cadence` (`Refresh > RateLimit`), at least two attempts of a
download (`Attempts >= 2`), that the stages of `_admit` are distinct.

### The arguments

* Loop.  `CrownAfterVerify` is not inductive: nothing in it says that the winner
  a run carries, or the hotkey a deferred crown names, won a duel.  `LoopInv`
  adds `WinnersOK` (the winner of the running window and a pending crown both
  have a winning arm on disk, and a winner whose copy verified is in the public
  bucket) and `RunOK` (what the position in the code implies about the locals:
  while a window is scored it is unsettled, and the admitted hotkeys are
  unjudged).  Arms and the public bucket only grow, so `WinnersOK` survives every
  step.  The action properties follow by the same case split.
* Loop and ledger.  A coronation is new to the lineage because nobody who
  reigned, or is deferred, is judged afresh: `LineageOK` follows the winner of
  the run and the pending crown through that.  Each action then maps to one step
  of `CrownLedger` or to none: the save that crowns to `Coronate`, with the whole
  window's verdicts, the settling save after it to none, a settle without a
  winner to `Judge`, a reversion to `Revert`, a kept promise to `Coronate` with
  no verdicts.  A process that dies between the two saves would take a coronation
  back, and that is the one step `UncutSpec` excludes.
* Arm.  `Durable` follows the placeholders through memory and disk: the tasks of
  which one is among the rows are known to the guard while the process lives, and
  are in the exclusion record unless that record will be refused.  It is
  inductive because `_exclude` writes before the episode's row exists
  (`DeadTasksGrow`: a step adds no placeholder but of a task already failed), and
  because a crash can only cut a row whose exclusion is complete.  `Kept` says
  that what the arm has passed holds its earlier row and that a batch only buys
  what had none.  `LastLine` is the one fact about data: a finite set of line
  numbers has a greatest.
* Sums.  What rows of a slice, holds, journal rows, draws and shares come to are
  sums (`SumFunctionOnSet`), a recursion no prover unfolds.  `Sums` proves what is
  needed of it by least counterexample, which takes the well-foundedness of `<` and
  no induction operator: the recursion has a solution (`SumsUpTo`, `SumsExist`), any
  summand may be taken out first (`SumTake`), a sum splits over a part and the rest
  (`SumSplit`), takes one element more or another value of one (`SumAdd`,
  `SumChange`), is monotone in its summands (`SumMonotone`) and of differences a
  difference (`SumMinus`).  The folds over sequences (a replay, the coronations) are
  treated the same way, each where it is used.
* Arm, allowance.  `Money` says that what remains is the snapshot less what the
  rows read back and the rows bought since are known to have cost, the batch's
  aside; a batch is only opened on something.  Enlisting moves a task that cost
  nothing into the batch, and `Account` subtracts exactly what leaves it.
* Arm, futility.  `FutileCannotWin` is about a comparison made in an earlier
  attempt, perhaps several crashes ago, of rows that were then in hand.  `Lost(f)`
  says that with every row of `f` at its best the bar is not cleared.  It can only
  become truer as rows come in (`LostStays`), so it is kept by an arm that goes on
  (`HandLost`).  Over a crash it has to be in the file: each readable futile row
  has before it rows that were lost already (`FileLost`), because the file has,
  until its first damaged line, exactly what was in hand (`Ledger`).  All of it
  holds while the exclusions are those of the first abandonment (`Fixed`), which is
  where the property stops too.
* Gateway.  `NeverDoubleCounts` compares the live books with the journal, and
  between the two lie rows not yet applied and calls in flight.  `TailInv` says that
  those rows can only be credits of another process, rows this one refused, and
  damage; `HoldInv` that the counters `held` and `holding` are what the calls in
  flight hold; `ShortInv` that one call of a payer at a time holds less than its model
  may cost.  `BooksInv` then follows each payer's balance: what a replay of the
  journal up to the mark yields, and what is held, never exceeds the journal's own.
  A replay is a recursion over rows, of which the proofs need that it may stop and
  go on at any row.  `OverrunInv` adds that a balance stays within a call of zero, and
  at zero or above while a call is under-reserved; For `GatewayUnfundedIsReal`
  the counter is followed through every action: it moves in a refusal, whose guard
  under `HoldInv` says that no hold is out, and in `KeyRefused`, which gives the
  hold back, so that what the payer could spend in all stays as it was (`CountStep`).
* Ledger.  A credential is `Counted` when the file knows its generation, and when
  a spent shot's record does.  Every writer re-reads the file before it replaces
  it, so a mint or a consume starts from what counts everybody else's
  credentials, and keeps what is sealed and not yet published counted too.
* Submissions.  Watcher, command and daemon are then steps of `Mailbox` or leave
  it alone.  What the sweeps need is about the daemon: a registration that waits
  in a window or was ever judged was signalled (`JudgedOK`); a signal ends its
  session, so the prefix it names is complete and nobody uploads to it again
  (`SaidOK`); the daemon alone spends shots, so its copy of the ledger is never
  behind the file on those (`SpendersOK`); and whatever a sweep has listed was
  neither signalled when it began, nor judged, nor spent, and cannot become so
  while it deletes (`SweepOK`), because one thread runs windows and sweeps.
* Weights.  One thread is in a critical section at a time and only there holds a
  slate (`LockInv`), so nothing history holds can change under it.  Once a
  background write was refused the gate covers the rest of the chain's limit, and
  whoever passed the gate finds none left (`GateInv`); the slate itself is never
  expanded.
* Queue.  A stage that worked for somebody in this window is up (`RunOK`), so a
  tree that fails there fails by itself.  A sound tree can be counted against
  once in its life, for the one glitch that passed before the stage was asked
  again, and a later window that admits it forgets that count (`CountOK`).
* Verdict.  Means are rounded down, so a pair's delta is no more than the difference
  of what the two arms are worth (`QuotientMinus`, `DeltaOfMeans`), and a winner is
  worth the margin more (`WinnerIsWorthMore`).  The succession is a recursion over
  the contenders: its holders stand in commit order, each beat the one before it, and
  every winner it heard held the crown or was turned away by whoever held it
  (`SuccessionOK`).  `HandoversAddUp` sums the margins along the holders
  (`HoldersClimb`); a copy of the holder ties, and so is turned away, and a copy of
  whoever held the crown earlier is, where nothing is late, worth less than the
  holder (`WorthClimbs`).  Two arms that agree on the rows a pair is compared on have
  one verdict (`AlikeVerdicts`), bootstrap and all, and that is
  `UnansweredDecidesNothing`.  The gate counts the same draws (`AlikeGates`).
* Transfer.  A verdict rests on two downloads that agree, and a corrupting path
  never agrees with itself (`AgreementIsTheObject`).  A script that outlived its
  attempt can only make a file right; it can only send parts to uploads older
  than the running promotion's, which that promotion aborted before it created
  its own (`OrphanInv`).
* Serving.  Wherever aliases are kept (card, handle, thread) they are names of one
  tree (`AliasesOK`), which is what `_check_model` compares an answer with, so it
  does not matter who answers.  A launch has the lock, and the server on its card
  is its own unless a late script crossed it (`LaunchOK`).  As long as nothing was
  upset a card serves what it says it serves (`CalmOK`).
* Episode.  The accounts are a sum over a window's tasks and an episode's steps, of
  which a step changes one summand; a task joins `mistaken` only together with
  `excluded`, because a verdict is the answer's own, a death, or one of those no log
  shows (`VerdictIsAnswersOrDied`).  `StoreOK` says that the file is the table unless its last line is
  torn, and that what was bought is in it, once.  For the twins, `TwinsOK` says of
  each episode that its history is what the policy and the table decide: every
  prompt the policy was asked is in its domain, and every delegate is answered from
  the table.  Both only grow (`Grew`), so two histories of one task under one policy
  cannot differ at a first step, and arms that no clock or allowance cut end at the
  same one.
* Launch and pension.  A longer queue takes no fewer windows (`LongerTakesNoFewer`),
  which with the launch check bounds the wait of every place in it.  What a fold of
  the coronations, the latest first, leaves is `ListOK`: the former kings in the
  order of their last coronation, at most five, and whoever is not listed has five
  before it (`PensionersOK`).  So a place in the list is a rank (`RankIs`), and the
  shares, the king's and one slot's after another, each at one uid at most, come to no
  more than the whole (`NoMoreThanWhole`).  The theorem assumes what a metagraph
  gives: a hotkey is listed at one uid, and none goes by the name of the genesis
  policy or of a free uid.
* Schedule.  The file of a window in which an arm ran is never replaced: the daemon
  writes only where its own look found none, and nobody else replaces a file.  So
  whatever ran, in any process, ran on the file that is there now (`RanInv`).

`TypeOK`, `HistoryAppendOnly` and the invariants are proved and no run lists them:
the stronger properties of the runs would break with them.

### Only model-checked

* Liveness (`PendingResolved`, `EveryCallEnds`, `ChainConverges`,
  `FirstCredentialArrives`, `FundedIsJudged`, `SoundIsPublished`,
  `OpenWindowIsRun`): the prover has no rule for fairness and `ENABLED`.
* The facts stated as `ASSUME` about pure functions, but for `GateIsFair`,
  `RowsDiscriminate`, `QueueFitsImmunity` and `RankGoesByTheLastCoronation`, which the
  theorems of the table state for every size: the others enumerate hosts, configs and
  small catalogs, and sort by operators no prover instantiates.  Every `ASSUME` has a
  name, and no proof cites one of a fact.

## 6. Plan and limits

Every safety property the runs check is proved.  To be modelled next: the retest of
a king and the audit rows of a window.

Not modelled, and why:

* Key funding and the OpenRouter provider: sealed-box cryptography around one
  file and an HTTP client; what the loop does with a key that is funded, empty or
  failing is in `Queue` and `OwnerGateway`.
* Chain encoding and RPC: what readers see of it, including partial surveys,
  refused and unheard writes, is in `WeightKeeper`, `Submissions` and `Queue`.
* `archetypes.py` and the fit of the exchange rate: statistics over floats; the
  model's scores are integers and its bootstrap is the whole distribution.  The
  cluster bootstrap of grouped benchmarks and flagged benchmarks are left out for
  the same reason.
* Corpora, prompts, launch command lines, rendering of text: data.
* The copy without a serving host, empty files, the retries inside one transfer:
  `Transfer` models the path the daemon is deployed with.
* `koth/`, `serve/`, `gateway/`, `subnet/`, `tee/`, `eval/` outside `v3/`:
  receipts and signatures, remnants of earlier generations, and the serving
  product: stateless.
* `scripts/`: offline experiments whose results went into the constants above.
