---------------------------- MODULE WeightKeeper ----------------------------
(***************************************************************************)
(* The weight writes of v3/validator.py: the main thread's window write    *)
(* and idle refresh, the keeper thread that writes beside them, the state  *)
(* lock they share, the retry gate, the restart, and the chain that limits *)
(* the rate, hands uids to other hotkeys, and may include a write whose    *)
(* caller is told it failed (v3/chain.py).                                 *)
(*                                                                         *)
(* Blocks are relative: age, gate and kept count blocks since or until,    *)
(* and stop counting where no comparison can tell any more.  A chain call  *)
(* is one step: SerialisedChain runs each under one lock.                  *)
(***************************************************************************)
EXTENDS Emissions

CONSTANTS Hotkeys,
          Uids,          \* uid 0 burns
          KingZeroUid,   \* king_zero_uid: a uid, or NONE
          RateLimit,     \* weights_rate_limit
          Refresh,       \* WEIGHT_REFRESH_BLOCKS
          MaxBackoff,    \* WEIGHT_RETRY_MAX_BLOCKS
          MaxLag,        \* bound: blocks a tick takes from its read to its write
          MaxMoves,      \* bound on registrations and deregistrations
          MaxReigns,     \* bound on coronations
          MaxCrashes     \* bound on crashes

BurnUid == 0

\* check_launch: the gates under which the validator starts at all.
ASSUME LaunchAssumption ==
  /\ {RateLimit, Refresh, MaxBackoff, MaxMoves, MaxReigns, MaxLag, MaxCrashes} \subseteq Nat
  /\ BurnUid \in Uids
  /\ KingZeroUid \in Uids \cup {NONE}
  /\ Refresh > RateLimit

VARIABLES
  hotkeyOf,                     \* the metagraph: who holds each uid
  onChain, age,                 \* this validator's slate, and blocks since its last update
  coronations, crown,           \* what history.json holds of the lineage
  lock,                         \* the state lock: the thread in it, or NONE
  at, slate, lag,               \* per thread: where it is, the slate it computed, blocks since
  read,                         \* per thread: the metagraph that slate was computed on
  written, kept, gate, failures,\* _written_slate, _last_weight_block, _retry_at_block, ...
  refused,                      \* history: a background write was refused since the last update
  moves, crashes

chain == <<hotkeyOf, onChain, age>>
history == <<coronations, crown>>
threads == <<lock, at, slate, lag, read>>
memory == <<written, kept, gate, failures>>
weightsVars == <<chain, history, threads, memory, refused, moves, crashes>>

Threads == {"loop", "keeper"}
ASSUME NobodyHoldsTheLock == NONE \notin Threads

\* _slate: a king that no longer resolves is paid as the reversion he is about to be.
KingOn(metagraph) == IF Resolves(metagraph, crown) THEN crown ELSE KING0
SlateOn(metagraph) ==
  EmissionWeights(coronations, KingOn(metagraph), metagraph, BurnUid, KingZeroUid)
CurrentSlate == SlateOn(hotkeyOf)

\* _resolve_reign: the main thread also records the reversion.
ResolveReign == crown' = KingOn(hotkeyOf) /\ UNCHANGED coronations

AtMost(n, bound) == IF n < bound THEN n ELSE bound
AtLeast0(n) == IF n > 0 THEN n ELSE 0

(***************************************************************************)
(* A write.                                                                *)
(***************************************************************************)

\* Mutant: the chain is believed to hold what was last known to land.
DueByBelief(s) == gate = 0 /\ (written = NONE \/ s # written)

\* _weights_due, at the block of the metagraph just read.
Due(s) ==
  /\ gate = 0
  /\ \/ written = NONE
     \/ s # written
     \/ kept >= Refresh

\* BittensorChain.set_weights refuses at equality, and says how long to wait.
Limited == age <= RateLimit
\* WaitOneShort is the mutant that takes the limit for the first allowed block.
WaitOneShort == RateLimit - age
Wait == RateLimit - age + 1

Release(t) ==
  /\ lock' = NONE
  /\ at' = [at EXCEPT ![t] = "idle"]
  /\ slate' = [slate EXCEPT ![t] = NONE]
  /\ lag' = [lag EXCEPT ![t] = 0]
  /\ read' = [read EXCEPT ![t] = NONE]

Included(s) == onChain' = s /\ age' = 0 /\ refused' = FALSE

\* The write landed and the caller knows.  kept counts from the block of the read.
Landed(t) ==
  /\ ~ Limited
  /\ Included(slate[t])
  /\ written' = slate[t] /\ kept' = lag[t] /\ gate' = 0 /\ failures' = 0

\* Refused: the gate counts from the head, read again; if it cannot be read, from
\* the older block of the metagraph, and one early attempt may follow.
RateLimited(t) ==
  /\ Limited
  /\ \/ gate' = Wait /\ refused' = (refused \/ at[t] # "publishing")
     \/ gate' = AtLeast0(Wait - lag[t]) /\ refused' = (refused /\ at[t] # "publishing")
  /\ UNCHANGED <<onChain, age, written, kept, failures>>

\* Any other exception: the write did not land, or it did and nobody heard.  The
\* backoff replaces the gate: a window's write, which the gate does not hold back, can
\* shorten it, and one early attempt may follow.
Backoff == AtMost(2 ^ failures, MaxBackoff)
Raised(t) ==
  /\ failures' = AtMost(failures + 1, MaxBackoff)
  /\ gate' = AtLeast0(Backoff - lag[t])
  /\ \/ ~ Limited /\ Included(slate[t])
     \/ refused' = (refused /\ at[t] # "publishing") /\ UNCHANGED <<onChain, age>>
  /\ UNCHANGED <<written, kept>>

\* _write_weights: the last call of every critical section that has a slate to write.
WriteWeights(t) ==
  /\ at[t] \in {"writing", "publishing"}
  /\ Landed(t) \/ RateLimited(t) \/ Raised(t)
  /\ Release(t)
  /\ UNCHANGED <<hotkeyOf, history, moves, crashes>>

Skip(t) == Release(t) /\ UNCHANGED <<chain, memory, refused>>
Compute(t, s, pc) ==
  /\ at' = [at EXCEPT ![t] = pc]
  /\ slate' = [slate EXCEPT ![t] = s]
  /\ read' = [read EXCEPT ![t] = hotkeyOf]
  /\ UNCHANGED <<lock, lag, chain, memory, refused>>

(***************************************************************************)
(* The keeper: _keep_weights_once.                                         *)
(***************************************************************************)

\* Mutant: the slate is computed outside the state lock.
KeeperEntersUnlocked ==
  /\ at["keeper"] = "idle" /\ gate = 0
  /\ at' = [at EXCEPT !["keeper"] = "locked"]
  /\ UNCHANGED <<lock, slate, lag, read, chain, history, memory, refused, moves, crashes>>

\* The read before the lock only skips a tick the gate rules out.
KeeperEnters ==
  /\ at["keeper"] = "idle" /\ gate = 0 /\ lock = NONE
  /\ lock' = "keeper" /\ at' = [at EXCEPT !["keeper"] = "locked"]
  /\ UNCHANGED <<slate, lag, read, chain, history, memory, refused, moves, crashes>>

KeeperDecides ==
  /\ at["keeper"] = "locked"
  /\ IF Due(CurrentSlate) THEN Compute("keeper", CurrentSlate, "writing") ELSE Skip("keeper")
  /\ UNCHANGED <<history, moves, crashes>>

\* The metagraph read raises: _keep_weights_forever logs it and ticks again.
KeeperFails ==
  /\ at["keeper"] = "locked"
  /\ Skip("keeper")
  /\ UNCHANGED <<history, moves, crashes>>

(***************************************************************************)
(* The main thread: an idle refresh, or a window that is published.        *)
(***************************************************************************)

LoopEnters(pc) ==
  /\ at["loop"] = "idle" /\ lock = NONE
  /\ lock' = "loop" /\ at' = [at EXCEPT !["loop"] = pc]
  /\ UNCHANGED <<slate, lag, read, chain, history, memory, refused, moves, crashes>>

\* _refresh_weights: records the reversion on every idle poll, writes when due.
LoopRefreshes ==
  /\ at["loop"] = "refreshing"
  /\ ResolveReign
  /\ IF Due(CurrentSlate) THEN Compute("loop", CurrentSlate, "writing") ELSE Skip("loop")
  /\ UNCHANGED <<moves, crashes>>

\* _settle_and_write up to the metagraph read: a coronation is of a hotkey never
\* crowned before, which need not resolve any more.
LoopSettles(winner) ==
  /\ at["loop"] = "settling"
  /\ winner # NONE => ~ Contains(coronations, winner) /\ Len(coronations) < MaxReigns
  /\ crown' = IF winner = NONE THEN crown ELSE winner
  /\ coronations' = IF winner = NONE THEN coronations ELSE Append(coronations, winner)
  /\ at' = [at EXCEPT !["loop"] = "settled"]
  /\ UNCHANGED <<lock, slate, lag, read, chain, memory, refused, moves, crashes>>

\* The window's own write: not gated by _weights_due.
LoopComputes ==
  /\ at["loop"] = "settled"
  /\ ResolveReign
  /\ Compute("loop", CurrentSlate, "publishing")
  /\ UNCHANGED <<moves, crashes>>

\* The crown changed in a critical section of its own: a pending coronation whose copy
\* now verifies, or a reign ended because its arm was unfunded or too slow.
LoopCrowns(h) ==
  /\ at["loop"] = "idle" /\ lock = NONE
  /\ \/ h = KING0 /\ UNCHANGED coronations
     \/ /\ h \in Hotkeys /\ ~ Contains(coronations, h) /\ Len(coronations) < MaxReigns
        /\ coronations' = Append(coronations, h)
  /\ crown' = h
  /\ UNCHANGED <<chain, threads, memory, refused, moves, crashes>>

\* A metagraph read that raises under the lock takes the window's write with it.
LoopFails ==
  /\ at["loop"] \in {"refreshing", "settled"}
  /\ Skip("loop")
  /\ UNCHANGED <<history, moves, crashes>>

(***************************************************************************)
(* The chain and the process.                                              *)
(***************************************************************************)

\* A block.  A tick takes at most MaxLag of them.
Tick ==
  /\ \A t \in Threads : lag[t] < MaxLag
  /\ age' = AtMost(age + 1, RateLimit + 1)
  /\ kept' = IF written = NONE THEN 0 ELSE AtMost(kept + 1, Refresh)
  /\ gate' = AtLeast0(gate - 1)
  /\ lag' = [t \in Threads |-> IF slate[t] = NONE THEN lag[t] ELSE lag[t] + 1]
  /\ UNCHANGED <<hotkeyOf, onChain, history, lock, at, slate, read, written, failures, refused,
                 moves, crashes>>

Move == moves < MaxMoves /\ moves' = moves + 1

\* A uid is freed with its hotkey, or taken, by anybody.
Deregister(u) ==
  /\ Move /\ u # BurnUid /\ hotkeyOf[u] # NOBODY
  /\ hotkeyOf' = [hotkeyOf EXCEPT ![u] = NOBODY]
  /\ UNCHANGED <<onChain, age, history, threads, memory, refused, crashes>>

Register(u, h) ==
  /\ Move /\ hotkeyOf[u] = NOBODY /\ ~ Resolves(hotkeyOf, h)
  /\ hotkeyOf' = [hotkeyOf EXCEPT ![u] = h]
  /\ UNCHANGED <<onChain, age, history, threads, memory, refused, crashes>>

\* A new process: nothing of the memory survives.  _seed_weight_clock reads the
\* chain's own last update, or cannot.
Restart ==
  /\ crashes < MaxCrashes /\ crashes' = crashes + 1
  /\ lock' = NONE
  /\ at' = [t \in Threads |-> "idle"]
  /\ slate' = [t \in Threads |-> NONE]
  /\ lag' = [t \in Threads |-> 0]
  /\ read' = [t \in Threads |-> NONE]
  /\ written' = NONE /\ kept' = 0 /\ failures' = 0
  /\ gate' \in {0, IF Limited THEN Wait ELSE 0}
  /\ refused' = FALSE
  /\ UNCHANGED <<chain, history, moves>>

WeightsInit ==
  /\ hotkeyOf \in {m \in [Uids -> Hotkeys \cup {NOBODY}] :
       /\ m[BurnUid] = NOBODY
       /\ \A u, v \in Uids : m[u] = m[v] => u = v \/ m[u] = NOBODY}
  /\ coronations = <<>> /\ crown = KING0
  /\ onChain = NONE /\ age = RateLimit + 1
  /\ lock = NONE
  /\ at = [t \in Threads |-> "idle"]
  /\ slate = [t \in Threads |-> NONE]
  /\ lag = [t \in Threads |-> 0]
  /\ read = [t \in Threads |-> NONE]
  /\ written = NONE /\ kept = 0 /\ gate = 0 /\ failures = 0
  /\ refused = FALSE /\ moves = 0 /\ crashes = 0

Keeper == KeeperEnters \/ KeeperDecides \/ KeeperFails
Loop ==
  \/ \E pc \in {"refreshing", "settling"} : LoopEnters(pc)
  \/ LoopRefreshes
  \/ \E winner \in Hotkeys \cup {NONE} : LoopSettles(winner)
  \/ LoopComputes
  \/ LoopFails
  \/ \E h \in Hotkeys \cup {KING0} : LoopCrowns(h)
World == Tick \/ (\E u \in Uids : Deregister(u) \/ \E h \in Hotkeys : Register(u, h))

WeightsNext ==
  \/ Keeper \/ Loop \/ World \/ Restart
  \/ \E t \in Threads : WriteWeights(t)

WeightsSpec == WeightsInit /\ [][WeightsNext]_weightsVars

\* Blocks come; the keeper ticks; a thread in the lock finishes its calls; and a
\* chain asked again and again answers: a metagraph read that is repeated is
\* answered, a write that is repeated lands.  The main thread may never poll again.
LoopLeaves == (LoopRefreshes \/ (\E w \in Hotkeys \cup {NONE} : LoopSettles(w)) \/ LoopComputes)
WriteLands(t) == WriteWeights(t) /\ written' = slate[t] /\ failures' = 0 /\ age' = 0
Fairness ==
  /\ WF_weightsVars(Tick)
  /\ SF_weightsVars(KeeperEnters) /\ SF_weightsVars(KeeperDecides)
  /\ WF_weightsVars(LoopLeaves)
  /\ \A t \in Threads : WF_weightsVars(WriteWeights(t)) /\ SF_weightsVars(WriteLands(t))

WeightsFairSpec == WeightsSpec /\ Fairness

(***************************************************************************)
(* Properties.                                                             *)
(***************************************************************************)

\* What a thread is about to write is what the persisted history pays on the metagraph
\* it read, until it has written it: neither a half-settled window nor a slate older
\* than a coronation can land, whichever thread writes.
PaysHistory == \A t \in Threads : slate[t] # NONE => slate[t] = SlateOn(read[t])

\* A background write is refused by the rate limit at most once between two updates of
\* the chain: the gate set by the refusal, or by a restart, outlasts the limit.
OneRefusal ==
  [][\A t \in Threads : at[t] = "writing" /\ RateLimited(t) => ~ refused]_weightsVars

\* With the keeper alone, the chain comes to hold the slate the history pays, whatever
\* was refused, failed, landed unheard or was forgotten before.
ChainConverges == <>[](onChain = CurrentSlate)

=============================================================================
