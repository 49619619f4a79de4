---------------------------- MODULE OwnerGateway ----------------------------
(***************************************************************************)
(* The owner's meter (v3/gateway.py): concurrent worker calls of several   *)
(* arms reserve money under one lock, wait on one condition variable,      *)
(* settle against a journal another process appends credits to, and the    *)
(* whole gateway is rebuilt from that journal after a crash.               *)
(*                                                                         *)
(* One action is one critical section of _money.  Money is in whole units. *)
(* The provider answers with any price of Costs or fails.                  *)
(***************************************************************************)
EXTENDS Integers, Sequences, FiniteSetsExt

CONSTANTS Callers,     \* threads driving episodes through the gateway
          Payers,      \* hotkeys with an allowance, one arm each
          Models,      \* models of the pool
          PayerOf,     \* whose arm a caller's episodes belong to
          NONE,        \* Python's None
          JUNK,        \* a line of the journal that does not parse
          Costs,       \* what a call may cost
          MaxWindow,   \* windows a payer's key can be bound for
          Amounts,     \* dollars a cap or a credit may be
          Journals,    \* journals earlier processes may have left
          MaxCalls,    \* bound on the calls all episodes make
          MaxCredits,  \* bound on the credits the owner's tool appends
          MaxBalance,  \* bound on what rows before a damaged line add up to
          MaxEvents    \* bound on crashes, half-made writes and closed arms, together

MaxCost == Max(Costs)
Ops == {"credit", "debit", "replay", "cap"}
\* A movement.  A credit's model is NONE; window matters for a cap only.
Row == [payer : Payers, op : Ops, usd : Nat, model : Models \cup {NONE}, window : 0..MaxWindow]

ASSUME GatewayAssumption ==
  /\ PayerOf \in [Callers -> Payers]
  /\ NONE \notin Models \cup Nat
  /\ JUNK \notin Row
  /\ IsFiniteSet(Callers)
  /\ Costs \subseteq Nat /\ \E d \in Costs : d > 0 /\ \A e \in Costs : e <= d
  /\ Amounts \subseteq Nat
  /\ Journals \subseteq Seq(Row)
  /\ {MaxWindow, MaxCalls, MaxCredits, MaxBalance, MaxEvents} \subseteq Nat

VARIABLES
  journal,    \* the rows of allowances.jsonl
  torn,       \* TRUE when its last line has no newline
  consumed,   \* how many rows the book below accounts for
  book,       \* what replaying rows yields: balances, caps, ceilings
  held, holding, short,   \* per payer: dollars, calls and under-reserved calls in flight
  probing,    \* a price probe is in flight
  calls,      \* per caller, the call it is making
  receipts,   \* per payer, the dollars its arm's receipts cover
  closed,     \* per payer, whether its arm was closed
  opened,     \* rows already in the journal when this process opened its arms
  unfunded,   \* per payer, unfunded_calls of its arm's ledger
  excused,    \* payers already overdrawn in the first journal, whose fully reserved call cost more
              \* than it held, or whose cap the disk refused
  orphans,    \* places of rows that are in the file though their fsync failed
  up, calling, credits, events

money == <<book, held, holding, short, probing>>
file == <<journal, torn, consumed>>
ledgers == <<receipts, closed, opened, unfunded>>
ghosts == <<excused, orphans>>
bounds == <<up, calling, credits, events>>
vars == <<file, money, calls, ledgers, ghosts, bounds>>

Idle == [at |-> "idle", replay |-> FALSE, model |-> NONE, dollars |-> 0,
         held |-> 0, short |-> FALSE, owns |-> FALSE, expired |-> FALSE]

(***************************************************************************)
(* The journal and what replaying it yields.                               *)
(***************************************************************************)

Blank == [balance |-> [p \in Payers |-> 0], cap |-> [p \in Payers |-> 0],
          ceiling |-> [m \in Models |-> NONE], live |-> {}]

\* _learn: the dearest settled call; a live row displaces a replay's estimate.
Learn(b, m, dollars, replay) ==
  LET dearest == IF b.ceiling[m] = NONE \/ dollars > b.ceiling[m] THEN dollars ELSE b.ceiling[m]
  IN  IF replay THEN IF m \in b.live THEN b ELSE [b EXCEPT !.ceiling[m] = dearest]
      ELSE IF m \in b.live THEN [b EXCEPT !.ceiling[m] = dearest]
      ELSE [b EXCEPT !.ceiling[m] = dollars, !.live = @ \cup {m}]

\* One row of _replay: a cap sets the balance, everything else adds to it.
Apply(b, row) ==
  CASE row.op = "cap" -> [b EXCEPT !.balance[row.payer] = row.usd, !.cap[row.payer] = row.window]
    [] row.op = "credit" -> [b EXCEPT !.balance[row.payer] = @ + row.usd]
    [] OTHER -> Learn([b EXCEPT !.balance[row.payer] = @ - row.usd],
                      row.model, row.usd, row.op = "replay")

\* The rows from one on, applied to what a book already holds.
ReplayOnto(b, rows, from) ==
  LET upTo[n \in from - 1..Len(rows)] ==
        IF n < from THEN b ELSE Apply(upTo[n - 1], rows[n])
  IN  upTo[Len(rows)]

\* A torn last line is left for its writer; a damaged line before it is refused.
Whole == IF torn THEN SubSeq(journal, 1, Len(journal) - 1) ELSE journal
\* Every row from one on parses.
Readable(from) == \A i \in from..Len(Whole) : Whole[i] # JUNK

\* Appending behind a torn line completes it into one that does not parse.
Written(row) == IF torn THEN [journal EXCEPT ![Len(journal)] = JUNK] ELSE Append(journal, row)

\* _record: the row reaches the disk and the file's size becomes the mark.
Recorded(row) == journal' = Written(row) /\ torn' = FALSE /\ consumed' = Len(journal')

\* A row the disk refuses: before anything was written, part way through, or
\* at the fsync of a whole row.  The mark does not move past it.
Unrecorded(row, mark) ==
  /\ consumed' = mark
  /\ \/ UNCHANGED <<journal, torn, orphans, events>>
     \/ /\ events < MaxEvents
        /\ events' = events + 1
        /\ \/ /\ journal' = IF torn THEN journal ELSE Append(journal, JUNK)
              /\ torn' = TRUE
              /\ UNCHANGED orphans
           \/ /\ journal' = Written(row)
              /\ torn' = FALSE
              /\ orphans' = IF torn THEN orphans ELSE orphans \cup {Len(journal')}

(***************************************************************************)
(* Waiting for money.                                                      *)
(***************************************************************************)

\* _freed.notify_all.
WakeAll(cs) == [c \in Callers |-> IF cs[c].at = "waiting" THEN [cs[c] EXCEPT !.at = "asking"] ELSE cs[c]]

Free(c) == book.balance[PayerOf[c]]
Known(c) == book.ceiling[calls[c].model]
UnderReserved(c) == IF Known(c) = NONE THEN TRUE ELSE Free(c) < Known(c)

\* A slip: exhaustion is read off the balance, held or not.
BrokeUnlessFree(c) == Free(c) <= 0

\* Nothing free and nothing in flight that could come back.
Broke(c) == Free(c) <= 0 /\ holding[PayerOf[c]] <= 0

\* A slip: under-reserved calls do not wait for one another.
AwaitsBalanceOnly(c) == Free(c) <= 0

\* Only this gateway's own reservations keep the call from going ahead.
AwaitsMoney(c) ==
  \/ Free(c) <= 0
  \/ short[PayerOf[c]] > 0 /\ IF calls[c].replay THEN calls[c].dollars > Free(c) ELSE UnderReserved(c)

\* An unpriced call waits for another's probe.
AwaitsProbe(c) == ~calls[c].replay /\ Known(c) = NONE /\ probing

(***************************************************************************)
(* One call.                                                               *)
(***************************************************************************)

\* A delegate of the arm's episode: a live call, or a row bought before.
Ask(c) ==
  /\ up
  /\ calls[c].at = "idle"
  /\ calling < MaxCalls
  /\ \E m \in Models :
       \/ calls' = [calls EXCEPT ![c] = [Idle EXCEPT !.at = "asking", !.model = m]]
       \/ \E d \in Costs :
            calls' = [calls EXCEPT ![c] = [Idle EXCEPT !.at = "asking", !.model = m,
                                                       !.replay = TRUE, !.dollars = d]]
  /\ calling' = calling + 1
  /\ UNCHANGED <<file, money, ledgers, ghosts, up, credits, events>>

\* The three refusals of the predicate loop.
RefuseClosed(c) ==
  /\ calls[c].at = "asking"
  /\ closed[PayerOf[c]]
  /\ calls' = [calls EXCEPT ![c] = Idle]
  /\ UNCHANGED <<file, money, ledgers, ghosts, bounds>>

\* ledger.unfunded_calls += 1, which the reveal publishes.
CountUnfunded(c) == unfunded' = [unfunded EXCEPT ![PayerOf[c]] = @ + 1]

RefuseUnfunded(c) ==
  /\ calls[c].at = "asking"
  /\ ~closed[PayerOf[c]]
  /\ Broke(c)
  /\ calls' = [calls EXCEPT ![c] = Idle]
  /\ CountUnfunded(c)
  /\ UNCHANGED <<file, money, receipts, closed, opened, ghosts, bounds>>

RefuseCongested(c) ==
  /\ calls[c].at = "asking"
  /\ ~closed[PayerOf[c]]
  /\ ~Broke(c)
  /\ AwaitsMoney(c)
  /\ calls[c].expired
  /\ calls' = [calls EXCEPT ![c] = Idle]
  /\ UNCHANGED <<file, money, ledgers, ghosts, bounds>>

\* Park on the condition variable, within the deadline.
Wait(c) ==
  /\ calls[c].at = "asking"
  /\ ~closed[PayerOf[c]]
  /\ ~Broke(c)
  /\ AwaitsMoney(c) \/ AwaitsProbe(c)
  /\ ~calls[c].expired
  /\ calls' = [calls EXCEPT ![c].at = "waiting"]
  /\ UNCHANGED <<file, money, ledgers, ghosts, bounds>>

\* The deadline passes; the parked caller looks once more.  (It may also pass
\* before a caller got the lock: the same as parking first.)
Expire(c) ==
  /\ calls[c].at = "waiting"
  /\ calls' = [calls EXCEPT ![c].at = "asking", ![c].expired = TRUE]
  /\ UNCHANGED <<file, money, ledgers, ghosts, bounds>>

\* The call may go ahead.  One that waited out another's probe proceeds.
GoesAhead(c) ==
  /\ calls[c].at = "asking"
  /\ ~closed[PayerOf[c]]
  /\ ~Broke(c)
  /\ ~AwaitsMoney(c)
  /\ AwaitsProbe(c) => calls[c].expired

\* Only the call that sets the probe flag clears it.
OwnsProbe(c) == Known(c) = NONE /\ ~probing

\* Reserve the model's ceiling, capped by what is free, and call the provider.
Reserve(c) ==
  /\ GoesAhead(c)
  /\ ~calls[c].replay
  /\ LET p == PayerOf[c]
         hold == IF UnderReserved(c) THEN Free(c) ELSE Known(c)
     IN  /\ calls' = [calls EXCEPT ![c].at = "provider", ![c].held = hold,
                                   ![c].short = UnderReserved(c), ![c].owns = OwnsProbe(c)]
         /\ book' = [book EXCEPT !.balance[p] = @ - hold]
         /\ held' = [held EXCEPT ![p] = @ + hold]
         /\ holding' = IF hold > 0 THEN [holding EXCEPT ![p] = @ + 1] ELSE holding
         /\ short' = IF UnderReserved(c) THEN [short EXCEPT ![p] = @ + 1] ELSE short
         /\ probing' = (probing \/ OwnsProbe(c))
  /\ UNCHANGED <<file, ledgers, ghosts, bounds>>

\* A slip: the call keeps its place among the under-reserved ones.
UnholdShortKept(c) ==
  LET p == PayerOf[c]
  IN  /\ held' = [held EXCEPT ![p] = @ - calls[c].held]
      /\ holding' = IF calls[c].held > 0 THEN [holding EXCEPT ![p] = @ - 1] ELSE holding
      /\ probing' = (probing /\ ~calls[c].owns)
      /\ UNCHANGED short

\* _unhold without the balance: the hold and the call's places are returned.
Unhold(c) ==
  LET p == PayerOf[c]
  IN  /\ held' = [held EXCEPT ![p] = @ - calls[c].held]
      /\ holding' = IF calls[c].held > 0 THEN [holding EXCEPT ![p] = @ - 1] ELSE holding
      /\ short' = IF calls[c].short THEN [short EXCEPT ![p] = @ - 1] ELSE short
      /\ probing' = (probing /\ ~calls[c].owns)

\* The book once the hold is back.
Returned(c) == [book EXCEPT !.balance[PayerOf[c]] = @ + calls[c].held]

\* The provider answered with a price: return the hold, debit, learn.  A debit
\* the disk refuses is undone and the call refused.
Settle(c, dollars) ==
  /\ calls[c].at = "provider"
  /\ Unhold(c)
  /\ LET p == PayerOf[c]
         row == [payer |-> p, op |-> "debit", usd |-> dollars, model |-> calls[c].model, window |-> 0]
     IN  \/ /\ Recorded(row)
            /\ book' = Apply(Returned(c), row)
            /\ calls' = WakeAll([calls EXCEPT ![c].at = "minting", ![c].dollars = dollars])
            /\ UNCHANGED <<orphans, events>>
         \/ /\ Unrecorded(row, consumed)
            /\ book' = Returned(c)
            /\ calls' = WakeAll([calls EXCEPT ![c] = Idle])
  /\ excused' = IF ~calls[c].short /\ dollars > calls[c].held
                  THEN excused \cup {PayerOf[c]} ELSE excused
  /\ UNCHANGED <<ledgers, up, calling, credits>>

\* The call was never priced, so the hold comes back.
Unpriced(c) ==
  /\ calls[c].at = "provider"
  /\ Unhold(c)
  /\ book' = Returned(c)
  /\ calls' = WakeAll([calls EXCEPT ![c] = Idle])
  /\ UNCHANGED <<file, receipts, closed, opened, ghosts, bounds>>

\* A transport failure, the model's refusal or an unreadable price.
ProviderFails(c) == Unpriced(c) /\ UNCHANGED unfunded

\* HTTP 401 or 402: the provider refuses the payer's key, whatever is left of
\* its allowance.  It counts beside the refusals of an empty one.
KeyRefused(c) == Unpriced(c) /\ CountUnfunded(c)

\* replay: the price is known, so the debit is made at once.
Replay(c) ==
  /\ GoesAhead(c)
  /\ calls[c].replay
  /\ LET row == [payer |-> PayerOf[c], op |-> "replay", usd |-> calls[c].dollars,
                 model |-> calls[c].model, window |-> 0]
     IN  \/ /\ Recorded(row)
            /\ book' = Apply(book, row)
            /\ calls' = [calls EXCEPT ![c].at = "minting"]
            /\ UNCHANGED <<orphans, events>>
         \/ /\ Unrecorded(row, consumed)
            /\ calls' = WakeAll([calls EXCEPT ![c] = Idle])
            /\ UNCHANGED book
  /\ UNCHANGED <<held, holding, short, probing, ledgers, excused, up, calling, credits>>

\* A slip: a replay is charged without a receipt.
MintLiveOnly(c) ==
  /\ calls[c].at = "minting"
  /\ receipts' = IF calls[c].replay THEN receipts
                 ELSE [receipts EXCEPT ![PayerOf[c]] = @ + calls[c].dollars]
  /\ calls' = [calls EXCEPT ![c] = Idle]
  /\ UNCHANGED <<file, money, closed, opened, unfunded, ghosts, bounds>>

\* The receipt joins the arm's ledger, in a critical section of its own.
Mint(c) ==
  /\ calls[c].at = "minting"
  /\ receipts' = [receipts EXCEPT ![PayerOf[c]] = @ + calls[c].dollars]
  /\ calls' = [calls EXCEPT ![c] = Idle]
  /\ UNCHANGED <<file, money, closed, opened, unfunded, ghosts, bounds>>

(***************************************************************************)
(* The main thread, the owner's tool, crashes.                             *)
(***************************************************************************)

\* A slip: rows are read again from the top of the file.
ReplayAll == ReplayOnto(book, Whole, 1)

\* What a replay of the rows not yet accounted for makes of the book.
Replayed == ReplayOnto(book, Whole, consumed + 1)

\* refresh: rows other processes appended.
Refresh ==
  /\ up
  /\ Readable(consumed + 1)
  /\ book' = Replayed
  /\ consumed' = Len(Whole)
  /\ calls' = WakeAll(calls)
  /\ UNCHANGED <<journal, torn, held, holding, short, probing, ledgers, ghosts, bounds>>

\* refresh or bind finds a damaged line and raises; the rows before it were
\* applied and stay unaccounted for.
RefreshRaises ==
  /\ up
  /\ ~Readable(consumed + 1)
  /\ \A p \in Payers : book.balance[p] \in 0 - MaxBalance..MaxBalance
  /\ LET damaged == Min({i \in consumed + 1..Len(Whole) : Whole[i] = JUNK})
     IN  book' = ReplayOnto(book, SubSeq(Whole, 1, damaged - 1), consumed + 1)
  /\ UNCHANGED <<file, held, holding, short, probing, calls, ledgers, ghosts, bounds>>

\* A window's first binding sets the balance; later ones leave the money alone.
NewCap(p, w) == Replayed.cap[p] # w

\* bind, by the main thread between the arms.
Bind(p, w, usd) ==
  /\ up
  /\ Readable(consumed + 1)
  /\ \A c \in Callers : calls[c].at = "idle"
  /\ w \in {Replayed.cap[p], Replayed.cap[p] + 1} \ {0}
  /\ calls' = WakeAll(calls)
  /\ LET row == [payer |-> p, op |-> "cap", usd |-> usd, model |-> NONE, window |-> w]
     IN  IF NewCap(p, w)
         THEN /\ book' = Apply(Replayed, row)
              /\ \/ Recorded(row) /\ UNCHANGED <<ghosts, events>>
                 \/ Unrecorded(row, Len(Whole)) /\ excused' = excused \cup {p}
         ELSE /\ book' = Replayed
              /\ consumed' = Len(Whole)
              /\ UNCHANGED <<journal, torn, ghosts, events>>
  /\ UNCHANGED <<held, holding, short, probing, ledgers, up, calling, credits>>

\* fund by the owner's tool: a process of its own replays the file and appends.
Credit(p, usd) ==
  /\ credits < MaxCredits
  /\ credits' = credits + 1
  /\ Readable(1)
  /\ journal' = Written([payer |-> p, op |-> "credit", usd |-> usd, model |-> NONE, window |-> 0])
  /\ torn' = FALSE
  /\ UNCHANGED <<consumed, money, calls, ledgers, ghosts, up, calling, events>>

\* close: the arm's calls in flight still settle, its waiters wake to a refusal.
Close(p) ==
  /\ up
  /\ ~closed[p]
  /\ events < MaxEvents
  /\ events' = events + 1
  /\ closed' = [closed EXCEPT ![p] = TRUE]
  /\ calls' = WakeAll(calls)
  /\ UNCHANGED <<file, money, receipts, opened, unfunded, ghosts, up, calling, credits>>

Fresh(p0) == [p \in Payers |-> p0]

\* The process dies, perhaps in the middle of appending a debit.
Crash ==
  /\ up
  /\ events < MaxEvents
  /\ events' = events + 1
  /\ \/ UNCHANGED <<journal, torn>>
     \/ /\ \E c \in Callers : calls[c].at = "provider" \/ (GoesAhead(c) /\ calls[c].replay)
        /\ journal' = IF torn THEN journal ELSE Append(journal, JUNK)
        /\ torn' = TRUE
  /\ consumed' = 0
  /\ book' = Blank
  /\ held' = Fresh(0) /\ holding' = Fresh(0) /\ short' = Fresh(0) /\ probing' = FALSE
  /\ calls' = [c \in Callers |-> Idle]
  /\ receipts' = Fresh(0) /\ closed' = Fresh(FALSE) /\ opened' = 0 /\ unfunded' = Fresh(0)
  /\ up' = FALSE
  /\ UNCHANGED <<ghosts, calling, credits>>

\* A new gateway replays the whole journal, or refuses it.
Restart ==
  /\ ~up
  /\ Readable(1)
  /\ book' = ReplayOnto(Blank, Whole, 1)
  /\ consumed' = Len(Whole)
  /\ opened' = Len(Whole)
  /\ up' = TRUE
  /\ UNCHANGED <<journal, torn, held, holding, short, probing, calls, receipts, closed,
                 unfunded, ghosts, calling, credits, events>>

\* A gateway is constructed on whatever journal is there.
Init ==
  /\ journal \in Journals /\ torn = FALSE
  /\ book = ReplayOnto(Blank, journal, 1)
  /\ consumed = Len(journal) /\ opened = Len(journal)
  /\ held = Fresh(0) /\ holding = Fresh(0) /\ short = Fresh(0) /\ probing = FALSE
  /\ calls = [c \in Callers |-> Idle]
  /\ receipts = Fresh(0) /\ closed = Fresh(FALSE) /\ unfunded = Fresh(0)
  /\ excused = {p \in Payers : book.balance[p] <= 0 - MaxCost} /\ orphans = {}
  /\ up = TRUE /\ calling = 0 /\ credits = 0 /\ events = 0

\* What a thread does once it asked; no deadline is needed for it to get there.
Proceed(c) ==
  \/ RefuseClosed(c) \/ RefuseUnfunded(c) \/ RefuseCongested(c) \/ Wait(c)
  \/ Reserve(c) \/ Replay(c) \/ Mint(c)
  \/ ProviderFails(c) \/ KeyRefused(c) \/ \E dollars \in Costs : Settle(c, dollars)

Next ==
  \/ \E c \in Callers : Ask(c) \/ Expire(c) \/ Proceed(c)
  \/ Refresh \/ RefreshRaises
  \/ \E p \in Payers : Close(p)
  \/ \E p \in Payers, w \in 1..MaxWindow, usd \in Amounts : Bind(p, w, usd)
  \/ \E p \in Payers, usd \in Amounts : Credit(p, usd)
  \/ Crash \/ Restart

Spec == Init /\ [][Next]_vars

\* Threads run and the provider answers or times out.  Nobody is owed a deadline.
FairSpec == Spec /\ \A c \in Callers : WF_vars(Proceed(c))

(***************************************************************************)
(* Properties.                                                             *)
(***************************************************************************)

InFlight(p) == {c \in Callers : PayerOf[c] = p /\ calls[c].at = "provider"}
DollarsHeld(p) == SumFunctionOnSet([c \in Callers |-> calls[c].held], InFlight(p))

\* What the readable journal says the books should be.
Journaled == ReplayOnto(Blank, Whole, 1)

\* The rows of a payer this process left in the file though it refused them.
Orphans(p, ops) == {i \in orphans : journal[i] # JUNK /\ journal[i].payer = p /\ journal[i].op \in ops}
Charges == {"debit", "replay"}

\* An arm overruns its allowance by at most one call, however many of its calls
\* and replays run at once, unless a call cost more than its model
\* ever had, the cap itself never reached the journal, or it was overdrawn before.
OverrunIsOneCall ==
  \A p \in Payers : p \notin excused /\ Orphans(p, Ops) = {} => book.balance[p] > 0 - MaxCost

\* The live books never show a payer more money than the journal does: no
\* credit is applied twice and no debit lost, through refreshes and restarts.
NeverDoubleCounts ==
  up /\ Readable(1) =>
    LET replayed == Journaled
    IN  \A p \in Payers : book.cap[p] = replayed.cap[p] /\ Orphans(p, Ops) = {} =>
          book.balance[p] + held[p] <= replayed.balance[p]

\* The receipts of an arm are the debits it made, replays included, so the
\* audit's equality of metered and charged dollars holds once no call is open.
AuditReconciles ==
  up /\ Readable(1) =>
    \A p \in Payers :
      LET debits == {i \in opened + 1..Len(Whole) : Whole[i].payer = p /\ Whole[i].op \in Charges} \ orphans
          minting == {c \in Callers : PayerOf[c] = p /\ calls[c].at = "minting"}
      IN  SumFunctionOnSet([i \in debits |-> Whole[i].usd], debits) =
            receipts[p] + SumFunctionOnSet([c \in Callers |-> calls[c].dollars], minting)

\* What a payer would have if every hold in flight came back.
Funds(p) == book.balance[p] + DollarsHeld(p)

\* A call counts as unfunded only when not even every hold in flight coming back
\* would leave its payer a dollar, or when the provider answered one of the
\* payer's calls by refusing its key.  Congestion, a closed arm, a transport
\* failure and a full disk never count, a refusal counts once, and a call so
\* counted costs its payer nothing.
UnfundedIsReal ==
  [][\A p \in Payers : unfunded'[p] > unfunded[p] =>
       /\ unfunded'[p] = unfunded[p] + 1
       /\ Funds(p)' = Funds(p)
       /\ Funds(p) <= 0 \/ \E c \in InFlight(p) : KeyRefused(c)]_vars

\* Every call ends, whatever other calls hold, without counting on its deadline.
EveryCallEnds == \A c \in Callers : calls[c].at # "idle" ~> calls[c].at = "idle"

\* A refresh applies exactly the rows somebody else wrote: once every row is
\* accounted for, the live balance is the journal's.
CreditsCounted ==
  up /\ Readable(1) /\ consumed = Len(journal) =>
    LET replayed == Journaled
    IN  \A p \in Payers : book.cap[p] = replayed.cap[p] /\ Orphans(p, Ops) = {} =>
          book.balance[p] + held[p] >= replayed.balance[p]

\* A damaged journal is refused rather than partially applied.
DamageIsRefused ==
  [][RefreshRaises => UNCHANGED book]_vars
=============================================================================
