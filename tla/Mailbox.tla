------------------------------- MODULE Mailbox -------------------------------
(***************************************************************************)
(* The owner's one-shot ledger (access.Mailbox): one file, mailbox.json,   *)
(* that the owner's tools append credential generations to and the         *)
(* validator's daemon spends shots in.  Every process keeps a copy in      *)
(* memory and writes the WHOLE copy back, so a process that wrote from a   *)
(* stale copy would erase another one's record; _transaction re-reads the  *)
(* file under a lock first.  A transaction is one step here: the lock      *)
(* keeps other transactions out and the file is replaced by a rename, so a *)
(* crash leaves the ledger from before it or from after it.                *)
(*                                                                         *)
(* A registration id is a digest of (uid, hotkey, registration block); it  *)
(* is the pair of the hotkey and the number of its registration.           *)
(***************************************************************************)
EXTENDS Integers, None

CONSTANTS Hotkeys, MaxReg, Writers

ASSUME MailboxAssumption == MaxReg \in Nat /\ NONE \notin Hotkeys \X (1..MaxReg)

VARIABLES
  ledger,      \* mailbox.json: [issued, spent]
  mem,         \* writer -> the ledger as it last read or wrote it
  outbox,      \* writer -> the envelope it sealed and has not yet published
  published    \* the envelopes in the public bucket

mailboxVars == <<ledger, mem, outbox, published>>

Registrations == Hotkeys \X (1..MaxReg)
Owner(r) == r[1]

Envelopes == [registration : Registrations, series : {"tree", "key"}, generation : Nat \ {0}]
Issued == [registration : Registrations \cup {NONE}, tree : Nat, key : Nat]
Submission == [registration : Registrations, block : Nat, generations : Nat]
Ledgers == [issued : [Hotkeys -> Issued], spent : [Hotkeys -> Submission \cup {NONE}]]

EmptyLedger ==
  [issued |-> [h \in Hotkeys |-> [registration |-> NONE, tree |-> 0, key |-> 0]],
   spent  |-> [h \in Hotkeys |-> NONE]]

MailboxInit ==
  /\ ledger = EmptyLedger
  /\ mem = [w \in Writers |-> EmptyLedger]
  /\ outbox = [w \in Writers |-> NONE]
  /\ published = {}

Spent(view, h) == view.spent[h] # NONE
SpentRegistrations(view) == {view.spent[h].registration : h \in {x \in Hotkeys : Spent(view, x)}}

\* What a transaction of w works on: the file, read again under the lock.
RereadNothing(w) == mem[w]
Reread(w) == ledger

Persist(w, new) ==
  /\ ledger' = new
  /\ mem' = [mem EXCEPT ![w] = new]

\* The transaction re-read the file and then refused or found nothing to do.
OnlyReread(w) ==
  /\ mem' = [mem EXCEPT ![w] = Reread(w)]
  /\ UNCHANGED ledger

(***************************************************************************)
(* issue and issue_key: the next generation of one of the two series.  A   *)
(* credential for the tree is refused to a spent hotkey; one for the key   *)
(* alone is not.  The record is on disk before the envelope leaves.        *)
(***************************************************************************)
Mintable(view, h, series) == series = "key" \/ ~Spent(view, h)

Mint(w, r, series) ==
  LET view == Reread(w)
      h == Owner(r)
      next == view.issued[h][series] + 1
  IN /\ outbox[w] = NONE
     /\ Mintable(view, h, series)
     /\ Persist(w, [view EXCEPT !.issued[h] = [@ EXCEPT !.registration = r, ![series] = next]])
     /\ outbox' = [outbox EXCEPT ![w] = [registration |-> r, series |-> series,
                                          generation |-> next]]
     /\ UNCHANGED published

Refuse(w, r, series) ==
  /\ outbox[w] = NONE
  /\ ~Mintable(Reread(w), Owner(r), series)
  /\ OnlyReread(w)
  /\ UNCHANGED <<outbox, published>>

Publish(w) ==
  /\ outbox[w] # NONE
  /\ published' = published \cup {outbox[w]}
  /\ outbox' = [outbox EXCEPT ![w] = NONE]
  /\ UNCHANGED <<ledger, mem>>

\* The put raises, or the process dies with the record written: a rotation lost.
LoseEnvelope(w) ==
  /\ outbox[w] # NONE
  /\ outbox' = [outbox EXCEPT ![w] = NONE]
  /\ UNCHANGED <<ledger, mem, published>>

(***************************************************************************)
(* consume: spend the shot for the ready signal `said` that names r at     *)
(* block b.  The identical signal is accepted again, any other is not.     *)
(***************************************************************************)
SameSignal(record, r, b) == record.registration = r /\ record.block = b

Accepts(w, r, b) ==
  Spent(Reread(w), Owner(r)) => SameSignal(Reread(w).spent[Owner(r)], r, b)

Consume(w, r, b) ==
  LET view == Reread(w)
      h == Owner(r)
  IN /\ IF Spent(view, h)
        THEN OnlyReread(w)
        ELSE Persist(w, [view EXCEPT !.spent[h] =
                  [registration |-> r, block |-> b, generations |-> view.issued[h].tree]])
     /\ UNCHANGED <<outbox, published>>

\* consume raises: the signal names another registration, or is not the one already accepted.
RefuseSignal(w) == OnlyReread(w) /\ UNCHANGED <<outbox, published>>

\* A process starts, or starts again: _restore.
Reopen(w) ==
  /\ mem' = [mem EXCEPT ![w] = ledger]
  /\ outbox' = [outbox EXCEPT ![w] = NONE]
  /\ UNCHANGED <<ledger, published>>

\* A command of the owner's tool: it publishes what it sealed and ends, and its copy with it.
PublishAndExit(w) ==
  /\ outbox[w] # NONE
  /\ published' = published \cup {outbox[w]}
  /\ outbox' = [outbox EXCEPT ![w] = NONE]
  /\ mem' = [mem EXCEPT ![w] = EmptyLedger]
  /\ UNCHANGED ledger

MailboxNext ==
  \E w \in Writers :
    \/ \E r \in Registrations, s \in {"tree", "key"} : Mint(w, r, s) \/ Refuse(w, r, s)
    \/ \E r \in Registrations, b \in Nat : Consume(w, r, b)
    \/ RefuseSignal(w)
    \/ Publish(w) \/ PublishAndExit(w) \/ LoseEnvelope(w) \/ Reopen(w)

MailboxSpec == MailboxInit /\ [][MailboxNext]_mailboxVars

-----------------------------------------------------------------------------
MailboxTypeOK ==
  /\ ledger \in Ledgers
  /\ mem \in [Writers -> Ledgers]
  /\ outbox \in [Writers -> Envelopes \cup {NONE}]
  /\ published \subseteq Envelopes

\* Every credential a miner can hold is in the list the operator revokes from, and a spent shot's
\* record counts all of those that reach its tree (Mailbox._transaction, Mailbox.outstanding,
\* owner.issue: the ledger before the object).
RevocationList ==
  \A e \in published :
    LET h == Owner(e.registration) IN
      /\ e.generation <= ledger.issued[h][e.series]
      /\ e.series = "tree" /\ Spent(ledger, h) => e.generation <= ledger.spent[h].generations

=============================================================================
