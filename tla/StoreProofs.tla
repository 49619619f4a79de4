---------------------------- MODULE StoreProofs -----------------------------
(* Proofs about a submission in the bucket: who may write it and
   delete it (Submissions), and how its bytes move (Transfer). *)
EXTENDS Submissions, Transfer, WellFoundedInduction, TLAPS

(***************************************************************************)
(* Proofs about the one-shot ledger and about the processes around it.     *)
(* Mailbox: whatever was minted is remembered, because every writer        *)
(* re-reads the file before it replaces it.  Submissions: each step of the *)
(* watcher, the command, the miners and the daemon is a step of Mailbox or *)
(* leaves it alone, so the same holds of the whole; and no sweep deletes   *)
(* what somebody is still owed.                                            *)
(***************************************************************************)
(***************************************************************************)
(* The ledger.                                                             *)
(***************************************************************************)

\* The ledger knows the credential e, and a spent shot's record counts it.
Counted(e) ==
  LET h == Owner(e.registration) IN
    /\ e.generation <= ledger.issued[h][e.series]
    /\ e.series = "tree" /\ Spent(ledger, h) => e.generation <= ledger.spent[h].generations

MailboxInv ==
  /\ MailboxTypeOK
  /\ \A e \in published : Counted(e)
  /\ \A w \in Writers : outbox[w] # NONE => Counted(outbox[w])

\* A registration is of a hotkey.
LEMMA OwnerType == \A r \in Registrations : Owner(r) \in Hotkeys
  BY DEF Registrations, Owner

\* The empty ledger satisfies the invariant.
LEMMA MailboxStart == MailboxInit => MailboxInv
  BY DEF MailboxInit, MailboxInv, MailboxTypeOK, EmptyLedger, Ledgers, Issued

\* A credential that the ledger counts stays counted when another one is minted.
LEMMA MintKeeps ==
  ASSUME MailboxInv, NEW w \in Writers, NEW r \in Registrations, NEW s \in {"tree", "key"},
         Mint(w, r, s)
  PROVE  MailboxInv'
<1> DEFINE h == Owner(r)
           next == ledger.issued[h][s] + 1
           entry == [ledger.issued[h] EXCEPT !.registration = r, ![s] = next]
           new == [ledger EXCEPT !.issued[h] = entry]
           env == [registration |-> r, series |-> s, generation |-> next]
<1>1. h \in Hotkeys
  BY OwnerType
<1>2. ledger \in Ledgers /\ ledger.issued[h] \in Issued /\ next \in Nat \ {0}
  BY <1>1 DEF MailboxInv, MailboxTypeOK, Ledgers, Issued
<1>3. entry \in Issued
  BY <1>2 DEF Issued
<1>4. new \in Ledgers
  BY <1>1, <1>2, <1>3 DEF Ledgers
<1>5. env \in Envelopes
  BY <1>2 DEF Envelopes
<1>6. ledger' = new /\ mem' = [mem EXCEPT ![w] = new] /\ outbox' = [outbox EXCEPT ![w] = env]
      /\ published' = published
  BY DEF Mint, Persist, Reread
<1>7. MailboxTypeOK'
  BY <1>4, <1>5, <1>6 DEF MailboxInv, MailboxTypeOK
<1>8. ASSUME NEW e \in Envelopes, Counted(e)
      PROVE  Counted(e)'
  <2>1. Owner(e.registration) \in Hotkeys /\ e.series \in {"tree", "key"} /\ e.generation \in Nat
    BY OwnerType DEF Envelopes
  <2>2. ledger'.issued[Owner(e.registration)][e.series]
          >= ledger.issued[Owner(e.registration)][e.series]
    BY <1>1, <1>2, <1>6, <2>1 DEF Ledgers, Issued
  <2>3. ledger'.spent = ledger.spent
    BY <1>2, <1>6 DEF Ledgers
  <2>4. ledger.issued[Owner(e.registration)][e.series] \in Nat
        /\ ledger'.issued[Owner(e.registration)][e.series] \in Nat
    BY <1>2, <1>4, <1>6, <2>1 DEF Ledgers, Issued
  <2> QED
    BY <1>8, <2>1, <2>2, <2>3, <2>4 DEF Counted, Spent
<1>9. ASSUME NEW e \in Envelopes, e = env
      PROVE  Counted(e)'
  <2>1. e.registration = r /\ e.series = s /\ e.generation = next
    BY <1>9
  <2>2. ledger'.issued[h][s] = next
    BY <1>1, <1>2, <1>6 DEF Ledgers, Issued
  <2>3. s = "tree" => ~ Spent(ledger, h)
    BY DEF Mint, Mintable, Reread
  <2>4. ledger'.spent = ledger.spent
    BY <1>2, <1>6 DEF Ledgers
  <2> QED
    BY <1>2, <2>1, <2>2, <2>3, <2>4 DEF Counted, Spent
<1>10. \A e \in published' : Counted(e)'
  BY <1>6, <1>8 DEF MailboxInv, MailboxTypeOK
<1>11. ASSUME NEW v \in Writers, outbox'[v] # NONE
       PROVE  Counted(outbox[v])'
  <2>1. CASE v = w
    BY <1>5, <1>6, <1>9, <2>1 DEF MailboxInv, MailboxTypeOK
  <2>2. CASE v # w
    BY <1>6, <1>8, <1>11, <2>2 DEF MailboxInv, MailboxTypeOK
  <2> QED
    BY <2>1, <2>2
<1> QED
  BY <1>7, <1>10, <1>11 DEF MailboxInv

\* The entry of a shot counts every tree generation minted so far.
LEMMA ConsumeKeeps ==
  ASSUME MailboxInv, NEW w \in Writers, NEW r \in Registrations, NEW b \in Nat, Consume(w, r, b)
  PROVE  MailboxInv'
<1> DEFINE h == Owner(r)
           spent == [registration |-> r, block |-> b, generations |-> ledger.issued[h].tree]
           new == [ledger EXCEPT !.spent[h] = spent]
<1>1. h \in Hotkeys
  BY OwnerType
<1>2. ledger \in Ledgers /\ outbox' = outbox /\ published' = published
  BY DEF MailboxInv, MailboxTypeOK, Consume
<1>3. CASE Spent(ledger, h)
  <2>1. ledger' = ledger /\ mem' = [mem EXCEPT ![w] = ledger]
    BY <1>3 DEF Consume, OnlyReread, Reread
  <2> QED
    BY <1>2, <2>1 DEF MailboxInv, MailboxTypeOK, Counted
<1>4. CASE ~ Spent(ledger, h)
  <2>1. ledger' = new /\ mem' = [mem EXCEPT ![w] = new]
    BY <1>4 DEF Consume, Persist, Reread
  <2>2. spent \in Submission
    BY <1>1, <1>2 DEF Submission, Ledgers, Issued
  <2>3. new \in Ledgers
    BY <1>1, <1>2, <2>2 DEF Ledgers
  <2>4. MailboxTypeOK'
    BY <1>2, <2>1, <2>3 DEF MailboxInv, MailboxTypeOK
  <2>5. ASSUME NEW e \in Envelopes, Counted(e)
        PROVE  Counted(e)'
    <3>1. Owner(e.registration) \in Hotkeys
      BY OwnerType DEF Envelopes
    <3>2. ledger'.issued = ledger.issued
      BY <1>2, <2>1 DEF Ledgers
    <3>3. CASE Owner(e.registration) = h
      <4>1. ledger'.spent[h].generations = ledger.issued[h].tree
        BY <1>1, <1>2, <2>1 DEF Ledgers
      <4> QED
        BY <2>5, <3>2, <3>3, <4>1 DEF Counted
    <3>4. CASE Owner(e.registration) # h
      <4>1. ledger'.spent[Owner(e.registration)] = ledger.spent[Owner(e.registration)]
        BY <1>1, <1>2, <2>1, <3>1, <3>4 DEF Ledgers
      <4> QED
        BY <2>5, <3>2, <4>1 DEF Counted, Spent
    <3> QED
      BY <3>3, <3>4
  <2> QED
    BY <1>2, <2>4, <2>5 DEF MailboxInv, MailboxTypeOK
<1> QED
  BY <1>3, <1>4

\* Every other operation moves an envelope or refreshes a copy.
LEMMA MailboxStep == MailboxInv /\ [MailboxNext]_mailboxVars => MailboxInv'
<1> SUFFICES ASSUME MailboxInv, [MailboxNext]_mailboxVars
             PROVE  MailboxInv'
  OBVIOUS
<1>1. ASSUME NEW w \in Writers, NEW r \in Registrations, NEW s \in {"tree", "key"}, Mint(w, r, s)
      PROVE  MailboxInv'
  BY <1>1, MintKeeps
<1>2. ASSUME NEW w \in Writers, NEW r \in Registrations, NEW b \in Nat, Consume(w, r, b)
      PROVE  MailboxInv'
  BY <1>2, ConsumeKeeps
<1>3. ASSUME NEW w \in Writers,
             RefuseSignal(w) \/ (\E r \in Registrations, s \in {"tree", "key"} : Refuse(w, r, s))
      PROVE  MailboxInv'
  <2>1. ledger' = ledger /\ mem' = [mem EXCEPT ![w] = ledger] /\ outbox' = outbox
        /\ published' = published
    BY <1>3 DEF Refuse, RefuseSignal, OnlyReread, Reread
  <2> QED
    BY <2>1 DEF MailboxInv, MailboxTypeOK, Counted
<1>4. ASSUME NEW w \in Writers, Publish(w) \/ PublishAndExit(w) \/ LoseEnvelope(w) \/ Reopen(w)
      PROVE  MailboxInv'
  <2>1. EmptyLedger \in Ledgers
    BY DEF EmptyLedger, Ledgers, Issued
  <2>2. ledger' = ledger
    BY <1>4 DEF Publish, PublishAndExit, LoseEnvelope, Reopen
  <2>3. mem' \in [Writers -> Ledgers]
    BY <1>4, <2>1 DEF MailboxInv, MailboxTypeOK, Publish, PublishAndExit, LoseEnvelope, Reopen
  <2>4. outbox' = [outbox EXCEPT ![w] = NONE]
    BY <1>4 DEF Publish, PublishAndExit, LoseEnvelope, Reopen
  <2>5. published' = published \/ (outbox[w] # NONE /\ published' = published \cup {outbox[w]})
    BY <1>4 DEF Publish, PublishAndExit, LoseEnvelope, Reopen
  <2>6. MailboxTypeOK'
    BY <2>2, <2>3, <2>4, <2>5 DEF MailboxInv, MailboxTypeOK
  <2> QED
    BY <2>2, <2>4, <2>5, <2>6 DEF MailboxInv, MailboxTypeOK, Counted
<1>5. CASE UNCHANGED mailboxVars
  BY <1>5 DEF mailboxVars, MailboxInv, MailboxTypeOK, Counted
<1> QED
  BY <1>1, <1>2, <1>3, <1>4, <1>5 DEF MailboxNext

\* Whoever writes the ledger and in whatever order, every credential that was ever published is in
\* the list the operator revokes from (Mailbox._transaction).
THEOREM MailboxRemembers == MailboxSpec => [](MailboxTypeOK /\ RevocationList)
<1>1. MailboxInv => MailboxTypeOK /\ RevocationList
  BY DEF MailboxInv, RevocationList, Counted
<1> QED
  BY <1>1, MailboxStart, MailboxStep, PTL DEF MailboxSpec

(***************************************************************************)
(* The processes around it.                                                *)
(***************************************************************************)
Queueing ==
  [pc : {"queue"}, queue : SUBSET Registrations, todo : SUBSET (Hotkeys \X Registrations \X Nat)]
Sweeping ==
  [pc : {"sweep"}, named : SUBSET Registrations, truth : SUBSET Registrations,
   doomed : (SUBSET Registrations) \cup {NONE}]

ProcessTypeOK ==
  /\ born \in [Hotkeys -> 0..MaxReg] /\ live \subseteq Hotkeys
  /\ \A h \in live : born[h] # 0
  /\ said \in [Hotkeys -> Registrations \cup {NONE}]
  /\ session \in [Hotkeys -> Registrations \cup {NONE}]
  /\ held \in [Registrations -> SUBSET {"weights", "manifest"}]
  /\ daemon \in {Idle} \cup Queueing \cup Sweeping
  /\ record \in [judged : [Hotkeys -> Registrations \cup {NONE}], crowned : SUBSET Hotkeys,
                 pending : Hotkeys \cup {NONE}, purged : SUBSET Registrations]

\* A signal is of the hotkey's own registration; it ends the session, so what is under the prefix
\* then was complete and nobody uploads to it again.
SaidOK ==
  \A h \in Hotkeys :
    /\ session[h] # NONE => Owner(session[h]) = h
    /\ said[h] # NONE =>
         /\ Owner(said[h]) = h /\ session[h] = NONE
         /\ held[said[h]] = {} \/ "manifest" \in held[said[h]]

\* What waits in a window, and what any window judged, was signalled.
JudgedOK ==
  /\ daemon.pc = "queue" =>
       /\ \A entry \in daemon.todo : entry[2] = said[entry[1]]
       /\ \A r \in daemon.queue : said[Owner(r)] = r
  /\ \A h \in Hotkeys : Judged(h) => record.judged[h] = said[h]

\* Nobody but the daemon spends a shot, so its copy knows them all.
SpendersOK == mem[DAEMON].spent = ledger.spent

\* What a sweep is about to delete was neither on chain when it began, nor judged, nor spent.
SweepOK ==
  daemon.pc = "sweep" =>
    /\ daemon.truth = daemon.named
    /\ daemon.doomed # NONE =>
         \A r \in daemon.doomed :
           /\ r \notin daemon.truth
           /\ \A h \in Hotkeys : Judged(h) => record.judged[h] # r
           /\ r \notin SpentRegistrations(ledger)

SubInv == MailboxInv /\ ProcessTypeOK /\ SaidOK /\ JudgedOK /\ SpendersOK /\ SweepOK

\* The first state satisfies the invariant.
LEMMA SubStart == SubmissionsInit => SubInv
<1> SUFFICES ASSUME SubmissionsInit PROVE SubInv
  OBVIOUS
<1>1. MailboxInv
  BY MailboxStart DEF SubmissionsInit
<1>2. ProcessTypeOK /\ SaidOK /\ JudgedOK /\ SweepOK
  BY MailboxAssumption DEF SubmissionsInit, ProcessTypeOK, SaidOK, JudgedOK, SweepOK, Idle, Judged
<1>3. SpendersOK
  BY ProcessesAssumption DEF SubmissionsInit, MailboxInit, SpendersOK
<1> QED
  BY <1>1, <1>2, <1>3 DEF SubInv

\* The tools write the ledger and publish; they spend nothing and leave the daemon's copy alone.
ToolStep ==
  /\ [MailboxNext]_mailboxVars
  /\ ledger'.spent = ledger.spent
  /\ mem'[DAEMON] = mem[DAEMON]

\* A live hotkey has a registration.
LEMMA RegType == ASSUME SubInv, NEW h \in live PROVE Reg(h) \in Registrations /\ h \in Hotkeys
  BY MailboxAssumption DEF SubInv, ProcessTypeOK, Reg, Registrations

\* Minting or refusing is a step of the ledger, whoever of the owner's tools does it.
LEMMA MintIsTool ==
  ASSUME SubInv, NEW w \in Writers \ {DAEMON}, NEW r \in Registrations, NEW s \in {"tree", "key"},
         Mint(w, r, s) \/ Refuse(w, r, s)
  PROVE  ToolStep
<1>1. MailboxNext
  BY DEF MailboxNext
<1>2. ledger \in Ledgers
  BY DEF SubInv, MailboxInv, MailboxTypeOK
<1>3. ledger'.spent = ledger.spent
  BY <1>2 DEF Mint, Refuse, Persist, OnlyReread, Reread, Ledgers
<1>4. mem'[DAEMON] = mem[DAEMON]
  BY ProcessesAssumption DEF Mint, Refuse, Persist, OnlyReread, SubInv, MailboxInv, MailboxTypeOK
<1> QED
  BY <1>1, <1>3, <1>4 DEF ToolStep

\* Publishing, losing an envelope or reopening is a step of the ledger.
LEMMA EnvelopeIsTool ==
  ASSUME SubInv, NEW w \in Writers \ {DAEMON},
         Publish(w) \/ PublishAndExit(w) \/ LoseEnvelope(w) \/ Reopen(w)
  PROVE  ToolStep
<1>1. MailboxNext
  BY DEF MailboxNext
<1>2. ledger' = ledger /\ mem'[DAEMON] = mem[DAEMON]
  BY ProcessesAssumption
     DEF Publish, PublishAndExit, LoseEnvelope, Reopen, SubInv, MailboxInv, MailboxTypeOK
<1> QED
  BY <1>1, <1>2 DEF ToolStep

\* The watcher and the command take steps of the tools and touch nothing of the daemon's.
Tooling ==
  \/ BeginPass \/ PublishTree \/ EndPass \/ PutRaises \/ WatcherRestarts \/ PublishKey
  \/ \E h \in Hotkeys : PassOver(h) \/ IssueTree(h) \/ RefuseTree(h) \/ IssueKey(h)

\* The watcher and the key command touch the ledger through its transactions only.
LEMMA ToolingSteps ==
  ASSUME SubInv, Tooling
  PROVE  ToolStep /\ UNCHANGED <<chain, held, session, daemon, record>>
<1> USE ProcessesAssumption
<1>1. CASE BeginPass \/ EndPass \/ \E h \in Hotkeys : PassOver(h)
  BY <1>1 DEF BeginPass, EndPass, PassOver, ToolStep, mailboxVars
<1>2. CASE PublishTree \/ PutRaises \/ WatcherRestarts
  BY <1>2, EnvelopeIsTool DEF PublishTree, PutRaises, WatcherRestarts
<1>3. CASE PublishKey
  BY <1>3, EnvelopeIsTool DEF PublishKey
<1>4. ASSUME NEW h \in Hotkeys, IssueTree(h)
      PROVE  ToolStep /\ UNCHANGED <<chain, held, session, daemon, record>>
  BY <1>4, RegType, MintIsTool DEF IssueTree
<1>5. ASSUME NEW h \in Hotkeys, RefuseTree(h)
      PROVE  ToolStep /\ UNCHANGED <<chain, held, session, daemon, record>>
  <2>1. CASE h \notin live /\ UNCHANGED mailboxVars
    BY <1>5, <2>1 DEF RefuseTree, ToolStep, mailboxVars
  <2>2. CASE h \in live /\ Refuse(WATCH, Reg(h), "tree")
    BY <1>5, <2>2, RegType, MintIsTool DEF RefuseTree
  <2> QED
    BY <1>5, <2>1, <2>2 DEF RefuseTree
<1>6. ASSUME NEW h \in Hotkeys, IssueKey(h)
      PROVE  ToolStep /\ UNCHANGED <<chain, held, session, daemon, record>>
  BY <1>6, RegType, MintIsTool DEF IssueKey
<1> QED
  BY <1>1, <1>2, <1>3, <1>4, <1>5, <1>6 DEF Tooling

\* The owner's tools keep the invariant.
LEMMA ToolingKeeps == ASSUME SubInv, Tooling PROVE SubInv'
<1>1. ToolStep /\ UNCHANGED <<chain, held, session, daemon, record>>
  BY ToolingSteps
<1>2. MailboxInv'
  BY <1>1, MailboxStep DEF SubInv, ToolStep
<1>3. ProcessTypeOK' /\ SaidOK' /\ JudgedOK'
  BY <1>1 DEF SubInv, ProcessTypeOK, SaidOK, JudgedOK, Judged, chain
<1>4. SpendersOK'
  BY <1>1 DEF SubInv, SpendersOK, ToolStep
<1>5. SweepOK'
  BY <1>1 DEF SubInv, SweepOK, Judged, SpentRegistrations, Spent, ToolStep
<1> QED
  BY <1>2, <1>3, <1>4, <1>5 DEF SubInv

(***************************************************************************)
(* The chain and the miners: only who is registered, what is said and what *)
(* is uploaded.                                                            *)
(***************************************************************************)
Outside ==
  \E h \in Hotkeys :
    \/ Register(h) \/ Deregister(h) \/ OpenSession(h) \/ CommitReady(h) \/ SessionEnds(h)
    \/ \E object \in {"weights", "manifest"} : Upload(h, object)

\* The chain and the miners keep the invariant.
LEMMA OutsideKeeps == ASSUME SubInv, Outside PROVE SubInv'
<1>1. UNCHANGED <<mailboxVars, daemon, record>>
  BY DEF Outside, Register, Deregister, OpenSession, CommitReady, SessionEnds, Upload
<1>2. MailboxInv' /\ SpendersOK' /\ SweepOK'
  <2>1. MailboxInv'
    BY <1>1, MailboxStep DEF SubInv
  <2> QED
    BY <1>1, <2>1 DEF SubInv, SpendersOK, SweepOK, Judged, SpentRegistrations, Spent, mailboxVars
<1>3. PICK h \in Hotkeys :
        \/ Register(h) \/ Deregister(h) \/ OpenSession(h) \/ CommitReady(h) \/ SessionEnds(h)
        \/ \E object \in {"weights", "manifest"} : Upload(h, object)
  BY DEF Outside
<1> USE DEF SubInv, ProcessTypeOK
<1>4. CASE Register(h) \/ Deregister(h)
  <2>1. ProcessTypeOK'
    BY <1>1, <1>4, MailboxAssumption DEF Register, Deregister
  <2>2. SaidOK' /\ JudgedOK'
    BY <1>1, <1>4 DEF Register, Deregister, SaidOK, JudgedOK, Judged
  <2> QED
    BY <1>2, <2>1, <2>2
<1>5. CASE OpenSession(h) \/ SessionEnds(h)
  <2>1. (Reg(h) \in Registrations /\ Owner(Reg(h)) = h) \/ SessionEnds(h)
    BY <1>5, RegType DEF OpenSession, Reg, Owner
  <2>2. ProcessTypeOK'
    BY <1>1, <1>5, <2>1 DEF OpenSession, SessionEnds, chain
  <2>3. SaidOK'
    BY <1>5, <2>1 DEF OpenSession, SessionEnds, SaidOK, chain
  <2>4. JudgedOK'
    BY <1>1, <1>5 DEF OpenSession, SessionEnds, JudgedOK, Judged, chain
  <2> QED
    BY <1>2, <2>2, <2>3, <2>4
<1>6. CASE CommitReady(h)
  <2>1. /\ session[h] \in Registrations /\ Owner(session[h]) = h
        /\ said' = [said EXCEPT ![h] = session[h]] /\ session' = [session EXCEPT ![h] = NONE]
        /\ "manifest" \in held[session[h]] /\ UNCHANGED <<born, live, held>>
    BY <1>6 DEF CommitReady, SaidOK
  <2>2. said[h] = NONE
    BY <1>6 DEF CommitReady, SaidOK
  <2>3. ProcessTypeOK'
    BY <1>1, <2>1
  <2>4. SaidOK'
    BY <2>1 DEF SaidOK
  <2>5. JudgedOK'
    <3>1. \A entry \in daemon.todo : daemon.pc = "queue" => entry[1] \in Hotkeys /\ entry[2] \in Registrations
      BY DEF Idle, Queueing, Sweeping
    <3>2. \A r \in daemon.queue : daemon.pc = "queue" => Owner(r) \in Hotkeys /\ r \in Registrations
      BY OwnerType DEF Idle, Queueing, Sweeping
    <3> QED
      BY <1>1, <2>1, <2>2, <3>1, <3>2, MailboxAssumption DEF JudgedOK, Judged, Registrations
  <2> QED
    BY <1>2, <2>3, <2>4, <2>5
<1>7. ASSUME NEW object \in {"weights", "manifest"}, Upload(h, object)
      PROVE  SubInv'
  <2>1. session[h] \in Registrations /\ Owner(session[h]) = h
        /\ held' = [held EXCEPT ![session[h]] = @ \cup {object}] /\ UNCHANGED <<chain, session>>
    BY <1>7 DEF Upload, SaidOK
  <2>2. ProcessTypeOK'
    BY <1>1, <2>1 DEF chain
  <2>3. \A g \in Hotkeys : said[g] # NONE => said[g] # session[h]
    BY <1>7, <2>1 DEF SaidOK, Upload
  <2>4. SaidOK' /\ JudgedOK'
    BY <1>1, <2>1, <2>3 DEF SaidOK, JudgedOK, Judged, chain
  <2> QED
    BY <1>2, <2>2, <2>4
<1> QED
  BY <1>3, <1>4, <1>5, <1>6, <1>7

(***************************************************************************)
(* The daemon: the window that spends shots and records who was judged.    *)
(***************************************************************************)
LEMMA OpenWindowKeeps == ASSUME SubInv, OpenWindow PROVE SubInv'
<1> DEFINE pending(unread) == {h \in live \ unread : said[h] # NONE /\ ~Judged(h)}
<1>1. PICK unread \in SUBSET {h \in live : said[h] # NONE} :
        daemon' = [pc |-> "queue", queue |-> {},
                   todo |-> {<<h, said[h], born[h]>> : h \in pending(unread)}]
  BY DEF OpenWindow
<1>2. UNCHANGED <<mailboxVars, chain, held, session, watcher, record>>
  BY DEF OpenWindow
<1>3. MailboxInv'
  BY <1>2, MailboxStep DEF SubInv
<1>4. daemon' \in Queueing
  BY <1>1, MailboxAssumption DEF Queueing, SubInv, ProcessTypeOK
<1>5. ProcessTypeOK' /\ SaidOK'
  BY <1>2, <1>4 DEF SubInv, ProcessTypeOK, SaidOK, chain
<1>6. JudgedOK'
  BY <1>1, <1>2 DEF SubInv, JudgedOK, Judged, chain
<1>7. SpendersOK' /\ SweepOK'
  BY <1>1, <1>2 DEF SubInv, SpendersOK, SweepOK, mailboxVars
<1> QED
  BY <1>3, <1>5, <1>6, <1>7 DEF SubInv

\* Consuming a credential for an entry of the queue (Mailbox.consume) keeps the invariant.
LEMMA SpendKeeps ==
  ASSUME SubInv, daemon.pc = "queue", NEW entry \in daemon.todo, Spend(entry)
  PROVE  SubInv' /\ [MailboxNext]_mailboxVars
<1> DEFINE h == entry[1]
           r == entry[2]
           own == r[2] = entry[3] /\ Accepts(DAEMON, r, 0)
<1>1. daemon \in Queueing /\ h \in Hotkeys /\ r \in Registrations /\ r = said[h]
  BY DEF SubInv, ProcessTypeOK, JudgedOK, Idle, Queueing, Sweeping
<1>2. UNCHANGED <<chain, held, session, watcher, record, upsets>>
      /\ daemon' = [daemon EXCEPT !.todo = @ \ {entry}, !.queue = IF own THEN @ \cup {r} ELSE @]
      /\ IF own THEN Consume(DAEMON, r, 0) ELSE RefuseSignal(DAEMON)
  BY DEF Spend
<1>3. MailboxNext
  BY <1>1, <1>2, ProcessesAssumption DEF MailboxNext
<1>4. MailboxInv'
  BY <1>3, MailboxStep DEF SubInv
<1>5. SpendersOK'
  <2>1. mem \in [Writers -> Ledgers] /\ DAEMON \in Writers
    BY ProcessesAssumption DEF SubInv, MailboxInv, MailboxTypeOK
  <2>2. mem'[DAEMON] = ledger'
    BY <1>2, <2>1 DEF Consume, RefuseSignal, Persist, OnlyReread, Reread
  <2> QED
    BY <2>2 DEF SpendersOK
<1>6. Owner(r) = h
  BY <1>1, MailboxAssumption DEF SubInv, SaidOK, Registrations
<1>7. daemon' \in Queueing /\ daemon'.todo \subseteq daemon.todo
      /\ daemon'.queue \subseteq daemon.queue \cup {r}
  BY <1>1, <1>2 DEF Queueing
<1>8. ProcessTypeOK' /\ SaidOK'
  BY <1>2, <1>7 DEF SubInv, ProcessTypeOK, SaidOK, chain
<1>9. JudgedOK' /\ SweepOK'
  BY <1>1, <1>2, <1>6, <1>7 DEF SubInv, JudgedOK, Judged, SweepOK, Queueing, chain
<1> QED
  BY <1>3, <1>4, <1>5, <1>8, <1>9 DEF SubInv

\* A submission is judged as the one its hotkey signalled.
LEMMA SettleKeeps == ASSUME SubInv, Settle PROVE SubInv'
<1>1. PICK judged \in SUBSET daemon.queue, winner \in daemon.queue \cup {NONE}, promoted \in BOOLEAN :
        /\ winner # NONE => winner \in judged /\ Whole(winner)
        /\ winner = NONE => ~promoted
        /\ record' = [record EXCEPT
             !.judged = [h \in Hotkeys |->
                          IF \E r \in judged : Owner(r) = h
                            THEN CHOOSE r \in judged : Owner(r) = h ELSE @[h]],
             !.crowned = IF promoted THEN @ \cup {Owner(winner)} ELSE @,
             !.pending = IF winner = NONE THEN @ ELSE IF promoted THEN NONE ELSE Owner(winner)]
  BY DEF Settle
<1>2. daemon.pc = "queue" /\ daemon' = Idle /\ UNCHANGED <<mailboxVars, chain, held, session>>
  BY DEF Settle
<1>3. daemon \in Queueing
  BY <1>2 DEF SubInv, ProcessTypeOK, Idle, Sweeping
<1>4. judged \subseteq Registrations /\ \A r \in judged : said[Owner(r)] = r
  BY <1>1, <1>2, <1>3 DEF SubInv, JudgedOK, Queueing
<1>5. record.judged \in [Hotkeys -> Registrations \cup {NONE}]
      /\ record'.judged = [h \in Hotkeys |->
           IF \E r \in judged : Owner(r) = h
             THEN CHOOSE r \in judged : Owner(r) = h ELSE record.judged[h]]
  BY <1>1 DEF SubInv, ProcessTypeOK
<1>6. ASSUME NEW h \in Hotkeys
      PROVE  /\ record'.judged[h] \in Registrations \cup {NONE}
             /\ record'.judged[h] = said[h] \/ record'.judged[h] = record.judged[h]
  <2>1. CASE \E r \in judged : Owner(r) = h
    <3>1. record'.judged[h] = CHOOSE r \in judged : Owner(r) = h
      BY <1>5, <2>1
    <3>2. record'.judged[h] \in judged /\ Owner(record'.judged[h]) = h
      BY <2>1, <3>1
    <3> QED
      BY <1>4, <3>2
  <2>2. CASE ~ \E r \in judged : Owner(r) = h
    BY <1>5, <2>2
  <2> QED
    BY <2>1, <2>2
<1>7. record' \in [judged : [Hotkeys -> Registrations \cup {NONE}], crowned : SUBSET Hotkeys,
                   pending : Hotkeys \cup {NONE}, purged : SUBSET Registrations]
  <2>1. winner # NONE => Owner(winner) \in Hotkeys
    BY <1>1, <1>4, OwnerType
  <2>2. record'.judged \in [Hotkeys -> Registrations \cup {NONE}]
    BY <1>5, <1>6
  <2> QED
    BY <1>1, <2>1, <2>2 DEF SubInv, ProcessTypeOK
<1>8. ProcessTypeOK' /\ SaidOK'
  BY <1>2, <1>7 DEF SubInv, ProcessTypeOK, SaidOK, chain
<1>9. JudgedOK'
  BY <1>2, <1>6 DEF SubInv, JudgedOK, Judged, Idle, chain
<1>10. MailboxInv' /\ SpendersOK' /\ SweepOK'
  BY <1>2, MailboxStep DEF SubInv, SpendersOK, SweepOK, Idle, mailboxVars
<1> QED
  BY <1>8, <1>9, <1>10 DEF SubInv

\* Resolving a deferred coronation keeps the invariant.
LEMMA ResolveKeeps ==
  ASSUME SubInv, NEW promoted \in BOOLEAN, ResolvePending(promoted)
  PROVE  SubInv'
<1>1. UNCHANGED <<mailboxVars, chain, held, session, daemon>> /\ record'.judged = record.judged
      /\ daemon = Idle
  BY DEF ResolvePending, SubInv, ProcessTypeOK
<1>2. ProcessTypeOK'
  BY <1>1 DEF ResolvePending, SubInv, ProcessTypeOK, chain
<1>3. SaidOK' /\ JudgedOK'
  BY <1>1 DEF SubInv, SaidOK, JudgedOK, Judged, chain
<1>4. MailboxInv' /\ SpendersOK' /\ SweepOK'
  BY <1>1, MailboxStep DEF SubInv, SpendersOK, SweepOK, Idle, mailboxVars
<1> QED
  BY <1>2, <1>3, <1>4 DEF SubInv

\* A restart of the daemon keeps the invariant: it re-reads what was saved.
LEMMA DaemonRestartKeeps ==
  ASSUME SubInv, DaemonRestarts
  PROVE  SubInv' /\ [MailboxNext]_mailboxVars
<1>1. Reopen(DAEMON) /\ daemon' = Idle /\ UNCHANGED <<chain, held, session, record>>
  BY DEF DaemonRestarts
<1>2. MailboxNext
  BY <1>1, ProcessesAssumption DEF MailboxNext
<1>3. MailboxInv'
  BY <1>2, MailboxStep DEF SubInv
<1>4. ledger' = ledger /\ mem'[DAEMON] = ledger
  BY <1>1, ProcessesAssumption DEF Reopen, SubInv, MailboxInv, MailboxTypeOK
<1>5. ProcessTypeOK' /\ SaidOK' /\ JudgedOK' /\ SweepOK' /\ SpendersOK'
  BY <1>1, <1>4
     DEF SubInv, ProcessTypeOK, SaidOK, JudgedOK, Judged, SweepOK, SpendersOK, Idle, chain
<1> QED
  BY <1>2, <1>3, <1>5 DEF SubInv

(***************************************************************************)
(* The sweeps.                                                             *)
(***************************************************************************)
\* A loser is what its hotkey signalled, so it keeps its manifest when it loses its weights.
LEMMA LosersSignalled ==
  ASSUME SubInv, NEW r \in {record.judged[h] : h \in Losers}
  PROVE  /\ r \in Registrations /\ Owner(r) \in Losers /\ record.judged[Owner(r)] = r
         /\ held[r] = {} \/ "manifest" \in held[r]
<1>1. PICK h \in Losers : r = record.judged[h]
  OBVIOUS
<1>2. h \in Hotkeys /\ Judged(h) /\ r = said[h]
  BY <1>1 DEF Losers, SubInv, JudgedOK
<1>3. r # NONE /\ r \in Registrations
  BY <1>1, <1>2 DEF Judged, SubInv, ProcessTypeOK
<1>4. Owner(r) = h /\ (held[r] = {} \/ "manifest" \in held[r])
  BY <1>2, <1>3 DEF SubInv, SaidOK
<1> QED
  BY <1>1, <1>3, <1>4

\* The sweep of judged submissions (_retire_judged) keeps the invariant.
LEMMA RetireKeeps ==
  ASSUME SubInv, NEW expired \in SUBSET {record.judged[h] : h \in Losers}, RetireJudged(expired)
  PROVE  SubInv'
<1>1. /\ daemon = Idle /\ UNCHANGED <<mailboxVars, chain, session, watcher, daemon>>
      /\ held' = [r \in Registrations |->
                    IF r \in expired THEN held[r] \cap {"manifest"} ELSE held[r]]
      /\ record' = [record EXCEPT !.purged = @ \cup expired]
  BY DEF RetireJudged
<1>2. expired \subseteq Registrations
  BY LosersSignalled
<1>3. ProcessTypeOK'
  BY <1>1, <1>2 DEF SubInv, ProcessTypeOK, chain
<1>4. SaidOK'
  <2> SUFFICES ASSUME NEW h \in Hotkeys, said[h] # NONE
               PROVE  held'[said[h]] = {} \/ "manifest" \in held'[said[h]]
    BY <1>1 DEF SubInv, SaidOK, chain
  <2>1. said[h] \in Registrations /\ (held[said[h]] = {} \/ "manifest" \in held[said[h]])
    BY DEF SubInv, SaidOK, ProcessTypeOK
  <2> QED
    BY <1>1, <2>1
<1>5. record'.judged = record.judged
  BY <1>1 DEF SubInv, ProcessTypeOK
<1>6. JudgedOK'
  BY <1>1, <1>5 DEF SubInv, JudgedOK, Judged, chain
<1>7. MailboxInv' /\ SpendersOK' /\ SweepOK'
  BY <1>1, MailboxStep DEF SubInv, SpendersOK, SweepOK, Idle, mailboxVars
<1> QED
  BY <1>3, <1>4, <1>6, <1>7 DEF SubInv

\* The daemon's copy of the ledger knows every spent registration.
LEMMA SpentIsRetained ==
  ASSUME SubInv
  PROVE  SpentRegistrations(mem[DAEMON]) = SpentRegistrations(ledger)
BY DEF SubInv, SpendersOK, SpentRegistrations, Spent

\* Surveying, planning and ending a sweep keep the invariant.
LEMMA SweepKeeps ==
  ASSUME SubInv, Survey \/ Plan \/ EndSweep
  PROVE  SubInv'
<1>1. UNCHANGED <<mailboxVars, chain, held, session, watcher, record>>
  BY DEF Survey, Plan, EndSweep
<1>2. MailboxInv' /\ SpendersOK' /\ SaidOK'
  BY <1>1, MailboxStep DEF SubInv, SpendersOK, SaidOK, mailboxVars, chain
<1>3. Signalled \subseteq Registrations
  BY DEF Signalled, SubInv, ProcessTypeOK
<1>4. CASE Survey
  <2>1. daemon' = [pc |-> "sweep", named |-> Signalled, truth |-> Signalled, doomed |-> NONE]
    BY <1>4 DEF Survey
  <2>2. daemon' \in Sweeping
    <3>1. Signalled \in SUBSET Registrations
      BY <1>3
    <3>2. NONE \in (SUBSET Registrations) \cup {NONE}
      OBVIOUS
    <3>3. ASSUME NEW n \in SUBSET Registrations
          PROVE  [pc |-> "sweep", named |-> n, truth |-> n, doomed |-> NONE] \in Sweeping
      BY <3>2, <3>3 DEF Sweeping
    <3> QED
      BY <2>1, <3>1, <3>3
  <2>3. ProcessTypeOK' /\ JudgedOK' /\ SweepOK'
    BY <1>1, <2>1, <2>2 DEF SubInv, ProcessTypeOK, JudgedOK, Judged, SweepOK, chain
  <2> QED
    BY <1>2, <2>3 DEF SubInv
<1>5. CASE Plan
  <2>1. PICK expired \in SUBSET {r \in Registrations :
                                  held[r] # {} /\ r \notin daemon.named /\ r \notin Retained} :
          daemon' = [daemon EXCEPT !.doomed = expired]
    BY <1>5 DEF Plan
  <2>2. daemon \in Sweeping
    BY <1>5 DEF Plan, SubInv, ProcessTypeOK, Idle, Queueing
  <2>3. /\ daemon' \in Sweeping /\ daemon'.pc = "sweep" /\ daemon'.doomed = expired
        /\ daemon'.named = daemon.named /\ daemon'.truth = daemon.truth
    BY <2>1, <2>2 DEF Sweeping
  <2>4. ProcessTypeOK' /\ JudgedOK'
    BY <1>1, <2>3 DEF SubInv, ProcessTypeOK, JudgedOK, Judged, chain
  <2>5. SweepOK'
    <3>1. daemon.truth = daemon.named
      BY <1>5 DEF Plan, SubInv, SweepOK
    <3>2. \A r \in expired : r \notin daemon.truth /\ r \notin Retained
      BY <2>1, <3>1
    <3> QED
      BY <1>1, <2>3, <3>1, <3>2, SpentIsRetained
         DEF SweepOK, Retained, Judged, SpentRegistrations, Spent, mailboxVars
  <2> QED
    BY <1>2, <2>4, <2>5 DEF SubInv
<1>6. CASE EndSweep
  <2>1. daemon' = Idle
    BY <1>6 DEF EndSweep
  <2>2. ProcessTypeOK' /\ JudgedOK' /\ SweepOK'
    BY <1>1, <2>1 DEF SubInv, ProcessTypeOK, JudgedOK, Judged, SweepOK, Idle, chain
  <2> QED
    BY <1>2, <2>2 DEF SubInv
<1> QED
  BY <1>4, <1>5, <1>6

\* Deleting one planned prefix keeps the invariant.
LEMMA DeleteKeeps ==
  ASSUME SubInv, NEW r \in Registrations, DeletePrefix(r)
  PROVE  SubInv'
<1>1. /\ UNCHANGED <<mailboxVars, chain, session, watcher, record>>
      /\ daemon.pc = "sweep" /\ daemon.doomed # NONE
      /\ held' = [held EXCEPT ![r] = {}] /\ daemon' = [daemon EXCEPT !.doomed = @ \ {r}]
  BY DEF DeletePrefix
<1>2. daemon \in Sweeping
  BY <1>1 DEF SubInv, ProcessTypeOK, Idle, Queueing
<1>3. /\ daemon' \in Sweeping /\ daemon'.pc = "sweep" /\ daemon'.doomed = daemon.doomed \ {r}
      /\ daemon'.named = daemon.named /\ daemon'.truth = daemon.truth
  BY <1>1, <1>2 DEF Sweeping
<1>4. ProcessTypeOK' /\ SaidOK' /\ JudgedOK'
  BY <1>1, <1>3 DEF SubInv, ProcessTypeOK, SaidOK, JudgedOK, Judged, chain
<1>5. SweepOK'
  BY <1>1, <1>3 DEF SubInv, SweepOK, Judged, SpentRegistrations, Spent, mailboxVars
<1>6. MailboxInv' /\ SpendersOK'
  BY <1>1, MailboxStep DEF SubInv, SpendersOK, mailboxVars
<1> QED
  BY <1>4, <1>5, <1>6 DEF SubInv

(***************************************************************************)
(* Theorems.                                                               *)
(***************************************************************************)
LEMMA EveryStep ==
  ASSUME SubInv, SubmissionsNext
  PROVE  \/ Tooling \/ Outside \/ OpenWindow \/ Settle \/ Survey \/ Plan \/ EndSweep \/ DaemonRestarts
         \/ \E expired \in SUBSET {record.judged[h] : h \in Losers} : RetireJudged(expired)
         \/ \E promoted \in BOOLEAN : ResolvePending(promoted)
         \/ \E r \in Registrations : DeletePrefix(r)
         \/ daemon.pc = "queue" /\ \E entry \in daemon.todo : Spend(entry)
BY DEF SubmissionsNext, Watching, Tooling, Outside

\* Every step keeps the invariant.
LEMMA SubStep == SubInv /\ [SubmissionsNext]_submissionsVars => SubInv'
<1> SUFFICES ASSUME SubInv, [SubmissionsNext]_submissionsVars PROVE SubInv'
  OBVIOUS
<1>1. CASE UNCHANGED submissionsVars
  <2>1. MailboxInv'
    BY <1>1, MailboxStep DEF SubInv, submissionsVars
  <2> QED
    BY <1>1, <2>1 DEF submissionsVars, mailboxVars, chain, SubInv, ProcessTypeOK, SaidOK, JudgedOK, Judged,
       SpendersOK, SweepOK, SpentRegistrations, Spent
<1>2. CASE SubmissionsNext
  BY <1>2, EveryStep, ToolingKeeps, OutsideKeeps, OpenWindowKeeps, SettleKeeps, SweepKeeps,
     DaemonRestartKeeps, RetireKeeps, ResolveKeeps, DeleteKeeps, SpendKeeps
<1> QED
  BY <1>1, <1>2

\* What the processes keep between them: the ledger knows every credential, a signal is of its
\* owner's registration and ends the session, and a sweep's list holds nothing owed.
THEOREM SubmissionsInvariant == SubmissionsSpec => []SubInv
  BY SubStart, SubStep, PTL DEF SubmissionsSpec

\* The processes use the ledger through its transactions only: what they do to it is a behaviour
\* of Mailbox (access.Mailbox is the only code that opens the file).
THEOREM ImplementsMailbox == SubmissionsSpec => MailboxSpec
<1>1. SubInv /\ [SubmissionsNext]_submissionsVars => [MailboxNext]_mailboxVars
  <2> SUFFICES ASSUME SubInv, [SubmissionsNext]_submissionsVars PROVE [MailboxNext]_mailboxVars
    OBVIOUS
  <2>1. CASE UNCHANGED submissionsVars
    BY <2>1 DEF submissionsVars
  <2>2. CASE Tooling
    BY <2>2, ToolingSteps DEF ToolStep
  <2>3. CASE DaemonRestarts \/ (daemon.pc = "queue" /\ \E entry \in daemon.todo : Spend(entry))
    BY <2>3, DaemonRestartKeeps, SpendKeeps
  <2>4. CASE \/ Outside \/ OpenWindow \/ Settle \/ Survey \/ Plan \/ EndSweep
             \/ \E expired \in SUBSET {record.judged[h] : h \in Losers} : RetireJudged(expired)
             \/ \E promoted \in BOOLEAN : ResolvePending(promoted)
             \/ \E r \in Registrations : DeletePrefix(r)
    BY <2>4 DEF Outside, Register, Deregister, OpenSession, CommitReady, SessionEnds, Upload,
       OpenWindow, Settle, Survey, Plan, EndSweep, RetireJudged, ResolvePending, DeletePrefix
  <2> QED
    BY <2>1, <2>2, <2>3, <2>4, EveryStep
<1>2. SubmissionsInit => MailboxInit
  BY DEF SubmissionsInit
<1> QED
  BY <1>1, <1>2, SubmissionsInvariant, PTL DEF SubmissionsSpec, MailboxSpec

\* Every credential a miner can hold is in the list the operator revokes from, whatever the
\* watcher, the command and the daemon do at once (Mailbox.outstanding, consume).
THEOREM RevocationListHolds == SubmissionsSpec => []RevocationList
  BY ImplementsMailbox, MailboxRemembers, PTL

\* Only two steps take something from the bucket.
LEMMA Deletions ==
  ASSUME SubInv, [SubmissionsNext]_submissionsVars, NEW r \in Registrations, ~ (held[r] \subseteq held'[r])
  PROVE  \/ \E expired \in SUBSET {record.judged[h] : h \in Losers} :
              r \in expired /\ RetireJudged(expired)
         \/ DeletePrefix(r)
<1>1. held' # held
  OBVIOUS
<1>2. CASE Tooling \/ OpenWindow \/ Settle \/ Survey \/ Plan \/ EndSweep \/ DaemonRestarts
           \/ (\E promoted \in BOOLEAN : ResolvePending(promoted))
           \/ (daemon.pc = "queue" /\ \E entry \in daemon.todo : Spend(entry))
  BY <1>1, <1>2, ToolingSteps
     DEF OpenWindow, Settle, Survey, Plan, EndSweep, DaemonRestarts, ResolvePending, Spend
<1>3. CASE Outside
  <2>1. PICK h \in Hotkeys, object \in {"weights", "manifest"} : Upload(h, object)
    BY <1>1, <1>3 DEF Outside, Register, Deregister, OpenSession, CommitReady, SessionEnds
  <2>2. held' = [held EXCEPT ![session[h]] = @ \cup {object}] /\ held \in [Registrations -> SUBSET {"weights", "manifest"}]
    BY <2>1 DEF Upload, SubInv, ProcessTypeOK
  <2> QED
    BY <2>2
<1>4. ASSUME NEW s \in Registrations, DeletePrefix(s)
      PROVE  DeletePrefix(r)
  BY <1>4 DEF DeletePrefix, SubInv, ProcessTypeOK
<1>5. ASSUME NEW expired \in SUBSET {record.judged[h] : h \in Losers}, RetireJudged(expired)
      PROVE  r \in expired
  BY <1>5 DEF RetireJudged
<1> QED
  BY <1>1, <1>2, <1>3, <1>4, <1>5, EveryStep DEF submissionsVars

\* No sweep takes what a verdict, a crown, a deferred crown or a shot not yet judged depends on,
\* in whatever order the two sweeps, the windows and the miner's tool run (_retire_judged,
\* _sweep_unclaimed).
THEOREM OwedStays == SubmissionsSpec => OwedIsKept
<1>1. SubInv /\ [SubmissionsNext]_submissionsVars =>
        [ \A r \in Registrations : LET h == Owner(r) IN
            LET lost == held[r] \ held'[r] IN
            lost # {} =>
              /\ record.judged[h] = r => "manifest" \notin lost /\ h \notin record.crowned
                                         /\ record.pending # h
              /\ Spent(ledger, h) /\ ledger.spent[h].registration = r => Judged(h) ]_held
  <2> SUFFICES ASSUME SubInv, [SubmissionsNext]_submissionsVars, NEW r \in Registrations, held[r] \ held'[r] # {}
               PROVE  /\ record.judged[Owner(r)] = r =>
                           /\ "manifest" \notin held[r] \ held'[r]
                           /\ Owner(r) \notin record.crowned /\ record.pending # Owner(r)
                      /\ Spent(ledger, Owner(r)) /\ ledger.spent[Owner(r)].registration = r
                           => Judged(Owner(r))
    OBVIOUS
  <2>1. Owner(r) \in Hotkeys
    BY OwnerType
  <2>2. ASSUME NEW expired \in SUBSET {record.judged[h] : h \in Losers},
               r \in expired, RetireJudged(expired)
        PROVE  /\ "manifest" \notin held[r] \ held'[r] /\ Judged(Owner(r))
               /\ Owner(r) \notin record.crowned /\ record.pending # Owner(r)
    BY <2>2, LosersSignalled DEF RetireJudged, Losers
  <2>3. ASSUME DeletePrefix(r)
        PROVE  record.judged[Owner(r)] # r
               /\ ~ (Spent(ledger, Owner(r)) /\ ledger.spent[Owner(r)].registration = r)
    BY <2>1, <2>3, MailboxAssumption
       DEF DeletePrefix, SubInv, SweepOK, SpentRegistrations, Judged, Registrations
  <2> QED
    BY <2>2, <2>3, Deletions
<1> QED
  BY <1>1, SubmissionsInvariant, PTL DEF SubmissionsSpec, OwedIsKept

\* An upload that was signalled when the sweep read the chain survives it, whatever slots of the
\* read failed and whatever the miner does meanwhile (CommitmentSurvey.complete).
THEOREM SignalledStays == SubmissionsSpec => SignalledIsKept
<1>1. SubInv /\ [SubmissionsNext]_submissionsVars =>
        [ \A r \in Registrations :
            held'[r] = {} /\ held[r] # {} => r \notin daemon.truth ]_held
  <2> SUFFICES ASSUME SubInv, [SubmissionsNext]_submissionsVars, NEW r \in Registrations, held'[r] = {}, held[r] # {}
               PROVE  r \notin daemon.truth
    OBVIOUS
  <2>1. ASSUME NEW expired \in SUBSET {record.judged[h] : h \in Losers},
               r \in expired, RetireJudged(expired)
        PROVE  FALSE
    BY <2>1, LosersSignalled DEF RetireJudged
  <2>2. ASSUME DeletePrefix(r)
        PROVE  r \notin daemon.truth
    BY <2>2 DEF DeletePrefix, SubInv, SweepOK
  <2> QED
    BY <2>1, <2>2, Deletions
<1> QED
  BY <1>1, SubmissionsInvariant, PTL DEF SubmissionsSpec, SignalledIsKept

(***************************************************************************)
(* Proofs about a submission's transfer.  A verdict rests on two downloads *)
(* that agree, and a corrupting path never agrees with itself.  A script   *)
(* that outlived its attempt can only make a file right, and can only send *)
(* parts to uploads that the promotion after it has aborted: every         *)
(* promotion aborts what it inherits before it creates its own.            *)
(***************************************************************************)

Reports == Outcomes \cup {"todo"}
Promoting == pc \in {"creating", "uploading", "completing"}
Sending == pc \in {"uploading", "completing"}

IsScript(script) ==
  /\ script = [kind |-> script.kind, report |-> script.report, ids |-> script.ids]
  /\ script.report = [f \in DOMAIN script.report |-> script.report[f]]
  /\ DOMAIN script.report \subseteq Files

TransferTypeInv ==
  /\ bucket \in [object : [Files -> Objects], orderly : BOOLEAN]
  /\ tree \in [Files -> {"right", "wrong"}]
  /\ public \in [Files -> {NONE, "right"}]
  /\ mine = [f \in Files |-> mine[f]]
  /\ uploads = [id \in DOMAIN uploads |-> uploads[id]]
  /\ tries \in Nat
  /\ pc \in {"idle", "fetching", "creating", "uploading", "completing", "naming"}

\* The script the controller listens to, and what its reports are evidence of.
FetchInv ==
  pc = "fetching" =>
    /\ IsScript(job) /\ job.kind = "fetch" /\ DOMAIN job.report = Files
    /\ \A f \in Files :
         /\ job.report[f] \in {"kept", "fetched"} => tree[f] = "right"
         /\ job.report[f] = "mismatch" => bucket.object[f] # "right"
SendInv ==
  Sending =>
    /\ IsScript(job) /\ job.kind = "upload"
    /\ \A f \in DOMAIN job.report :
         /\ job.ids[f] = <<f, tries>>
         /\ mine[f] \in {job.ids[f], NONE}
         /\ pc = "uploading" => mine[f] = job.ids[f]
         /\ job.report[f] \in {"hashed", "sent"} => tree[f] = "right"
         /\ job.report[f] = "sent" /\ <<f, tries>> \in DOMAIN uploads => uploads[<<f, tries>>] = "right"

\* What is already public, file by file, while the rest is being sent.
DoneInv ==
  /\ Sending => \A f \in Files :
       (f \notin DOMAIN job.report \/ mine[f] = NONE) => public[f] = "right"
  /\ pc = "creating" => \A f \in Files : mine[f] \in {NONE, <<f, tries>>}
  /\ pc = "naming" => \A f \in Files : public[f] = "right"

\* A promotion's uploads are its own; a script that outlived its attempt has older ones.
Older(n) == n \in Nat /\ n <= tries /\ (Promoting => n < tries)
OrphanInv ==
  /\ Promoting => \A id \in DOMAIN uploads : \E f \in Files : id = <<f, tries>>
  /\ \A script \in orphans :
       /\ IsScript(script)
       /\ script.kind = "upload" =>
            \A f \in DOMAIN script.report :
              script.ids[f] = <<f, script.ids[f][2]>> /\ Older(script.ids[f][2])

TransferInv ==
  TransferTypeInv /\ FetchInv /\ SendInv /\ DoneInv /\ OrphanInv /\ MarkedIsJudged /\ RefusedIsTheMiners

-----------------------------------------------------------------------------
(* The downloads of one file. *)

\* A non-empty set of numbers has a least one.
LEMMA FirstExists ==
  ASSUME NEW S \in SUBSET Nat, S # {}
  PROVE  \E i \in S : \A j \in S : i <= j
<1>1. \E i \in S : \A j \in S : ~ (<<j, i>> \in OpToRel(<, Nat))
  BY NatLessThanWellFounded, WFMin
<1>2. ASSUME NEW i \in S, NEW j \in S, ~ (<<j, i>> \in OpToRel(<, Nat))
      PROVE  i <= j
  BY <1>2 DEF OpToRel
<1> QED
  BY <1>1, <1>2

\* Two downloads that agree on other bytes than the committed ones agree on the object.
LEMMA AgreementIsTheObject ==
  ASSUME NEW f, NEW downloads \in [1..Attempts -> Downloads], bucket.object[f] = "right",
         NEW i \in 1..Attempts, Seen(f, downloads[i], i)[1] = "wrong",
         NEW j \in 1..(i - 1), Seen(f, downloads[j], j) = Seen(f, downloads[i], i)
  PROVE  FALSE
<1>1. i \in Nat /\ i # 0 /\ j \in 1..Attempts /\ j # i /\ Attempts \in Nat
  BY AttemptsAssumption
<1>2. downloads[i] = "garbled"
  <2>1. downloads[i] \in {"object", "garbled", "cut", "failed"} /\ NONE # "wrong"
    BY NothingAssumption DEF Downloads, Objects
  <2> QED
    BY <2>1 DEF Seen
<1>3. Seen(f, downloads[i], i) = <<"wrong", i>>
  BY <1>2 DEF Seen
<1>4. downloads[j] = "garbled"
  <2>1. downloads[j] \in {"object", "garbled", "cut", "failed"}
    BY <1>1 DEF Downloads
  <2>2. Seen(f, downloads[j], j)[1] = "wrong" /\ Seen(f, downloads[j], j)[2] = i
    BY <1>3
  <2> QED
    BY <1>1, <2>1, <2>2 DEF Seen
<1>5. Seen(f, downloads[j], j) = <<"wrong", j>>
  BY <1>4 DEF Seen
<1> QED
  BY <1>1, <1>3, <1>5

\* A mismatch is reported only of an object that is wrong in the bucket (fetch_one).
LEMMA OutcomeIsEvidence ==
  ASSUME NEW f, NEW downloads \in [1..Attempts -> Downloads],
         FetchOutcome([i \in 1..Attempts |-> Seen(f, downloads[i], i)]) = "mismatch"
  PROVE  bucket.object[f] # "right"
<1> SUFFICES ASSUME bucket.object[f] = "right" PROVE FALSE
  OBVIOUS
<1> DEFINE read == [i \in 1..Attempts |-> Seen(f, downloads[i], i)]
           right == {i \in 1..Attempts : read[i][1] = "right"}
           ends == right \cup {i \in 1..Attempts : Mismatch(read, i)}
           end == CHOOSE i \in ends : \A j \in ends : i <= j
<1>1. Attempts \in Nat /\ ends \in SUBSET Nat
  BY AttemptsAssumption
<1>2. ends # {} /\ read[end][1] = "wrong"
  BY DEF FetchOutcome
<1>3. end \in ends
  <2>1. \E i \in ends : \A j \in ends : i <= j
    BY <1>1, <1>2, FirstExists
  <2> QED
    BY <2>1
<1>4. end \in 1..Attempts /\ Mismatch(read, end)
  BY <1>2, <1>3
<1> HIDE DEF end
<1>5. PICK j \in 1..(end - 1) : read[j] = read[end]
  BY <1>4 DEF Mismatch
<1>6. j \in 1..Attempts
  BY <1>1, <1>4
<1>7. Seen(f, downloads[end], end)[1] = "wrong" /\ Seen(f, downloads[j], j) = Seen(f, downloads[end], end)
  BY <1>2, <1>4, <1>5, <1>6
<1> QED
  BY <1>4, <1>7, AgreementIsTheObject

-----------------------------------------------------------------------------
(* The steps. *)

\* The first state satisfies the invariant.
LEMMA TransferStart == TransferInit => TransferInv
<1> SUFFICES ASSUME TransferInit PROVE TransferInv
  OBVIOUS
<1>1. TransferTypeInv
  <2>1. tree \in [Files -> {"right", "wrong"}] /\ public \in [Files -> {NONE, "right"}]
    BY DEF TransferInit
  <2>2. mine = [f \in Files |-> mine[f]] /\ uploads = [id \in DOMAIN uploads |-> uploads[id]]
    BY DEF TransferInit, NoUploads, NoneMine
  <2> QED
    BY <2>1, <2>2 DEF TransferInit, TransferTypeInv
<1>2. FetchInv /\ SendInv /\ DoneInv /\ OrphanInv /\ MarkedIsJudged /\ RefusedIsTheMiners
  BY NothingAssumption DEF TransferInit, FetchInv, SendInv, Sending, DoneInv, OrphanInv, Promoting,
     MarkedIsJudged, RefusedIsTheMiners
<1> QED
  BY <1>1, <1>2 DEF TransferInv

\* Back to idle, with the script perhaps living on: whatever it still sends is of this attempt.
LEMMA IdleKeeps ==
  ASSUME TransferInv, pc' = "idle", UNCHANGED <<bucket, tree, tries>>, orphans' \subseteq Abandoned,
         public' \in [Files -> {NONE, "right"}], mine' = NoneMine \/ mine' = mine,
         uploads' = [id \in DOMAIN uploads' |-> uploads'[id]],
         MarkedIsJudged', RefusedIsTheMiners'
  PROVE  TransferInv'
<1>1. TransferTypeInv' /\ FetchInv' /\ SendInv' /\ DoneInv'
  BY DEF TransferInv, TransferTypeInv, FetchInv, SendInv, Sending, DoneInv, NoneMine
<1>2. OrphanInv'
  <2>1. ~ Promoting'
    BY DEF Promoting
  <2>2. \A n : Older(n) => Older(n)'
    BY <2>1 DEF Older
  <2> SUFFICES ASSUME NEW script \in orphans'
               PROVE  /\ IsScript(script)
                      /\ script.kind = "upload" =>
                           \A f \in DOMAIN script.report :
                             script.ids[f] = <<f, script.ids[f][2]>> /\ Older(script.ids[f][2])'
    BY <2>1 DEF OrphanInv, IsScript
  <2>3. CASE script \in orphans
    BY <2>2, <2>3 DEF TransferInv, OrphanInv
  <2>4. CASE script = job /\ pc = "fetching"
    BY <2>4 DEF TransferInv, FetchInv
  <2>5. CASE script = job /\ pc = "uploading"
    <3>1. IsScript(job) /\ \A f \in DOMAIN job.report : job.ids[f] = <<f, tries>>
      BY <2>5 DEF TransferInv, SendInv, Sending
    <3>2. Older(tries)'
      BY <2>1 DEF TransferInv, TransferTypeInv, Older
    <3>3. \A f \in DOMAIN job.report : job.ids[f][2] = tries
      BY <3>1
    <3> QED
      BY <2>5, <3>1, <3>2, <3>3
  <2> QED
    BY <2>3, <2>4, <2>5 DEF Abandoned
<1> QED
  BY <1>1, <1>2 DEF TransferInv

\* One step of a script: a file only ever becomes right, and a part lands in the upload it names.
LEMMA HostEffects ==
  ASSUME TransferInv, NEW script, IsScript(script), NEW f \in DOMAIN script.report, NEW outcome \in Outcomes,
         HostStep(script, f, outcome)
  PROVE  /\ UNCHANGED <<bucket, marker, verdict, pc, public, named, mine, tries>>
         /\ tree' \in [Files -> {"right", "wrong"}]
         /\ \A g \in Files : tree[g] = "right" => tree'[g] = "right"
         /\ DOMAIN uploads' = DOMAIN uploads /\ uploads' = [id \in DOMAIN uploads' |-> uploads'[id]]
         /\ \A id \in DOMAIN uploads : script.kind # "upload" \/ id # script.ids[f] => uploads'[id] = uploads[id]
<1>1. f \in Files
  BY DEF IsScript
<1>2. CASE FetchOne(script, f, outcome)
  <2>1. tree' = tree \/ \E read : tree' = [tree EXCEPT ![f] = Lands(f, read)]
    BY <1>2 DEF FetchOne
  <2>2. \A read : Lands(f, read) = "right" \/ Lands(f, read) = tree[f]
    BY DEF Lands
  <2> QED
    BY <1>1, <1>2, <2>1, <2>2 DEF FetchOne, TransferInv, TransferTypeInv, prefix
<1>3. CASE HashOne(script, f, outcome)
  BY <1>3 DEF HashOne, prefix, TransferInv, TransferTypeInv
<1>4. CASE PutPart(script, f, outcome)
  <2>1. /\ UNCHANGED <<bucket, tree, marker, verdict, pc, public, named, mine, tries>>
        /\ script.kind = "upload"
        /\ \/ uploads' = uploads
           \/ script.ids[f] \in DOMAIN uploads /\ \E part : uploads' = [uploads EXCEPT ![script.ids[f]] = part]
    BY <1>4 DEF PutPart
  <2> QED
    BY <2>1 DEF TransferInv, TransferTypeInv
<1> QED
  BY <1>2, <1>3, <1>4 DEF HostStep

\* What a fetch script reports of a file.
LEMMA FetchEvidence ==
  ASSUME TransferInv, NEW script, NEW f \in Files, NEW outcome, FetchOne(script, f, outcome)
  PROVE  /\ outcome \in {"kept", "fetched"} => tree'[f] = "right"
         /\ outcome = "mismatch" => bucket.object[f] # "right"
<1>1. CASE script.report[f] = "todo"
  BY <1>1 DEF FetchOne, FetchOutcomes
<1>2. CASE script.report[f] # "todo"
  <2>1. PICK downloads \in Pulls(f) :
          LET read == [i \in 1..Attempts |-> Seen(f, downloads[i], i)] IN
          outcome = FetchOutcome(read) /\ tree' = [tree EXCEPT ![f] = Lands(f, read)]
    BY <1>2 DEF FetchOne
  <2>2. outcome = "mismatch" => bucket.object[f] # "right"
    BY <2>1, OutcomeIsEvidence DEF Pulls
  <2>3. outcome = "fetched" => tree'[f] = "right"
    BY <2>1 DEF Lands, TransferInv, TransferTypeInv
  <2>4. outcome # "kept"
    BY <1>2 DEF FetchOne, FetchOutcomes
  <2> QED
    BY <2>2, <2>3, <2>4
<1> QED
  BY <1>1, <1>2

\* A script whose report gains an outcome is still that script.
LEMMA AfterIsScript ==
  ASSUME NEW script, IsScript(script), NEW f \in DOMAIN script.report, NEW outcome
  PROVE  /\ IsScript(After(script, f, outcome))
         /\ After(script, f, outcome).kind = script.kind /\ After(script, f, outcome).ids = script.ids
         /\ DOMAIN After(script, f, outcome).report = DOMAIN script.report
         /\ After(script, f, outcome).report[f] = outcome
         /\ \A g \in DOMAIN script.report :
              g # f => After(script, f, outcome).report[g] = script.report[g]
<1>1. After(script, f, outcome) =
        [kind |-> script.kind, report |-> [script.report EXCEPT ![f] = outcome], ids |-> script.ids]
  BY DEF After, IsScript
<1> QED
  BY <1>1 DEF IsScript

\* A script that outlived its attempt: nothing the running attempt relies on moves.
LEMMA OrphanWorksKeeps == ASSUME TransferInv, OrphanWorks PROVE TransferInv'
<1>0. PICK script \in orphans : \E f \in DOMAIN script.report, outcome \in Outcomes :
        /\ HostStep(script, f, outcome) /\ job' = job
        /\ orphans' = (orphans \ {script}) \cup {After(script, f, outcome)}
  BY DEF OrphanWorks
<1>1. PICK f \in DOMAIN script.report, outcome \in Outcomes :
        /\ HostStep(script, f, outcome) /\ job' = job
        /\ orphans' = (orphans \ {script}) \cup {After(script, f, outcome)}
  BY <1>0
<1>2. IsScript(script)
  BY <1>1 DEF TransferInv, OrphanInv
<1>3. /\ UNCHANGED <<bucket, marker, verdict, pc, public, named, mine, tries>>
      /\ tree' \in [Files -> {"right", "wrong"}]
      /\ \A g \in Files : tree[g] = "right" => tree'[g] = "right"
      /\ DOMAIN uploads' = DOMAIN uploads /\ uploads' = [id \in DOMAIN uploads' |-> uploads'[id]]
      /\ \A id \in DOMAIN uploads : script.kind # "upload" \/ id # script.ids[f] => uploads'[id] = uploads[id]
  BY <1>1, <1>2, HostEffects
<1>4. \A g \in Files : Promoting /\ <<g, tries>> \in DOMAIN uploads => uploads'[<<g, tries>>] = uploads[<<g, tries>>]
  <2> SUFFICES ASSUME NEW g \in Files, Promoting, <<g, tries>> \in DOMAIN uploads,
                      script.kind = "upload"
               PROVE  <<g, tries>> # script.ids[f]
    BY <1>3
  <2>1. script.ids[f] = <<f, script.ids[f][2]>> /\ Older(script.ids[f][2])
    BY <1>1 DEF TransferInv, OrphanInv
  <2> QED
    BY <2>1 DEF Older, TransferInv, TransferTypeInv
<1>5. TransferTypeInv' /\ DoneInv' /\ MarkedIsJudged' /\ RefusedIsTheMiners'
  BY <1>1, <1>3 DEF TransferInv, TransferTypeInv, DoneInv, Sending, MarkedIsJudged, RefusedIsTheMiners
<1>6. FetchInv'
  BY <1>1, <1>3 DEF TransferInv, FetchInv, IsScript
<1>7. SendInv'
  <2> SUFFICES ASSUME Sending' PROVE SendInv'
    BY DEF SendInv
  <2>1. Sending /\ Promoting
    BY <1>3 DEF Sending, Promoting
  <2>2. \A g \in DOMAIN job.report : g \in Files
    BY <2>1 DEF TransferInv, SendInv, IsScript
  <2> QED
    BY <1>1, <1>3, <1>4, <2>1, <2>2 DEF TransferInv, SendInv, IsScript
<1>8. OrphanInv'
  <2>1. \A n : Older(n)' <=> Older(n)
    BY <1>3 DEF Older, Promoting
  <2>2. Promoting' => \A id \in DOMAIN uploads' : \E g \in Files : id = <<g, tries'>>
    BY <1>3 DEF TransferInv, OrphanInv, Promoting
  <2>3. ASSUME NEW other \in orphans'
        PROVE  /\ IsScript(other)
               /\ other.kind = "upload" =>
                    \A g \in DOMAIN other.report :
                      other.ids[g] = <<g, other.ids[g][2]>> /\ Older(other.ids[g][2])
    BY <1>1, <1>2, <2>3, AfterIsScript DEF TransferInv, OrphanInv
  <2> QED
    BY <2>1, <2>2, <2>3 DEF OrphanInv, IsScript
<1> QED
  BY <1>5, <1>6, <1>7, <1>8 DEF TransferInv

\* The script the controller listens to.
LEMMA JobWorksKeeps == ASSUME TransferInv, JobWorks PROVE TransferInv'
<1>1. PICK f \in DOMAIN job.report, outcome \in Outcomes :
        HostStep(job, f, outcome) /\ job' = After(job, f, outcome) /\ orphans' = orphans
  BY DEF JobWorks
<1>2. pc \in {"fetching", "uploading"} /\ IsScript(job)
  BY DEF JobWorks, TransferInv, FetchInv, SendInv, Sending
<1>3. /\ UNCHANGED <<bucket, marker, verdict, pc, public, named, mine, tries>>
      /\ tree' \in [Files -> {"right", "wrong"}]
      /\ \A g \in Files : tree[g] = "right" => tree'[g] = "right"
      /\ DOMAIN uploads' = DOMAIN uploads /\ uploads' = [id \in DOMAIN uploads' |-> uploads'[id]]
      /\ \A id \in DOMAIN uploads : job.kind # "upload" \/ id # job.ids[f] => uploads'[id] = uploads[id]
  BY <1>1, <1>2, HostEffects
<1>4. /\ IsScript(job') /\ job'.kind = job.kind /\ job'.ids = job.ids
      /\ DOMAIN job'.report = DOMAIN job.report /\ job'.report[f] = outcome
      /\ \A g \in DOMAIN job.report : g # f => job'.report[g] = job.report[g]
  BY <1>1, <1>2, AfterIsScript
<1>5. TransferTypeInv' /\ MarkedIsJudged' /\ RefusedIsTheMiners'
  BY <1>1, <1>3 DEF TransferInv, TransferTypeInv, MarkedIsJudged, RefusedIsTheMiners
<1>6. OrphanInv'
  BY <1>1, <1>3 DEF TransferInv, OrphanInv, Promoting, Older, IsScript
<1>7. CASE pc = "fetching"
  <2>1. FetchOne(job, f, outcome) /\ DOMAIN job.report = Files /\ f \in Files /\ job.kind = "fetch"
    BY <1>1, <1>2, <1>7 DEF HostStep, HashOne, PutPart, TransferInv, FetchInv
  <2>2. /\ outcome \in {"kept", "fetched"} => tree'[f] = "right"
        /\ outcome = "mismatch" => bucket.object[f] # "right"
    BY <2>1, FetchEvidence
  <2>3. FetchInv'
    BY <1>3, <1>4, <1>7, <2>1, <2>2 DEF TransferInv, FetchInv, IsScript
  <2>4. SendInv' /\ DoneInv'
    BY <1>3, <1>7 DEF SendInv, DoneInv, Sending
  <2> QED
    BY <1>5, <1>6, <2>3, <2>4 DEF TransferInv
<1>8. CASE pc = "uploading"
  <2>1. /\ job.kind = "upload" /\ \A g \in DOMAIN job.report : job.ids[g] = <<g, tries>>
    BY <1>8 DEF TransferInv, SendInv, Sending
  <2>2. HashOne(job, f, outcome) \/ PutPart(job, f, outcome)
    BY <1>1, <2>1 DEF HostStep, FetchOne
  <2>3. /\ outcome \in {"hashed", "sent"} => tree'[f] = "right"
        /\ outcome = "sent" /\ <<f, tries>> \in DOMAIN uploads => uploads'[<<f, tries>>] = "right"
    <3>1. CASE HashOne(job, f, outcome)
      BY <3>1 DEF HashOne
    <3>2. CASE PutPart(job, f, outcome)
      <4>1. tree[f] = "right" /\ tree' = tree
        BY <3>2, <1>8 DEF PutPart, TransferInv, SendInv, Sending
      <4>2. outcome = "sent" => uploads' = [uploads EXCEPT ![<<f, tries>>] = tree[f]]
        BY <3>2, <2>1 DEF PutPart
      <4> QED
        BY <4>1, <4>2
    <3> QED
      BY <2>2, <3>1, <3>2
  <2>4. \A g \in DOMAIN job.report :
          g # f /\ <<g, tries>> \in DOMAIN uploads => uploads'[<<g, tries>>] = uploads[<<g, tries>>]
    BY <1>3, <2>1
  <2>5. \A g \in DOMAIN job.report : g \in Files
    BY <1>2 DEF IsScript
  <2>6. SendInv'
    <3> SUFFICES ASSUME NEW g \in DOMAIN job'.report
                 PROVE  /\ job'.ids[g] = <<g, tries'>>
                        /\ mine'[g] \in {job'.ids[g], NONE}
                        /\ pc' = "uploading" => mine'[g] = job'.ids[g]
                        /\ job'.report[g] \in {"hashed", "sent"} => tree'[g] = "right"
                        /\ job'.report[g] = "sent" /\ <<g, tries'>> \in DOMAIN uploads' =>
                             uploads'[<<g, tries'>>] = "right"
      BY <1>4, <2>1 DEF SendInv
    <3>1. CASE g = f
      BY <1>3, <1>4, <1>8, <2>1, <2>3, <3>1 DEF TransferInv, SendInv, Sending
    <3>2. CASE g # f
      BY <1>3, <1>4, <1>8, <2>1, <2>4, <2>5, <3>2 DEF TransferInv, SendInv, Sending
    <3> QED
      BY <3>1, <3>2
  <2>7. FetchInv' /\ DoneInv'
    BY <1>3, <1>4, <1>8 DEF FetchInv, TransferInv, DoneInv, Sending
  <2> QED
    BY <1>5, <1>6, <2>6, <2>7 DEF TransferInv
<1> QED
  BY <1>2, <1>7, <1>8

\* An attempt that ends, whichever way: nothing it leaves is a promise.
LEMMA EndsKeep ==
  ASSUME TransferInv,
         \/ FetchAnswers \/ RunnerFails \/ Crash \/ PutManifest
         \/ (\E f \in Files : CompleteRaises(f))
         \/ (UploadAnswers /\ Leave) \/ (Completed /\ Leave)
  PROVE  TransferInv'
<1> USE DEF TransferInv, TransferTypeInv
<1>1. pc' = "idle" /\ UNCHANGED <<bucket, tree, tries>> /\ orphans' \subseteq Abandoned
  BY DEF FetchAnswers, RunnerFails, Crash, PutManifest, CompleteRaises, UploadAnswers, Completed,
         Leave, Abandoned
<1>2. /\ mine' = NoneMine \/ mine' = mine
      /\ uploads' = [id \in DOMAIN uploads' |-> uploads'[id]]
  BY DEF FetchAnswers, RunnerFails, Crash, PutManifest, CompleteRaises, UploadAnswers, Completed,
         Leave, Abort, prefix
<1>3. public' \in [Files -> {NONE, "right"}] /\ \A f \in Files : public[f] = "right" => public'[f] = "right"
  <2>1. CASE public' = public
    BY <2>1
  <2>2. ASSUME NEW f \in Files, CompleteRaises(f)
        PROVE  \/ public' = public
               \/ public' = [public EXCEPT ![f] = "right"]
    <3>1. pc = "completing" /\ f \in DOMAIN job.report /\ job.report[f] = "sent" /\ mine[f] # NONE
          /\ mine[f] \in DOMAIN uploads /\ public' \in {public, [public EXCEPT ![f] = uploads[mine[f]]]}
      BY <2>2 DEF CompleteRaises, ToComplete, Completable
    <3>2. mine[f] = <<f, tries>>
      BY <3>1 DEF SendInv, Sending
    <3>3. uploads[mine[f]] = "right"
      BY <3>1, <3>2 DEF SendInv, Sending
    <3> QED
      BY <3>1, <3>3
  <2> QED
    BY <2>1, <2>2
       DEF FetchAnswers, RunnerFails, Crash, PutManifest, UploadAnswers, Completed, prefix
<1>4. MarkedIsJudged'
  <2>1. marker' => \A f \in Files : tree[f] = "right"
    BY DEF FetchAnswers, FetchInv, RunnerFails, Crash, PutManifest, CompleteRaises, UploadAnswers,
           Completed, MarkedIsJudged
  <2>2. named' => \A f \in Files : public[f] = "right"
    BY DEF FetchAnswers, RunnerFails, Crash, PutManifest, CompleteRaises, UploadAnswers, Completed,
           MarkedIsJudged, DoneInv, prefix
  <2> QED
    BY <1>1, <1>3, <2>1, <2>2 DEF MarkedIsJudged
<1>5. RefusedIsTheMiners'
  BY <1>1 DEF FetchAnswers, FetchInv, RunnerFails, Crash, PutManifest, CompleteRaises,
              UploadAnswers, Completed, RefusedIsTheMiners
<1> QED
  BY <1>1, <1>2, <1>3, <1>4, <1>5, IdleKeeps

\* Starting a fetch keeps the invariant.
LEMMA StartFetchKeeps == ASSUME TransferInv, StartFetch PROVE TransferInv'
<1>1. UNCHANGED <<bucket, tree, marker, orphans, public, named, uploads, mine, tries>>
  BY DEF StartFetch, prefix
<1>2. CASE ListingRefuses
  <2>1. pc = "idle" /\ pc' = "idle" /\ verdict' = "refused"
    BY <1>2 DEF StartFetch
  <2>2. RefusedIsTheMiners'
    BY <1>1, <1>2 DEF ListingRefuses, RefusedIsTheMiners
  <2>3. TransferTypeInv' /\ FetchInv' /\ SendInv' /\ DoneInv' /\ MarkedIsJudged'
    BY <1>1, <2>1 DEF TransferInv, TransferTypeInv, FetchInv, SendInv, Sending, DoneInv, MarkedIsJudged
  <2>4. OrphanInv'
    BY <1>1, <2>1 DEF TransferInv, OrphanInv, Older, Promoting, IsScript
  <2> QED
    BY <2>2, <2>3, <2>4 DEF TransferInv
<1>3. CASE ~ ListingRefuses
  <2>1. /\ pc' = "fetching" /\ verdict' = verdict
        /\ job' = [kind |-> "fetch", report |-> [f \in Files |-> "todo"], ids |-> NONE]
    BY <1>3 DEF StartFetch, Script
  <2>2. FetchInv'
    BY <2>1 DEF FetchInv, IsScript
  <2>3. SendInv' /\ DoneInv' /\ TransferTypeInv' /\ MarkedIsJudged' /\ RefusedIsTheMiners'
    BY <1>1, <2>1 DEF SendInv, DoneInv, Sending, TransferInv, TransferTypeInv, MarkedIsJudged, RefusedIsTheMiners
  <2>4. OrphanInv'
    BY <1>1, <2>1 DEF TransferInv, OrphanInv, Older, Promoting, IsScript
  <2> QED
    BY <2>2, <2>3, <2>4 DEF TransferInv
<1> QED
  BY <1>2, <1>3

\* A promotion opens: what it inherits is gone, and older scripts are older than it.
LEMMA StartPromotionKeeps == ASSUME TransferInv, StartPromotion PROVE TransferInv'
<1>1. /\ pc = "idle" /\ tries' = tries + 1 /\ tries \in Nat /\ mine' = NoneMine
      /\ pc' = (IF Publishable = {} THEN "naming" ELSE "creating")
      /\ UNCHANGED <<bucket, tree, marker, verdict, job, orphans, public, named>>
  BY DEF StartPromotion, TransferInv, TransferTypeInv
<1>2. DOMAIN uploads' = {} /\ uploads' = [id \in DOMAIN uploads' |-> uploads'[id]]
  BY DEF StartPromotion, Inherited, Abort
<1>3. TransferTypeInv' /\ FetchInv' /\ SendInv' /\ MarkedIsJudged' /\ RefusedIsTheMiners'
  BY <1>1, <1>2
     DEF TransferInv, TransferTypeInv, FetchInv, SendInv, Sending, NoneMine, MarkedIsJudged, RefusedIsTheMiners
<1>4. DoneInv'
  BY <1>1 DEF DoneInv, Sending, NoneMine, Publishable, TransferInv, TransferTypeInv
<1>5. \A n : Older(n) => Older(n)'
  BY <1>1 DEF Older
<1>6. OrphanInv'
  BY <1>1, <1>2, <1>5 DEF TransferInv, OrphanInv, IsScript
<1> QED
  BY <1>3, <1>4, <1>6 DEF TransferInv

\* Opening a multipart upload keeps the invariant.
LEMMA CreateKeeps == ASSUME TransferInv, NEW f \in Files, Create(f) PROVE TransferInv'
<1>1. /\ pc = "creating" /\ mine' = [mine EXCEPT ![f] = <<f, tries>>]
      /\ uploads' = [id \in DOMAIN uploads \cup {<<f, tries>>} |->
                       IF id = <<f, tries>> THEN NONE ELSE uploads[id]]
      /\ UNCHANGED <<bucket, tree, marker, verdict, pc, job, orphans, public, named, tries>>
  BY DEF Create
<1>2. TransferTypeInv'
  BY <1>1 DEF TransferInv, TransferTypeInv
<1>2a. FetchInv' /\ SendInv' /\ MarkedIsJudged' /\ RefusedIsTheMiners'
  BY <1>1 DEF TransferInv, FetchInv, SendInv, Sending, MarkedIsJudged, RefusedIsTheMiners
<1>3. DoneInv'
  BY <1>1 DEF TransferInv, DoneInv, Sending, TransferTypeInv
<1>4. \A n : Older(n) => Older(n)'
  BY <1>1 DEF Older, Promoting
<1>5. OrphanInv'
  BY <1>1, <1>4 DEF TransferInv, OrphanInv, Promoting, IsScript
<1> QED
  BY <1>2, <1>2a, <1>3, <1>5 DEF TransferInv

\* Starting the upload script keeps the invariant.
LEMMA StartUploadKeeps == ASSUME TransferInv, StartUpload PROVE TransferInv'
<1>1. /\ pc = "creating" /\ \A f \in Publishable : mine[f] # NONE
      /\ pc' = "uploading"
      /\ job' = [kind |-> "upload", report |-> [f \in Publishable |-> "todo"], ids |-> mine]
      /\ UNCHANGED <<bucket, tree, marker, verdict, orphans, public, named, uploads, mine, tries>>
  BY DEF StartUpload, Script, prefix
<1>2. Publishable \subseteq Files /\ \A f \in Publishable : mine[f] = <<f, tries>>
  BY <1>1 DEF Publishable, TransferInv, DoneInv
<1>3. IsScript(job') /\ job'.kind = "upload" /\ DOMAIN job'.report = Publishable /\ job'.ids = mine
      /\ \A f \in Publishable : job'.report[f] = "todo"
  BY <1>1, <1>2 DEF IsScript
<1>4. SendInv'
  BY <1>1, <1>2, <1>3 DEF SendInv
<1>5. DoneInv'
  BY <1>1, <1>2, <1>3 DEF DoneInv, Sending, Publishable, TransferInv, TransferTypeInv
<1>6. TransferTypeInv' /\ FetchInv' /\ MarkedIsJudged' /\ RefusedIsTheMiners'
  BY <1>1 DEF TransferInv, TransferTypeInv, FetchInv, MarkedIsJudged, RefusedIsTheMiners
<1>7. OrphanInv'
  BY <1>1 DEF TransferInv, OrphanInv, Older, Promoting, IsScript
<1> QED
  BY <1>4, <1>5, <1>6, <1>7 DEF TransferInv

\* The script answered and every file may be completed, or was.
LEMMA GoesOnKeeps ==
  ASSUME TransferInv, pc = "uploading" \/ (pc = "completing" /\ ToComplete = {}
                                    /\ \A f \in DOMAIN job.report : Completable(job.report[f])),
         pc' = (IF pc = "uploading" THEN "completing" ELSE "naming"),
         pc = "uploading" => job' = job,
         UNCHANGED <<bucket, tree, marker, verdict, orphans, public, named, uploads, mine, tries>>
  PROVE  TransferInv'
<1>1. Sending /\ Promoting
  BY DEF Sending, Promoting
<1>2. TransferTypeInv' /\ FetchInv' /\ MarkedIsJudged' /\ RefusedIsTheMiners'
  BY DEF TransferInv, TransferTypeInv, FetchInv, MarkedIsJudged, RefusedIsTheMiners
<1>3. SendInv'
  BY <1>1 DEF TransferInv, SendInv, Sending, IsScript
<1>4. DoneInv'
  <2>1. CASE pc = "uploading"
    BY <1>1, <2>1 DEF TransferInv, DoneInv, Sending
  <2>2. CASE pc = "completing"
    <3>1. \A f \in DOMAIN job.report : mine[f] = NONE
      BY <2>2 DEF ToComplete
    <3>2. \A f \in Files : public[f] = "right"
      BY <1>1, <3>1 DEF TransferInv, DoneInv
    <3> QED
      BY <2>2, <3>2 DEF DoneInv, Sending
  <2> QED
    BY <2>1, <2>2
<1>5. OrphanInv'
  BY <1>1 DEF TransferInv, OrphanInv, Older, Promoting, IsScript
<1> QED
  BY <1>2, <1>3, <1>4, <1>5 DEF TransferInv

\* One upload is completed: its ETag was the MD5 of right bytes, and it is the promotion's own.
LEMMA CompleteKeeps == ASSUME TransferInv, NEW f \in Files, Complete(f) PROVE TransferInv'
<1>1. /\ pc = "completing" /\ f \in DOMAIN job.report /\ job.report[f] = "sent" /\ mine[f] # NONE
      /\ mine[f] \in DOMAIN uploads
      /\ public' = [public EXCEPT ![f] = uploads[mine[f]]]
      /\ uploads' = Abort({mine[f]}) /\ mine' = [mine EXCEPT ![f] = NONE]
      /\ UNCHANGED <<bucket, tree, marker, verdict, pc, job, orphans, named, tries>>
  BY DEF Complete, ToComplete, Completable
<1>2. Sending /\ Promoting /\ mine[f] = <<f, tries>> /\ uploads[mine[f]] = "right"
  BY <1>1 DEF TransferInv, SendInv, Sending, Promoting
<1>3. public' = [public EXCEPT ![f] = "right"]
  BY <1>1, <1>2
<1>4. /\ DOMAIN uploads' = DOMAIN uploads \ {<<f, tries>>}
      /\ uploads' = [id \in DOMAIN uploads' |-> uploads'[id]]
      /\ \A id \in DOMAIN uploads' : uploads'[id] = uploads[id]
  BY <1>1, <1>2 DEF Abort
<1>5. TransferTypeInv' /\ FetchInv' /\ RefusedIsTheMiners' /\ MarkedIsJudged'
  BY <1>1, <1>3, <1>4 DEF TransferInv, TransferTypeInv, FetchInv, RefusedIsTheMiners, MarkedIsJudged
<1>6. SendInv'
  <2>1. IsScript(job) /\ f \in Files
    BY <1>2 DEF TransferInv, SendInv
  <2>2. \A g \in Files : mine'[g] = IF g = f THEN NONE ELSE mine[g]
    BY <1>1, <2>1 DEF TransferInv, TransferTypeInv
  <2> SUFFICES ASSUME NEW g \in DOMAIN job.report
               PROVE  /\ job.ids[g] = <<g, tries>>
                      /\ mine'[g] \in {job.ids[g], NONE}
                      /\ job.report[g] \in {"hashed", "sent"} => tree[g] = "right"
                      /\ job.report[g] = "sent" /\ <<g, tries>> \in DOMAIN uploads' =>
                           uploads'[<<g, tries>>] = "right"
    BY <1>1, <1>2, <2>1 DEF TransferInv, SendInv, IsScript
  <2>3. g \in Files
    BY <2>1 DEF IsScript
  <2> QED
    BY <1>2, <1>4, <2>2, <2>3 DEF TransferInv, SendInv
<1>7. DoneInv'
  BY <1>1, <1>2, <1>3 DEF TransferInv, TransferTypeInv, DoneInv, Sending
<1>8. OrphanInv'
  BY <1>1, <1>2, <1>4 DEF TransferInv, OrphanInv, Older, Promoting, IsScript
<1> QED
  BY <1>5, <1>6, <1>7, <1>8 DEF TransferInv

\* Every step keeps the invariant.
LEMMA TransferStep == TransferInv /\ [TransferNext]_transferVars => TransferInv'
<1> SUFFICES ASSUME TransferInv, [TransferNext]_transferVars PROVE TransferInv'
  OBVIOUS
<1>1. CASE UNCHANGED transferVars
  <2>1. UNCHANGED <<bucket, tree, marker, verdict, pc, job, orphans, public, named, uploads, mine, tries>>
    BY <1>1 DEF transferVars
  <2>2. TransferTypeInv' /\ MarkedIsJudged' /\ RefusedIsTheMiners'
    BY <2>1 DEF TransferInv, TransferTypeInv, MarkedIsJudged, RefusedIsTheMiners
  <2>4. FetchInv'
    BY <2>1 DEF TransferInv, FetchInv, IsScript
  <2>5. SendInv'
    BY <2>1 DEF TransferInv, SendInv, Sending, IsScript
  <2>6. DoneInv'
    BY <2>1 DEF TransferInv, DoneInv, Sending
  <2>3. OrphanInv'
    BY <2>1 DEF TransferInv, OrphanInv, Older, Promoting, IsScript
  <2> QED
    BY <2>2, <2>3, <2>4, <2>5, <2>6 DEF TransferInv
<1>2. CASE OrphanStops
  <2>1. orphans' \subseteq orphans
        /\ UNCHANGED <<bucket, tree, marker, verdict, pc, job, public, named, uploads, mine, tries>>
    BY <1>2 DEF OrphanStops, prefix
  <2>2. TransferTypeInv' /\ MarkedIsJudged' /\ RefusedIsTheMiners'
    BY <2>1 DEF TransferInv, TransferTypeInv, MarkedIsJudged, RefusedIsTheMiners
  <2>4. FetchInv'
    BY <2>1 DEF TransferInv, FetchInv, IsScript
  <2>5. SendInv'
    BY <2>1 DEF TransferInv, SendInv, Sending, IsScript
  <2>6. DoneInv'
    BY <2>1 DEF TransferInv, DoneInv, Sending
  <2>3. OrphanInv'
    BY <2>1 DEF TransferInv, OrphanInv, Older, Promoting, IsScript
  <2> QED
    BY <2>2, <2>3, <2>4, <2>5, <2>6 DEF TransferInv
<1>3. CASE UploadAnswers
  <2>1. CASE Leave
    BY <1>3, <2>1, EndsKeep
  <2>2. CASE pc' = "completing" /\ UNCHANGED <<job, mine, uploads>>
    <3>1. pc = "uploading"
      BY <1>3 DEF UploadAnswers
    <3>2. UNCHANGED <<bucket, tree, marker, verdict, orphans, public, named, tries>>
      BY <1>3 DEF UploadAnswers
    <3> QED
      BY <2>2, <3>1, <3>2, GoesOnKeeps
  <2> QED
    BY <1>3, <2>1, <2>2 DEF UploadAnswers
<1>4. CASE Completed
  <2>1. CASE Leave
    BY <1>4, <2>1, EndsKeep
  <2>2. CASE /\ \A f \in DOMAIN job.report : Completable(job.report[f])
             /\ pc' = "naming" /\ UNCHANGED <<mine, uploads>>
    <3>1. pc = "completing" /\ ToComplete = {}
          /\ UNCHANGED <<bucket, tree, marker, verdict, orphans, public, named, tries>>
      BY <1>4 DEF Completed
    <3> QED
      BY <2>2, <3>1, GoesOnKeeps
  <2> QED
    BY <1>4, <2>1, <2>2 DEF Completed
<1> QED
  BY <1>1, <1>2, <1>3, <1>4, StartFetchKeeps, StartPromotionKeeps, CreateKeeps, StartUploadKeeps,
     CompleteKeeps, JobWorksKeeps, OrphanWorksKeeps, EndsKeep DEF TransferNext, Controller

-----------------------------------------------------------------------------
(* Theorems. *)

\* What scripts, old and new, and the controller keep between them.
THEOREM TransferInvariant == TransferSpec => []TransferInv
  BY TransferStart, TransferStep, PTL DEF TransferSpec

\* However often a path cuts, corrupts or drops, a submission whose bytes are the committed ones is
\* never refused (fetch_one, _judge_fetch), for any number of files, attempts and faults.
THEOREM NeverRefusedForThePath == TransferSpec => []RefusedIsTheMiners
<1>1. TransferInv => RefusedIsTheMiners
  BY DEF TransferInv
<1> QED
  BY <1>1, TransferInvariant, PTL

\* The marker and the public manifest are true and stay true, whatever scripts of dead controllers
\* are still writing (promote_submission, HostTrees.upload).
THEOREM MarksAreTrue == TransferSpec => []MarkedIsJudged
<1>1. TransferInv => MarkedIsJudged
  BY DEF TransferInv
<1> QED
  BY <1>1, TransferInvariant, PTL
=============================================================================
