----------------------------- MODULE Submissions -----------------------------
(***************************************************************************)
(* A submission from the credential to the deletion of its bytes: the      *)
(* owner's watcher (owner.watch, issue_round) hands out credentials, the   *)
(* miner's tool (miner.submit) uploads a tree and signals it on chain, the *)
(* validator's daemon spends the shot (_queue), settles windows and runs   *)
(* the two retention sweeps (_apply_retention).  The three share the       *)
(* one-shot ledger of Mailbox, the chain and the private bucket.         *)
(*                                                                         *)
(* The daemon's window and its sweeps follow each other in one thread, so  *)
(* they are one process; the verdict of a window is a choice here (Queue   *)
(* and ValidatorLoop model how it is reached).  Any time may pass between  *)
(* two steps, so what is older than a grace period or than the watcher's   *)
(* rotate_after is chosen where the code compares the clock.               *)
(***************************************************************************)
EXTENDS Mailbox, FiniteSets

CONSTANTS
  WATCH, CLI, DAEMON,   \* the processes that open the ledger
  Generations,          \* the watcher's cap on rotations
  PerPass,              \* its limit on credentials per pass
  Miners,               \* the hotkeys whose owner runs the submit command
  MaxUpsets             \* crashes, failed puts, unreadable chain slots, deregistrations and
                        \* key-only credentials, together

\* Three processes; only the daemon and the watcher outlive what they write.
ASSUME ProcessesAssumption ==
  {WATCH, CLI, DAEMON} \subseteq Writers /\ WATCH # CLI /\ DAEMON \notin {WATCH, CLI}

VARIABLES
  born,      \* hotkey -> the number of its latest registration
  live,      \* the hotkeys that hold a uid
  said,      \* hotkey -> the registration its ready signal names, or NONE
  held,      \* registration -> the objects under its prefix of the private bucket
  session,   \* hotkey -> the registration its submit command is working for, or NONE
  seen,      \* the watcher's record of a hotkey
  watchFile, \* watch.json
  watch,     \* where the watcher is
  daemon,    \* where the daemon is
  record,    \* History: judged, crowned, pending, purged
  upsets

chain == <<born, live, said>>
watcher == <<seen, watchFile, watch>>
submissionsVars == <<mailboxVars, chain, held, session, watcher, daemon, record, upsets>>

Reg(h) == <<h, born[h]>>
Signalled == {said[h] : h \in {x \in live : said[x] # NONE}}
Idle == [pc |-> "idle"]
Unseen == [generation |-> 0, refused |-> FALSE]

SubmissionsInit ==
  /\ MailboxInit
  /\ born = [h \in Hotkeys |-> 0] /\ live = {} /\ said = [h \in Hotkeys |-> NONE]
  /\ held = [r \in Registrations |-> {}]
  /\ session = [h \in Hotkeys |-> NONE]
  /\ seen = [h \in Hotkeys |-> Unseen] /\ watchFile = seen /\ watch = Idle
  /\ daemon = Idle
  /\ record = [judged |-> [h \in Hotkeys |-> NONE], crowned |-> {}, pending |-> NONE, purged |-> {}]
  /\ upsets = 0

Upset == upsets < MaxUpsets /\ upsets' = upsets + 1

-----------------------------------------------------------------------------
(* The chain. *)

Register(h) ==
  /\ h \notin live /\ born[h] < MaxReg
  /\ born' = [born EXCEPT ![h] = @ + 1] /\ live' = live \cup {h}
  /\ UNCHANGED <<mailboxVars, said, held, session, watcher, daemon, record, upsets>>

Deregister(h) ==
  /\ h \in live /\ Upset
  /\ live' = live \ {h}
  /\ UNCHANGED <<mailboxVars, born, said, held, session, watcher, daemon, record>>

-----------------------------------------------------------------------------
(***************************************************************************)
(* The watcher.  A pass reads the ready signals (slots may be unreadable), *)
(* the spent shots as far as its own copy of the ledger knows them, and    *)
(* the metagraph, and then takes the hotkeys one by one.                   *)
(***************************************************************************)
Listable(view) == \A h \in Hotkeys : view.issued[h].key > 0 => view.issued[h].tree > 0

BeginPass ==
  /\ watch = Idle
  /\ Listable(mem[WATCH])       \* outstanding() raises otherwise, and the pass is given up
  /\ \E unread \in SUBSET {h \in live : said[h] # NONE} :
       /\ IF unread = {} THEN UNCHANGED upsets ELSE Upset
       /\ watch' = [pc |-> "pass", made |-> 0,
                    todo |-> {h \in live \ unread : said[h] = NONE /\ ~Spent(mem[WATCH], h)}
                             \cup {h \in unread : ~Spent(mem[WATCH], h)}]
  /\ UNCHANGED <<mailboxVars, chain, held, session, seen, watchFile, daemon, record>>

\* A refusal is retried once it is stale; a credential is rotated once it is stale, up to the cap.
Wanted(h) == seen[h].generation < Generations
Fresh(h) == seen[h] # Unseen

Note(h, generation, refused) ==
  seen' = [seen EXCEPT ![h] = [generation |-> generation, refused |-> refused]]

Done(h) == watch' = [watch EXCEPT !.todo = @ \ {h}]

InPass(h) == watch.pc = "pass" /\ outbox[WATCH] = NONE /\ watch.made < PerPass /\ h \in watch.todo

PassOver(h) ==
  /\ InPass(h) /\ (Fresh(h) \/ ~Wanted(h))
  /\ Done(h)
  /\ UNCHANGED <<mailboxVars, chain, held, session, seen, watchFile, daemon, record, upsets>>

\* issue: registration_of reads the chain again, and the mailbox its ledger.
IssueTree(h) ==
  /\ InPass(h) /\ Wanted(h) /\ h \in live
  /\ Mint(WATCH, Reg(h), "tree")
  /\ UNCHANGED <<chain, held, session, watcher, daemon, record, upsets>>

RefuseTree(h) ==
  /\ InPass(h) /\ Wanted(h)
  /\ \/ h \notin live /\ UNCHANGED mailboxVars
     \/ h \in live /\ Refuse(WATCH, Reg(h), "tree")
  /\ Note(h, 0, TRUE) /\ Done(h)
  /\ UNCHANGED <<chain, held, session, watchFile, daemon, record, upsets>>

PublishTree ==
  /\ Publish(WATCH)
  /\ LET h == Owner(outbox[WATCH].registration) IN
       /\ Note(h, outbox[WATCH].generation, FALSE)
       /\ watch' = [watch EXCEPT !.todo = @ \ {h}, !.made = @ + 1]
  /\ UNCHANGED <<chain, held, session, watchFile, daemon, record, upsets>>

PutRaisesNoted ==
  /\ Upset
  /\ LoseEnvelope(WATCH)
  /\ Note(Owner(outbox[WATCH].registration), outbox[WATCH].generation, FALSE)
  /\ watchFile' = seen' /\ watch' = Idle
  /\ UNCHANGED <<chain, held, session, daemon, record>>

\* The put raises out of issue_round: the pass ends without a note of the lost generation.
PutRaises ==
  /\ Upset
  /\ LoseEnvelope(WATCH)
  /\ watchFile' = seen /\ watch' = Idle
  /\ UNCHANGED <<chain, held, session, seen, daemon, record>>

EndPass ==
  /\ watch.pc = "pass" /\ outbox[WATCH] = NONE
  /\ watch.todo = {} \/ watch.made = PerPass
  /\ watchFile' = seen /\ watch' = Idle
  /\ UNCHANGED <<mailboxVars, chain, held, session, seen, daemon, record, upsets>>

WatcherRestarts ==
  /\ Upset
  /\ Reopen(WATCH)
  /\ seen' = watchFile /\ watch' = Idle
  /\ UNCHANGED <<chain, held, session, watchFile, daemon, record>>

\* `thirtyspokes-owner issue --key-only`: a process of its own.
IssueKey(h) ==
  /\ h \in live /\ Upset
  /\ Mint(CLI, Reg(h), "key")
  /\ UNCHANGED <<chain, held, session, watcher, daemon, record>>

PublishKey ==
  /\ PublishAndExit(CLI)
  /\ UNCHANGED <<chain, held, session, watcher, daemon, record, upsets>>
-----------------------------------------------------------------------------
(***************************************************************************)
(* The miner.  submit reads the registration and refuses a hotkey whose    *)
(* signal it can see; upload_tree refuses a prefix with a manifest and     *)
(* writes the manifest last; the signal follows.  It may stop anywhere.    *)
(***************************************************************************)
HoldsCredential(r) ==
  \E e \in published : e.registration = r /\ e.series = "tree"

OpenSession(h) ==
  /\ h \in Miners /\ session[h] = NONE /\ h \in live /\ said[h] = NONE
  /\ HoldsCredential(Reg(h)) /\ "manifest" \notin held[Reg(h)]
  /\ session' = [session EXCEPT ![h] = Reg(h)]
  /\ UNCHANGED <<mailboxVars, chain, held, watcher, daemon, record, upsets>>

Upload(h, object) ==
  LET r == session[h] IN
  /\ r # NONE /\ object \notin held[r] /\ "manifest" \notin held[r]
  /\ object = "manifest" => "weights" \in held[r]
  /\ held' = [held EXCEPT ![r] = @ \cup {object}]
  /\ UNCHANGED <<mailboxVars, chain, session, watcher, daemon, record, upsets>>

CommitReady(h) ==
  /\ session[h] # NONE /\ "manifest" \in held[session[h]]
  /\ h \in live
  /\ said' = [said EXCEPT ![h] = session[h]]
  /\ session' = [session EXCEPT ![h] = NONE]
  /\ UNCHANGED <<mailboxVars, born, live, held, watcher, daemon, record, upsets>>

SessionEnds(h) ==
  /\ session[h] # NONE
  /\ session' = [session EXCEPT ![h] = NONE]
  /\ UNCHANGED <<mailboxVars, chain, held, watcher, daemon, record, upsets>>

-----------------------------------------------------------------------------
(***************************************************************************)
(* The daemon's window: _queue spends the shot of every signal of an       *)
(* unjudged hotkey it could read, one transaction each, and settle records *)
(* who was judged.  An entry without its objects is judged and refused.    *)
(***************************************************************************)
Judged(h) == record.judged[h] # NONE

OpenWindow ==
  /\ daemon = Idle
  /\ \E unread \in SUBSET {h \in live : said[h] # NONE} :
       /\ IF unread = {} THEN UNCHANGED upsets ELSE Upset
       /\ LET pending == {h \in live \ unread : said[h] # NONE /\ ~Judged(h)} IN
            /\ pending # {}
            /\ daemon' = [pc |-> "queue", queue |-> {},
                          todo |-> {<<h, said[h], born[h]>> : h \in pending}]
  /\ UNCHANGED <<mailboxVars, chain, held, session, watcher, record>>

\* consume raises for a signal that names another registration or another signal than the spent one.
Spend(entry) ==
  LET h == entry[1]
      r == entry[2]
      mine == r[2] = entry[3] /\ Accepts(DAEMON, r, 0)
  IN /\ daemon.pc = "queue" /\ entry \in daemon.todo
     /\ IF mine THEN Consume(DAEMON, r, 0) ELSE RefuseSignal(DAEMON)
     /\ daemon' = [daemon EXCEPT !.todo = @ \ {entry},
                                 !.queue = IF mine THEN @ \cup {r} ELSE @]
     /\ UNCHANGED <<chain, held, session, watcher, record, upsets>>

Whole(r) == {"weights", "manifest"} \subseteq held[r]

Settle ==
  /\ daemon.pc = "queue" /\ daemon.todo = {}
  /\ \E judged \in SUBSET daemon.queue, winner \in daemon.queue \cup {NONE}, public \in BOOLEAN :
       /\ winner # NONE => winner \in judged /\ Whole(winner)
       /\ winner = NONE => ~public
       /\ record' = [record EXCEPT
            !.judged = [h \in Hotkeys |->
                         IF \E r \in judged : Owner(r) = h
                           THEN CHOOSE r \in judged : Owner(r) = h ELSE @[h]],
            !.crowned = IF public THEN @ \cup {Owner(winner)} ELSE @,
            !.pending = IF winner = NONE THEN @ ELSE IF public THEN NONE ELSE Owner(winner)]
  /\ daemon' = Idle
  /\ UNCHANGED <<mailboxVars, chain, held, session, watcher, upsets>>

\* _settle_pending_crown: the copy verified, or its retries are spent or its hotkey gone.
ResolvePending(promoted) ==
  /\ daemon = Idle /\ record.pending # NONE
  /\ record' = [record EXCEPT !.pending = NONE,
       !.crowned = IF promoted THEN @ \cup {record.pending} ELSE @]
  /\ UNCHANGED <<mailboxVars, chain, held, session, watcher, daemon, upsets>>

-----------------------------------------------------------------------------
(***************************************************************************)
(* The sweeps.  _retire_judged deletes the weights of judged losers and    *)
(* keeps their manifests; _sweep_unclaimed reads the chain, then lists the *)
(* bucket, then deletes whole prefixes one by one.                         *)
(***************************************************************************)
Losers == {h \in Hotkeys : /\ Judged(h)
                           /\ h \notin record.crowned \cup {record.pending}
                           /\ record.judged[h] \notin record.purged}

RetireJudged(expired) ==
  /\ daemon = Idle /\ expired # {}
  /\ held' = [r \in Registrations |-> IF r \in expired THEN held[r] \cap {"manifest"} ELSE held[r]]
  /\ record' = [record EXCEPT !.purged = @ \cup expired]
  /\ UNCHANGED <<mailboxVars, chain, session, watcher, daemon, upsets>>

\* The read is trusted only if no slot's query raised.
SurveyAnyway ==
  /\ daemon = Idle
  /\ \E unread \in SUBSET {h \in live : said[h] # NONE} :
       daemon' = [pc |-> "sweep", named |-> {said[h] : h \in {x \in live \ unread : said[x] # NONE}},
                  truth |-> Signalled, doomed |-> NONE]
  /\ UNCHANGED <<mailboxVars, chain, held, session, watcher, record, upsets>>
Survey ==
  /\ daemon = Idle
  /\ daemon' = [pc |-> "sweep", named |-> Signalled, truth |-> Signalled, doomed |-> NONE]
  /\ UNCHANGED <<mailboxVars, chain, held, session, watcher, record, upsets>>

\* _retained_registrations: whatever the chain read returned.
RetainedUnspent ==
  {record.judged[h] : h \in {x \in Hotkeys : Judged(x)}}
Retained ==
  {record.judged[h] : h \in {x \in Hotkeys : Judged(x)}} \cup SpentRegistrations(mem[DAEMON])

\* unclaimed_plan, from a listing made after the chain was read.
Plan ==
  /\ daemon.pc = "sweep" /\ daemon.doomed = NONE
  /\ \E expired \in SUBSET {r \in Registrations :
                             held[r] # {} /\ r \notin daemon.named /\ r \notin Retained} :
       daemon' = [daemon EXCEPT !.doomed = expired]
  /\ UNCHANGED <<mailboxVars, chain, held, session, watcher, record, upsets>>

DeletePrefix(r) ==
  /\ daemon.pc = "sweep" /\ daemon.doomed # NONE /\ r \in daemon.doomed
  /\ held' = [held EXCEPT ![r] = {}]
  /\ daemon' = [daemon EXCEPT !.doomed = @ \ {r}]
  /\ UNCHANGED <<mailboxVars, chain, session, watcher, record, upsets>>

EndSweep ==
  /\ daemon.pc = "sweep" /\ daemon.doomed = {}
  /\ daemon' = Idle
  /\ UNCHANGED <<mailboxVars, chain, held, session, watcher, record, upsets>>

DaemonRestarts ==
  /\ Upset
  /\ Reopen(DAEMON)
  /\ daemon' = Idle
  /\ UNCHANGED <<chain, held, session, watcher, record>>

-----------------------------------------------------------------------------
Watching ==
  \/ BeginPass \/ PublishTree \/ EndPass
  \/ \E h \in Hotkeys : PassOver(h) \/ IssueTree(h) \/ RefuseTree(h)

SubmissionsNext ==
  \/ Watching \/ PutRaises \/ WatcherRestarts \/ PublishKey
  \/ OpenWindow \/ Settle \/ Survey \/ Plan \/ EndSweep \/ DaemonRestarts
  \/ \E expired \in SUBSET {record.judged[h] : h \in Losers} : RetireJudged(expired)
  \/ \E promoted \in BOOLEAN : ResolvePending(promoted)
  \/ \E r \in Registrations : DeletePrefix(r)
  \/ \E h \in Hotkeys : \/ Register(h) \/ Deregister(h)
                        \/ IssueKey(h) \/ OpenSession(h) \/ CommitReady(h) \/ SessionEnds(h)
                        \/ \E object \in {"weights", "manifest"} : Upload(h, object)
  \/ daemon.pc = "queue" /\ \E entry \in daemon.todo : Spend(entry)

SubmissionsSpec == SubmissionsInit /\ [][SubmissionsNext]_submissionsVars
SubmissionsFairSpec == SubmissionsSpec /\ WF_submissionsVars(Watching)

-----------------------------------------------------------------------------
\* What a verdict, a crown or a spent shot depends on is never deleted: of a loser only the weights
\* go, and of a shot not yet judged, a winner waiting for its copy and a crowned hotkey, nothing
\* (_retained_registrations, _retire_judged), also after it left the metagraph.
OwedIsKept ==
  [][ \A r \in Registrations : LET h == Owner(r) IN
        LET lost == held[r] \ held'[r] IN
        lost # {} =>
          /\ record.judged[h] = r => "manifest" \notin lost /\ h \notin record.crowned
                                     /\ record.pending # h
          /\ Spent(ledger, h) /\ ledger.spent[h].registration = r => Judged(h) ]_held

\* An upload whose ready signal was on chain when the sweep began is never swept, whatever slots of
\* the chain read failed (CommitmentSurvey.complete).
SignalledIsKept ==
  [][ \A r \in Registrations :
        held'[r] = {} /\ held[r] # {} => r \notin daemon.truth ]_held

\* A hotkey that registers is handed a credential for its prefix without anybody's doing, unless it
\* leaves or signals first, or the list of credentials cannot be read (owner.watch, issue_round).
FirstCredentialArrives ==
  \A h \in Hotkeys :
    h \in live /\ born[h] = 1 ~> \/ HoldsCredential(<<h, 1>>) \/ h \notin live \/ born[h] # 1
                                 \/ said[h] # NONE \/ ~Listable(ledger)
=============================================================================
