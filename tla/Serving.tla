------------------------------- MODULE Serving -------------------------------
(***************************************************************************)
(* Whose weights answer a turn, and whose fault it is when nobody does.    *)
(* RemoteServing launches a tree on a card of the serving host, evicts the *)
(* least recently used one, waits for the name and, at the deadline, asks  *)
(* the host what happened; local_serving takes the servers an operator     *)
(* brought up.  The host has a life of its own: servers die, an old one    *)
(* survives its kill, the forward breaks, and a restart script whose ssh   *)
(* session timed out runs later, on a port somebody else has by then.      *)
(***************************************************************************)
EXTENDS Integers, Sequences, FiniteSets, SequencesExt, None

CONSTANTS
  Good, Corrupt, Crashers, Slow,  \* served names, by what their tree does when it is loaded
  Copies,                         \* names of one and the same good tree
  Count,                          \* cards
  Threads,                        \* the episodes of one arm
  Modes,                          \* "managed" (RemoteServing) or "local" (local_serving)
  MaxUpsets                       \* bound: deaths, cuts, hung runners, survivors and slow loads

Names == Good \cup Corrupt \cup Crashers \cup Slow
Cards == 1..Count

\* What serve(name) hands back: a ServedConductor, or a ManagedConductor, which knows no card.
Handles == [card : Cards \cup {NONE}, aliases : SUBSET Names]
Turns == [name : Names, how : {"admit", "act"}]

ASSUME ServingAssumption ==
  /\ Copies \subseteq Good /\ Good \cap Slow = {}
  /\ Count \in Nat \ {0} /\ MaxUpsets \in Nat
  /\ NONE \notin Names \cup Cards \cup Handles \cup Turns

NoServer == [names |-> <<>>, phase |-> "none", launched |-> FALSE]

VARIABLES
  mode,
  linked,      \* the forward from the validator to the ports
  server,      \* card -> the process last started on its port; launched: its pid was printed to us
  survivor,    \* card -> the names of an old server that holds the port against it, or <<>>
  marked,      \* card -> the port's log shows one of LOAD_ERROR_MARKERS
  late,        \* restart scripts <<card, name>> still to run
  cards,       \* card -> Card.served and the names its conductor saw at readiness
  recency,     \* the cards, least recently used first
  held,        \* name -> what serve(name) returned in this window, or NONE
  turn,        \* the name served now and how: "admit" or "act"; or NONE
  threads,     \* thread -> where it is, and the card and aliases of its conductor
  refused,     \* names whose tree was blamed at admission
  crossed,     \* ghost: this turn's launch was crossed by a late script, or on a slow host
  excused,     \* ghost: the names refused on such a launch
  failed,      \* ghost: this turn failed
  answered,    \* ghost: the names whose text this turn accepted
  upsets

host == <<linked, server, survivor, marked, late>>
ghosts == <<crossed, excused, failed, answered>>
servingVars == <<mode, host, cards, recency, held, turn, threads, refused, ghosts, upsets>>

Idle == [at |-> "idle", card |-> NONE, aliases |-> {}]
At(t, place) == threads[t].at = place
Go(t, place, card, aliases) ==
  threads' = [threads EXCEPT ![t] = [at |-> place, card |-> card, aliases |-> aliases]]
Lock == {t \in Threads : threads[t].at \in {"poll", "diagnose"}}
Upset == upsets < MaxUpsets /\ upsets' = upsets + 1

ServingInit ==
  /\ mode \in Modes /\ linked = TRUE
  /\ server = [c \in Cards |-> NoServer] /\ survivor = [c \in Cards |-> <<>>]
  /\ marked = [c \in Cards |-> FALSE] /\ late = {}
  /\ cards = [c \in Cards |-> [served |-> NONE, aliases |-> {}]]
  /\ recency = [c \in Cards |-> c]
  /\ held = [n \in Names |-> NONE] /\ turn = NONE
  /\ threads = [t \in Threads |-> Idle]
  /\ refused = {} /\ excused = {} /\ upsets = 0
  /\ crossed = FALSE /\ failed = FALSE /\ answered = {}

-----------------------------------------------------------------------------
(* The host. *)

\* The names whoever listens on the card's port advertises: it answers everything as the first.
Listening(c) ==
  IF survivor[c] # <<>> THEN survivor[c]
  ELSE IF server[c].phase = "up" THEN server[c].names ELSE <<>>
\* What /v1/models lists through the forward.
Listed(c) == IF linked THEN ToSet(Listening(c)) ELSE {}

\* The restart script ran: the port's server is killed and a new one loads, with a log of its own.
\* A server that outlives its kill holds the port (survives).
Restarted(c, names, launched, survives) ==
  /\ survivor' = [survivor EXCEPT ![c] = IF survives THEN Listening(c) ELSE @]
  /\ server' = [server EXCEPT ![c] = [names |-> names, phase |-> "loading", launched |-> launched]]
  /\ marked' = [marked EXCEPT ![c] = FALSE]

\* A load ends: the engine comes up, dies on the tree (with or without a marker) or cannot bind.
Load(c) ==
  LET name == Head(server[c].names)
      up == name \in Good /\ survivor[c] = <<>>
  IN  /\ server[c].phase = "loading" /\ name \notin Slow
      /\ server' = [server EXCEPT ![c].phase = IF up THEN "up" ELSE "exited"]
      /\ marked' = [marked EXCEPT ![c] = name \in Corrupt]
      /\ UNCHANGED <<mode, linked, survivor, late, cards, recency, held, turn, threads, refused, ghosts,
                     upsets>>

\* A server or a load is killed (out of memory, an operator, a reboot).
Dies(c) ==
  /\ Upset /\ server[c].phase \in {"loading", "up"}
  /\ server' = [server EXCEPT ![c].phase = "exited"]
  /\ UNCHANGED <<mode, linked, survivor, marked, late, cards, recency, held, turn, threads, refused, ghosts>>

\* The port is freed of the server that held it.
SurvivorEnds(c) ==
  /\ survivor[c] # <<>> /\ survivor' = [survivor EXCEPT ![c] = <<>>]
  /\ UNCHANGED <<mode, linked, server, marked, late, cards, recency, held, turn, threads, refused, ghosts,
                 upsets>>

Cut ==
  /\ Upset /\ linked /\ linked' = FALSE
  /\ UNCHANGED <<mode, server, survivor, marked, late, cards, recency, held, turn, threads, refused, ghosts>>
Mended ==
  /\ ~linked /\ linked' = TRUE
  /\ UNCHANGED <<mode, server, survivor, marked, late, cards, recency, held, turn, threads, refused, ghosts,
                 upsets>>

\* A script whose ssh session was given up runs at last, whoever has the port by now.
LateScript(c, n) ==
  /\ <<c, n>> \in late /\ late' = late \ {<<c, n>>}
  /\ Restarted(c, <<n>>, FALSE, FALSE)
  /\ crossed' = (crossed \/ \E t \in Lock : threads[t].card = c)
  /\ UNCHANGED <<mode, linked, cards, recency, held, turn, threads, refused, excused, failed, answered,
                 upsets>>

\* Without RemoteServing the operator launches what he likes where he likes, copies under one server.
Operator(c, names) ==
  /\ mode = "local" /\ Restarted(c, names, FALSE, FALSE)
  /\ \A d \in Cards \ {c} : ToSet(names) \cap ToSet(server[d].names) = {}
  /\ \/ server[c].phase \in {"none", "exited"} /\ UNCHANGED upsets
     \/ server[c].phase = "up" /\ Upset
  /\ UNCHANGED <<mode, linked, late, cards, recency, held, turn, threads, refused, ghosts>>

-----------------------------------------------------------------------------
(* The window: trees are admitted (serve(name)) and their arms act.  One    *)
(* name at a time, all threads of an arm on the same name.                  *)

Begin(n, how) ==
  /\ turn = NONE /\ n \notin refused
  /\ how = "act" => held[n] # NONE
  /\ turn' = [name |-> n, how |-> how]
  /\ threads' = [t \in Threads |->
       IF how = "admit" /\ t # CHOOSE u \in Threads : TRUE THEN Idle
       ELSE IF how = "act" /\ mode = "local"
       THEN [at |-> "ask", card |-> held[n].card, aliases |-> held[n].aliases]
       ELSE [Idle EXCEPT !.at = "ensure"]]
  /\ UNCHANGED <<mode, host, cards, recency, held, refused, ghosts, upsets>>

\* All threads are done.  A failure in an arm ends the window, which is run again from admission.
Finish ==
  /\ turn # NONE /\ \A t \in Threads : At(t, "idle")
  /\ turn' = NONE
  /\ \/ failed /\ turn.how = "act" /\ held' = [n \in Names |-> NONE]
     \/ ~(failed /\ turn.how = "act") /\ UNCHANGED held
  /\ crossed' = FALSE /\ failed' = FALSE /\ answered' = {}
  /\ UNCHANGED <<mode, host, cards, recency, threads, refused, excused, upsets>>

\* A turn that raises; a LoadFailure at admission is the tree's (ARTIFACT_FAILURES).
TurnRaises(t, blamed) ==
  /\ Go(t, "idle", NONE, {})
  /\ failed' = TRUE
  /\ IF blamed /\ turn.how = "admit"
     THEN /\ refused' = refused \cup {turn.name}
          /\ excused' = IF crossed THEN excused \cup {turn.name} ELSE excused
     ELSE UNCHANGED <<refused, excused>>

\* The name is served on c: admission keeps the conductor, an act asks it.  A ManagedConductor is
\* only the name.
Conductor(c, aliases) ==
  IF mode = "local" THEN [card |-> c, aliases |-> aliases] ELSE [card |-> NONE, aliases |-> {}]
Serves(t, c, aliases) ==
  IF turn.how = "admit"
  THEN /\ held' = [held EXCEPT ![turn.name] = Conductor(c, aliases)]
       /\ Go(t, "idle", NONE, {})
  ELSE Go(t, "ask", c, aliases) /\ UNCHANGED held

-----------------------------------------------------------------------------
(* RemoteServing.ensure, _launch and _diagnose, under the lock. *)

ServedOn(n) == {c \in Cards : cards[c].served = n}
\* A free card first, else the least recently used one.
Victim ==
  LET free == {i \in Cards : cards[recency[i]].served = NONE}
  IN  recency[IF free = {} THEN 1 ELSE Min(free)]
\* The card moves to the end, those behind it up by one.
Used(c) ==
  LET place == CHOOSE i \in Cards : recency[i] = c
  IN  [i \in Cards |-> IF i < place THEN recency[i] ELSE IF i < Count THEN recency[i + 1] ELSE c]

\* Mutant: the card keeps its name until somebody else is served on it.
EvictedLater(c) == cards

Evicted(c) == [cards EXCEPT ![c] = [served |-> NONE, aliases |-> {}]]

Ensure(t) ==
  /\ mode = "managed" /\ At(t, "ensure") /\ Lock = {}
  /\ \E c \in ServedOn(turn.name) : recency' = Used(c) /\ Serves(t, c, cards[c].aliases)
  /\ UNCHANGED <<mode, host, cards, turn, refused, ghosts, upsets>>

\* The card is given away and the restart script is run on the host; a runner that fails may have
\* left the script behind.
Launch(t) ==
  /\ mode = "managed" /\ At(t, "ensure") /\ Lock = {} /\ ServedOn(turn.name) = {}
  /\ cards' = Evicted(Victim)
  /\ \/ /\ \/ Restarted(Victim, <<turn.name>>, TRUE, FALSE) /\ UNCHANGED upsets
           \/ Restarted(Victim, <<turn.name>>, TRUE, TRUE) /\ Listening(Victim) # <<>> /\ Upset
        /\ Go(t, "poll", Victim, {}) /\ UNCHANGED <<late, refused, excused, failed>>
     \/ /\ Upset /\ TurnRaises(t, FALSE)
        /\ late' \in {late, late \cup {<<Victim, turn.name>>}}
        /\ UNCHANGED <<server, survivor, marked>>
  /\ UNCHANGED <<mode, linked, recency, held, turn, crossed, answered>>

Ready(t) ==
  LET c == threads[t].card
      found == [served |-> turn.name, aliases |-> Listed(c)]
  IN  /\ At(t, "poll") /\ turn.name \in Listed(c)
      /\ cards' = [cards EXCEPT ![c] = found] /\ recency' = Used(c)
      /\ Serves(t, c, found.aliases)
      /\ UNCHANGED <<mode, host, turn, refused, ghosts, upsets>>

\* The deadline passes on a last failed poll.  A sound load takes a slow host to be that late.
Deadline(t) ==
  LET c == threads[t].card
      late_load == server[c].phase = "loading" /\ Head(server[c].names) \notin Slow
  IN  /\ At(t, "poll") /\ turn.name \notin Listed(c)
      /\ IF late_load THEN Upset /\ crossed' = TRUE ELSE UNCHANGED <<upsets, crossed>>
      /\ Go(t, "diagnose", c, {})
      /\ UNCHANGED <<mode, host, cards, recency, held, turn, refused, excused, failed,
                     answered>>

\* Mutant: a process that exited is the tree's failure, whatever its log says.
VerdictByExit(c, n) ==
  IF server[c].launched /\ server[c].phase \in {"loading", "up"} THEN "ServingOutage" ELSE "LoadFailure"

\* readiness_verdict: what the process of the printed pid, the port and the log say.
ReadinessVerdict(c, n) ==
  LET alive == server[c].launched /\ server[c].phase \in {"loading", "up"}
  IN  CASE ~alive -> IF marked[c] THEN "LoadFailure" ELSE "ServeError"
        [] alive /\ Listening(c) # <<>> -> "ServingOutage"
        [] OTHER -> "LoadFailure"

\* The host is asked.  A runner that fails then, no pid to ask about, or an answer that cannot be
\* read never blames the tree.
Diagnose(t) ==
  LET c == threads[t].card
  IN  /\ At(t, "diagnose")
      /\ \/ UNCHANGED upsets /\ TurnRaises(t, ReadinessVerdict(c, turn.name) = "LoadFailure")
         \/ Upset /\ TurnRaises(t, FALSE)
      /\ UNCHANGED <<mode, host, cards, recency, held, turn, crossed, answered>>

-----------------------------------------------------------------------------
(* local_serving: the first endpoint that lists the name, or a refusal. *)

Find(t) ==
  LET lists == {c \in Cards : turn.name \in Listed(c)}
      first == CHOOSE c \in lists : \A d \in lists : c <= d
  IN  /\ mode = "local" /\ At(t, "ensure")
      /\ IF lists # {} THEN Serves(t, first, Listed(first)) /\ UNCHANGED <<refused, excused, failed>>
         ELSE TurnRaises(t, FALSE) /\ UNCHANGED held
      /\ UNCHANGED <<mode, host, cards, recency, turn, crossed, answered, upsets>>

-----------------------------------------------------------------------------
(* ServedConductor.act *)

\* Mutant: readiness was checked, so the answer is taken.
AcceptsAnything(n, aliases, served) == TRUE

\* _check_model: the name asked for, or one the endpoint advertised with it at readiness.
Accepts(n, aliases, served) == served = n \/ served \in aliases

Ask(t) ==
  LET c == threads[t].card
      answer == IF linked THEN Listening(c) ELSE <<>>
  IN  /\ At(t, "ask")
      /\ IF answer # <<>> /\ Accepts(turn.name, threads[t].aliases, Head(answer))
         THEN /\ answered' = answered \cup {Head(answer)}
              /\ Go(t, "idle", NONE, {}) /\ UNCHANGED <<refused, excused, failed>>
         ELSE TurnRaises(t, FALSE) /\ UNCHANGED answered
      /\ UNCHANGED <<mode, host, cards, recency, held, turn, crossed, upsets>>

Turn(t) == Ensure(t) \/ Launch(t) \/ Ready(t) \/ Deadline(t) \/ Diagnose(t) \/ Find(t) \/ Ask(t)

Servings == {<<n>> : n \in Names} \cup {<<m, n>> : m \in Copies, n \in Copies}
ServingNext ==
  \/ \E c \in Cards : Load(c) \/ Dies(c) \/ SurvivorEnds(c)
  \/ Cut \/ Mended
  \/ \E c \in Cards, n \in Names : LateScript(c, n)
  \/ \E c \in Cards, names \in Servings : Operator(c, names)
  \/ \E n \in Names, how \in {"admit", "act"} : Begin(n, how)
  \/ Finish
  \/ \E t \in Threads : Turn(t)

ServingSpec == ServingInit /\ [][ServingNext]_servingVars
-----------------------------------------------------------------------------
(* Properties *)

SameTree(m, n) == m = n \/ {m, n} \subseteq Copies

\* No text is taken for a miner's that another tree's weights wrote, whatever was restarted on the
\* port between readiness and the answer (serve.py 261-266, `_check_model` on every call).
OwnWeightsAnswer == \A n \in answered : turn # NONE => SameTree(turn.name, n)

\* A tree is refused for its load only if it cannot be served: deaths, cuts, survivors and hung
\* runners are never charged to it.  The two ways a sound tree can still be charged are a late
\* script that took its port, and a host too slow for the deadline (serve.py 410-418).
ChargedIsAtFault == refused \subseteq Corrupt \cup Slow \cup excused

\* Without an upset a sound tree's turn never fails, however many trees share the cards and
\* whatever the trees launched in between did (serve.py 663-666).
EvictionIsInvisible ==
  upsets = 0 /\ mode = "managed" /\ turn # NONE /\ turn.name \in Good => ~failed

=============================================================================
