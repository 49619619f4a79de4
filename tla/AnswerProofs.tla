---------------------------- MODULE AnswerProofs ----------------------------
(* Proofs about an arm's answers: whose weights gave them (Serving), and what
   becomes of them in an episode and in the window's outcome table (Episode). *)
EXTENDS Serving, Episode, Sums

(***************************************************************************)
(* Theorems about Serving for every set of trees, every number of cards    *)
(* and threads, both ways of serving and every number of upsets: whose     *)
(* weights answer, whom a failed launch is charged to, and that a tree's   *)
(* eviction does not show.                                                 *)
(***************************************************************************)

(***************************************************************************)
(* The inductive invariant.                                                *)
(***************************************************************************)

Phases == {"none", "loading", "up", "exited"}
Places == {"idle", "ensure", "poll", "diagnose", "ask"}
Listings == Servings \cup {<<>>}
Servers == [names : Listings, phase : Phases, launched : BOOLEAN]

ServingTypeOK ==
  /\ linked \in BOOLEAN
  /\ server \in [Cards -> Servers]
  /\ \A c \in Cards : server[c].phase # "none" => server[c].names # <<>>
  /\ survivor \in [Cards -> Listings]
  /\ marked \in [Cards -> BOOLEAN]
  /\ late \subseteq Cards \X Names
  /\ cards \in [Cards -> [served : Names \cup {NONE}, aliases : SUBSET Names]]
  /\ recency \in [Cards -> Cards]
  /\ held \in [Names -> Handles \cup {NONE}]
  /\ turn \in Turns \cup {NONE}
  /\ threads \in [Threads -> [at : Places, card : Cards \cup {NONE}, aliases : SUBSET Names]]
  /\ refused \subseteq Names /\ excused \subseteq Names /\ answered \subseteq Names
  /\ crossed \in BOOLEAN /\ failed \in BOOLEAN
  /\ upsets \in 0..MaxUpsets

\* Who is waiting for whom: only RemoteServing launches, a thread that polls,
\* diagnoses or asks has a card, and between two turns nobody does anything.
PlacesOK ==
  /\ \A t \in Threads :
       /\ At(t, "poll") \/ At(t, "diagnose") => mode = "managed" /\ threads[t].card \in Cards
       /\ At(t, "ask") => threads[t].card \in Cards
  /\ \A t, u \in Lock : t = u
  /\ mode = "local" => \A n \in Names : held[n] # NONE => held[n].card \in Cards
  /\ turn = NONE => /\ \A t \in Threads : At(t, "idle")
                    /\ answered = {} /\ ~failed /\ ~crossed

\* These names are all of n's tree.
OneTree(n, names) == \A m \in names : SameTree(n, m)

\* The aliases a conductor may accept, wherever it is kept, are names of its own tree.
AliasesOK ==
  /\ \A c \in Cards : cards[c].served # NONE => OneTree(cards[c].served, cards[c].aliases)
  /\ \A n \in Names : held[n] # NONE => OneTree(n, held[n].aliases)
  /\ turn # NONE => /\ OneTree(turn.name, answered)
                    /\ \A t \in Threads : OneTree(turn.name, threads[t].aliases)

\* The server on the card a thread waits for is the one it launched, and what the
\* host says of it is said of that thread's tree, unless something crossed the launch.
LaunchOK ==
  \A t \in Lock :
    LET c == threads[t].card
    IN  ~crossed =>
          /\ server[c].names = <<turn.name>> /\ server[c].launched
          /\ marked[c] => turn.name \in Corrupt
          /\ At(t, "diagnose") /\ server[c].phase = "loading" => turn.name \in Slow

\* As long as nothing was upset, a card serves exactly what it says it serves, and
\* a sound tree is loading or up wherever a thread waits for it.
CalmOK ==
  mode = "managed" /\ upsets = 0 =>
    /\ linked /\ late = {}
    /\ \A c \in Cards :
         /\ survivor[c] = <<>>
         /\ cards[c].served # NONE => server[c].phase = "up" /\ server[c].names = <<cards[c].served>>
    /\ \A t \in Threads :
         LET c == threads[t].card
         IN  /\ At(t, "ask") => cards[c].served = turn.name
             /\ At(t, "poll") => /\ server[c].names = <<turn.name>>
                                 /\ ServedOn(turn.name) = {} /\ cards[c].served = NONE
                                 /\ turn.name \in Good => server[c].phase \in {"loading", "up"}
             /\ At(t, "diagnose") => turn.name \notin Good
    /\ turn # NONE /\ turn.name \in Good => ~failed

ServingInv == ServingTypeOK /\ PlacesOK /\ AliasesOK /\ LaunchOK /\ CalmOK /\ ChargedIsAtFault

(***************************************************************************)
(* The helpers.                                                            *)
(***************************************************************************)

\* Whoever listens on a port answers as one tree, under all of its names.
LEMMA ListingIsOneTree ==
  ASSUME NEW s \in Listings
  PROVE  /\ ToSet(s) \subseteq Names
         /\ s # <<>> => Head(s) \in ToSet(s)
         /\ \A n \in ToSet(s) : OneTree(n, ToSet(s))
<1> USE ServingAssumption
<1>1. CASE s = <<>>
  BY <1>1 DEF ToSet, OneTree
<1>2. ASSUME NEW n \in Names, s = <<n>>
      PROVE  ToSet(s) = {n} /\ Head(s) = n
  BY <1>2 DEF ToSet
<1>3. ASSUME NEW m \in Copies, NEW n \in Copies, s = <<m, n>>
      PROVE  ToSet(s) = {m, n} /\ Head(s) = m
  BY <1>3 DEF ToSet
<1>4. s = <<>> \/ (\E n \in Names : s = <<n>>) \/ (\E m, n \in Copies : s = <<m, n>>)
  BY DEF Listings, Servings
<1>5. Copies \subseteq Names
  BY DEF Names
<1> QED
  BY <1>1, <1>2, <1>3, <1>4, <1>5 DEF OneTree, SameTree

\* What a card's port lists is one tree's names.
LEMMA ListedIsOneTree ==
  ASSUME ServingTypeOK, NEW c \in Cards
  PROVE  /\ Listening(c) \in Listings
         /\ Listening(c) # <<>> => Head(Listening(c)) \in Names
         /\ Listed(c) \subseteq Names
         /\ \A n \in Listed(c) : OneTree(n, Listed(c))
<1>1. Listening(c) \in Listings
  BY DEF ServingTypeOK, Listening, Servers, Listings
<1> QED
  BY <1>1, ListingIsOneTree DEF Listed

\* The names a server is started with.
LEMMA LaunchedNames ==
  ASSUME NEW n \in Names
  PROVE  <<n>> \in Servings /\ <<n>> \in Listings /\ <<n>> # <<>> /\ Head(<<n>>) = n
BY DEF Servings, Listings

\* A non-empty set of numbers contains its least one.
LEMMA FirstExists ==
  ASSUME NEW S \in SUBSET Nat, S # {}
  PROVE  Min(S) \in S
<1>1. \E i \in S : \A j \in S : ~ (<<j, i>> \in OpToRel(<, Nat))
  BY NatLessThanWellFounded, WFMin
<1>2. ASSUME NEW i \in S, NEW j \in S, ~ (<<j, i>> \in OpToRel(<, Nat))
      PROVE  i <= j
  BY <1>2 DEF OpToRel
<1> QED
  BY <1>1, <1>2 DEF Min

\* A launch always has a card to take, and using one keeps the order one of cards.
LEMMA VictimIsACard ==
  ASSUME ServingTypeOK
  PROVE  /\ Victim \in Cards
         /\ \A c \in Cards : Used(c) \in [Cards -> Cards]
<1> USE ServingAssumption
<1>1. 1 \in Cards /\ Cards \subseteq Nat
  BY DEF Cards
<1>2. Victim \in Cards
  <2> DEFINE free == {i \in Cards : cards[recency[i]].served = NONE}
  <2>1. free # {} => Min(free) \in free
    BY <1>1, FirstExists
  <2> QED
    BY <1>1, <2>1 DEF Victim, ServingTypeOK
<1>3. ASSUME NEW c \in Cards PROVE Used(c) \in [Cards -> Cards]
  <2>1. \A i \in Cards : i < Count => i + 1 \in Cards
    BY DEF Cards
  <2> QED
    BY <2>1 DEF Used, ServingTypeOK
<1> QED
  BY <1>2, <1>3

\* Inside a turn there is a tree, and a thread in it has a place.
LEMMA InTurn ==
  ASSUME ServingTypeOK, PlacesOK, NEW t \in Threads, ~At(t, "idle")
  PROVE  turn \in Turns /\ turn.name \in Names /\ turn # NONE
BY ServingAssumption DEF ServingTypeOK, PlacesOK, Turns

(***************************************************************************)
(* What the moves of one thread do.                                        *)
(***************************************************************************)

Spots == [at : Places, card : Cards \cup {NONE}, aliases : SUBSET Names]
Spot(place, card, aliases) == [at |-> place, card |-> card, aliases |-> aliases]

\* t goes where it goes and nobody else moves.
Moved(t, spot) ==
  /\ threads' \in [Threads -> Spots]
  /\ threads'[t] = spot
  /\ \A u \in Threads \ {t} : threads'[u] = threads[u]

\* Go moves one thread and nobody else.
LEMMA GoMoves ==
  ASSUME ServingTypeOK, NEW t \in Threads, NEW STATE place, place \in Places, NEW STATE card,
         card \in Cards \cup {NONE}, NEW STATE aliases, aliases \in SUBSET Names, Go(t, place, card, aliases)
  PROVE  Moved(t, Spot(place, card, aliases))
BY DEF ServingTypeOK, Go, Moved, Spot, Spots

\* What a turn that raises leaves behind.
Raised(t, blamed) ==
  /\ Moved(t, Spot("idle", NONE, {}))
  /\ failed' = TRUE
  /\ refused' \in {refused, refused \cup {turn.name}}
  /\ excused' \in {excused, excused \cup {turn.name}}
  /\ refused' # refused => blamed /\ (crossed => turn.name \in excused')

\* A thread that raises leaves the lock, and its tree is charged only by a LoadFailure.
LEMMA RaisesMoves ==
  ASSUME ServingTypeOK, NEW t \in Threads, NEW STATE blamed, TurnRaises(t, blamed)
  PROVE  Raised(t, blamed)
<1>1. Moved(t, Spot("idle", NONE, {}))
  BY GoMoves DEF TurnRaises, Places
<1> QED
  BY <1>1 DEF TurnRaises, Raised

\* What a name that is served on c leaves behind.
Served(t, c, aliases) ==
  /\ \/ /\ Moved(t, Spot("idle", NONE, {}))
        /\ held'[turn.name] = Conductor(c, aliases)
        /\ \A n \in Names \ {turn.name} : held'[n] = held[n]
     \/ Moved(t, Spot("ask", c, aliases)) /\ held' = held
  /\ held' \in [Names -> Handles \cup {NONE}]

\* A thread that serves holds a handle with the aliases it read.
LEMMA ServesMoves ==
  ASSUME ServingTypeOK, turn \in Turns, NEW t \in Threads, NEW STATE c, c \in Cards,
         NEW STATE aliases, aliases \in SUBSET Names, Serves(t, c, aliases)
  PROVE  Served(t, c, aliases)
<1>1. Conductor(c, aliases) \in Handles
  BY DEF Conductor, Handles
<1>2. "idle" \in Places /\ "ask" \in Places /\ turn.name \in Names
  BY DEF Places, Turns
<1>3. CASE turn.how = "admit"
  BY <1>1, <1>2, <1>3, GoMoves DEF Serves, Served, ServingTypeOK
<1>4. CASE turn.how # "admit"
  BY <1>2, <1>4, GoMoves DEF Serves, Served, ServingTypeOK
<1> QED
  BY <1>3, <1>4


\* What each move of a thread changes, in the terms above.
LEMMA EnsureDoes ==
  ASSUME ServingTypeOK, PlacesOK, NEW t \in Threads, Ensure(t)
  PROVE  /\ \E c \in Cards : cards[c].served = turn.name /\ Served(t, c, cards[c].aliases)
         /\ mode = "managed" /\ ~At(t, "idle")
         /\ recency' \in [Cards -> Cards]
         /\ UNCHANGED <<mode, host, cards, turn, refused, ghosts, upsets>>
<1>1. turn \in Turns
  BY InTurn DEF Ensure, At
<1>2. PICK c \in ServedOn(turn.name) : recency' = Used(c) /\ Serves(t, c, cards[c].aliases)
  BY DEF Ensure
<1>3. c \in Cards /\ cards[c].served = turn.name /\ cards[c].aliases \in SUBSET Names
  BY <1>2 DEF ServedOn, ServingTypeOK
<1> QED
  BY <1>1, <1>2, <1>3, ServesMoves, VictimIsACard DEF Ensure, At

\* _launch evicts the victim first; the restart script then starts one server, or is late.
LEMMA LaunchDoes ==
  ASSUME ServingTypeOK, PlacesOK, NEW t \in Threads, Launch(t)
  PROVE  /\ mode = "managed" /\ At(t, "ensure") /\ Lock = {} /\ ServedOn(turn.name) = {}
         /\ Victim \in Cards /\ cards' = Evicted(Victim)
         /\ \/ /\ \/ Restarted(Victim, <<turn.name>>, TRUE, FALSE) /\ UNCHANGED upsets
                  \/ Restarted(Victim, <<turn.name>>, TRUE, TRUE) /\ Upset
               /\ Moved(t, Spot("poll", Victim, {})) /\ UNCHANGED <<late, refused, excused, failed>>
            \/ /\ Upset /\ Raised(t, FALSE)
               /\ late' \in {late, late \cup {<<Victim, turn.name>>}}
               /\ UNCHANGED <<server, survivor, marked>>
         /\ UNCHANGED <<mode, linked, recency, held, turn, crossed, answered>>
<1>1. "poll" \in Places /\ {} \in SUBSET Names /\ Victim \in Cards
  BY VictimIsACard DEF Places
<1> QED
  BY <1>1, RaisesMoves, GoMoves DEF Launch

\* A ready card is entered with the listing it answered with.
LEMMA ReadyDoes ==
  ASSUME ServingTypeOK, PlacesOK, NEW t \in Threads, Ready(t)
  PROVE  LET c == threads[t].card
         IN  /\ At(t, "poll") /\ mode = "managed" /\ c \in Cards /\ turn.name \in Listed(c)
             /\ Listed(c) \subseteq Names /\ OneTree(turn.name, Listed(c))
             /\ cards' = [cards EXCEPT ![c] = [served |-> turn.name, aliases |-> Listed(c)]]
             /\ Served(t, c, Listed(c))
             /\ recency' \in [Cards -> Cards]
             /\ UNCHANGED <<mode, host, turn, refused, ghosts, upsets>>
<1> DEFINE c == threads[t].card
<1>1. turn \in Turns /\ c \in Cards /\ mode = "managed" /\ At(t, "poll")
  BY InTurn DEF Ready, At, PlacesOK
<1>2. turn.name \in Listed(c) /\ Listed(c) \in SUBSET Names /\ OneTree(turn.name, Listed(c))
  BY <1>1, ListedIsOneTree DEF Ready
<1>3. Served(t, c, Listed(c))
  BY <1>1, <1>2, ServesMoves DEF Ready
<1> QED
  BY <1>1, <1>2, <1>3, VictimIsACard DEF Ready

\* The readiness deadline passes on a server that does not list the name; on a tree that
\* loads in time only through an upset.
LEMMA DeadlineDoes ==
  ASSUME ServingTypeOK, PlacesOK, NEW t \in Threads, Deadline(t)
  PROVE  LET c == threads[t].card
         IN  /\ At(t, "poll") /\ c \in Cards /\ turn.name \notin Listed(c)
             /\ IF server[c].phase = "loading" /\ Head(server[c].names) \notin Slow
                THEN Upset /\ crossed' = TRUE ELSE UNCHANGED <<upsets, crossed>>
             /\ Moved(t, Spot("diagnose", c, {}))
             /\ UNCHANGED <<mode, host, cards, recency, held, turn, refused, excused, failed, answered>>
<1>1. threads[t].card \in Cards /\ "diagnose" \in Places /\ {} \in SUBSET Names
  BY DEF Deadline, PlacesOK, Places
<1> QED
  BY <1>1, GoMoves DEF Deadline

\* _diagnose charges the tree exactly on a LoadFailure verdict.
LEMMA DiagnoseDoes ==
  ASSUME ServingTypeOK, PlacesOK, NEW t \in Threads, Diagnose(t)
  PROVE  LET c == threads[t].card
         IN  /\ At(t, "diagnose") /\ c \in Cards /\ mode = "managed"
             /\ \/ UNCHANGED upsets /\ Raised(t, ReadinessVerdict(c, turn.name) = "LoadFailure")
                \/ Upset /\ Raised(t, FALSE)
             /\ UNCHANGED <<mode, host, cards, recency, held, turn, crossed, answered>>
BY RaisesMoves DEF Diagnose, PlacesOK

\* local_serving picks a card whose listing contains the name.
LEMMA FindDoes ==
  ASSUME ServingTypeOK, PlacesOK, NEW t \in Threads, Find(t)
  PROVE  /\ mode = "local" /\ At(t, "ensure")
         /\ \/ /\ \E c \in Cards : OneTree(turn.name, Listed(c)) /\ Served(t, c, Listed(c))
               /\ UNCHANGED <<refused, excused, failed>>
            \/ Raised(t, FALSE) /\ UNCHANGED held
         /\ UNCHANGED <<mode, host, cards, recency, turn, crossed, answered, upsets>>
<1> DEFINE lists == {c \in Cards : turn.name \in Listed(c)}
           first == CHOOSE c \in lists : \A d \in lists : c <= d
<1>1. turn \in Turns
  BY InTurn DEF Find, At
<1>2. CASE lists # {}
  <2>1. first \in lists
    <3>1. Min(lists) \in lists
      BY <1>2, FirstExists DEF Cards
    <3> QED
      BY <3>1 DEF Min
  <2>2. Listed(first) \in SUBSET Names /\ OneTree(turn.name, Listed(first))
    BY <2>1, ListedIsOneTree
  <2>3. Serves(t, first, Listed(first)) /\ UNCHANGED <<refused, excused, failed>>
    BY <1>2 DEF Find
  <2>4. first \in Cards /\ Served(t, first, Listed(first))
    BY <1>1, <2>1, <2>2, <2>3, ServesMoves
  <2> QED
    BY <2>2, <2>3, <2>4 DEF Find
<1>3. CASE lists = {}
  BY <1>3, RaisesMoves DEF Find
<1> QED
  BY <1>2, <1>3

\* act accepts an answer under one of the aliases, or raises an outage (_check_model).
LEMMA AskDoes ==
  ASSUME ServingTypeOK, PlacesOK, NEW t \in Threads, Ask(t)
  PROVE  LET c == threads[t].card
             answer == IF linked THEN Listening(c) ELSE <<>>
         IN  /\ At(t, "ask") /\ c \in Cards
             /\ \/ /\ answer # <<>> /\ Accepts(turn.name, threads[t].aliases, Head(answer))
                   /\ Head(answer) \in Names
                   /\ answered' = answered \cup {Head(answer)}
                   /\ Moved(t, Spot("idle", NONE, {})) /\ UNCHANGED <<refused, excused, failed>>
                \/ /\ ~(answer # <<>> /\ Accepts(turn.name, threads[t].aliases, Head(answer)))
                   /\ Raised(t, FALSE) /\ UNCHANGED answered
             /\ UNCHANGED <<mode, host, cards, recency, held, turn, crossed, upsets>>
<1>1. threads[t].card \in Cards /\ "idle" \in Places /\ {} \in SUBSET Names
  BY DEF Ask, PlacesOK, Places
<1> QED
  BY <1>1, RaisesMoves, GoMoves, ListedIsOneTree DEF Ask


\* The host's types.
HostTypes ==
  /\ server' \in [Cards -> Servers]
  /\ \A c \in Cards : server'[c].phase # "none" => server'[c].names # <<>>
  /\ survivor' \in [Cards -> Listings]
  /\ marked' \in [Cards -> BOOLEAN]

\* A server that changes its phase stays well-typed.
LEMMA PhaseTypes ==
  ASSUME ServingTypeOK, NEW c \in Cards, server[c].phase # "none", NEW phase \in Phases,
         server' = [server EXCEPT ![c].phase = phase]
  PROVE  /\ server' \in [Cards -> Servers]
         /\ \A d \in Cards : server'[d].phase # "none" => server'[d].names # <<>>
<1>1. /\ server[c] \in Servers /\ server'[c] = [server[c] EXCEPT !.phase = phase]
      /\ \A d \in Cards \ {c} : server'[d] = server[d]
  BY DEF ServingTypeOK
<1>2. server'[c] \in Servers /\ server'[c].names = server[c].names
  BY <1>1 DEF Servers
<1> QED
  BY <1>1, <1>2 DEF ServingTypeOK

\* A restarted port is well-typed.
LEMMA RestartedTypes ==
  ASSUME ServingTypeOK, NEW STATE c, c \in Cards, NEW STATE names, names \in Servings,
         NEW launched \in BOOLEAN, NEW survives \in BOOLEAN, Restarted(c, names, launched, survives)
  PROVE  HostTypes
<1>1. names \in Listings /\ names # <<>>
  BY DEF Listings, Servings
<1>2. [names |-> names, phase |-> "loading", launched |-> launched] \in Servers
  BY <1>1 DEF Servers, Phases
<1>3. Listening(c) \in Listings
  BY ListedIsOneTree
<1> QED
  BY <1>1, <1>2, <1>3 DEF ServingTypeOK, Restarted, HostTypes

\* An upset is taken from those that are left.
LEMMA UpsetTypes ==
  ASSUME ServingTypeOK
  PROVE  /\ Upset \/ UNCHANGED upsets => upsets' \in 0..MaxUpsets
         /\ Upset => upsets' # 0
BY ServingAssumption DEF ServingTypeOK, Upset

\* A step that leaves the host and the history alone keeps the types if the rest does.
LEMMA MoveTypes ==
  ASSUME ServingTypeOK, threads' \in [Threads -> Spots], cards' \in [Cards -> [served : Names \cup {NONE}, aliases : SUBSET Names]],
         recency' \in [Cards -> Cards], held' \in [Names -> Handles \cup {NONE}], UNCHANGED turn,
         refused' \subseteq Names, excused' \subseteq Names, answered' \subseteq Names,
         crossed' \in BOOLEAN, failed' \in BOOLEAN, upsets' \in 0..MaxUpsets,
         HostTypes \/ UNCHANGED <<server, survivor, marked>>,
         UNCHANGED linked, late' \subseteq Cards \X Names
  PROVE  ServingTypeOK'
BY DEF ServingTypeOK, Spots, HostTypes


\* t is out of the lock, or was never in it.
Leaves(t) ==
  /\ threads'[t].at \in {"idle", "ask"}
  /\ \A u \in Threads \ {t} : threads'[u] = threads[u]

\* A thread that serves leaves the lock.
LEMMA ServedLeaves ==
  ASSUME NEW t \in Threads, NEW STATE c, NEW STATE aliases, Served(t, c, aliases)
  PROVE  Leaves(t)
BY DEF Served, Moved, Spot, Leaves

\* A thread that raises leaves the lock and holds no aliases.
LEMMA RaisedLeaves ==
  ASSUME NEW t \in Threads, NEW STATE blamed, Raised(t, blamed)
  PROVE  Leaves(t) /\ threads'[t].aliases = {}
BY DEF Raised, Moved, Spot, Leaves

\* A conductor of the tree's own names is all that serving leaves behind.
LEMMA ServedAliases ==
  ASSUME AliasesOK, turn # NONE, NEW t \in Threads, NEW STATE c, NEW STATE aliases,
         Served(t, c, aliases), OneTree(turn.name, aliases)
  PROVE  /\ \A n \in Names : held'[n] # NONE => OneTree(n, held'[n].aliases)
         /\ \A u \in Threads : OneTree(turn.name, threads'[u].aliases)
<1>1. OneTree(turn.name, {}) /\ OneTree(turn.name, Conductor(c, aliases).aliases)
  BY DEF OneTree, Conductor
<1>2. \A u \in Threads : OneTree(turn.name, threads[u].aliases)
  BY DEF AliasesOK
<1>3. \A u \in Threads : OneTree(turn.name, threads'[u].aliases)
  <2>1. threads'[t].aliases \in {{}, aliases} /\ \A u \in Threads \ {t} : threads'[u] = threads[u]
    BY DEF Served, Moved, Spot
  <2> QED
    BY <1>1, <1>2, <2>1
<1>4. ASSUME NEW n \in Names, held'[n] # NONE
      PROVE  OneTree(n, held'[n].aliases)
  <2>1. held'[n] = held[n] \/ (n = turn.name /\ held'[n] = Conductor(c, aliases))
    BY DEF Served
  <2>2. held[n] # NONE => OneTree(n, held[n].aliases)
    BY DEF AliasesOK
  <2> QED
    BY <1>1, <1>4, <2>1, <2>2
<1> QED
  BY <1>3, <1>4

\* No step leaves the types.
LEMMA TypeStep ==
  ASSUME ServingInv, ServingNext
  PROVE  ServingTypeOK'
<1> USE ServingAssumption DEF ServingInv
<1>1. ASSUME NEW c \in Cards, Load(c) PROVE ServingTypeOK'
  <2>1. PICK phase \in Phases : /\ server' = [server EXCEPT ![c].phase = phase]
                             /\ server[c].phase # "none"
    BY <1>1 DEF Load, Phases
  <2>2. marked' \in [Cards -> BOOLEAN]
    BY <1>1 DEF Load, ServingTypeOK
  <2> QED
    BY <1>1, <2>1, <2>2, PhaseTypes DEF Load, ServingTypeOK, ghosts
<1>2. ASSUME NEW c \in Cards, Dies(c) PROVE ServingTypeOK'
  <2>1. server' = [server EXCEPT ![c].phase = "exited"] /\ server[c].phase # "none"
    BY <1>2 DEF Dies
  <2>2. "exited" \in Phases
    BY DEF Phases
  <2> QED
    BY <1>2, <2>1, <2>2, PhaseTypes, UpsetTypes DEF Dies, ServingTypeOK, ghosts
<1>3. ASSUME NEW c \in Cards, SurvivorEnds(c) PROVE ServingTypeOK'
  BY <1>3 DEF SurvivorEnds, ServingTypeOK, Listings, ghosts
<1>4. ASSUME Cut PROVE ServingTypeOK'
  BY <1>4, UpsetTypes DEF Cut, ServingTypeOK, ghosts
<1>5. ASSUME Mended PROVE ServingTypeOK'
  BY <1>5 DEF Mended, ServingTypeOK, ghosts
<1>6. ASSUME NEW c \in Cards, NEW n \in Names, LateScript(c, n) PROVE ServingTypeOK'
  <2>1. HostTypes
    BY <1>6, RestartedTypes, LaunchedNames DEF LateScript
  <2> QED
    BY <1>6, <2>1 DEF LateScript, HostTypes, ServingTypeOK
<1>7. ASSUME NEW c \in Cards, NEW names \in Servings, Operator(c, names) PROVE ServingTypeOK'
  <2>1. HostTypes
    BY <1>7, RestartedTypes DEF Operator
  <2> QED
    BY <1>7, <2>1, UpsetTypes DEF Operator, HostTypes, ServingTypeOK, ghosts
<1>8. ASSUME NEW n \in Names, NEW how \in {"admit", "act"}, Begin(n, how) PROVE ServingTypeOK'
  BY <1>8 DEF Begin, Idle, ServingTypeOK, Places, Handles, Turns, host, ghosts
<1>9. ASSUME Finish PROVE ServingTypeOK'
  <2>1. held' \in [Names -> Handles \cup {NONE}]
    BY <1>9 DEF Finish, ServingTypeOK
  <2> QED
    BY <1>9, <2>1 DEF Finish, ServingTypeOK, host
<1>10. ASSUME NEW t \in Threads, Ensure(t) PROVE ServingTypeOK'
  <2>1. /\ threads' \in [Threads -> Spots] /\ held' \in [Names -> Handles \cup {NONE}]
        /\ recency' \in [Cards -> Cards]
        /\ UNCHANGED <<mode, host, cards, turn, refused, ghosts, upsets>>
    BY <1>10, EnsureDoes DEF Served, Moved
  <2> QED
    BY <2>1, MoveTypes DEF ServingTypeOK, host, ghosts
<1>11. ASSUME NEW t \in Threads, Launch(t) PROVE ServingTypeOK'
  <2>1. /\ threads' \in [Threads -> Spots] /\ Victim \in Cards /\ turn.name \in Names
        /\ cards' = Evicted(Victim) /\ UNCHANGED <<mode, linked, recency, held, turn, crossed, answered>>
        /\ late' \in {late, late \cup {<<Victim, turn.name>>}}
        /\ refused' \subseteq Names /\ excused' \subseteq Names /\ failed' \in BOOLEAN
        /\ Upset \/ UNCHANGED upsets
    BY <1>11, LaunchDoes, InTurn DEF Raised, Moved, ServingTypeOK, At
  <2>2. cards' \in [Cards -> [served : Names \cup {NONE}, aliases : SUBSET Names]]
    BY <2>1 DEF Evicted, ServingTypeOK
  <2>3. HostTypes \/ UNCHANGED <<server, survivor, marked>>
    BY <1>11, <2>1, LaunchDoes, RestartedTypes, LaunchedNames
  <2>4. late' \subseteq Cards \X Names
    BY <2>1 DEF ServingTypeOK
  <2> QED
    BY <2>1, <2>2, <2>3, <2>4, UpsetTypes, MoveTypes DEF ServingTypeOK
<1>12. ASSUME NEW t \in Threads, Ready(t) PROVE ServingTypeOK'
  <2> DEFINE c == threads[t].card
  <2>1. /\ threads' \in [Threads -> Spots] /\ held' \in [Names -> Handles \cup {NONE}]
        /\ recency' \in [Cards -> Cards] /\ c \in Cards /\ turn.name \in Names
        /\ Listed(c) \subseteq Names
        /\ cards' = [cards EXCEPT ![c] = [served |-> turn.name, aliases |-> Listed(c)]]
        /\ UNCHANGED <<mode, host, turn, refused, ghosts, upsets>>
    BY <1>12, ReadyDoes, InTurn DEF Served, Moved, At
  <2>2. cards' \in [Cards -> [served : Names \cup {NONE}, aliases : SUBSET Names]]
    BY <2>1 DEF ServingTypeOK
  <2> QED
    BY <2>1, <2>2, MoveTypes DEF ServingTypeOK, host, ghosts
<1>13. ASSUME NEW t \in Threads, Deadline(t) PROVE ServingTypeOK'
  <2>1. /\ threads' \in [Threads -> Spots] /\ crossed' \in BOOLEAN
        /\ Upset \/ UNCHANGED upsets
        /\ UNCHANGED <<mode, host, cards, recency, held, turn, refused, excused, failed, answered>>
    BY <1>13, DeadlineDoes DEF Moved, ServingTypeOK
  <2> QED
    BY <2>1, UpsetTypes, MoveTypes DEF ServingTypeOK, host
<1>14. ASSUME NEW t \in Threads, Diagnose(t) PROVE ServingTypeOK'
  <2>1. /\ threads' \in [Threads -> Spots] /\ turn.name \in Names
        /\ refused' \subseteq Names /\ excused' \subseteq Names /\ failed' \in BOOLEAN
        /\ Upset \/ UNCHANGED upsets
        /\ UNCHANGED <<mode, host, cards, recency, held, turn, crossed, answered>>
    <3>1. turn.name \in Names
      BY <1>14, DiagnoseDoes, InTurn DEF At
    <3>2. \/ UNCHANGED upsets /\ \E blamed \in BOOLEAN : Raised(t, blamed)
          \/ Upset /\ Raised(t, FALSE)
      BY <1>14, DiagnoseDoes
    <3>3. \A blamed \in BOOLEAN : Raised(t, blamed) =>
             /\ threads' \in [Threads -> Spots] /\ failed' \in BOOLEAN
             /\ refused' \subseteq Names /\ excused' \subseteq Names
      BY <3>1 DEF Raised, Moved, ServingTypeOK
    <3> QED
      BY <1>14, DiagnoseDoes, <3>1, <3>2, <3>3
  <2> QED
    BY <2>1, UpsetTypes, MoveTypes DEF ServingTypeOK, host
<1>15. ASSUME NEW t \in Threads, Find(t) PROVE ServingTypeOK'
  <2>1. /\ threads' \in [Threads -> Spots] /\ held' \in [Names -> Handles \cup {NONE}]
        /\ refused' \subseteq Names /\ excused' \subseteq Names /\ failed' \in BOOLEAN
        /\ UNCHANGED <<mode, host, cards, recency, turn, crossed, answered, upsets>>
    BY <1>15, FindDoes, InTurn DEF Served, Raised, Moved, ServingTypeOK, At
  <2> QED
    BY <2>1, MoveTypes DEF ServingTypeOK, host
<1>16. ASSUME NEW t \in Threads, Ask(t) PROVE ServingTypeOK'
  <2>1. /\ Moved(t, Spot("idle", NONE, {})) /\ answered' \subseteq Names
        /\ failed' \in BOOLEAN /\ refused' \subseteq Names /\ excused' \subseteq Names
        /\ UNCHANGED <<mode, host, cards, recency, held, turn, crossed, upsets>>
    <3>1. turn.name \in Names
      BY <1>16, AskDoes, InTurn DEF At
    <3>2. CASE Raised(t, FALSE) /\ UNCHANGED answered
      BY <1>16, AskDoes, <3>1, <3>2 DEF Raised, ServingTypeOK
    <3>3. CASE ~(Raised(t, FALSE) /\ UNCHANGED answered)
      BY <1>16, AskDoes, <3>3 DEF ServingTypeOK
    <3> QED
      BY <3>2, <3>3
  <2> QED
    BY <2>1 DEF ServingTypeOK, Moved, Spots, host
<1> QED
BY <1>1, <1>2, <1>3, <1>4, <1>5, <1>6, <1>7, <1>8, <1>9, <1>10, <1>11, <1>12, <1>13, <1>14, <1>15,
     <1>16
DEF ServingNext, Turn

\* No step takes a thread where it has no card, or two of them into the lock.
LEMMA PlacesStep ==
  ASSUME ServingInv, ServingNext
  PROVE  PlacesOK'
<1> USE ServingAssumption DEF ServingInv
<1>1. ASSUME NEW c \in Cards, Load(c) PROVE PlacesOK'
  BY <1>1 DEF Load, PlacesOK, At, Lock, ghosts
<1>2. ASSUME NEW c \in Cards, Dies(c) PROVE PlacesOK'
  BY <1>2 DEF Dies, PlacesOK, At, Lock, ghosts
<1>3. ASSUME NEW c \in Cards, SurvivorEnds(c) PROVE PlacesOK'
  BY <1>3 DEF SurvivorEnds, PlacesOK, At, Lock, ghosts
<1>4. ASSUME Cut PROVE PlacesOK'
  BY <1>4 DEF Cut, PlacesOK, At, Lock, ghosts
<1>5. ASSUME Mended PROVE PlacesOK'
  BY <1>5 DEF Mended, PlacesOK, At, Lock, ghosts
<1>6. ASSUME NEW c \in Cards, NEW n \in Names, LateScript(c, n) PROVE PlacesOK'
  BY <1>6 DEF LateScript, PlacesOK, At, Lock
<1>7. ASSUME NEW c \in Cards, NEW names \in Servings, Operator(c, names) PROVE PlacesOK'
  BY <1>7 DEF Operator, PlacesOK, At, Lock, ghosts
<1>8. ASSUME NEW n \in Names, NEW how \in {"admit", "act"}, Begin(n, how) PROVE PlacesOK'
  BY <1>8 DEF Begin, PlacesOK, At, Lock, Turns
<1>9. ASSUME Finish PROVE PlacesOK'
  BY <1>9 DEF Finish, PlacesOK, At, Lock
<1>10. ASSUME NEW t \in Threads, Ensure(t) PROVE PlacesOK'
  <2>1. PICK c \in Cards : Served(t, c, cards[c].aliases)
    BY <1>10, EnsureDoes
  <2>2. /\ mode = "managed" /\ UNCHANGED <<mode, turn, ghosts>> /\ ~At(t, "idle")
        /\ turn # NONE
    BY <1>10, EnsureDoes, InTurn
  <2> QED
    BY <2>1, <2>2 DEF PlacesOK, Served, Moved, Spot, At, Lock
<1>11. ASSUME NEW t \in Threads, Launch(t) PROVE PlacesOK'
  <2>1. /\ UNCHANGED <<mode, turn, held>> /\ turn # NONE /\ mode = "managed"
        /\ Lock = {} /\ Victim \in Cards
        /\ Moved(t, Spot("poll", Victim, {})) \/ Moved(t, Spot("idle", NONE, {}))
    BY <1>11, LaunchDoes, InTurn DEF Raised, At
  <2> QED
    BY <2>1 DEF PlacesOK, Moved, Spot, At, Lock
<1>12. ASSUME NEW t \in Threads, Ready(t) PROVE PlacesOK'
  <2>1. /\ mode = "managed" /\ UNCHANGED <<mode, turn>> /\ turn # NONE
        /\ threads[t].card \in Cards
        /\ Served(t, threads[t].card, Listed(threads[t].card))
    BY <1>12, ReadyDoes, InTurn DEF At
  <2> QED
    BY <2>1 DEF PlacesOK, Served, Moved, Spot, At, Lock
<1>13. ASSUME NEW t \in Threads, Deadline(t) PROVE PlacesOK'
  <2>1. /\ mode = "managed" /\ UNCHANGED <<mode, turn, held>> /\ turn # NONE
        /\ threads[t].card \in Cards /\ At(t, "poll")
        /\ Moved(t, Spot("diagnose", threads[t].card, {}))
    BY <1>13, DeadlineDoes, InTurn DEF At, PlacesOK
  <2> QED
    BY <2>1 DEF PlacesOK, Moved, Spot, At, Lock
<1>14. ASSUME NEW t \in Threads, Diagnose(t) PROVE PlacesOK'
  <2>1. UNCHANGED <<mode, turn, held>> /\ turn # NONE /\ Moved(t, Spot("idle", NONE, {}))
    BY <1>14, DiagnoseDoes, InTurn DEF Raised, At
  <2> QED
    BY <2>1 DEF PlacesOK, Moved, Spot, At, Lock
<1>15. ASSUME NEW t \in Threads, Find(t) PROVE PlacesOK'
  <2>1. UNCHANGED <<mode, turn>> /\ turn # NONE /\ mode = "local" /\ turn.name \in Names
    BY <1>15, FindDoes, InTurn DEF At
  <2>2. CASE \E c \in Cards : Served(t, c, Listed(c))
    <3>1. PICK c \in Cards : Served(t, c, Listed(c))
      BY <2>2
    <3>2. Conductor(c, Listed(c)).card = c
      BY <2>1 DEF Conductor
    <3> QED
      BY <2>1, <3>1, <3>2 DEF PlacesOK, Served, Moved, Spot, At, Lock
  <2>3. CASE Raised(t, FALSE) /\ UNCHANGED held
    BY <2>1, <2>3 DEF PlacesOK, Raised, Moved, Spot, At, Lock
  <2> QED
    BY <1>15, <2>2, <2>3, FindDoes
<1>16. ASSUME NEW t \in Threads, Ask(t) PROVE PlacesOK'
  <2>1. UNCHANGED <<mode, turn, held>> /\ turn # NONE /\ Moved(t, Spot("idle", NONE, {}))
    BY <1>16, AskDoes, InTurn DEF Raised, At
  <2> QED
    BY <2>1 DEF PlacesOK, Moved, Spot, At, Lock
<1> QED
BY <1>1, <1>2, <1>3, <1>4, <1>5, <1>6, <1>7, <1>8, <1>9, <1>10, <1>11, <1>12, <1>13, <1>14, <1>15,
     <1>16
DEF ServingNext, Turn

\* No step keeps a name that is not the tree's, or takes its text.
LEMMA AliasesStep ==
  ASSUME ServingInv, ServingNext
  PROVE  AliasesOK'
<1> USE ServingAssumption DEF ServingInv
<1>1. ASSUME NEW c \in Cards, Load(c) PROVE AliasesOK'
  BY <1>1 DEF Load, AliasesOK, ghosts
<1>2. ASSUME NEW c \in Cards, Dies(c) PROVE AliasesOK'
  BY <1>2 DEF Dies, AliasesOK, ghosts
<1>3. ASSUME NEW c \in Cards, SurvivorEnds(c) PROVE AliasesOK'
  BY <1>3 DEF SurvivorEnds, AliasesOK, ghosts
<1>4. ASSUME Cut PROVE AliasesOK'
  BY <1>4 DEF Cut, AliasesOK, ghosts
<1>5. ASSUME Mended PROVE AliasesOK'
  BY <1>5 DEF Mended, AliasesOK, ghosts
<1>6. ASSUME NEW c \in Cards, NEW n \in Names, LateScript(c, n) PROVE AliasesOK'
  BY <1>6 DEF LateScript, AliasesOK
<1>7. ASSUME NEW c \in Cards, NEW names \in Servings, Operator(c, names) PROVE AliasesOK'
  BY <1>7 DEF Operator, AliasesOK, ghosts
<1>8. ASSUME NEW n \in Names, NEW how \in {"admit", "act"}, Begin(n, how) PROVE AliasesOK'
  BY <1>8 DEF Begin, Idle, PlacesOK, AliasesOK, OneTree, ghosts
<1>9. ASSUME Finish PROVE AliasesOK'
  BY <1>9 DEF Finish, AliasesOK
<1>10. ASSUME NEW t \in Threads, Ensure(t) PROVE AliasesOK'
  <2>1. PICK c \in Cards : cards[c].served = turn.name /\ Served(t, c, cards[c].aliases)
    BY <1>10, EnsureDoes
  <2>2. UNCHANGED <<cards, turn, answered>> /\ turn # NONE /\ turn.name \in Names
    BY <1>10, EnsureDoes, InTurn DEF ghosts
  <2>3. OneTree(turn.name, cards[c].aliases)
    BY <2>1, <2>2 DEF AliasesOK
  <2> QED
    BY <2>1, <2>2, <2>3, ServedAliases DEF AliasesOK
<1>11. ASSUME NEW t \in Threads, Launch(t) PROVE AliasesOK'
  <2>1. /\ UNCHANGED <<held, turn, answered>> /\ cards' = Evicted(Victim) /\ Victim \in Cards
        /\ Moved(t, Spot("poll", Victim, {})) \/ Moved(t, Spot("idle", NONE, {}))
    BY <1>11, LaunchDoes DEF Raised
  <2>2. \A c \in Cards : cards'[c] = cards[c] \/ cards'[c].served = NONE
    BY <2>1 DEF Evicted, ServingTypeOK
  <2> QED
    BY <2>1, <2>2 DEF AliasesOK, OneTree, Moved, Spot
<1>12. ASSUME NEW t \in Threads, Ready(t) PROVE AliasesOK'
  <2> DEFINE c == threads[t].card
  <2>1. /\ UNCHANGED <<turn, answered>> /\ turn # NONE /\ turn.name \in Names /\ c \in Cards
        /\ OneTree(turn.name, Listed(c)) /\ Served(t, c, Listed(c))
        /\ cards' = [cards EXCEPT ![c] = [served |-> turn.name, aliases |-> Listed(c)]]
    BY <1>12, ReadyDoes, InTurn DEF ghosts, At
  <2>2. /\ \A d \in Cards \ {c} : cards'[d] = cards[d]
        /\ cards'[c].served = turn.name /\ cards'[c].aliases = Listed(c)
    BY <2>1 DEF ServingTypeOK
  <2> HIDE DEF c
  <2> QED
    BY <2>1, <2>2, ServedAliases DEF AliasesOK
<1>13. ASSUME NEW t \in Threads, Deadline(t) PROVE AliasesOK'
  <2>1. /\ UNCHANGED <<cards, held, turn, answered>>
        /\ Moved(t, Spot("diagnose", threads[t].card, {}))
    BY <1>13, DeadlineDoes
  <2> QED
    BY <2>1 DEF AliasesOK, Moved, Spot, OneTree
<1>14. ASSUME NEW t \in Threads, Diagnose(t) PROVE AliasesOK'
  <2>1. Moved(t, Spot("idle", NONE, {})) /\ UNCHANGED <<cards, held, turn, answered>>
    BY <1>14, DiagnoseDoes DEF Raised
  <2> QED
    BY <2>1 DEF AliasesOK, Moved, Spot, OneTree
<1>15. ASSUME NEW t \in Threads, Find(t) PROVE AliasesOK'
  <2>1. /\ UNCHANGED <<cards, turn, answered>> /\ turn # NONE /\ turn.name \in Names
    BY <1>15, FindDoes, InTurn DEF At
  <2>2. CASE \E c \in Cards : OneTree(turn.name, Listed(c)) /\ Served(t, c, Listed(c))
    BY <2>1, <2>2, ServedAliases DEF AliasesOK
  <2>3. CASE Raised(t, FALSE) /\ UNCHANGED held
    <3>1. Leaves(t) /\ threads'[t].aliases = {}
      BY <2>3, RaisedLeaves
    <3> QED
      BY <2>1, <2>3, <3>1 DEF AliasesOK, OneTree, Leaves
  <2> QED
    BY <1>15, <2>2, <2>3, FindDoes
<1>16. ASSUME NEW t \in Threads, Ask(t) PROVE AliasesOK'
  <2>1. Moved(t, Spot("idle", NONE, {})) /\ UNCHANGED <<cards, held, turn>> /\ turn # NONE
    BY <1>16, AskDoes, InTurn DEF Raised, At
  <2>2. OneTree(turn.name, {}) /\ OneTree(turn.name, answered)
    BY <2>1 DEF OneTree, AliasesOK
  <2>3. OneTree(turn.name, answered')
    <3>1. \A n : Accepts(turn.name, threads[t].aliases, n) => SameTree(turn.name, n)
      BY <2>1 DEF Accepts, AliasesOK, OneTree, SameTree
    <3>2. answered' = answered \/ \E n : /\ Accepts(turn.name, threads[t].aliases, n)
                                         /\ answered' = answered \cup {n}
      BY <1>16, AskDoes
    <3> QED
      BY <2>2, <3>1, <3>2 DEF OneTree
  <2>4. \A u \in Threads : threads'[u].aliases \in {threads[u].aliases, {}}
    BY <2>1 DEF Moved, Spot
  <2>5. \A u \in Threads : OneTree(turn.name, threads[u].aliases)
    BY <2>1 DEF AliasesOK
  <2>6. \A u \in Threads : OneTree(turn.name, threads'[u].aliases)
    BY <2>2, <2>4, <2>5
  <2>7. (\A c \in Cards : cards[c].served # NONE => OneTree(cards[c].served, cards[c].aliases))'
    BY <2>1 DEF AliasesOK, OneTree
  <2>8. (\A n \in Names : held[n] # NONE => OneTree(n, held[n].aliases))'
    BY <2>1 DEF AliasesOK, OneTree
  <2> QED
    BY <2>1, <2>3, <2>6, <2>7, <2>8 DEF AliasesOK, OneTree
<1> QED
BY <1>1, <1>2, <1>3, <1>4, <1>5, <1>6, <1>7, <1>8, <1>9, <1>10, <1>11, <1>12, <1>13, <1>14, <1>15,
     <1>16
DEF ServingNext, Turn

\* A launch is the thread's own until something crosses it.
LEMMA LaunchStep ==
  ASSUME ServingInv, ServingNext
  PROVE  LaunchOK'
<1> USE ServingAssumption DEF ServingInv
<1>1. ASSUME NEW c \in Cards, Load(c) PROVE LaunchOK'
  BY <1>1 DEF Load, ServingTypeOK, PlacesOK, LaunchOK, At, Lock, ghosts
<1>2. ASSUME NEW c \in Cards, Dies(c) PROVE LaunchOK'
  BY <1>2 DEF Dies, LaunchOK, At, Lock, ghosts
<1>3. ASSUME NEW c \in Cards, SurvivorEnds(c) PROVE LaunchOK'
  BY <1>3 DEF SurvivorEnds, LaunchOK, At, Lock, ghosts
<1>4. ASSUME Cut PROVE LaunchOK'
  BY <1>4 DEF Cut, LaunchOK, At, Lock, ghosts
<1>5. ASSUME Mended PROVE LaunchOK'
  BY <1>5 DEF Mended, LaunchOK, At, Lock, ghosts
<1>6. ASSUME NEW c \in Cards, NEW n \in Names, LateScript(c, n) PROVE LaunchOK'
  BY <1>6 DEF LateScript, Restarted, ServingTypeOK, PlacesOK, LaunchOK, At, Lock
<1>7. ASSUME NEW c \in Cards, NEW names \in Servings, Operator(c, names) PROVE LaunchOK'
  BY <1>7 DEF Operator, PlacesOK, LaunchOK, At, Lock
<1>8. ASSUME NEW n \in Names, NEW how \in {"admit", "act"}, Begin(n, how) PROVE LaunchOK'
  BY <1>8 DEF Begin, LaunchOK, Lock
<1>9. ASSUME Finish PROVE LaunchOK'
  BY <1>9 DEF Finish, LaunchOK, At, Lock
<1>10. ASSUME NEW t \in Threads, Ensure(t) PROVE LaunchOK'
  <2>1. UNCHANGED <<server, marked, turn, crossed>> /\ Leaves(t)
    BY <1>10, EnsureDoes, ServedLeaves DEF host, ghosts
  <2> QED
    BY <2>1 DEF LaunchOK, Leaves, At, Lock
<1>11. ASSUME NEW t \in Threads, Launch(t) PROVE LaunchOK'
  <2>1. /\ UNCHANGED <<turn, crossed>> /\ turn.name \in Names /\ Victim \in Cards /\ Lock = {}
    BY <1>11, LaunchDoes, InTurn DEF At
  <2>2. CASE /\ Moved(t, Spot("poll", Victim, {}))
             /\ \E survives \in BOOLEAN : Restarted(Victim, <<turn.name>>, TRUE, survives)
    <3>1. /\ server'[Victim].names = <<turn.name>> /\ server'[Victim].launched
          /\ ~marked'[Victim]
      BY <2>1, <2>2 DEF Restarted, ServingTypeOK
    <3> QED
      BY <2>1, <2>2, <3>1 DEF LaunchOK, Moved, Spot, At, Lock
  <2>3. CASE Raised(t, FALSE)
    BY <2>1, <2>3 DEF LaunchOK, Raised, Moved, Spot, Lock
  <2> QED
    BY <1>11, <2>2, <2>3, LaunchDoes
<1>12. ASSUME NEW t \in Threads, Ready(t) PROVE LaunchOK'
  <2>1. UNCHANGED <<server, marked, turn, crossed>> /\ Leaves(t)
    BY <1>12, ReadyDoes, ServedLeaves DEF host, ghosts
  <2> QED
    BY <2>1 DEF LaunchOK, Leaves, At, Lock
<1>13. ASSUME NEW t \in Threads, Deadline(t) PROVE LaunchOK'
  <2> DEFINE c == threads[t].card
  <2>1. /\ UNCHANGED <<server, marked, turn>> /\ At(t, "poll") /\ c \in Cards
        /\ Moved(t, Spot("diagnose", c, {}))
        /\ \/ crossed'
           \/ UNCHANGED crossed /\ (server[c].phase = "loading" => Head(server[c].names) \in Slow)
        /\ turn.name \in Names
    BY <1>13, DeadlineDoes, InTurn DEF host, At
  <2>2. Head(<<turn.name>>) = turn.name
    OBVIOUS
  <2>3. t \in Lock /\ \A u \in Threads : u \in Lock' => u \in Lock
    BY <2>1 DEF Lock, At, Moved, Spot
  <2>4. CASE crossed'
    BY <2>4 DEF LaunchOK
  <2>5. CASE ~crossed'
    <3>1. /\ ~crossed
          /\ server[c].names = <<turn.name>> /\ server[c].launched
          /\ marked[c] => turn.name \in Corrupt
          /\ server[c].phase = "loading" => turn.name \in Slow
      BY <2>1, <2>2, <2>3, <2>5 DEF LaunchOK
    <3>2. \A u \in Lock : u = t
      BY <2>3 DEF PlacesOK
    <3> QED
      BY <2>1, <2>3, <3>1, <3>2 DEF LaunchOK, Moved, Spot, At, Lock
  <2> QED
    BY <2>4, <2>5
<1>14. ASSUME NEW t \in Threads, Diagnose(t) PROVE LaunchOK'
  <2>1. UNCHANGED <<server, marked, turn, crossed>> /\ Leaves(t)
    BY <1>14, DiagnoseDoes, RaisedLeaves DEF host
  <2> QED
    BY <2>1 DEF LaunchOK, Leaves, At, Lock
<1>15. ASSUME NEW t \in Threads, Find(t) PROVE LaunchOK'
  <2>1. UNCHANGED <<server, marked, turn, crossed>> /\ Leaves(t)
    BY <1>15, FindDoes, ServedLeaves, RaisedLeaves DEF host
  <2> QED
    BY <2>1 DEF LaunchOK, Leaves, At, Lock
<1>16. ASSUME NEW t \in Threads, Ask(t) PROVE LaunchOK'
  <2>1. UNCHANGED <<server, marked, turn, crossed>>
    BY <1>16, AskDoes DEF host
  <2>2. Moved(t, Spot("idle", NONE, {})) => Leaves(t)
    BY DEF Moved, Spot, Leaves
  <2>3. Leaves(t)
    BY <1>16, <2>2, AskDoes, RaisedLeaves
  <2> QED
    BY <2>1, <2>3 DEF LaunchOK, Leaves, At, Lock
<1> QED
BY <1>1, <1>2, <1>3, <1>4, <1>5, <1>6, <1>7, <1>8, <1>9, <1>10, <1>11, <1>12, <1>13, <1>14, <1>15,
     <1>16
DEF ServingNext, Turn

\* Without an upset the cards serve what they say.
LEMMA CalmStep ==
  ASSUME ServingInv, ServingNext
  PROVE  CalmOK'
<1> USE ServingAssumption DEF ServingInv
<1>1. ASSUME NEW c \in Cards, Load(c) PROVE CalmOK'
  <2>1. SUFFICES ASSUME mode = "managed", upsets = 0
                 PROVE  CalmOK'
    BY <1>1 DEF Load, CalmOK
  <2>2. /\ server[c].phase = "loading" /\ survivor[c] = <<>>
        /\ \A d \in Cards \ {c} : server'[d] = server[d]
        /\ server'[c].names = server[c].names
        /\ server'[c].phase = IF Head(server[c].names) \in Good THEN "up" ELSE "exited"
        /\ UNCHANGED <<mode, linked, survivor, late, cards, turn, threads, failed, upsets>>
    BY <1>1, <2>1 DEF Load, CalmOK, ServingTypeOK, Servers, ghosts
  <2>3. cards[c].served = NONE
    BY <2>1, <2>2 DEF CalmOK
  <2>4. ASSUME NEW t \in Threads, At(t, "poll"), threads[t].card = c, turn.name \in Good
        PROVE  server'[c].phase = "up"
    <3>1. server[c].names = <<turn.name>>
      BY <2>1, <2>4 DEF CalmOK
    <3> QED
      BY <2>2, <2>4, <3>1
  <2>5. \A t \in Threads : At(t, "poll") => threads[t].card \in Cards
    BY DEF PlacesOK
  <2>6. \A t \in Threads : At(t, "ask") => cards[threads[t].card].served = turn.name
    BY <2>1 DEF CalmOK
  <2>7. \A d \in Cards : cards'[d].served # NONE =>
                           server'[d].phase = "up" /\ server'[d].names = <<cards'[d].served>>
    BY <2>1, <2>2, <2>3 DEF CalmOK
  <2>8. ASSUME NEW t \in Threads, At(t, "poll")
        PROVE  LET d == threads[t].card
               IN  /\ server'[d].names = <<turn.name>>
                   /\ ServedOn(turn.name)' = {} /\ cards[d].served = NONE
                   /\ turn.name \in Good => server'[d].phase \in {"loading", "up"}
    <3>1. /\ server[threads[t].card].names = <<turn.name>> /\ cards[threads[t].card].served = NONE
          /\ ServedOn(turn.name) = {}
          /\ turn.name \in Good => server[threads[t].card].phase \in {"loading", "up"}
      BY <2>1, <2>8 DEF CalmOK
    <3>2. ServedOn(turn.name)' = {}
      BY <2>2, <3>1 DEF ServedOn
    <3> QED
      BY <2>2, <2>4, <2>5, <2>8, <3>1, <3>2
  <2>9. /\ \A t \in Threads : At(t, "diagnose") => turn.name \notin Good
        /\ turn # NONE /\ turn.name \in Good => ~failed
        /\ linked /\ late = {} /\ \A d \in Cards : survivor[d] = <<>>
    BY <2>1 DEF CalmOK
  <2> QED
    BY <2>2, <2>6, <2>7, <2>8, <2>9 DEF CalmOK, At
<1>2. ASSUME NEW c \in Cards, Dies(c) PROVE CalmOK'
  BY <1>2 DEF Dies, Upset, ServingTypeOK, CalmOK
<1>3. ASSUME NEW c \in Cards, SurvivorEnds(c) PROVE CalmOK'
  BY <1>3 DEF SurvivorEnds, CalmOK
<1>4. ASSUME Cut PROVE CalmOK'
  BY <1>4 DEF Cut, Upset, ServingTypeOK, CalmOK
<1>5. ASSUME Mended PROVE CalmOK'
  BY <1>5 DEF Mended, CalmOK
<1>6. ASSUME NEW c \in Cards, NEW n \in Names, LateScript(c, n) PROVE CalmOK'
  BY <1>6 DEF LateScript, CalmOK
<1>7. ASSUME NEW c \in Cards, NEW names \in Servings, Operator(c, names) PROVE CalmOK'
  BY <1>7 DEF Operator, CalmOK
<1>8. ASSUME NEW n \in Names, NEW how \in {"admit", "act"}, Begin(n, how) PROVE CalmOK'
  BY <1>8 DEF Begin, PlacesOK, CalmOK, At, host, ghosts
<1>9. ASSUME Finish PROVE CalmOK'
  BY <1>9 DEF Finish, CalmOK, At, host
<1>10. ASSUME NEW t \in Threads, Ensure(t) PROVE CalmOK'
  <2>1. PICK c \in Cards : cards[c].served = turn.name /\ Served(t, c, cards[c].aliases)
    BY <1>10, EnsureDoes
  <2>2. UNCHANGED <<mode, server, survivor, linked, late, cards, turn, failed, upsets>>
    BY <1>10, EnsureDoes DEF host, ghosts
  <2>3. /\ \A u \in Threads \ {t} : threads'[u] = threads[u]
        /\ threads'[t].at = "idle" \/ threads'[t] = Spot("ask", c, cards[c].aliases)
    BY <2>1 DEF Served, Moved, Spot
  <2> QED
    BY <2>1, <2>2, <2>3 DEF CalmOK, At, ServedOn, Spot
<1>11. ASSUME NEW t \in Threads, Launch(t) PROVE CalmOK'
  <2>1. SUFFICES ASSUME mode = "managed", upsets = 0, ~Upset
                 PROVE  CalmOK'
    BY <1>11, LaunchDoes, UpsetTypes DEF CalmOK, Upset
  <2>2. /\ At(t, "ensure") /\ Lock = {} /\ ServedOn(turn.name) = {} /\ Victim \in Cards
        /\ cards' = Evicted(Victim) /\ Restarted(Victim, <<turn.name>>, TRUE, FALSE)
        /\ Moved(t, Spot("poll", Victim, {}))
        /\ UNCHANGED <<late, failed, linked, turn, mode, upsets>> /\ turn.name \in Names
    BY <1>11, <2>1, LaunchDoes, InTurn DEF At
  <2>3. /\ \A c \in Cards \ {Victim} : cards'[c] = cards[c] /\ server'[c] = server[c]
        /\ cards'[Victim].served = NONE
        /\ server'[Victim] = [names |-> <<turn.name>>, phase |-> "loading", launched |-> TRUE]
        /\ survivor' = survivor
    BY <2>2 DEF Evicted, Restarted, ServingTypeOK
  <2>4. ASSUME NEW u \in Threads \ {t}
        PROVE  ~At(u, "poll") /\ ~At(u, "diagnose") /\ ~At(u, "ask")
    <3>1. At(u, "ask") => threads[u].card \in ServedOn(turn.name)
      BY <2>1 DEF CalmOK, PlacesOK, ServedOn
    <3> QED
      BY <2>2, <3>1 DEF Lock, At
  <2>5. ServedOn(turn.name)' = {}
    BY <2>2, <2>3, ServingAssumption DEF ServedOn
  <2> QED
    BY <2>1, <2>2, <2>3, <2>4, <2>5 DEF CalmOK, At, Moved, Spot
<1>12. ASSUME NEW t \in Threads, Ready(t) PROVE CalmOK'
  <2> DEFINE c == threads[t].card
  <2>1. SUFFICES ASSUME mode = "managed", upsets = 0
                 PROVE  CalmOK'
    BY <1>12 DEF Ready, CalmOK
  <2>2. /\ UNCHANGED <<mode, server, survivor, linked, late, turn, failed, upsets>>
        /\ c \in Cards /\ At(t, "poll") /\ turn.name \in Listed(c)
        /\ cards' = [cards EXCEPT ![c] = [served |-> turn.name, aliases |-> Listed(c)]]
        /\ Served(t, c, Listed(c))
    BY <1>12, ReadyDoes DEF host, ghosts
  <2>3. /\ \A d \in Cards \ {c} : cards'[d] = cards[d]
        /\ cards'[c].served = turn.name
    BY <2>2 DEF ServingTypeOK
  <2>4. server[c].phase = "up" /\ server[c].names = <<turn.name>>
    <3>1. survivor[c] = <<>> /\ server[c].names = <<turn.name>>
      BY <2>1, <2>2 DEF CalmOK
    <3> QED
      BY <2>2, <3>1 DEF Listed, Listening, ToSet
  <2>5. \A u \in Threads \ {t} : ~At(u, "poll")
    BY <2>2 DEF PlacesOK, Lock, At
  <2>6. /\ \A u \in Threads \ {t} : threads'[u] = threads[u]
        /\ threads'[t].at = "idle" \/ (threads'[t].at = "ask" /\ threads'[t].card = c)
    BY <2>2 DEF Served, Moved, Spot
  <2>7. \A u \in Threads : At(u, "ask") => cards[threads[u].card].served = turn.name
    BY <2>1 DEF CalmOK
  <2> HIDE DEF c
  <2> QED
    BY <2>1, <2>2, <2>3, <2>4, <2>5, <2>6, <2>7 DEF CalmOK, At, PlacesOK
<1>13. ASSUME NEW t \in Threads, Deadline(t) PROVE CalmOK'
  <2> DEFINE c == threads[t].card
  <2>1. SUFFICES ASSUME mode = "managed", upsets = 0, ~Upset
                 PROVE  CalmOK'
    BY <1>13, DeadlineDoes, UpsetTypes DEF CalmOK, Upset
  <2>2. /\ At(t, "poll") /\ c \in Cards /\ turn.name \notin Listed(c)
        /\ ~(server[c].phase = "loading" /\ Head(server[c].names) \notin Slow)
        /\ Moved(t, Spot("diagnose", c, {}))
        /\ UNCHANGED <<mode, host, cards, turn, failed, upsets>>
    BY <1>13, <2>1, DeadlineDoes
  <2>3. turn.name \notin Good
    <3>1. SUFFICES ASSUME turn.name \in Good PROVE FALSE
      OBVIOUS
    <3>2. /\ linked /\ survivor[c] = <<>> /\ server[c].names = <<turn.name>>
          /\ server[c].phase \in {"loading", "up"}
      BY <2>1, <2>2, <3>1 DEF CalmOK
    <3>3. Head(server[c].names) \notin Slow
      BY <3>1, <3>2, ServingAssumption
    <3>4. Listed(c) = ToSet(<<turn.name>>)
      BY <2>2, <3>2, <3>3 DEF Listed, Listening
    <3> QED
      BY <2>2, <3>4 DEF ToSet
  <2>4. /\ threads'[t].at = "diagnose"
        /\ \A u \in Threads \ {t} : threads'[u] = threads[u] /\ ~At(u, "poll")
    BY <2>2 DEF Moved, Spot, PlacesOK, Lock, At
  <2>5. UNCHANGED <<mode, linked, late, survivor, server, cards, turn, failed, upsets>>
    BY <2>2 DEF host
  <2> QED
    BY <2>1, <2>3, <2>4, <2>5 DEF CalmOK, At
<1>14. ASSUME NEW t \in Threads, Diagnose(t) PROVE CalmOK'
  <2>1. SUFFICES ASSUME mode = "managed", upsets = 0, ~Upset
                 PROVE  CalmOK'
    BY <1>14, DiagnoseDoes, UpsetTypes DEF CalmOK, Upset
  <2>2. /\ At(t, "diagnose") /\ UNCHANGED <<mode, host, cards, turn, upsets>>
        /\ \E blamed \in BOOLEAN : Raised(t, blamed)
    BY <1>14, <2>1, DiagnoseDoes
  <2>3. turn.name \notin Good
    BY <2>1, <2>2 DEF CalmOK
  <2>4. threads'[t].at = "idle" /\ \A u \in Threads \ {t} : threads'[u] = threads[u]
    BY <2>2 DEF Raised, Moved, Spot
  <2> QED
    BY <2>1, <2>2, <2>3, <2>4 DEF CalmOK, At, ServedOn, host
<1>15. ASSUME NEW t \in Threads, Find(t) PROVE CalmOK'
  BY <1>15, FindDoes DEF CalmOK
<1>16. ASSUME NEW t \in Threads, Ask(t) PROVE CalmOK'
  <2> DEFINE c == threads[t].card
  <2>1. SUFFICES ASSUME mode = "managed", upsets = 0
                 PROVE  CalmOK'
    BY <1>16 DEF Ask, CalmOK
  <2>2. At(t, "ask") /\ c \in Cards /\ turn.name \in Names /\ turn # NONE
    BY <1>16, AskDoes, InTurn DEF At
  <2>3. linked /\ Listening(c) = <<turn.name>>
    <3>1. linked /\ survivor[c] = <<>> /\ cards[c].served = turn.name
      BY <2>1, <2>2 DEF CalmOK
    <3>2. server[c].phase = "up" /\ server[c].names = <<turn.name>>
      BY <2>1, <2>2, <3>1, ServingAssumption DEF CalmOK
    <3> QED
      BY <3>1, <3>2 DEF Listening
  <2>4. Accepts(turn.name, threads[t].aliases, Head(<<turn.name>>)) /\ <<turn.name>> # <<>>
    BY DEF Accepts
  <2>5. /\ Moved(t, Spot("idle", NONE, {}))
        /\ UNCHANGED <<mode, host, cards, turn, failed, upsets>>
    BY <1>16, <2>3, <2>4, AskDoes
  <2> QED
    BY <2>1, <2>5 DEF CalmOK, At, Moved, Spot, ServedOn, host
<1> QED
BY <1>1, <1>2, <1>3, <1>4, <1>5, <1>6, <1>7, <1>8, <1>9, <1>10, <1>11, <1>12, <1>13, <1>14, <1>15,
     <1>16
DEF ServingNext, Turn

\* Only a tree that cannot be served is charged, or one whose launch was crossed.
LEMMA ChargeStep ==
  ASSUME ServingInv, ServingNext
  PROVE  ChargedIsAtFault'
<1> USE ServingAssumption DEF ServingInv
<1>1. ASSUME NEW c \in Cards, Load(c) PROVE ChargedIsAtFault'
  BY <1>1 DEF Load, ChargedIsAtFault, ghosts
<1>2. ASSUME NEW c \in Cards, Dies(c) PROVE ChargedIsAtFault'
  BY <1>2 DEF Dies, ChargedIsAtFault, ghosts
<1>3. ASSUME NEW c \in Cards, SurvivorEnds(c) PROVE ChargedIsAtFault'
  BY <1>3 DEF SurvivorEnds, ChargedIsAtFault, ghosts
<1>4. ASSUME Cut PROVE ChargedIsAtFault'
  BY <1>4 DEF Cut, ChargedIsAtFault, ghosts
<1>5. ASSUME Mended PROVE ChargedIsAtFault'
  BY <1>5 DEF Mended, ChargedIsAtFault, ghosts
<1>6. ASSUME NEW c \in Cards, NEW n \in Names, LateScript(c, n) PROVE ChargedIsAtFault'
  BY <1>6 DEF LateScript, ChargedIsAtFault
<1>7. ASSUME NEW c \in Cards, NEW names \in Servings, Operator(c, names) PROVE ChargedIsAtFault'
  BY <1>7 DEF Operator, ChargedIsAtFault, ghosts
<1>8. ASSUME NEW n \in Names, NEW how \in {"admit", "act"}, Begin(n, how) PROVE ChargedIsAtFault'
  BY <1>8 DEF Begin, ChargedIsAtFault, ghosts
<1>9. ASSUME Finish PROVE ChargedIsAtFault'
  BY <1>9 DEF Finish, ChargedIsAtFault
<1>10. ASSUME NEW t \in Threads, Ensure(t) PROVE ChargedIsAtFault'
  BY <1>10, EnsureDoes DEF ChargedIsAtFault, ghosts
<1>11. ASSUME NEW t \in Threads, Launch(t) PROVE ChargedIsAtFault'
  BY <1>11, LaunchDoes DEF Raised, ChargedIsAtFault
<1>12. ASSUME NEW t \in Threads, Ready(t) PROVE ChargedIsAtFault'
  BY <1>12, ReadyDoes DEF ChargedIsAtFault, ghosts
<1>13. ASSUME NEW t \in Threads, Deadline(t) PROVE ChargedIsAtFault'
  BY <1>13, DeadlineDoes DEF ChargedIsAtFault
<1>14. ASSUME NEW t \in Threads, Diagnose(t) PROVE ChargedIsAtFault'
  <2> DEFINE c == threads[t].card
  <2>1. /\ At(t, "diagnose") /\ c \in Cards /\ turn.name \in Names
        /\ \/ Raised(t, ReadinessVerdict(c, turn.name) = "LoadFailure")
           \/ Raised(t, FALSE)
    BY <1>14, DiagnoseDoes, InTurn DEF At
  <2>2. ~crossed /\ ReadinessVerdict(c, turn.name) = "LoadFailure" => turn.name \in Corrupt \cup Slow
    <3>1. SUFFICES ASSUME ~crossed, ReadinessVerdict(c, turn.name) = "LoadFailure"
                   PROVE  turn.name \in Corrupt \cup Slow
      OBVIOUS
    <3>2. /\ server[c].names = <<turn.name>> /\ server[c].launched
          /\ marked[c] => turn.name \in Corrupt
          /\ server[c].phase = "loading" => turn.name \in Slow
      BY <2>1, <3>1 DEF LaunchOK, Lock, At
    <3>3. server[c].phase = "up" => Listening(c) # <<>>
      BY <2>1, <3>2 DEF Listening, ServingTypeOK
    <3> QED
      BY <3>1, <3>2, <3>3 DEF ReadinessVerdict
  <2>3. refused' # refused => turn.name \in Corrupt \cup Slow \cup excused'
    BY <2>1, <2>2 DEF Raised
  <2> QED
    BY <2>1, <2>3 DEF ChargedIsAtFault, Raised
<1>15. ASSUME NEW t \in Threads, Find(t) PROVE ChargedIsAtFault'
  BY <1>15, FindDoes DEF Raised, ChargedIsAtFault
<1>16. ASSUME NEW t \in Threads, Ask(t) PROVE ChargedIsAtFault'
  BY <1>16, AskDoes DEF Raised, ChargedIsAtFault
<1> QED
BY <1>1, <1>2, <1>3, <1>4, <1>5, <1>6, <1>7, <1>8, <1>9, <1>10, <1>11, <1>12, <1>13, <1>14, <1>15,
     <1>16
DEF ServingNext, Turn


(***************************************************************************)
(* The theorems.                                                           *)
(***************************************************************************)

\* The invariant holds before the first window.
LEMMA Start == ServingInit => ServingInv
<1> SUFFICES ASSUME ServingInit PROVE ServingInv
  OBVIOUS
<1> USE ServingAssumption DEF ServingInit
<1>1. NoServer \in Servers /\ NoServer.phase = "none" /\ <<>> \in Listings
  BY DEF NoServer, Servers, Listings, Phases
<1>2. Idle \in [at : Places, card : Cards \cup {NONE}, aliases : SUBSET Names]
  BY DEF Idle, Places
<1>3. /\ server \in [Cards -> Servers] /\ survivor \in [Cards -> Listings]
      /\ \A c \in Cards : server[c].phase # "none" => server[c].names # <<>>
  BY <1>1
<1>4. /\ cards \in [Cards -> [served : Names \cup {NONE}, aliases : SUBSET Names]]
      /\ marked \in [Cards -> BOOLEAN] /\ late \subseteq Cards \X Names
      /\ recency \in [Cards -> Cards]
  OBVIOUS
<1>5. ServingTypeOK
  <2>1. threads \in [Threads -> [at : Places, card : Cards \cup {NONE}, aliases : SUBSET Names]]
    BY <1>2
  <2>2. held \in [Names -> Handles \cup {NONE}] /\ turn \in Turns \cup {NONE}
    OBVIOUS
  <2>3. /\ upsets = 0 /\ refused = {} /\ excused = {} /\ answered = {}
        /\ linked \in BOOLEAN /\ crossed \in BOOLEAN /\ failed \in BOOLEAN
    OBVIOUS
  <2>4. 0 \in 0..MaxUpsets
    OBVIOUS
  <2> HIDE DEF ServingInit
  <2> QED
    BY <1>3, <1>4, <2>1, <2>2, <2>3, <2>4 DEF ServingTypeOK
<1>6. PlacesOK /\ AliasesOK /\ LaunchOK
  BY DEF PlacesOK, AliasesOK, LaunchOK, Idle, At, Lock
<1>7. CalmOK /\ ChargedIsAtFault
  BY DEF CalmOK, ChargedIsAtFault, Idle, At
<1> QED
  BY <1>5, <1>6, <1>7 DEF ServingInv

\* The invariant the theorems below rest on holds in every reachable state.
THEOREM ServingInvariant == ServingSpec => []ServingInv
<1>1. ServingInv /\ UNCHANGED servingVars => ServingInv'
BY
DEF ServingInv, ServingTypeOK, PlacesOK, AliasesOK, LaunchOK, CalmOK, ChargedIsAtFault, At, Lock, ServedOn, servingVars,
         host, ghosts
<1>2. ServingInv /\ [ServingNext]_servingVars => ServingInv'
  BY <1>1, TypeStep, PlacesStep, AliasesStep, LaunchStep, CalmStep, ChargeStep DEF ServingInv
<1> QED
  BY Start, <1>2, PTL DEF ServingSpec

\* No text is taken for a miner's that another tree's weights wrote, whatever was
\* restarted, cut, killed or run late between readiness and the answer.
THEOREM AnsweredByItsOwnWeights == ServingSpec => []OwnWeightsAnswer
<1>1. ServingInv => OwnWeightsAnswer
  BY DEF ServingInv, AliasesOK, OneTree, OwnWeightsAnswer
<1> QED
  BY <1>1, ServingInvariant, PTL

\* A tree is refused for its load only if it cannot be served, or if its launch was
\* crossed by a late script or met a host too slow for the deadline.
THEOREM ChargedOnlyAtFault == ServingSpec => []ChargedIsAtFault
BY ServingInvariant, PTL DEF ServingInv

\* Without an upset no turn of a sound tree fails, however many trees share the cards.
THEOREM EvictionDoesNotShow == ServingSpec => []EvictionIsInvisible
<1>1. ServingInv => EvictionIsInvisible
  BY DEF ServingInv, CalmOK, EvictionIsInvisible
<1> QED
  BY <1>1, ServingInvariant, PTL

(***************************************************************************)
(* Episode.                                                                *)
(***************************************************************************)

\* No grader is told a score by a failure of the harness: it returns what the same answer is worth
\* in a run without trouble, or it dies.  (What no log shows is the exception Mistaken makes.)
LEMMA VerdictIsAnswersOrDied ==
  \A v \in Verdicts : v.score \in Nat \cup {Died} /\ (v.mistaken => v.score = Died)
<1> SUFFICES ASSUME NEW b \in Benchmarks, NEW a \in Replies, NEW trouble \in Troubles
             PROVE  /\ Graded(b, a, trouble) \in Nat \cup {Died}
                    /\ Mistaken(b, a, trouble) => Graded(b, a, trouble) = Died
  BY DEF Verdicts
<1>1. /\ Cardinality(Wanted) \in Nat
      /\ \A passed : Cardinality(Wanted \cap passed) \in Nat /\ Cardinality(passed \cap Wanted) \in Nat
      /\ \A f : Cardinality({test \in Wanted : f[test] = "PASSED"}) \in Nat
  <2>1. \A s \in SUBSET Wanted : Cardinality(s) \in Nat
    BY ChecksAssumption, FS_Subset, FS_CardinalityType
  <2> QED  BY <2>1
<1>2. a.text \in {"empty", "broken", "runs"}  BY DEF Replies
<1>3. ~Raises("none") /\ Started("none") /\ Reported("none") = "whole"
  BY DEF Raises, Started, Reported
<1>4. Reported(trouble) \in {"none", "cut", "whole"} /\ (Reported(trouble) # "none" => Started(trouble))
  BY DEF Reported, Started
<1>s. Shown(a, "none") = a /\ (trouble \notin Starvations => Shown(a, trouble) = a)
  BY DEF Shown, Starvations
<1>5. CASE b = "livecodebench"
  <2>1. trouble \notin Starvations => LcbGrade(a, trouble) \in {LcbGrade(a, "none"), Died}
    BY <1>2, <1>3, <1>4, <1>s DEF LcbGrade, LcbVerdict, DriverLog, EmptyProgram
  <2>2. LcbGrade(a, trouble) \in Nat \cup {Died}
    BY <1>1, <1>2, <1>4 DEF LcbGrade, LcbVerdict, DriverLog, EmptyProgram
  <2> QED  BY <1>5, <2>1, <2>2 DEF Graded, Mistaken, Unseen
<1>6. CASE b = "swe-bench-verified"
  <2>1. trouble \notin Starvations => SweGrade(a, trouble) \in {SweGrade(a, "none"), Died}
    BY <1>2, <1>3, <1>4, <1>s DEF SweGrade, SweReport, SweLog, EmptyPatch
  <2>2. SweGrade(a, trouble) \in Nat \cup {Died}
    BY <1>1, <1>2, <1>4 DEF SweGrade, SweReport, SweLog, EmptyPatch, Gated
  <2> QED  BY <1>6, <2>1, <2>2 DEF Graded, Mistaken, Unseen
<1>7. CASE b = "swe-bench-pro"
  <2>1. trouble \notin Starvations => SwepGrade(a, trouble) \in {SwepGrade(a, "none"), Died}
    BY <1>2, <1>3, <1>4, <1>s DEF SwepGrade, SwepVerdict, SwepLog, EmptyPatch
  <2>2. SwepGrade(a, trouble) \in Nat \cup {Died}
    BY <1>1, <1>2, <1>4 DEF SwepGrade, SwepVerdict, SwepLog, EmptyPatch, Gated
  <2> QED  BY <1>7, <2>1, <2>2 DEF Graded, Mistaken, Unseen
<1>8. CASE b = "r2e-gym"
  <2>1. ASSUME trouble # "dies_reporting", trouble \notin Starvations
        PROVE  R2eGrade(a, trouble) \in {R2eGrade(a, "none"), Died}
    <3>s. Shown(a, trouble) = a  BY <1>s, <2>1
    <3>1. Reported(trouble) # "cut"  BY <2>1 DEF Reported
    <3>2. CASE Reported(trouble) = "none"
      <4>1. R2eParseLog(a, trouble) = <<>>  BY <3>2 DEF R2eParseLog
      <4>2. ~Started(trouble)  BY <3>2, <2>1 DEF Reported
      <4>3. a.text = "empty" => R2eGrade(a, trouble) = R2eGrade(a, "none")
        BY DEF R2eGrade, EmptyPatch
      <4>4. a.text # "empty" => R2eGrade(a, trouble) = Died
        BY <3>s, <4>1, <4>2 DEF R2eGrade, EmptyPatch
      <4> QED  BY <4>3, <4>4
    <3>3. CASE Reported(trouble) = "whole"
      <4>1. R2eParseLog(a, trouble) = R2eParseLog(a, "none")  BY <1>3, <3>3 DEF R2eParseLog
      <4>2. Started(trouble)  BY <1>4, <3>3
      <4>3. R2eGrade(a, trouble) = Died \/ ~Raises(trouble) \/ EmptyPatch(a)
        BY DEF R2eGrade
      <4> QED  BY <3>s, <1>s, <4>1, <4>2, <4>3, <1>3 DEF R2eGrade
    <3> QED  BY <1>4, <3>1, <3>2, <3>3
  <2>2. R2eGrade(a, trouble) \in Nat \cup {Died}
    <3>1. \A observed : R2eScore(observed, Map(Tests), Wanted) \in Nat
      BY <1>1 DEF R2eScore
    <3> QED  BY <3>1 DEF R2eGrade
  <2> QED  BY <1>8, <2>1, <2>2 DEF Graded, Mistaken, Unseen
<1>9. CASE b = "hle"
  BY <1>1, <1>9 DEF Graded, Mistaken, HleGrade, Full
<1> QED  BY <1>5, <1>6, <1>7, <1>8, <1>9 DEF Benchmarks

\* Tests that pass are worth no less when more of them pass.
LEMMA PassingMorePays ==
  ASSUME NEW less, NEW more, less \subseteq more
  PROVE  /\ Cardinality(less \cap Wanted) \in 0..Cardinality(more \cap Wanted)
         /\ Gated(less) \in 0..Gated(more)
<1>1. \A s \in SUBSET Wanted : IsFiniteSet(s) /\ Cardinality(s) \in Nat
  BY ChecksAssumption, FS_Subset, FS_CardinalityType
<1>2. less \cap Wanted \subseteq more \cap Wanted /\ more \cap Wanted \in SUBSET Wanted
      /\ less \cap Wanted \in SUBSET Wanted
  OBVIOUS
<1>3. Cardinality(less \cap Wanted) <= Cardinality(more \cap Wanted)
  BY <1>1, <1>2, FS_Subset
<1>4. Wanted \cap less = less \cap Wanted /\ Wanted \cap more = more \cap Wanted  OBVIOUS
<1>5. Gated(less) = IF Regression \subseteq less THEN Cardinality(less \cap Wanted) ELSE 0
  BY <1>4 DEF Gated
<1>6. Gated(more) = IF Regression \subseteq more THEN Cardinality(more \cap Wanted) ELSE 0
  BY <1>4 DEF Gated
<1> QED  BY <1>1, <1>2, <1>3, <1>5, <1>6

\* The same of R2E-Gym's maps, whether all tests were collected or only the wanted ones.
LEMMA ScoringMorePays ==
  ASSUME NEW less, NEW more, less \subseteq more, NEW seen, seen \in {Tests, Wanted}
  PROVE  LET few == [test \in seen |-> Map(less)[test]]
             many == [test \in seen |-> Map(more)[test]]
         IN  R2eScore(few, Map(Tests), Wanted) \in 0..R2eScore(many, Map(Tests), Wanted)
<1> DEFINE few == [test \in seen |-> Map(less)[test]]
           many == [test \in seen |-> Map(more)[test]]
           Hits(f) == {test \in Wanted : f[test] = "PASSED"}
<1>1. \A s \in SUBSET Wanted : IsFiniteSet(s) /\ Cardinality(s) \in Nat
  BY ChecksAssumption, FS_Subset, FS_CardinalityType
<1>2. seen \subseteq Tests /\ Wanted \subseteq seen  BY DEF Tests
<1>3. \A test \in seen : few[test] = "PASSED" => many[test] = "PASSED"
  BY <1>2 DEF Map
<1>4. Hits(few) \subseteq Hits(many) /\ Hits(many) \in SUBSET Wanted /\ Hits(few) \in SUBSET Wanted
  BY <1>2, <1>3
<1>5. /\ Cardinality(Hits(few)) \in Nat /\ Cardinality(Hits(many)) \in Nat
      /\ Cardinality(Hits(few)) <= Cardinality(Hits(many))
  BY <1>1, <1>4, FS_Subset
<1>6. DOMAIN few = seen /\ DOMAIN many = seen /\ DOMAIN Map(Tests) = Tests
      /\ \A test \in Tests : Map(Tests)[test] = "PASSED"
  BY DEF Map
<1>7. CASE DOMAIN many # DOMAIN Map(Tests)
         \/ \E test \in DOMAIN Map(Tests) \ Wanted : many[test] # Map(Tests)[test]
  <2>1. DOMAIN few # DOMAIN Map(Tests)
         \/ \E test \in DOMAIN Map(Tests) \ Wanted : few[test] # Map(Tests)[test]
    BY <1>3, <1>6, <1>7
  <2>2. R2eScore(few, Map(Tests), Wanted) = 0 /\ R2eScore(many, Map(Tests), Wanted) = 0
    BY <1>7, <2>1 DEF R2eScore
  <2> QED  BY <2>2
<1>8. CASE ~(DOMAIN many # DOMAIN Map(Tests)
         \/ \E test \in DOMAIN Map(Tests) \ Wanted : many[test] # Map(Tests)[test])
  <2>1. R2eScore(many, Map(Tests), Wanted) = Cardinality(Hits(many))  BY <1>8 DEF R2eScore
  <2>2. R2eScore(few, Map(Tests), Wanted) \in {0, Cardinality(Hits(few))}  BY DEF R2eScore
  <2> QED  BY <1>5, <2>1, <2>2
<1> QED  BY <1>7, <1>8

\* No answer is worth more for a workload that starved in a container that lives on and reports: the
\* zero the graders give it can cost an arm a task and never win it one (real.py 576-580 and the
\* comments like it call it an exclusion).
THEOREM StarvingNeverPays == StarvedNeverPays
<1> SUFFICES ASSUME NEW b \in Benchmarks, NEW a \in Replies, NEW trouble \in Starvations
             PROVE  Graded(b, a, trouble) \in 0..Graded(b, a, "none")
  BY DEF StarvedNeverPays
<1> DEFINE shown == Shown(a, trouble)
<1>1. trouble \in {"starves_at_once", "starves_in_tests"}  BY DEF Starvations
<1>2. /\ ~Raises(trouble) /\ Started(trouble) /\ Reported(trouble) = "whole"
      /\ ~Raises("none") /\ Started("none") /\ Reported("none") = "whole"
  BY <1>1 DEF Raises, Started, Reported
<1>3. a.text \in {"empty", "broken", "runs"}  BY DEF Replies
<1>4. /\ Shown(a, "none") = a
      /\ shown.passed \subseteq a.passed /\ shown.collected = a.collected
      /\ trouble = "starves_at_once" => shown.text = "broken" /\ shown.passed = {}
      /\ trouble = "starves_in_tests" => shown.text = a.text
  BY <1>1 DEF Shown, Replies
<1>5. /\ Cardinality(shown.passed \cap Wanted) \in 0..Cardinality(a.passed \cap Wanted)
      /\ Gated(shown.passed) \in 0..Gated(a.passed)
  BY <1>4, PassingMorePays
<1>6. /\ Gated(a.passed) \in Nat /\ Gated(Regression) = 0
      /\ Cardinality(a.passed \cap Wanted) \in Nat
  <2>1. \A s \in SUBSET Wanted : Cardinality(s) \in Nat
    BY ChecksAssumption, FS_Subset, FS_CardinalityType
  <2>2. Wanted \cap Regression = {} /\ Cardinality({}) = 0  BY ChecksAssumption, FS_EmptySet
  <2>3. Wanted \cap a.passed \in SUBSET Wanted /\ a.passed \cap Wanted \in SUBSET Wanted  OBVIOUS
  <2> QED  BY <2>1, <2>2, <2>3 DEF Gated
<1>7. CASE b = "livecodebench"
  <2>1. a.text # "empty" => /\ LcbGrade(a, trouble) = Cardinality(shown.passed \cap Wanted)
                            /\ LcbGrade(a, "none") = Cardinality(a.passed \cap Wanted)
    BY <1>2, <1>4 DEF LcbGrade, LcbVerdict, DriverLog, EmptyProgram
  <2>2. a.text = "empty" => LcbGrade(a, trouble) = 0 /\ LcbGrade(a, "none") = 0
    BY DEF LcbGrade, EmptyProgram
  <2> QED  BY <1>5, <1>7, <2>1, <2>2 DEF Graded
<1>8. CASE b = "swe-bench-verified"
  <2>1. a.text # "runs" => SweGrade(a, trouble) = 0 /\ SweGrade(a, "none") = 0
    BY <1>1, <1>2, <1>3, <1>4 DEF SweGrade, SweLog, EmptyPatch
  <2>2. a.text = "runs" => /\ SweGrade(a, trouble) \in {0, Gated(shown.passed)}
                           /\ SweGrade(a, "none") = Gated(a.passed)
    BY <1>1, <1>2, <1>4 DEF SweGrade, SweReport, SweLog, EmptyPatch
  <2> QED  BY <1>3, <1>5, <1>6, <1>8, <2>1, <2>2 DEF Graded
<1>9. CASE b = "swe-bench-pro"
  <2>1. a.text = "empty" => SwepGrade(a, trouble) = 0 /\ SwepGrade(a, "none") = 0
    BY DEF SwepGrade, EmptyPatch
  <2>2. a.text = "broken" => SwepGrade(a, trouble) = 0 /\ SwepGrade(a, "none") = 0
    BY <1>1, <1>2, <1>4, <1>6 DEF SwepGrade, SwepVerdict, SwepLog, EmptyPatch
  <2>3. a.text = "runs" => /\ SwepGrade(a, trouble) \in {0, Gated(shown.passed)}
                           /\ SwepGrade(a, "none") = Gated(a.passed)
    BY <1>1, <1>2, <1>4, <1>6 DEF SwepGrade, SwepVerdict, SwepLog, EmptyPatch
  <2> QED  BY <1>3, <1>5, <1>6, <1>9, <2>1, <2>2, <2>3 DEF Graded
<1>10. CASE b = "r2e-gym"
  <2>1. a.text # "runs" => R2eGrade(a, trouble) = 0 /\ R2eGrade(a, "none") = 0
    BY <1>1, <1>2, <1>3, <1>4 DEF R2eGrade, EmptyPatch
  <2>2. ASSUME a.text = "runs"
        PROVE  R2eGrade(a, trouble) \in 0..R2eGrade(a, "none")
    <3> DEFINE seen == IF a.collected THEN Tests ELSE Wanted
               many == [test \in seen |-> Map(a.passed)[test]]
               few == [test \in seen |-> Map(shown.passed)[test]]
    <3>1. \A passed : Map(passed) = [test \in Tests |-> Map(passed)[test]]  BY DEF Map
    <3>2. R2eParseLog(a, "none") = many
      BY <1>2, <2>2, <3>1 DEF R2eParseLog
    <3>3. trouble = "starves_in_tests" => R2eParseLog(shown, trouble) = few
      BY <1>2, <1>4, <2>2, <3>1 DEF R2eParseLog
    <3>4. seen # {} /\ DOMAIN many = seen /\ DOMAIN few = seen
      BY ChecksAssumption DEF Tests
    <3>5. many # <<>> /\ few # <<>>
      <4>1. DOMAIN <<>> = {}  OBVIOUS
      <4> QED  BY <3>4, <4>1
    <3>6. R2eScore(few, Map(Tests), Wanted) \in 0..R2eScore(many, Map(Tests), Wanted)
      BY <1>4, ScoringMorePays
    <3>7. R2eGrade(a, "none") = R2eScore(many, Map(Tests), Wanted)
      BY <1>2, <1>4, <2>2, <3>2, <3>5 DEF R2eGrade, EmptyPatch
    <3>8. R2eGrade(a, trouble) \in {0, R2eScore(few, Map(Tests), Wanted)}
      BY <1>1, <1>2, <1>4, <2>2, <3>3, <3>5 DEF R2eGrade, EmptyPatch
    <3>9. R2eScore(many, Map(Tests), Wanted) \in Nat
      <4>1. \A s \in SUBSET Wanted : Cardinality(s) \in Nat
        BY ChecksAssumption, FS_Subset, FS_CardinalityType
      <4> QED  BY <4>1 DEF R2eScore
    <3> HIDE DEF many, few
    <3> QED  BY <3>6, <3>7, <3>8, <3>9
  <2> QED  BY <1>10, <2>1, <2>2 DEF Graded
<1>11. CASE b = "hle"
  <2>1. Cardinality(Wanted) \in Nat  BY ChecksAssumption, FS_CardinalityType
  <2> QED  BY <1>11, <2>1 DEF Graded, HleGrade, Full
<1> QED  BY <1>7, <1>8, <1>9, <1>10, <1>11 DEF Benchmarks

\* The outcome table's rows.
TableRows == [key : Keys, cost : Nat, grade : Nat, failure : {NONE, "worker"}]

EpisodeTypeOK ==
  /\ arm \in 1..NArms + 1
  /\ episodes \in [Tasks -> Episodes \cup {NONE}]
  /\ results \in [Arms -> [Tasks -> Results \cup {NONE}]]
  /\ \A k \in DOMAIN table : k \in Keys /\ table[k] \in TableRows
  /\ \A k \in DOMAIN file : k \in Keys /\ file[k] \in TableRows
  /\ torn \in BOOLEAN
  /\ charged \in [Arms -> Nat] /\ lost \in [Arms -> Nat]
  /\ deaths \in Nat /\ (torn => deaths >= 1)
  /\ stored \in [Keys -> Nat]
  /\ \A t \in Tasks : episodes[t] # NONE =>
       /\ arm \in Arms /\ results[arm][t] = NONE
       /\ Len(episodes[t].steps) < MaxSteps
  /\ mistaken \subseteq excluded

\* One step of the episode of t, or its end: e is what is left of it, r its result, and d what the
\* seam debits meanwhile.  Every dollar is in one or the other.
Progress(t, e, r, d) ==
  /\ arm \in Arms /\ episodes[t] # NONE /\ d \in Nat
  /\ episodes' = [episodes EXCEPT ![t] = e]
  /\ \/ /\ e \in Episodes /\ Len(e.steps) < MaxSteps
        /\ UNCHANGED results
        /\ Debited(e) = Debited(episodes[t]) + d
     \/ /\ e = NONE /\ r \in Results
        /\ results' = [results EXCEPT ![arm][t] = r]
        /\ r.spent = Debited(episodes[t]) + d
  /\ charged' = [charged EXCEPT ![arm] = @ + d]

\* What an episode in flight is.
LEMMA InFlight ==
  ASSUME EpisodeTypeOK, NEW t \in Tasks, episodes[t] # NONE
  PROVE  /\ arm \in Arms /\ results[arm][t] = NONE
         /\ episodes[t] \in Episodes
         /\ Len(episodes[t].steps) \in Nat /\ Len(episodes[t].steps) < MaxSteps
         /\ Debited(episodes[t]) \in Nat
         /\ episodes[t].pending = NONE => Debited(episodes[t]) = episodes[t].spent
         /\ episodes[t].pending # NONE =>
              /\ episodes[t].pending \in Pendings
              /\ Debited(episodes[t]) = episodes[t].spent + episodes[t].pending.cost
<1>1. arm \in Arms /\ results[arm][t] = NONE /\ Len(episodes[t].steps) < MaxSteps
      /\ episodes[t] \in Episodes
  BY DEF EpisodeTypeOK
<1> QED  BY <1>1 DEF Episodes, Pendings, Debited

\* A step's record.
LEMMA StepType ==
  ASSUME NEW kind \in {"garbage", "stop", "delegate"}, NEW m \in Models \cup {NONE}, NEW n \in Nat,
         NEW score, NEW cost \in Nat, NEW failure \in {NONE, "refused", "worker"}
  PROVE  /\ Step(kind, m, n, score, cost, failure) \in Steps
         /\ Step(kind, m, n, score, cost, failure).kind = kind
         /\ Step(kind, m, n, score, cost, failure).model = m
         /\ Step(kind, m, n, score, cost, failure).attempt = n
         /\ Step(kind, m, n, score, cost, failure).cost = cost
         /\ Step(kind, m, n, score, cost, failure).failure = failure
BY DEF Step, Steps

\* An episode that took another step, after which it has these steps, this spend and this best.
Stepped(e, a, b, c) == [e EXCEPT !.steps = a, !.spent = b, !.best = c, !.pending = NONE]

\* Its fields.
LEMMA EpisodeUpdate ==
  ASSUME NEW e \in Episodes, NEW a \in Seq(Steps), NEW b \in Nat, NEW c \in Nat
  PROVE  /\ Stepped(e, a, b, c) \in Episodes
         /\ Stepped(e, a, b, c).steps = a /\ Stepped(e, a, b, c).spent = b
         /\ Stepped(e, a, b, c).best = c /\ Stepped(e, a, b, c).pending = NONE
         /\ Stepped(e, a, b, c).fumbles = e.fumbles /\ Stepped(e, a, b, c).allowance = e.allowance
<1>1. ASSUME NEW n, n = Stepped(e, a, b, c)
      PROVE  /\ n \in Episodes /\ n.steps = a /\ n.spent = b /\ n.best = c /\ n.pending = NONE
             /\ n.fumbles = e.fumbles /\ n.allowance = e.allowance
  BY <1>1 DEF Episodes, Stepped
<1> QED  BY <1>1

\* The episode of t takes a step: it goes on with f fumbles in a row, or that was its last index.
Takes(t, e, r, d, f, step, score, cost) ==
  LET now == episodes[t]
      steps == Append(now.steps, step)
      best == IF score > now.best THEN score ELSE now.best
  IN /\ Progress(t, e, r, d)
     /\ e # NONE => /\ e.steps = steps /\ e.fumbles = f /\ e.best = best
                    /\ e.spent = now.spent + cost /\ e.pending = NONE
     /\ e = NONE => Len(steps) = MaxSteps /\ r = Result(steps, best, now.spent + cost, "max_steps")

\* What the loop's tail makes of a step.
LEMMA TookProgress ==
  ASSUME EpisodeTypeOK, NEW t \in Tasks, episodes[t] # NONE,
         NEW ep \in Episodes, ep.steps = episodes[t].steps, ep.best = episodes[t].best,
         ep.spent = episodes[t].spent, NEW step \in Steps, NEW score \in Nat,
         NEW cost \in Nat, NEW d \in Nat, ep.spent + cost = Debited(episodes[t]) + d,
         Took(t, ep, step, score, cost), charged' = [charged EXCEPT ![arm] = @ + d]
  PROVE  \E e, r : Takes(t, e, r, d, ep.fumbles, step, score, cost)
<1> DEFINE steps == Append(ep.steps, step)
           next == [ep EXCEPT !.steps = steps, !.spent = @ + cost,
                              !.best = IF score > @ THEN score ELSE @, !.pending = NONE]
           r == Result(steps, next.best, next.spent, "max_steps")
<1>1. ep.steps \in Seq(Steps) /\ ep.spent \in Nat /\ ep.best \in Nat  BY DEF Episodes
<1>2. steps \in Seq(Steps) /\ Len(steps) = Len(ep.steps) + 1 /\ Len(ep.steps) \in Nat  BY <1>1
<1>3. /\ next.steps = steps /\ next.spent = ep.spent + cost
      /\ next.best = (IF score > ep.best THEN score ELSE ep.best) /\ next.pending = NONE
      /\ next.fumbles = ep.fumbles /\ next \in Episodes
  <2>1. ep.spent + cost \in Nat /\ (IF score > ep.best THEN score ELSE ep.best) \in Nat  BY <1>1
  <2>2. \A n : n = next => /\ n \in Episodes /\ n.steps = steps /\ n.spent = ep.spent + cost
                           /\ n.best = (IF score > ep.best THEN score ELSE ep.best)
                           /\ n.pending = NONE /\ n.fumbles = ep.fumbles
    <3> SUFFICES ASSUME NEW n, n = next
                 PROVE  /\ n \in Episodes /\ n.steps = steps /\ n.spent = ep.spent + cost
                        /\ n.best = (IF score > ep.best THEN score ELSE ep.best)
                        /\ n.pending = NONE /\ n.fumbles = ep.fumbles
      OBVIOUS
    <3> DEFINE spent == ep.spent + cost
               best == IF score > ep.best THEN score ELSE ep.best
    <3>1. n = Stepped(ep, steps, spent, best)  BY DEF Stepped
    <3>2. spent \in Nat /\ best \in Nat /\ steps \in Seq(Steps)  BY <1>2, <2>1
    <3>3. /\ n \in Episodes /\ n.steps = steps /\ n.spent = spent /\ n.best = best
          /\ n.pending = NONE /\ n.fumbles = ep.fumbles
      <4> HIDE DEF steps, spent, best, next
      <4>1. /\ Stepped(ep, steps, spent, best) \in Episodes
            /\ Stepped(ep, steps, spent, best).steps = steps
            /\ Stepped(ep, steps, spent, best).spent = spent
            /\ Stepped(ep, steps, spent, best).best = best
            /\ Stepped(ep, steps, spent, best).pending = NONE
            /\ Stepped(ep, steps, spent, best).fumbles = ep.fumbles
        BY ONLY ep \in Episodes, <3>2, EpisodeUpdate
      <4> QED  BY ONLY <3>1, <4>1
    <3> QED  BY <3>3
  <2> HIDE DEF next
  <2> QED  BY <2>2
<1>4. r \in Results /\ r.spent = ep.spent + cost  BY <1>1, <1>2, <1>3 DEF Result, Results, Reasons
<1>5. arm \in Arms /\ Len(ep.steps) < MaxSteps  BY InFlight
<1>6. next # NONE /\ Debited(next) = ep.spent + cost
  <2> HIDE DEF next
  <2>1. NONE \notin Episodes  BY EpisodeAssumption
  <2>2. ep.spent + cost + 0 = ep.spent + cost  BY <1>1
  <2> QED  BY <1>3, <2>1, <2>2 DEF Debited
<1>7. MaxSteps \in Nat  BY EpisodeAssumption
<1>8. CASE Len(steps) = MaxSteps
  <2>1. results' = [results EXCEPT ![arm][t] = r] /\ episodes' = [episodes EXCEPT ![t] = NONE]
    BY <1>8 DEF Took, Record
  <2>2. Progress(t, NONE, r, d)  BY <1>4, <1>5, <2>1 DEF Progress
  <2>3. r = Result(steps, IF score > ep.best THEN score ELSE ep.best, ep.spent + cost, "max_steps")
    BY <1>3
  <2> QED  BY <1>8, <2>2, <2>3 DEF Takes
<1>9. CASE Len(steps) # MaxSteps
  <2>1. episodes' = [episodes EXCEPT ![t] = next] /\ UNCHANGED results  BY <1>9 DEF Took
  <2>2. Len(next.steps) < MaxSteps  BY <1>2, <1>3, <1>5, <1>7, <1>9
  <2>3. Progress(t, next, r, d)  BY <1>3, <1>5, <1>6, <2>1, <2>2 DEF Progress
  <2> HIDE DEF next, r
  <2> QED  BY <1>3, <1>6, <2>3 DEF Takes
<1> QED  BY <1>8, <1>9

\* An episode whose count of fumbles changed.
Counted(e, k) == [e EXCEPT !.fumbles = k]

\* Its fields.
LEMMA CountedFields ==
  ASSUME NEW e \in Episodes, NEW k \in Nat
  PROVE  /\ Counted(e, k) \in Episodes /\ Counted(e, k).fumbles = k
         /\ Counted(e, k).steps = e.steps /\ Counted(e, k).spent = e.spent
         /\ Counted(e, k).best = e.best /\ Counted(e, k).pending = e.pending
<1>1. ASSUME NEW n, n = Counted(e, k)
      PROVE  /\ n \in Episodes /\ n.fumbles = k /\ n.steps = e.steps /\ n.spent = e.spent
             /\ n.best = e.best /\ n.pending = e.pending
  BY <1>1 DEF Episodes, Counted
<1> QED  BY <1>1

\* An episode whose delegate is at another point.
Awaits(e, p) == [e EXCEPT !.pending = p]

\* Its fields.
LEMMA AwaitsFields ==
  ASSUME NEW e \in Episodes, NEW p \in Pendings
  PROVE  /\ Awaits(e, p) \in Episodes /\ Awaits(e, p).pending = p
         /\ Awaits(e, p).steps = e.steps /\ Awaits(e, p).spent = e.spent
         /\ Awaits(e, p).best = e.best /\ Awaits(e, p).fumbles = e.fumbles
<1>1. ASSUME NEW n, n = Awaits(e, p)
      PROVE  /\ n \in Episodes /\ n.fumbles = e.fumbles /\ n.steps = e.steps /\ n.spent = e.spent
             /\ n.best = e.best /\ n.pending = p
  BY <1>1 DEF Episodes, Awaits
<1> QED  BY <1>1

\* An episode that asks a delegate.
Opened(e, p) == [e EXCEPT !.fumbles = 0, !.pending = p]

\* Its fields.
LEMMA OpenedFields ==
  ASSUME NEW e \in Episodes, NEW p \in Pendings
  PROVE  /\ Opened(e, p) \in Episodes /\ Opened(e, p).pending = p
         /\ Opened(e, p).steps = e.steps /\ Opened(e, p).spent = e.spent
         /\ Opened(e, p).best = e.best /\ Opened(e, p).fumbles = 0
<1>1. ASSUME NEW n, n = Opened(e, p)
      PROVE  /\ n \in Episodes /\ n.fumbles = 0 /\ n.steps = e.steps /\ n.spent = e.spent
             /\ n.best = e.best /\ n.pending = p
  BY <1>1 DEF Episodes, Opened
<1> QED  BY <1>1

\* A delegate's account at another count of reads, in another phase, or at another cost.
Asked(p, n, c) == [p EXCEPT !.reads = n, !.cost = c]
Replied(p, c) == [p EXCEPT !.phase = "grade", !.cost = c]

\* Its fields.
LEMMA AccountFields ==
  ASSUME NEW p \in Pendings, NEW n \in Nat, NEW c \in Nat
  PROVE  /\ Asked(p, n, c) \in Pendings /\ Asked(p, n, c).key = p.key /\ Asked(p, n, c).cost = c
         /\ Replied(p, c) \in Pendings /\ Replied(p, c).key = p.key /\ Replied(p, c).cost = c
<1>1. ASSUME NEW q, q = Asked(p, n, c)
      PROVE  q \in Pendings /\ q.key = p.key /\ q.cost = c
  BY <1>1 DEF Pendings, Asked
<1>2. ASSUME NEW q, q = Replied(p, c)
      PROVE  q \in Pendings /\ q.key = p.key /\ q.cost = c
  BY <1>2 DEF Pendings, Replied
<1> QED  BY <1>1, <1>2

\* A step nobody is debited for.
LEMMA NoDebit == EpisodeTypeOK /\ UNCHANGED charged => charged' = [charged EXCEPT ![arm] = @ + 0]
BY DEF EpisodeTypeOK

\* The episode is cut at the top of its loop.
LEMMA CutProgress ==
  ASSUME EpisodeTypeOK, NEW t \in Tasks, OutOfTime(t) \/ OutOfMoney(t)
  PROVE  \E r : Progress(t, NONE, r, 0) /\ r.reason \in {"wall_clock", "budget_exhausted"}
<1> DEFINE now == episodes[t]
<1>1. Deciding(t) /\ UNCHANGED charged  BY DEF OutOfTime, OutOfMoney
<1>2. /\ now \in Episodes /\ now # NONE /\ now.pending = NONE /\ arm \in Arms
      /\ Debited(now) = now.spent
  BY <1>1, InFlight DEF Deciding
<1>3. now.steps \in Seq(Steps) /\ now.spent \in Nat /\ now.best \in Nat  BY <1>2 DEF Episodes
<1>4. PICK best \in Nat, reason \in {"wall_clock", "budget_exhausted"} :
        Record(t, Result(now.steps, best, now.spent, reason))
  BY <1>3 DEF OutOfTime, OutOfMoney
<1> DEFINE r == Result(now.steps, best, now.spent, reason)
<1>5. r \in Results /\ r.spent = now.spent /\ r.reason = reason
  BY <1>3 DEF Result, Results, Reasons
<1>6. now.spent = now.spent + 0  BY <1>3
<1>7. Progress(t, NONE, r, 0)
  <2> HIDE DEF r
  <2> QED  BY <1>1, <1>2, <1>4, <1>5, <1>6, NoDebit DEF Progress, Record, r
<1> QED  BY <1>5, <1>7

\* What a deciding episode is.
LEMMA Decides ==
  ASSUME EpisodeTypeOK, NEW t \in Tasks, Deciding(t)
  PROVE  /\ episodes[t] \in Episodes /\ episodes[t] # NONE /\ episodes[t].pending = NONE
         /\ arm \in Arms /\ Debited(episodes[t]) = episodes[t].spent
         /\ episodes[t].steps \in Seq(Steps) /\ episodes[t].spent \in Nat
         /\ episodes[t].best \in Nat /\ episodes[t].fumbles \in Nat
<1>1. episodes[t] \in Episodes /\ episodes[t] # NONE /\ episodes[t].pending = NONE
      /\ arm \in Arms /\ Debited(episodes[t]) = episodes[t].spent
  BY InFlight DEF Deciding
<1> QED  BY <1>1 DEF Episodes

\* What an episode with a delegate is.
LEMMA Awaiting ==
  ASSUME EpisodeTypeOK, NEW t \in Tasks, Calling(t) \/ InGrading(t)
  PROVE  /\ episodes[t] \in Episodes /\ episodes[t] # NONE /\ episodes[t].pending \in Pendings
         /\ arm \in Arms /\ Debited(episodes[t]) = episodes[t].spent + episodes[t].pending.cost
         /\ episodes[t].steps \in Seq(Steps) /\ episodes[t].spent \in Nat
         /\ episodes[t].best \in Nat /\ episodes[t].fumbles \in Nat
         /\ episodes[t].pending.cost \in Nat /\ episodes[t].pending.reads \in Nat
         /\ episodes[t].pending.key \in Keys /\ episodes[t].pending # NONE
<1>1. /\ episodes[t] \in Episodes /\ episodes[t] # NONE /\ episodes[t].pending # NONE
      /\ episodes[t].pending \in Pendings
      /\ arm \in Arms /\ Debited(episodes[t]) = episodes[t].spent + episodes[t].pending.cost
  BY InFlight DEF Calling, InGrading
<1> QED  BY <1>1 DEF Episodes, Pendings

\* The step of a text that is no action.
GarbageStep == Step("garbage", NONE, 0, 0, 0, NONE)

\* The Conductor's text is no action: one more fumble, and at the limit the end of the task.
LEMMA FumbleProgress ==
  ASSUME EpisodeTypeOK, NEW t \in Tasks, Fumble(t)
  PROVE  LET now == episodes[t] IN
         \/ /\ now.fumbles + 1 # ParseLimit
            /\ \E e, r : Takes(t, e, r, 0, now.fumbles + 1, GarbageStep, 0, 0)
         \/ /\ now.fumbles + 1 = ParseLimit
            /\ \E r : /\ Progress(t, NONE, r, 0)
                      /\ r = Result(Append(now.steps, GarbageStep), now.best, now.spent, "parse_failures")
<1> DEFINE now == episodes[t]
<1>1. Deciding(t) /\ UNCHANGED charged  BY DEF Fumble, MayAct
<1>2. charged' = [charged EXCEPT ![arm] = @ + 0]  BY <1>1, NoDebit
<1>3. GarbageStep \in Steps  BY StepType DEF GarbageStep
<1>4. CASE now.fumbles + 1 = ParseLimit
  <2> DEFINE r == Result(Append(now.steps, GarbageStep), now.best, now.spent, "parse_failures")
  <2>1. Record(t, r)  BY <1>4 DEF Fumble, GarbageStep
  <2>2. r \in Results /\ r.spent = now.spent
    BY <1>1, <1>3, Decides DEF Result, Results, Reasons
  <2>3. now.spent = now.spent + 0  BY <1>1, Decides
  <2>4. Progress(t, NONE, r, 0)
    <3> HIDE DEF r
    <3> QED  BY <1>1, <1>2, <2>1, <2>2, <2>3, Decides DEF Progress, Record
  <2> QED  BY <1>4, <2>4
<1>5. CASE now.fumbles + 1 # ParseLimit
  <2>1. Took(t, Counted(now, now.fumbles + 1), GarbageStep, 0, 0)
    BY <1>5 DEF Fumble, GarbageStep, Counted
  <2>2. now.fumbles + 1 \in Nat /\ now \in Episodes  BY <1>1, Decides
  <2>3. /\ Counted(now, now.fumbles + 1) \in Episodes
        /\ Counted(now, now.fumbles + 1).fumbles = now.fumbles + 1
        /\ Counted(now, now.fumbles + 1).steps = now.steps
        /\ Counted(now, now.fumbles + 1).spent = now.spent
        /\ Counted(now, now.fumbles + 1).best = now.best
    BY ONLY <2>2, CountedFields
  <2>4. now.spent + 0 = Debited(now) + 0 /\ now # NONE  BY <1>1, Decides
  <2>5. \E e, r : Takes(t, e, r, 0, Counted(now, now.fumbles + 1).fumbles, GarbageStep, 0, 0)
    BY <1>2, <1>3, <2>1, <2>3, <2>4, TookProgress
  <2> QED  BY <1>5, <2>3, <2>5
<1> QED  BY <1>4, <1>5

\* The step of a submission.
StopStep == Step("stop", NONE, 0, 0, 0, NONE)

\* The Conductor submits: the best answer so far.
LEMMA SubmitProgress ==
  ASSUME EpisodeTypeOK, NEW t \in Tasks, Submit(t)
  PROVE  \E r : /\ Progress(t, NONE, r, 0)
                /\ r = Result(Append(episodes[t].steps, StopStep), episodes[t].best, episodes[t].spent, "stop")
<1> DEFINE now == episodes[t]
           r == Result(Append(now.steps, StopStep), now.best, now.spent, "stop")
<1>1. Deciding(t) /\ UNCHANGED charged  BY DEF Submit, MayAct
<1>2. charged' = [charged EXCEPT ![arm] = @ + 0]  BY <1>1, NoDebit
<1>3. StopStep \in Steps  BY StepType DEF StopStep
<1>4. Record(t, r)  BY DEF Submit, StopStep
<1>5. r \in Results /\ r.spent = now.spent
  BY <1>1, <1>3, Decides DEF Result, Results, Reasons
<1>6. now.spent = now.spent + 0  BY <1>1, Decides
<1>7. Progress(t, NONE, r, 0)
  <2> HIDE DEF r
  <2> QED  BY <1>1, <1>2, <1>4, <1>5, <1>6, Decides DEF Progress, Record
<1> QED  BY <1>7

\* The delegate of t is opened, or one turn further: for this key, after f fumbles.
Moves(t, e, d, f, key) ==
  LET now == episodes[t] IN
  /\ Progress(t, e, NONE, d)
  /\ e # NONE /\ e.steps = now.steps /\ e.spent = now.spent /\ e.best = now.best /\ e.fumbles = f
  /\ e.pending \in Pendings /\ e.pending # NONE /\ e.pending.key = key

\* An episode with a delegate that cost d more is that much further.
LEMMA MovesOn ==
  ASSUME EpisodeTypeOK, NEW t \in Tasks, episodes[t] # NONE, NEW e \in Episodes,
         e.steps = episodes[t].steps, e.spent = episodes[t].spent, e.best = episodes[t].best,
         e.pending \in Pendings, NEW d \in Nat,
         e.spent + e.pending.cost = Debited(episodes[t]) + d,
         episodes' = [episodes EXCEPT ![t] = e], UNCHANGED results,
         charged' = [charged EXCEPT ![arm] = @ + d]
  PROVE  Moves(t, e, d, e.fumbles, e.pending.key)
<1>1. arm \in Arms /\ Len(e.steps) < MaxSteps  BY InFlight
<1>2. e # NONE /\ e.pending # NONE  BY EpisodeAssumption
<1>3. Debited(e) = Debited(episodes[t]) + d  BY <1>2 DEF Debited
<1> QED  BY <1>1, <1>2, <1>3 DEF Moves, Progress

\* The draw's number is within the key's range.
LEMMA AttemptType ==
  ASSUME EpisodeTypeOK, NEW t \in Tasks, episodes[t] # NONE, NEW m \in Models
  PROVE  Attempt(episodes[t], m) \in Nat /\ <<t, m, Attempt(episodes[t], m)>> \in Keys
<1> DEFINE steps == episodes[t].steps
           drawn == {i \in DOMAIN steps : steps[i].model = m}
<1>1. Len(steps) \in Nat /\ Len(steps) < MaxSteps  BY InFlight
<1>2. DOMAIN steps = 1..Len(steps)
  <2>1. steps \in Seq(Steps)  BY InFlight DEF Episodes
  <2> QED  BY <2>1
<1>3. IsFiniteSet(1..Len(steps)) /\ Cardinality(1..Len(steps)) = Len(steps)
  BY <1>1, FS_Interval
<1>4. drawn \subseteq 1..Len(steps)  BY <1>2
<1>5. Cardinality(drawn) \in Nat /\ Cardinality(drawn) <= Len(steps)
  <2> HIDE DEF drawn
  <2> QED  BY <1>3, <1>4, FS_Subset, FS_CardinalityType
<1>6. Attempt(episodes[t], m) = 1 + Cardinality(drawn)  BY DEF Attempt
<1>7. MaxSteps \in Nat  BY EpisodeAssumption
<1>8. 1 + Cardinality(drawn) \in 1..MaxSteps /\ 1 + Cardinality(drawn) \in Nat
  <2> HIDE DEF drawn
  <2> QED  BY <1>1, <1>5, <1>7
<1> QED  BY <1>6, <1>8 DEF Keys

\* A draw the table has not: its delegate opens.
LEMMA MissProgress ==
  ASSUME EpisodeTypeOK, NEW t \in Tasks, NEW m \in Models, Miss(t, m)
  PROVE  \E e : Moves(t, e, 0, 0, <<t, m, Attempt(episodes[t], m)>>)
<1> DEFINE now == episodes[t]
           key == <<t, m, Attempt(now, m)>>
           p == [key |-> key, phase |-> "call", reads |-> 0, cost |-> 0]
           e == Opened(now, p)
<1>1. Deciding(t) /\ UNCHANGED charged /\ UNCHANGED results  BY DEF Miss, MayAct
<1>2. key \in Keys  BY <1>1, AttemptType DEF Deciding
<1>3. p \in Pendings /\ p.key = key /\ p.cost = 0  BY <1>2 DEF Pendings
<1>4. episodes' = [episodes EXCEPT ![t] = e]  BY DEF Miss, Opened
<1>5. now \in Episodes /\ now # NONE /\ now.spent \in Nat /\ Debited(now) = now.spent
  BY <1>1, Decides
<1> HIDE DEF p, key
<1>6. /\ e \in Episodes /\ e.pending = p /\ e.steps = now.steps /\ e.spent = now.spent
      /\ e.best = now.best /\ e.fumbles = 0
  BY ONLY <1>3, <1>5, OpenedFields
<1>7. e.spent + e.pending.cost = Debited(now) + 0  BY <1>3, <1>5, <1>6
<1>8. charged' = [charged EXCEPT ![arm] = @ + 0]  BY <1>1, NoDebit
<1> HIDE DEF e
<1>9. Moves(t, e, 0, e.fumbles, e.pending.key)
  BY <1>1, <1>3, <1>4, <1>5, <1>6, <1>7, <1>8, MovesOn
<1> QED  BY <1>3, <1>6, <1>9 DEF key

\* One more turn of the delegate, which is debited.
LEMMA ReadsProgress ==
  ASSUME EpisodeTypeOK, NEW t \in Tasks, ReplyReads(t) \/ ReplySubmits(t)
  PROVE  \E e : Moves(t, e, 1, episodes[t].fumbles, episodes[t].pending.key)
<1> DEFINE now == episodes[t]
           p == now.pending
           c == p.cost + 1
           n == p.reads + 1
<1>1. (Calling(t) \/ InGrading(t)) /\ UNCHANGED results /\ Priced(t)  BY DEF ReplyReads, ReplySubmits
<1>2. /\ now \in Episodes /\ now # NONE /\ p \in Pendings /\ now.spent \in Nat
      /\ p.cost \in Nat /\ p.reads \in Nat /\ Debited(now) = now.spent + p.cost
  BY <1>1, Awaiting
<1>3. c \in Nat /\ n \in Nat  BY <1>2
<1>4. /\ Asked(p, n, c) \in Pendings /\ Asked(p, n, c).key = p.key /\ Asked(p, n, c).cost = c
      /\ Replied(p, c) \in Pendings /\ Replied(p, c).key = p.key /\ Replied(p, c).cost = c
  <2> HIDE DEF p, c, n
  <2> QED  BY ONLY <1>2, <1>3, AccountFields
<1>5. \E q : /\ q \in Pendings /\ q.key = p.key /\ q.cost = c
             /\ episodes' = [episodes EXCEPT ![t] = Awaits(now, q)]
  <2>1. CASE ReplyReads(t)
    <3>1. episodes' = [episodes EXCEPT ![t] = Awaits(now, Asked(p, n, c))]
      BY <2>1 DEF ReplyReads, Asked, Awaits
    <3> QED  BY <1>4, <3>1
  <2>2. CASE ReplySubmits(t)
    <3>1. episodes' = [episodes EXCEPT ![t] = Awaits(now, Replied(p, c))]
      BY <2>2 DEF ReplySubmits, Replied, Awaits
    <3> QED  BY <1>4, <3>1
  <2> QED  BY <2>1, <2>2
<1>10. PICK q : /\ q \in Pendings /\ q.key = p.key /\ q.cost = c
                /\ episodes' = [episodes EXCEPT ![t] = Awaits(now, q)]
  BY <1>5
<1> DEFINE e == Awaits(now, q)
<1>6. /\ e \in Episodes /\ e.pending = q /\ e.steps = now.steps /\ e.spent = now.spent
      /\ e.best = now.best /\ e.fumbles = now.fumbles
  BY ONLY <1>2, <1>10, AwaitsFields
<1>7. e.spent + e.pending.cost = Debited(now) + 1  BY <1>2, <1>10, <1>6
<1>8. charged' = [charged EXCEPT ![arm] = @ + 1]  BY <1>1 DEF Priced
<1> HIDE DEF e
<1>9. Moves(t, e, 1, e.fumbles, e.pending.key)
  BY <1>1, <1>2, <1>10, <1>6, <1>7, <1>8, MovesOn DEF e
<1> QED  BY <1>10, <1>6, <1>9

\* A draw the table has: replayed at the row's price, or refused.
LEMMA HitProgress ==
  ASSUME EpisodeTypeOK, NEW t \in Tasks, NEW m \in Models, Hit(t, m)
  PROVE  LET n == Attempt(episodes[t], m)
             key == <<t, m, n>>
             row == table[key]
         IN /\ key \in DOMAIN table
            /\ \/ \E e, r : Takes(t, e, r, row.cost, 0,
                               Step("delegate", m, n, row.grade, row.cost, row.failure), row.grade, row.cost)
               \/ \E e, r : Takes(t, e, r, 0, 0, Step("delegate", m, n, 0, 0, "refused"), 0, 0)
<1> DEFINE now == episodes[t]
           n == Attempt(now, m)
           key == <<t, m, n>>
           row == table[key]
           ep == Counted(now, 0)
<1>1. Deciding(t) /\ key \in DOMAIN table  BY DEF Hit, MayAct, Attempt, Counted
<1>2. now \in Episodes /\ now # NONE /\ now.spent \in Nat /\ Debited(now) = now.spent
  BY <1>1, Decides
<1>3. n \in Nat  BY <1>2, AttemptType
<1>4. row.cost \in Nat /\ row.grade \in Nat /\ row.failure \in {NONE, "worker"}
  BY <1>1 DEF EpisodeTypeOK, TableRows
<1>5. /\ ep \in Episodes /\ ep.fumbles = 0 /\ ep.steps = now.steps /\ ep.spent = now.spent
      /\ ep.best = now.best
  BY ONLY <1>2, CountedFields
<1>6. Attempt(ep, m) = n  BY <1>5 DEF Attempt
<1>7. \/ /\ charged' = [charged EXCEPT ![arm] = @ + row.cost]
         /\ Took(t, ep, Step("delegate", m, n, row.grade, row.cost, row.failure), row.grade, row.cost)
      \/ UNCHANGED charged /\ Took(t, ep, Step("delegate", m, n, 0, 0, "refused"), 0, 0)
  BY <1>6 DEF Hit, Counted, Price
<1> HIDE DEF n, row, ep
<1>8. CASE /\ charged' = [charged EXCEPT ![arm] = @ + row.cost]
           /\ Took(t, ep, Step("delegate", m, n, row.grade, row.cost, row.failure), row.grade, row.cost)
  <2>1. Step("delegate", m, n, row.grade, row.cost, row.failure) \in Steps
    BY <1>3, <1>4, StepType
  <2>2. ep.spent + row.cost = Debited(now) + row.cost  BY <1>2, <1>5
  <2>3. \E e, r : Takes(t, e, r, row.cost, ep.fumbles,
                        Step("delegate", m, n, row.grade, row.cost, row.failure), row.grade, row.cost)
    BY <1>2, <1>4, <1>5, <1>8, <2>1, <2>2, TookProgress
  <2> QED  BY <1>1, <1>5, <2>3 DEF n, row
<1>9. CASE UNCHANGED charged /\ Took(t, ep, Step("delegate", m, n, 0, 0, "refused"), 0, 0)
  <2>1. Step("delegate", m, n, 0, 0, "refused") \in Steps  BY <1>3, StepType
  <2>2. ep.spent + 0 = Debited(now) + 0  BY <1>2, <1>5
  <2>3. charged' = [charged EXCEPT ![arm] = @ + 0]  BY <1>9, NoDebit
  <2>4. \E e, r : Takes(t, e, r, 0, ep.fumbles, Step("delegate", m, n, 0, 0, "refused"), 0, 0)
    <3>1. Took(t, ep, Step("delegate", m, n, 0, 0, "refused"), 0, 0)  BY <1>9
    <3> DEFINE step == Step("delegate", m, n, 0, 0, "refused")
           nil == 0
    <3>2. /\ Took(t, ep, step, nil, nil) /\ step \in Steps /\ nil \in Nat
          /\ ep.spent + nil = Debited(now) + nil
          /\ charged' = [charged EXCEPT ![arm] = @ + nil]
      BY <2>1, <2>2, <2>3, <3>1
    <3> HIDE DEF step, nil
    <3>3. \E e, r : Takes(t, e, r, nil, ep.fumbles, step, nil, nil)
      BY <1>2, <1>5, <3>2, TookProgress
    <3> QED  BY <3>3 DEF step, nil
  <2> QED  BY <1>1, <1>5, <2>4 DEF n
<1> QED  BY <1>7, <1>8, <1>9

\* The step of a delegate that asked the provider: its key's model and draw, its score and its price.
DelegateStep(p, score, failure) == Step("delegate", p.key[2], p.key[3], score, p.cost, failure)

\* It is one.
LEMMA DelegateStepType ==
  ASSUME EpisodeTypeOK, NEW t \in Tasks, Calling(t) \/ InGrading(t), NEW score \in Nat,
         NEW failure \in {NONE, "refused", "worker"}
  PROVE  DelegateStep(episodes[t].pending, score, failure) \in Steps
<1> DEFINE p == episodes[t].pending
<1>1. p.key \in Keys /\ p.cost \in Nat  BY Awaiting
<1>2. MaxSteps \in Nat  BY EpisodeAssumption
<1>3. p.key[2] \in Models /\ p.key[3] \in 1..MaxSteps  BY <1>1 DEF Keys
<1>4. p.key[3] \in Nat  BY <1>2, <1>3
<1> HIDE DEF p
<1>5. Step("delegate", p.key[2], p.key[3], score, p.cost, failure) \in Steps
  BY <1>1, <1>3, <1>4, StepType
<1> QED  BY <1>5 DEF DelegateStep, p

\* What the loop's tail makes of a delegate that asked the provider, whatever it brought.
LEMMA DelegateProgress ==
  ASSUME EpisodeTypeOK, NEW t \in Tasks, Calling(t) \/ InGrading(t), NEW score \in Nat,
         NEW failure \in {NONE, "refused", "worker"}, UNCHANGED charged,
         Took(t, episodes[t], DelegateStep(episodes[t].pending, score, failure),
              score, episodes[t].pending.cost)
  PROVE  \E e, r : Takes(t, e, r, 0, episodes[t].fumbles,
                         DelegateStep(episodes[t].pending, score, failure), score,
                         episodes[t].pending.cost)
<1> DEFINE now == episodes[t]
           cost == now.pending.cost
           step == DelegateStep(now.pending, score, failure)
           nil == 0
<1>1. /\ now \in Episodes /\ now # NONE /\ cost \in Nat /\ now.spent \in Nat
      /\ Debited(now) = now.spent + cost
  BY Awaiting
<1>2. step \in Steps  BY DelegateStepType
<1>3. charged' = [charged EXCEPT ![arm] = @ + nil]  BY NoDebit
<1>4. now.spent + cost = Debited(now) + nil /\ nil \in Nat  BY <1>1
<1>5. Took(t, now, step, score, cost)  OBVIOUS
<1> HIDE DEF step, nil, cost
<1>6. \E e, r : Takes(t, e, r, nil, now.fumbles, step, score, cost)
  BY <1>1, <1>2, <1>3, <1>4, <1>5, TookProgress
<1> QED  BY <1>6 DEF step, nil, cost

\* The call raised: the delegate's turns so far are the step's price.
LEMMA FailsProgress ==
  ASSUME EpisodeTypeOK, NEW t \in Tasks, NEW failure \in {"refused", "worker"}, CallFails(t, failure)
  PROVE  \E e, r : Takes(t, e, r, 0, episodes[t].fumbles,
                         DelegateStep(episodes[t].pending, 0, failure), 0, episodes[t].pending.cost)
<1>1. Calling(t) /\ UNCHANGED charged  BY DEF CallFails
<1>2. Took(t, episodes[t], DelegateStep(episodes[t].pending, 0, failure), 0, episodes[t].pending.cost)
  BY DEF CallFails, DelegateStep, CostSoFar
<1> QED  BY <1>1, <1>2, DelegateProgress

\* What a verdict is worth to the arm.
Worth(verdict) == IF verdict.score = Died THEN 0 ELSE verdict.score

\* The answer was graded.
LEMMA GradeProgress ==
  ASSUME EpisodeTypeOK, NEW t \in Tasks, NEW verdict \in Verdicts, Grade(t, verdict)
  PROVE  /\ Worth(verdict) \in Nat
         /\ \E e, r : Takes(t, e, r, 0, episodes[t].fumbles,
                            DelegateStep(episodes[t].pending, Worth(verdict), NONE), Worth(verdict),
                            episodes[t].pending.cost)
<1> DEFINE score == Worth(verdict)
<1>1. InGrading(t) /\ UNCHANGED charged  BY DEF Grade
<1>2. score \in Nat  BY VerdictIsAnswersOrDied DEF Worth
<1>3. Took(t, episodes[t], DelegateStep(episodes[t].pending, score, NONE), score, episodes[t].pending.cost)
  BY DEF Grade, DelegateStep, CostSoFar, Worth
<1> HIDE DEF score
<1>4. \E e, r : Takes(t, e, r, 0, episodes[t].fumbles,
                      DelegateStep(episodes[t].pending, score, NONE), score, episodes[t].pending.cost)
  BY <1>1, <1>2, <1>3, DelegateProgress
<1> QED  BY <1>2, <1>4 DEF score

\* Every operation of a task is a step of its episode, or its end.
LEMMA TaskProgress ==
  ASSUME EpisodeTypeOK, NEW t \in Tasks, TaskNext(t)
  PROVE  \E e, r, d : Progress(t, e, r, d)
<1>1. CASE OutOfTime(t) \/ OutOfMoney(t)  BY <1>1, CutProgress
<1>2. CASE Fumble(t)  BY <1>2, FumbleProgress DEF Takes
<1>3. CASE Submit(t)  BY <1>3, SubmitProgress
<1>4. CASE \E m \in Models : Miss(t, m)  BY <1>4, MissProgress DEF Moves
<1>5. CASE \E m \in Models : Hit(t, m)  BY <1>5, HitProgress DEF Takes
<1>6. CASE ReplyReads(t) \/ ReplySubmits(t)  BY <1>6, ReadsProgress DEF Moves
<1>7. CASE \E failure \in {"refused", "worker"} : CallFails(t, failure)
  BY <1>7, FailsProgress DEF Takes
<1>8. CASE \E verdict \in Verdicts : Grade(t, verdict)  BY <1>8, GradeProgress DEF Takes
<1> QED  BY <1>1, <1>2, <1>3, <1>4, <1>5, <1>6, <1>7, <1>8 DEF TaskNext

\* The row a delegate leaves in the table.
LEMMA RowType ==
  ASSUME EpisodeTypeOK, NEW t \in Tasks, Calling(t) \/ InGrading(t), NEW score \in Nat,
         NEW failure \in {NONE, "worker"}
  PROVE  LET row == Row(episodes[t].pending, score, failure) IN
         /\ row \in TableRows /\ row.key = episodes[t].pending.key /\ row.grade = score
         /\ row.cost = episodes[t].pending.cost /\ row.failure = failure
<1>1. episodes[t].pending.key \in Keys /\ episodes[t].pending.cost \in Nat  BY Awaiting
<1> QED  BY <1>1 DEF Row, CostSoFar, TableRows

\* What the operations of a task write to the table: nothing, or one row of its delegate's key.
LEMMA TaskWrites ==
  ASSUME EpisodeTypeOK, NEW t \in Tasks, TaskNext(t)
  PROVE  \/ UNCHANGED disk
         \/ \E row \in TableRows : /\ Calling(t) \/ InGrading(t)
                                   /\ row.key = episodes[t].pending.key /\ Put(row)
<1>1. CASE \E failure \in {"refused", "worker"} : CallFails(t, failure)
  <2>1. PICK failure \in {"refused", "worker"} : CallFails(t, failure)  BY <1>1
  <2>2. CASE failure = "refused"
    BY <2>1, <2>2 DEF CallFails, Outcome
  <2>3. CASE failure = "worker"
    <3>1. Calling(t) /\ Put(Row(episodes[t].pending, 0, failure))
      BY <2>1, <2>3 DEF CallFails, Outcome
    <3> QED  BY <2>3, <3>1, RowType
  <2> QED  BY <2>2, <2>3
<1>2. CASE \E verdict \in Verdicts : Grade(t, verdict)
  <2>1. PICK verdict \in Verdicts : Grade(t, verdict)  BY <1>2
  <2>2. InGrading(t) /\ Put(Row(episodes[t].pending, Worth(verdict), NONE))
    BY <2>1 DEF Grade, Worth
  <2>3. Worth(verdict) \in Nat  BY <2>1, GradeProgress
  <2> QED  BY <2>2, <2>3, RowType
<1>3. CASE OutOfTime(t) \/ OutOfMoney(t) \/ Fumble(t) \/ Submit(t) \/ ReplyReads(t) \/ ReplySubmits(t)
  BY <1>3 DEF OutOfTime, OutOfMoney, Fumble, Submit, ReplyReads, ReplySubmits, disk, history
<1>4. CASE \E m \in Models : Miss(t, m) \/ Hit(t, m)
  BY <1>4 DEF Miss, Hit, disk, history
<1> QED  BY <1>1, <1>2, <1>3, <1>4 DEF TaskNext

\* What they leave alone, and that what a failure of the harness decided is excluded at once.
LEMMA TaskLeaves ==
  ASSUME NEW t \in Tasks, TaskNext(t), mistaken \subseteq excluded
  PROVE  /\ UNCHANGED <<arm, deaths, lost, torn>>
         /\ mistaken' \subseteq excluded'
<1>1. CASE \E failure \in {"refused", "worker"} : CallFails(t, failure)
  BY <1>1 DEF CallFails, Put, disk
<1>2. CASE \E verdict \in Verdicts : Grade(t, verdict)
  <2>1. PICK verdict \in Verdicts : Grade(t, verdict)  BY <1>2
  <2>2. UNCHANGED <<arm, deaths, lost, torn>>
    BY <2>1 DEF Grade, Put, disk
  <2>3. CASE verdict.mistaken
    <3>1. verdict.score = Died  BY <2>3, VerdictIsAnswersOrDied
    <3>2. excluded' = excluded \cup {t} /\ mistaken' = mistaken \cup {t}
      BY <2>1, <2>3, <3>1 DEF Grade, Guard
    <3> QED  BY <2>2, <3>2
  <2>4. CASE ~verdict.mistaken
    <3>1. mistaken' = mistaken  BY <2>1, <2>4 DEF Grade
    <3>2. excluded \subseteq excluded'  BY <2>1 DEF Grade, Guard
    <3> QED  BY <2>2, <3>1, <3>2
  <2> QED  BY <2>3, <2>4
<1>3. CASE OutOfTime(t) \/ OutOfMoney(t) \/ Fumble(t) \/ Submit(t) \/ ReplyReads(t)
  BY <1>3 DEF OutOfTime, OutOfMoney, Fumble, Submit, ReplyReads, disk, history
<1>4. CASE ReplySubmits(t)
  BY <1>4 DEF ReplySubmits, Guard
<1>5. CASE \E m \in Models : Miss(t, m) \/ Hit(t, m)
  BY <1>5 DEF Miss, Hit, disk, history
<1> QED  BY <1>1, <1>2, <1>3, <1>4, <1>5 DEF TaskNext

\* A row more in the table, and in the file if no torn line is in it.
LEMMA PutRow ==
  ASSUME EpisodeTypeOK, NEW row \in TableRows, Put(row)
  PROVE  /\ \A k \in DOMAIN table' : k \in Keys /\ table'[k] \in TableRows
         /\ \A k \in DOMAIN file' : k \in Keys /\ file'[k] \in TableRows
         /\ stored' \in [Keys -> Nat]
         /\ DOMAIN table' = DOMAIN table \cup {row.key}
         /\ \A k \in DOMAIN table : table'[k] = table[k]
         /\ row.key \notin DOMAIN table => table'[row.key] = row
<1>1. row.key \in Keys  BY DEF TableRows
<1>2. CASE row.key \in DOMAIN table
  <2>1. table' = table /\ file' = file /\ stored' = stored  BY <1>2 DEF Put, disk
  <2> QED  BY <1>2, <2>1 DEF EpisodeTypeOK
<1>3. CASE row.key \notin DOMAIN table
  <2>1. /\ table' = With(table, row.key, row)
        /\ file' = (IF torn THEN file ELSE With(file, row.key, row))
        /\ stored' = [stored EXCEPT ![row.key] = @ + 1]
    BY <1>3 DEF Put
  <2>2. /\ DOMAIN table' = DOMAIN table \cup {row.key} /\ table'[row.key] = row
        /\ \A k \in DOMAIN table : table'[k] = table[k]
    BY <1>3, <2>1 DEF With
  <2>3. \A k \in DOMAIN file' :
          \/ k = row.key /\ file'[k] = row
          \/ k \in DOMAIN file /\ file'[k] = file[k]
    <3>1. CASE torn  BY <2>1, <3>1
    <3>2. CASE ~torn  BY <2>1, <3>2 DEF With
    <3> QED  BY <3>1, <3>2
  <2>4. stored' \in [Keys -> Nat]  BY <1>1, <2>1 DEF EpisodeTypeOK
  <2>5. \A k \in DOMAIN table' : k \in Keys /\ table'[k] \in TableRows
    BY <1>1, <2>2 DEF EpisodeTypeOK
  <2>6. \A k \in DOMAIN file' : k \in Keys /\ file'[k] \in TableRows
    BY <1>1, <2>3 DEF EpisodeTypeOK
  <2> QED  BY <2>2, <2>4, <2>5, <2>6
<1> QED  BY <1>2, <1>3

\* A task's operation keeps the types.
LEMMA TaskType ==
  ASSUME EpisodeTypeOK, NEW t \in Tasks, TaskNext(t)
  PROVE  EpisodeTypeOK'
<1>1. PICK e, r, d : Progress(t, e, r, d)  BY TaskProgress
<1>2. UNCHANGED <<arm, deaths, lost, torn>> /\ mistaken' \subseteq excluded'
  BY TaskLeaves DEF EpisodeTypeOK
<1>3. /\ \A k \in DOMAIN table' : k \in Keys /\ table'[k] \in TableRows
      /\ \A k \in DOMAIN file' : k \in Keys /\ file'[k] \in TableRows
      /\ stored' \in [Keys -> Nat]
  <2>1. CASE UNCHANGED disk  BY <2>1 DEF disk, EpisodeTypeOK
  <2>2. CASE \E row \in TableRows : Put(row)  BY <2>2, PutRow
  <2> QED  BY <2>1, <2>2, TaskWrites
<1>4. /\ arm \in Arms /\ d \in Nat /\ e \in Episodes \cup {NONE}
      /\ episodes' = [episodes EXCEPT ![t] = e] /\ charged' = [charged EXCEPT ![arm] = @ + d]
  BY <1>1 DEF Progress
<1>5. episodes' \in [Tasks -> Episodes \cup {NONE}] /\ charged' \in [Arms -> Nat]
  BY <1>4 DEF EpisodeTypeOK
<1>6. results' \in [Arms -> [Tasks -> Results \cup {NONE}]]
  <2>1. CASE UNCHANGED results  BY <2>1 DEF EpisodeTypeOK
  <2>2. CASE r \in Results /\ results' = [results EXCEPT ![arm][t] = r]
    BY <1>4, <2>2 DEF EpisodeTypeOK
  <2> QED  BY <1>1, <2>1, <2>2 DEF Progress
<1>7. ASSUME NEW u \in Tasks, episodes'[u] # NONE
      PROVE  results'[arm][u] = NONE /\ Len(episodes'[u].steps) < MaxSteps
  <2>1. CASE u = t
    <3>1. episodes'[t] = e  BY <1>4 DEF EpisodeTypeOK
    <3>2. Len(e.steps) < MaxSteps /\ UNCHANGED results  BY <1>1, <1>7, <2>1, <3>1 DEF Progress
    <3>3. results[arm][t] = NONE  BY <1>1, InFlight DEF Progress
    <3> QED  BY <2>1, <3>1, <3>2, <3>3
  <2>2. CASE u # t
    <3>1. episodes'[u] = episodes[u]  BY <1>4, <2>2 DEF EpisodeTypeOK
    <3>2. results[arm][u] = NONE /\ Len(episodes[u].steps) < MaxSteps
      BY <1>7, <3>1, InFlight
    <3>3. results'[arm][u] = results[arm][u]
      <4>1. CASE UNCHANGED results  BY <4>1
      <4>2. CASE results' = [results EXCEPT ![arm][t] = r]
        BY <1>4, <2>2, <4>2 DEF EpisodeTypeOK
      <4> QED  BY <1>1, <4>1, <4>2 DEF Progress
    <3> QED  BY <3>1, <3>2, <3>3
  <2> QED  BY <2>1, <2>2
<1>8. arm' \in 1..NArms + 1 /\ lost' \in [Arms -> Nat] /\ deaths' \in Nat /\ torn' \in BOOLEAN
      /\ (torn' => deaths' >= 1)
  BY <1>2 DEF EpisodeTypeOK
<1> QED  BY <1>2, <1>3, <1>4, <1>5, <1>6, <1>7, <1>8 DEF EpisodeTypeOK

\* An episode as it is dispatched, and a task skipped.
LEMMA FreshType ==
  /\ \A allowance \in Int :
       /\ Fresh(allowance) \in Episodes /\ Fresh(allowance) # NONE /\ Fresh(allowance).steps = <<>>
       /\ Fresh(allowance).spent = 0 /\ Fresh(allowance).best = 0
       /\ Fresh(allowance).fumbles = 0 /\ Fresh(allowance).pending = NONE
       /\ Debited(Fresh(allowance)) = 0
  /\ \A reason \in Reasons : /\ Result(<<>>, 0, 0, reason) \in Results
                             /\ Result(<<>>, 0, 0, reason).spent = 0
                             /\ Result(<<>>, 0, 0, reason).reason = reason
<1>1. NONE \notin Episodes  BY EpisodeAssumption
<1>2. \A reason \in Reasons : /\ Result(<<>>, 0, 0, reason) \in Results
                               /\ Result(<<>>, 0, 0, reason).spent = 0
                               /\ Result(<<>>, 0, 0, reason).reason = reason
  BY DEF Result, Results
<1>3. ASSUME NEW allowance \in Int, NEW f, f = Fresh(allowance)
      PROVE  /\ f \in Episodes /\ f # NONE /\ f.steps = <<>> /\ f.spent = 0 /\ f.best = 0
             /\ f.fumbles = 0 /\ f.pending = NONE /\ Debited(f) = 0
  <2>1. /\ f \in Episodes /\ f.steps = <<>> /\ f.spent = 0 /\ f.best = 0
        /\ f.fumbles = 0 /\ f.pending = NONE
    BY <1>3 DEF Fresh, Episodes
  <2> QED  BY ONLY <2>1, <1>1 DEF Debited
<1> QED  BY <1>2, <1>3

\* What the episodes in flight have been debited is a number.
LEMMA DebitedNowType == EpisodeTypeOK => DebitedNow \in Nat
<1> SUFFICES ASSUME EpisodeTypeOK PROVE DebitedNow \in Nat
  OBVIOUS
<1> DEFINE f == [t \in Running |-> Debited(episodes[t])]
<1>1. IsFiniteSet(Running)  BY EpisodeAssumption, FS_Subset DEF Running
<1>2. \A t \in Running : f[t] \in Nat  BY InFlight DEF Running
<1> QED  BY <1>1, <1>2, SumNat DEF DebitedNow

\* A death keeps the types.
LEMMA DieType ==
  ASSUME EpisodeTypeOK, Running # {}, Die, UNCHANGED file, torn' \in {torn, TRUE}
  PROVE  EpisodeTypeOK'
<1>1. arm \in Arms  BY InFlight DEF Running
<1>2. /\ deaths' = deaths + 1 /\ table' = file /\ episodes' = [t \in Tasks |-> NONE]
      /\ lost' = [lost EXCEPT ![arm] = @ + DebitedNow]
      /\ UNCHANGED <<arm, results, excluded, charged, stored, mistaken>>
  BY DEF Die, Reopened
<1>3. lost' \in [Arms -> Nat]  BY <1>1, <1>2, DebitedNowType DEF EpisodeTypeOK
<1>4. deaths' \in Nat /\ deaths' >= 1 /\ torn' \in BOOLEAN
  <2>1. deaths \in Nat /\ torn \in BOOLEAN  BY DEF EpisodeTypeOK
  <2>2. torn' \in BOOLEAN  BY <2>1
  <2>3. deaths + 1 \in Nat /\ deaths + 1 >= 1  BY <2>1
  <2> QED  BY <1>2, <2>2, <2>3
<1> QED  BY <1>2, <1>3, <1>4 DEF EpisodeTypeOK

\* The results of an arm cost a number.
LEMMA SpendType ==
  ASSUME EpisodeTypeOK, NEW a \in Arms
  PROVE  Spend(a) \in Nat
<1> DEFINE done == {t \in Tasks : results[a][t] # NONE}
           f == [t \in done |-> results[a][t].spent]
<1>1. IsFiniteSet(done)  BY EpisodeAssumption, FS_Subset
<1>2. \A t \in done : f[t] \in Nat  BY DEF EpisodeTypeOK, Results
<1> QED  BY <1>1, <1>2, SumNat DEF Spend

\* A dispatch keeps the types.
LEMMA DispatchType ==
  ASSUME EpisodeTypeOK, Dispatch
  PROVE  EpisodeTypeOK'
<1> DEFINE remaining == Budget - Spend(arm)
           skipped == Left \cap excluded
<1>1. /\ arm \in Arms /\ UNCHANGED <<arm, table, file, torn, excluded, charged, deaths, lost, stored, mistaken>>
  BY DEF Dispatch, history
<1>2. /\ results' = [results EXCEPT ![arm] =
                       [t \in Tasks |-> IF t \in skipped THEN Result(<<>>, 0, 0, "excluded")
                                        ELSE IF t \in Left /\ remaining <= 0
                                             THEN Result(<<>>, 0, 0, "budget_exhausted")
                                        ELSE results[arm][t]]]
      /\ episodes' = [t \in Tasks |-> IF t \in Left \ skipped /\ remaining > 0
                                      THEN Fresh(remaining) ELSE NONE]
  BY DEF Dispatch
<1>3. remaining \in Int
  <2>1. Spend(arm) \in Nat  BY <1>1, SpendType
  <2> QED  BY <2>1, EpisodeAssumption
<1> HIDE DEF remaining, skipped
<1>4. {"excluded", "budget_exhausted"} \subseteq Reasons  BY DEF Reasons
<1>5. results' \in [Arms -> [Tasks -> Results \cup {NONE}]]
  BY <1>1, <1>2, <1>4, FreshType DEF EpisodeTypeOK
<1>6. ASSUME NEW u \in Tasks
      PROVE  /\ episodes'[u] \in Episodes \cup {NONE}
             /\ episodes'[u] # NONE => results'[arm][u] = NONE /\ Len(episodes'[u].steps) < MaxSteps
  <2>1. MaxSteps \in Nat \ {0}  BY EpisodeAssumption
  <2>2. Len(<<>>) = 0 /\ 0 < MaxSteps  BY <2>1
  <2>3. CASE u \in Left \ skipped /\ remaining > 0
    <3>1. episodes'[u] = Fresh(remaining)  BY <1>2, <2>3
    <3>2. ~(remaining <= 0)  BY <1>3, <2>3
    <3>3. results'[arm][u] = results[arm][u]  BY <1>1, <1>2, <2>3, <3>2 DEF EpisodeTypeOK
    <3>4. results[arm][u] = NONE  BY <2>3 DEF Left
    <3> QED  BY <1>3, <2>2, <3>1, <3>3, <3>4, FreshType
  <2>4. CASE ~(u \in Left \ skipped /\ remaining > 0)
    <3>1. episodes'[u] = NONE  BY <1>2, <2>4
    <3> QED  BY <3>1
  <2> QED  BY <2>3, <2>4
<1>7. episodes' \in [Tasks -> Episodes \cup {NONE}]  BY <1>2, <1>6
<1> QED  BY <1>1, <1>5, <1>6, <1>7 DEF EpisodeTypeOK

\* With every task of the arm decided nothing is in flight.
LEMMA NothingLeft == EpisodeTypeOK /\ arm \in Arms /\ Left = {} => Running = {}
BY InFlight DEF Left, Running

\* The operations keep the types.
LEMMA EpisodeType == EpisodeTypeOK /\ [EpisodeNext]_episodeVars => EpisodeTypeOK'
<1> SUFFICES ASSUME EpisodeTypeOK, [EpisodeNext]_episodeVars PROVE EpisodeTypeOK'
  OBVIOUS
<1>1. CASE Dispatch  BY <1>1, DispatchType
<1>2. CASE NextArm
  <2>1. /\ arm \in Arms /\ Left = {} /\ arm' = arm + 1
        /\ UNCHANGED <<episodes, results, table, file, torn, excluded, charged, deaths, stored, lost, mistaken>>
    BY <1>2 DEF NextArm, history
  <2>2. Running = {}  BY <2>1, NothingLeft
  <2>3. NArms \in Nat  BY EpisodeAssumption
  <2>4. arm + 1 \in 1..NArms + 1  BY <2>1, <2>3 DEF Arms
  <2>5. \A t \in Tasks : episodes'[t] = NONE  BY <2>1, <2>2 DEF Running
  <2> QED  BY <2>1, <2>4, <2>5 DEF EpisodeTypeOK
<1>3. CASE Crash  BY <1>3, DieType DEF Crash
<1>4. CASE \E t \in Tasks : TaskNext(t)  BY <1>4, TaskType
<1>5. CASE \E t \in Tasks : CrashInPut(t)
  <2>1. Running # {}  BY <1>5 DEF CrashInPut, Calling, InGrading, Running
  <2> QED  BY <1>5, <2>1, DieType DEF CrashInPut
<1>6. CASE UNCHANGED episodeVars  BY <1>6 DEF episodeVars, EpisodeTypeOK
<1> QED  BY <1>1, <1>2, <1>3, <1>4, <1>5, <1>6 DEF EpisodeNext

\* They hold at the start.
LEMMA EpisodeStart == EpisodeInit => EpisodeTypeOK
<1>1. NArms \in Nat  BY EpisodeAssumption
<1> SUFFICES ASSUME EpisodeInit PROVE EpisodeTypeOK
  OBVIOUS
<1>2. table = <<>> /\ file = <<>> /\ DOMAIN <<>> = {}  BY DEF EpisodeInit, NoRows
<1>3. \A k \in DOMAIN table : FALSE  BY <1>2
<1>4. \A k \in DOMAIN file : FALSE  BY <1>2
<1>5. arm \in 1..NArms + 1  BY <1>1 DEF EpisodeInit
<1> QED  BY <1>3, <1>4, <1>5 DEF EpisodeInit, EpisodeTypeOK

(***************************************************************************)
(* Every dollar a payer was debited.                                       *)
(***************************************************************************)

\* The result of one task more.
LEMMA SpendMore ==
  ASSUME EpisodeTypeOK, NEW t \in Tasks, arm \in Arms, results[arm][t] = NONE, NEW r \in Results,
         results' = [results EXCEPT ![arm][t] = r]
  PROVE  /\ (Spend(arm))' = r.spent + Spend(arm) \/ arm' # arm
         /\ \A x \in Arms \ {arm} : Spend(x)' = Spend(x)
<1> DEFINE done(a) == {u \in Tasks : results[a][u] # NONE}
           f(a) == [u \in done(a) |-> results[a][u].spent]
<1>1. r # NONE /\ r.spent \in Int  BY EpisodeAssumption DEF Results
<1>2. /\ results'[arm][t] = r
      /\ \A u \in Tasks \ {t} : results'[arm][u] = results[arm][u]
      /\ \A x \in Arms \ {arm} : results'[x] = results[x]
  BY DEF EpisodeTypeOK
<1>3. \A x \in Arms \ {arm} : Spend(x)' = Spend(x)  BY <1>2 DEF Spend
<1> DEFINE new == {u \in Tasks : results'[arm][u] # NONE}
           g == [u \in new |-> results'[arm][u].spent]
<1>4. new = done(arm) \cup {t} /\ t \notin done(arm)  BY <1>1, <1>2
<1>5. IsFiniteSet(done(arm))  BY EpisodeAssumption, FS_Subset
<1>6. \A u \in done(arm) : g[u] \in Int /\ g[u] = f(arm)[u]
  BY <1>2, <1>4 DEF EpisodeTypeOK, Results
<1>7. g[t] = r.spent  BY <1>2, <1>4
<1>8. SumFunctionOnSet(g, new) = r.spent + SumFunctionOnSet(f(arm), done(arm))
  <2> DEFINE old == done(arm)
             h == f(arm)
  <2>1. IsFiniteSet(old) /\ t \notin old /\ new = old \cup {t} /\ g[t] \in Int /\ g[t] = r.spent
        /\ \A u \in old : g[u] \in Int /\ g[u] = h[u]
    BY <1>1, <1>4, <1>5, <1>6, <1>7
  <2> HIDE DEF old, h, g, new
  <2>2. SumFunctionOnSet(g, old \cup {t}) = g[t] + SumFunctionOnSet(h, old)
    BY ONLY <2>1, SumAdd
  <2>3. SumFunctionOnSet(g, new) = r.spent + SumFunctionOnSet(h, old)  BY <2>1, <2>2
  <2> QED  BY <2>3 DEF old, h
<1>9. arm' = arm => Spend(arm)' = SumFunctionOnSet(g, new)  BY DEF Spend
<1> QED  BY <1>3, <1>8, <1>9 DEF Spend

\* What is in flight, when one episode goes on or ends.
LEMMA DebitedMore ==
  ASSUME EpisodeTypeOK, NEW t \in Tasks, episodes[t] # NONE, NEW e \in Episodes \cup {NONE},
         episodes' = [episodes EXCEPT ![t] = e]
  PROVE  /\ e # NONE /\ Debited(e) \in Nat => DebitedNow' = DebitedNow + Debited(e) - Debited(episodes[t])
         /\ e = NONE => DebitedNow' = DebitedNow - Debited(episodes[t])
<1> DEFINE new == {u \in Tasks : episodes'[u] # NONE}
           f == [u \in Running |-> Debited(episodes[u])]
           g == [u \in new |-> Debited(episodes'[u])]
<1>1. DebitedNow = SumFunctionOnSet(f, Running) /\ DebitedNow' = SumFunctionOnSet(g, new)
  BY DEF DebitedNow, Debited, Running
<1>2. IsFiniteSet(Running) /\ t \in Running  BY EpisodeAssumption, FS_Subset DEF Running
<1>3. /\ episodes'[t] = e /\ \A u \in Tasks \ {t} : episodes'[u] = episodes[u]
      /\ \A u \in Running : f[u] \in Int
  BY InFlight DEF EpisodeTypeOK, Running
<1>4. CASE e # NONE /\ Debited(e) \in Nat
  <2>1. new = Running  BY <1>2, <1>3, <1>4 DEF Running
  <2>2. g[t] = Debited(e) /\ f[t] = Debited(episodes[t]) /\ \A u \in Running \ {t} : g[u] = f[u]
    BY <1>2, <1>3, <2>1 DEF Running
  <2>3. \A u \in Running : g[u] \in Int  BY <1>3, <1>4, <2>2
  <2> HIDE DEF f, g, new
  <2>4. SumFunctionOnSet(g, Running) = SumFunctionOnSet(f, Running) + g[t] - f[t]
    BY <1>2, <1>3, <2>2, <2>3, SumChange
  <2> QED  BY <1>1, <1>4, <2>1, <2>2, <2>4
<1>5. CASE e = NONE
  <2>1. new = Running \ {t}  BY <1>3, <1>5 DEF Running
  <2>2. f[t] = Debited(episodes[t]) /\ \A u \in Running \ {t} : g[u] = f[u] /\ f[u] \in Int
    BY <1>2, <1>3, <2>1 DEF Running
  <2>3. IsFiniteSet(Running \ {t})  BY <1>2, FS_Subset
  <2> HIDE DEF f, g, new
  <2>4. SumFunctionOnSet(f, Running) = f[t] + SumFunctionOnSet(f, Running \ {t})
    BY <1>2, <1>3, SumTake
  <2>5. SumFunctionOnSet(f, Running \ {t}) = SumFunctionOnSet(g, Running \ {t})
    BY <2>2, <2>3, SumSame
  <2>6. SumFunctionOnSet(f, Running \ {t}) \in Int /\ f[t] \in Int  BY <1>2, <1>3, <2>2, <2>3, SumType
  <2> QED  BY <1>1, <1>5, <2>1, <2>2, <2>4, <2>5, <2>6
<1> QED  BY <1>4, <1>5

\* A task's operation loses no dollar.
LEMMA TaskDollars ==
  ASSUME EpisodeTypeOK, EveryDollarIsRecorded, NEW t \in Tasks, TaskNext(t)
  PROVE  EveryDollarIsRecorded'
<1>1. PICK e, r, d : Progress(t, e, r, d)  BY TaskProgress
<1>2. UNCHANGED <<arm, lost>>  BY TaskLeaves DEF EpisodeTypeOK
<1>3. /\ arm \in Arms /\ episodes[t] # NONE /\ d \in Nat /\ results[arm][t] = NONE
      /\ episodes' = [episodes EXCEPT ![t] = e] /\ charged' = [charged EXCEPT ![arm] = @ + d]
      /\ Debited(episodes[t]) \in Nat /\ e \in Episodes \cup {NONE}
  BY <1>1, InFlight DEF Progress
<1>4. /\ charged'[arm] = charged[arm] + d
      /\ \A x \in Arms \ {arm} : charged'[x] = charged[x]
      /\ \A x \in Arms : charged[x] \in Nat /\ lost[x] \in Nat
  BY <1>3 DEF EpisodeTypeOK
<1>5. DebitedNow \in Nat /\ \A x \in Arms : Spend(x) \in Nat  BY DebitedNowType, SpendType
<1>6. /\ \A x \in Arms \ {arm} : Spend(x)' = Spend(x)
      /\ Spend(arm)' + DebitedNow' = Spend(arm) + DebitedNow + d
      /\ Spend(arm)' \in Int /\ DebitedNow' \in Int
  <2>1. CASE /\ e \in Episodes /\ UNCHANGED results
             /\ Debited(e) = Debited(episodes[t]) + d
    <3>1. e # NONE /\ Debited(e) \in Nat  BY <1>3, <2>1, EpisodeAssumption
    <3>2. DebitedNow' = DebitedNow + Debited(e) - Debited(episodes[t])  BY <1>3, <3>1, DebitedMore
    <3>3. \A x \in Arms : Spend(x)' = Spend(x)  BY <2>1 DEF Spend
    <3>4. Spend(arm)' = Spend(arm)  BY <1>2, <1>3, <3>3
    <3>5. Debited(e) \in Nat  BY <3>1
    <3> QED  BY <1>3, <1>5, <2>1, <3>2, <3>3, <3>4, <3>5
  <2>2. CASE /\ e = NONE /\ r \in Results
             /\ results' = [results EXCEPT ![arm][t] = r]
             /\ r.spent = Debited(episodes[t]) + d
    <3>1. DebitedNow' = DebitedNow - Debited(episodes[t])  BY <1>3, <2>2, DebitedMore
    <3>2. Spend(arm)' = r.spent + Spend(arm) /\ \A x \in Arms \ {arm} : Spend(x)' = Spend(x)
      BY <1>2, <1>3, <2>2, SpendMore
    <3>3. r.spent \in Nat  BY <2>2 DEF Results
    <3> QED  BY <1>3, <1>5, <2>2, <3>1, <3>2, <3>3
  <2> QED  BY <1>1, <2>1, <2>2 DEF Progress
<1>7. ASSUME NEW x \in Arms
      PROVE  charged'[x] = Spend(x)' + lost'[x] + (IF x = arm' THEN DebitedNow' ELSE 0)
  <2>1. charged[x] = Spend(x) + lost[x] + (IF x = arm THEN DebitedNow ELSE 0)
    BY DEF EveryDollarIsRecorded
  <2>2. lost'[x] = lost[x] /\ arm' = arm  BY <1>2
  <2>3. CASE x = arm
    <3> DEFINE s == Spend(arm)
               s2 == Spend(arm)'
    <3>1. charged[arm] = s + lost[arm] + DebitedNow /\ s2 + DebitedNow' = s + DebitedNow + d
      BY <1>6, <2>1, <2>3
    <3>2. /\ s \in Nat /\ DebitedNow \in Nat /\ lost[arm] \in Nat /\ d \in Nat
          /\ charged'[arm] = charged[arm] + d /\ s2 \in Int /\ DebitedNow' \in Int
      BY <1>3, <1>4, <1>5, <1>6
    <3>3. Spend(x)' = s2  BY <1>2, <2>3
    <3> HIDE DEF s, s2
    <3>4. charged'[arm] = s2 + lost[arm] + DebitedNow'  BY <3>1, <3>2
    <3> QED  BY <2>2, <2>3, <3>3, <3>4
  <2>4. CASE x # arm  BY <1>4, <1>5, <1>6, <2>1, <2>2, <2>4
  <2> QED  BY <2>3, <2>4
<1> QED  BY <1>7 DEF EveryDollarIsRecorded

\* With no episode in flight nothing is debited to one.
LEMMA NothingDebited == Running = {} => DebitedNow = 0
BY SumZero, FS_EmptySet DEF DebitedNow

\* A dispatch, which debits nothing, costs nothing.
LEMMA DispatchDollars ==
  ASSUME EpisodeTypeOK, EveryDollarIsRecorded, Dispatch
  PROVE  EveryDollarIsRecorded'
<1> DEFINE remaining == Budget - Spend(arm)
           skipped == Left \cap excluded
           done == {u \in Tasks : results[arm][u] # NONE}
           new == {u \in Tasks : results'[arm][u] # NONE}
           f == [u \in done |-> results[arm][u].spent]
           g == [u \in new |-> results'[arm][u].spent]
           flying == {u \in Tasks : episodes'[u] # NONE}
           h == [u \in flying |-> Debited(episodes'[u])]
<1>1. /\ arm \in Arms /\ Running = {} /\ UNCHANGED <<arm, charged, lost>>
  BY DEF Dispatch, history
<1>2. /\ results' = [results EXCEPT ![arm] =
                       [t \in Tasks |-> IF t \in skipped THEN Result(<<>>, 0, 0, "excluded")
                                        ELSE IF t \in Left /\ remaining <= 0
                                             THEN Result(<<>>, 0, 0, "budget_exhausted")
                                        ELSE results[arm][t]]]
      /\ episodes' = [t \in Tasks |-> IF t \in Left \ skipped /\ remaining > 0
                                      THEN Fresh(remaining) ELSE NONE]
  BY DEF Dispatch
<1>3. remaining \in Int
  <2>1. Spend(arm) \in Nat  BY <1>1, SpendType
  <2> QED  BY <2>1, EpisodeAssumption
<1>4. /\ \A x \in Arms \ {arm} : results'[x] = results[x]
      /\ \A u \in done : results'[arm][u] = results[arm][u]
      /\ \A u \in new \ done : results'[arm][u].spent = 0
  <2>1. {"excluded", "budget_exhausted"} \subseteq Reasons  BY DEF Reasons
  <2>2. \A u \in Tasks : results'[arm][u] = IF u \in skipped THEN Result(<<>>, 0, 0, "excluded")
                                        ELSE IF u \in Left /\ remaining <= 0
                                             THEN Result(<<>>, 0, 0, "budget_exhausted")
                                        ELSE results[arm][u]
    BY <1>1, <1>2 DEF EpisodeTypeOK
  <2>3. \A x \in Arms \ {arm} : results'[x] = results[x]  BY <1>2 DEF EpisodeTypeOK
  <2> HIDE DEF remaining
  <2>4. \A u \in done : results'[arm][u] = results[arm][u]  BY <2>2 DEF Left
  <2>5. \A u \in new \ done : results'[arm][u].spent = 0  BY <2>1, <2>2, FreshType
  <2> QED  BY <2>3, <2>4, <2>5
<1>5. IsFiniteSet(new) /\ IsFiniteSet(new \ done) /\ IsFiniteSet(done) /\ done \subseteq new
  <2>1. IsFiniteSet(new) /\ IsFiniteSet(done)  BY EpisodeAssumption, FS_Subset
  <2>2. done \subseteq new  BY <1>4
  <2> QED  BY <2>1, <2>2, FS_Subset
<1>6. \A u \in done : g[u] \in Int /\ g[u] = f[u]
  BY <1>1, <1>4, <1>5 DEF EpisodeTypeOK, Results
<1>7. \A u \in new \ done : g[u] = 0  BY <1>4
<1>8. SumFunctionOnSet(g, new) = SumFunctionOnSet(f, done)
  <2> HIDE DEF f, g, new, done
  <2>1. \A u \in new : g[u] \in Int  BY <1>6, <1>7
  <2>2. SumFunctionOnSet(g, new) = SumFunctionOnSet(g, done) + SumFunctionOnSet(g, new \ done)
    BY <1>5, <2>1, SumSplit
  <2>3. SumFunctionOnSet(g, new \ done) = 0  BY <1>5, <1>7, SumZero
  <2>4. SumFunctionOnSet(g, done) = SumFunctionOnSet(f, done)  BY <1>5, <1>6, SumSame
  <2>5. SumFunctionOnSet(g, done) \in Int  BY <1>5, <1>6, SumType
  <2> QED  BY <2>2, <2>3, <2>4, <2>5
<1>9. SumFunctionOnSet(h, flying) = 0
  <2>1. IsFiniteSet(flying)  BY EpisodeAssumption, FS_Subset
  <2>2. ASSUME NEW u \in flying PROVE h[u] = 0
    <3>1. episodes'[u] = Fresh(remaining)  BY <1>2
    <3>2. Debited(Fresh(remaining)) = 0
      <4> HIDE DEF remaining
      <4> QED  BY <1>3, FreshType
    <3> QED  BY <3>1, <3>2
  <2> HIDE DEF h, flying
  <2> QED  BY <2>1, <2>2, SumZero
<1>10. /\ DebitedNow = 0 /\ DebitedNow' = 0 /\ Spend(arm)' = Spend(arm)
       /\ \A x \in Arms \ {arm} : Spend(x)' = Spend(x)
  <2>1. DebitedNow' = SumFunctionOnSet(h, flying)  BY DEF DebitedNow, Debited, Running
  <2>2. Spend(arm)' = SumFunctionOnSet(g, new)  BY <1>1 DEF Spend
  <2>3. Spend(arm) = SumFunctionOnSet(f, done)  BY DEF Spend
  <2>4. \A x \in Arms \ {arm} : Spend(x)' = Spend(x)  BY <1>4 DEF Spend
  <2> HIDE DEF f, g, h, new, done, flying
  <2> QED  BY <1>1, <1>8, <1>9, <2>1, <2>2, <2>3, <2>4, NothingDebited
<1>11. \A x \in Arms : Spend(x)' = Spend(x)  BY <1>10, <1>1
<1> QED  BY <1>1, <1>10, <1>11 DEF EveryDollarIsRecorded

\* No step loses a dollar.
LEMMA DollarStep ==
  EpisodeTypeOK /\ EveryDollarIsRecorded /\ [EpisodeNext]_episodeVars => EveryDollarIsRecorded'
<1> SUFFICES ASSUME EpisodeTypeOK, EveryDollarIsRecorded, [EpisodeNext]_episodeVars
             PROVE  EveryDollarIsRecorded'
  OBVIOUS
<1>1. CASE Dispatch  BY <1>1, DispatchDollars
<1>2. CASE NextArm
  <2>1. arm \in Arms /\ Left = {} /\ UNCHANGED <<episodes, results, charged, lost>>
    BY <1>2 DEF NextArm, history
  <2>2. Running = {} /\ DebitedNow = 0  BY <2>1, NothingLeft, NothingDebited
  <2>3. DebitedNow' = DebitedNow  BY <2>1 DEF DebitedNow, Debited, Running
  <2>4. \A x \in Arms : Spend(x)' = Spend(x)  BY <2>1 DEF Spend
  <2> QED  BY <2>1, <2>2, <2>3, <2>4 DEF EveryDollarIsRecorded
<1>3. CASE Die /\ Running # {}
  <2>1. /\ arm \in Arms /\ UNCHANGED <<arm, results, charged>> /\ episodes' = [t \in Tasks |-> NONE]
        /\ lost' = [lost EXCEPT ![arm] = @ + DebitedNow]
    BY <1>3, InFlight DEF Die, Running
  <2>2. Running' = {}  BY <2>1 DEF Running
  <2>3. DebitedNow' = 0
    <3> DEFINE f == [t \in Running' |-> Debited(episodes'[t])]
    <3>1. DebitedNow' = SumFunctionOnSet(f, Running')  BY DEF DebitedNow, Debited
    <3>2. IsFiniteSet(Running') /\ \A x \in Running' : f[x] = 0  BY <2>2, FS_EmptySet
    <3> HIDE DEF f
    <3> QED  BY <3>1, <3>2, SumZero
  <2>4. \A x \in Arms : Spend(x)' = Spend(x)  BY <2>1 DEF Spend
  <2>5. /\ lost'[arm] = lost[arm] + DebitedNow /\ \A x \in Arms \ {arm} : lost'[x] = lost[x]
        /\ \A x \in Arms : lost[x] \in Nat
    BY <2>1 DEF EpisodeTypeOK
  <2>6. DebitedNow \in Nat /\ \A x \in Arms : Spend(x) \in Nat  BY DebitedNowType, SpendType
  <2>7. ASSUME NEW x \in Arms
        PROVE  charged'[x] = Spend(x)' + lost'[x] + (IF x = arm' THEN DebitedNow' ELSE 0)
    <3>1. charged[x] = Spend(x) + lost[x] + (IF x = arm THEN DebitedNow ELSE 0)
      BY DEF EveryDollarIsRecorded
    <3>2. charged'[x] = charged[x] /\ arm' = arm /\ Spend(x)' = Spend(x)  BY <2>1, <2>4
    <3> DEFINE s == Spend(x)
    <3>3. s \in Nat /\ lost[x] \in Nat /\ DebitedNow \in Nat  BY <2>5, <2>6
    <3>4. CASE x = arm
      <4>1. lost'[x] = lost[x] + DebitedNow /\ charged[x] = s + lost[x] + DebitedNow
        BY <2>5, <3>1, <3>4
      <4> HIDE DEF s
      <4> QED  BY <2>3, <3>2, <3>3, <3>4, <4>1 DEF s
    <3>5. CASE x # arm
      <4>1. lost'[x] = lost[x] /\ charged[x] = s + lost[x] + 0  BY <2>5, <3>1, <3>5
      <4> HIDE DEF s
      <4> QED  BY <3>2, <3>3, <3>5, <4>1 DEF s
    <3> QED  BY <3>4, <3>5
  <2> QED  BY <2>7 DEF EveryDollarIsRecorded
<1>4. CASE \E t \in Tasks : TaskNext(t)  BY <1>4, TaskDollars
<1>5. CASE Crash \/ \E t \in Tasks : CrashInPut(t)
  BY <1>3, <1>5 DEF Crash, CrashInPut, Calling, InGrading, Running
<1>6. CASE UNCHANGED episodeVars
  <2>1. UNCHANGED <<arm, episodes, results, charged, lost>>  BY <1>6 DEF episodeVars
  <2> QED  BY <2>1 DEF EveryDollarIsRecorded, DebitedNow, Debited, Running, Spend
<1> QED  BY <1>1, <1>2, <1>4, <1>5, <1>6 DEF EpisodeNext

\* Nothing is debited yet.
LEMMA DollarStart == EpisodeInit => EveryDollarIsRecorded
<1> SUFFICES ASSUME EpisodeInit PROVE EveryDollarIsRecorded
  OBVIOUS
<1>1. \A x \in Arms, t \in Tasks : results[x][t] = NONE  BY DEF EpisodeInit
<1>2. Running = {}  BY DEF EpisodeInit, Running
<1>3. ASSUME NEW x \in Arms PROVE Spend(x) = 0
  <2> DEFINE done == {t \in Tasks : results[x][t] # NONE}
             f == [t \in done |-> results[x][t].spent]
  <2>1. done = {}  BY <1>1
  <2>2. SumFunctionOnSet(f, done) = 0  BY <2>1, SumZero, FS_EmptySet
  <2> QED  BY <2>2 DEF Spend
<1> QED  BY <1>2, <1>3, NothingDebited DEF EpisodeInit, EveryDollarIsRecorded

\* The types hold, whatever the grader, the provider and the process do.
THEOREM EpisodeInvariant == EpisodeSpec => []EpisodeTypeOK
BY EpisodeStart, EpisodeType, PTL DEF EpisodeSpec

\* A task whose log shows that a failure of the harness decided a grade or a read is out of every arm;
\* a starved workload and a cut R2E-Gym summary show nothing (Grading.Unseen).
THEOREM HarnessIsNeverScored == EpisodeSpec => []HarnessIsNotScored
<1>1. EpisodeTypeOK => HarnessIsNotScored  BY DEF EpisodeTypeOK, HarnessIsNotScored
<1> QED  BY <1>1, EpisodeInvariant, PTL

\* Every dollar a payer was debited is in a result, in flight, or lost with an episode that died.
THEOREM EveryDollarRecorded == EpisodeSpec => []EveryDollarIsRecorded
<1>1. EpisodeTypeOK /\ EveryDollarIsRecorded /\ [EpisodeNext]_episodeVars
        => (EpisodeTypeOK /\ EveryDollarIsRecorded)'
  BY EpisodeType, DollarStep
<1> QED  BY <1>1, EpisodeStart, DollarStart, PTL DEF EpisodeSpec

(***************************************************************************)
(* A draw is bought once, and identical policies tie: of a process that    *)
(* does not die a second time behind a torn line, as whose next table      *)
(* would be without the rows that line hides.                              *)
(***************************************************************************)

\* The steps, without a death behind a torn line.
IntactNext == EpisodeNext /\ (torn => UNCHANGED deaths)
IntactSpec == EpisodeInit /\ [][IntactNext]_episodeVars

\* The file is the table, and what was bought is in it.
StoreOK ==
  /\ ~torn => file = table
  /\ \A k \in Keys : stored[k] = IF k \in DOMAIN table THEN 1 ELSE 0

\* Nothing is forgotten.
Grew(old, new) == \A k \in DOMAIN old : k \in DOMAIN new /\ new[k] = old[k]

\* The table and the policy only grow, and a row is bought when it is missing.
LEMMA StoreStep ==
  ASSUME EpisodeTypeOK, StoreOK, [IntactNext]_episodeVars
  PROVE  StoreOK' /\ Grew(table, table')
<1>1. CASE UNCHANGED disk
  <2>1. table' = table /\ file' = file /\ torn' = torn /\ stored' = stored  BY <1>1 DEF disk
  <2> QED  BY <2>1 DEF StoreOK, Grew
<1>2. CASE \E t \in Tasks : TaskNext(t)
  <2>1. PICK t \in Tasks : TaskNext(t)  BY <1>2
  <2>2. CASE \E row \in TableRows : Put(row)
    <3>1. PICK row \in TableRows : Put(row)  BY <2>2
    <3>2. row.key \in Keys  BY DEF TableRows
    <3>3. CASE row.key \in DOMAIN table  BY <1>1, <3>1, <3>3 DEF Put
    <3>4. CASE row.key \notin DOMAIN table
      <4>1. /\ table' = With(table, row.key, row) /\ torn' = torn
            /\ file' = (IF torn THEN file ELSE With(file, row.key, row))
            /\ stored' = [stored EXCEPT ![row.key] = @ + 1]
        BY <3>1, <3>4 DEF Put
      <4>2. DOMAIN table' = DOMAIN table \cup {row.key} /\ Grew(table, table')
        BY <3>1, PutRow DEF Grew
      <4>3. ~torn' => file' = table'  BY <4>1 DEF StoreOK
      <4>4. stored[row.key] = 0  BY <3>2, <3>4 DEF StoreOK
      <4>5. \A k \in Keys : stored'[k] = IF k \in DOMAIN table' THEN 1 ELSE 0
        BY <3>2, <4>1, <4>2, <4>4 DEF StoreOK, EpisodeTypeOK
      <4> QED  BY <4>2, <4>3, <4>5 DEF StoreOK
    <3> QED  BY <3>3, <3>4
  <2> QED  BY <1>1, <2>1, <2>2, TaskWrites
<1>3. CASE IntactNext /\ Die /\ UNCHANGED file
  <2>1. deaths' # deaths
    <3>1. deaths \in Nat /\ deaths' = deaths + 1  BY <1>3 DEF Die, EpisodeTypeOK
    <3> QED  BY <3>1
  <2>2. ~torn  BY <1>3, <2>1 DEF IntactNext
  <2>3. table' = table /\ file' = table'  BY <1>3, <2>2 DEF Die, Reopened, StoreOK
  <2>4. stored' = stored  BY <1>3 DEF Die
  <2> QED  BY <2>3, <2>4 DEF StoreOK, Grew
<1>4. CASE Dispatch \/ NextArm \/ UNCHANGED episodeVars
  BY <1>1, <1>4 DEF Dispatch, NextArm, episodeVars, disk, history
<1>5. CASE IntactNext /\ (Crash \/ \E t \in Tasks : CrashInPut(t))
  BY <1>3, <1>5 DEF Crash, CrashInPut
<1> QED  BY <1>2, <1>4, <1>5 DEF IntactNext, EpisodeNext

\* Nothing is bought yet.
LEMMA StoreStart == EpisodeInit => StoreOK
<1> SUFFICES ASSUME EpisodeInit PROVE StoreOK
  OBVIOUS
<1>1. table = <<>> /\ file = <<>> /\ DOMAIN <<>> = {}  BY DEF EpisodeInit, NoRows
<1>2. \A k \in Keys : k \notin DOMAIN table /\ stored[k] = 0  BY <1>1 DEF EpisodeInit
<1> QED  BY <1>1, <1>2 DEF StoreOK

\* No draw is bought twice, whichever arm, restart or task asks for it, while no process dies
\* behind a torn line (RebuysNothing, of IntactSpec).
THEOREM IntactRebuysNothing == IntactSpec => []RebuysNothing
<1>1. EpisodeTypeOK /\ StoreOK /\ [IntactNext]_episodeVars => (EpisodeTypeOK /\ StoreOK)'
  BY EpisodeType, StoreStep DEF IntactNext
<1>2. StoreOK => RebuysNothing  BY DEF StoreOK, RebuysNothing
<1> QED  BY <1>1, <1>2, EpisodeStart, StoreStart, PTL DEF IntactSpec

\* With one death at most there is none behind a torn line.
LEMMA OneDeathIsIntact ==
  ASSUME MaxDeaths <= 1
  PROVE  EpisodeTypeOK /\ [EpisodeNext]_episodeVars => [IntactNext]_episodeVars
<1> SUFFICES ASSUME EpisodeTypeOK, EpisodeNext, torn, deaths' # deaths PROVE FALSE
  BY DEF IntactNext
<1>1. deaths \in Nat /\ deaths >= 1 /\ MaxDeaths \in Nat  BY EpisodeAssumption DEF EpisodeTypeOK
<1>2. ~Die  BY <1>1 DEF Die
<1>3. ~(\E t \in Tasks : TaskNext(t))  BY TaskLeaves DEF EpisodeTypeOK
<1>4. ~Dispatch /\ ~NextArm  BY DEF Dispatch, NextArm
<1> QED  BY <1>2, <1>3, <1>4 DEF EpisodeNext, Crash, CrashInPut

\* ... and no draw is bought twice.
THEOREM NeverRebuys == ASSUME MaxDeaths <= 1 PROVE EpisodeSpec => []RebuysNothing
<1>1. EpisodeTypeOK /\ [EpisodeNext]_episodeVars => [IntactNext]_episodeVars
  BY OneDeathIsIntact
<1>2. EpisodeTypeOK /\ StoreOK /\ [IntactNext]_episodeVars => StoreOK'
  BY StoreStep
<1>3. StoreOK => RebuysNothing  BY DEF StoreOK, RebuysNothing
<1> QED  BY <1>1, <1>2, <1>3, EpisodeStart, EpisodeType, StoreStart, PTL DEF EpisodeSpec

\* What the Conductor is shown before the k-th step of s, and the number of the draw it would ask
\* of m there.
Prompt(t, s, k) == <<t, [i \in 1..(k - 1) |-> Lifted(s[i])]>>
Nth(s, k, m) == 1 + Cardinality({i \in 1..(k - 1) : s[i].model = m})
KeyOf(t, s, k) == <<t, s[k].model, Nth(s, k, s[k].model)>>

\* The step is a delegate's and the payer could pay for it.
Answered(step) == step.kind = "delegate" /\ step.failure # "refused"

\* The k-th step is what the policy chose, and what the table has of the draw.
Followed(pol, tab, t, s, k) ==
  /\ Prompt(t, s, k) \in DOMAIN pol /\ pol[Prompt(t, s, k)].kind = s[k].kind
  /\ s[k].kind = "garbage" => s[k] = GarbageStep
  /\ s[k].kind = "stop" => s[k] = StopStep
  /\ s[k].kind = "delegate" => pol[Prompt(t, s, k)].model = s[k].model
  /\ Answered(s[k]) =>
       /\ KeyOf(t, s, k) \in DOMAIN tab
       /\ LET row == tab[KeyOf(t, s, k)]
          IN s[k] = Step("delegate", s[k].model, Nth(s, k, s[k].model), row.grade, row.cost, row.failure)

\* What the steps cost, and the best grade among them.
Cost(s) == SumFunctionOnSet([k \in 1..Len(s) |-> s[k].cost], 1..Len(s))
IsBest(tab, t, s, best) ==
  /\ \A k \in 1..Len(s) : Answered(s[k]) => tab[KeyOf(t, s, k)].grade <= best
  /\ best = 0 \/ \E k \in 1..Len(s) : Answered(s[k]) /\ tab[KeyOf(t, s, k)].grade = best

\* The limit of fumbles in a row is reached at the k-th step; or the episode goes on after it.
Lost(s, k) == k >= ParseLimit /\ \A j \in (k - ParseLimit + 1)..k : s[j].kind = "garbage"
Open(s, k) == s[k].kind # "stop" /\ ~Lost(s, k)

\* The last f steps are fumbles, and no more.
Trails(s, f) ==
  /\ f <= Len(s) /\ \A j \in (Len(s) - f + 1)..Len(s) : s[j].kind = "garbage"
  /\ f < Len(s) => s[Len(s) - f].kind # "garbage"

\* An episode so far.
Lawful(pol, tab, t, s, spent, best) ==
  /\ s \in Seq(Steps) /\ \A k \in 1..Len(s) : Followed(pol, tab, t, s, k)
  /\ spent = Cost(s) /\ IsBest(tab, t, s, best)

\* Every step is the policy's, and none was refused.
Obeys(pol, tab, t, s) ==
  s \in Seq(Steps) /\ \A k \in 1..Len(s) : Followed(pol, tab, t, s, k) /\ s[k].failure # "refused"

\* Histories that are the same before the k-th step are shown alike there.
LEMMA SamePrefix ==
  ASSUME NEW t, NEW s, NEW r, NEW k \in Nat, \A i \in 1..(k - 1) : s[i] = r[i]
  PROVE  Prompt(t, s, k) = Prompt(t, r, k) /\ \A m : Nth(s, k, m) = Nth(r, k, m)
<1>1. [i \in 1..(k - 1) |-> Lifted(s[i])] = [i \in 1..(k - 1) |-> Lifted(r[i])]  OBVIOUS
<1>2. \A m : {i \in 1..(k - 1) : s[i].model = m} = {i \in 1..(k - 1) : r[i].model = m}
  OBVIOUS
<1> QED  BY <1>1, <1>2 DEF Prompt, Nth

\* Two histories of a policy, none of them refused a draw, are one: the first difference would be
\* between two steps the policy chose on the same text and the table answered from the same row.
LEMMA SameSteps ==
  ASSUME NEW pol, NEW tab, NEW t, NEW s, NEW r, Obeys(pol, tab, t, s), Obeys(pol, tab, t, r),
         NEW n \in Nat, n <= Len(s), n <= Len(r)
  PROVE  \A k \in 1..n : s[k] = r[k]
<1>0. /\ s \in Seq(Steps) /\ r \in Seq(Steps) /\ Len(s) \in Nat /\ Len(r) \in Nat
      /\ \A k \in 1..Len(s) : Followed(pol, tab, t, s, k) /\ s[k].failure # "refused"
      /\ \A k \in 1..Len(r) : Followed(pol, tab, t, r, k) /\ r[k].failure # "refused"
  BY DEF Obeys
<1> DEFINE Bad == {k \in 1..n : s[k] # r[k]}
<1>1. ASSUME Bad # {} PROVE FALSE
  <2>1. PICK k \in Bad : \A j \in Bad : k <= j
    <3>1. Bad \subseteq Nat  OBVIOUS
    <3> HIDE DEF Bad
    <3> QED  BY <1>1, <3>1, LeastNat
  <2>2. k \in Nat /\ k \in 1..Len(s) /\ k \in 1..Len(r) /\ s[k] # r[k]  BY <1>0
  <2>3. \A i \in 1..(k - 1) : s[i] = r[i]
    <3> SUFFICES ASSUME NEW i \in 1..(k - 1) PROVE i \notin Bad
      BY <2>2
    <3> HIDE DEF Bad
    <3> QED  BY <2>1, <2>2
  <2> HIDE DEF Bad
  <2>4. Prompt(t, s, k) = Prompt(t, r, k) /\ \A m : Nth(s, k, m) = Nth(r, k, m)
    BY <2>2, <2>3, SamePrefix
  <2>5. Followed(pol, tab, t, s, k) /\ Followed(pol, tab, t, r, k)  BY <1>0, <2>2
  <2>6. s[k].failure # "refused" /\ r[k].failure # "refused"  BY <1>0, <2>2
  <2>7. s[k].kind \in {"garbage", "stop", "delegate"}
    <3>1. s[k] \in Steps  BY <1>0, <2>2
    <3> QED  BY <3>1 DEF Steps
  <2>8. s[k].kind = r[k].kind  BY <2>4, <2>5 DEF Followed
  <2>9. CASE s[k].kind # "delegate"  BY <2>2, <2>5, <2>7, <2>8, <2>9 DEF Followed
  <2>10. CASE s[k].kind = "delegate"
    <3>1. Answered(s[k]) /\ Answered(r[k])  BY <2>6, <2>8, <2>10 DEF Answered
    <3>2. s[k].model = r[k].model  BY <2>4, <2>5, <2>8, <2>10 DEF Followed
    <3>3. KeyOf(t, s, k) = KeyOf(t, r, k) /\ Nth(s, k, s[k].model) = Nth(r, k, r[k].model)
      BY <2>4, <3>2 DEF KeyOf
    <3> QED  BY <2>2, <2>5, <3>1, <3>2, <3>3 DEF Followed
  <2> QED  BY <2>9, <2>10
<1> QED  BY <1>1

\* What a finished episode that the policy ended is.
Twin(pol, tab, t, r) ==
  LET n == Len(r.steps) IN
  r.reason \in {"stop", "max_steps", "parse_failures"} =>
    /\ Lawful(pol, tab, t, r.steps, r.spent, r.score)
    /\ n \in 1..MaxSteps
    /\ \A k \in 1..(n - 1) : Open(r.steps, k)
    /\ r.reason = "stop" <=> r.steps[n].kind = "stop"
    /\ r.reason = "parse_failures" <=> (r.steps[n].kind # "stop" /\ Lost(r.steps, n))
    /\ r.reason = "max_steps" => n = MaxSteps

\* The limit of fumbles is reached at the same step of equal histories.
LEMMA SameLost ==
  ASSUME NEW s, NEW r, NEW k \in Nat, \A i \in 1..k : s[i] = r[i], Lost(s, k)
  PROVE  Lost(r, k)
<1>1. ParseLimit \in Nat \ {0}  BY EpisodeAssumption
<1>2. \A j \in (k - ParseLimit + 1)..k : j \in 1..k  BY <1>1 DEF Lost
<1> QED  BY <1>2 DEF Lost

\* An episode the policy ended is no longer than its twin.
LEMMA NoLonger ==
  ASSUME NEW pol, NEW tab, NEW t, NEW r \in Results, NEW q \in Results,
         Twin(pol, tab, t, r), Twin(pol, tab, t, q), Uncut(r), Uncut(q)
  PROVE  Len(r.steps) >= Len(q.steps) /\ \A k \in 1..Len(q.steps) : r.steps[k] = q.steps[k]
<1> DEFINE s == r.steps
           z == q.steps
           n == Len(s)
           m == Len(z)
<1>1. /\ s \in Seq(Steps) /\ z \in Seq(Steps) /\ n \in 1..MaxSteps /\ m \in 1..MaxSteps
      /\ \A k \in 1..n : Followed(pol, tab, t, s, k) /\ s[k].failure # "refused"
      /\ \A k \in 1..m : Followed(pol, tab, t, z, k) /\ z[k].failure # "refused"
  <2>1. s \in Seq(Steps) /\ z \in Seq(Steps)  BY DEF Results
  <2>2. DOMAIN s = 1..n /\ DOMAIN z = 1..m  BY <2>1
  <2> QED  BY <2>1, <2>2 DEF Twin, Lawful, Uncut
<1>2. n \in Nat /\ m \in Nat /\ MaxSteps \in Nat /\ n >= 1 /\ m <= MaxSteps  BY <1>1, EpisodeAssumption
<1>3. ASSUME n < m PROVE FALSE
  <2>1. \A k \in 1..n : s[k] = z[k]
    <3>1. n <= Len(s) /\ n <= Len(z) /\ n \in Nat  BY <1>2, <1>3
    <3>2. Obeys(pol, tab, t, s) /\ Obeys(pol, tab, t, z)  BY <1>1 DEF Obeys
    <3> HIDE DEF s, z, n, m
    <3> QED  BY ONLY <3>1, <3>2, SameSteps
  <2>2. Open(z, n)
    <3>1. n \in 1..(m - 1)  BY <1>2, <1>3
    <3> QED  BY <3>1 DEF Twin, Uncut
  <2>3. s[n].kind # "stop" /\ ~Lost(s, n)
    <3>1. n \in 1..n  BY <1>2
    <3>2. s[n] = z[n]  BY <2>1, <3>1
    <3>3. ~Lost(s, n)  BY <1>2, <2>1, <2>2, SameLost DEF Open
    <3> QED  BY <2>2, <3>2, <3>3 DEF Open
  <2>4. r.reason = "max_steps"  BY <2>3 DEF Twin, Uncut
  <2>5. n = MaxSteps  BY <2>4 DEF Twin
  <2> QED  BY <1>2, <1>3, <2>5
<1>4. n >= m  BY <1>2, <1>3
<1>5. \A k \in 1..m : s[k] = z[k]
  <2>1. m <= Len(s) /\ m <= Len(z) /\ m \in Nat  BY <1>2, <1>4
  <2>2. Obeys(pol, tab, t, s) /\ Obeys(pol, tab, t, z)  BY <1>1 DEF Obeys
  <2> HIDE DEF s, z, n, m
  <2> QED  BY ONLY <2>1, <2>2, SameSteps
<1> QED  BY <1>4, <1>5

\* Finished episodes the policy ended are the same.
LEMMA SameResults ==
  ASSUME NEW pol, NEW tab, NEW t, NEW r \in Results, NEW q \in Results,
         Twin(pol, tab, t, r), Twin(pol, tab, t, q), Uncut(r), Uncut(q)
  PROVE  r = q
<1> DEFINE s == r.steps
           z == q.steps
           n == Len(s)
<1>1. s \in Seq(Steps) /\ z \in Seq(Steps)  BY DEF Results
<1>2. n = Len(z) /\ n \in Nat
  <2>1. Len(s) \in Nat /\ Len(z) \in Nat  BY <1>1
  <2>2. Len(s) >= Len(z) /\ Len(z) >= Len(s)  BY NoLonger
  <2> QED  BY <2>1, <2>2
<1>3. \A k \in 1..n : s[k] = z[k]  BY <1>2, NoLonger
<1>4. s = z  BY <1>1, <1>2, <1>3
<1>5. r.reason = q.reason  BY <1>4 DEF Twin, Uncut
<1>6. r.spent = q.spent  BY <1>4 DEF Twin, Uncut, Lawful
<1>7. r.score = q.score
  <2>1. IsBest(tab, t, s, r.score) /\ IsBest(tab, t, s, q.score)
    BY <1>4 DEF Twin, Uncut, Lawful
  <2>2. r.score \in Nat /\ q.score \in Nat  BY DEF Results
  <2>3. \A k \in 1..Len(s) : Answered(s[k]) =>
          tab[KeyOf(t, s, k)].grade <= r.score /\ tab[KeyOf(t, s, k)].grade <= q.score
    BY <2>1 DEF IsBest
  <2>4. ASSUME r.score < q.score PROVE FALSE
    <3>1. PICK k \in 1..Len(s) : Answered(s[k]) /\ tab[KeyOf(t, s, k)].grade = q.score
      BY <2>1, <2>2, <2>4 DEF IsBest
    <3> QED  BY <2>2, <2>3, <2>4, <3>1
  <2>5. ASSUME q.score < r.score PROVE FALSE
    <3>1. PICK k \in 1..Len(s) : Answered(s[k]) /\ tab[KeyOf(t, s, k)].grade = r.score
      BY <2>1, <2>2, <2>5 DEF IsBest
    <3> QED  BY <2>2, <2>3, <2>5, <3>1
  <2> QED  BY <2>2, <2>4, <2>5
<1> QED  BY <1>4, <1>5, <1>6, <1>7 DEF Results

\* A step taken stays lawful as the table and the policy grow.
LEMMA FollowedGrows ==
  ASSUME NEW pol, NEW tab, NEW pol2, NEW tab2, Grew(pol, pol2), Grew(tab, tab2), NEW t, NEW s, NEW k,
         Followed(pol, tab, t, s, k)
  PROVE  /\ Followed(pol2, tab2, t, s, k)
         /\ Answered(s[k]) => tab2[KeyOf(t, s, k)] = tab[KeyOf(t, s, k)]
<1>1. Prompt(t, s, k) \in DOMAIN pol2 /\ pol2[Prompt(t, s, k)] = pol[Prompt(t, s, k)]
  BY DEF Followed, Grew
<1>2. Answered(s[k]) => KeyOf(t, s, k) \in DOMAIN tab2 /\ tab2[KeyOf(t, s, k)] = tab[KeyOf(t, s, k)]
  BY DEF Followed, Grew
<1> QED  BY <1>1, <1>2 DEF Followed

\* So does an episode.
LEMMA LawfulGrows ==
  ASSUME NEW pol, NEW tab, NEW pol2, NEW tab2, Grew(pol, pol2), Grew(tab, tab2), NEW t, NEW s,
         NEW spent, NEW best, Lawful(pol, tab, t, s, spent, best)
  PROVE  Lawful(pol2, tab2, t, s, spent, best)
<1>1. ASSUME NEW k \in 1..Len(s)
      PROVE  /\ Followed(pol2, tab2, t, s, k)
             /\ Answered(s[k]) => tab2[KeyOf(t, s, k)] = tab[KeyOf(t, s, k)]
  <2>1. Followed(pol, tab, t, s, k)  BY DEF Lawful
  <2> QED  BY <2>1, FollowedGrows
<1>2. IsBest(tab, t, s, best)  BY DEF Lawful
<1>3. IsBest(tab2, t, s, best)
  <2>1. \A k \in 1..Len(s) : Answered(s[k]) => tab2[KeyOf(t, s, k)].grade <= best
    BY <1>1, <1>2 DEF IsBest
  <2>2. best = 0 \/ \E k \in 1..Len(s) : Answered(s[k]) /\ tab2[KeyOf(t, s, k)].grade = best
    BY <1>1, <1>2 DEF IsBest
  <2> QED  BY <2>1, <2>2 DEF IsBest
<1> QED  BY <1>1, <1>3 DEF Lawful

\* The history before the k-th step decides whether that is a lawful one.
LEMMA FollowedPrefix ==
  ASSUME NEW pol, NEW tab, NEW t, NEW s, NEW r, NEW k \in Nat \ {0}, \A i \in 1..k : s[i] = r[i],
         Followed(pol, tab, t, s, k)
  PROVE  Followed(pol, tab, t, r, k) /\ KeyOf(t, r, k) = KeyOf(t, s, k)
<1>1. s[k] = r[k] /\ \A i \in 1..(k - 1) : s[i] = r[i]  OBVIOUS
<1>2. Prompt(t, s, k) = Prompt(t, r, k) /\ \A m : Nth(s, k, m) = Nth(r, k, m)
  BY <1>1, SamePrefix
<1>3. KeyOf(t, r, k) = KeyOf(t, s, k)  BY <1>1, <1>2 DEF KeyOf
<1> QED  BY <1>1, <1>2, <1>3 DEF Followed

\* What one step more costs.
LEMMA CostMore ==
  ASSUME NEW s \in Seq(Steps), NEW step \in Steps
  PROVE  Cost(Append(s, step)) = Cost(s) + step.cost
<1> DEFINE n == Len(s)
           z == Append(s, step)
           f == [k \in 1..n |-> s[k].cost]
           g == [k \in 1..(n + 1) |-> z[k].cost]
<1>1. n \in Nat /\ Len(z) = n + 1 /\ z[n + 1] = step /\ \A k \in 1..n : z[k] = s[k] /\ s[k] \in Steps
  OBVIOUS
<1>2. step.cost \in Nat /\ \A k \in 1..n : s[k].cost \in Nat  BY <1>1 DEF Steps
<1> HIDE DEF z
<1>3. g[n + 1] = step.cost /\ \A k \in 1..n : g[k] \in Int /\ g[k] = f[k]
  BY <1>1, <1>2
<1>4. 1..(n + 1) = 1..n \cup {n + 1} /\ n + 1 \notin 1..n  BY <1>1
<1>5. IsFiniteSet(1..n)  BY <1>1, FS_Interval
<1>6. SumFunctionOnSet(g, 1..(n + 1)) = g[n + 1] + SumFunctionOnSet(f, 1..n)
  <2> DEFINE S == 1..n
             x == n + 1
  <2>1. IsFiniteSet(S) /\ x \notin S  BY <1>4, <1>5
  <2>3. g[x] \in Int /\ \A k \in S : g[k] \in Int /\ g[k] = f[k]
    <3> HIDE DEF f, g
    <3> QED  BY <1>2, <1>3
  <2> HIDE DEF S, x, f, g
  <2>2. SumFunctionOnSet(g, S \cup {x}) = g[x] + SumFunctionOnSet(f, S)  BY ONLY <2>1, <2>3, SumAdd
  <2> QED  BY <1>4, <2>2 DEF S, x
<1>7. SumFunctionOnSet(f, 1..n) \in Int
  <2>1. \A k \in 1..n : f[k] \in Int  BY <1>2
  <2> HIDE DEF f
  <2> QED  BY <1>5, <2>1, SumType
<1>8. Cost(s) = SumFunctionOnSet(f, 1..n)  BY DEF Cost
<1>9. Cost(z) = SumFunctionOnSet(g, 1..(n + 1))  BY <1>1 DEF Cost
<1> HIDE DEF f, g
<1>10. Cost(z) = Cost(s) + step.cost  BY <1>2, <1>3, <1>6, <1>7, <1>8, <1>9
<1> QED  BY <1>10 DEF z

\* A lawful step more.
LEMMA LawfulMore ==
  ASSUME NEW pol, NEW tab, \A key \in DOMAIN tab : tab[key] \in TableRows,
         NEW t, NEW s, NEW spent, NEW best \in Nat, Lawful(pol, tab, t, s, spent, best),
         NEW step \in Steps, Followed(pol, tab, t, Append(s, step), Len(s) + 1), NEW score \in Nat,
         score = IF Answered(step) THEN tab[KeyOf(t, Append(s, step), Len(s) + 1)].grade ELSE 0
  PROVE  Lawful(pol, tab, t, Append(s, step), spent + step.cost, IF score > best THEN score ELSE best)
<1> DEFINE n == Len(s)
           z == Append(s, step)
           top == IF score > best THEN score ELSE best
<1>1. s \in Seq(Steps)  BY DEF Lawful
<1>2. /\ n \in Nat /\ z \in Seq(Steps) /\ Len(z) = n + 1 /\ z[n + 1] = step
      /\ \A k \in 1..n : z[k] = s[k]
  BY <1>1
<1>3. spent + step.cost = Cost(z)  BY <1>1, CostMore DEF Lawful
<1> HIDE DEF z
<1>4. ASSUME NEW k \in 1..n
      PROVE  Followed(pol, tab, t, z, k) /\ KeyOf(t, z, k) = KeyOf(t, s, k)
  <2>1. Followed(pol, tab, t, s, k)  BY DEF Lawful
  <2>2. k \in Nat \ {0} /\ \A i \in 1..k : s[i] = z[i]  BY <1>2
  <2> QED  BY <2>1, <2>2, FollowedPrefix
<1>5. \A k \in 1..Len(z) : k \in 1..n \/ k = n + 1  BY <1>2
<1>6. Followed(pol, tab, t, z, n + 1)  BY DEF z
<1>7. \A k \in 1..Len(z) : Followed(pol, tab, t, z, k)  BY <1>4, <1>5, <1>6
<1>8. score = IF Answered(step) THEN tab[KeyOf(t, z, n + 1)].grade ELSE 0  BY DEF z
<1>9. IsBest(tab, t, s, best)  BY DEF Lawful
<1>10. top \in Nat /\ best <= top /\ score <= top  OBVIOUS
<1>11. IsBest(tab, t, z, top)
  <2>1. ASSUME NEW k \in 1..Len(z), Answered(z[k]) PROVE tab[KeyOf(t, z, k)].grade <= top
    <3>1. CASE k = n + 1  BY <1>2, <1>8, <1>10, <2>1, <3>1
    <3>2. CASE k \in 1..n
      <4>1. Answered(s[k]) /\ KeyOf(t, z, k) = KeyOf(t, s, k)  BY <1>2, <1>4, <2>1, <3>2
      <4>2. tab[KeyOf(t, s, k)].grade <= best  BY <1>9, <3>2, <4>1 DEF IsBest
      <4>3. Followed(pol, tab, t, s, k)  BY <3>2 DEF Lawful
      <4>4. tab[KeyOf(t, s, k)].grade \in Nat  BY <4>1, <4>3 DEF Followed, TableRows
      <4> HIDE DEF top
      <4> QED  BY <1>10, <4>1, <4>2, <4>4
    <3> QED  BY <1>5, <3>1, <3>2
  <2>2. CASE score > best
    <3>1. score # 0 /\ top = score  BY <2>2
    <3>2. Answered(z[n + 1]) /\ tab[KeyOf(t, z, n + 1)].grade = top  BY <1>2, <1>8, <3>1
    <3>3. n + 1 \in 1..Len(z)  BY <1>2
    <3> HIDE DEF top, n
    <3> QED  BY <2>1, <3>2, <3>3 DEF IsBest
  <2>3. CASE ~(score > best)
    <3>1. top = best  BY <2>3
    <3>2. ASSUME best # 0 PROVE \E k \in 1..Len(z) : Answered(z[k]) /\ tab[KeyOf(t, z, k)].grade = best
      <4>1. PICK k \in 1..n : Answered(s[k]) /\ tab[KeyOf(t, s, k)].grade = best
        BY <1>9, <3>2 DEF IsBest
      <4>2. k \in 1..Len(z)  BY <1>2
      <4>3. Answered(z[k]) /\ KeyOf(t, z, k) = KeyOf(t, s, k)  BY <1>2, <1>4, <4>1
      <4> QED  BY <4>1, <4>2, <4>3
    <3> QED  BY <2>1, <3>1, <3>2 DEF IsBest
  <2> QED  BY <2>2, <2>3
<1> QED  BY <1>2, <1>3, <1>7, <1>11 DEF Lawful, z

\* What an episode in flight is: lawful, no step of it its last, and its delegate asked because the
\* policy chose it and the table has no row of that draw.
Underway(pol, tab, t, ep) ==
  LET next == Len(ep.steps) + 1
      key == ep.pending.key
  IN /\ Lawful(pol, tab, t, ep.steps, ep.spent, ep.best)
     /\ \A k \in 1..Len(ep.steps) : Open(ep.steps, k)
     /\ ep.pending = NONE => Trails(ep.steps, ep.fumbles) /\ ep.fumbles < ParseLimit
     /\ ep.pending # NONE =>
          /\ ep.fumbles = 0
          /\ key = <<t, key[2], Nth(ep.steps, next, key[2])>> /\ key \notin DOMAIN tab
          /\ Prompt(t, ep.steps, next) \in DOMAIN pol
          /\ pol[Prompt(t, ep.steps, next)] = Delegate(key[2])

\* The policy and the table decide every episode there is, in flight or finished.
TwinsOK ==
  \A t \in Tasks :
    /\ episodes[t] # NONE => Underway(policy, table, t, episodes[t])
    /\ \A a \in Arms : results[a][t] # NONE => Twin(policy, table, t, results[a][t])

\* Where no step was the last, none is when another is taken.
LEMMA OpenMore ==
  ASSUME NEW s \in Seq(Steps), NEW step \in Steps, \A k \in 1..Len(s) : Open(s, k)
  PROVE  \A k \in 1..Len(s) : Open(Append(s, step), k)
<1> DEFINE z == Append(s, step)
           n == Len(s)
<1>1. n \in Nat /\ \A k \in 1..n : z[k] = s[k]  OBVIOUS
<1> HIDE DEF z
<1>2. ASSUME NEW k \in 1..n PROVE Open(z, k)
  <2>1. k \in Nat /\ \A i \in 1..k : z[i] = s[i]  BY <1>1
  <2>2. Lost(z, k) => Lost(s, k)  BY <2>1, SameLost
  <2> QED  BY <1>1, <2>2 DEF Open
<1> QED  BY <1>2 DEF z

\* A fumble more: at the limit the episode is lost, before it it is not.
LEMMA FumbleMore ==
  ASSUME NEW s \in Seq(Steps), NEW step \in Steps, step.kind = "garbage", NEW f \in Nat,
         Trails(s, f), f < ParseLimit
  PROVE  LET z == Append(s, step) IN
         /\ f + 1 = ParseLimit => Lost(z, Len(s) + 1)
         /\ f + 1 # ParseLimit =>
              Trails(z, f + 1) /\ f + 1 < ParseLimit /\ Open(z, Len(s) + 1)
<1> DEFINE z == Append(s, step)
           n == Len(s)
<1>1. /\ n \in Nat /\ Len(z) = n + 1 /\ z[n + 1] = step
      /\ \A k \in 1..n : z[k] = s[k]
  OBVIOUS
<1>2. ParseLimit \in Nat \ {0}  BY EpisodeAssumption
<1> HIDE DEF z
<1>3. f <= n /\ (\A j \in (n - f + 1)..n : s[j].kind = "garbage")
      /\ (f < n => s[n - f].kind # "garbage")
  BY DEF Trails
<1>4. \A j \in (n - f + 1)..(n + 1) : z[j].kind = "garbage"
  <2> SUFFICES ASSUME NEW j \in (n - f + 1)..(n + 1) PROVE z[j].kind = "garbage"
    OBVIOUS
  <2>1. CASE j = n + 1  BY <1>1, <2>1
  <2>2. CASE j # n + 1
    <3>1. j \in (n - f + 1)..n /\ j \in 1..n  BY <1>1, <1>3, <2>2
    <3> QED  BY <1>1, <1>3, <3>1
  <2> QED  BY <2>1, <2>2
<1>5. ASSUME f + 1 = ParseLimit PROVE Lost(z, n + 1)
  <2>1. n + 1 >= ParseLimit /\ (n + 1) - ParseLimit + 1 = n - f + 1  BY <1>1, <1>2, <1>3, <1>5
  <2> QED  BY <1>4, <2>1 DEF Lost
<1>6. ASSUME f + 1 # ParseLimit
      PROVE  Trails(z, f + 1) /\ f + 1 < ParseLimit /\ Open(z, n + 1)
  <2>1. f + 1 < ParseLimit  BY <1>2, <1>6
  <2>2. f + 1 < n + 1 => z[(n + 1) - (f + 1)].kind # "garbage"
    <3> SUFFICES ASSUME f + 1 < n + 1 PROVE z[(n + 1) - (f + 1)].kind # "garbage"
      OBVIOUS
    <3>1. f < n /\ n - f \in 1..n /\ (n + 1) - (f + 1) = n - f  BY <1>1
    <3> QED  BY <1>1, <1>3, <3>1
  <2>3. Trails(z, f + 1)
    <3>1. f + 1 <= Len(z) /\ Len(z) - (f + 1) + 1 = n - f + 1 /\ Len(z) - (f + 1) = (n + 1) - (f + 1)
      BY <1>1, <1>3
    <3> QED  BY <1>1, <1>4, <2>2, <3>1 DEF Trails
  <2>4. ~Lost(z, n + 1)
    <3> SUFFICES ASSUME Lost(z, n + 1) PROVE FALSE
      OBVIOUS
    <3>1. n + 1 >= ParseLimit /\ \A j \in ((n + 1) - ParseLimit + 1)..(n + 1) : z[j].kind = "garbage"
      BY DEF Lost
    <3>2. n - f \in ((n + 1) - ParseLimit + 1)..(n + 1) /\ n - f \in 1..n /\ f < n
      BY <1>1, <1>2, <2>1, <3>1
    <3> QED  BY <1>1, <1>3, <3>1, <3>2
  <2>5. z[n + 1].kind # "stop"  BY <1>1
  <2> QED  BY <2>1, <2>3, <2>4, <2>5 DEF Open
<1> QED  BY <1>5, <1>6 DEF z

\* A delegate's step is no fumble.
LEMMA DelegateMore ==
  ASSUME NEW s \in Seq(Steps), NEW step \in Steps, step.kind = "delegate"
  PROVE  Trails(Append(s, step), 0) /\ Open(Append(s, step), Len(s) + 1)
<1> DEFINE z == Append(s, step)
           n == Len(s)
<1>1. n \in Nat /\ Len(z) = n + 1 /\ z[n + 1] = step  OBVIOUS
<1>2. ParseLimit \in Nat \ {0}  BY EpisodeAssumption
<1> HIDE DEF z
<1>3. Trails(z, 0)
  <2>1. Len(z) - 0 = n + 1 /\ 0 <= Len(z) /\ \A j \in (Len(z) - 0 + 1)..Len(z) : FALSE  BY <1>1
  <2> QED  BY <1>1, <2>1 DEF Trails
<1>4. ~Lost(z, n + 1)
  <2>1. n + 1 \in ((n + 1) - ParseLimit + 1)..(n + 1)  BY <1>1, <1>2
  <2> QED  BY <1>1, <2>1 DEF Lost
<1>5. z[n + 1].kind # "stop"  BY <1>1
<1> QED  BY <1>3, <1>4, <1>5 DEF Open, z

\* What the loop makes of a lawful step of an episode in flight.
LEMMA TakesTwin ==
  ASSUME EpisodeTypeOK, NEW t \in Tasks, NEW pol, NEW tab, \A key \in DOMAIN tab : tab[key] \in TableRows,
         Lawful(pol, tab, t, episodes[t].steps, episodes[t].spent, episodes[t].best),
         \A k \in 1..Len(episodes[t].steps) : Open(episodes[t].steps, k),
         NEW e, NEW r, NEW d, NEW f, NEW step \in Steps, NEW score \in Nat,
         Takes(t, e, r, d, f, step, score, step.cost),
         Followed(pol, tab, t, Append(episodes[t].steps, step), Len(episodes[t].steps) + 1),
         score = IF Answered(step)
                 THEN tab[KeyOf(t, Append(episodes[t].steps, step), Len(episodes[t].steps) + 1)].grade
                 ELSE 0,
         Trails(Append(episodes[t].steps, step), f), f < ParseLimit,
         Open(Append(episodes[t].steps, step), Len(episodes[t].steps) + 1)
  PROVE  /\ e # NONE => Underway(pol, tab, t, e)
         /\ e = NONE => Twin(pol, tab, t, r)
<1> DEFINE now == episodes[t]
           s == now.steps
           n == Len(s)
           z == Append(s, step)
           best == IF score > now.best THEN score ELSE now.best
           spent == now.spent + step.cost
<1>1. /\ Progress(t, e, r, d)
      /\ e # NONE => /\ e.steps = z /\ e.fumbles = f /\ e.best = best
                     /\ e.spent = spent /\ e.pending = NONE
      /\ e = NONE => Len(z) = MaxSteps /\ r = Result(z, best, spent, "max_steps")
  BY DEF Takes
<1>2. now \in Episodes  BY <1>1, InFlight DEF Progress
<1>3. s \in Seq(Steps) /\ now.best \in Nat  BY <1>2 DEF Episodes
<1>4. n \in Nat /\ Len(z) = n + 1  BY <1>3
<1>5. Lawful(pol, tab, t, z, spent, best)
  <2> HIDE DEF s
  <2>1. Lawful(pol, tab, t, s, now.spent, now.best)
        /\ Followed(pol, tab, t, Append(s, step), Len(s) + 1)
        /\ score = IF Answered(step) THEN tab[KeyOf(t, Append(s, step), Len(s) + 1)].grade ELSE 0
    BY DEF s
  <2> QED  BY <1>3, <2>1, LawfulMore
<1>6. \A k \in 1..(n + 1) : Open(z, k)
  <2>1. \A k \in 1..n : Open(z, k)  BY <1>3, OpenMore
  <2>2. Open(z, n + 1)  OBVIOUS
  <2>3. \A k \in 1..(n + 1) : k \in 1..n \/ k = n + 1  BY <1>4
  <2> HIDE DEF z, n
  <2> QED  BY <2>1, <2>2, <2>3
<1>7. ASSUME e # NONE PROVE Underway(pol, tab, t, e)
  <2>1. e.steps = z /\ e.fumbles = f /\ e.best = best /\ e.spent = spent /\ e.pending = NONE
    BY <1>1, <1>7
  <2>2. Trails(z, f)  OBVIOUS
  <2> HIDE DEF z, n, best, spent
  <2> QED  BY <1>4, <1>5, <1>6, <2>1, <2>2 DEF Underway
<1>8. ASSUME e = NONE PROVE Twin(pol, tab, t, r)
  <2>1. n + 1 = MaxSteps /\ r = Result(z, best, spent, "max_steps")  BY <1>1, <1>4, <1>8
  <2> HIDE DEF z, n, best, spent
  <2>2. r.steps = z /\ r.score = best /\ r.spent = spent /\ r.reason = "max_steps"
    BY <2>1 DEF Result
  <2>3. Len(r.steps) = n + 1 /\ n + 1 \in 1..MaxSteps  BY <1>4, <2>1, <2>2
  <2>4. Open(z, n + 1) /\ \A k \in 1..((n + 1) - 1) : Open(z, k)  BY <1>4, <1>6
  <2>5. z[n + 1].kind # "stop" /\ ~Lost(z, n + 1)  BY <2>4 DEF Open
  <2>6. Lawful(pol, tab, t, r.steps, r.spent, r.score)  BY <1>5, <2>2
  <2> QED  BY <2>1, <2>2, <2>3, <2>4, <2>5, <2>6 DEF Twin
<1> QED  BY <1>7, <1>8

\* What the Conductor is asked at, in the words of its history.
LEMMA RenderedIs ==
  ASSUME NEW t, NEW ep, ep.steps \in Seq(Steps)
  PROVE  /\ Rendered(t, ep) = Prompt(t, ep.steps, Len(ep.steps) + 1)
         /\ \A m : Attempt(ep, m) = Nth(ep.steps, Len(ep.steps) + 1, m)
<1> DEFINE s == ep.steps
           n == Len(s)
<1>1. n \in Nat /\ DOMAIN s = 1..n /\ (n + 1) - 1 = n  OBVIOUS
<1>2. Rendered(t, ep) = <<t, [i \in DOMAIN s |-> Lifted(s[i])]>>  BY DEF Rendered
<1>3. \A m : Attempt(ep, m) = 1 + Cardinality({i \in DOMAIN s : s[i].model = m})  BY DEF Attempt
<1> HIDE DEF s, n
<1>4. Rendered(t, ep) = Prompt(t, s, n + 1)  BY <1>1, <1>2 DEF Prompt
<1>5. \A m : Attempt(ep, m) = Nth(s, n + 1, m)  BY <1>1, <1>3 DEF Nth
<1> QED  BY <1>4, <1>5 DEF s, n

\* The Conductor's answer is remembered, and contradicts none it gave.
LEMMA AsksGrows ==
  ASSUME NEW t, NEW ep, NEW action, Asks(t, ep, action)
  PROVE  /\ Grew(policy, policy')
         /\ Rendered(t, ep) \in DOMAIN policy' /\ policy'[Rendered(t, ep)] = action
<1> DEFINE p == Rendered(t, ep)
<1>1. p \in DOMAIN policy => action = policy[p]  BY DEF Asks, Answers
<1>2. policy' = With(policy, p, action)  BY DEF Asks
<1> HIDE DEF p
<1>3. /\ DOMAIN policy' = DOMAIN policy \cup {p} /\ policy'[p] = action
      /\ \A k \in DOMAIN policy : k # p => policy'[k] = policy[k]
  BY <1>2 DEF With
<1>4. Grew(policy, policy')  BY <1>1, <1>3 DEF Grew
<1> QED  BY <1>3, <1>4 DEF p

\* The policy only grows.
LEMMA PolicyGrows ==
  ASSUME [EpisodeNext]_episodeVars
  PROVE  Grew(policy, policy')
<1>1. UNCHANGED policy => Grew(policy, policy')  BY DEF Grew
<1>2. CASE \E t \in Tasks : TaskNext(t)
  <2>1. PICK t \in Tasks : TaskNext(t)  BY <1>2
  <2>2. CASE Fumble(t) \/ Submit(t)  BY <2>2, AsksGrows DEF Fumble, Submit
  <2>3. CASE \E m \in Models : Miss(t, m) \/ Hit(t, m)  BY <2>3, AsksGrows DEF Miss, Hit
  <2>4. CASE OutOfTime(t) \/ OutOfMoney(t) \/ ReplyReads(t) \/ ReplySubmits(t)
    BY <1>1, <2>4 DEF OutOfTime, OutOfMoney, ReplyReads, ReplySubmits
  <2>5. CASE \E failure \in {"refused", "worker"} : CallFails(t, failure)
    BY <1>1, <2>5 DEF CallFails
  <2>6. CASE \E verdict \in Verdicts : Grade(t, verdict)  BY <1>1, <2>6 DEF Grade
  <2> QED  BY <2>1, <2>2, <2>3, <2>4, <2>5, <2>6 DEF TaskNext
<1>3. CASE Dispatch \/ NextArm \/ UNCHANGED episodeVars
  BY <1>1, <1>3 DEF Dispatch, NextArm, episodeVars
<1>4. CASE Crash \/ \E t \in Tasks : CrashInPut(t)
  BY <1>1, <1>4 DEF Crash, CrashInPut, Die
<1> QED  BY <1>2, <1>3, <1>4 DEF EpisodeNext

\* A text, or a submission, that the policy chose.
LEMMA FollowsText ==
  ASSUME NEW pol, NEW tab, NEW t, NEW s \in Seq(Steps), NEW step \in {GarbageStep, StopStep},
         Prompt(t, s, Len(s) + 1) \in DOMAIN pol, pol[Prompt(t, s, Len(s) + 1)].kind = step.kind
  PROVE  /\ Followed(pol, tab, t, Append(s, step), Len(s) + 1) /\ ~Answered(step)
         /\ step \in Steps /\ step.cost = 0
<1> DEFINE z == Append(s, step)
           n == Len(s)
<1>1. /\ GarbageStep \in Steps /\ GarbageStep.kind = "garbage" /\ GarbageStep.cost = 0
      /\ StopStep \in Steps /\ StopStep.kind = "stop" /\ StopStep.cost = 0
  BY StepType DEF GarbageStep, StopStep
<1>2. n \in Nat /\ n + 1 \in Nat /\ z[n + 1] = step /\ \A i \in 1..((n + 1) - 1) : s[i] = z[i]
  OBVIOUS
<1>3. Prompt(t, z, n + 1) = Prompt(t, s, n + 1)
  <2> HIDE DEF z, n
  <2> QED  BY <1>2, SamePrefix
<1>4. ~Answered(step)  BY <1>1 DEF Answered
<1>5. Followed(pol, tab, t, z, n + 1)
  <2>1. Prompt(t, s, n + 1) \in DOMAIN pol /\ pol[Prompt(t, s, n + 1)].kind = step.kind
    OBVIOUS
  <2> HIDE DEF z, n
  <2> QED  BY <1>1, <1>2, <1>3, <1>4, <2>1 DEF Followed
<1> QED  BY <1>1, <1>4, <1>5

\* The step of a draw: the table's row, or a refusal.
Draws(tab, t, m, n, step) ==
  /\ step.kind = "delegate" /\ step.model = m
  /\ Answered(step) =>
       /\ <<t, m, n>> \in DOMAIN tab
       /\ step = Step("delegate", m, n, tab[<<t, m, n>>].grade, tab[<<t, m, n>>].cost,
                      tab[<<t, m, n>>].failure)

\* A draw the policy chose, and the table has.
LEMMA FollowsDraw ==
  ASSUME NEW pol, NEW tab, NEW t, NEW s \in Seq(Steps), NEW m \in Models,
         Prompt(t, s, Len(s) + 1) \in DOMAIN pol, pol[Prompt(t, s, Len(s) + 1)] = Delegate(m),
         NEW n, n = Nth(s, Len(s) + 1, m), NEW step, Draws(tab, t, m, n, step)
  PROVE  /\ Followed(pol, tab, t, Append(s, step), Len(s) + 1)
         /\ KeyOf(t, Append(s, step), Len(s) + 1) = <<t, m, n>>
<1> DEFINE z == Append(s, step)
           l == Len(s)
<1>2. l \in Nat /\ l + 1 \in Nat /\ z[l + 1] = step /\ \A i \in 1..((l + 1) - 1) : s[i] = z[i]
  OBVIOUS
<1>3. Prompt(t, z, l + 1) = Prompt(t, s, l + 1) /\ Nth(z, l + 1, m) = n
  <2>1. n = Nth(s, l + 1, m)  OBVIOUS
  <2> HIDE DEF z, l
  <2> QED  BY <1>2, <2>1, SamePrefix
<1>4. Delegate(m).kind = "delegate" /\ Delegate(m).model = m  BY DEF Delegate
<1>5. Prompt(t, s, l + 1) \in DOMAIN pol /\ pol[Prompt(t, s, l + 1)] = Delegate(m)  OBVIOUS
<1> HIDE DEF z, l
<1>6. KeyOf(t, z, l + 1) = <<t, m, n>>  BY <1>2, <1>3 DEF KeyOf, Draws
<1>7. Followed(pol, tab, t, z, l + 1)  BY <1>2, <1>3, <1>4, <1>5, <1>6 DEF Followed, Draws
<1> QED  BY <1>6, <1>7 DEF z, l

\* A task's operation, seen from what the policy and the table decided so far.
Grounds(t) ==
  /\ EpisodeTypeOK /\ EpisodeTypeOK' /\ Grew(policy, policy') /\ Grew(table, table')
  /\ t \in Tasks /\ episodes[t] # NONE /\ Underway(policy, table, t, episodes[t])

\* Where it leaves the episode.
Lands(t) ==
  \E e, r, d : /\ Progress(t, e, r, d)
               /\ e # NONE => Underway(policy', table', t, e)
               /\ e = NONE => Twin(policy', table', t, r)

\* What the episode was, it is with the table and the policy as they are after the step.
LEMMA StillLawful ==
  ASSUME NEW t, Grounds(t)
  PROVE  /\ Lawful(policy', table', t, episodes[t].steps, episodes[t].spent, episodes[t].best)
         /\ \A k \in 1..Len(episodes[t].steps) : Open(episodes[t].steps, k)
         /\ \A key \in DOMAIN table' : table'[key] \in TableRows
         /\ episodes[t] \in Episodes
         /\ episodes[t].steps \in Seq(Steps) /\ Len(episodes[t].steps) \in Nat
         /\ Len(episodes[t].steps) + 1 \in 1..MaxSteps
         /\ episodes[t].spent \in Nat /\ episodes[t].best \in Nat /\ episodes[t].fumbles \in Nat
<1>1. Underway(policy, table, t, episodes[t]) /\ Grew(policy, policy') /\ Grew(table, table')
  BY DEF Grounds
<1>2. /\ Lawful(policy, table, t, episodes[t].steps, episodes[t].spent, episodes[t].best)
      /\ \A k \in 1..Len(episodes[t].steps) : Open(episodes[t].steps, k)
  BY <1>1 DEF Underway
<1>3. Lawful(policy', table', t, episodes[t].steps, episodes[t].spent, episodes[t].best)
  BY <1>1, <1>2, LawfulGrows
<1>4. \A key \in DOMAIN table' : table'[key] \in TableRows  BY DEF Grounds, EpisodeTypeOK
<1>5. /\ episodes[t] \in Episodes /\ Len(episodes[t].steps) \in Nat
      /\ Len(episodes[t].steps) < MaxSteps
  BY InFlight DEF Grounds
<1>6. Len(episodes[t].steps) + 1 \in 1..MaxSteps  BY <1>5, EpisodeAssumption
<1> QED  BY <1>2, <1>3, <1>4, <1>5, <1>6 DEF Episodes

\* A step taken that the policy chose and the table answered.
LEMMA TakesLands ==
  ASSUME NEW t, Grounds(t), NEW e, NEW r, NEW d, NEW f, NEW step \in Steps, NEW score \in Nat,
         Takes(t, e, r, d, f, step, score, step.cost),
         Followed(policy', table', t, Append(episodes[t].steps, step), Len(episodes[t].steps) + 1),
         score = IF Answered(step)
                 THEN table'[KeyOf(t, Append(episodes[t].steps, step), Len(episodes[t].steps) + 1)].grade
                 ELSE 0,
         Trails(Append(episodes[t].steps, step), f), f < ParseLimit,
         Open(Append(episodes[t].steps, step), Len(episodes[t].steps) + 1)
  PROVE  Lands(t)
<1>1. EpisodeTypeOK /\ t \in Tasks  BY DEF Grounds
<1>2. /\ Lawful(policy', table', t, episodes[t].steps, episodes[t].spent, episodes[t].best)
      /\ \A k \in 1..Len(episodes[t].steps) : Open(episodes[t].steps, k)
      /\ \A key \in DOMAIN table' : table'[key] \in TableRows
  BY StillLawful
<1> DEFINE pol == policy'
           tab == table'
<1>3. /\ e # NONE => Underway(pol, tab, t, e)
      /\ e = NONE => Twin(pol, tab, t, r)
  <2>1. /\ Lawful(pol, tab, t, episodes[t].steps, episodes[t].spent, episodes[t].best)
        /\ \A k \in 1..Len(episodes[t].steps) : Open(episodes[t].steps, k)
        /\ \A key \in DOMAIN tab : tab[key] \in TableRows
        /\ Followed(pol, tab, t, Append(episodes[t].steps, step), Len(episodes[t].steps) + 1)
        /\ score = IF Answered(step)
                   THEN tab[KeyOf(t, Append(episodes[t].steps, step), Len(episodes[t].steps) + 1)].grade
                   ELSE 0
    BY <1>2
  <2> HIDE DEF pol, tab
  <2> QED  BY <1>1, <2>1, TakesTwin
<1>4. Progress(t, e, r, d)  BY DEF Takes
<1> QED  BY <1>3, <1>4 DEF Lands

\* A cut episode is nobody's twin.
LEMMA CutLands ==
  ASSUME NEW t, Grounds(t), OutOfTime(t) \/ OutOfMoney(t)
  PROVE  Lands(t)
<1>1. PICK r : Progress(t, NONE, r, 0) /\ r.reason \in {"wall_clock", "budget_exhausted"}
  BY CutProgress DEF Grounds
<1>2. Twin(policy', table', t, r)  BY <1>1 DEF Twin
<1> QED  BY <1>1, <1>2 DEF Lands

\* The Conductor is asked at the end of the history, and remembered there.
LEMMA AsksAt ==
  ASSUME NEW t, Grounds(t), NEW action, Asks(t, episodes[t], action)
  PROVE  /\ Prompt(t, episodes[t].steps, Len(episodes[t].steps) + 1) \in DOMAIN policy'
         /\ policy'[Prompt(t, episodes[t].steps, Len(episodes[t].steps) + 1)] = action
<1>1. episodes[t].steps \in Seq(Steps)  BY StillLawful
<1>2. Rendered(t, episodes[t]) = Prompt(t, episodes[t].steps, Len(episodes[t].steps) + 1)
  BY <1>1, RenderedIs
<1>3. Rendered(t, episodes[t]) \in DOMAIN policy' /\ policy'[Rendered(t, episodes[t])] = action
  BY AsksGrows
<1> QED  BY <1>2, <1>3

\* The history and a text the policy chose.
LEMMA TextLawful ==
  ASSUME NEW t, Grounds(t), NEW action, Asks(t, episodes[t], action),
         NEW step \in {GarbageStep, StopStep}, action.kind = step.kind
  PROVE  LET s == episodes[t].steps
             z == Append(s, step)
         IN /\ Followed(policy', table', t, z, Len(s) + 1) /\ ~Answered(step)
            /\ step \in Steps /\ step.cost = 0
            /\ Lawful(policy', table', t, z, episodes[t].spent, episodes[t].best)
            /\ \A k \in 1..Len(s) : Open(z, k)
<1> DEFINE s == episodes[t].steps
           z == Append(s, step)
           spent == episodes[t].spent
           best == episodes[t].best
           pol == policy'
           tab == table'
<1>1. /\ Lawful(pol, tab, t, s, spent, best) /\ \A k \in 1..Len(s) : Open(s, k)
      /\ \A key \in DOMAIN tab : tab[key] \in TableRows
      /\ s \in Seq(Steps) /\ spent \in Nat /\ best \in Nat
  BY StillLawful
<1>2. Prompt(t, s, Len(s) + 1) \in DOMAIN pol /\ pol[Prompt(t, s, Len(s) + 1)].kind = step.kind
  BY AsksAt
<1> HIDE DEF s, spent, best, pol, tab
<1>3. /\ Followed(pol, tab, t, z, Len(s) + 1) /\ ~Answered(step)
      /\ step \in Steps /\ step.cost = 0
  BY <1>1, <1>2, FollowsText
<1>4. Lawful(pol, tab, t, z, spent, best)
  <2> DEFINE nil == 0
  <2>1. nil \in Nat /\ nil = IF Answered(step) THEN tab[KeyOf(t, z, Len(s) + 1)].grade ELSE 0
    BY <1>3
  <2>2. spent + step.cost = spent /\ (IF nil > best THEN nil ELSE best) = best
    BY <1>1, <1>3
  <2> HIDE DEF nil
  <2>3. Lawful(pol, tab, t, z, spent + step.cost, IF nil > best THEN nil ELSE best)
    BY <1>1, <1>3, <2>1, LawfulMore
  <2> QED  BY <2>2, <2>3
<1>5. \A k \in 1..Len(s) : Open(z, k)  BY <1>1, <1>3, OpenMore
<1> QED  BY <1>3, <1>4, <1>5 DEF s, spent, best, pol, tab

\* A text that ends the episode: the submission, or the last of too many fumbles.
LEMMA TextEnds ==
  ASSUME NEW t, Grounds(t), NEW action, Asks(t, episodes[t], action),
         NEW step \in {GarbageStep, StopStep}, action.kind = step.kind,
         NEW reason, NEW r, Progress(t, NONE, r, 0),
         r = Result(Append(episodes[t].steps, step), episodes[t].best, episodes[t].spent, reason),
         \/ reason = "stop" /\ step = StopStep
         \/ /\ reason = "parse_failures" /\ step = GarbageStep
            /\ Lost(Append(episodes[t].steps, step), Len(episodes[t].steps) + 1)
  PROVE  Lands(t)
<1> DEFINE s == episodes[t].steps
           z == Append(s, step)
           n == Len(s)
           spent == episodes[t].spent
           best == episodes[t].best
<1>1. /\ Lawful(policy', table', t, z, spent, best) /\ \A k \in 1..n : Open(z, k)
  BY TextLawful
<1>2. s \in Seq(Steps) /\ n \in Nat /\ n + 1 \in 1..MaxSteps  BY StillLawful
<1>3. Len(z) = n + 1 /\ z[n + 1] = step /\ (n + 1) - 1 = n  BY <1>2
<1>4. GarbageStep.kind = "garbage" /\ StopStep.kind = "stop"  BY DEF GarbageStep, StopStep, Step
<1>5. r.steps = z /\ r.score = best /\ r.spent = spent /\ r.reason = reason  BY DEF Result
<1>6. \/ reason = "stop" /\ z[n + 1].kind = "stop"
      \/ reason = "parse_failures" /\ z[n + 1].kind = "garbage" /\ Lost(z, n + 1)
  BY <1>3, <1>4
<1> HIDE DEF z, n, spent, best
<1>7. Len(r.steps) = n + 1  BY <1>3, <1>5
<1>8. Twin(policy', table', t, r)
  BY <1>1, <1>2, <1>3, <1>5, <1>6, <1>7 DEF Twin
<1> QED  BY <1>8 DEF Lands

\* A text that is no action.
LEMMA FumbleLands ==
  ASSUME NEW t, Grounds(t), Fumble(t)
  PROVE  Lands(t)
<1> DEFINE s == episodes[t].steps
           f == episodes[t].fumbles
           z == Append(s, GarbageStep)
<1>1. Deciding(t) /\ Asks(t, episodes[t], Garbage)  BY DEF Fumble, MayAct
<1>2. episodes[t].pending = NONE /\ Trails(s, f) /\ f < ParseLimit
  BY <1>1 DEF Deciding, Grounds, Underway
<1>3. s \in Seq(Steps) /\ f \in Nat  BY StillLawful
<1>4. GarbageStep.kind = "garbage" /\ Garbage.kind = GarbageStep.kind
  BY DEF GarbageStep, Step, Garbage
<1>5. /\ Followed(policy', table', t, z, Len(s) + 1) /\ ~Answered(GarbageStep)
      /\ GarbageStep \in Steps /\ GarbageStep.cost = 0
  BY <1>1, <1>4, TextLawful
<1>6. /\ f + 1 = ParseLimit => Lost(z, Len(s) + 1)
      /\ f + 1 # ParseLimit => Trails(z, f + 1) /\ f + 1 < ParseLimit /\ Open(z, Len(s) + 1)
  <2> HIDE DEF s, f
  <2> QED  BY <1>2, <1>3, <1>4, <1>5, FumbleMore
<1>7. EpisodeTypeOK /\ t \in Tasks  BY DEF Grounds
<1>8. CASE f + 1 # ParseLimit
  <2>1. PICK e, r : Takes(t, e, r, 0, f + 1, GarbageStep, 0, 0)  BY <1>7, <1>8, FumbleProgress
  <2> DEFINE nil == 0
             g == f + 1
             step == GarbageStep
  <2>2. /\ Takes(t, e, r, nil, g, step, nil, step.cost) /\ nil \in Nat /\ step \in Steps
        /\ Followed(policy', table', t, Append(s, step), Len(s) + 1)
        /\ nil = IF Answered(step) THEN table'[KeyOf(t, Append(s, step), Len(s) + 1)].grade ELSE 0
        /\ Trails(Append(s, step), g) /\ g < ParseLimit /\ Open(Append(s, step), Len(s) + 1)
    BY <1>5, <1>6, <1>8, <2>1
  <2> HIDE DEF nil, g, step
  <2> QED  BY <2>2, TakesLands
<1>9. CASE f + 1 = ParseLimit
  <2>1. PICK r : /\ Progress(t, NONE, r, 0)
                 /\ r = Result(z, episodes[t].best, episodes[t].spent, "parse_failures")
    BY <1>7, <1>9, FumbleProgress
  <2> QED  BY <1>1, <1>4, <1>6, <1>9, <2>1, TextEnds
<1> QED  BY <1>8, <1>9

\* The submission.
LEMMA SubmitLands ==
  ASSUME NEW t, Grounds(t), Submit(t)
  PROVE  Lands(t)
<1>1. Asks(t, episodes[t], Stop)  BY DEF Submit
<1>2. Stop.kind = StopStep.kind  BY DEF StopStep, Step, Stop
<1>3. PICK r : /\ Progress(t, NONE, r, 0)
               /\ r = Result(Append(episodes[t].steps, StopStep), episodes[t].best,
                             episodes[t].spent, "stop")
  BY SubmitProgress DEF Grounds
<1> QED  BY <1>1, <1>2, <1>3, TextEnds

\* A delegate that is asked, or asked again, for the draw the policy chose and the table has not.
LEMMA MovesLands ==
  ASSUME NEW t, Grounds(t), NEW e, NEW d, NEW m,
         Moves(t, e, d, 0, <<t, m, Nth(episodes[t].steps, Len(episodes[t].steps) + 1, m)>>),
         <<t, m, Nth(episodes[t].steps, Len(episodes[t].steps) + 1, m)>> \notin DOMAIN table',
         Prompt(t, episodes[t].steps, Len(episodes[t].steps) + 1) \in DOMAIN policy',
         policy'[Prompt(t, episodes[t].steps, Len(episodes[t].steps) + 1)] = Delegate(m)
  PROVE  Lands(t)
<1> DEFINE s == episodes[t].steps
           key == <<t, m, Nth(s, Len(s) + 1, m)>>
<1>1. /\ Lawful(policy', table', t, s, episodes[t].spent, episodes[t].best)
      /\ \A k \in 1..Len(s) : Open(s, k)
  BY StillLawful
<1>2. /\ Progress(t, e, NONE, d) /\ e # NONE
      /\ e.steps = s /\ e.spent = episodes[t].spent /\ e.best = episodes[t].best /\ e.fumbles = 0
      /\ e.pending # NONE /\ e.pending.key = key
  BY DEF Moves
<1>3. key[2] = m /\ key = <<t, key[2], Nth(s, Len(s) + 1, key[2])>>  OBVIOUS
<1>4. key \notin DOMAIN table'  OBVIOUS
<1> HIDE DEF key
<1>5. Underway(policy', table', t, e)  BY <1>1, <1>2, <1>3, <1>4 DEF Underway
<1> QED  BY <1>2, <1>5 DEF Lands

\* A miss.
LEMMA MissLands ==
  ASSUME NEW t, Grounds(t), NEW m \in Models, Miss(t, m)
  PROVE  Lands(t)
<1> DEFINE s == episodes[t].steps
<1>1. EpisodeTypeOK /\ t \in Tasks  BY DEF Grounds
<1>2. /\ Asks(t, episodes[t], Delegate(m)) /\ UNCHANGED table
      /\ <<t, m, Attempt(episodes[t], m)>> \notin DOMAIN table
  BY DEF Miss
<1>3. s \in Seq(Steps)  BY StillLawful
<1>4. Attempt(episodes[t], m) = Nth(s, Len(s) + 1, m)  BY <1>3, RenderedIs
<1>5. PICK e : Moves(t, e, 0, 0, <<t, m, Nth(s, Len(s) + 1, m)>>)  BY <1>1, <1>4, MissProgress
<1>6. /\ Prompt(t, s, Len(s) + 1) \in DOMAIN policy'
      /\ policy'[Prompt(t, s, Len(s) + 1)] = Delegate(m)
  BY <1>2, AsksAt
<1>7. <<t, m, Nth(s, Len(s) + 1, m)>> \notin DOMAIN table'  BY <1>2, <1>4
<1> QED  BY <1>5, <1>6, <1>7, MovesLands

\* What a delegate in flight was asked for.
LEMMA AskedFor ==
  ASSUME NEW t, Grounds(t), Calling(t) \/ InGrading(t)
  PROVE  LET s == episodes[t].steps
             key == episodes[t].pending.key
         IN /\ key[2] \in Models /\ key = <<t, key[2], key[3]>>
            /\ key[3] = Nth(s, Len(s) + 1, key[2])
            /\ key \notin DOMAIN table /\ episodes[t].fumbles = 0
            /\ Prompt(t, s, Len(s) + 1) \in DOMAIN policy'
            /\ policy'[Prompt(t, s, Len(s) + 1)] = Delegate(key[2])
<1> DEFINE s == episodes[t].steps
           key == episodes[t].pending.key
<1>1. episodes[t].pending # NONE /\ key \in Keys
  BY Awaiting DEF Grounds
<1>2. /\ key = <<t, key[2], Nth(s, Len(s) + 1, key[2])>> /\ key \notin DOMAIN table
      /\ episodes[t].fumbles = 0
      /\ Prompt(t, s, Len(s) + 1) \in DOMAIN policy
      /\ policy[Prompt(t, s, Len(s) + 1)] = Delegate(key[2])
  BY <1>1 DEF Grounds, Underway
<1>3. key[2] \in Models  BY <1>1 DEF Keys
<1>4. key[3] = Nth(s, Len(s) + 1, key[2]) /\ key = <<t, key[2], key[3]>>
  <2> DEFINE n == Nth(s, Len(s) + 1, key[2])
             m == key[2]
  <2>1. key = <<t, m, n>>  BY <1>2
  <2>2. \A x, y : x = <<t, y, n>> => x[3] = n  OBVIOUS
  <2> HIDE DEF n, m, key
  <2>3. key[3] = n  BY <2>1, <2>2
  <2> QED  BY <2>1, <2>3 DEF n, m
<1>5. /\ Prompt(t, s, Len(s) + 1) \in DOMAIN policy'
      /\ policy'[Prompt(t, s, Len(s) + 1)] = Delegate(key[2])
  BY <1>2 DEF Grounds, Grew
<1> QED  BY <1>2, <1>3, <1>4, <1>5

\* Its next reply.
LEMMA ReadsLands ==
  ASSUME NEW t, Grounds(t), ReplyReads(t) \/ ReplySubmits(t)
  PROVE  Lands(t)
<1> DEFINE s == episodes[t].steps
           m == episodes[t].pending.key[2]
<1>1. EpisodeTypeOK /\ t \in Tasks  BY DEF Grounds
<1>2. Calling(t) /\ UNCHANGED table  BY DEF ReplyReads, ReplySubmits
<1>3. /\ episodes[t].pending.key = <<t, m, Nth(s, Len(s) + 1, m)>>
      /\ episodes[t].pending.key \notin DOMAIN table' /\ episodes[t].fumbles = 0
      /\ Prompt(t, s, Len(s) + 1) \in DOMAIN policy'
      /\ policy'[Prompt(t, s, Len(s) + 1)] = Delegate(m)
  BY <1>2, AskedFor
<1>4. PICK e : Moves(t, e, 1, episodes[t].fumbles, episodes[t].pending.key)
  BY <1>1, ReadsProgress
<1>5. Moves(t, e, 1, 0, <<t, m, Nth(s, Len(s) + 1, m)>>)  BY <1>3, <1>4
<1> QED  BY <1>3, <1>5, MovesLands

\* A draw's step, which is the table's row or was refused.
LEMMA DrawLands ==
  ASSUME NEW t, Grounds(t), NEW e, NEW r, NEW d, NEW m \in Models, NEW n,
         n = Nth(episodes[t].steps, Len(episodes[t].steps) + 1, m),
         Prompt(t, episodes[t].steps, Len(episodes[t].steps) + 1) \in DOMAIN policy',
         policy'[Prompt(t, episodes[t].steps, Len(episodes[t].steps) + 1)] = Delegate(m),
         NEW step \in Steps, NEW score \in Nat, Takes(t, e, r, d, 0, step, score, step.cost),
         Draws(table', t, m, n, step),
         score = IF Answered(step) THEN table'[<<t, m, n>>].grade ELSE 0
  PROVE  Lands(t)
<1> DEFINE s == episodes[t].steps
           pol == policy'
           tab == table'
           nil == 0
<1>1. s \in Seq(Steps)  BY StillLawful
<1>2. /\ Prompt(t, s, Len(s) + 1) \in DOMAIN pol /\ pol[Prompt(t, s, Len(s) + 1)] = Delegate(m)
      /\ n = Nth(s, Len(s) + 1, m)
  OBVIOUS
<1>3. Draws(tab, t, m, n, step) /\ score = IF Answered(step) THEN tab[<<t, m, n>>].grade ELSE 0
  OBVIOUS
<1>4. step.kind = "delegate"  BY DEF Draws
<1>5. nil \in Nat /\ nil < ParseLimit  BY EpisodeAssumption
<1>6. Trails(Append(s, step), nil) /\ Open(Append(s, step), Len(s) + 1)
  <2> HIDE DEF s
  <2> QED  BY <1>1, <1>4, DelegateMore
<1>7. Takes(t, e, r, d, nil, step, score, step.cost)  OBVIOUS
<1> HIDE DEF pol, tab
<1>8. /\ Followed(pol, tab, t, Append(s, step), Len(s) + 1)
      /\ KeyOf(t, Append(s, step), Len(s) + 1) = <<t, m, n>>
  <2> HIDE DEF s
  <2> QED  BY <1>1, <1>2, <1>3, FollowsDraw
<1>9. score = IF Answered(step) THEN tab[KeyOf(t, Append(s, step), Len(s) + 1)].grade ELSE 0
  BY <1>3, <1>8
<1>10. /\ Followed(policy', table', t, Append(s, step), Len(s) + 1)
       /\ score = IF Answered(step) THEN table'[KeyOf(t, Append(s, step), Len(s) + 1)].grade ELSE 0
  BY <1>8, <1>9 DEF pol, tab
<1> HIDE DEF nil
<1> QED  BY <1>5, <1>6, <1>7, <1>10, TakesLands

\* A hit.
LEMMA HitLands ==
  ASSUME NEW t, Grounds(t), NEW m \in Models, Hit(t, m)
  PROVE  Lands(t)
<1> DEFINE s == episodes[t].steps
           n == Attempt(episodes[t], m)
           row == table[<<t, m, n>>]
<1>1. EpisodeTypeOK /\ t \in Tasks /\ episodes[t] # NONE  BY DEF Grounds
<1>2. UNCHANGED table /\ Asks(t, episodes[t], Delegate(m))  BY DEF Hit
<1>3. s \in Seq(Steps)  BY StillLawful
<1>4. n = Nth(s, Len(s) + 1, m)  BY <1>3, RenderedIs
<1>5. n \in Nat  BY <1>1, AttemptType
<1>6. /\ Prompt(t, s, Len(s) + 1) \in DOMAIN policy'
      /\ policy'[Prompt(t, s, Len(s) + 1)] = Delegate(m)
  BY <1>2, AsksAt
<1>7. /\ <<t, m, n>> \in DOMAIN table
      /\ \/ \E e, r : Takes(t, e, r, row.cost, 0,
                            Step("delegate", m, n, row.grade, row.cost, row.failure), row.grade, row.cost)
         \/ \E e, r : Takes(t, e, r, 0, 0, Step("delegate", m, n, 0, 0, "refused"), 0, 0)
  BY <1>1, HitProgress
<1>8. row \in TableRows /\ table'[<<t, m, n>>] = row /\ <<t, m, n>> \in DOMAIN table'
  BY <1>1, <1>2, <1>7 DEF EpisodeTypeOK
<1>9. row.cost \in Nat /\ row.grade \in Nat /\ row.failure \in {NONE, "worker"} /\ NONE # "refused"
  BY <1>8, EpisodeAssumption DEF TableRows
<1> HIDE DEF n, row, s
<1>10. CASE \E e, r : Takes(t, e, r, row.cost, 0,
                            Step("delegate", m, n, row.grade, row.cost, row.failure), row.grade, row.cost)
  <2> DEFINE step == Step("delegate", m, n, row.grade, row.cost, row.failure)
  <2>1. PICK e, r : Takes(t, e, r, row.cost, 0, step, row.grade, row.cost)  BY <1>10
  <2>2. /\ step \in Steps /\ step.kind = "delegate" /\ step.model = m /\ step.cost = row.cost
        /\ step.failure = row.failure
    BY <1>5, <1>9, StepType
  <2>3. Takes(t, e, r, row.cost, 0, step, row.grade, step.cost)  BY <2>1, <2>2
  <2>4. /\ Draws(table', t, m, n, step)
        /\ row.grade = IF Answered(step) THEN table'[<<t, m, n>>].grade ELSE 0
    BY <1>8, <1>9, <2>2 DEF Draws, Answered
  <2> HIDE DEF step
  <2> QED  BY <1>4, <1>6, <1>9, <2>2, <2>3, <2>4, DrawLands DEF s
<1>11. CASE \E e, r : Takes(t, e, r, 0, 0, Step("delegate", m, n, 0, 0, "refused"), 0, 0)
  <2> DEFINE step == Step("delegate", m, n, 0, 0, "refused")
             nil == 0
  <2>1. PICK e, r : Takes(t, e, r, 0, 0, step, 0, 0)  BY <1>11
  <2>2. /\ step \in Steps /\ step.kind = "delegate" /\ step.model = m /\ step.cost = 0
        /\ step.failure = "refused"
    BY <1>5, StepType
  <2>3. Takes(t, e, r, nil, 0, step, nil, step.cost) /\ nil \in Nat  BY <2>1, <2>2
  <2>4. /\ Draws(table', t, m, n, step)
        /\ nil = IF Answered(step) THEN table'[<<t, m, n>>].grade ELSE 0
    BY <2>2 DEF Draws, Answered
  <2> HIDE DEF step, nil
  <2> QED  BY <1>4, <1>6, <2>2, <2>3, <2>4, DrawLands DEF s
<1> QED  BY <1>7, <1>10, <1>11

\* A delegate that asked the provider: its row is in the table before its step is in the history.
LEMMA CallLands ==
  ASSUME NEW t, Grounds(t), Calling(t) \/ InGrading(t), NEW score \in Nat,
         NEW failure \in {NONE, "refused", "worker"}, NEW e, NEW r,
         Takes(t, e, r, 0, episodes[t].fumbles, DelegateStep(episodes[t].pending, score, failure), score,
               episodes[t].pending.cost),
         failure = "refused" => score = 0,
         failure # "refused" => Put(Row(episodes[t].pending, score, failure))
  PROVE  Lands(t)
<1> DEFINE s == episodes[t].steps
           p == episodes[t].pending
           m == p.key[2]
           n == p.key[3]
           step == DelegateStep(p, score, failure)
<1>1. EpisodeTypeOK /\ t \in Tasks  BY DEF Grounds
<1>2. /\ m \in Models /\ p.key = <<t, m, n>> /\ n = Nth(s, Len(s) + 1, m)
      /\ p.key \notin DOMAIN table /\ episodes[t].fumbles = 0
      /\ Prompt(t, s, Len(s) + 1) \in DOMAIN policy'
      /\ policy'[Prompt(t, s, Len(s) + 1)] = Delegate(m)
  BY AskedFor
<1>3. step \in Steps  BY <1>1, DelegateStepType
<1>4. /\ step = Step("delegate", m, n, score, p.cost, failure)
      /\ step.kind = "delegate" /\ step.model = m /\ step.cost = p.cost /\ step.failure = failure
  BY DEF DelegateStep, Step
<1>5. Takes(t, e, r, 0, 0, step, score, step.cost)  BY <1>2, <1>4
<1>6. ASSUME failure # "refused"
      PROVE  /\ <<t, m, n>> \in DOMAIN table' /\ score = table'[<<t, m, n>>].grade
             /\ p.cost = table'[<<t, m, n>>].cost /\ failure = table'[<<t, m, n>>].failure
  <2> DEFINE row == Row(p, score, failure)
  <2>1. failure \in {NONE, "worker"}  BY <1>6
  <2>2. /\ row \in TableRows /\ row.key = p.key /\ row.grade = score /\ row.cost = p.cost
        /\ row.failure = failure
    BY <1>1, <2>1, RowType
  <2>3. Put(row)  BY <1>6
  <2> HIDE DEF row
  <2>4. DOMAIN table' = DOMAIN table \cup {row.key} /\ table'[row.key] = row
    BY <1>1, <1>2, <2>2, <2>3, PutRow
  <2> QED  BY <1>2, <2>2, <2>4
<1>7. /\ Draws(table', t, m, n, step)
      /\ score = IF Answered(step) THEN table'[<<t, m, n>>].grade ELSE 0
  <2> HIDE DEF step, m, n, p
  <2> QED  BY <1>4, <1>6 DEF Draws, Answered
<1> HIDE DEF step, m, n
<1> QED  BY <1>2, <1>3, <1>5, <1>7, DrawLands

\* The call raised.
LEMMA FailsLands ==
  ASSUME NEW t, Grounds(t), NEW failure \in {"refused", "worker"}, CallFails(t, failure)
  PROVE  Lands(t)
<1>1. EpisodeTypeOK /\ t \in Tasks  BY DEF Grounds
<1>2. Calling(t)  BY DEF CallFails
<1>3. failure # "refused" => Put(Row(episodes[t].pending, 0, failure))
  BY DEF CallFails, Outcome
<1> DEFINE nil == 0
<1>4. PICK e, r : Takes(t, e, r, 0, episodes[t].fumbles,
                        DelegateStep(episodes[t].pending, nil, failure), nil, episodes[t].pending.cost)
  BY <1>1, FailsProgress
<1>5. /\ nil \in Nat /\ nil = 0 /\ failure \in {NONE, "refused", "worker"}
      /\ failure # "refused" => Put(Row(episodes[t].pending, nil, failure))
  BY <1>3
<1> HIDE DEF nil
<1> QED  BY <1>2, <1>4, <1>5, CallLands

\* The answer was graded.
LEMMA GradeLands ==
  ASSUME NEW t, Grounds(t), NEW verdict \in Verdicts, Grade(t, verdict)
  PROVE  Lands(t)
<1> DEFINE score == Worth(verdict)
<1>1. EpisodeTypeOK /\ t \in Tasks  BY DEF Grounds
<1>2. InGrading(t) /\ Put(Row(episodes[t].pending, score, NONE))  BY DEF Grade, Worth
<1>3. /\ score \in Nat
      /\ \E e, r : Takes(t, e, r, 0, episodes[t].fumbles,
                         DelegateStep(episodes[t].pending, score, NONE), score, episodes[t].pending.cost)
  BY <1>1, GradeProgress
<1>4. NONE # "refused"  BY EpisodeAssumption
<1> HIDE DEF score
<1> QED  BY <1>2, <1>3, <1>4, CallLands

\* Every operation of a task leaves its episode where the policy and the table decide it.
LEMMA TaskLands ==
  ASSUME NEW t, Grounds(t), TaskNext(t)
  PROVE  Lands(t)
<1>1. CASE OutOfTime(t) \/ OutOfMoney(t)  BY <1>1, CutLands
<1>2. CASE Fumble(t)  BY <1>2, FumbleLands
<1>3. CASE Submit(t)  BY <1>3, SubmitLands
<1>4. CASE \E m \in Models : Miss(t, m) \/ Hit(t, m)  BY <1>4, MissLands, HitLands
<1>5. CASE ReplyReads(t) \/ ReplySubmits(t)  BY <1>5, ReadsLands
<1>6. CASE \E failure \in {"refused", "worker"} : CallFails(t, failure)  BY <1>6, FailsLands
<1>7. CASE \E verdict \in Verdicts : Grade(t, verdict)  BY <1>7, GradeLands
<1> QED  BY <1>1, <1>2, <1>3, <1>4, <1>5, <1>6, <1>7 DEF TaskNext

\* A finished episode keeps its twins as the table and the policy grow.
LEMMA TwinGrows ==
  ASSUME NEW pol, NEW tab, NEW pol2, NEW tab2, Grew(pol, pol2), Grew(tab, tab2), NEW t, NEW r,
         Twin(pol, tab, t, r)
  PROVE  Twin(pol2, tab2, t, r)
<1>1. Lawful(pol, tab, t, r.steps, r.spent, r.score) => Lawful(pol2, tab2, t, r.steps, r.spent, r.score)
  BY LawfulGrows
<1> QED  BY <1>1 DEF Twin

\* So does one in flight, whose draw nobody else buys.
LEMMA UnderwayGrows ==
  ASSUME NEW pol, NEW tab, NEW pol2, NEW tab2, Grew(pol, pol2), Grew(tab, tab2), NEW t, NEW ep,
         Underway(pol, tab, t, ep), ep.pending # NONE => ep.pending.key \notin DOMAIN tab2
  PROVE  Underway(pol2, tab2, t, ep)
<1>1. Lawful(pol2, tab2, t, ep.steps, ep.spent, ep.best)
  <2>1. Lawful(pol, tab, t, ep.steps, ep.spent, ep.best)  BY DEF Underway
  <2> QED  BY <2>1, LawfulGrows
<1>2. \A x \in DOMAIN pol : x \in DOMAIN pol2 /\ pol2[x] = pol[x]  BY DEF Grew
<1> QED  BY <1>1, <1>2 DEF Underway

\* A task's operation disturbs no other task's delegate.
LEMMA OthersDraws ==
  ASSUME EpisodeTypeOK, TwinsOK, NEW t \in Tasks, TaskNext(t), episodes[t] # NONE,
         NEW u \in Tasks \ {t}, episodes[u] # NONE, episodes[u].pending # NONE
  PROVE  episodes[u].pending.key \notin DOMAIN table'
<1>1. Underway(policy, table, u, episodes[u]) /\ Underway(policy, table, t, episodes[t])
  BY DEF TwinsOK
<1> DEFINE key == episodes[u].pending.key
           mine == episodes[t].pending.key
<1>2. key \notin DOMAIN table  BY <1>1 DEF Underway
<1>3. key[1] = u
  <2>1. key = <<u, key[2], Nth(episodes[u].steps, Len(episodes[u].steps) + 1, key[2])>>
    BY <1>1 DEF Underway
  <2>2. \A x, y, z : x = <<u, y, z>> => x[1] = u  OBVIOUS
  <2> HIDE DEF key
  <2> QED  BY <2>1, <2>2
<1>4. CASE UNCHANGED disk  BY <1>2, <1>4 DEF disk
<1>5. CASE \E row \in TableRows : /\ Calling(t) \/ InGrading(t)
                                  /\ row.key = mine /\ Put(row)
  <2>1. PICK row \in TableRows : /\ Calling(t) \/ InGrading(t)
                                 /\ row.key = mine /\ Put(row)
    BY <1>5
  <2>2. DOMAIN table' = DOMAIN table \cup {mine}  BY <2>1, PutRow
  <2>3. mine[1] = t
    <3>1. mine = <<t, mine[2], Nth(episodes[t].steps, Len(episodes[t].steps) + 1, mine[2])>>
      BY <1>1, <2>1 DEF Underway, Calling, InGrading
    <3>2. \A x, y, z : x = <<t, y, z>> => x[1] = t  OBVIOUS
    <3> HIDE DEF mine
    <3> QED  BY <3>1, <3>2
  <2> HIDE DEF key, mine
  <2>4. key # mine  BY <1>3, <2>3
  <2> QED  BY <1>2, <2>2, <2>4 DEF key
<1> QED  BY <1>4, <1>5, TaskWrites

\* A task's operation leaves every episode, finished or in flight, as the policy and the table decide.
LEMMA TwinsTask ==
  ASSUME EpisodeTypeOK, EpisodeTypeOK', Grew(policy, policy'), Grew(table, table'), TwinsOK,
         NEW t \in Tasks, TaskNext(t)
  PROVE  TwinsOK'
<1>1. episodes[t] # NONE  BY TaskProgress DEF Progress
<1>2. Lands(t)
  <2>1. Grounds(t)  BY <1>1 DEF Grounds, TwinsOK
  <2> QED  BY <2>1, TaskLands
<1>3. PICK e, r, d : /\ Progress(t, e, r, d)
                     /\ e # NONE => Underway(policy', table', t, e)
                     /\ e = NONE => Twin(policy', table', t, r)
  BY <1>2 DEF Lands
<1>4. /\ arm \in Arms /\ episodes' = [episodes EXCEPT ![t] = e]
      /\ \/ e # NONE /\ UNCHANGED results
         \/ e = NONE /\ results' = [results EXCEPT ![arm][t] = r]
  BY <1>3, EpisodeAssumption DEF Progress
<1>5. /\ episodes'[t] = e /\ \A u \in Tasks \ {t} : episodes'[u] = episodes[u]
      /\ \A a \in Arms, u \in Tasks : \/ results'[a][u] = results[a][u]
                                      \/ e = NONE /\ u = t /\ results'[a][u] = r
  <2>1. episodes'[t] = e /\ \A u \in Tasks \ {t} : episodes'[u] = episodes[u]
    BY <1>4 DEF EpisodeTypeOK
  <2>2. CASE UNCHANGED results  BY <2>1, <2>2
  <2>3. CASE e = NONE /\ results' = [results EXCEPT ![arm][t] = r]
    <3>1. ASSUME NEW a \in Arms, NEW u \in Tasks
          PROVE  results'[a][u] = results[a][u] \/ (u = t /\ results'[a][u] = r)
      BY <1>4, <2>3 DEF EpisodeTypeOK
    <3> QED  BY <2>1, <2>3, <3>1
  <2> QED  BY <1>4, <2>2, <2>3
<1>6. ASSUME NEW u \in Tasks, episodes'[u] # NONE
      PROVE  Underway(policy', table', u, episodes'[u])
  <2>1. CASE u = t  BY <1>3, <1>5, <1>6, <2>1
  <2>2. CASE u # t
    <3>1. episodes'[u] = episodes[u] /\ episodes[u] # NONE  BY <1>5, <1>6, <2>2
    <3>2. Underway(policy, table, u, episodes[u])  BY <3>1 DEF TwinsOK
    <3>3. episodes[u].pending # NONE => episodes[u].pending.key \notin DOMAIN table'
      BY <1>1, <2>2, <3>1, OthersDraws
    <3>4. Underway(policy', table', u, episodes[u])  BY <3>2, <3>3, UnderwayGrows
    <3> QED  BY <3>1, <3>4
  <2> QED  BY <2>1, <2>2
<1>7. ASSUME NEW u \in Tasks, NEW a \in Arms, results'[a][u] # NONE
      PROVE  Twin(policy', table', u, results'[a][u])
  <2>1. CASE e = NONE /\ u = t /\ results'[a][u] = r  BY <1>3, <2>1
  <2>2. CASE results'[a][u] = results[a][u]
    <3>1. Twin(policy, table, u, results[a][u])  BY <1>7, <2>2 DEF TwinsOK
    <3>2. Twin(policy', table', u, results[a][u])  BY <3>1, TwinGrows
    <3> QED  BY <2>2, <3>2
  <2> QED  BY <1>5, <2>1, <2>2
<1> QED  BY <1>6, <1>7 DEF TwinsOK

\* An episode without a step is what the policy and the table make of it.
LEMMA FreshUnderway ==
  ASSUME NEW pol, NEW tab, NEW t, NEW allowance \in Int
  PROVE  Underway(pol, tab, t, Fresh(allowance))
<1> DEFINE ep == Fresh(allowance)
           s == ep.steps
<1>1. /\ s = <<>> /\ ep.spent = 0 /\ ep.best = 0 /\ ep.fumbles = 0 /\ ep.pending = NONE
  BY FreshType
<1>2. s \in Seq(Steps) /\ Len(s) = 0 /\ \A k \in 1..Len(s) : FALSE  BY <1>1
<1>3. ParseLimit \in Nat \ {0}  BY EpisodeAssumption
<1> HIDE DEF s, ep
<1>4. Cost(s) = 0
  <2> DEFINE f == [k \in 1..Len(s) |-> s[k].cost]
             S == 1..Len(s)
  <2>1. IsFiniteSet(S) /\ \A k \in S : f[k] = 0  BY <1>2, FS_Interval
  <2>2. Cost(s) = SumFunctionOnSet(f, S)  BY DEF Cost
  <2> HIDE DEF f, S
  <2> QED  BY <2>1, <2>2, SumZero
<1>5. Lawful(pol, tab, t, s, ep.spent, ep.best)  BY <1>1, <1>2, <1>4 DEF Lawful, IsBest
<1>6. Trails(s, ep.fumbles) /\ ep.fumbles < ParseLimit
  <2>1. \A j \in (Len(s) - ep.fumbles + 1)..Len(s) : FALSE  BY <1>1, <1>2
  <2> QED  BY <1>1, <1>2, <1>3, <2>1 DEF Trails
<1>7. Underway(pol, tab, t, ep)
  <2>1. s = ep.steps  BY DEF s
  <2> QED  BY <1>1, <1>2, <1>5, <1>6, <2>1 DEF Underway
<1> QED  BY <1>7 DEF ep

\* No step makes two of what was one.
LEMMA TwinsStep ==
  ASSUME EpisodeTypeOK, StoreOK, TwinsOK, [IntactNext]_episodeVars
  PROVE  TwinsOK'
<1>1. Grew(table, table')  BY StoreStep
<1>2. [EpisodeNext]_episodeVars  BY DEF IntactNext
<1>3. Grew(policy, policy') /\ EpisodeTypeOK'  BY <1>2, PolicyGrows, EpisodeType
<1>4. ASSUME NEW u \in Tasks, NEW a \in Arms, results[a][u] # NONE
      PROVE  Twin(policy', table', u, results[a][u])
  <2>1. Twin(policy, table, u, results[a][u])  BY <1>4 DEF TwinsOK
  <2> QED  BY <1>1, <1>3, <2>1, TwinGrows
<1>5. CASE \E t \in Tasks : TaskNext(t)  BY <1>1, <1>3, <1>5, TwinsTask
<1>6. CASE Dispatch
  <2> DEFINE remaining == Budget - Spend(arm)
             skipped == Left \cap excluded
  <2>1. arm \in Arms  BY <1>6 DEF Dispatch
  <2>2. remaining \in Int
    <3>1. Spend(arm) \in Nat  BY <2>1, SpendType
    <3> QED  BY <3>1, EpisodeAssumption
  <2>3. /\ results' = [results EXCEPT ![arm] =
                       [t \in Tasks |-> IF t \in skipped THEN Result(<<>>, 0, 0, "excluded")
                                        ELSE IF t \in Left /\ remaining <= 0
                                             THEN Result(<<>>, 0, 0, "budget_exhausted")
                                        ELSE results[arm][t]]]
        /\ episodes' = [t \in Tasks |-> IF t \in Left \ skipped /\ remaining > 0
                                        THEN Fresh(remaining) ELSE NONE]
    BY <1>6 DEF Dispatch
  <2> HIDE DEF remaining, skipped
  <2>4. ASSUME NEW u \in Tasks, episodes'[u] # NONE
        PROVE  Underway(policy', table', u, episodes'[u])
    <3>1. episodes'[u] = Fresh(remaining)  BY <2>3, <2>4
    <3>2. Underway(policy', table', u, Fresh(remaining))  BY <2>2, FreshUnderway
    <3> QED  BY <3>1, <3>2
  <2>5. ASSUME NEW u \in Tasks, NEW a \in Arms, results'[a][u] # NONE
        PROVE  Twin(policy', table', u, results'[a][u])
    <3>1. \/ results'[a][u] = results[a][u]
          \/ \E reason \in {"excluded", "budget_exhausted"} :
               results'[a][u] = Result(<<>>, 0, 0, reason)
      BY <2>3 DEF EpisodeTypeOK
    <3>2. CASE results'[a][u] = results[a][u]
      <4>1. Twin(policy', table', u, results[a][u])  BY <1>4, <2>5, <3>2
      <4> QED  BY <3>2, <4>1
    <3>3. CASE \E reason \in {"excluded", "budget_exhausted"} :
                 results'[a][u] = Result(<<>>, 0, 0, reason)
      <4>1. results'[a][u].reason \in {"excluded", "budget_exhausted"}
        BY <3>3 DEF Result
      <4> QED  BY <4>1 DEF Twin
    <3> QED  BY <3>1, <3>2, <3>3
  <2> QED  BY <2>4, <2>5 DEF TwinsOK
<1>7. CASE NextArm \/ UNCHANGED episodeVars
  <2>1. UNCHANGED <<episodes, results, policy, table>>
    BY <1>7 DEF NextArm, episodeVars
  <2> QED  BY <2>1 DEF TwinsOK
<1>8. CASE Die
  <2>1. episodes' = [t \in Tasks |-> NONE] /\ UNCHANGED results  BY <1>8 DEF Die
  <2>2. \A u \in Tasks : episodes'[u] = NONE  BY <2>1
  <2>3. \A u \in Tasks, a \in Arms : results'[a][u] # NONE => Twin(policy', table', u, results'[a][u])
    BY <1>4, <2>1
  <2> QED  BY <2>2, <2>3 DEF TwinsOK
<1> QED  BY <1>2, <1>5, <1>6, <1>7, <1>8 DEF EpisodeNext, Crash, CrashInPut

\* Nobody has run yet.
LEMMA TwinsStart == EpisodeInit => TwinsOK
BY DEF EpisodeInit, TwinsOK

\* Finished episodes that only the policy and the draws decided are twins.
LEMMA TwinsAreOne == EpisodeTypeOK /\ TwinsOK => TwinsTie
<1> SUFFICES ASSUME EpisodeTypeOK, TwinsOK, NEW x \in Arms, NEW y \in Arms, NEW t \in Tasks \ excluded,
                    results[x][t] # NONE, results[y][t] # NONE,
                    Uncut(results[x][t]), Uncut(results[y][t])
             PROVE  results[x][t] = results[y][t]
  BY DEF TwinsTie
<1>1. results[x][t] \in Results /\ results[y][t] \in Results  BY DEF EpisodeTypeOK
<1>2. Twin(policy, table, t, results[x][t]) /\ Twin(policy, table, t, results[y][t])
  BY DEF TwinsOK
<1> DEFINE r == results[x][t]
           q == results[y][t]
<1>3. r \in Results /\ q \in Results /\ Twin(policy, table, t, r) /\ Twin(policy, table, t, q)
      /\ Uncut(r) /\ Uncut(q)
  BY <1>1, <1>2
<1> HIDE DEF r, q
<1>4. r = q  BY ONLY <1>3, SameResults
<1> QED  BY <1>4 DEF r, q

\* Identical policies tie exactly, whichever arm bought the draws and whatever died meanwhile
\* (TwinsTie, of IntactSpec).
THEOREM IntactTwinsTie == IntactSpec => []TwinsTie
<1>1. EpisodeTypeOK /\ StoreOK /\ TwinsOK /\ [IntactNext]_episodeVars
        => (EpisodeTypeOK /\ StoreOK /\ TwinsOK)'
  BY EpisodeType, StoreStep, TwinsStep DEF IntactNext
<1> QED  BY <1>1, TwinsAreOne, EpisodeStart, StoreStart, TwinsStart, PTL DEF IntactSpec

\* ... and with one death at most they always tie.
THEOREM TwinsAlwaysTie == ASSUME MaxDeaths <= 1 PROVE EpisodeSpec => []TwinsTie
<1>1. EpisodeTypeOK /\ [EpisodeNext]_episodeVars => [IntactNext]_episodeVars
  BY OneDeathIsIntact
<1>2. EpisodeTypeOK /\ StoreOK /\ TwinsOK /\ [IntactNext]_episodeVars => StoreOK' /\ TwinsOK'
  BY StoreStep, TwinsStep
<1> QED  BY <1>1, <1>2, TwinsAreOne, EpisodeStart, EpisodeType, StoreStart, TwinsStart, PTL
         DEF EpisodeSpec

\* RowsDiscriminate, for any tests: an admitted R2E-Gym row tells the fix from no fix, the tree after
\* the reference patch has full marks and the tree before it none (r2egym_rows, r2e_score).
THEOREM EveryRowDiscriminates == RowsDiscriminate
<1> SUFFICES ASSUME NEW row \in Rows, R2eRows(row)
             PROVE  LET wanted == R2eFailToPass(row.before, row.expected)
                    IN  /\ R2eScore(row.after, row.expected, wanted) = Cardinality(wanted)
                        /\ R2eScore(row.before, row.expected, wanted) = 0
  BY DEF RowsDiscriminate
<1> DEFINE wanted == R2eFailToPass(row.before, row.expected)
<1>1. row.after = row.expected  BY DEF R2eRows
<1>2. /\ wanted \subseteq DOMAIN row.expected
      /\ \A test \in wanted : row.expected[test] = "PASSED"
      /\ \A test \in wanted : test \in DOMAIN row.before => row.before[test] # "PASSED"
  BY DEF R2eFailToPass
<1>3. R2eScore(row.after, row.expected, wanted) = Cardinality(wanted)
  <2>1. {test \in wanted : row.expected[test] = "PASSED"} = wanted  BY <1>2
  <2> HIDE DEF wanted
  <2> QED  BY <1>1, <2>1 DEF R2eScore
<1>4. R2eScore(row.before, row.expected, wanted) = 0
  <2>1. CASE DOMAIN row.before # DOMAIN row.expected  BY <2>1 DEF R2eScore
  <2>2. CASE DOMAIN row.before = DOMAIN row.expected
    <3>1. {test \in wanted : row.before[test] = "PASSED"} = {}  BY <1>2, <2>2
    <3>2. Cardinality({test \in wanted : row.before[test] = "PASSED"}) = 0  BY <3>1, FS_EmptySet
    <3> HIDE DEF wanted
    <3> QED  BY <3>2 DEF R2eScore
  <2> QED  BY <2>1, <2>2
<1> QED  BY <1>3, <1>4

=============================================================================
