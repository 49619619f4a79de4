------------------------------ MODULE Admission ------------------------------
(***************************************************************************)
(* Whether a fetched tree is the pinned architecture: admission.admit.     *)
(* Two checks read names only, the others open files in a fixed order, and *)
(* the first one that fails is the reason the miner is given.  A pure      *)
(* function of the tree and the reference, and of whether the disk reads;  *)
(* Queue's entries fail at the admission stage for it.                     *)
(***************************************************************************)
EXTENDS Integers, Sequences, FiniteSets, SequencesExt

CONSTANT NONE

-----------------------------------------------------------------------------
(* config.json: a block of fields at the top, one for the text tower inside it, and one for the    *)
(* rotary embedding inside that.  A field a block does not have is NONE; so is a missing block.    *)

ArchitecturalFields == {"model_type", "rope_theta"}
OuterOnly == {"model_type"}
Fields == [ArchitecturalFields -> {1, 2, NONE}]
Configs == [top : Fields, text : Fields \cup {NONE}, rope : Fields \cup {NONE}]
Blocks(config) ==
  {"top"} \cup (IF config.text = NONE THEN {}
               ELSE {"text"} \cup (IF config.rope = NONE THEN {} ELSE {"rope"}))

\* Each field where it stands: a field that moved to another block has moved.
Architectural(config) ==
  {place \in Blocks(config) \X ArchitecturalFields :
     /\ place[2] \in OuterOnly => place[1] = "top"
     /\ config[place[1]][place[2]] # NONE}
SameArchitecture(config, reference) ==
  /\ Architectural(config) = Architectural(reference)
  /\ \A place \in Architectural(config) :
       config[place[1]][place[2]] = reference[place[1]][place[2]]

\* What transformers builds: the tower from its own block if there is one, the innermost copy of a
\* field, and its default for a field that block does not have.
Built(config, field) ==
  LET tower == IF config.text = NONE THEN config.top ELSE config.text
  IN  IF field \in OuterOnly THEN config.top[field]
      ELSE IF "rope" \in Blocks(config) /\ config.rope[field] # NONE THEN config.rope[field]
      ELSE tower[field]

\* The pinned reference keeps its text tower in a block of its own.
Nested(config) == \E place \in Architectural(config) : place[1] = "text"

\* An admitted config builds the pinned model in every field, wherever it spells them.
AdmittedBuildsThePinned ==
  \A reference \in {c \in Configs : Nested(c) /\ c.top.model_type = 1}, config \in Configs :
    SameArchitecture(config, reference) =>
      \A field \in ArchitecturalFields : Built(config, field) = Built(reference, field)
ASSUME AdmittedBuildsThePinnedChecked == AdmittedBuildsThePinned

-----------------------------------------------------------------------------
(* The tree.  names: the refused kinds of file it carries.  file: whether config.json is there and *)
(* parses to an object within the parser's limits.  asks: whether it asks for code anywhere.       *)
(* shards: per weight file the tensors its header names, each with its shape and dtype.            *)

Described(tree) == [config |-> tree.config, tensors |-> UNION ToSet(tree.shards), tokenizer |-> tree.tokenizer]
Ambiguous(shards) ==
  \E i, j \in DOMAIN shards : i < j /\ {t[1] : t \in shards[i]} \cap {t[1] : t \in shards[j]} # {}

NamesOnly == <<"pickle", "code">>
Opening == <<"no config", "unparsed", "asks for code", "architecture", "no weights", "malformed",
             "duplicate tensor", "tensors", "tokenizer">>
Wrong(check, tree, reference) ==
  CASE check \in {"pickle", "code"} -> check \in tree.names
    [] check = "no config" -> tree.file = "missing"
    [] check = "unparsed" -> tree.file = "garbled"
    [] check = "asks for code" -> tree.asks
    [] check = "architecture" -> ~SameArchitecture(tree.config, reference.config)
    [] check = "no weights" -> tree.shards = <<>>
    [] check = "malformed" -> tree.malformed
    [] check = "duplicate tensor" -> Ambiguous(tree.shards)
    [] check = "tensors" -> UNION ToSet(tree.shards) # reference.tensors
    [] check = "tokenizer" -> tree.tokenizer # reference.tokenizer
Reason(checks, tree, reference) ==
  LET first(found, check) ==
        IF found # NONE THEN found ELSE IF Wrong(check, tree, reference) THEN check ELSE NONE
  IN  FoldLeft(first, NONE, checks)

\* admit: a disk that does not read is the owner's, and raises as itself.
AdmitTree(tree, reference, readable) ==
  LET refusal == Reason(IF readable THEN NamesOnly \o Opening ELSE NamesOnly, tree, reference)
  IN  IF refusal # NONE THEN refusal ELSE IF readable THEN "admitted" ELSE "OSError"

Reference == [top |-> [model_type |-> 1, rope_theta |-> NONE],
              text |-> [model_type |-> 2, rope_theta |-> 1], rope |-> NONE]
Hoisted == [Reference EXCEPT !.top.rope_theta = 1, !.text.rope_theta = NONE]
Trees ==
  [names : SUBSET {"pickle", "code"}, file : {"object", "missing", "garbled"},
   config : {Reference, Hoisted}, asks : BOOLEAN, malformed : BOOLEAN,
   shards : {<<>>, <<{<<"w", 1>>}>>, <<{<<"w", 1>>}, {<<"w", 1>>}>>, <<{<<"w", 1>>}, {<<"w", 2>>}>>, <<{<<"w", 1>>}, {<<"v", 1>>}>>,
             <<{<<"w", 2>>}>>},
   tokenizer : {1, 2}]

\* The model the checks are defined against passes them; a tree passes that is described as the
\* reference is, and no other; and the owner's disk refuses nobody.
Sound(tree) ==
  /\ tree.names = {} /\ ~tree.asks /\ tree.file = "object" /\ ~tree.malformed
  /\ tree.shards # <<>> /\ ~Ambiguous(tree.shards)
ChecksDefineTheReference ==
  \A pinned \in {t \in Trees : Sound(t)}, tree \in Trees :
    LET reference == Described(pinned)
        verdict == AdmitTree(tree, reference, TRUE)
    IN  /\ verdict = "admitted" <=> Sound(tree) /\ Described(tree) = reference
        /\ AdmitTree(tree, reference, FALSE) \in {"OSError", verdict}
ASSUME ChecksDefineTheReferenceChecked == ChecksDefineTheReference
=============================================================================
