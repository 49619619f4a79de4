----------------------------- MODULE Emissions -----------------------------
(***************************************************************************)
(* The emission schedule (v3/emissions.py): who is paid, in hundredths, at *)
(* which uid, for a lineage of coronations, a king and a metagraph.        *)
(***************************************************************************)
EXTENDS Integers, SequencesExt, None

CONSTANTS KING0,       \* the best fixed policy; resolves to no uid
          NOBODY       \* the holder of a free uid

KingShare == 85
PensionShares == <<5, 4, 3, 2, 1>>
Whole == 100

\* Resolution is the verification: a hotkey is paid where the chain says it is.
UidsOf(hotkeyOf, h) == {u \in DOMAIN hotkeyOf : hotkeyOf[u] = h}
Resolves(hotkeyOf, h) == UidsOf(hotkeyOf, h) # {}

\* Lineage.pensioners: most recent first, the reigning king and repeats dropped
\* before the cut.
Pensioners(coronations, king) ==
  LET next(h, list) ==
        IF h = king \/ Contains(list, h) \/ Len(list) = Len(PensionShares)
          THEN list ELSE Append(list, h)
  IN  FoldRight(next, coronations, <<>>)

\* emission_weights: the share of each uid.  A slot nobody resolves to is not
\* passed on: it stays in the complement, which burns.
EmissionWeights(coronations, king, hotkeyOf, burnUid, kingZeroUid) ==
  LET pensioners == Pensioners(coronations, king)
      earned(u) ==
        IF hotkeyOf[u] = king /\ king # KING0 THEN KingShare
        ELSE IF Contains(pensioners, hotkeyOf[u])
               THEN PensionShares[SelectInSeq(pensioners, LAMBDA h : h = hotkeyOf[u])]
               ELSE 0
      genesis(u) == IF king = KING0 /\ u = kingZeroUid THEN KingShare ELSE 0
      paid == [u \in DOMAIN hotkeyOf |-> earned(u) + genesis(u)]
      burn == Whole - FoldFunction(+, 0, paid)
  IN  [paid EXCEPT ![burnUid] = @ + burn]

\* A lineage by its definition: a pensioner's rank is the number of other hotkeys, the king's aside,
\* crowned after it was last crowned; its share goes with the rank to wherever the chain says it is,
\* nobody moves up for a rank that does not resolve, and what nobody earned is burnt.
LastCrowned(coronations, h) == SelectLastInSeq(coronations, LAMBDA x : x = h)
Rank(coronations, king, h) ==
  Cardinality({x \in ToSet(coronations) \ {king, h} : LastCrowned(coronations, x) > LastCrowned(coronations, h)})
ShareOf(coronations, king, h) ==
  IF h = king THEN KingShare
  ELSE IF h \in ToSet(coronations) /\ Rank(coronations, king, h) < Len(PensionShares)
       THEN PensionShares[Rank(coronations, king, h) + 1] ELSE 0

Lineages ==
  UNION {[1..n -> 1..3] : n \in 0..4}
    \cup {[i \in 1..n |-> 1 + ((i * k) % 7)] : n \in 6..8, k \in 1..3}
RankGoesByTheLastCoronation ==
  \A coronations \in Lineages : \A king \in ToSet(coronations) \cup {KING0}, gone \in 0..7, zero \in {NONE, 0, 1} :
    LET hotkeyOf == [u \in 0..7 |-> IF u \in {0, gone} THEN NOBODY ELSE u]
        slate == EmissionWeights(coronations, king, hotkeyOf, 0, zero)
        kingZero(u) == IF king = KING0 /\ u = zero THEN KingShare ELSE 0
    IN  /\ \A u \in 1..7 :
             slate[u] = kingZero(u) + IF u = gone THEN 0 ELSE ShareOf(coronations, king, u)
        /\ FoldFunction(+, 0, slate) = Whole
        /\ slate[0] >= kingZero(0)
ASSUME RankGoesByTheLastCoronationChecked == RankGoesByTheLastCoronation

=============================================================================
