-------------------------------- MODULE Sums --------------------------------
(***************************************************************************)
(* Lemmas about sums over finite sets (SumFunctionOnSet of the community   *)
(* modules), which the proofs about money and tallies rest on.  Each is    *)
(* proved by least counterexample, over the subsets of a finite set in     *)
(* the order of their cardinality.                                         *)
(***************************************************************************)
EXTENDS Integers, Functions, FiniteSetTheorems, WellFoundedInduction, TLAPS

\* The element a fold takes next.
Chosen(s) == CHOOSE x \in s : TRUE

\* The recursion of a sum, up to a number of elements.
SumsTo(g, f, D, n) ==
  \A s \in SUBSET D : Cardinality(s) <= n =>
    g[s] = IF s = {} THEN 0 ELSE f[Chosen(s)] + g[s \ {Chosen(s)}]

\* The recursion of a sum over the subsets of D, as a fact about a function g.
Sums(g, f, D) ==
  \A s \in SUBSET D :
    g[s] = IF s = {} THEN 0
           ELSE f[Chosen(s)] + g[s \ {Chosen(s)}]

\* Taking one element out of a finite set leaves one fewer.
LEMMA OneFewer ==
  ASSUME NEW S, IsFiniteSet(S), NEW x \in S
  PROVE  IsFiniteSet(S \ {x}) /\ Cardinality(S) \in Nat \ {0}
         /\ Cardinality(S \ {x}) = Cardinality(S) - 1
<1>1. S # {} OBVIOUS
<1> QED BY <1>1, FS_RemoveElement, FS_CardinalityType, FS_EmptySet

\* A nonempty set of naturals has a least one.
LEMMA LeastNat ==
  ASSUME NEW N, N \subseteq Nat, N # {}
  PROVE  \E n \in N : \A m \in N : n <= m
<1>1. PICK n \in N : \A m \in N : ~(<<m, n>> \in OpToRel(<, Nat))
  BY NatLessThanWellFounded, WFMin
<1>2. ASSUME NEW m \in N PROVE n <= m
  <2>1. m \in Nat /\ n \in Nat  OBVIOUS
  <2>2. ~(m < n)  BY <1>1, <2>1 DEF OpToRel
  <2> QED  BY <2>1, <2>2
<1> QED  BY <1>2

\* A nonempty set of subsets of a finite set has one with the fewest elements.
LEMMA Fewest ==
  ASSUME NEW D, IsFiniteSet(D), NEW Bad, Bad \subseteq SUBSET D, Bad # {}
  PROVE  \E s \in Bad : \A r \in Bad : Cardinality(s) <= Cardinality(r)
<1> DEFINE N == {Cardinality(s) : s \in Bad}
<1>1. \A s \in Bad : IsFiniteSet(s) /\ Cardinality(s) \in Nat
  BY FS_Subset, FS_CardinalityType
<1>2. N \subseteq Nat /\ N # {}  BY <1>1
<1>3. PICK n \in N : \A m \in N : n <= m  BY <1>2, LeastNat
<1>4. PICK s \in Bad : n = Cardinality(s)  BY <1>3
<1> QED  BY <1>3, <1>4

\* The recursion has a solution up to every number of elements.
LEMMA SumsUpTo ==
  ASSUME NEW D, IsFiniteSet(D), NEW f, NEW n \in Nat
  PROVE  \E g : SumsTo(g, f, D, n)
<1> DEFINE Small(k) == {s \in SUBSET D : Cardinality(s) <= k}
           Solves(g, k) == \A s \in Small(k) :
             g[s] = IF s = {} THEN 0
                    ELSE f[Chosen(s)] + g[s \ {Chosen(s)}]
           Bad == {k \in Nat : ~\E g : Solves(g, k)}
<1>1. \A s \in SUBSET D : IsFiniteSet(s) /\ Cardinality(s) \in Nat
  BY FS_Subset, FS_CardinalityType
<1>2. ASSUME Bad # {} PROVE FALSE
  <2>1. PICK k \in Bad : \A m \in Bad : k <= m
    <3>1. Bad \subseteq Nat  OBVIOUS
    <3> HIDE DEF Bad
    <3> QED  BY <1>2, <3>1, LeastNat
  <2>2. CASE k = 0
    <3> DEFINE g == [s \in SUBSET D |-> 0]
    <3>1. \A s \in Small(0) : s = {} /\ g[s] = 0
      BY <1>1, FS_EmptySet
    <3>2. Solves(g, 0) BY <3>1
    <3> QED BY <3>2, <2>2
  <2>3. CASE k # 0
    <3>1. k - 1 \in Nat /\ k \in Nat BY <2>3
    <3>2. k - 1 \notin Bad
      <4> HIDE DEF Bad
      <4> QED  BY <2>1, <3>1
    <3>3. PICK g : Solves(g, k - 1) BY <3>1, <3>2
    <3> DEFINE h == [s \in SUBSET D |->
                      IF s = {} THEN 0
                      ELSE f[Chosen(s)] + g[s \ {Chosen(s)}]]
    <3>4. ASSUME NEW s \in Small(k), s # {} PROVE h[s \ {Chosen(s)}] = g[s \ {Chosen(s)}]
      <4>1. Chosen(s) \in s  BY <3>4 DEF Chosen
      <4>2. s \ {Chosen(s)} \in Small(k - 1)  BY <4>1, <1>1, <3>1, OneFewer
      <4> QED  BY <4>2, <3>3
    <3>5. Solves(h, k)
      <4> SUFFICES ASSUME NEW s \in Small(k)
                   PROVE h[s] = IF s = {} THEN 0
                    ELSE f[Chosen(s)] + h[s \ {Chosen(s)}]
        OBVIOUS
      <4>1. CASE s = {} BY <4>1
      <4>2. CASE s # {} BY <4>2, <3>4
      <4> QED BY <4>1, <4>2
    <3> QED BY <3>5
  <2> QED BY <2>2, <2>3
<1> HIDE DEF Solves
<1>3. PICK g : Solves(g, n) BY <1>2
<1> QED BY <1>3 DEF Solves, SumsTo

\* What SumFunctionOnSet is, over the subsets of a finite set.
LEMMA SumsExist ==
  ASSUME NEW D, IsFiniteSet(D), NEW f
  PROVE  \E g : Sums(g, f, D) /\ g[D] = SumFunctionOnSet(f, D)
<1> DEFINE It == CHOOSE it : it = [s \in SUBSET D |->
                   IF s = {} THEN 0 ELSE f[Chosen(s)] + it[s \ {Chosen(s)}]]
<1>1. SumFunctionOnSet(f, D) = It[D]
  BY DEF SumFunctionOnSet, FoldFunctionOnSet, MapThenFoldSet, Chosen
<1>2. PICK g : SumsTo(g, f, D, Cardinality(D))
  <2>1. Cardinality(D) \in Nat  BY FS_CardinalityType
  <2> HIDE DEF It
  <2> QED  BY <2>1, SumsUpTo
<1>3. \A s \in SUBSET D : Cardinality(s) <= Cardinality(D)  BY FS_Subset
<1> DEFINE h == [s \in SUBSET D |-> g[s]]
<1>4. h = [s \in SUBSET D |->
                   IF s = {} THEN 0 ELSE f[Chosen(s)] + h[s \ {Chosen(s)}]]
  BY <1>2, <1>3 DEF SumsTo
<1>5. It = [s \in SUBSET D |->
                   IF s = {} THEN 0 ELSE f[Chosen(s)] + It[s \ {Chosen(s)}]]
  BY <1>4
<1> HIDE DEF It
<1>6. Sums(It, f, D) BY <1>5 DEF Sums
<1> QED BY <1>1, <1>6

\* Two solutions agree where both are defined.
LEMMA SumsAgree ==
  ASSUME NEW D, NEW E, NEW f, NEW g, NEW h, Sums(g, f, D), Sums(h, f, E),
         NEW S, IsFiniteSet(S), S \subseteq D, S \subseteq E
  PROVE  g[S] = h[S]
<1> DEFINE Bad == {s \in SUBSET S : g[s] # h[s]}
<1>1. ASSUME Bad # {} PROVE FALSE
  <2>1. PICK s \in Bad : \A r \in Bad : Cardinality(s) <= Cardinality(r)
    <3>1. Bad \subseteq SUBSET S  OBVIOUS
    <3> HIDE DEF Bad
    <3> QED  BY <1>1, <3>1, Fewest
  <2>2. s # {}  BY DEF Sums
  <2>3. Chosen(s) \in s  BY <2>2 DEF Chosen
  <2>4. IsFiniteSet(s)  BY FS_Subset
  <2>5. s \ {Chosen(s)} \notin Bad  BY <2>1, <2>3, <2>4, OneFewer
  <2>6. g[s \ {Chosen(s)}] = h[s \ {Chosen(s)}]  BY <2>5
  <2> QED  BY <2>2, <2>6 DEF Sums
<1> QED  BY <1>1

\* A sum over nothing, and over something: the element taken next and the rest.
LEMMA SumStep ==
  ASSUME NEW S, IsFiniteSet(S), NEW f
  PROVE  /\ S = {} => SumFunctionOnSet(f, S) = 0
         /\ S # {} => /\ Chosen(S) \in S
                      /\ SumFunctionOnSet(f, S)
                           = f[Chosen(S)] + SumFunctionOnSet(f, S \ {Chosen(S)})
<1>1. PICK g : Sums(g, f, S) /\ g[S] = SumFunctionOnSet(f, S)  BY SumsExist
<1>2. CASE S = {}  BY <1>1, <1>2 DEF Sums
<1>3. CASE S # {}
  <2>1. Chosen(S) \in S  BY <1>3 DEF Chosen
  <2> DEFINE T == S \ {Chosen(S)}
  <2>2. IsFiniteSet(T)  BY FS_Subset
  <2>3. PICK h : Sums(h, f, T) /\ h[T] = SumFunctionOnSet(f, T)  BY <2>2, SumsExist
  <2>4. g[T] = h[T]  BY <1>1, <2>2, <2>3, SumsAgree
  <2> QED  BY <1>1, <1>3, <2>1, <2>3, <2>4 DEF Sums
<1> QED  BY <1>2, <1>3

\* A sum of integers is one.
LEMMA SumType ==
  ASSUME NEW S, IsFiniteSet(S), NEW f, \A x \in S : f[x] \in Int
  PROVE  SumFunctionOnSet(f, S) \in Int
<1> DEFINE Bad == {s \in SUBSET S : SumFunctionOnSet(f, s) \notin Int}
<1>1. ASSUME Bad # {} PROVE FALSE
  <2>1. PICK s \in Bad : \A r \in Bad : Cardinality(s) <= Cardinality(r)
    <3>1. Bad \subseteq SUBSET S  OBVIOUS
    <3> HIDE DEF Bad
    <3> QED  BY <1>1, <3>1, Fewest
  <2>2. IsFiniteSet(s)  BY FS_Subset
  <2>3. s # {}  BY <2>2, SumStep
  <2>4. Chosen(s) \in s  BY <2>2, <2>3, SumStep
  <2>5. s \ {Chosen(s)} \notin Bad  BY <2>1, <2>2, <2>4, OneFewer
  <2>6. SumFunctionOnSet(f, s \ {Chosen(s)}) \in Int /\ f[Chosen(s)] \in Int  BY <2>4, <2>5
  <2>7. SumFunctionOnSet(f, s) = f[Chosen(s)] + SumFunctionOnSet(f, s \ {Chosen(s)})
    BY <2>2, <2>3, SumStep
  <2> QED  BY <2>6, <2>7
<1> QED  BY <1>1

\* A sum of naturals is one.
LEMMA SumNat ==
  ASSUME NEW S, IsFiniteSet(S), NEW f, \A x \in S : f[x] \in Nat
  PROVE  SumFunctionOnSet(f, S) \in Nat
<1> DEFINE Bad == {s \in SUBSET S : SumFunctionOnSet(f, s) \notin Nat}
<1>1. ASSUME Bad # {} PROVE FALSE
  <2>1. PICK s \in Bad : \A r \in Bad : Cardinality(s) <= Cardinality(r)
    <3>1. Bad \subseteq SUBSET S  OBVIOUS
    <3> HIDE DEF Bad
    <3> QED  BY <1>1, <3>1, Fewest
  <2>2. IsFiniteSet(s)  BY FS_Subset
  <2>3. s # {}  BY <2>2, SumStep
  <2>4. Chosen(s) \in s  BY <2>2, <2>3, SumStep
  <2>5. s \ {Chosen(s)} \notin Bad  BY <2>1, <2>2, <2>4, OneFewer
  <2>6. SumFunctionOnSet(f, s \ {Chosen(s)}) \in Nat /\ f[Chosen(s)] \in Nat  BY <2>4, <2>5
  <2>7. SumFunctionOnSet(f, s) = f[Chosen(s)] + SumFunctionOnSet(f, s \ {Chosen(s)})
    BY <2>2, <2>3, SumStep
  <2> QED  BY <2>6, <2>7
<1> QED  BY <1>1

\* Any element may be taken out first.
LEMMA SumTake ==
  ASSUME NEW S, IsFiniteSet(S), NEW f, \A x \in S : f[x] \in Int, NEW x \in S
  PROVE  SumFunctionOnSet(f, S) = f[x] + SumFunctionOnSet(f, S \ {x})
<1> DEFINE Sum(s) == SumFunctionOnSet(f, s)
           Bad == {s \in SUBSET S : \E y \in s : Sum(s) # f[y] + Sum(s \ {y})}
<1>0. \A s \in SUBSET S : IsFiniteSet(s) /\ Sum(s) \in Int
  BY FS_Subset, SumType
<1>a. \A s \in SUBSET S : s # {} => Chosen(s) \in s /\ Sum(s) = f[Chosen(s)] + Sum(s \ {Chosen(s)})
  BY <1>0, SumStep
<1> HIDE DEF Sum
<1>1. ASSUME Bad # {} PROVE FALSE
  <2>1. PICK s \in Bad : \A r \in Bad : Cardinality(s) <= Cardinality(r)
    <3>1. Bad \subseteq SUBSET S  OBVIOUS
    <3> HIDE DEF Bad
    <3> QED  BY <1>1, <3>1, Fewest
  <2>2. PICK y \in s : Sum(s) # f[y] + Sum(s \ {y})  OBVIOUS
  <2> DEFINE c == Chosen(s)
  <2>3. c \in s /\ Sum(s) = f[c] + Sum(s \ {c})  BY <1>a
  <2> HIDE DEF c
  <2>4. c # y  BY <2>2, <2>3
  <2>5. s \ {c} \notin Bad /\ s \ {y} \notin Bad
    <3>1. ASSUME NEW z \in s PROVE s \ {z} \notin Bad
      <4>1. IsFiniteSet(s)  BY <1>0
      <4>2. Cardinality(s) \in Nat /\ Cardinality(s \ {z}) = Cardinality(s) - 1  BY <4>1, OneFewer
      <4> HIDE DEF Bad
      <4> QED  BY <2>1, <4>2
    <3> QED  BY <2>2, <2>3, <3>1
  <2>6. Sum(s \ {c}) = f[y] + Sum((s \ {c}) \ {y})  BY <2>3, <2>4, <2>5
  <2>7. Sum(s \ {y}) = f[c] + Sum((s \ {y}) \ {c})  BY <2>3, <2>4, <2>5
  <2>8. Sum((s \ {c}) \ {y}) = Sum((s \ {y}) \ {c})
    <3>1. (s \ {c}) \ {y} = (s \ {y}) \ {c}  OBVIOUS
    <3> QED  BY <3>1
  <2>9. /\ f[c] \in Int /\ f[y] \in Int
        /\ Sum((s \ {y}) \ {c}) \in Int
    BY <1>0, <2>2, <2>3
  <2> HIDE DEF Bad
  <2> QED  BY <2>2, <2>3, <2>6, <2>7, <2>8, <2>9
<1>2. Sum(S) = f[x] + Sum(S \ {x})  BY <1>1
<1> QED  BY <1>2 DEF Sum

\* A sum in which no summand is more is no more.
LEMMA SumMonotone ==
  ASSUME NEW S, IsFiniteSet(S), NEW f, NEW g,
         \A x \in S : f[x] \in Int /\ g[x] \in Int /\ f[x] <= g[x]
  PROVE  SumFunctionOnSet(f, S) <= SumFunctionOnSet(g, S)
<1> DEFINE Bad == {s \in SUBSET S : ~(SumFunctionOnSet(f, s) <= SumFunctionOnSet(g, s))}
<1>1. ASSUME Bad # {} PROVE FALSE
  <2>1. PICK s \in Bad : \A r \in Bad : Cardinality(s) <= Cardinality(r)
    <3>1. Bad \subseteq SUBSET S  OBVIOUS
    <3> HIDE DEF Bad
    <3> QED  BY <1>1, <3>1, Fewest
  <2>2. IsFiniteSet(s)  BY FS_Subset
  <2>3. s # {}
    <3>1. s = {} => SumFunctionOnSet(f, s) = 0 /\ SumFunctionOnSet(g, s) = 0  BY <2>2, SumStep
    <3> QED  BY <3>1
  <2> DEFINE t == s \ {Chosen(s)}
  <2>4. /\ Chosen(s) \in s
        /\ SumFunctionOnSet(f, s) = f[Chosen(s)] + SumFunctionOnSet(f, t)
        /\ SumFunctionOnSet(g, s) = g[Chosen(s)] + SumFunctionOnSet(g, t)
    BY <2>2, <2>3, SumStep
  <2>5. t \notin Bad /\ IsFiniteSet(t)  BY <2>1, <2>2, <2>4, OneFewer
  <2>6. SumFunctionOnSet(f, t) <= SumFunctionOnSet(g, t)  BY <2>5
  <2>7. SumFunctionOnSet(f, t) \in Int /\ SumFunctionOnSet(g, t) \in Int  BY <2>5, SumType
  <2>8. ~(SumFunctionOnSet(f, s) <= SumFunctionOnSet(g, s))  OBVIOUS
  <2>9. f[Chosen(s)] \in Int /\ g[Chosen(s)] \in Int /\ f[Chosen(s)] <= g[Chosen(s)]  BY <2>4
  <2> HIDE DEF Bad, t
  <2> QED  BY <2>4, <2>6, <2>7, <2>8, <2>9
<1> QED  BY <1>1

\* A sum of differences.
LEMMA SumMinus ==
  ASSUME NEW S, IsFiniteSet(S), NEW f, NEW g, NEW h,
         \A x \in S : f[x] \in Int /\ g[x] \in Int /\ h[x] = f[x] - g[x]
  PROVE  SumFunctionOnSet(h, S) = SumFunctionOnSet(f, S) - SumFunctionOnSet(g, S)
<1> DEFINE Bad == {s \in SUBSET S : SumFunctionOnSet(h, s)
                                      # SumFunctionOnSet(f, s) - SumFunctionOnSet(g, s)}
<1>1. ASSUME Bad # {} PROVE FALSE
  <2>1. PICK s \in Bad : \A r \in Bad : Cardinality(s) <= Cardinality(r)
    <3>1. Bad \subseteq SUBSET S  OBVIOUS
    <3> HIDE DEF Bad
    <3> QED  BY <1>1, <3>1, Fewest
  <2>2. IsFiniteSet(s)  BY FS_Subset
  <2>3. s # {}
    <3>1. s = {} => /\ SumFunctionOnSet(f, s) = 0 /\ SumFunctionOnSet(g, s) = 0
                    /\ SumFunctionOnSet(h, s) = 0  BY <2>2, SumStep
    <3> QED  BY <3>1
  <2> DEFINE t == s \ {Chosen(s)}
  <2>4. /\ Chosen(s) \in s
        /\ SumFunctionOnSet(f, s) = f[Chosen(s)] + SumFunctionOnSet(f, t)
        /\ SumFunctionOnSet(g, s) = g[Chosen(s)] + SumFunctionOnSet(g, t)
        /\ SumFunctionOnSet(h, s) = h[Chosen(s)] + SumFunctionOnSet(h, t)
    BY <2>2, <2>3, SumStep
  <2>5. t \notin Bad /\ IsFiniteSet(t) /\ t \in SUBSET S
    <3>1. /\ IsFiniteSet(t) /\ t \in SUBSET S
          /\ Cardinality(s) \in Nat /\ Cardinality(t) = Cardinality(s) - 1
      BY <2>2, <2>4, OneFewer
    <3> HIDE DEF Bad, t
    <3> QED  BY <2>1, <3>1
  <2>6. SumFunctionOnSet(h, t) = SumFunctionOnSet(f, t) - SumFunctionOnSet(g, t)  BY <2>5
  <2>7. SumFunctionOnSet(f, t) \in Int /\ SumFunctionOnSet(g, t) \in Int  BY <2>5, SumType
  <2>8. SumFunctionOnSet(h, s) # SumFunctionOnSet(f, s) - SumFunctionOnSet(g, s)  OBVIOUS
  <2>9. /\ f[Chosen(s)] \in Int /\ g[Chosen(s)] \in Int
        /\ h[Chosen(s)] = f[Chosen(s)] - g[Chosen(s)]  BY <2>4
  <2> HIDE DEF Bad, t
  <2> QED  BY <2>4, <2>6, <2>7, <2>8, <2>9
<1> QED  BY <1>1

\* A sum is that of its summands.
LEMMA SumSame ==
  ASSUME NEW S, IsFiniteSet(S), NEW f, NEW g, \A x \in S : f[x] \in Int /\ f[x] = g[x]
  PROVE  SumFunctionOnSet(f, S) = SumFunctionOnSet(g, S)
<1>1. SumFunctionOnSet(f, S) <= SumFunctionOnSet(g, S)  BY SumMonotone
<1>2. SumFunctionOnSet(g, S) <= SumFunctionOnSet(f, S)  BY SumMonotone
<1>3. SumFunctionOnSet(f, S) \in Int /\ SumFunctionOnSet(g, S) \in Int  BY SumType
<1> QED  BY <1>1, <1>2, <1>3

\* A sum over a set is that over a part of it and that over the rest.
LEMMA SumSplit ==
  ASSUME NEW S, IsFiniteSet(S), NEW f, \A x \in S : f[x] \in Int, NEW T, T \subseteq S
  PROVE  SumFunctionOnSet(f, S) = SumFunctionOnSet(f, T) + SumFunctionOnSet(f, S \ T)
<1> DEFINE Sum(s) == SumFunctionOnSet(f, s)
           Bad == {s \in SUBSET T : Sum(S) # Sum(s) + Sum(S \ s)}
<1>0. \A s \in SUBSET S : IsFiniteSet(s) /\ Sum(s) \in Int /\ (s = {} => Sum(s) = 0)
  BY FS_Subset, SumType, SumStep
<1>a. ASSUME NEW s \in SUBSET S, NEW x \in s PROVE Sum(s) = f[x] + Sum(s \ {x})
  <2>1. IsFiniteSet(s)  BY <1>0
  <2> QED  BY <2>1, SumTake
<1> HIDE DEF Sum
<1>1. ASSUME Bad # {} PROVE FALSE
  <2>1. PICK s \in Bad : \A r \in Bad : Cardinality(s) <= Cardinality(r)
    <3>1. Bad \subseteq SUBSET T /\ IsFiniteSet(T)  BY <1>0
    <3> HIDE DEF Bad
    <3> QED  BY <1>1, <3>1, Fewest
  <2>2. CASE s = {}
    <3>1. S \ s = S  BY <2>2
    <3> QED  BY <1>0, <2>2, <3>1
  <2>3. CASE s # {}
    <3>1. PICK x \in s : TRUE  BY <2>3
    <3>2. s \ {x} \notin Bad  BY <1>0, <2>1, <3>1, OneFewer
    <3>3. Sum(S) = Sum(s \ {x}) + Sum(S \ (s \ {x}))  BY <3>2
    <3>4. Sum(s) = f[x] + Sum(s \ {x})  BY <1>a, <3>1
    <3>5. S \ (s \ {x}) \in SUBSET S /\ x \in S \ (s \ {x}) /\ (S \ (s \ {x})) \ {x} = S \ s
      BY <3>1
    <3>6. Sum(S \ (s \ {x})) = f[x] + Sum(S \ s)  BY <1>a, <3>5
    <3>7. /\ Sum(s \ {x}) \in Int /\ Sum(S \ s) \in Int /\ f[x] \in Int
      BY <1>0, <3>1
    <3>8. Sum(S) # Sum(s) + Sum(S \ s)  OBVIOUS
    <3> HIDE DEF Bad
    <3> QED  BY <3>3, <3>4, <3>6, <3>7, <3>8
  <2> QED  BY <2>2, <2>3
<1>2. T \notin Bad  BY <1>1
<1> QED  BY <1>2 DEF Sum

\* One element more.
LEMMA SumAdd ==
  ASSUME NEW S, IsFiniteSet(S), NEW x, x \notin S, NEW f, NEW g, f[x] \in Int,
         \A y \in S : f[y] \in Int /\ f[y] = g[y]
  PROVE  SumFunctionOnSet(f, S \cup {x}) = f[x] + SumFunctionOnSet(g, S)
<1>1. IsFiniteSet(S \cup {x}) /\ x \in S \cup {x} /\ (S \cup {x}) \ {x} = S  BY FS_AddElement
<1>2. SumFunctionOnSet(f, S \cup {x}) = f[x] + SumFunctionOnSet(f, (S \cup {x}) \ {x})
  BY <1>1, SumTake
<1>3. SumFunctionOnSet(f, S) = SumFunctionOnSet(g, S)  BY SumSame
<1> QED  BY <1>1, <1>2, <1>3

\* One element changed.
LEMMA SumChange ==
  ASSUME NEW S, IsFiniteSet(S), NEW x \in S, NEW f, NEW g,
         \A y \in S : f[y] \in Int /\ g[y] \in Int, \A y \in S \ {x} : f[y] = g[y]
  PROVE  SumFunctionOnSet(g, S) = SumFunctionOnSet(f, S) + g[x] - f[x]
<1>1. SumFunctionOnSet(f, S) = f[x] + SumFunctionOnSet(f, S \ {x})  BY SumTake
<1>2. SumFunctionOnSet(g, S) = g[x] + SumFunctionOnSet(g, S \ {x})  BY SumTake
<1>3. IsFiniteSet(S \ {x})  BY FS_Subset
<1>4. SumFunctionOnSet(f, S \ {x}) = SumFunctionOnSet(g, S \ {x})  BY <1>3, SumSame
<1>5. SumFunctionOnSet(f, S \ {x}) \in Int /\ f[x] \in Int /\ g[x] \in Int  BY <1>3, SumType
<1> QED  BY <1>1, <1>2, <1>4, <1>5

\* Nothing, any number of times.
LEMMA SumZero ==
  ASSUME NEW S, IsFiniteSet(S), NEW f, \A x \in S : f[x] = 0
  PROVE  SumFunctionOnSet(f, S) = 0
<1> DEFINE Bad == {s \in SUBSET S : SumFunctionOnSet(f, s) # 0}
<1>1. ASSUME Bad # {} PROVE FALSE
  <2>1. PICK s \in Bad : \A r \in Bad : Cardinality(s) <= Cardinality(r)
    <3>1. Bad \subseteq SUBSET S  OBVIOUS
    <3> HIDE DEF Bad
    <3> QED  BY <1>1, <3>1, Fewest
  <2>2. IsFiniteSet(s)  BY FS_Subset
  <2>3. s # {}  BY <2>2, SumStep
  <2>4. Chosen(s) \in s  BY <2>2, <2>3, SumStep
  <2>5. s \ {Chosen(s)} \notin Bad  BY <2>1, <2>2, <2>4, OneFewer
  <2>6. SumFunctionOnSet(f, s \ {Chosen(s)}) = 0 /\ f[Chosen(s)] = 0  BY <2>4, <2>5
  <2>7. SumFunctionOnSet(f, s) = f[Chosen(s)] + SumFunctionOnSet(f, s \ {Chosen(s)})
    BY <2>2, <2>3, SumStep
  <2> QED  BY <2>6, <2>7
<1> QED  BY <1>1

=============================================================================
