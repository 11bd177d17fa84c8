---------------------------- MODULE Totals_proofs ----------------------------
(***************************************************************************)
(* Facts about totals that the proofs about balances need.  A total is      *)
(* defined by recursion over the subsets of its set, and each fact is       *)
(* proved by induction over them.  An induction theorem over a predicate    *)
(* cannot be used here, so a set of subsets stands in for the predicate,    *)
(* and that strict inclusion is well-founded for the theorem.               *)
(***************************************************************************)
EXTENDS Totals, FiniteSetTheorems, TLAPS

(* The element with which the sum over s begins *)
First(s) == CHOOSE x \in s : TRUE

Sums(g, amount, S) ==
    g = [s \in SUBSET S |-> IF s = {} THEN 0 ELSE amount[First(s)] + g[s \ {First(s)}]]

LEMMA FirstIn ==
    ASSUME NEW s, s # {}
    PROVE  First(s) \in s
BY DEF First

(* A set of subsets that has each subset all of whose smaller subsets it has  *)
(* has them all.                                                             *)
LEMMA SubsetInduction ==
    ASSUME NEW S, IsFiniteSet(S), NEW Good,
           \A s \in SUBSET S : (\A t \in SUBSET s : t # s => t \in Good) => s \in Good
    PROVE  SUBSET S \subseteq Good
<1> DEFINE Bad == (SUBSET S) \ Good
<1> SUFFICES ASSUME Bad # {} PROVE FALSE
  OBVIOUS
<1>1. IsWellFoundedOn(StrictSubsetOrdering(S), SUBSET S)
  <2>1. FiniteSubsetsOf(S) = SUBSET S
    BY FS_FiniteSubsetsOfFinite
  <2>2. IsWellFoundedOn(StrictSubsetOrdering(S), FiniteSubsetsOf(S))
    BY FS_StrictSubsetOrderingWellFounded
  <2> QED
    BY <2>1, <2>2, Zenon
<1>2. PICK s \in Bad : \A t \in Bad : <<t, s>> \notin StrictSubsetOrdering(S)
  <2> HIDE DEF Bad
  <2>1. Bad \subseteq SUBSET S
    BY DEF Bad
  <2> QED
    BY <1>1, <2>1, WFMin
<1>3. \A t \in SUBSET s : t # s => t \in Good
  BY <1>2 DEF StrictSubsetOrdering
<1> QED
  BY <1>2, <1>3

LEMMA TotalIsSum ==
    ASSUME NEW amount, NEW S
    PROVE  Total(amount, S) = (CHOOSE g : Sums(g, amount, S))[S]
BY DEF Total, MapThenSumSet, MapThenFoldSet, Sums, First

(* The equation of a sum *)
LEMMA SumsAt ==
    ASSUME NEW g, NEW amount, NEW S, Sums(g, amount, S), NEW s \in SUBSET S
    PROVE  /\ s = {} => g[s] = 0
           /\ s # {} => g[s] = amount[First(s)] + g[s \ {First(s)}]
BY DEF Sums

(* There is one such function at most, ...                                    *)
LEMMA SumsAgree ==
    ASSUME NEW S, IsFiniteSet(S), NEW amount, NEW T \in SUBSET S,
           NEW g, NEW h, Sums(g, amount, S), Sums(h, amount, T)
    PROVE  \A s \in SUBSET T : g[s] = h[s]
<1> DEFINE Good == {s \in SUBSET T : g[s] = h[s]}
<1>1. ASSUME NEW s \in SUBSET T, \A t \in SUBSET s : t # s => t \in Good
      PROVE  s \in Good
  <2>1. CASE s = {}
    BY <2>1, SumsAt
  <2>2. CASE s # {}
    <3> DEFINE t == s \ {First(s)}
    <3>1. t \in SUBSET s /\ t # s
      BY <2>2, FirstIn
    <3>2. g[t] = h[t]
      BY <1>1, <3>1
    <3>3. g[s] = amount[First(s)] + g[t] /\ h[s] = amount[First(s)] + h[t]
      BY <2>2, SumsAt
    <3> QED
      BY <3>2, <3>3
  <2> QED
    BY <2>1, <2>2
<1>2. IsFiniteSet(T)
  BY FS_Subset
<1> HIDE DEF Good
<1>3. SUBSET T \subseteq Good
  BY <1>1, <1>2, SubsetInduction
<1> QED
  BY <1>3 DEF Good

(* ... and over a finite set there is one.                                    *)
LEMMA SumsExist ==
    ASSUME NEW S, IsFiniteSet(S), NEW amount
    PROVE  \E g : Sums(g, amount, S)
<1> DEFINE Good == {T \in SUBSET S : \E g : Sums(g, amount, T)}
           Of(T) == CHOOSE g : Sums(g, amount, T)
<1>1. ASSUME NEW T \in SUBSET S, \A t \in SUBSET T : t # T => t \in Good
      PROVE  T \in Good
  <2> DEFINE at(s) == Of(s)[s]
             rest(s) == s \ {First(s)}
             g == [s \in SUBSET T |-> IF s = {} THEN 0 ELSE amount[First(s)] + at(rest(s))]
  <2>1. \A t \in SUBSET T : t # T => Sums(Of(t), amount, t)
    BY <1>1
  <2>2. \A s \in SUBSET T : s # T => g[s] = at(s)
    <3> SUFFICES ASSUME NEW s \in SUBSET T, s # T PROVE g[s] = at(s)
      OBVIOUS
    <3>1. CASE s = {}
      BY <2>1, <3>1, SumsAt
    <3>2. CASE s # {}
      <4>1. rest(s) \in SUBSET s /\ rest(s) \in SUBSET T /\ rest(s) # T
        BY <3>2, FirstIn
      <4>2. Sums(Of(s), amount, s) /\ Sums(Of(rest(s)), amount, rest(s))
        BY <2>1, <4>1
      <4>3. IsFiniteSet(s)
        BY FS_Subset
      <4>4. Of(s)[rest(s)] = at(rest(s))
        <5> HIDE DEF Of, rest
        <5> QED
          BY <4>1, <4>2, <4>3, SumsAgree DEF at
      <4>5. at(s) = amount[First(s)] + Of(s)[rest(s)]
        BY <3>2, <4>2, SumsAt
      <4> QED
        BY <3>2, <4>4, <4>5
    <3> QED
      BY <3>1, <3>2
  <2>3. \A s \in SUBSET T : s # {} => g[rest(s)] = at(rest(s))
    <3> HIDE DEF g, at
    <3> QED
      BY <2>2, FirstIn
  <2>4. Sums(g, amount, T)
    <3> DEFINE first(s) == IF s = {} THEN 0 ELSE amount[First(s)] + at(rest(s))
               second(s) == IF s = {} THEN 0 ELSE amount[First(s)] + g[rest(s)]
    <3>1. \A s \in SUBSET T : first(s) = second(s)
      <4> HIDE DEF g, at, rest
      <4> QED
        BY <2>3
    <3>2. [s \in SUBSET T |-> first(s)] = [s \in SUBSET T |-> second(s)]
      <4> HIDE DEF first, second
      <4> QED
        BY <3>1
    <3> QED
      BY <3>2 DEF Sums
  <2> QED
    BY <2>4
<1> HIDE DEF Good
<1>2. SUBSET S \subseteq Good
  BY <1>1, SubsetInduction
<1> QED
  BY <1>2 DEF Good

-----------------------------------------------------------------------------
(* What a total is *)

LEMMA TotalSums ==
    ASSUME NEW S, IsFiniteSet(S), NEW amount
    PROVE  /\ S = {} => Total(amount, S) = 0
           /\ S # {} => Total(amount, S) = amount[First(S)] + Total(amount, S \ {First(S)})
<1> DEFINE Of(T) == CHOOSE g : Sums(g, amount, T)
           R == S \ {First(S)}
<1>1. Sums(Of(S), amount, S)
  BY SumsExist
<1>2. Total(amount, S) = Of(S)[S] /\ Total(amount, R) = Of(R)[R]
  BY TotalIsSum
<1>3. R \in SUBSET S /\ IsFiniteSet(R)
  BY FS_Subset
<1>4. Sums(Of(R), amount, R)
  BY <1>3, SumsExist
<1>5. Of(S)[R] = Of(R)[R]
  <2> HIDE DEF Of, R
  <2> QED
    BY <1>1, <1>3, <1>4, SumsAgree
<1> QED
  BY <1>1, <1>2, <1>5, SumsAt

(* Whole amounts add up to a whole number.                                    *)
LEMMA TotalType ==
    ASSUME NEW S, IsFiniteSet(S), NEW amount, \A x \in S : amount[x] \in Int
    PROVE  \A T \in SUBSET S : Total(amount, T) \in Int
<1> DEFINE Good == {T \in SUBSET S : Total(amount, T) \in Int}
<1>1. ASSUME NEW T \in SUBSET S, \A t \in SUBSET T : t # T => t \in Good
      PROVE  T \in Good
  <2>1. IsFiniteSet(T)
    BY FS_Subset
  <2>2. CASE T = {}
    <3>1. Total(amount, T) = 0
      BY <2>1, <2>2, TotalSums
    <3> QED
      BY <3>1
  <2>3. CASE T # {}
    <3>1. First(T) \in T /\ Total(amount, T \ {First(T)}) \in Int
      BY <1>1, <2>3, FirstIn
    <3> QED
      BY <2>1, <2>3, <3>1, TotalSums
  <2> QED
    BY <2>2, <2>3
<1> HIDE DEF Good
<1>2. SUBSET S \subseteq Good
  BY <1>1, SubsetInduction
<1> QED
  BY <1>2 DEF Good

(* Any element may be taken out of the sum, not only the first.               *)
LEMMA TotalWithout ==
    ASSUME NEW S, IsFiniteSet(S), NEW amount, \A x \in S : amount[x] \in Int
    PROVE  \A x \in S : Total(amount, S) = amount[x] + Total(amount, S \ {x})
<1> DEFINE Good == {T \in SUBSET S :
                       \A x \in T : Total(amount, T) = amount[x] + Total(amount, T \ {x})}
<1>1. ASSUME NEW T \in SUBSET S, \A t \in SUBSET T : t # T => t \in Good
      PROVE  T \in Good
  <2> SUFFICES ASSUME NEW x \in T
               PROVE  Total(amount, T) = amount[x] + Total(amount, T \ {x})
    OBVIOUS
  <2> DEFINE y == First(T)
             both == (T \ {x}) \ {y}
  <2>0. IsFiniteSet(T) /\ IsFiniteSet(T \ {x}) /\ y \in T
    BY FS_Subset, FirstIn
  <2>1. Total(amount, T) = amount[y] + Total(amount, T \ {y})
    BY <2>0, TotalSums
  <2>2. CASE x = y
    BY <2>1, <2>2
  <2>3. CASE x # y
    <3>1. Total(amount, T \ {y}) = amount[x] + Total(amount, (T \ {y}) \ {x})
      BY <1>1, <2>0, <2>3
    <3>2. Total(amount, T \ {x}) = amount[y] + Total(amount, both)
      BY <1>1, <2>0, <2>3
    <3>3. (T \ {y}) \ {x} = both
      OBVIOUS
    <3>4. /\ Total(amount, both) \in Int /\ amount[x] \in Int /\ amount[y] \in Int
      BY <2>0, TotalType
    <3>5. Total(amount, T) = amount[y] + (amount[x] + Total(amount, both))
      BY <2>1, <3>1, <3>3
    <3> HIDE DEF y, both
    <3> QED
      BY <3>2, <3>4, <3>5
  <2> QED
    BY <2>2, <2>3
<1> HIDE DEF Good
<1>2. SUBSET S \subseteq Good
  BY <1>1, SubsetInduction
<1> QED
  BY <1>2 DEF Good

LEMMA TotalEmpty ==
    ASSUME NEW amount
    PROVE  Total(amount, {}) = 0
BY FS_EmptySet, TotalSums

(* The total of a set with one element more *)
LEMMA TotalWith ==
    ASSUME NEW S, IsFiniteSet(S), NEW x, x \notin S, NEW amount,
           \A y \in S \cup {x} : amount[y] \in Int
    PROVE  Total(amount, S \cup {x}) = Total(amount, S) + amount[x]
<1>1. IsFiniteSet(S \cup {x}) /\ (S \cup {x}) \ {x} = S
  BY FS_AddElement
<1>2. Total(amount, S \cup {x}) = amount[x] + Total(amount, S)
  BY <1>1, TotalWithout
<1>3. Total(amount, S) \in Int /\ amount[x] \in Int
  BY TotalType
<1> QED
  BY <1>2, <1>3
=============================================================================
