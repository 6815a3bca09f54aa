----------------------------- MODULE FoldLemmas -----------------------------
(***************************************************************************)
(* Lemmas about the folds of the community modules, as the models use them *)
(* to add up points and amounts, and the induction they rest on: over a    *)
(* set of numbers and over the subsets of a finite set.                    *)
(***************************************************************************)
EXTENDS Integers, Sequences, SequencesExt, NaturalsInduction, WellFoundedInduction,
        FiniteSetTheorems, TLAPS

(* A set of numbers that holds 0 and, with a number, the next is all of    *)
(* Nat: there is no smallest number outside.                               *)
LEMMA SetInduction ==
    ASSUME NEW T, 0 \in T, \A n \in Nat : n \in T => n + 1 \in T
    PROVE  \A n \in Nat : n \in T
<1> SUFFICES ASSUME NEW m \in Nat, m \notin T PROVE FALSE
  OBVIOUS
<1> DEFINE Outside == Nat \ T
<1>1. PICK x \in Outside : \A y \in Outside : ~(<<y, x>> \in OpToRel(<, Nat))
  <2>1. Outside \subseteq Nat /\ Outside # {}
    OBVIOUS
  <2> QED
    BY <2>1, NatLessThanWellFounded, WFMin, Zenon
<1>2. x # 0 /\ x \in Nat /\ x - 1 \in Nat /\ x - 1 < x
  OBVIOUS
<1>3. x - 1 \in Outside
  BY <1>2
<1>4. <<x - 1, x>> \in OpToRel(<, Nat)
  BY <1>2, Zenon DEF OpToRel
<1> QED
  BY <1>1, <1>3, <1>4

(* What holds of the empty set, and of every set when it holds of those    *)
(* with one element less, holds of every subset of a finite set.           *)
LEMMA SubsetInduction ==
    ASSUME NEW S, IsFiniteSet(S), NEW T, {} \in T,
           \A s \in SUBSET S : s # {} /\ (\A x \in s : s \ {x} \in T) => s \in T
    PROVE  \A s \in SUBSET S : s \in T
<1> DEFINE U == {n \in Nat : \A s \in SUBSET S : Cardinality(s) = n => s \in T}
<1>1. \A s \in SUBSET S : IsFiniteSet(s) /\ Cardinality(s) \in Nat
  BY FS_Subset, FS_CardinalityType
<1>2. 0 \in U
  BY <1>1, FS_EmptySet
<1>3. ASSUME NEW n \in Nat, n \in U PROVE n + 1 \in U
  <2> SUFFICES ASSUME NEW s \in SUBSET S, Cardinality(s) = n + 1 PROVE s \in T
    OBVIOUS
  <2>1. s # {}
    <3>1. Cardinality({}) = 0
      BY FS_EmptySet
    <3> QED
      BY <3>1
  <2>2. ASSUME NEW x \in s PROVE s \ {x} \in T
    <3>1. Cardinality(s \ {x}) = n
      BY <1>1, FS_RemoveElement
    <3> QED
      BY <1>3, <3>1
  <2> QED
    BY <2>1, <2>2
<1> HIDE DEF U
<1>4. \A n \in Nat : n \in U
  BY <1>2, <1>3, SetInduction
<1> QED
  BY <1>1, <1>4 DEF U
-----------------------------------------------------------------------------
(* The sum of a function, step by step.                                    *)

Some(s) == CHOOSE x \in s : TRUE

(* g gives the sum of f over every subset of S.                            *)
AddsUp(f, S, g) ==
    g = [s \in SUBSET S |-> IF s = {} THEN 0 ELSE f[Some(s)] + g[s \ {Some(s)}]]

Sums(f, S) == CHOOSE g : AddsUp(f, S, g)

SumOf(f) == FoldFunction(+, 0, f)

LEMMA SumUnfolds == ASSUME NEW f PROVE SumOf(f) = Sums(f, DOMAIN f)[DOMAIN f]
BY DEF SumOf, FoldFunction, FoldFunctionOnSet, MapThenFoldSet, Sums, AddsUp, Some

LEMMA SomeIsIn == ASSUME NEW s, s # {} PROVE Some(s) \in s
BY DEF Some

LEMMA SumsExist ==
    ASSUME NEW S, IsFiniteSet(S), NEW f \in [S -> Int]
    PROVE  \E g : AddsUp(f, S, g)
<1> DEFINE Small(n) == {s \in SUBSET S : Cardinality(s) <= n}
           Part(n, g) == \A s \in Small(n) :
                            g[s] = IF s = {} THEN 0 ELSE f[Some(s)] + g[s \ {Some(s)}]
           U == {n \in Nat : \E g \in [Small(n) -> Int] : Part(n, g)}
<1>1. \A s \in SUBSET S : IsFiniteSet(s) /\ Cardinality(s) \in Nat
  BY FS_Subset, FS_CardinalityType
<1>2. \A s \in SUBSET S : \A x \in s : s \ {x} \in SUBSET S /\ Cardinality(s \ {x}) = Cardinality(s) - 1
  BY <1>1, FS_RemoveElement
<1>3. 0 \in U
  <2>1. \A s \in Small(0) : s = {}
    BY <1>1, FS_EmptySet
  <2>2. [s \in Small(0) |-> 0] \in [Small(0) -> Int] /\ Part(0, [s \in Small(0) |-> 0])
    BY <2>1
  <2> QED
    BY <2>2
<1>4. ASSUME NEW n \in Nat, n \in U PROVE n + 1 \in U
  <2>1. PICK g \in [Small(n) -> Int] : Part(n, g)
    BY <1>4
  <2> DEFINE h == [s \in Small(n + 1) |-> IF s \in Small(n) THEN g[s]
                                          ELSE f[Some(s)] + g[s \ {Some(s)}]]
  <2>2. ASSUME NEW s \in Small(n + 1), s # {} PROVE s \ {Some(s)} \in Small(n) /\ f[Some(s)] \in Int
    <3>1. Some(s) \in s
      BY <2>2, SomeIsIn
    <3>2. Cardinality(s \ {Some(s)}) = Cardinality(s) - 1 /\ Cardinality(s) \in Nat
      BY <1>1, <1>2, <3>1
    <3> QED
      BY <3>1, <3>2
  <2>3. {} \in Small(n) /\ Small(n) \subseteq Small(n + 1)
    BY <1>1, FS_EmptySet
  <2> HIDE DEF Small
  <2>4. h \in [Small(n + 1) -> Int]
    <3>1. ASSUME NEW s \in Small(n + 1), s \notin Small(n)
          PROVE  f[Some(s)] + g[s \ {Some(s)}] \in Int
      <4>1. f[Some(s)] \in Int /\ g[s \ {Some(s)}] \in Int
        BY <2>2, <2>3, <3>1
      <4> QED
        BY <4>1
    <3> QED
      BY <3>1
  <2>5. ASSUME NEW s \in Small(n + 1)
        PROVE  h[s] = IF s = {} THEN 0 ELSE f[Some(s)] + h[s \ {Some(s)}]
    <3>1. CASE s = {}
      BY <2>1, <2>3, <3>1
    <3>2. CASE s # {}
      <4>1. h[s \ {Some(s)}] = g[s \ {Some(s)}]
        BY <2>2, <2>3, <3>2
      <4>2. h[s] = f[Some(s)] + g[s \ {Some(s)}]
        BY <2>1, <3>2
      <4> QED
        BY <3>2, <4>1, <4>2
    <3> QED
      BY <3>1, <3>2
  <2> HIDE DEF h
  <2>6. \E j \in [Small(n + 1) -> Int] : Part(n + 1, j)
    BY <2>4, <2>5
  <2>7. n + 1 \in Nat
    OBVIOUS
  <2> QED
    BY <2>6, <2>7
<1> HIDE DEF U
<1>5. Cardinality(S) \in U
  BY <1>1, <1>3, <1>4, SetInduction
<1>6. Small(Cardinality(S)) = SUBSET S
  BY <1>1, FS_Subset
<1>7. PICK g \in [SUBSET S -> Int] : \A s \in SUBSET S :
         g[s] = IF s = {} THEN 0 ELSE f[Some(s)] + g[s \ {Some(s)}]
  BY <1>5, <1>6 DEF U
<1> QED
  BY <1>7 DEF AddsUp

(* The sum over a set is that over the set without any one of its elements *)
(* and that element.                                                       *)
LEMMA SumsStep ==
    ASSUME NEW S, IsFiniteSet(S), NEW f \in [S -> Int]
    PROVE  /\ Sums(f, S) \in [SUBSET S -> Int]
           /\ Sums(f, S)[{}] = 0
           /\ \A s \in SUBSET S : \A x \in s : Sums(f, S)[s] = f[x] + Sums(f, S)[s \ {x}]
<1> DEFINE g == Sums(f, S)
<1>1. AddsUp(f, S, g)
  BY SumsExist DEF Sums
<1> HIDE DEF g
<1>2. g = [s \in SUBSET S |-> g[s]]
  BY <1>1 DEF AddsUp
<1>3. g[{}] = 0
  BY <1>1 DEF AddsUp
<1>4. ASSUME NEW s \in SUBSET S, s # {} PROVE g[s] = f[Some(s)] + g[s \ {Some(s)}]
  BY <1>1, <1>4 DEF AddsUp
<1>5. \A s \in SUBSET S : g[s] \in Int
  <2> DEFINE T == {s \in SUBSET S : g[s] \in Int}
  <2>1. {} \in T
    BY <1>3
  <2>2. ASSUME NEW s \in SUBSET S, s # {}, \A x \in s : s \ {x} \in T PROVE s \in T
    <3>1. Some(s) \in s
      BY <2>2, SomeIsIn
    <3>2. f[Some(s)] \in Int /\ g[s \ {Some(s)}] \in Int
      BY <2>2, <3>1
    <3>3. g[s] = f[Some(s)] + g[s \ {Some(s)}]
      BY <1>4, <2>2
    <3> QED
      BY <3>2, <3>3
  <2> HIDE DEF T
  <2>3. \A s \in SUBSET S : s \in T
    BY <2>1, <2>2, SubsetInduction
  <2> QED
    BY <2>3 DEF T
<1>6. \A s \in SUBSET S : \A x \in s : g[s] = f[x] + g[s \ {x}]
  <2> DEFINE T == {s \in SUBSET S : \A x \in s : g[s] = f[x] + g[s \ {x}]}
  <2>1. {} \in T
    OBVIOUS
  <2>2. ASSUME NEW s \in SUBSET S, s # {}, \A x \in s : s \ {x} \in T PROVE s \in T
    <3> DEFINE y == Some(s)
    <3>1. y \in s /\ g[s] = f[y] + g[s \ {y}]
      BY <1>4, <2>2, SomeIsIn
    <3> HIDE DEF y
    <3>2. ASSUME NEW x \in s, x # y PROVE g[s] = f[x] + g[s \ {x}]
      <4> DEFINE r == s \ {x, y}
      <4>0. /\ (s \ {y}) \ {x} = r /\ (s \ {x}) \ {y} = r /\ r \in SUBSET S
            /\ x \in s \ {y} /\ y \in s \ {x}
        BY <3>1, <3>2
      <4>1. g[s \ {y}] = f[x] + g[r]
        BY <2>2, <3>1, <3>2, <4>0
      <4>2. g[s \ {x}] = f[y] + g[r]
        BY <2>2, <3>1, <3>2, <4>0
      <4> HIDE DEF r
      <4>3. f[x] \in Int /\ f[y] \in Int /\ g[r] \in Int
        BY <1>5, <3>1, <4>0
      <4> QED
        BY <3>1, <4>1, <4>2, <4>3
    <3> QED
      BY <3>1, <3>2
  <2> HIDE DEF T
  <2>3. \A s \in SUBSET S : s \in T
    BY <2>1, <2>2, SubsetInduction
  <2> QED
    BY <2>3 DEF T
<1> QED
  BY <1>2, <1>3, <1>5, <1>6 DEF g

LEMMA SumsAt ==
    ASSUME NEW S, IsFiniteSet(S), NEW f \in [S -> Int], NEW s \in SUBSET S
    PROVE  /\ Sums(f, S)[s] \in Int
           /\ Sums(f, S)[{}] = 0
           /\ \A x \in s : Sums(f, S)[s] = f[x] + Sums(f, S)[s \ {x}]
<1> DEFINE G == Sums(f, S)
<1>1. /\ G \in [SUBSET S -> Int] /\ G[{}] = 0
      /\ \A r \in SUBSET S : \A x \in r : G[r] = f[x] + G[r \ {x}]
  BY SumsStep
<1> HIDE DEF G
<1>2. G[s] \in Int /\ G[{}] = 0 /\ \A x \in s : G[s] = f[x] + G[s \ {x}]
  BY <1>1
<1> QED
  BY <1>2 DEF G

(* The sum over a set depends on no other values of the function.          *)
LEMMA SumsAgree ==
    ASSUME NEW S, IsFiniteSet(S), NEW R, IsFiniteSet(R),
           NEW f \in [S -> Int], NEW h \in [R -> Int],
           NEW W, W \subseteq S, W \subseteq R, \A x \in W : f[x] = h[x]
    PROVE  Sums(f, S)[W] = Sums(h, R)[W]
<1> DEFINE T == {s \in SUBSET W : Sums(f, S)[s] = Sums(h, R)[s]}
<1>1. {} \in T
  BY SumsAt
<1>2. ASSUME NEW s \in SUBSET W, s # {}, \A x \in s : s \ {x} \in T PROVE s \in T
  <2>1. PICK x \in s : TRUE
    BY <1>2
  <2>2. /\ Sums(f, S)[s] = f[x] + Sums(f, S)[s \ {x}]
        /\ Sums(h, R)[s] = h[x] + Sums(h, R)[s \ {x}]
    <3>1. s \in SUBSET S /\ s \in SUBSET R
      OBVIOUS
    <3>2. Sums(f, S)[s] = f[x] + Sums(f, S)[s \ {x}]
      BY <2>1, <3>1, SumsAt
    <3>3. Sums(h, R)[s] = h[x] + Sums(h, R)[s \ {x}]
      BY <2>1, <3>1, SumsAt
    <3> QED
      BY <3>2, <3>3
  <2>3. f[x] = h[x] /\ Sums(f, S)[s \ {x}] = Sums(h, R)[s \ {x}]
    BY <1>2, <2>1
  <2> QED
    BY <2>2, <2>3
<1>3. IsFiniteSet(W)
  BY FS_Subset
<1> HIDE DEF T
<1>4. \A s \in SUBSET W : s \in T
  BY <1>1, <1>2, <1>3, SubsetInduction
<1> QED
  BY <1>4 DEF T
-----------------------------------------------------------------------------
(* What the models need to know of a sum                                   *)

LEMMA SumType == ASSUME NEW S, IsFiniteSet(S), NEW f \in [S -> Int] PROVE SumOf(f) \in Int
<1>1. SumOf(f) = Sums(f, S)[S]
  BY SumUnfolds
<1> QED
  BY <1>1, SumsAt

LEMMA SumEmpty == ASSUME NEW f \in [{} -> Int] PROVE SumOf(f) = 0
<1>1. SumOf(f) = Sums(f, {})[{}] /\ IsFiniteSet({})
  BY SumUnfolds, FS_EmptySet
<1> QED
  BY <1>1, SumsAt

LEMMA SumRemove ==
    ASSUME NEW S, IsFiniteSet(S), NEW x \in S, NEW R, R = S \ {x},
           NEW f \in [S -> Int], NEW g \in [R -> Int], \A y \in R : g[y] = f[y]
    PROVE  SumOf(f) = SumOf(g) + f[x]
<1>1. IsFiniteSet(R) /\ R \subseteq S
  BY FS_Subset
<1>2. SumOf(f) = f[x] + Sums(f, S)[R]
  <2>1. SumOf(f) = Sums(f, S)[S]
    BY SumUnfolds
  <2>2. \A y \in S : Sums(f, S)[S] = f[y] + Sums(f, S)[S \ {y}]
    <3>1. S \in SUBSET S
      OBVIOUS
    <3> QED
      BY <3>1, SumsAt
  <2> QED
    BY <2>1, <2>2
<1>3. SumOf(g) = Sums(g, R)[R]
  BY SumUnfolds
<1>4. Sums(g, R)[R] = Sums(f, S)[R]
  BY <1>1, SumsAgree
<1>5. f[x] \in Int /\ SumOf(g) \in Int
  BY <1>1, SumType
<1> QED
  BY <1>2, <1>3, <1>4, <1>5

LEMMA SumChange ==
    ASSUME NEW S, IsFiniteSet(S), NEW f \in [S -> Int], NEW g \in [S -> Int], NEW x \in S,
           \A y \in S \ {x} : g[y] = f[y]
    PROVE  SumOf(g) = SumOf(f) - f[x] + g[x]
<1> DEFINE rest == [y \in S \ {x} |-> f[y]]
<1>1. /\ rest \in [S \ {x} -> Int]
      /\ \A y \in S \ {x} : rest[y] = f[y] /\ rest[y] = g[y]
  OBVIOUS
<1> HIDE DEF rest
<1>2. SumOf(f) = SumOf(rest) + f[x] /\ SumOf(g) = SumOf(rest) + g[x]
  BY <1>1, SumRemove
<1>3. f[x] \in Int /\ g[x] \in Int /\ SumOf(rest) \in Int
  <2>1. IsFiniteSet(S \ {x})
    BY FS_Subset
  <2> QED
    BY <1>1, <2>1, SumType
<1> QED
  BY <1>2, <1>3

LEMMA SumMonotone ==
    ASSUME NEW S, IsFiniteSet(S), NEW f \in [S -> Int], NEW g \in [S -> Int],
           \A x \in S : f[x] <= g[x]
    PROVE  SumOf(f) <= SumOf(g)
<1> DEFINE T == {s \in SUBSET S : Sums(f, S)[s] <= Sums(g, S)[s]}
<1>1. {} \in T
  BY SumsAt
<1>2. ASSUME NEW s \in SUBSET S, s # {}, \A x \in s : s \ {x} \in T PROVE s \in T
  <2>1. PICK x \in s : TRUE
    BY <1>2
  <2>2. /\ Sums(f, S)[s] = f[x] + Sums(f, S)[s \ {x}]
        /\ Sums(g, S)[s] = g[x] + Sums(g, S)[s \ {x}]
    BY <2>1, SumsAt
  <2>3. /\ f[x] <= g[x] /\ f[x] \in Int /\ g[x] \in Int
        /\ Sums(f, S)[s \ {x}] <= Sums(g, S)[s \ {x}]
    BY <1>2, <2>1
  <2>4. Sums(f, S)[s \ {x}] \in Int /\ Sums(g, S)[s \ {x}] \in Int
    <3>1. s \ {x} \in SUBSET S
      OBVIOUS
    <3> QED
      BY <3>1, SumsAt
  <2>5. Sums(f, S)[s] <= Sums(g, S)[s]
    BY <2>2, <2>3, <2>4
  <2> QED
    BY <2>5
<1> HIDE DEF T
<1>3. \A s \in SUBSET S : s \in T
  BY <1>1, <1>2, SubsetInduction
<1>4. Sums(f, S)[S] <= Sums(g, S)[S]
  BY <1>3 DEF T
<1> QED
  BY <1>4, SumUnfolds

LEMMA SumNat ==
    ASSUME NEW S, IsFiniteSet(S), NEW f \in [S -> Nat]
    PROVE  SumOf(f) \in Nat
<1> DEFINE T == {s \in SUBSET S : Sums(f, S)[s] \in Nat}
<1>0. f \in [S -> Int]
  OBVIOUS
<1>1. {} \in T
  BY <1>0, SumsAt
<1>2. ASSUME NEW s \in SUBSET S, s # {}, \A x \in s : s \ {x} \in T PROVE s \in T
  <2>1. PICK x \in s : TRUE
    BY <1>2
  <2>2. Sums(f, S)[s] = f[x] + Sums(f, S)[s \ {x}]
    BY <1>0, <2>1, SumsAt
  <2>3. f[x] \in Nat /\ Sums(f, S)[s \ {x}] \in Nat
    BY <1>2, <2>1
  <2>4. Sums(f, S)[s] \in Nat
    BY <2>2, <2>3
  <2> QED
    BY <2>4
<1> HIDE DEF T
<1>3. \A s \in SUBSET S : s \in T
  BY <1>1, <1>2, SubsetInduction
<1>4. Sums(f, S)[S] \in Nat
  BY <1>3 DEF T
<1> QED
  BY <1>4, SumUnfolds

(* A sequence is added up like a function, one element after the other.    *)
LEMMA SeqSum == ASSUME NEW s PROVE FoldSeq(+, 0, s) = SumOf(s)
BY DEF FoldSeq, SumOf

LEMMA SeqSumType == ASSUME NEW s \in Seq(Int) PROVE SumOf(s) \in Int
<1>1. s \in [1 .. Len(s) -> Int] /\ Len(s) \in Nat
  OBVIOUS
<1>2. IsFiniteSet(1 .. Len(s))
  BY <1>1, FS_Interval
<1> QED
  BY <1>1, <1>2, SumType

LEMMA SumExtend ==
    ASSUME NEW n \in Nat, NEW f \in [1 .. n -> Int], NEW g \in [1 .. n + 1 -> Int],
           \A i \in 1 .. n : f[i] = g[i]
    PROVE  SumOf(g) = SumOf(f) + g[n + 1]
<1>1. n + 1 \in 1 .. n + 1 /\ 1 .. n = (1 .. n + 1) \ {n + 1} /\ n + 1 \in Int
  OBVIOUS
<1>2. IsFiniteSet(1 .. n + 1)
  BY <1>1, FS_Interval
<1> QED
  BY <1>1, <1>2, SumRemove

LEMMA SeqSumAppend ==
    ASSUME NEW s \in Seq(Int), NEW v \in Int
    PROVE  SumOf(s \o <<v>>) = SumOf(s) + v
<1> DEFINE n == Len(s)  longer == s \o <<v>>
<1>1. n \in Nat /\ s \in [1 .. n -> Int] /\ longer \in Seq(Int) /\ Len(longer) = n + 1
      /\ longer[n + 1] = v /\ \A i \in 1 .. n : s[i] = longer[i]
  OBVIOUS
<1> HIDE DEF longer, n
<1>2. longer \in [1 .. n + 1 -> Int]
  BY <1>1
<1>3. SumOf(longer) = SumOf(s) + longer[n + 1]
  BY <1>1, <1>2, SumExtend
<1> QED
  BY <1>1, <1>3 DEF longer
=============================================================================
