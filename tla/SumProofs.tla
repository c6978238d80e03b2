------------------------------ MODULE SumProofs ------------------------------
(***************************************************************************)
(* Induction, sums and bags, for the proofs that count.                    *)
(*                                                                         *)
(* Induction is stated over a set: a property of numbers or of finite sets *)
(* is the set of those that have it.  SumFunction, by which charges, times *)
(* and tokens are added up, is defined by taking one element after the     *)
(* other out of its domain; the lemmas say that the order does not matter. *)
(* The last lemmas count places: in a list that repeats a block (Repeats), *)
(* and in the rows of a table (RowsMore).                                  *)
(***************************************************************************)
EXTENDS Integers, FiniteSets, Functions, Bags, FiniteSetTheorems, WellFoundedInduction, TLAPS

-----------------------------------------------------------------------------
(* Induction.                                                              *)

\* A non-empty set of naturals has a least element.
LEMMA LeastNatural ==
  ASSUME NEW S \in SUBSET Nat, S # {}
  PROVE  \E m \in S : \A k \in S : m <= k
<1>1. PICK m \in S : \A k \in S : <<k, m>> \notin OpToRel(<, Nat)
  BY NatLessThanWellFounded, WFMin
<1>2. \A k \in S : ~(k < m)
  BY <1>1 DEF OpToRel
<1>. QED  BY <1>2

\* Induction on the naturals.
LEMMA Induction ==
  ASSUME NEW S, 0 \in S, \A n \in Nat : n \in S => n + 1 \in S
  PROVE  Nat \subseteq S
<1>. SUFFICES ASSUME Nat \ S # {} PROVE FALSE
  OBVIOUS
<1>1. PICK m \in Nat \ S : \A k \in Nat \ S : m <= k
  BY LeastNatural
<1>2. m # 0 /\ m - 1 \in Nat /\ m - 1 \in S
  BY <1>1
<1>. QED  BY <1>1, <1>2

\* Induction on finite sets: Good holds the subsets of S that have a property,
\* and a set has it when all the sets with one element less have it.
LEMMA SetInduction ==
  ASSUME NEW S, IsFiniteSet(S), NEW Good, {} \in Good,
         \A T \in SUBSET S : (\A x \in T : T \ {x} \in Good) => T \in Good
  PROVE  S \in Good
<1>. DEFINE N == {n \in Nat : \A T \in SUBSET S : Cardinality(T) = n => T \in Good}
<1>1. 0 \in N
  BY FS_EmptySet, FS_Subset
<1>2. ASSUME NEW n \in Nat, n \in N
      PROVE  n + 1 \in N
  <2>. SUFFICES ASSUME NEW T \in SUBSET S, Cardinality(T) = n + 1
                PROVE  T \in Good
    OBVIOUS
  <2>1. IsFiniteSet(T) /\ T # {}
    BY FS_Subset, FS_EmptySet
  <2>2. ASSUME NEW x \in T
        PROVE  Cardinality(T \ {x}) = n
    <3>1. Cardinality(T \ {x}) = Cardinality(T) - 1
      BY <2>1, FS_RemoveElement
    <3>. QED  BY <3>1
  <2>. QED  BY <1>2, <2>2
<1>3. Nat \subseteq N
  <2>. HIDE DEF N
  <2>. QED  BY <1>1, <1>2, Induction
<1>. QED  BY <1>3, FS_CardinalityType

-----------------------------------------------------------------------------
(* What SumFunctionOnSet computes.                                         *)

\* The element a fold takes out first.
First(T) == CHOOSE x \in T : TRUE

\* g adds f up over the subsets in U, which holds what is left over, too.
Adds(g, f, U) ==
  \A T \in U : g[T] = IF T = {} THEN 0 ELSE f[First(T)] + g[T \ {First(T)}]

\* g is the function SumFunctionOnSet chooses.
IsFold(g, f, S) ==
  g = [T \in SUBSET S |-> IF T = {} THEN 0 ELSE f[First(T)] + g[T \ {First(T)}]]

Iter(f, S) == CHOOSE g : IsFold(g, f, S)

\* A sum is a fold.
LEMMA SumIsIter ==
  ASSUME NEW f, NEW S
  PROVE  SumFunctionOnSet(f, S) = Iter(f, S)[S]
BY DEF SumFunctionOnSet, FoldFunctionOnSet, MapThenFoldSet, Iter, IsFold, First

\* There is such a function, however large the finite set.
LEMMA IterExists ==
  ASSUME NEW f, NEW S, IsFiniteSet(S)
  PROVE  \E g : IsFold(g, f, S)
<1>. DEFINE Up(n) == {T \in SUBSET S : Cardinality(T) <= n}
            N == {n \in Nat : \E g : Adds(g, f, Up(n))}
<1>1. \A T \in SUBSET S : IsFiniteSet(T) /\ Cardinality(T) \in Nat
  BY FS_Subset, FS_CardinalityType
<1>2. 0 \in N
  <2>. DEFINE g == [T \in {{}} |-> 0]
  <2>1. \A T \in Up(0) : T = {}
    BY <1>1, FS_EmptySet
  <2>2. Adds(g, f, Up(0))
    BY <2>1 DEF Adds
  <2>. QED  BY <2>2
<1>3. ASSUME NEW n \in Nat, n \in N
      PROVE  n + 1 \in N
  <2>1. PICK g : Adds(g, f, Up(n))
    BY <1>3
  <2>. DEFINE h == [T \in SUBSET S |->
                      IF T = {} THEN 0 ELSE f[First(T)] + g[T \ {First(T)}]]
  <2>2. \A T \in Up(n) : h[T] = g[T]
    BY <2>1 DEF Adds
  <2>3. ASSUME NEW T \in Up(n + 1), T # {}
        PROVE  T \ {First(T)} \in Up(n)
    <3>1. First(T) \in T
      BY <2>3 DEF First
    <3>2. Cardinality(T \ {First(T)}) = Cardinality(T) - 1
      BY <3>1, <1>1, FS_RemoveElement
    <3>. QED  BY <3>2, <1>1
  <2>4. Adds(h, f, Up(n + 1))
    <3>. SUFFICES ASSUME NEW T \in Up(n + 1)
                  PROVE  h[T] = IF T = {} THEN 0 ELSE f[First(T)] + h[T \ {First(T)}]
      BY DEF Adds
    <3>1. CASE T = {}
      BY <3>1
    <3>2. CASE T # {}
      <4>1. h[T \ {First(T)}] = g[T \ {First(T)}]
        BY <2>2, <2>3, <3>2
      <4>. QED  BY <4>1, <3>2
    <3>. QED  BY <3>1, <3>2
  <2>5. \E k : Adds(k, f, Up(n + 1))
    <3>. HIDE DEF h, Up
    <3>. QED  BY <2>4
  <2>. HIDE DEF Up
  <2>. QED  BY <2>5
<1>4. Nat \subseteq N
  <2>. HIDE DEF N
  <2>. QED  BY <1>2, <1>3, Induction
<1>5. PICK g : Adds(g, f, Up(Cardinality(S)))
  BY <1>4, <1>1
<1>6. Up(Cardinality(S)) = SUBSET S
  BY <1>1, FS_Subset
<1>. DEFINE h == [T \in SUBSET S |-> g[T]]
<1>7. \A T \in SUBSET S : T \ {First(T)} \in SUBSET S
  OBVIOUS
<1>8. h = [T \in SUBSET S |-> IF T = {} THEN 0 ELSE f[First(T)] + h[T \ {First(T)}]]
  <2>1. \A T \in SUBSET S :
          h[T] = IF T = {} THEN 0 ELSE f[First(T)] + h[T \ {First(T)}]
    BY <1>5, <1>6, <1>7 DEF Adds
  <2>. QED  BY <2>1
<1>. QED  BY <1>8 DEF IsFold

\* The fold adds up, one element at a time.
LEMMA IterAdds ==
  ASSUME NEW f, NEW S, IsFiniteSet(S)
  PROVE  Adds(Iter(f, S), f, SUBSET S)
<1>1. IsFold(Iter(f, S), f, S)
  BY IterExists DEF Iter
<1>. QED  BY <1>1 DEF IsFold, Adds

\* What is summed does not depend on the set the summing started from.
LEMMA IterLocal ==
  ASSUME NEW f, NEW S, IsFiniteSet(S), NEW U \in SUBSET S
  PROVE  Iter(f, S)[U] = Iter(f, U)[U]
<1>. DEFINE Good == {T \in SUBSET U : Iter(f, S)[T] = Iter(f, U)[T]}
<1>1. IsFiniteSet(U)
  BY FS_Subset
<1>2. Adds(Iter(f, S), f, SUBSET S) /\ Adds(Iter(f, U), f, SUBSET U)
  BY <1>1, IterAdds
<1>3. {} \in Good
  BY <1>2 DEF Adds
<1>4. ASSUME NEW T \in SUBSET U, \A x \in T : T \ {x} \in Good
      PROVE  T \in Good
  <2>1. CASE T = {}
    BY <2>1, <1>3
  <2>2. CASE T # {}
    <3>1. First(T) \in T
      BY <2>2 DEF First
    <3>2. Iter(f, S)[T \ {First(T)}] = Iter(f, U)[T \ {First(T)}]
      BY <3>1, <1>4
    <3>. QED  BY <3>2, <2>2, <1>2 DEF Adds
  <2>. QED  BY <2>1, <2>2
<1>5. U \in Good
  <2>. HIDE DEF Good
  <2>. QED  BY <1>1, <1>3, <1>4, SetInduction
<1>. QED  BY <1>5

\* The sum over nothing, and taking out the first element.
LEMMA SumFirst ==
  ASSUME NEW f, NEW S, IsFiniteSet(S)
  PROVE  SumFunctionOnSet(f, S) =
           IF S = {} THEN 0 ELSE f[First(S)] + SumFunctionOnSet(f, S \ {First(S)})
<1>1. Iter(f, S)[S] = IF S = {} THEN 0 ELSE f[First(S)] + Iter(f, S)[S \ {First(S)}]
  BY IterAdds DEF Adds
<1>2. Iter(f, S)[S \ {First(S)}] = Iter(f, S \ {First(S)})[S \ {First(S)}]
  BY IterLocal
<1>. QED  BY <1>1, <1>2, SumIsIter

-----------------------------------------------------------------------------
(* Sums.                                                                   *)

\* Nothing sums up to nothing.
LEMMA SumEmpty == \A f : SumFunctionOnSet(f, {}) = 0
BY SumFirst, FS_EmptySet

\* A sum of integers is an integer.
LEMMA SumInt ==
  ASSUME NEW f, NEW S, IsFiniteSet(S), \A x \in S : f[x] \in Int
  PROVE  SumFunctionOnSet(f, S) \in Int
<1>. DEFINE Good == {T \in SUBSET S : SumFunctionOnSet(f, T) \in Int}
<1>1. {} \in Good
  BY SumEmpty
<1>2. ASSUME NEW T \in SUBSET S, \A x \in T : T \ {x} \in Good
      PROVE  T \in Good
  <2>. SUFFICES ASSUME T # {} PROVE T \in Good
    BY <1>1
  <2>1. First(T) \in T /\ IsFiniteSet(T)
    BY FS_Subset DEF First
  <2>2. f[First(T)] \in Int /\ SumFunctionOnSet(f, T \ {First(T)}) \in Int
    BY <2>1, <1>2
  <2>3. SumFunctionOnSet(f, T) = f[First(T)] + SumFunctionOnSet(f, T \ {First(T)})
    BY <2>1, SumFirst
  <2>4. SumFunctionOnSet(f, T) \in Int
    BY <2>2, <2>3
  <2>. QED  BY <2>4
<1>3. S \in Good
  <2>. HIDE DEF Good
  <2>. QED  BY <1>1, <1>2, SetInduction
<1>. QED  BY <1>3

\* Any element may be taken out first.
LEMMA SumTake ==
  ASSUME NEW f, NEW S, IsFiniteSet(S), \A x \in S : f[x] \in Int, NEW y \in S
  PROVE  SumFunctionOnSet(f, S) = f[y] + SumFunctionOnSet(f, S \ {y})
<1>. DEFINE Sum(T) == SumFunctionOnSet(f, T)
            Good == {T \in SUBSET S : \A x \in T : Sum(T) = f[x] + Sum(T \ {x})}
<1>1. {} \in Good
  OBVIOUS
<1>2. \A T \in SUBSET S : IsFiniteSet(T) /\ Sum(T) \in Int
  BY FS_Subset, SumInt
<1>3. ASSUME NEW T \in SUBSET S, \A x \in T : T \ {x} \in Good
      PROVE  T \in Good
  <2>. SUFFICES ASSUME NEW x \in T PROVE Sum(T) = f[x] + Sum(T \ {x})
    OBVIOUS
  <2>. DEFINE c == First(T)
  <2>1. c \in T
    BY DEF First
  <2>2. Sum(T) = f[c] + Sum(T \ {c})
    BY <1>2, SumFirst
  <2>3. CASE x = c
    BY <2>2, <2>3
  <2>4. CASE x # c
    <3>. HIDE DEF c
    <3>1. x \in T \ {c} /\ T \ {c} \in Good
      BY <2>1, <2>4, <1>3
    <3>2. Sum(T \ {c}) = f[x] + Sum((T \ {c}) \ {x})
      BY <3>1
    <3>3. c \in T \ {x} /\ T \ {x} \in Good
      BY <2>1, <2>4, <1>3
    <3>4. Sum(T \ {x}) = f[c] + Sum((T \ {x}) \ {c})
      BY <3>3
    <3>5. (T \ {c}) \ {x} = (T \ {x}) \ {c}
      OBVIOUS
    <3>6. f[c] \in Int /\ f[x] \in Int /\ Sum((T \ {x}) \ {c}) \in Int
      BY <1>2, <2>1
    <3>7. Sum(T \ {c}) = f[x] + Sum((T \ {x}) \ {c})
      BY <3>2, <3>5
    <3>. HIDE DEF Sum
    <3>. QED  BY <2>2, <3>4, <3>6, <3>7
  <2>. QED  BY <2>3, <2>4
<1>4. S \in Good
  <2>. HIDE DEF Good
  <2>. QED  BY <1>1, <1>3, SetInduction
<1>. QED  BY <1>4

\* The sum of the sums.
LEMMA SumPlus ==
  ASSUME NEW f, NEW g, NEW h, NEW S, IsFiniteSet(S),
         \A x \in S : f[x] \in Int /\ g[x] \in Int /\ h[x] = f[x] + g[x]
  PROVE  SumFunctionOnSet(h, S) = SumFunctionOnSet(f, S) + SumFunctionOnSet(g, S)
<1>. DEFINE Good == {T \in SUBSET S : SumFunctionOnSet(h, T) =
                       SumFunctionOnSet(f, T) + SumFunctionOnSet(g, T)}
<1>1. {} \in Good
  BY SumEmpty
<1>2. ASSUME NEW T \in SUBSET S, \A x \in T : T \ {x} \in Good
      PROVE  T \in Good
  <2>. SUFFICES ASSUME T # {} PROVE T \in Good
    BY <1>1
  <2>1. PICK y \in T : TRUE
    OBVIOUS
  <2>2. IsFiniteSet(T) /\ IsFiniteSet(T \ {y})
    BY FS_Subset
  <2>3. /\ SumFunctionOnSet(h, T) = h[y] + SumFunctionOnSet(h, T \ {y})
        /\ SumFunctionOnSet(f, T) = f[y] + SumFunctionOnSet(f, T \ {y})
        /\ SumFunctionOnSet(g, T) = g[y] + SumFunctionOnSet(g, T \ {y})
    BY <2>1, <2>2, SumTake
  <2>4. /\ SumFunctionOnSet(f, T \ {y}) \in Int
        /\ SumFunctionOnSet(g, T \ {y}) \in Int
    BY <2>2, SumInt
  <2>. QED  BY <1>2, <2>1, <2>3, <2>4
<1>3. S \in Good
  <2>. HIDE DEF Good
  <2>. QED  BY <1>1, <1>2, SetInduction
<1>. QED  BY <1>3

\* A common factor is taken out.
LEMMA SumTimes ==
  ASSUME NEW f, NEW h, NEW k \in Int, NEW S, IsFiniteSet(S),
         \A x \in S : f[x] \in Int /\ h[x] = k * f[x]
  PROVE  SumFunctionOnSet(h, S) = k * SumFunctionOnSet(f, S)
<1>. DEFINE Good == {T \in SUBSET S : SumFunctionOnSet(h, T) = k * SumFunctionOnSet(f, T)}
<1>1. {} \in Good
  BY SumEmpty
<1>2. ASSUME NEW T \in SUBSET S, \A x \in T : T \ {x} \in Good
      PROVE  T \in Good
  <2>. SUFFICES ASSUME T # {} PROVE T \in Good
    BY <1>1
  <2>1. PICK y \in T : TRUE
    OBVIOUS
  <2>2. IsFiniteSet(T) /\ IsFiniteSet(T \ {y})
    BY FS_Subset
  <2>3. /\ SumFunctionOnSet(h, T) = h[y] + SumFunctionOnSet(h, T \ {y})
        /\ SumFunctionOnSet(f, T) = f[y] + SumFunctionOnSet(f, T \ {y})
    BY <2>1, <2>2, SumTake
  <2>4. f[y] \in Int /\ SumFunctionOnSet(f, T \ {y}) \in Int
    BY <2>2, SumInt
  <2>5. k * (f[y] + SumFunctionOnSet(f, T \ {y}))
          = k * f[y] + k * SumFunctionOnSet(f, T \ {y})
    BY <2>4
  <2>. QED  BY <1>2, <2>1, <2>3, <2>5
<1>3. S \in Good
  <2>. HIDE DEF Good
  <2>. QED  BY <1>1, <1>2, SetInduction
<1>. QED  BY <1>3

\* Equal terms, equal sums; one greater term, a greater sum.
LEMMA SumLess ==
  ASSUME NEW f, NEW h, NEW S, IsFiniteSet(S),
         \A x \in S : f[x] \in Int /\ h[x] \in Int /\ f[x] <= h[x]
  PROVE  /\ SumFunctionOnSet(f, S) <= SumFunctionOnSet(h, S)
         /\ (\E x \in S : f[x] < h[x]) => SumFunctionOnSet(f, S) < SumFunctionOnSet(h, S)
         /\ (\A x \in S : f[x] = h[x]) => SumFunctionOnSet(f, S) = SumFunctionOnSet(h, S)
<1>. DEFINE d == [x \in S |-> h[x] - f[x]]
            Good == {T \in SUBSET S :
                       /\ SumFunctionOnSet(d, T) >= 0
                       /\ (\E x \in T : d[x] > 0) => SumFunctionOnSet(d, T) > 0
                       /\ (\A x \in T : d[x] = 0) => SumFunctionOnSet(d, T) = 0}
<1>1. {} \in Good
  BY SumEmpty
<1>2. ASSUME NEW T \in SUBSET S, \A x \in T : T \ {x} \in Good
      PROVE  T \in Good
  <2>. SUFFICES ASSUME T # {} PROVE T \in Good
    BY <1>1
  <2>1. IsFiniteSet(T) /\ \A x \in T : d[x] \in Int /\ d[x] >= 0
    BY FS_Subset
  <2>2. \A y \in T : /\ SumFunctionOnSet(d, T) = d[y] + SumFunctionOnSet(d, T \ {y})
                     /\ SumFunctionOnSet(d, T \ {y}) \in Int
                     /\ SumFunctionOnSet(d, T \ {y}) >= 0
    <3>. HIDE DEF d
    <3>. TAKE y \in T
    <3>1. IsFiniteSet(T \ {y})
      BY <2>1, FS_Subset
    <3>. QED  BY <2>1, <3>1, <1>2, SumTake, SumInt
  <2>. HIDE DEF d
  <2>3. SumFunctionOnSet(d, T) >= 0
    <3>1. PICK y \in T : TRUE
      OBVIOUS
    <3>2. d[y] \in Int /\ d[y] >= 0
      BY <2>1, <3>1
    <3>3. /\ SumFunctionOnSet(d, T) = d[y] + SumFunctionOnSet(d, T \ {y})
          /\ SumFunctionOnSet(d, T \ {y}) \in Int
          /\ SumFunctionOnSet(d, T \ {y}) >= 0
      BY <2>2, <3>1
    <3>. QED  BY <3>2, <3>3
  <2>4. ASSUME NEW y \in T, d[y] > 0
        PROVE  SumFunctionOnSet(d, T) > 0
    <3>1. d[y] \in Int
      BY <2>1
    <3>2. /\ SumFunctionOnSet(d, T) = d[y] + SumFunctionOnSet(d, T \ {y})
          /\ SumFunctionOnSet(d, T \ {y}) \in Int
          /\ SumFunctionOnSet(d, T \ {y}) >= 0
      BY <2>2
    <3>. QED  BY <2>4, <3>1, <3>2
  <2>5. ASSUME \A x \in T : d[x] = 0
        PROVE  SumFunctionOnSet(d, T) = 0
    <3>1. PICK y \in T : TRUE
      OBVIOUS
    <3>2. SumFunctionOnSet(d, T \ {y}) = 0
      BY <1>2, <2>5
    <3>. QED  BY <2>1, <2>2, <2>5, <3>1, <3>2
  <2>. QED  BY <2>3, <2>4, <2>5
<1>3. S \in Good
  <2>. HIDE DEF Good
  <2>. QED  BY <1>1, <1>2, SetInduction
<1>4. SumFunctionOnSet(h, S) = SumFunctionOnSet(f, S) + SumFunctionOnSet(d, S)
  <2>1. \A x \in S : f[x] \in Int /\ d[x] \in Int /\ h[x] = f[x] + d[x]
    OBVIOUS
  <2>. HIDE DEF d
  <2>. QED  BY <2>1, SumPlus
<1>5. SumFunctionOnSet(f, S) \in Int /\ SumFunctionOnSet(d, S) \in Int
  <2>1. \A x \in S : f[x] \in Int /\ d[x] \in Int
    OBVIOUS
  <2>. HIDE DEF d
  <2>. QED  BY <2>1, SumInt
<1>6. /\ SumFunctionOnSet(d, S) >= 0
      /\ (\E x \in S : d[x] > 0) => SumFunctionOnSet(d, S) > 0
      /\ (\A x \in S : d[x] = 0) => SumFunctionOnSet(d, S) = 0
  BY <1>3
<1>7. /\ (\E x \in S : f[x] < h[x]) => \E x \in S : d[x] > 0
      /\ (\A x \in S : f[x] = h[x]) => \A x \in S : d[x] = 0
  OBVIOUS
<1>. QED
  <2>. HIDE DEF d
  <2>. QED  BY <1>4, <1>5, <1>6, <1>7

\* What is summed over a set may be summed over its parts.
LEMMA SumParts ==
  ASSUME NEW f, NEW S, IsFiniteSet(S), \A x \in S : f[x] \in Int, NEW R \in SUBSET S
  PROVE  SumFunctionOnSet(f, S) = SumFunctionOnSet(f, R) + SumFunctionOnSet(f, S \ R)
<1>. DEFINE Good == {T \in SUBSET R : SumFunctionOnSet(f, T \cup (S \ R)) =
                       SumFunctionOnSet(f, T) + SumFunctionOnSet(f, S \ R)}
<1>1. IsFiniteSet(R) /\ \A T \in SUBSET S : IsFiniteSet(T) /\ SumFunctionOnSet(f, T) \in Int
  BY FS_Subset, SumInt
<1>2. {} \in Good
  <2>1. {} \cup (S \ R) = S \ R
    OBVIOUS
  <2>. QED  BY <1>1, <2>1, SumEmpty
<1>3. ASSUME NEW T \in SUBSET R, \A x \in T : T \ {x} \in Good
      PROVE  T \in Good
  <2>. SUFFICES ASSUME T # {} PROVE T \in Good
    BY <1>2
  <2>1. PICK y \in T : TRUE
    OBVIOUS
  <2>. DEFINE U == T \cup (S \ R)
  <2>2. U \in SUBSET S /\ U \ {y} = (T \ {y}) \cup (S \ R)
    BY <2>1
  <2>3. SumFunctionOnSet(f, U) = f[y] + SumFunctionOnSet(f, U \ {y})
    <3>. HIDE DEF U
    <3>1. y \in U
      BY <2>1 DEF U
    <3>. QED  BY <2>2, <3>1, <1>1, SumTake
  <2>4. SumFunctionOnSet(f, T) = f[y] + SumFunctionOnSet(f, T \ {y})
    BY <2>1, <1>1, SumTake
  <2>5. SumFunctionOnSet(f, U \ {y}) =
          SumFunctionOnSet(f, T \ {y}) + SumFunctionOnSet(f, S \ R)
    BY <2>1, <2>2, <1>3
  <2>6. f[y] \in Int /\ T \ {y} \in SUBSET S /\ S \ R \in SUBSET S
    BY <2>1
  <2>. QED  BY <2>3, <2>4, <2>5, <2>6, <1>1
<1>4. R \in Good
  <2>. HIDE DEF Good
  <2>. QED  BY <1>1, <1>2, <1>3, SetInduction
<1>5. R \cup (S \ R) = S
  OBVIOUS
<1>. QED  BY <1>4, <1>5

\* Grouped by a key, the sums of the groups add up to the whole.
LEMMA SumGroups ==
  ASSUME NEW f, NEW S, IsFiniteSet(S), \A x \in S : f[x] \in Int,
         NEW K, IsFiniteSet(K), NEW key, \A x \in S : key[x] \in K,
         NEW group, \A k \in K : group[k] = {x \in S : key[x] = k},
         NEW h, \A k \in K : h[k] = SumFunctionOnSet(f, group[k])
  PROVE  SumFunctionOnSet(h, K) = SumFunctionOnSet(f, S)
<1>. DEFINE In(T) == {x \in S : key[x] \in T}
            Good == {T \in SUBSET K : SumFunctionOnSet(h, T) = SumFunctionOnSet(f, In(T))}
<1>1. \A R \in SUBSET S : IsFiniteSet(R) /\ SumFunctionOnSet(f, R) \in Int
  BY FS_Subset, SumInt
<1>2. \A k \in K : h[k] \in Int
  <2>1. \A k \in K : group[k] \in SUBSET S
    OBVIOUS
  <2>. QED  BY <1>1, <2>1
<1>3. {} \in Good
  <2>1. In({}) = {}
    OBVIOUS
  <2>. QED  BY <2>1, SumEmpty
<1>4. ASSUME NEW T \in SUBSET K, \A k \in T : T \ {k} \in Good
      PROVE  T \in Good
  <2>. SUFFICES ASSUME T # {} PROVE T \in Good
    BY <1>3
  <2>1. PICK k \in T : TRUE
    OBVIOUS
  <2>. DEFINE R == {x \in S : key[x] = k}
  <2>2. IsFiniteSet(T)
    BY FS_Subset
  <2>3. SumFunctionOnSet(h, T) = h[k] + SumFunctionOnSet(h, T \ {k})
    BY <2>1, <2>2, <1>2, SumTake
  <2>4. /\ R \in SUBSET In(T) /\ In(T) \ R = In(T \ {k}) /\ In(T) \in SUBSET S
    BY <2>1
  <2>5. SumFunctionOnSet(f, In(T)) =
          SumFunctionOnSet(f, R) + SumFunctionOnSet(f, In(T) \ R)
    <3>. DEFINE I == In(T)
    <3>1. IsFiniteSet(I) /\ \A x \in I : f[x] \in Int
      BY <2>4, <1>1
    <3>2. R \in SUBSET I
      BY <2>4
    <3>3. SumFunctionOnSet(f, I) = SumFunctionOnSet(f, R) + SumFunctionOnSet(f, I \ R)
      <4>. HIDE DEF R, I
      <4>. QED  BY <3>1, <3>2, SumParts
    <3>. QED  BY <3>3
  <2>6. SumFunctionOnSet(h, T \ {k}) = SumFunctionOnSet(f, In(T \ {k}))
    BY <2>1, <1>4
  <2>7. h[k] = SumFunctionOnSet(f, R)
    <3>1. k \in K /\ group[k] = R
      BY <2>1
    <3>. HIDE DEF R
    <3>. QED  BY <3>1
  <2>8. SumFunctionOnSet(h, T) = SumFunctionOnSet(f, In(T))
    <3>. HIDE DEF R, In
    <3>. QED  BY <2>3, <2>4, <2>5, <2>6, <2>7
  <2>. QED  BY <2>8
<1>5. K \in Good
  <2>. HIDE DEF Good
  <2>. QED  BY <1>3, <1>4, SetInduction
<1>6. In(K) = S
  OBVIOUS
<1>. QED  BY <1>5, <1>6

\* A sum of one.
LEMMA SumOne ==
  ASSUME NEW f, NEW y, f[y] \in Int
  PROVE  SumFunctionOnSet(f, {y}) = f[y]
<1>. DEFINE S == {y}
<1>1. IsFiniteSet(S) /\ y \in S /\ S \ {y} = {} /\ \A x \in S : f[x] \in Int
  BY FS_Singleton
<1>. HIDE DEF S
<1>2. SumFunctionOnSet(f, S) = f[y] + SumFunctionOnSet(f, S \ {y})
  BY <1>1, SumTake
<1>3. SumFunctionOnSet(f, S \ {y}) = 0
  BY <1>1, SumEmpty
<1>. QED  BY <1>2, <1>3 DEF S

\* Relabelled one by one, a sum stays.
LEMMA SumRelabel ==
  ASSUME NEW f, NEW S, IsFiniteSet(S), \A x \in S : f[x] \in Int,
         NEW K, IsFiniteSet(K), NEW key, \A x \in S : key[x] \in K,
         NEW back, \A k \in K : back[k] \in S /\ key[back[k]] = k,
         \A x \in S : back[key[x]] = x,
         NEW h, \A k \in K : h[k] = f[back[k]]
  PROVE  SumFunctionOnSet(h, K) = SumFunctionOnSet(f, S)
<1>. DEFINE group == [k \in K |-> {x \in S : key[x] = k}]
<1>1. \A k \in K : group[k] = {x \in S : key[x] = k}
  OBVIOUS
<1>2. \A k \in K : group[k] = {back[k]}
  OBVIOUS
<1>. HIDE DEF group
<1>3. \A k \in K : h[k] = SumFunctionOnSet(f, group[k])
  <2>. TAKE k \in K
  <2>1. SumFunctionOnSet(f, {back[k]}) = f[back[k]]
    BY SumOne
  <2>. QED  BY <1>2, <2>1
<1>. QED  BY <1>1, <1>3, SumGroups

-----------------------------------------------------------------------------
(* Bags.                                                                   *)

\* The finite bags of elements of S.
BagsOf(S) ==
  {b \in UNION {[D -> Nat \ {0}] : D \in SUBSET S} : IsFiniteSet(DOMAIN b)}

Copies(b, x) == IF x \in DOMAIN b THEN b[x] ELSE 0

\* What a bag is.
LEMMA BagTyped ==
  ASSUME NEW S, NEW b \in BagsOf(S)
  PROVE  /\ DOMAIN b \subseteq S /\ IsFiniteSet(DOMAIN b)
         /\ b = [x \in DOMAIN b |-> b[x]] /\ \A x \in DOMAIN b : b[x] \in Nat \ {0}
         /\ \A x : Copies(b, x) \in Nat /\ (x \in DOMAIN b <=> Copies(b, x) > 0)
BY DEF BagsOf, Copies

\* A bag is how many copies it holds of what.
LEMMA BagIs ==
  ASSUME NEW S, NEW b, DOMAIN b \subseteq S, IsFiniteSet(DOMAIN b),
         b = [x \in DOMAIN b |-> b[x]], \A x \in DOMAIN b : b[x] \in Nat \ {0}
  PROVE  b \in BagsOf(S)
BY DEF BagsOf

\* Bags that hold the same are the same.
LEMMA BagSame ==
  ASSUME NEW S, NEW a \in BagsOf(S), NEW b \in BagsOf(S),
         \A x \in S : Copies(a, x) = Copies(b, x)
  PROVE  a = b
<1>1. \A x \in S : x \in DOMAIN a <=> x \in DOMAIN b
  BY BagTyped
<1>2. DOMAIN a = DOMAIN b
  BY <1>1, BagTyped
<1>3. \A x \in DOMAIN a : a[x] = b[x]
  BY <1>2, BagTyped DEF Copies
<1>4. a = [x \in DOMAIN a |-> a[x]] /\ b = [x \in DOMAIN b |-> b[x]]
  BY BagTyped
<1>. QED  BY <1>2, <1>3, <1>4

\* The empty bag.
LEMMA BagEmpty ==
  ASSUME NEW S
  PROVE  EmptyBag \in BagsOf(S) /\ \A x : Copies(EmptyBag, x) = 0
<1>1. EmptyBag = [x \in {} |-> 1]
  BY DEF EmptyBag, SetToBag
<1>. HIDE DEF EmptyBag
<1>. QED  BY <1>1, BagIs, FS_EmptySet DEF Copies

\* A bag of one.
LEMMA BagOne ==
  ASSUME NEW S, NEW c \in S
  PROVE  /\ SetToBag({c}) \in BagsOf(S)
         /\ \A x : Copies(SetToBag({c}), x) = IF x = c THEN 1 ELSE 0
<1>1. SetToBag({c}) = [x \in {c} |-> 1]
  BY DEF SetToBag
<1>2. IsFiniteSet({c})
  BY FS_Singleton
<1>. HIDE DEF SetToBag
<1>. QED  BY <1>1, <1>2, BagIs DEF Copies

\* The bag of two bags.
LEMMA BagPlus ==
  ASSUME NEW S, NEW a \in BagsOf(S), NEW b \in BagsOf(S)
  PROVE  /\ a (+) b \in BagsOf(S)
         /\ \A x : Copies(a (+) b, x) = Copies(a, x) + Copies(b, x)
<1>. DEFINE D == DOMAIN a \cup DOMAIN b
            s == [x \in D |-> Copies(a, x) + Copies(b, x)]
<1>1. IsFiniteSet(D) /\ D \subseteq S
  BY BagTyped, FS_Union
<1>2. a (+) b = s
  BY DEF (+), Copies
<1>3. \A x \in D : s[x] \in Nat \ {0}
  BY BagTyped
<1>4. s \in BagsOf(S)
  <2>1. DOMAIN s = D /\ s = [x \in DOMAIN s |-> s[x]]
    OBVIOUS
  <2>. HIDE DEF D, s
  <2>. QED  BY <2>1, <1>1, <1>3, BagIs
<1>5. \A x : Copies(s, x) = Copies(a, x) + Copies(b, x)
  <2>1. \A x : x \notin D => Copies(a, x) = 0 /\ Copies(b, x) = 0
    BY DEF Copies
  <2>. HIDE DEF D
  <2>2. \A x : Copies(s, x) = IF x \in D THEN Copies(a, x) + Copies(b, x) ELSE 0
    BY DEF Copies
  <2>. QED  BY <2>1, <2>2
<1>. QED  BY <1>2, <1>4, <1>5

\* What a bag weighs, by the weight of an element.
Weigh(b, w) == SumFunctionOnSet([x \in DOMAIN b |-> b[x] * w[x]], DOMAIN b)

\* A sum of zeros.
LEMMA SumZero ==
  ASSUME NEW f, NEW S, IsFiniteSet(S), \A x \in S : f[x] = 0
  PROVE  SumFunctionOnSet(f, S) = 0
<1>1. SumFunctionOnSet(f, S) = 0 * SumFunctionOnSet(f, S)
  <2>1. \A x \in S : f[x] \in Int /\ f[x] = 0 * f[x]
    OBVIOUS
  <2>. QED  BY <2>1, SumTimes
<1>2. SumFunctionOnSet(f, S) \in Int
  BY SumInt
<1>. QED  BY <1>1, <1>2

\* Elements that are not in the bag add nothing.
LEMMA WeighOver ==
  ASSUME NEW S, NEW b \in BagsOf(S), NEW w \in [S -> Int],
         NEW U \in SUBSET S, IsFiniteSet(U), DOMAIN b \subseteq U
  PROVE  /\ Weigh(b, w) = SumFunctionOnSet([x \in U |-> Copies(b, x) * w[x]], U)
         /\ Weigh(b, w) \in Int
<1>. DEFINE D == DOMAIN b
            f == [x \in U |-> Copies(b, x) * w[x]]
            g == [x \in D |-> b[x] * w[x]]
<1>1. \A x \in U : Copies(b, x) \in Int /\ w[x] \in Int
  BY BagTyped
<1>2. \A x \in U : f[x] \in Int
  BY <1>1
<1>3. \A x \in D : x \in U /\ f[x] = g[x]
  BY DEF Copies
<1>4. \A x \in U \ D : f[x] = 0
  BY <1>1 DEF Copies
<1>. HIDE DEF f, g
<1>5. SumFunctionOnSet(f, U) = SumFunctionOnSet(f, D) + SumFunctionOnSet(f, U \ D)
  BY <1>2, SumParts
<1>6. SumFunctionOnSet(f, U \ D) = 0
  BY <1>4, SumZero, FS_Difference
<1>7. IsFiniteSet(D)
  BY FS_Subset
<1>8. \A x \in D : f[x] \in Int /\ g[x] \in Int /\ f[x] <= g[x] /\ f[x] = g[x]
  BY <1>2, <1>3
<1>9. SumFunctionOnSet(f, D) = SumFunctionOnSet(g, D) /\ SumFunctionOnSet(g, D) \in Int
  BY <1>7, <1>8, SumLess, SumInt
<1>. QED  BY <1>5, <1>6, <1>9 DEF Weigh, f, g

\* Two bags weigh what each weighs.
LEMMA WeighPlus ==
  ASSUME NEW S, NEW a \in BagsOf(S), NEW b \in BagsOf(S), NEW s \in BagsOf(S),
         NEW w \in [S -> Int], \A x \in S : Copies(s, x) = Copies(a, x) + Copies(b, x)
  PROVE  Weigh(s, w) = Weigh(a, w) + Weigh(b, w)
<1>. DEFINE U == DOMAIN a \cup DOMAIN b \cup DOMAIN s
            f(bag) == [x \in U |-> Copies(bag, x) * w[x]]
<1>1. U \in SUBSET S /\ IsFiniteSet(U)
  BY BagTyped, FS_Union
<1>2. \A x \in U : Copies(a, x) \in Int /\ Copies(b, x) \in Int /\ w[x] \in Int
  BY <1>1, BagTyped
<1>3. \A x \in U : f(a)[x] \in Int /\ f(b)[x] \in Int /\ f(s)[x] = f(a)[x] + f(b)[x]
  <2>. SUFFICES ASSUME NEW x \in U
                PROVE  /\ f(a)[x] \in Int /\ f(b)[x] \in Int
                       /\ f(s)[x] = f(a)[x] + f(b)[x]
    OBVIOUS
  <2>1. f(a)[x] = Copies(a, x) * w[x] /\ f(b)[x] = Copies(b, x) * w[x]
        /\ f(s)[x] = (Copies(a, x) + Copies(b, x)) * w[x]
    BY <1>1
  <2>. HIDE DEF U, f
  <2>2. (Copies(a, x) + Copies(b, x)) * w[x] = Copies(a, x) * w[x] + Copies(b, x) * w[x]
    BY <1>2
  <2>. QED  BY <1>2, <2>1, <2>2
<1>4. DOMAIN a \subseteq U /\ DOMAIN b \subseteq U /\ DOMAIN s \subseteq U
  OBVIOUS
<1>5. /\ Weigh(a, w) = SumFunctionOnSet(f(a), U) /\ Weigh(b, w) = SumFunctionOnSet(f(b), U)
      /\ Weigh(s, w) = SumFunctionOnSet(f(s), U)
  <2>. HIDE DEF U
  <2>. QED  BY <1>1, <1>4, WeighOver
<1>. HIDE DEF U, f
<1>. QED  BY <1>1, <1>3, <1>5, SumPlus

\* A bag scaled weighs as often as much.
LEMMA WeighTimes ==
  ASSUME NEW S, NEW b \in BagsOf(S), NEW s \in BagsOf(S), NEW k \in Int,
         NEW w \in [S -> Int], \A x \in S : Copies(s, x) = k * Copies(b, x)
  PROVE  Weigh(s, w) = k * Weigh(b, w)
<1>. DEFINE U == DOMAIN b \cup DOMAIN s
            f(bag) == [x \in U |-> Copies(bag, x) * w[x]]
<1>1. U \in SUBSET S /\ IsFiniteSet(U)
  BY BagTyped, FS_Union
<1>2. \A x \in U : Copies(b, x) \in Int /\ w[x] \in Int
  BY <1>1, BagTyped
<1>3. \A x \in U : f(b)[x] \in Int /\ f(s)[x] = k * f(b)[x]
  <2>. SUFFICES ASSUME NEW x \in U
                PROVE  f(b)[x] \in Int /\ f(s)[x] = k * f(b)[x]
    OBVIOUS
  <2>1. f(b)[x] = Copies(b, x) * w[x] /\ f(s)[x] = (k * Copies(b, x)) * w[x]
    BY <1>1
  <2>. HIDE DEF U, f
  <2>2. (k * Copies(b, x)) * w[x] = k * (Copies(b, x) * w[x])
    BY <1>2
  <2>. QED  BY <1>2, <2>1, <2>2
<1>4. DOMAIN b \subseteq U /\ DOMAIN s \subseteq U
  OBVIOUS
<1>5. Weigh(b, w) = SumFunctionOnSet(f(b), U) /\ Weigh(s, w) = SumFunctionOnSet(f(s), U)
  <2>. HIDE DEF U
  <2>. QED  BY <1>1, <1>4, WeighOver
<1>. HIDE DEF U, f
<1>. QED  BY <1>1, <1>3, <1>5, SumTimes

\* So many copies of one element.
LEMMA WeighOne ==
  ASSUME NEW S, NEW c \in S, NEW n \in Nat, NEW s \in BagsOf(S), NEW w \in [S -> Int],
         \A x \in S : Copies(s, x) = IF x = c THEN n ELSE 0
  PROVE  Weigh(s, w) = n * w[c]
<1>. DEFINE f == [x \in {c} |-> Copies(s, x) * w[x]]
<1>1. IsFiniteSet({c}) /\ {c} \in SUBSET S
  BY FS_Singleton
<1>2. DOMAIN s \subseteq {c}
  <2>1. \A x \in DOMAIN s : x \in S /\ Copies(s, x) > 0
    BY BagTyped
  <2>. QED  BY <2>1
<1>3. Weigh(s, w) = SumFunctionOnSet(f, {c})
  BY <1>1, <1>2, WeighOver
<1>4. f[c] = n * w[c] /\ n * w[c] \in Int
  OBVIOUS
<1>. HIDE DEF f
<1>5. SumFunctionOnSet(f, {c}) = f[c] + SumFunctionOnSet(f, {c} \ {c})
  BY <1>1, <1>4, SumTake
<1>6. {c} \ {c} = {}
  OBVIOUS
<1>7. SumFunctionOnSet(f, {c} \ {c}) = 0
  BY <1>6, SumEmpty
<1>8. f[c] \in Int
  BY <1>4
<1>9. SumFunctionOnSet(f, {c}) = f[c]
  BY <1>5, <1>7, <1>8
<1>. QED  BY <1>3, <1>4, <1>9

\* Nothing weighs nothing.
LEMMA WeighEmpty == \A w : Weigh(EmptyBag, w) = 0
<1>1. DOMAIN EmptyBag = {}
  BY DEF EmptyBag, SetToBag
<1>. QED  BY <1>1, SumEmpty DEF Weigh

-----------------------------------------------------------------------------
(* Places.                                                                 *)

\* A remainder does not see the multiples.
LEMMA ModIs ==
  ASSUME NEW L \in Nat \ {0}, NEW k \in Nat, NEW r \in 0..(L - 1)
  PROVE  (k * L + r) % L = r
<1>. DEFINE a == k * L + r
            q == a \div L
            s == a % L
<1>1. a \in Nat
  OBVIOUS
<1>2. s \in 0..(L - 1) /\ q \in Int /\ a = L * q + s
  <2>. HIDE DEF a
  <2>. QED BY <1>1
<1>3. a = L * k + r
  OBVIOUS
<1>. HIDE DEF a, q, s
<1>4. L * (q - k) = r - s
  BY <1>2, <1>3
<1>5. q - k = 0
  <2>1. r - s < L /\ r - s > -L
    BY <1>2
  <2>2. q - k >= 1 => L * (q - k) >= L
    BY <1>2
  <2>3. q - k <= -1 => L * (q - k) <= -L
    BY <1>2
  <2>. QED BY <2>1, <2>2, <2>3, <1>2, <1>4
<1>. QED BY <1>2, <1>4, <1>5 DEF a, s

-----------------------------------------------------------------------------
\* How many members a set has between two numbers.
HowMany(P, a, n) == Cardinality(P \cap (a..n))

\* It is a number.
LEMMA HowManyTyped ==
  ASSUME NEW P, NEW a \in Int, NEW n \in Int
  PROVE  IsFiniteSet(P \cap (a..n)) /\ HowMany(P, a, n) \in Nat
<1>1. IsFiniteSet(a..n)
  BY FS_Interval
<1>. QED  BY <1>1, FS_Subset, FS_CardinalityType DEF HowMany

\* One number more.
LEMMA HowManyMore ==
  ASSUME NEW P, NEW a \in Int, NEW n \in Int
  PROVE  /\ n < a => HowMany(P, a, n) = 0
         /\ n + 1 >= a => HowMany(P, a, n + 1) = HowMany(P, a, n) + (IF n + 1 \in P THEN 1 ELSE 0)
<1>1. ASSUME n < a PROVE HowMany(P, a, n) = 0
  <2>1. P \cap (a..n) = {}
    BY <1>1
  <2>. QED  BY <2>1, FS_EmptySet DEF HowMany
<1>2. ASSUME n + 1 >= a
      PROVE  HowMany(P, a, n + 1) = HowMany(P, a, n) + (IF n + 1 \in P THEN 1 ELSE 0)
  <2>1. CASE n + 1 \in P
    <3>1. P \cap (a..(n + 1)) = (P \cap (a..n)) \cup {n + 1} /\ n + 1 \notin P \cap (a..n)
      BY <1>2, <2>1
    <3>2. Cardinality((P \cap (a..n)) \cup {n + 1}) = Cardinality(P \cap (a..n)) + 1
      BY <3>1, HowManyTyped, FS_AddElement
    <3>. QED  BY <3>1, <3>2, <2>1 DEF HowMany
  <2>2. CASE n + 1 \notin P
    <3>1. P \cap (a..(n + 1)) = P \cap (a..n)
      BY <1>2, <2>2
    <3>2. HowMany(P, a, n) \in Nat
      BY HowManyTyped
    <3>3. HowMany(P, a, n + 1) = HowMany(P, a, n)
      BY <3>1 DEF HowMany
    <3>. QED  BY <3>2, <3>3, <2>2
  <2>. QED  BY <2>1, <2>2
<1>. QED  BY <1>1, <1>2

\* The place in a block of length L that the j-th layer of its repetition has.
Offset(j, L) == ((j - 1) % L) + 1

\* The j-th layer of the k-th repetition.
LEMMA OffsetIs ==
  ASSUME NEW L \in Nat \ {0}, NEW k \in Nat, NEW r \in 1..L
  PROVE  Offset(k * L + r, L) = r
<1>1. k * L + r - 1 = k * L + (r - 1) /\ r - 1 \in 0..(L - 1)
  OBVIOUS
<1>2. (k * L + (r - 1)) % L = r - 1
  BY <1>1, ModIs
<1>. QED  BY <1>1, <1>2 DEF Offset

\* Every number is the r-th of a repetition; the one before it is the one
\* before, or the last of the repetition before.
LEMMA OffsetSplit ==
  ASSUME NEW L \in Nat \ {0}, NEW j \in Nat \ {0}
  PROVE  /\ Offset(j, L) \in 1..L
         /\ \E k \in Nat : j = k * L + Offset(j, L)
         /\ j > 1 => Offset(j - 1, L) = IF Offset(j, L) = 1 THEN L ELSE Offset(j, L) - 1
<1>. DEFINE a == j - 1
            k == a \div L
            s == a % L
<1>1. a \in Nat
  OBVIOUS
<1>2. s \in 0..(L - 1) /\ k \in Int /\ a = L * k + s
  <2>. HIDE DEF a
  <2>. QED BY <1>1
<1>3. Offset(j, L) = s + 1
  BY DEF Offset
<1>. HIDE DEF k, s
<1>4. k \in Nat
  <2>1. k <= -1 => L * k <= -L
    BY <1>2
  <2>. QED  BY <1>1, <1>2, <2>1
<1>5. j = k * L + (s + 1)
  BY <1>2
<1>6. ASSUME j > 1 PROVE Offset(j - 1, L) = IF Offset(j, L) = 1 THEN L ELSE Offset(j, L) - 1
  <2>1. CASE s = 0
    <3>1. k # 0
      BY <2>1, <1>2, <1>6
    <3>2. k - 1 \in Nat /\ (k - 1) * L = k * L - L
      BY <3>1, <1>4
    <3>3. j - 1 = (k - 1) * L + L /\ L \in 1..L
      BY <3>2, <1>5, <2>1, <1>4
    <3>4. Offset((k - 1) * L + L, L) = L
      BY <3>2, <3>3, OffsetIs
    <3>. QED  BY <3>3, <3>4, <2>1, <1>3
  <2>2. CASE s # 0
    <3>1. j - 1 = k * L + s /\ s \in 1..L
      BY <1>4, <1>5, <1>2, <2>2
    <3>2. Offset(k * L + s, L) = s
      BY <3>1, <1>4, OffsetIs
    <3>. QED  BY <3>1, <3>2, <2>2, <1>2, <1>3
  <2>. QED  BY <2>1, <2>2
<1>. QED  BY <1>2, <1>3, <1>4, <1>5, <1>6

\* What is so often in a block is d times as often in d of them.
LEMMA Repeats ==
  ASSUME NEW L \in Nat \ {0}, NEW P, NEW d \in Nat
  PROVE  HowMany({j \in Nat \ {0} : Offset(j, L) \in P}, 1, d * L) = d * HowMany(P, 1, L)
<1>. DEFINE Q == {j \in Nat \ {0} : Offset(j, L) \in P}
            h == HowMany(P, 1, L)
            S == {n \in Nat : HowMany(Q, 1, n * L) = n * h}
<1>1. h \in Nat
  <2>1. 1 \in Int /\ L \in Int
    OBVIOUS
  <2>. QED  BY <2>1, HowManyTyped
<1>2. 0 \in S
  <2>1. HowMany(Q, 1, 0) = 0
    BY HowManyMore
  <2>2. 0 * L = 0 /\ 0 * h = 0
    BY <1>1
  <2>. HIDE DEF Q, h
  <2>. QED  BY <2>1, <2>2
<1>3. ASSUME NEW n \in Nat, n \in S
      PROVE  n + 1 \in S
  <2>. DEFINE a == n * L
              X == Q \cap (1..a)
              Y == Q \cap ((a + 1)..(a + L))
              Z == P \cap (1..L)
              f == [r \in Z |-> a + r]
  <2>1. a \in Nat /\ (n + 1) * L = a + L /\ (n + 1) * h = n * h + h
    BY <1>1
  <2>2. \A r \in 1..L : Offset(a + r, L) = r
    BY OffsetIs
  <2>. HIDE DEF a
  <2>3. Y = {a + r : r \in Z}
    <3>1. ASSUME NEW j \in Y PROVE \E r \in Z : j = a + r
      <4>1. j - a \in 1..L /\ j = a + (j - a) /\ Offset(j, L) \in P
        BY <2>1
      <4>2. Offset(j, L) = j - a
        BY <4>1, <2>2
      <4>. QED  BY <4>1, <4>2
    <3>2. ASSUME NEW r \in Z PROVE a + r \in Y
      BY <2>1, <2>2
    <3>. HIDE DEF Y, Z
    <3>. QED  BY <3>1, <3>2
  <2>4. f \in Bijection(Z, Y)
    <3>1. \A r \in Z : r \in Int
      OBVIOUS
    <3>2. f \in [Z -> Y] /\ \A r \in Z : f[r] = a + r
      BY <2>3
    <3>. HIDE DEF Y, Z, f
    <3>3. \A r, s \in Z : f[r] = f[s] => r = s
      BY <3>1, <3>2, <2>1
    <3>4. \A y \in Y : \E r \in Z : f[r] = y
      BY <2>3, <3>2
    <3>. QED  BY <3>2, <3>3, <3>4 DEF Bijection, Injection, Surjection, IsInjective
  <2>5. IsFiniteSet(Z) /\ IsFiniteSet(X) /\ IsFiniteSet(Y)
    <3>1. 1 \in Int /\ L \in Int /\ a \in Int /\ a + 1 \in Int /\ a + L \in Int
      BY <2>1
    <3>. HIDE DEF Q
    <3>. QED  BY <3>1, HowManyTyped
  <2>6. Cardinality(Y) = Cardinality(Z)
    <3>1. ExistsBijection(Z, Y)
      BY <2>4 DEF ExistsBijection
    <3>. HIDE DEF Y, Z
    <3>. QED  BY <3>1, <2>5, FS_Bijection
  <2>7. Q \cap (1..(a + L)) = X \cup Y /\ X \cap Y = {}
    BY <2>1
  <2>8. Cardinality(X \cup Y) = Cardinality(X) + Cardinality(Y)
    <3>. HIDE DEF X, Y
    <3>1. Cardinality(X \cup Y) = Cardinality(X) + Cardinality(Y) - Cardinality(X \cap Y)
      BY <2>5, FS_Union
    <3>2. Cardinality(X \cap Y) = 0
      BY <2>7, FS_EmptySet
    <3>. QED  BY <3>1, <3>2, <2>5, FS_CardinalityType
  <2>9. HowMany(Q, 1, a + L) = HowMany(Q, 1, a) + h
    BY <2>6, <2>7, <2>8 DEF HowMany
  <2>10. HowMany(Q, 1, a) = n * h
    BY <1>3 DEF a
  <2>. HIDE DEF Q, h
  <2>. QED  BY <2>1, <2>9, <2>10
<1>. HIDE DEF S
<1>4. Nat \subseteq S
  BY <1>2, <1>3, Induction
<1>5. d \in S
  BY <1>4
<1>. QED  BY <1>5 DEF S

\* Places in a block, and in all but the first of its d repetitions another one.
LEMMA RepeatsBut ==
  ASSUME NEW L \in Nat \ {0}, NEW M, NEW d \in Nat \ {0}, NEW B \in BOOLEAN,
         NEW U, \A j \in 2..(d * L) :
           j \in U <=> IF Offset(j, L) = 1 THEN B ELSE Offset(j, L) \in M
  PROVE  HowMany(U, 2, d * L) = d * HowMany(M, 2, L) + (IF B THEN d - 1 ELSE 0)
<1>. DEFINE N == M \cap (2..L)
            Q == {j \in Nat \ {0} : Offset(j, L) \in N}
            R == {j \in Nat \ {0} : Offset(j, L) \in {1}}
            n == d * L
<1>1. n \in Nat /\ L \in Int /\ n >= L
  <2>1. d >= 1
    OBVIOUS
  <2>. QED  BY <2>1
<1>2. HowMany(N, 1, L) = HowMany(M, 2, L)
  <2>1. N \cap (1..L) = M \cap (2..L)
    OBVIOUS
  <2>. QED  BY <2>1 DEF HowMany
<1>3. HowMany({1}, 1, L) = 1
  <2>1. {1} \cap (1..L) = {1}
    OBVIOUS
  <2>. QED  BY <2>1, FS_Singleton DEF HowMany
<1>4. HowMany(Q, 1, n) = d * HowMany(M, 2, L)
  <2>. HIDE DEF N
  <2>. QED  BY <1>2, Repeats
<1>5. HowMany(R, 1, n) = d * 1
  BY <1>3, Repeats
<1>6. \A j \in 1..n : Offset(j, L) \in 1..L
  <2>. HIDE DEF n
  <2>. QED  BY <1>1, OffsetSplit
<1>7. Offset(1, L) = 1
  <2>1. 0 * L + 1 = 1 /\ 1 \in 1..L
    OBVIOUS
  <2>2. Offset(0 * L + 1, L) = 1
    BY OffsetIs
  <2>. QED  BY <2>1, <2>2
<1>. HIDE DEF n
<1>. DEFINE X == Q \cap (1..n)
            Y == R \cap (1..n)
<1>8. IsFiniteSet(X) /\ IsFiniteSet(Y)
  <2>1. 1 \in Int /\ n \in Int
    BY <1>1
  <2>. HIDE DEF Q, R
  <2>. QED  BY <2>1, HowManyTyped
<1>9. /\ Cardinality(X) = d * HowMany(M, 2, L) /\ Cardinality(Y) = d
      /\ HowMany(M, 2, L) \in Nat
  <2>1. 2 \in Int /\ L \in Int /\ d * 1 = d
    BY <1>1
  <2>2. HowMany(M, 2, L) \in Nat
    BY ONLY <2>1, HowManyTyped
  <2>3. Cardinality(X) = HowMany(Q, 1, n) /\ Cardinality(Y) = HowMany(R, 1, n)
    BY DEF HowMany
  <2>. QED  BY <1>4, <1>5, <2>1, <2>2, <2>3
<1>10. 1 \in Y /\ 1 \notin X
  BY <1>1, <1>7
<1>11. X \cap Y = {}
  OBVIOUS
<1>12. CASE B = FALSE
  <2>1. U \cap (2..n) = X
    <3>1. ASSUME NEW j \in 2..n PROVE j \in U <=> j \in X
      <4>1. j \in U <=> IF Offset(j, L) = 1 THEN B ELSE Offset(j, L) \in M
        BY DEF n
      <4>. QED  BY <4>1, <1>6, <1>12, <1>1
    <3>2. \A j \in X : j \in 2..n
      BY <1>7, <1>1
    <3>. HIDE DEF X
    <3>. QED  BY <3>1, <3>2
  <2>2. HowMany(U, 2, n) = Cardinality(X)
    BY <2>1 DEF HowMany
  <2>. HIDE DEF X
  <2>3. d * HowMany(M, 2, L) \in Nat
    BY <1>9
  <2>. QED  BY <2>2, <2>3, <1>9, <1>12 DEF n
<1>13. CASE B = TRUE
  <2>. DEFINE Z == Y \ {1}
  <2>1. U \cap (2..n) = X \cup Z
    <3>1. ASSUME NEW j \in 2..n PROVE j \in U <=> j \in X \cup Z
      <4>1. j \in U <=> IF Offset(j, L) = 1 THEN B ELSE Offset(j, L) \in M
        BY DEF n
      <4>. QED  BY <4>1, <1>6, <1>13, <1>1
    <3>2. \A j \in X \cup Z : j \in 2..n
      BY <1>7, <1>1
    <3>. HIDE DEF X, Z
    <3>. QED  BY <3>1, <3>2
  <2>2. X \cap Z = {}
    OBVIOUS
  <2>3. IsFiniteSet(Z) /\ Cardinality(Z) = d - 1
    <3>. HIDE DEF X, Y
    <3>. QED  BY <1>8, <1>9, <1>10, FS_RemoveElement
  <2>4. Cardinality(X \cup Z) = d * HowMany(M, 2, L) + (d - 1)
    <3>. HIDE DEF X, Z
    <3>1. Cardinality(X \cup Z) = Cardinality(X) + Cardinality(Z) - Cardinality(X \cap Z)
      BY <1>8, <2>3, FS_Union
    <3>2. Cardinality(X \cap Z) = 0
      BY <2>2, FS_EmptySet
    <3>. QED  BY <3>1, <3>2, <1>9, <2>3
  <2>. QED  BY <2>1, <2>4, <1>13 DEF HowMany, n
<1>. QED  BY <1>12, <1>13

-----------------------------------------------------------------------------
\* Pairs of a row's number and a place in the row, up to row n.
RowPairs(Row, n) == UNION {{<<q, j>> : j \in Row[q]} : q \in 1..n}

\* What a set of pairs has in one row.
RowOf(Row, n, X) == {j \in Row[n] : <<n, j>> \in X}

\* One row more.
LEMMA RowsMore ==
  ASSUME NEW Row, NEW N \in Nat, \A q \in 1..N : IsFiniteSet(Row[q]),
         NEW n \in Nat, n < N, NEW X, IsFiniteSet(RowPairs(Row, n))
  PROVE  /\ RowPairs(Row, 0) = {} /\ IsFiniteSet(RowPairs(Row, n + 1))
         /\ RowPairs(Row, n) \subseteq RowPairs(Row, n + 1)
         /\ Cardinality(X \cap RowPairs(Row, n + 1)) =
              Cardinality(X \cap RowPairs(Row, n))
                + Cardinality(RowOf(Row, n + 1, X))
         /\ Cardinality(X \cap RowPairs(Row, n)) \in Nat
<1>. DEFINE P == RowPairs(Row, n)
            m == n + 1
            T == {<<m, j>> : j \in Row[m]}
            J == {j \in Row[m] : <<m, j>> \in X}
            A == X \cap P
            B == X \cap T
            f == [j \in J |-> <<m, j>>]
<1>1. RowPairs(Row, m) = P \cup T
  BY DEF RowPairs
<1>2. P \cap T = {}
  <2>1. \A x \in P : \E q \in 1..n : x[1] = q
    BY DEF RowPairs
  <2>2. \A x \in T : x[1] = m
    OBVIOUS
  <2>3. m \notin 1..n
    OBVIOUS
  <2>. HIDE DEF P, T, m
  <2>. QED  BY <2>1, <2>2, <2>3
<1>3. IsFiniteSet(Row[m]) /\ IsFiniteSet(J)
  <2>1. m \in 1..N
    OBVIOUS
  <2>. QED  BY <2>1, FS_Subset
<1>4. f \in Bijection(J, B)
  <2>1. f \in [J -> B] /\ \A j \in J : f[j] = <<m, j>>
    OBVIOUS
  <2>2. \A j, k \in J : f[j] = f[k] => j = k
    BY <2>1
  <2>3. \A y \in B : \E j \in J : f[j] = y
    BY <2>1
  <2>. HIDE DEF J, B, f
  <2>. QED  BY <2>1, <2>2, <2>3 DEF Bijection, Injection, Surjection, IsInjective
<1>5. IsFiniteSet(T)
  <2>. DEFINE g == [j \in Row[m] |-> <<m, j>>]
  <2>1. g \in Surjection(Row[m], T)
    BY DEF Surjection
  <2>. HIDE DEF g, T
  <2>. QED  BY <2>1, <1>3, FS_Surjection
<1>6. IsFiniteSet(A) /\ IsFiniteSet(B) /\ A \cap B = {} /\ X \cap (P \cup T) = A \cup B
  <2>. HIDE DEF P, T
  <2>. QED  BY <1>2, <1>5, FS_Subset DEF P
<1>7. Cardinality(B) = Cardinality(J)
  <2>1. ExistsBijection(J, B)
    BY <1>4 DEF ExistsBijection
  <2>. HIDE DEF J, B
  <2>. QED  BY <2>1, <1>3, <1>6, FS_Bijection
<1>8. Cardinality(A \cup B) = Cardinality(A) + Cardinality(B) /\ Cardinality(A) \in Nat
      /\ Cardinality(B) \in Nat
  <2>. HIDE DEF A, B
  <2>1. Cardinality(A \cup B) = Cardinality(A) + Cardinality(B) - Cardinality(A \cap B)
    BY <1>6, FS_Union
  <2>2. Cardinality(A \cap B) = 0
    BY <1>6, FS_EmptySet
  <2>. QED  BY <2>1, <2>2, <1>6, FS_CardinalityType
<1>9. IsFiniteSet(P \cup T)
  <2>. HIDE DEF T
  <2>. QED  BY <1>5, FS_Union
<1>10. RowPairs(Row, 0) = {}
  BY DEF RowPairs
<1>. QED  BY <1>1, <1>6, <1>7, <1>8, <1>9, <1>10 DEF RowOf
=============================================================================
