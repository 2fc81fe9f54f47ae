----------------------------- MODULE FiniteSums -----------------------------
(***************************************************************************)
(* Facts about SumFunctionOnSet, the sum of a function's values over a     *)
(* finite set, that the proofs about the allocator rest on.  Induction is  *)
(* stated over a set of numbers, or over a family of sets, in place of a   *)
(* predicate, so that the provers can instantiate it.                      *)
(***************************************************************************)
EXTENDS Integers, FiniteSets, Functions, FiniteSetTheorems, WellFoundedInduction,
        TLAPS

\* A set of natural numbers that is not empty has a least element.
LEMMA Least ==
  ASSUME NEW S \in SUBSET Nat, S # {}
  PROVE  \E n \in S : \A m \in S : n <= m
<1>1. \E R : IsWellFoundedOn(R, Nat) /\ \A m, n \in Nat : m < n => <<m, n>> \in R
  <2>1. \A m, n \in Nat : m < n => <<m, n>> \in OpToRel(<,Nat)
    BY DEF OpToRel
  <2> QED
    BY <2>1, NatLessThanWellFounded, Zenon
<1>2. PICK R : IsWellFoundedOn(R, Nat) /\ \A m, n \in Nat : m < n => <<m, n>> \in R
  BY <1>1
<1>3. \E x \in S : \A y \in S : ~(<<y, x>> \in R)
  <2>1. S \subseteq Nat /\ IsWellFoundedOn(R, Nat)
    BY <1>2
  <2> QED
    BY <2>1, WFMin
<1>4. PICK n \in S : \A m \in S : ~(<<m, n>> \in R)
  BY <1>3
<1>5. \A m \in S : ~(m < n)
  BY <1>2, <1>4
<1> QED
  BY <1>5

\* Induction over the natural numbers, for a set of them.
LEMMA Induction ==
  ASSUME NEW S \in SUBSET Nat, 0 \in S, \A n \in S : n + 1 \in S
  PROVE  S = Nat
<1> SUFFICES ASSUME Nat \ S # {} PROVE FALSE
  OBVIOUS
<1>1. PICK n \in Nat \ S : \A m \in Nat \ S : n <= m
  BY Least
<1>2. n # 0 /\ n - 1 \in Nat
  OBVIOUS
<1>3. n - 1 \in S
  BY <1>1, <1>2
<1>4. (n - 1) + 1 \in S
  BY <1>3
<1> QED
  BY <1>4

\* Induction over the subsets of a finite set, for a family of them that is
\* closed under adding an element.
LEMMA SubsetInduction ==
  ASSUME NEW S, IsFiniteSet(S), NEW F, {} \in F,
         \A T \in SUBSET S : \A x \in S \ T : T \in F => T \cup {x} \in F
  PROVE  \A T \in SUBSET S : T \in F
<1> DEFINE N == {n \in Nat : \A T \in SUBSET S : Cardinality(T) = n => T \in F}
<1>1. \A T \in SUBSET S : IsFiniteSet(T) /\ Cardinality(T) \in Nat
  BY FS_Subset, FS_CardinalityType
<1>2. 0 \in N
  BY <1>1, FS_EmptySet
<1>3. ASSUME NEW n \in N PROVE n + 1 \in N
  <2>1. SUFFICES ASSUME NEW T \in SUBSET S, Cardinality(T) = n + 1 PROVE T \in F
    BY <1>3
  <2>2. T # {}
    <3>1. n \in Nat /\ n + 1 # 0
      OBVIOUS
    <3> HIDE DEF N
    <3> QED
      BY <2>1, <3>1, FS_EmptySet
  <2>3. PICK x : x \in T
    BY <2>2
  <2>4. Cardinality(T \ {x}) = n
    BY <1>1, <2>1, <2>3, FS_RemoveElement
  <2>5. T \ {x} \in F
    BY <1>3, <2>4
  <2>6. x \in S \ (T \ {x}) /\ T \ {x} \in SUBSET S /\ (T \ {x}) \cup {x} = T
    BY <2>3
  <2> QED
    BY <2>5, <2>6
<1>4. N = Nat
  <2> HIDE DEF N
  <2>1. N \in SUBSET Nat
    BY DEF N
  <2> QED
    BY <1>2, <1>3, <2>1, Induction
<1> QED
  BY <1>1, <1>4

-----------------------------------------------------------------------------
(* The function behind SumFunctionOnSet exists and is the only one.        *)

\* One step of the fold behind SumFunctionOnSet.
StepSum(g, h, T) ==
  IF T = {} THEN 0 ELSE LET x == CHOOSE x \in T : TRUE IN g[x] + h[T \ {x}]

IsSum(g, h, S) == h = [T \in SUBSET S |-> StepSum(g, h, T)]

\* What SumFunctionOnSet abbreviates.
LEMMA SumIsChosen ==
  ASSUME NEW g, NEW S
  PROVE  SumFunctionOnSet(g, S) = (CHOOSE h : IsSum(g, h, S))[S]
BY DEF SumFunctionOnSet, FoldFunctionOnSet, MapThenFoldSet, IsSum, StepSum

\* The step for a set reads the function only at a smaller set.
LEMMA StepSumReadsSmaller ==
  ASSUME NEW g, NEW h, NEW k, NEW T, IsFiniteSet(T),
         \A U \in SUBSET T : Cardinality(U) < Cardinality(T) => h[U] = k[U]
  PROVE  StepSum(g, h, T) = StepSum(g, k, T)
<1>1. CASE T = {}
  BY <1>1 DEF StepSum
<1>2. CASE T # {}
  <2> DEFINE x == CHOOSE x \in T : TRUE
  <2>1. x \in T
    BY <1>2
  <2>2. Cardinality(T \ {x}) = Cardinality(T) - 1 /\ Cardinality(T) \in Nat
    BY <2>1, FS_RemoveElement, FS_CardinalityType
  <2>3. T \ {x} \in SUBSET T /\ Cardinality(T \ {x}) < Cardinality(T)
    BY <2>2
  <2>4. h[T \ {x}] = k[T \ {x}]
    BY <2>3
  <2> QED
    BY <1>2, <2>4 DEF StepSum
<1> QED
  BY <1>1, <1>2

\* The fold's recursion has a solution on the subsets of a finite set.
LEMMA SumExists ==
  ASSUME NEW g, NEW S, IsFiniteSet(S)
  PROVE  \E h : IsSum(g, h, S)
<1> DEFINE Upto(n) == {T \in SUBSET S : Cardinality(T) <= n}
           N == {n \in Nat : \E h : h = [T \in Upto(n) |-> StepSum(g, h, T)]}
<1>1. \A T \in SUBSET S : IsFiniteSet(T) /\ Cardinality(T) \in Nat
                             /\ Cardinality(T) <= Cardinality(S)
  BY FS_Subset, FS_CardinalityType
<1>2. 0 \in N
  <2> DEFINE h == [T \in Upto(0) |-> 0]
  <2>1. \A T \in Upto(0) : T = {}
    BY <1>1, FS_EmptySet
  <2>2. \A T \in Upto(0) : StepSum(g, h, T) = 0
    BY <2>1 DEF StepSum
  <2>3. h = [T \in Upto(0) |-> StepSum(g, h, T)]
    BY <2>2, Zenon
  <2> QED
    BY <2>3
<1>3. ASSUME NEW n \in N PROVE n + 1 \in N
  <2>1. PICK h : h = [T \in Upto(n) |-> StepSum(g, h, T)]
    BY <1>3
  <2> DEFINE k == [T \in Upto(n + 1) |-> IF T \in Upto(n) THEN h[T] ELSE StepSum(g, h, T)]
  <2>2. \A T \in Upto(n + 1) : StepSum(g, h, T) = StepSum(g, k, T)
    <3> SUFFICES ASSUME NEW T \in Upto(n + 1) PROVE StepSum(g, h, T) = StepSum(g, k, T)
      OBVIOUS
    <3>1. \A U \in SUBSET T : Cardinality(U) < Cardinality(T) => U \in Upto(n) /\ U \in Upto(n + 1)
      BY <1>1
    <3>2. \A U \in SUBSET T : Cardinality(U) < Cardinality(T) => h[U] = k[U]
      BY <3>1
    <3> HIDE DEF k
    <3> QED
      BY <1>1, <3>2, StepSumReadsSmaller
  <2>3. \A T \in Upto(n) : h[T] = StepSum(g, h, T)
    <3> HIDE DEF Upto
    <3> QED
      BY <2>1
  <2>4. \A T \in Upto(n + 1) : k[T] = StepSum(g, k, T)
    BY <2>2, <2>3
  <2>5. k = [T \in Upto(n + 1) |-> k[T]]
    OBVIOUS
  <2>6. k = [T \in Upto(n + 1) |-> StepSum(g, k, T)]
    <3> HIDE DEF k, Upto
    <3> QED
      BY <2>4, <2>5, Zenon
  <2>7. \E f : f = [T \in Upto(n + 1) |-> StepSum(g, f, T)]
    <3> HIDE DEF k, Upto
    <3> QED
      BY <2>6
  <2>8. n + 1 \in Nat
    OBVIOUS
  <2> HIDE DEF Upto
  <2> QED
    BY <2>7, <2>8, Zenon
<1>4. N = Nat
  <2> HIDE DEF N
  <2>1. N \in SUBSET Nat
    BY DEF N
  <2> QED
    BY <1>2, <1>3, <2>1, Induction
<1>5. Cardinality(S) \in Nat
  BY FS_CardinalityType
<1>6. Upto(Cardinality(S)) = SUBSET S
  BY <1>1
<1>7. PICK h : h = [T \in Upto(Cardinality(S)) |-> StepSum(g, h, T)]
  BY <1>4, <1>5
<1>8. h = [T \in SUBSET S |-> StepSum(g, h, T)]
  BY <1>6, <1>7, Zenon
<1> QED
  BY <1>8 DEF IsSum

\* Two solutions agree wherever both are defined.
LEMMA SumUnique ==
  ASSUME NEW g, NEW S, IsFiniteSet(S), NEW T \in SUBSET S,
         NEW h, IsSum(g, h, S), NEW k, IsSum(g, k, T)
  PROVE  h[T] = k[T]
<1> DEFINE N == {n \in Nat : \A U \in SUBSET T : Cardinality(U) <= n => h[U] = k[U]}
<1>1. \A U \in SUBSET T : IsFiniteSet(U) /\ Cardinality(U) \in Nat
  BY FS_Subset, FS_CardinalityType
<1>2. \A U \in SUBSET T : h[U] = StepSum(g, h, U) /\ k[U] = StepSum(g, k, U)
  BY DEF IsSum
<1>3. 0 \in N
  <2>1. \A U \in SUBSET T : Cardinality(U) <= 0 => U = {}
    BY <1>1, FS_EmptySet
  <2>2. h[{}] = k[{}]
    BY <1>2 DEF StepSum
  <2> QED
    BY <2>1, <2>2
<1>4. ASSUME NEW n \in N PROVE n + 1 \in N
  <2>1. SUFFICES ASSUME NEW U \in SUBSET T, Cardinality(U) <= n + 1 PROVE h[U] = k[U]
    BY <1>4
  <2>2. \A V \in SUBSET U : Cardinality(V) < Cardinality(U) => h[V] = k[V]
    BY <1>1, <1>4, <2>1
  <2>3. StepSum(g, h, U) = StepSum(g, k, U)
    BY <1>1, <2>2, StepSumReadsSmaller
  <2> QED
    BY <1>2, <2>3
<1>5. N = Nat
  <2> HIDE DEF N
  <2>1. N \in SUBSET Nat
    BY DEF N
  <2> QED
    BY <1>3, <1>4, <2>1, Induction
<1>6. Cardinality(T) \in N
  BY <1>1, <1>5
<1> QED
  BY <1>1, <1>6

\* SumFunctionOnSet satisfies the recursion, for the element that is chosen.
LEMMA SumStep ==
  ASSUME NEW g, NEW S, IsFiniteSet(S), S # {}
  PROVE  \E x \in S : SumFunctionOnSet(g, S) = g[x] + SumFunctionOnSet(g, S \ {x})
<1> DEFINE h == CHOOSE h : IsSum(g, h, S)
           x == CHOOSE x \in S : TRUE
           k == CHOOSE k : IsSum(g, k, S \ {x})
<1>1. IsSum(g, h, S)
  BY SumExists
<1>2. IsFiniteSet(S \ {x}) /\ x \in S
  BY FS_Subset
<1>3. IsSum(g, k, S \ {x})
  <2> HIDE DEF x
  <2> QED
    BY <1>2, SumExists
<1>4. SumFunctionOnSet(g, S) = h[S] /\ SumFunctionOnSet(g, S \ {x}) = k[S \ {x}]
  BY SumIsChosen
<1>5. h[S] = g[x] + h[S \ {x}]
  <2> HIDE DEF h
  <2> QED
    BY <1>1 DEF IsSum, StepSum
<1>6. h[S \ {x}] = k[S \ {x}]
  <2> HIDE DEF h, k, x
  <2> QED
    BY <1>1, <1>2, <1>3, SumUnique
<1> QED
  BY <1>2, <1>4, <1>5, <1>6

\* The sum over no element is zero.
LEMMA SumEmpty ==
  ASSUME NEW g
  PROVE  SumFunctionOnSet(g, {}) = 0
<1> DEFINE h == CHOOSE h : IsSum(g, h, {})
<1>1. IsSum(g, h, {})
  BY SumExists, FS_EmptySet
<1>2. SumFunctionOnSet(g, {}) = h[{}]
  BY SumIsChosen
<1> HIDE DEF h
<1> QED
  BY <1>1, <1>2 DEF IsSum, StepSum

-----------------------------------------------------------------------------
(* Sums of integers.                                                       *)

\* A sum of integers is an integer, and any element may be taken out first.
LEMMA SumInt ==
  ASSUME NEW S, IsFiniteSet(S), NEW g, \A x \in S : g[x] \in Int
  PROVE  /\ SumFunctionOnSet(g, S) \in Int
         /\ \A x \in S : SumFunctionOnSet(g, S) = g[x] + SumFunctionOnSet(g, S \ {x})
<1> DEFINE sum(T) == SumFunctionOnSet(g, T)
           Good(T) == sum(T) \in Int /\ \A x \in T : sum(T) = g[x] + sum(T \ {x})
           N == {n \in Nat : \A T \in SUBSET S : Cardinality(T) <= n => Good(T)}
<1>1. \A T \in SUBSET S : IsFiniteSet(T) /\ Cardinality(T) \in Nat
  BY FS_Subset, FS_CardinalityType
<1>2. 0 \in N
  <2>1. \A T \in SUBSET S : Cardinality(T) <= 0 => T = {}
    BY <1>1, FS_EmptySet
  <2>2. sum({}) = 0
    BY SumEmpty
  <2>3. Good({})
    <3> HIDE DEF sum
    <3> QED
      BY <2>2
  <2> HIDE DEF Good
  <2> QED
    BY <2>1, <2>3
<1>3. ASSUME NEW n \in N PROVE n + 1 \in N
  <2> HIDE DEF Good
  <2>1. SUFFICES ASSUME NEW T \in SUBSET S, Cardinality(T) <= n + 1, T # {} PROVE Good(T)
    <3>1. 0 \in Nat /\ {} \in SUBSET S /\ Cardinality({}) <= 0
      BY FS_EmptySet
    <3>2. Good({})
      BY <1>2, <3>1
    <3> QED
      BY <1>3, <3>2
  <2>2. PICK y \in T : sum(T) = g[y] + sum(T \ {y})
    BY <1>1, <2>1, SumStep
  <2>3. \A x \in T : Cardinality(T \ {x}) = Cardinality(T) - 1
    BY <1>1, FS_RemoveElement
  <2>4. \A x \in T : Good(T \ {x})
    BY <1>1, <1>3, <2>1, <2>3
  <2>5. \A x \in T : g[x] \in Int /\ sum(T \ {x}) \in Int
    BY <2>4 DEF Good
  <2> HIDE DEF sum
  <2>6. sum(T) \in Int
    BY <2>2, <2>5
  <2>7. ASSUME NEW x \in T PROVE sum(T) = g[x] + sum(T \ {x})
    <3>1. CASE x = y
      BY <2>2, <3>1
    <3>2. CASE x # y
      <4>1. PICK U : U = (T \ {y}) \ {x}
        OBVIOUS
      <4>2. U = (T \ {x}) \ {y} /\ x \in T \ {y} /\ y \in T \ {x}
        BY <3>2, <4>1
      <4>3. sum(T \ {y}) = g[x] + sum(U)
        <5>1. \A z \in T \ {y} : sum(T \ {y}) = g[z] + sum((T \ {y}) \ {z})
          BY <2>4 DEF Good
        <5>2. sum(T \ {y}) = g[x] + sum((T \ {y}) \ {x})
          BY <4>2, <5>1
        <5> QED
          BY <4>1, <5>2, Zenon
      <4>4. sum(T \ {x}) = g[y] + sum(U)
        BY <2>4, <4>2, Zenon DEF Good
      <4>5. sum(U) \in Int
        <5>1. Cardinality(T \ {y}) = Cardinality(T) - 1 /\ U \subseteq T \ {y}
          BY <2>3, <4>1
        <5>2. U \in SUBSET S /\ Cardinality(U) <= n
          BY <1>1, <1>3, <2>1, <5>1, FS_Subset
        <5> QED
          BY <1>3, <5>2 DEF Good
      <4> QED
        BY <2>2, <2>5, <4>3, <4>4, <4>5
    <3> QED
      BY <3>1, <3>2
  <2> QED
    BY <2>6, <2>7 DEF Good
<1>4. N = Nat
  <2> HIDE DEF N
  <2>1. N \in SUBSET Nat
    BY DEF N
  <2> QED
    BY <1>2, <1>3, <2>1, Induction
<1>5. Good(S)
  <2> HIDE DEF Good
  <2> QED
    BY <1>1, <1>4
<1> QED
  BY <1>5

\* Adding an element adds its value.
LEMMA SumAdd ==
  ASSUME NEW S, IsFiniteSet(S), NEW x, x \notin S, NEW g,
         \A y \in S \cup {x} : g[y] \in Int
  PROVE  SumFunctionOnSet(g, S \cup {x}) = SumFunctionOnSet(g, S) + g[x]
<1>1. IsFiniteSet(S \cup {x}) /\ (S \cup {x}) \ {x} = S
  BY FS_AddElement
<1>2. SumFunctionOnSet(g, S \cup {x}) = g[x] + SumFunctionOnSet(g, (S \cup {x}) \ {x})
  BY <1>1, SumInt
<1>3. SumFunctionOnSet(g, S) \in Int /\ g[x] \in Int
  BY SumInt
<1>4. SumFunctionOnSet(g, S \cup {x}) = g[x] + SumFunctionOnSet(g, S)
  BY <1>1, <1>2, Zenon
<1> QED
  BY <1>3, <1>4

\* A sum of natural numbers is one.
LEMMA SumNat ==
  ASSUME NEW S, IsFiniteSet(S), NEW g, \A x \in S : g[x] \in Nat
  PROVE  SumFunctionOnSet(g, S) \in Nat
<1> DEFINE F == {T \in SUBSET S : SumFunctionOnSet(g, T) \in Nat}
<1>1. {} \in F
  BY SumEmpty
<1>2. ASSUME NEW T \in SUBSET S, NEW x \in S \ T, T \in F PROVE T \cup {x} \in F
  <2>1. IsFiniteSet(T) /\ T \cup {x} \in SUBSET S
    BY FS_Subset
  <2>2. /\ SumFunctionOnSet(g, T \cup {x}) = SumFunctionOnSet(g, T) + g[x]
       /\ SumFunctionOnSet(g, T) \in Int /\ g[x] \in Int
    <3>1. \A y \in T \cup {x} : g[y] \in Int
      OBVIOUS
    <3> QED
      BY <2>1, <3>1, SumAdd, SumInt
  <2> QED
    BY <1>2, <2>1, <2>2
<1>3. \A T \in SUBSET S : T \in F
  <2> HIDE DEF F
  <2> QED
    BY <1>1, <1>2, SubsetInduction
<1> QED
  BY <1>3

\* Smaller terms have a smaller sum.
LEMMA SumMonotone ==
  ASSUME NEW S, IsFiniteSet(S), NEW f, NEW g,
         \A x \in S : f[x] \in Int /\ g[x] \in Int /\ f[x] <= g[x]
  PROVE  SumFunctionOnSet(f, S) <= SumFunctionOnSet(g, S)
<1> DEFINE F == {T \in SUBSET S : SumFunctionOnSet(f, T) <= SumFunctionOnSet(g, T)}
<1>1. {} \in F
  BY SumEmpty
<1>2. ASSUME NEW T \in SUBSET S, NEW x \in S \ T, T \in F PROVE T \cup {x} \in F
  <2>1. IsFiniteSet(T) /\ T \cup {x} \in SUBSET S
    BY FS_Subset
  <2>2. /\ SumFunctionOnSet(f, T \cup {x}) = SumFunctionOnSet(f, T) + f[x]
       /\ SumFunctionOnSet(f, T) \in Int /\ f[x] \in Int
    <3>1. \A y \in T \cup {x} : f[y] \in Int
      OBVIOUS
    <3> QED
      BY <2>1, <3>1, SumAdd, SumInt
  <2>3. /\ SumFunctionOnSet(g, T \cup {x}) = SumFunctionOnSet(g, T) + g[x]
       /\ SumFunctionOnSet(g, T) \in Int /\ g[x] \in Int
    <3>1. \A y \in T \cup {x} : g[y] \in Int
      OBVIOUS
    <3> QED
      BY <2>1, <3>1, SumAdd, SumInt
  <2> QED
    BY <1>2, <2>1, <2>2, <2>3
<1>3. \A T \in SUBSET S : T \in F
  <2> HIDE DEF F
  <2> QED
    BY <1>1, <1>2, SubsetInduction
<1> QED
  BY <1>3

\* Equal terms have the same sum.
LEMMA SumCongruence ==
  ASSUME NEW S, IsFiniteSet(S), NEW f, NEW g,
         \A x \in S : f[x] \in Int /\ g[x] = f[x]
  PROVE  SumFunctionOnSet(g, S) = SumFunctionOnSet(f, S)
<1>1. \A x \in S : f[x] \in Int /\ g[x] \in Int /\ f[x] <= g[x] /\ g[x] <= f[x]
  OBVIOUS
<1>2. SumFunctionOnSet(f, S) <= SumFunctionOnSet(g, S) /\ SumFunctionOnSet(g, S) <= SumFunctionOnSet(f, S)
  BY <1>1, SumMonotone
<1>3. SumFunctionOnSet(f, S) \in Int /\ SumFunctionOnSet(g, S) \in Int
  BY <1>1, SumInt
<1> QED
  BY <1>2, <1>3

\* The sum of sums, term by term.
LEMMA SumPlus ==
  ASSUME NEW S, IsFiniteSet(S), NEW f, NEW g, NEW h,
         \A x \in S : f[x] \in Int /\ g[x] \in Int /\ h[x] = f[x] + g[x]
  PROVE  SumFunctionOnSet(h, S) = SumFunctionOnSet(f, S) + SumFunctionOnSet(g, S)
<1> DEFINE F == {T \in SUBSET S : SumFunctionOnSet(h, T) = SumFunctionOnSet(f, T) + SumFunctionOnSet(g, T)}
<1>1. {} \in F
  BY SumEmpty
<1>2. ASSUME NEW T \in SUBSET S, NEW x \in S \ T, T \in F PROVE T \cup {x} \in F
  <2>1. IsFiniteSet(T) /\ T \cup {x} \in SUBSET S
    BY FS_Subset
  <2>2. /\ SumFunctionOnSet(f, T \cup {x}) = SumFunctionOnSet(f, T) + f[x]
       /\ SumFunctionOnSet(f, T) \in Int /\ f[x] \in Int
    <3>1. \A y \in T \cup {x} : f[y] \in Int
      OBVIOUS
    <3> QED
      BY <2>1, <3>1, SumAdd, SumInt
  <2>3. /\ SumFunctionOnSet(g, T \cup {x}) = SumFunctionOnSet(g, T) + g[x]
       /\ SumFunctionOnSet(g, T) \in Int /\ g[x] \in Int
    <3>1. \A y \in T \cup {x} : g[y] \in Int
      OBVIOUS
    <3> QED
      BY <2>1, <3>1, SumAdd, SumInt
  <2>4. \A y \in S : h[y] \in Int
    OBVIOUS
  <2>5. /\ SumFunctionOnSet(h, T \cup {x}) = SumFunctionOnSet(h, T) + h[x]
       /\ SumFunctionOnSet(h, T) \in Int /\ h[x] \in Int
    <3>1. \A y \in T \cup {x} : h[y] \in Int
      BY <2>4
    <3> QED
      BY <2>1, <3>1, SumAdd, SumInt
  <2> QED
    BY <1>2, <2>1, <2>2, <2>3, <2>5
<1>3. \A T \in SUBSET S : T \in F
  <2> HIDE DEF F
  <2> QED
    BY <1>1, <1>2, SubsetInduction
<1> QED
  BY <1>3

\* A factor distributes over a sum.
LEMMA Distributes ==
  ASSUME NEW k \in Int, NEW a \in Int, NEW b \in Int
  PROVE  k * (a + b) = k * a + k * b
OBVIOUS

\* A factor common to all the terms is one of the sum.
LEMMA SumScale ==
  ASSUME NEW S, IsFiniteSet(S), NEW k \in Int, NEW f, NEW g,
         \A x \in S : f[x] \in Int /\ g[x] = k * f[x]
  PROVE  SumFunctionOnSet(g, S) = k * SumFunctionOnSet(f, S)
<1> DEFINE F == {T \in SUBSET S : SumFunctionOnSet(g, T) = k * SumFunctionOnSet(f, T)}
<1>1. {} \in F
  BY SumEmpty
<1>2. ASSUME NEW T \in SUBSET S, NEW x \in S \ T, T \in F PROVE T \cup {x} \in F
  <2>1. IsFiniteSet(T) /\ T \cup {x} \in SUBSET S
    BY FS_Subset
  <2>2. /\ SumFunctionOnSet(f, T \cup {x}) = SumFunctionOnSet(f, T) + f[x]
       /\ SumFunctionOnSet(f, T) \in Int /\ f[x] \in Int
    <3>1. \A y \in T \cup {x} : f[y] \in Int
      OBVIOUS
    <3> QED
      BY <2>1, <3>1, SumAdd, SumInt
  <2>3. \A y \in S : g[y] \in Int
    OBVIOUS
  <2>4. /\ SumFunctionOnSet(g, T \cup {x}) = SumFunctionOnSet(g, T) + g[x]
       /\ SumFunctionOnSet(g, T) \in Int /\ g[x] \in Int
    <3>1. \A y \in T \cup {x} : g[y] \in Int
      BY <2>3
    <3> QED
      BY <2>1, <3>1, SumAdd, SumInt
  <2>5. k * (SumFunctionOnSet(f, T) + f[x]) = k * SumFunctionOnSet(f, T) + k * f[x]
    BY <2>2, Distributes
  <2>6. g[x] = k * f[x] /\ SumFunctionOnSet(g, T) = k * SumFunctionOnSet(f, T)
    BY <1>2
  <2> QED
    BY <1>2, <2>1, <2>2, <2>4, <2>5, <2>6
<1>3. \A T \in SUBSET S : T \in F
  <2> HIDE DEF F
  <2> QED
    BY <1>1, <1>2, SubsetInduction
<1> QED
  BY <1>3

\* A sum of equal terms.
LEMMA SumConstant ==
  ASSUME NEW S, IsFiniteSet(S), NEW k \in Int, NEW g, \A x \in S : g[x] = k
  PROVE  SumFunctionOnSet(g, S) = k * Cardinality(S)
<1> DEFINE F == {T \in SUBSET S : SumFunctionOnSet(g, T) = k * Cardinality(T)}
<1>1. {} \in F
  BY SumEmpty, FS_EmptySet
<1>2. ASSUME NEW T \in SUBSET S, NEW x \in S \ T, T \in F PROVE T \cup {x} \in F
  <2>1. IsFiniteSet(T) /\ T \cup {x} \in SUBSET S
    BY FS_Subset
  <2>2. /\ SumFunctionOnSet(g, T \cup {x}) = SumFunctionOnSet(g, T) + g[x]
       /\ SumFunctionOnSet(g, T) \in Int /\ g[x] \in Int
    <3>1. \A y \in T \cup {x} : g[y] \in Int
      OBVIOUS
    <3> QED
      BY <2>1, <3>1, SumAdd, SumInt
  <2>3. Cardinality(T \cup {x}) = Cardinality(T) + 1 /\ Cardinality(T) \in Nat
    BY <2>1, FS_AddElement, FS_CardinalityType
  <2>4. k * (Cardinality(T) + 1) = k * Cardinality(T) + k * 1
    BY <2>3, Distributes
  <2>5. g[x] = k /\ k * 1 = k /\ SumFunctionOnSet(g, T) = k * Cardinality(T)
    BY <1>2
  <2> QED
    BY <1>2, <2>1, <2>2, <2>3, <2>4, <2>5
<1>3. \A T \in SUBSET S : T \in F
  <2> HIDE DEF F
  <2> QED
    BY <1>1, <1>2, SubsetInduction
<1> QED
  BY <1>3

\* Terms that are zero may be left out.
LEMMA SumSupport ==
  ASSUME NEW S, IsFiniteSet(S), NEW R \in SUBSET S, NEW g, \A x \in S : g[x] \in Int,
         \A x \in S \ R : g[x] = 0
  PROVE  SumFunctionOnSet(g, S) = SumFunctionOnSet(g, R)
<1> DEFINE F == {T \in SUBSET S : SumFunctionOnSet(g, T) = SumFunctionOnSet(g, T \cap R)}
<1>1. {} \in F
  <2>1. {} \cap R = {}
    OBVIOUS
  <2> QED
    BY <2>1
<1>2. ASSUME NEW T \in SUBSET S, NEW x \in S \ T, T \in F PROVE T \cup {x} \in F
  <2>1. IsFiniteSet(T) /\ IsFiniteSet(T \cap R) /\ T \cup {x} \in SUBSET S
    BY FS_Subset
  <2>2. /\ SumFunctionOnSet(g, T \cup {x}) = SumFunctionOnSet(g, T) + g[x]
       /\ SumFunctionOnSet(g, T) \in Int /\ g[x] \in Int
    <3>1. \A y \in T \cup {x} : g[y] \in Int
      OBVIOUS
    <3> QED
      BY <2>1, <3>1, SumAdd, SumInt
  <2>3. CASE x \in R
    <3>1. (T \cup {x}) \cap R = (T \cap R) \cup {x}
      BY <2>3
    <3>2. \A y \in (T \cap R) \cup {x} : g[y] \in Int
      OBVIOUS
    <3>3. SumFunctionOnSet(g, (T \cap R) \cup {x}) = SumFunctionOnSet(g, T \cap R) + g[x]
      BY <2>1, <3>2, SumAdd
    <3>4. SumFunctionOnSet(g, (T \cup {x}) \cap R) = SumFunctionOnSet(g, T \cap R) + g[x]
      BY <3>1, <3>3, Zenon
    <3> QED
      BY <1>2, <2>1, <2>2, <3>4
  <2>4. CASE x \notin R
    <3>1. (T \cup {x}) \cap R = T \cap R
      BY <2>4
    <3>2. SumFunctionOnSet(g, (T \cup {x}) \cap R) = SumFunctionOnSet(g, T \cap R)
      BY <3>1, Zenon
    <3> QED
      BY <1>2, <2>1, <2>2, <2>4, <3>2
  <2> QED
    BY <2>3, <2>4
<1>3. \A T \in SUBSET S : T \in F
  <2> HIDE DEF F
  <2> QED
    BY <1>1, <1>2, SubsetInduction
<1>4. S \cap R = R
  OBVIOUS
<1>5. SumFunctionOnSet(g, S) = SumFunctionOnSet(g, S \cap R)
  BY <1>3
<1> QED
  BY <1>4, <1>5, Zenon

\* A term of a sum of natural numbers is at most the sum.
LEMMA SumMember ==
  ASSUME NEW S, IsFiniteSet(S), NEW g, \A x \in S : g[x] \in Nat, NEW x \in S
  PROVE  g[x] <= SumFunctionOnSet(g, S)
<1>1. \A y \in S : g[y] \in Int
  OBVIOUS
<1>2. SumFunctionOnSet(g, S) = g[x] + SumFunctionOnSet(g, S \ {x})
  BY <1>1, SumInt
<1>3. IsFiniteSet(S \ {x}) /\ \A y \in S \ {x} : g[y] \in Nat
  BY FS_Subset
<1>4. SumFunctionOnSet(g, S \ {x}) \in Nat
  BY <1>3, SumNat
<1> QED
  BY <1>2, <1>4

=============================================================================
