----------------------------- MODULE PoolProofs -----------------------------
(***************************************************************************)
(* Proofs about the simulator's closed loop, for every policy, pool model  *)
(* and trace.                                                              *)
(***************************************************************************)
EXTENDS Pool, FiniteSums

-----------------------------------------------------------------------------
(* The constants.                                                          *)

\* Every parameter of the policy is a number.
LEMMA ParametersTyped ==
  /\ MinBudget \in Nat /\ InitialBudget \in Nat /\ MaxBudget \in Nat /\ Increase \in Nat
  /\ DecNum \in Nat /\ DecDen \in Nat
  /\ HealthyWait \in Nat /\ TargetWait \in Nat /\ EmergencyWait \in Nat
  /\ HealthyWindows \in Nat /\ BreachWindows \in Nat /\ Cooldown \in Nat /\ Interval \in Nat
  /\ FixedBudget \in Nat /\ IncidentDemand \in Nat /\ IncidentBackground \in Nat
BY PoolAssumption

\* Multiplication by a natural number is monotone.
LEMMA TimesMonotone ==
  ASSUME NEW a \in Int, NEW b \in Int, NEW w \in Nat, a <= b
  PROVE  a * w <= b * w
BY SMT

\* What division leaves.
LEMMA Division ==
  ASSUME NEW n \in Nat, NEW w \in Nat \ {0}
  PROVE  /\ n \div w \in Nat /\ n % w \in 0..(w - 1)
         /\ n = (n \div w) * w + (n % w)
BY SMT

\* A quotient lies between two bounds when the dividend does.
LEMMA QuotientBetween ==
  ASSUME NEW n \in Nat, NEW w \in Nat \ {0}, NEW lo \in Nat, NEW hi \in Nat,
         lo * w <= n, n <= hi * w
  PROVE  /\ lo <= n \div w /\ n \div w <= hi
         /\ n \div w = hi => n % w = 0
<1> DEFINE q == n \div w
           r == n % w
<1>1. q \in Nat /\ r \in 0..(w - 1) /\ n = q * w + r
  BY Division
<1> HIDE DEF q, r
<1>2. lo <= q
  <2> SUFFICES ASSUME q + 1 <= lo PROVE FALSE
    BY <1>1
  <2>1. (q + 1) * w <= lo * w /\ (q + 1) * w = q * w + w
    BY <1>1, TimesMonotone
  <2> QED
    BY <1>1, <2>1
<1>3. q <= hi
  <2> SUFFICES ASSUME hi + 1 <= q PROVE FALSE
    BY <1>1
  <2>1. (hi + 1) * w <= q * w /\ (hi + 1) * w = hi * w + w
    BY <1>1, TimesMonotone
  <2> QED
    BY <1>1, <2>1
<1>4. q = hi => r = 0
  BY <1>1
<1> QED
  BY <1>2, <1>3, <1>4 DEF q, r

-----------------------------------------------------------------------------
(* Rounding and the budget a controller asks for.                          *)

\* Rounding respects integer bounds.
LEMMA RoundedBetween ==
  ASSUME NEW n \in Nat, NEW lo \in Nat, NEW hi \in Nat, lo * DecDen <= n, n <= hi * DecDen
  PROVE  RoundHalfEven(n) \in lo..hi
<1>1. DecDen \in Nat \ {0}
  BY PoolAssumption, ParametersTyped
<1> DEFINE q == n \div DecDen
           r == n % DecDen
<1>2. q \in Nat /\ r \in 0..(DecDen - 1)
  BY <1>1, Division
<1>3. lo <= q /\ q <= hi /\ (q = hi => r = 0)
  BY <1>1, QuotientBetween
<1>4. RoundHalfEven(n) = IF 2 * r > DecDen \/ (2 * r = DecDen /\ q % 2 = 1) THEN q + 1 ELSE q
  BY DEF RoundHalfEven
<1> HIDE DEF q, r
<1> QED
  BY <1>1, <1>2, <1>3, <1>4

\* Rounding is monotone.
LEMMA RoundedMonotone ==
  ASSUME NEW m \in Nat, NEW n \in Nat, m <= n
  PROVE  RoundHalfEven(m) <= RoundHalfEven(n)
<1>1. DecDen \in Nat \ {0}
  BY PoolAssumption, ParametersTyped
<1> DEFINE p == m \div DecDen
           q == n \div DecDen
           r == m % DecDen
           s == n % DecDen
<1>2. p \in Nat /\ q \in Nat /\ r \in 0..(DecDen - 1) /\ s \in 0..(DecDen - 1)
      /\ m = p * DecDen + r /\ n = q * DecDen + s
  BY <1>1, Division
<1>3. RoundHalfEven(m) = IF 2 * r > DecDen \/ (2 * r = DecDen /\ p % 2 = 1) THEN p + 1 ELSE p
  BY DEF RoundHalfEven
<1>4. RoundHalfEven(n) = IF 2 * s > DecDen \/ (2 * s = DecDen /\ q % 2 = 1) THEN q + 1 ELSE q
  BY DEF RoundHalfEven
<1> HIDE DEF p, q, r, s
<1>5. p <= q
  <2> SUFFICES ASSUME q + 1 <= p PROVE FALSE
    BY <1>2
  <2>1. (q + 1) * DecDen <= p * DecDen /\ (q + 1) * DecDen = q * DecDen + DecDen
    BY <1>1, <1>2, TimesMonotone
  <2> QED
    BY <1>1, <1>2, <2>1
<1>6. CASE p = q
  <2>1. r <= s
    BY <1>1, <1>2, <1>6
  <2> QED
    BY <1>1, <1>2, <1>3, <1>4, <1>6, <2>1
<1>7. CASE p < q
  BY <1>1, <1>2, <1>3, <1>4, <1>7
<1> QED
  BY <1>2, <1>5, <1>6, <1>7

\* What is asked for lies within the policy's bounds.
LEMMA DesiredBounded ==
  ASSUME NEW n \in Nat
  PROVE  Desired(n) \in MinBudget..MaxBudget
<1> DEFINE c == Smaller(MaxBudget * DecDen, Larger(MinBudget * DecDen, n))
<1>1. MinBudget \in Nat /\ MaxBudget \in Nat /\ DecDen \in Nat /\ MinBudget <= MaxBudget
  BY PoolAssumption, ParametersTyped
<1>2. MinBudget * DecDen \in Nat /\ MaxBudget * DecDen \in Nat
      /\ MinBudget * DecDen <= MaxBudget * DecDen
  BY <1>1, TimesMonotone
<1>3. c \in Nat /\ MinBudget * DecDen <= c /\ c <= MaxBudget * DecDen
  BY <1>2 DEF Smaller, Larger
<1> HIDE DEF c
<1>4. RoundHalfEven(c) \in MinBudget..MaxBudget
  BY <1>1, <1>3, RoundedBetween
<1> QED
  BY <1>4 DEF Desired, c

\* An exact budget within the bounds is what is asked for.
LEMMA DesiredExact == Desired(MinBudget * DecDen) = MinBudget
<1> DEFINE lo == MinBudget * DecDen
           hi == MaxBudget * DecDen
<1>1. MinBudget \in Nat /\ MaxBudget \in Nat /\ DecDen \in Nat /\ MinBudget <= MaxBudget
  BY PoolAssumption, ParametersTyped
<1>2. lo \in Nat /\ hi \in Nat /\ lo <= hi
  BY <1>1, TimesMonotone
<1>3. RoundHalfEven(lo) \in MinBudget..MinBudget
  BY <1>1, <1>2, RoundedBetween
<1>4. Desired(lo) = RoundHalfEven(Smaller(hi, Larger(lo, lo)))
  BY DEF Desired
<1> HIDE DEF lo, hi
<1>5. Smaller(hi, Larger(lo, lo)) = lo
  BY <1>2 DEF Smaller, Larger
<1> QED
  BY <1>1, <1>3, <1>4, <1>5 DEF lo

\* What is asked for when the pool is under pressure.
Lower(b) == Desired(b * DecNum)

\* It is not above the budget in force, and grows with it.
LEMMA LowerIsLower ==
  ASSUME NEW b \in MinBudget..MaxBudget
  PROVE  Lower(b) \in MinBudget..b
<1> DEFINE lo == MinBudget * DecDen
           hi == MaxBudget * DecDen
           n == b * DecNum
           c == Smaller(hi, Larger(lo, n))
<1>1. MinBudget \in Nat /\ MaxBudget \in Nat /\ DecDen \in Nat /\ DecNum \in Nat
      /\ DecNum <= DecDen /\ MinBudget <= b /\ b \in Nat /\ b <= MaxBudget
  BY PoolAssumption, ParametersTyped
<1>2. lo \in Nat /\ hi \in Nat /\ n \in Nat /\ b * DecDen \in Nat /\ lo <= b * DecDen /\ b * DecDen <= hi
  BY <1>1, TimesMonotone
<1>3. n <= b * DecDen
  <2>1. DecNum * b <= DecDen * b
    BY <1>1, TimesMonotone
  <2> QED
    BY <1>1, <2>1
<1>4. Lower(b) = RoundHalfEven(c)
  BY DEF Lower, Desired
<1>5. c \in Nat /\ lo <= c /\ c <= b * DecDen
  <2> HIDE DEF lo, hi, n
  <2> QED
    BY <1>2, <1>3 DEF Smaller, Larger
<1> HIDE DEF c
<1>6. RoundHalfEven(c) \in MinBudget..b
  BY <1>1, <1>5, RoundedBetween
<1> QED
  BY <1>4, <1>6

\* A larger budget is lowered to one that is not smaller.
LEMMA LowerMonotone ==
  ASSUME NEW a \in MinBudget..MaxBudget, NEW b \in MinBudget..MaxBudget, a <= b
  PROVE  Lower(a) <= Lower(b)
<1> DEFINE lo == MinBudget * DecDen
           hi == MaxBudget * DecDen
           m == a * DecNum
           n == b * DecNum
           c == Smaller(hi, Larger(lo, m))
           d == Smaller(hi, Larger(lo, n))
<1>1. MinBudget \in Nat /\ MaxBudget \in Nat /\ DecDen \in Nat /\ DecNum \in Nat
      /\ a \in Nat /\ b \in Nat
  BY ParametersTyped
<1>2. lo \in Nat /\ hi \in Nat /\ m \in Nat /\ n \in Nat /\ m <= n
  BY <1>1, TimesMonotone
<1>3. Lower(a) = RoundHalfEven(c) /\ Lower(b) = RoundHalfEven(d)
  BY DEF Lower, Desired
<1>4. c \in Nat /\ d \in Nat /\ c <= d
  <2> HIDE DEF lo, hi, m, n
  <2> QED
    BY <1>2 DEF Smaller, Larger
<1> HIDE DEF c, d
<1> QED
  BY <1>3, <1>4, RoundedMonotone

-----------------------------------------------------------------------------
(* The number of decreases.                                                *)

Budgets == MinBudget..MaxBudget

\* A function that counts the decreases from each of some budgets.
Counts(g, B) ==
  \A b \in B : g[b] = IF Lower(b) >= b THEN 0 ELSE 1 + g[Lower(b)]

\* A function that counts them from every budget exists: it is built from the
\* smallest budget up, since each decrease leads to a smaller one.
LEMMA CountExists == \E g \in [Budgets -> Nat] : Counts(g, Budgets)
<1>1. MinBudget \in Nat /\ MaxBudget \in Nat /\ MinBudget <= MaxBudget
  BY PoolAssumption, ParametersTyped
<1> DEFINE Part(n) == MinBudget..(MinBudget + n)
           N == {n \in Nat : MinBudget + n <= MaxBudget =>
                               \E g \in [Part(n) -> Nat] : Counts(g, Part(n))}
<1>2. 0 \in N
  <2> DEFINE g == [b \in Part(0) |-> 0]
  <2>1. \A b \in Part(0) : b = MinBudget /\ b \in MinBudget..MaxBudget
    BY <1>1
  <2>2. \A b \in Part(0) : Lower(b) >= b
    BY <1>1, <2>1, LowerIsLower
  <2>3. g \in [Part(0) -> Nat] /\ Counts(g, Part(0))
    BY <2>2 DEF Counts
  <2> QED
    BY <2>3
<1>3. ASSUME NEW n \in N PROVE n + 1 \in N
  <2> SUFFICES ASSUME MinBudget + n + 1 <= MaxBudget
               PROVE  \E h \in [Part(n + 1) -> Nat] : Counts(h, Part(n + 1))
    BY <1>1
  <2>1. PICK g \in [Part(n) -> Nat] : Counts(g, Part(n))
    BY <1>1
  <2> DEFINE m == MinBudget + n + 1
             v == IF Lower(m) >= m THEN 0 ELSE 1 + g[Lower(m)]
             h == [b \in Part(n + 1) |-> IF b = m THEN v ELSE g[b]]
  <2>2. m \in Nat /\ m \in MinBudget..MaxBudget /\ m \notin Part(n)
        /\ \A b : b \in Part(n + 1) <=> b \in Part(n) \/ b = m
    <3>1. n \in Nat
      OBVIOUS
    <3> HIDE DEF N
    <3>2. m \in Nat /\ m \in MinBudget..MaxBudget
      BY <1>1, <3>1
    <3>3. \A b : b \in MinBudget..(MinBudget + (n + 1)) <=> b \in MinBudget..(MinBudget + n) \/ b = m
      BY <1>1, <3>1
    <3>4. m \notin MinBudget..(MinBudget + n)
      BY <1>1, <3>1
    <3> QED
      BY <3>2, <3>3, <3>4 DEF Part
  <2>3. \A b \in Part(n + 1) : b \in MinBudget..MaxBudget /\ b \in Nat
    BY <1>1
  <2>4. ASSUME NEW b \in Part(n + 1), ~(Lower(b) >= b)
        PROVE  Lower(b) \in Part(n) /\ Lower(b) # m
    <3>1. Lower(b) \in MinBudget..b /\ Lower(b) < b
      BY <2>3, <2>4, LowerIsLower, <1>1
    <3> QED
      BY <1>1, <3>1
  <2>5. v \in Nat
    <3>1. CASE Lower(m) >= m
      BY <3>1
    <3>2. CASE ~(Lower(m) >= m)
      <4>1. g[Lower(m)] \in Nat
        BY <2>2, <2>4, <3>2
      <4> QED
        BY <3>2, <4>1
    <3> QED
      BY <3>1, <3>2
  <2> HIDE DEF m, v, Part
  <2>6. h \in [Part(n + 1) -> Nat]
    BY <2>2, <2>5
  <2>7. ASSUME NEW b \in Part(n + 1)
        PROVE  h[b] = IF Lower(b) >= b THEN 0 ELSE 1 + h[Lower(b)]
    <3>1. ~(Lower(b) >= b) => h[Lower(b)] = g[Lower(b)]
      BY <2>2, <2>4
    <3>2. CASE b = m
      <4>1. h[b] = v
        BY <3>2
      <4> QED
        BY <3>1, <3>2, <4>1 DEF v
    <3>3. CASE b # m
      <4>1. b \in Part(n) /\ h[b] = g[b]
        BY <2>2, <3>3
      <4> QED
        BY <2>1, <3>1, <4>1 DEF Counts
    <3> QED
      BY <3>2, <3>3
  <2> QED
    BY <2>6, <2>7 DEF Counts
<1> HIDE DEF N
<1>4. N = Nat
  <2>1. N \in SUBSET Nat
    BY DEF N
  <2> QED
    BY <1>2, <1>3, <2>1, Induction
<1>5. MaxBudget - MinBudget \in Nat /\ MinBudget + (MaxBudget - MinBudget) = MaxBudget
  BY <1>1
<1>6. MaxBudget - MinBudget \in N
  BY <1>4, <1>5
<1> QED
  BY <1>1, <1>5, <1>6 DEF N, Budgets

\* Decreases counts them.
LEMMA DecreasesCounts == Decreases \in [Budgets -> Nat] /\ Counts(Decreases, Budgets)
<1>1. MinBudget \in Nat /\ MaxBudget \in Nat /\ MinBudget <= MaxBudget
  BY PoolAssumption, ParametersTyped
<1> DEFINE F(g) == [b \in Budgets |-> IF Lower(b) >= b THEN 0 ELSE 1 + g[Lower(b)]]
<1>2. Decreases = CHOOSE g : g = F(g)
  BY DEF Decreases, Budgets, Lower
<1>3. \E g : g = F(g)
  <2>1. PICK g \in [Budgets -> Nat] : Counts(g, Budgets)
    BY CountExists
  <2>2. g = F(g)
    BY <2>1 DEF Counts
  <2> QED
    BY <2>2
<1>4. Decreases = F(Decreases)
  <2> HIDE DEF F
  <2> QED
    BY <1>2, <1>3, Zenon
<1>5. Counts(Decreases, Budgets) /\ DOMAIN Decreases = Budgets
      /\ Decreases = [b \in Budgets |-> Decreases[b]]
  <2> DEFINE D == Decreases
  <2>1. D = F(D)
    BY <1>4
  <2> HIDE DEF D
  <2>2. Counts(D, Budgets) /\ DOMAIN D = Budgets /\ D = [b \in Budgets |-> D[b]]
    BY <2>1 DEF Counts
  <2> QED
    BY <2>2 DEF D
<1>6. \A b \in Budgets : Decreases[b] \in Nat
  <2> DEFINE Bad == {b \in Budgets : Decreases[b] \notin Nat}
  <2> SUFFICES ASSUME Bad # {} PROVE FALSE
    OBVIOUS
  <2>1. Bad \in SUBSET Nat
    BY <1>1 DEF Budgets
  <2>2. PICK b \in Bad : \A c \in Bad : b <= c
    BY <2>1, Least
  <2>3. b \in Budgets /\ b \in Nat /\ Decreases[b] \notin Nat
    BY <2>1
  <2>4. Decreases[b] = IF Lower(b) >= b THEN 0 ELSE 1 + Decreases[Lower(b)]
    BY <1>5, <2>3 DEF Counts
  <2>5. Lower(b) \in MinBudget..b
    BY <2>3, LowerIsLower DEF Budgets
  <2>6. ~(Lower(b) >= b)
    BY <2>3, <2>4
  <2>7. Lower(b) \in Budgets /\ Lower(b) < b
    BY <1>1, <2>3, <2>5, <2>6 DEF Budgets
  <2>8. Decreases[Lower(b)] \in Nat
    BY <2>2, <2>3, <2>7, <1>1 DEF Budgets
  <2> QED
    BY <2>3, <2>4, <2>6, <2>8
<1> QED
  BY <1>5, <1>6

\* When no decrease is lost in rounding, each is one of those counted, and a
\* larger budget takes at least as many.
LEMMA DecreasesMonotone ==
  ASSUME EveryDecreaseLowers, NEW b \in Budgets
  PROVE  /\ b > MinBudget => Lower(b) \in Budgets /\ Decreases[b] = 1 + Decreases[Lower(b)]
         /\ \A a \in Budgets : a <= b => Decreases[a] <= Decreases[b]
<1>1. MinBudget \in Nat /\ MaxBudget \in Nat /\ MinBudget <= MaxBudget
  BY PoolAssumption, ParametersTyped
<1>2. ASSUME NEW c \in Budgets
      PROVE  /\ c > MinBudget => /\ Lower(c) \in Budgets /\ Lower(c) < c
                                 /\ Decreases[c] = 1 + Decreases[Lower(c)]
             /\ c = MinBudget => Decreases[c] = 0
             /\ Decreases[c] \in Nat /\ c \in Nat
  <2>1. c \in Nat /\ Lower(c) \in MinBudget..c /\ Decreases[c] \in Nat
        /\ Decreases[c] = IF Lower(c) >= c THEN 0 ELSE 1 + Decreases[Lower(c)]
    BY <1>1, LowerIsLower, DecreasesCounts DEF Budgets, Counts
  <2>2. c > MinBudget => Lower(c) < c
    BY <1>1, <2>1 DEF EveryDecreaseLowers, Lower, Budgets
  <2>3. c = MinBudget => Lower(c) >= c
    BY <1>1, <2>1
  <2> QED
    BY <1>1, <2>1, <2>2, <2>3 DEF Budgets
<1> DEFINE Bad == {d \in Budgets : \E a \in Budgets : a <= d /\ ~(Decreases[a] <= Decreases[d])}
<1>3. Bad = {}
  <2> SUFFICES ASSUME Bad # {} PROVE FALSE
    OBVIOUS
  <2>1. Bad \in SUBSET Nat
    BY <1>2
  <2>2. PICK d \in Bad : \A c \in Bad : d <= c
    BY <2>1, Least
  <2>3. PICK a \in Budgets : a <= d /\ ~(Decreases[a] <= Decreases[d])
    BY <2>2
  <2>4. d \in Budgets /\ d \in Nat /\ a \in Nat /\ Decreases[a] \in Nat /\ Decreases[d] \in Nat
    BY <1>2
  <2>5. a > MinBudget /\ d > MinBudget
    BY <1>1, <1>2, <2>3, <2>4 DEF Budgets
  <2>6. Lower(a) <= Lower(d) /\ Lower(d) < d /\ Lower(a) \in Budgets /\ Lower(d) \in Budgets
        /\ Decreases[a] = 1 + Decreases[Lower(a)] /\ Decreases[d] = 1 + Decreases[Lower(d)]
    BY <1>2, <2>3, <2>4, <2>5, LowerMonotone DEF Budgets
  <2>7. Lower(d) \notin Bad
    <3> DEFINE l == Lower(d)
    <3>0. l \in Budgets /\ l < d
      BY <2>6
    <3> HIDE DEF Bad, l
    <3>1. l \in Nat /\ ~(d <= l)
      BY <1>1, <2>4, <3>0 DEF Budgets
    <3> QED
      BY <2>2, <3>1 DEF l
  <2>8. Decreases[Lower(a)] <= Decreases[Lower(d)]
    BY <2>6, <2>7
  <2>9. Decreases[Lower(a)] \in Nat /\ Decreases[Lower(d)] \in Nat
    BY <1>2, <2>6
  <2> QED
    BY <2>3, <2>6, <2>8, <2>9
<1> QED
  BY <1>2, <1>3

-----------------------------------------------------------------------------
(* The percentile of a window.                                             *)

\* A sequence of numbers that is not empty has a largest one.
LEMMA LargestExists ==
  ASSUME NEW s \in Seq(Nat), Len(s) >= 1
  PROVE  \E m \in 1..Len(s) : \A i \in 1..Len(s) : s[i] <= s[m]
<1> DEFINE N == {n \in Nat : n + 1 <= Len(s) =>
                   \E m \in 1..(n + 1) : \A i \in 1..(n + 1) : s[i] <= s[m]}
<1>1. Len(s) \in Nat /\ \A i \in 1..Len(s) : s[i] \in Nat
  OBVIOUS
<1>2. 0 \in N
  <2>1. 1 <= Len(s) => \E m \in 1..1 : \A i \in 1..1 : s[i] <= s[m]
    BY <1>1
  <2> QED
    BY <2>1
<1>3. ASSUME NEW n \in N PROVE n + 1 \in N
  <2> SUFFICES ASSUME n + 2 <= Len(s)
               PROVE  \E m \in 1..(n + 2) : \A i \in 1..(n + 2) : s[i] <= s[m]
    OBVIOUS
  <2>1. PICK m \in 1..(n + 1) : \A i \in 1..(n + 1) : s[i] <= s[m]
    BY <1>1
  <2>2. n \in Nat
    OBVIOUS
  <2> HIDE DEF N
  <2>3. CASE s[n + 2] <= s[m]
    <3>1. \A i \in 1..(n + 2) : s[i] <= s[m]
      BY <2>1, <2>2, <2>3
    <3>2. m \in 1..(n + 2)
      BY <2>2
    <3> QED
      BY <3>1, <3>2
  <2>4. CASE ~(s[n + 2] <= s[m])
    <3>1. \A i \in 1..(n + 2) : s[i] <= s[n + 2]
      BY <1>1, <2>1, <2>2, <2>4
    <3> QED
      BY <2>2, <3>1
  <2> QED
    BY <2>3, <2>4
<1> HIDE DEF N
<1>4. N = Nat
  <2>1. N \in SUBSET Nat
    BY DEF N
  <2> QED
    BY <1>2, <1>3, <2>1, Induction
<1>5. Len(s) - 1 \in N /\ (Len(s) - 1) + 1 = Len(s)
  BY <1>1, <1>4
<1> QED
  BY <1>5 DEF N

\* The k-th of the sorted values is one of them.
LEMMA RankedIsAValue ==
  ASSUME NEW s \in Seq(Nat), NEW k \in 1..Len(s)
  PROVE  \E i \in 1..Len(s) : Ranked(s, k) = s[i]
<1> DEFINE Upto(v) == {i \in 1..Len(s) : s[i] <= v}
           S == {v \in Range(s) : Cardinality(Upto(v)) >= k}
<1>1. Len(s) \in Nat /\ k \in Nat /\ k <= Len(s) /\ \A i \in 1..Len(s) : s[i] \in Nat
  OBVIOUS
<1>2. \A v \in Range(s) : v \in Nat /\ \E i \in 1..Len(s) : v = s[i]
  BY <1>1 DEF Range
<1>3. PICK m \in 1..Len(s) : \A i \in 1..Len(s) : s[i] <= s[m]
  <2>1. Len(s) >= 1
    BY <1>1
  <2> QED
    BY <2>1, LargestExists
<1>4. Upto(s[m]) = 1..Len(s)
  BY <1>3
<1>5. Cardinality(1..Len(s)) = Len(s)
  <2>1. Cardinality(1..Len(s)) = IF 1 > Len(s) THEN 0 ELSE Len(s) - 1 + 1
    BY <1>1, FS_Interval
  <2> QED
    BY <1>1, <2>1
<1>6. s[m] \in Range(s)
  BY <1>1 DEF Range
<1> HIDE DEF Upto
<1>7. s[m] \in S
  BY <1>1, <1>4, <1>5, <1>6
<1>8. S \in SUBSET Nat /\ S # {}
  BY <1>2, <1>7
<1>9. S \subseteq Range(s) /\ Ranked(s, k) = Min(S)
  BY DEF Ranked, Upto
<1> HIDE DEF S
<1>10. \E x \in S : \A y \in S : x <= y
  BY <1>8, Least
<1>11. Min(S) \in S
  BY <1>10 DEF Min
<1> QED
  BY <1>2, <1>9, <1>11

\* The percentile of a window whose every wait is above a threshold is above it.
LEMMA P95Above ==
  ASSUME NEW s \in Seq(Nat), Len(s) >= 1, NEW t \in Nat, \A i \in 1..Len(s) : s[i] > t
  PROVE  P95(s) \in Nat /\ P95(s) > 100 * t
<1>1. Len(s) \in Nat /\ \A i \in 1..Len(s) : s[i] \in Nat /\ s[i] >= t + 1
  OBVIOUS
<1>2. CASE Len(s) = 1
  <2>1. P95(s) = 100 * s[1]
    BY <1>2 DEF P95
  <2> QED
    BY <1>1, <1>2, <2>1
<1>3. CASE Len(s) # 1
  <2>0. Len(s) - 1 \in Nat /\ Len(s) - 1 >= 1
    <3> DEFINE l == Len(s)
    <3>1. l \in Nat /\ l >= 1 /\ l # 1
      BY <1>3
    <3> HIDE DEF l
    <3>2. l - 1 \in Nat /\ l - 1 >= 1
      BY <3>1
    <3> QED
      BY <3>2 DEF l
  <2> DEFINE place == 95 * (Len(s) - 1)
             j == place \div 100
             delta == place % 100
             a == Ranked(s, j + 1)
             b == Ranked(s, j + 2)
  <2>1. P95(s) = a * (100 - delta) + b * delta
    BY <1>3 DEF P95
  <2>2. place \in Nat
    BY <1>1, <1>3
  <2>3. j \in Nat /\ delta \in 0..99 /\ place = 100 * j + delta
    <3> HIDE DEF place
    <3> QED
      BY <2>2
  <2>4. j + 1 \in 1..Len(s) /\ j + 2 \in 1..Len(s)
    <3> HIDE DEF j, delta
    <3>1. 100 * j <= 95 * (Len(s) - 1)
      BY <1>1, <2>3 DEF place
    <3>2. j + 2 <= Len(s)
      <4> DEFINE n == Len(s) - 1
      <4>1. n \in Nat /\ n >= 1
        BY <2>0
      <4>2. j \in Nat
        BY <2>3
      <4>3. 100 * j <= 95 * n
        BY <3>1
      <4> HIDE DEF n
      <4>4. j + 1 <= n
        BY <4>1, <4>2, <4>3
      <4> QED
        BY <1>1, <4>2, <4>4 DEF n
    <3> QED
      BY <1>1, <2>3, <3>2
  <2>5. a \in Nat /\ a >= t + 1 /\ b \in Nat /\ b >= t + 1
    <3>1. \E i \in 1..Len(s) : a = s[i]
      BY <2>4, RankedIsAValue
    <3>2. \E i \in 1..Len(s) : b = s[i]
      BY <2>4, RankedIsAValue
    <3> QED
      BY <1>1, <3>1, <3>2
  <2> HIDE DEF place, j, delta, a, b
  <2>6. (t + 1) * (100 - delta) <= a * (100 - delta) /\ (t + 1) * delta <= b * delta
    BY <2>3, <2>5, TimesMonotone
  <2>7. (t + 1) * (100 - delta) + (t + 1) * delta = 100 * (t + 1)
    BY <2>3
  <2>8. a * (100 - delta) \in Nat /\ b * delta \in Nat /\ (t + 1) * (100 - delta) \in Nat
        /\ (t + 1) * delta \in Nat
    BY <2>3, <2>5
  <2> QED
    BY <2>1, <2>6, <2>7, <2>8
<1> QED
  BY <1>2, <1>3

-----------------------------------------------------------------------------
(* The pool model.                                                         *)

\* The pool and the samples are numbers.
LEMMA PoolTyped ==
  ASSUME model \in Models
  PROVE  /\ model.base \in Nat /\ model.base <= HealthyWait
         /\ model.safe \in Nat /\ model.slope \in Nat
         /\ IncidentOverload \in Nat /\ Unit \in Nat /\ Unit >= 1
         /\ IncidentOverload > 0 => Unit = IncidentOverload
<1>1. /\ model.base \in Nat /\ model.base <= HealthyWait
      /\ model.safe \in Nat /\ model.slope \in Nat
  BY PoolAssumption, ParametersTyped
<1>2. IncidentOverload \in Nat
  BY <1>1, ParametersTyped DEF IncidentOverload, Overload, Larger
<1> QED
  BY <1>1, <1>2 DEF Unit, Larger

\* A second's wait is a number.
LEMMA WaitTyped ==
  ASSUME model \in Models, NEW s \in Samples, NEW a \in Nat
  PROVE  WaitOf(s, a) \in Nat
<1>1. s.background \in Nat /\ s.captured \in Nat
  BY PoolAssumption
<1>2. /\ model.base \in Nat /\ model.safe \in Nat /\ model.slope \in Nat /\ Unit \in Nat
  BY PoolTyped
<1> DEFINE o == Overload(a + s.background)
           d == Larger(0, s.captured - model.base)
<1>3. o \in Nat /\ d \in Nat
  BY <1>1, <1>2 DEF Overload, Larger
<1>4. WaitOf(s, a) = IF s.incident /\ IncidentCosts
                     THEN model.base * Unit + o * d
                     ELSE (model.base + o * model.slope) * Unit
  BY DEF WaitOf
<1> HIDE DEF o, d
<1>5. model.base * Unit \in Nat /\ o * d \in Nat /\ o * model.slope \in Nat
  BY <1>2, <1>3
<1>6. model.base + o * model.slope \in Nat
  BY <1>2, <1>5
<1>7. (model.base + o * model.slope) * Unit \in Nat
  BY <1>2, <1>6
<1> QED
  BY <1>4, <1>5, <1>7

\* Within capacity the wait is the pool's base wait.
LEMMA WaitWithinCapacity ==
  ASSUME model \in Models, NEW s \in Samples, NEW a \in Nat, a + s.background <= model.safe
  PROVE  WaitOf(s, a) = model.base * Unit
<1>1. s.background \in Nat /\ s.captured \in Nat
  BY PoolAssumption
<1>2. /\ model.base \in Nat /\ model.safe \in Nat /\ model.slope \in Nat /\ Unit \in Nat
  BY PoolTyped
<1> DEFINE d == Larger(0, s.captured - model.base)
<1>3. Overload(a + s.background) = 0 /\ d \in Nat
  BY <1>1, <1>2 DEF Overload, Larger
<1>4. WaitOf(s, a) = IF s.incident /\ IncidentCosts
                     THEN model.base * Unit + 0 * d
                     ELSE (model.base + 0 * model.slope) * Unit
  BY <1>3 DEF WaitOf
<1> HIDE DEF d
<1>5. 0 * d = 0 /\ 0 * model.slope = 0 /\ model.base * Unit \in Nat
  BY <1>2, <1>3
<1> QED
  BY <1>2, <1>4, <1>5

\* An emergency is beyond the target, and the target is beyond the base wait.
LEMMA Thresholds ==
  ASSUME model \in Models, NEW w \in Nat
  PROVE  /\ Severe(w) => Unsafe(w)
         /\ ~Unsafe(model.base * Unit)
<1>1. /\ TargetWait \in Nat /\ EmergencyWait \in Nat /\ TargetWait + 1 <= EmergencyWait
      /\ model.base \in Nat /\ model.base <= TargetWait /\ Unit \in Nat /\ Unit >= 1
  BY PoolAssumption, ParametersTyped, PoolTyped
<1>2. (TargetWait + 1) * Unit <= EmergencyWait * Unit /\ model.base * Unit <= TargetWait * Unit
  BY <1>1, TimesMonotone
<1>3. (TargetWait + 1) * Unit = TargetWait * Unit + Unit
  BY <1>1
<1>4. TargetWait * Unit \in Nat /\ EmergencyWait * Unit \in Nat /\ model.base * Unit \in Nat
  BY <1>1
<1> QED
  BY <1>1, <1>2, <1>3, <1>4 DEF Severe, Unsafe

\* The budget admits a number.
LEMMA AdmittedTyped ==
  ASSUME budget \in Nat, NEW s \in Samples
  PROVE  /\ Admitted(s) \in Nat /\ Admitted(s) <= budget /\ Admitted(s) <= s.demand
         /\ s.demand \in Nat /\ s.background \in Nat /\ s.captured \in Nat
         /\ s.incident => s.demand = IncidentDemand /\ s.background <= IncidentBackground
BY PoolAssumption DEF Admitted, Smaller

\* A second that the minimum budget keeps within capacity is unsafe only under a
\* larger budget.
LEMMA UnsafeNeedsMore ==
  ASSUME model \in Models, budget \in Nat, NEW s \in Samples,
         Unsafe(WaitOf(s, Admitted(s))), Avoidable(s)
  PROVE  budget > MinBudget
<1> SUFFICES ASSUME budget <= MinBudget PROVE FALSE
  BY ParametersTyped
<1>1. Admitted(s) \in Nat /\ Admitted(s) <= budget /\ s.background \in Nat
  BY AdmittedTyped
<1>2. Admitted(s) + s.background <= model.safe
  BY <1>1, ParametersTyped, PoolTyped DEF Avoidable
<1>3. WaitOf(s, Admitted(s)) = model.base * Unit
  BY <1>1, <1>2, WaitWithinCapacity
<1> QED
  BY <1>3, Thresholds

-----------------------------------------------------------------------------
(* Type correctness.                                                       *)

ControllerTyped ==
  /\ strategy \in {"fixed", "step", "aimd"}
  /\ budget \in (IF strategy = "fixed" THEN {FixedBudget} ELSE MinBudget..MaxBudget)
  /\ healthy \in 0..(HealthyWindows - 1) /\ breaches \in 0..(BreachWindows - 1)
  /\ healthy = 0 \/ breaches = 0
  /\ age \in 0..Cooldown

SecondsTyped ==
  /\ model \in Models
  /\ second \in 0..(Interval - 1)
  /\ window \in Seq(Nat) /\ Len(window) <= second
  /\ \A i \in 1..Len(window) : ~Severe(window[i])
  /\ sample \in Samples /\ wait \in Nat

RunsTyped ==
  severeRun \in 0..2 /\ unsafeRun \in 0..(UnsafeBound + 1) /\ sinceSevere \in 0..Horizon

Typed == ControllerTyped /\ SecondsTyped /\ RunsTyped

\* The bounds of the histories are numbers.
LEMMA BoundsTyped ==
  /\ Horizon \in Nat /\ Horizon >= 1
  /\ ToOneDecrease \in Nat /\ Decreases[MaxBudget] \in Nat
  /\ UnsafeBound \in Nat
<1>1. /\ HealthyWindows - 1 \in Nat /\ Interval - 1 \in Nat /\ BreachWindows \in Nat \ {0}
      /\ Interval \in Nat \ {0} /\ Cooldown \in Nat /\ MaxBudget \in Budgets
  BY PoolAssumption, ParametersTyped DEF Budgets
<1>2. (HealthyWindows - 1) * Interval \in Nat
  BY <1>1
<1> DEFINE series == BreachWindows * Interval
           rounds == (Cooldown + series - 1) \div series
<1>3. series \in Nat \ {0} /\ Cooldown + series - 1 \in Nat
  BY <1>1
<1> HIDE DEF series
<1>4. rounds \in Nat
  BY <1>3, Division
<1>5. ToOneDecrease = Larger(1, rounds) * series
  BY DEF ToOneDecrease, series
<1> HIDE DEF rounds
<1>6. Larger(1, rounds) \in Nat
  BY <1>4 DEF Larger
<1>7. ToOneDecrease \in Nat
  BY <1>3, <1>5, <1>6
<1>8. Decreases[MaxBudget] \in Nat
  BY <1>1, DecreasesCounts
<1>9. Decreases[MaxBudget] * ToOneDecrease \in Nat
  BY <1>7, <1>8
<1> QED
  BY <1>1, <1>2, <1>7, <1>8, <1>9 DEF Horizon, UnsafeBound

\* What a controller may do in a second.
Reacts ==
  \/ ObserveEmergency
  \/ \E values : ObserveWindow(values)
  \/ Hold /\ UNCHANGED <<healthy, breaches>>

\* Apply sets what is asked for, or leaves the budget; it ages or restarts.
LEMMA ApplyEffect ==
  ASSUME NEW d, NEW k \in BOOLEAN, Apply(d, k)
  PROVE  \/ d # budget /\ (k \/ age >= Cooldown) /\ budget' = d /\ age' = Smaller(Cooldown, 1)
         \/ (d = budget \/ ~(k \/ age >= Cooldown)) /\ budget' = budget
              /\ age' = Smaller(Cooldown, age + 1)
BY DEF Apply

\* A window is above the target, below the healthy wait, or neither.
Above(values) == P95(values) > 100 * TargetWait * Unit
Below(values) == P95(values) < 100 * HealthyWait * Unit

\* What the AIMD controller may make of a window.
LEMMA AimdWindow ==
  ASSUME strategy = "aimd", NEW values, ObserveWindow(values)
  PROVE  \/ /\ Above(values)
            /\ breaches + 1 >= BreachWindows
            /\ healthy' = 0 /\ breaches' = 0
            /\ Apply(Lower(budget), FALSE)
         \/ /\ Above(values)
            /\ ~(breaches + 1 >= BreachWindows)
            /\ healthy' = 0 /\ breaches' = breaches + 1
            /\ Hold
         \/ /\ Below(values)
            /\ healthy + 1 >= HealthyWindows
            /\ healthy' = 0 /\ breaches' = 0
            /\ Apply(Desired((budget + Increase) * DecDen), FALSE)
         \/ /\ Below(values)
            /\ ~(healthy + 1 >= HealthyWindows)
            /\ healthy' = healthy + 1 /\ breaches' = 0
            /\ Hold
         \/ /\ ~Above(values) /\ ~Below(values)
            /\ healthy' = 0 /\ breaches' = 0
            /\ Hold
<1>1. AimdObserve(Above(values), Below(values))
  BY DEF ObserveWindow, Above, Below
<1> QED
  BY <1>1, Zenon DEF AimdObserve, Counters, Lower

\* What the step controller may make of one.
LEMMA StepWindow ==
  ASSUME strategy = "step", NEW values, ObserveWindow(values)
  PROVE  /\ UNCHANGED <<healthy, breaches>>
         /\ Apply(PressureBudget, FALSE) \/ Apply(MaxBudget, FALSE) \/ Hold
<1>1. StepObserve(Above(values), Below(values))
  BY DEF ObserveWindow, Above, Below
<1> QED
  BY <1>1, Zenon DEF StepObserve

\* The controllers keep their types.
LEMMA ReactsTyped ==
  ASSUME ControllerTyped, Reacts, UNCHANGED strategy
  PROVE  ControllerTyped'
<1>0. /\ MinBudget \in Nat /\ MaxBudget \in Nat /\ MinBudget <= MaxBudget
      /\ FixedBudget \in Nat /\ Cooldown \in Nat /\ DecNum \in Nat /\ DecDen \in Nat
      /\ Increase \in Nat /\ HealthyWindows \in Nat \ {0} /\ BreachWindows \in Nat \ {0}
      /\ PressureBudget \in MinBudget..MaxBudget
  BY ParametersTyped, PoolAssumption
<1>1. /\ budget \in Nat /\ age \in Nat
      /\ strategy # "fixed" => budget \in MinBudget..MaxBudget
      /\ strategy = "fixed" => budget = FixedBudget
      /\ healthy \in 0..(HealthyWindows - 1) /\ breaches \in 0..(BreachWindows - 1)
      /\ healthy = 0 \/ breaches = 0
  BY <1>0 DEF ControllerTyped
<1> DEFINE Bounds(d) == d \in MinBudget..MaxBudget
<1>2. /\ Bounds(Desired(MinBudget * DecDen)) /\ Bounds(Lower(budget))
      /\ Bounds(Desired((budget + Increase) * DecDen))
      /\ Bounds(MinBudget) /\ Bounds(MaxBudget) /\ Bounds(PressureBudget)
  <2>1. MinBudget * DecDen \in Nat /\ budget * DecNum \in Nat /\ (budget + Increase) * DecDen \in Nat
    BY <1>0, <1>1
  <2> QED
    BY <1>0, <2>1, DesiredBounded DEF Lower
<1> DEFINE Changed == (budget' = budget \/ budget' \in MinBudget..MaxBudget) /\ age' \in 0..Cooldown
<1>3. ASSUME NEW d, Bounds(d), Apply(d, TRUE) \/ Apply(d, FALSE)
      PROVE  Changed
  <2>1. /\ budget' = budget \/ budget' = d
        /\ age' = Smaller(Cooldown, 1) \/ age' = Smaller(Cooldown, age + 1)
    BY <1>3 DEF Apply
  <2> QED
    BY <1>0, <1>1, <1>3, <2>1 DEF Smaller
<1>4. Hold => budget' = budget /\ age' \in 0..Cooldown
  BY <1>0, <1>1 DEF Hold, Smaller
<1> HIDE DEF Bounds
<1>5. CASE strategy = "fixed"
  <2>1. Hold /\ UNCHANGED <<healthy, breaches>>
    BY <1>5 DEF Reacts, ObserveEmergency, ObserveWindow
  <2> QED
    BY <1>0, <1>1, <1>4, <1>5, <2>1 DEF ControllerTyped
<1>6. CASE strategy = "step"
  <2>1. /\ UNCHANGED <<healthy, breaches>>
        /\ \/ Apply(MinBudget, TRUE)
           \/ Apply(PressureBudget, FALSE) \/ Apply(MaxBudget, FALSE) \/ Hold
    BY <1>6, StepWindow DEF Reacts, ObserveEmergency
  <2>2. Changed
    BY <1>2, <1>3, <1>4, <2>1
  <2> QED
    BY <1>0, <1>1, <1>6, <2>1, <2>2 DEF ControllerTyped
<1>7. CASE strategy = "aimd"
  <2>1. CASE ObserveEmergency
    <3>1. healthy' = 0 /\ breaches' = 0 /\ Apply(Desired(MinBudget * DecDen), TRUE)
      BY <1>7, <2>1 DEF ObserveEmergency, Counters
    <3>2. Changed
      BY <1>2, <1>3, <3>1
    <3> QED
      BY <1>0, <1>1, <1>7, <3>1, <3>2 DEF ControllerTyped
  <2>2. CASE \E values : ObserveWindow(values)
    <3>1. PICK values : ObserveWindow(values)
      BY <2>2
    <3>2. \/ Apply(Lower(budget), FALSE)
          \/ Apply(Desired((budget + Increase) * DecDen), FALSE)
          \/ Hold
      BY <1>7, <3>1, AimdWindow
    <3>3. Changed
      BY <1>2, <1>3, <1>4, <3>2
    <3>4. \/ healthy' = 0 /\ breaches' = 0
          \/ ~(breaches + 1 >= BreachWindows) /\ healthy' = 0 /\ breaches' = breaches + 1
          \/ ~(healthy + 1 >= HealthyWindows) /\ healthy' = healthy + 1 /\ breaches' = 0
      BY <1>7, <3>1, AimdWindow
    <3>5. healthy' \in 0..(HealthyWindows - 1) /\ breaches' \in 0..(BreachWindows - 1)
          /\ (healthy' = 0 \/ breaches' = 0)
      BY <1>0, <1>1, <3>4
    <3> QED
      BY <1>0, <1>1, <1>7, <3>3, <3>5 DEF ControllerTyped
  <2>3. CASE Hold /\ UNCHANGED <<healthy, breaches>>
    BY <1>0, <1>1, <1>4, <1>7, <2>3 DEF ControllerTyped
  <2> QED
    BY <2>1, <2>2, <2>3 DEF Reacts
<1> QED
  BY <1>5, <1>6, <1>7 DEF ControllerTyped

\* What every second does, whichever way it ends.
LEMMA EverySecond ==
  ASSUME Typed, NEW s \in Samples, SevereSecond(s) \/ LastSecond(s) \/ OtherSecond(s)
  PROVE  /\ WaitOf(s, Admitted(s)) \in Nat
         /\ Simulate(s, WaitOf(s, Admitted(s)))
         /\ Reacts /\ UNCHANGED <<strategy, model>>
         /\ Severe(WaitOf(s, Admitted(s))) <=> SevereSecond(s)
<1>1. model \in Models /\ budget \in Nat
  BY ParametersTyped DEF Typed, ControllerTyped, SecondsTyped
<1>2. WaitOf(s, Admitted(s)) \in Nat
  BY <1>1, AdmittedTyped, WaitTyped
<1>3. Simulate(s, WaitOf(s, Admitted(s))) /\ Reacts
      /\ (Severe(WaitOf(s, Admitted(s))) <=> SevereSecond(s))
  BY Zenon DEF SevereSecond, LastSecond, OtherSecond, Reacts
<1>4. UNCHANGED <<strategy, model>>
  BY <1>3 DEF Simulate
<1> QED
  BY <1>2, <1>3, <1>4

\* A second keeps the window typed: it is shorter than the seconds since the
\* interval began, and holds no severe wait.
LEMMA SecondKeepsWindow ==
  ASSUME Typed, NEW s \in Samples, SevereSecond(s) \/ LastSecond(s) \/ OtherSecond(s)
  PROVE  SecondsTyped'
<1> DEFINE w == WaitOf(s, Admitted(s))
<1>1. w \in Nat /\ Simulate(s, w) /\ model' = model
  BY EverySecond
<1>2. /\ model \in Models /\ second \in 0..(Interval - 1) /\ window \in Seq(Nat)
      /\ Len(window) <= second /\ \A i \in 1..Len(window) : ~Severe(window[i])
      /\ Interval \in Nat \ {0} /\ Len(window) \in Nat
  BY PoolAssumption, ParametersTyped DEF Typed, SecondsTyped
<1>3. second' = (second + 1) % Interval /\ sample' = s /\ wait' = w
  BY <1>1 DEF Simulate
<1>4. \A v : Severe(v)' <=> Severe(v')
  BY <1>1 DEF Severe, Unit, IncidentOverload, Overload
<1>5. second' \in 0..(Interval - 1)
  BY <1>2, <1>3
<1>6. CASE window' = <<>>
  <2>1. window' \in Seq(Nat) /\ Len(window') = 0
    BY <1>6
  <2> QED
    BY <1>1, <1>2, <1>3, <1>5, <2>1 DEF SecondsTyped
<1>7. CASE OtherSecond(s)
  <2>1. window' = Append(window, w) /\ (second + 1) % Interval # 0 /\ ~Severe(w)
    BY <1>7 DEF OtherSecond
  <2>2. second' = second + 1
    BY <1>2, <1>3, <2>1
  <2> HIDE DEF w
  <2>3. window' \in Seq(Nat) /\ Len(window') = Len(window) + 1
        /\ \A i \in 1..Len(window') : window'[i] = w \/ (i \in 1..Len(window) /\ window'[i] = window[i])
    BY <1>1, <1>2, <2>1
  <2>4. \A i \in 1..Len(window') : ~(window'[i] >= EmergencyWait * Unit)
    BY <1>2, <2>1, <2>3 DEF Severe
  <2>5. Unit' = Unit
    BY <1>1 DEF Unit, IncidentOverload, Overload
  <2>6. \A i \in 1..Len(window') : ~(window'[i] >= EmergencyWait * Unit')
    BY <2>4, <2>5
  <2> QED
    BY <1>1, <1>2, <1>3, <1>5, <2>2, <2>3, <2>6 DEF SecondsTyped, Severe
<1> QED
  BY <1>6, <1>7 DEF SevereSecond, LastSecond

\* The histories keep their bounds.
LEMMA SecondKeepsRuns ==
  ASSUME Typed, NEW s \in Samples, SevereSecond(s) \/ LastSecond(s) \/ OtherSecond(s)
  PROVE  RunsTyped'
<1> DEFINE w == WaitOf(s, Admitted(s))
<1>1. Simulate(s, w)
  BY EverySecond
<1>2. severeRun \in 0..2 /\ unsafeRun \in 0..(UnsafeBound + 1) /\ sinceSevere \in 0..Horizon
      /\ UnsafeBound \in Nat /\ Horizon \in Nat
  BY BoundsTyped DEF Typed, RunsTyped
<1>3. UnsafeBound' = UnsafeBound /\ Horizon' = Horizon
  BY DEF UnsafeBound, Horizon
<1>4. severeRun' \in {0, Smaller(2, severeRun + 1)}
      /\ unsafeRun' \in {0, Smaller(UnsafeBound + 1, unsafeRun + 1)}
      /\ sinceSevere' \in {0, Smaller(Horizon, sinceSevere + 1)}
  BY <1>1 DEF Simulate
<1>5. severeRun' \in 0..2 /\ unsafeRun' \in 0..(UnsafeBound + 1) /\ sinceSevere' \in 0..Horizon
  BY <1>2, <1>4 DEF Smaller
<1> QED
  BY <1>3, <1>5 DEF RunsTyped

\* Every second keeps the types.
LEMMA SecondKeepsTyped ==
  ASSUME Typed, NEW s \in Samples, SevereSecond(s) \/ LastSecond(s) \/ OtherSecond(s)
  PROVE  Typed'
<1>1. ControllerTyped'
  BY EverySecond, ReactsTyped DEF Typed
<1> QED
  BY <1>1, SecondKeepsWindow, SecondKeepsRuns DEF Typed

-----------------------------------------------------------------------------
(* The inductive invariant.                                                *)

\* An avoidable severe second has brought an adaptive controller to the minimum.
SevereIsCut ==
  strategy \in {"step", "aimd"} /\ severeRun > 0 => budget = MinBudget /\ severeRun <= 1

\* The healthy windows counted have passed since the last severe second, the
\* first of them in a second at least.
CalmSince ==
  strategy = "aimd" /\ healthy > 0 =>
    sinceSevere >= Smaller(Horizon, (healthy - 1) * Interval + 1 + second)

IInv == Typed /\ SevereIsCut /\ CalmSince /\ NeverWorseThanCaptured

\* An emergency takes an adaptive controller to the minimum.
LEMMA EmergencyDrops ==
  ASSUME ControllerTyped, strategy \in {"step", "aimd"}, ObserveEmergency
  PROVE  budget' = MinBudget /\ (strategy = "aimd" => healthy' = 0 /\ breaches' = 0)
<1>1. CASE strategy = "step"
  BY <1>1 DEF ObserveEmergency, Apply
<1>2. CASE strategy = "aimd"
  <2>1. Apply(MinBudget, TRUE) /\ healthy' = 0 /\ breaches' = 0
    BY <1>2, DesiredExact DEF ObserveEmergency, Counters
  <2> QED
    BY <2>1 DEF Apply
<1> QED
  BY <1>1, <1>2

\* Every second keeps it.
LEMMA SecondKeepsCut ==
  ASSUME IInv, NEW s \in Samples, SevereSecond(s) \/ LastSecond(s) \/ OtherSecond(s)
  PROVE  SevereIsCut'
<1> DEFINE w == WaitOf(s, Admitted(s))
<1>1. w \in Nat /\ Simulate(s, w) /\ strategy' = strategy /\ (Severe(w) <=> SevereSecond(s))
  BY EverySecond DEF IInv
<1> SUFFICES ASSUME strategy \in {"step", "aimd"}, severeRun' > 0
             PROVE  budget' = MinBudget /\ severeRun' <= 1
  BY <1>1 DEF SevereIsCut
<1>2. severeRun' = IF Severe(w) /\ Avoidable(s) THEN Smaller(2, severeRun + 1) ELSE 0
  BY <1>1 DEF Simulate
<1>3. Severe(w) /\ Avoidable(s) /\ SevereSecond(s) /\ severeRun' = Smaller(2, severeRun + 1)
  BY <1>1, <1>2
<1>4. model \in Models /\ budget \in Nat /\ severeRun \in Nat /\ MinBudget \in Nat
  BY ParametersTyped DEF IInv, Typed, ControllerTyped, SecondsTyped, RunsTyped
<1>5. budget > MinBudget
  BY <1>1, <1>3, <1>4, Thresholds, UnsafeNeedsMore
<1>6. severeRun = 0
  BY <1>4, <1>5 DEF IInv, SevereIsCut
<1>7. budget' = MinBudget
  BY <1>3, EmergencyDrops DEF IInv, Typed, SevereSecond
<1> QED
  BY <1>3, <1>6, <1>7 DEF Smaller

\* How a second moves in its interval.
LEMMA SecondMoves ==
  ASSUME Typed, NEW s \in Samples, SevereSecond(s) \/ LastSecond(s) \/ OtherSecond(s)
  PROVE  /\ LastSecond(s) => second = Interval - 1 /\ second' = 0
         /\ OtherSecond(s) => second' = second + 1
         /\ ~SevereSecond(s) => sinceSevere' = Smaller(Horizon, sinceSevere + 1)
         /\ second \in 0..(Interval - 1) /\ Interval \in Nat /\ Interval >= 1
<1> DEFINE w == WaitOf(s, Admitted(s))
<1>1. Simulate(s, w) /\ (Severe(w) <=> SevereSecond(s))
  BY EverySecond
<1>2. second \in 0..(Interval - 1) /\ Interval \in Nat /\ Interval >= 1
  BY PoolAssumption, ParametersTyped DEF Typed, SecondsTyped
<1>3. second' = (second + 1) % Interval
      /\ sinceSevere' = IF Severe(w) THEN 0 ELSE Smaller(Horizon, sinceSevere + 1)
  BY <1>1 DEF Simulate
<1>4. LastSecond(s) => (second + 1) % Interval = 0
  BY DEF LastSecond
<1>5. OtherSecond(s) => (second + 1) % Interval # 0
  BY DEF OtherSecond
<1>6. second + 1 < Interval => (second + 1) % Interval = second + 1
  BY <1>2
<1>7. second + 1 = Interval => (second + 1) % Interval = 0
  BY <1>2
<1> QED
  BY <1>1, <1>2, <1>3, <1>4, <1>5, <1>6, <1>7

\* A window counted more is an interval more without a severe second.
LEMMA OneMoreInterval ==
  ASSUME NEW h \in Nat, h >= 1, NEW i \in Nat, i >= 1
  PROVE  (h - 1) * i + 1 + (i - 1) = h * i /\ h * i \in Nat /\ (h - 1) * i \in Nat
<1>1. (h - 1) * i = h * i - i
  BY SMT
<1>2. h * i \in Nat /\ h - 1 \in Nat
  BY SMT
<1>3. (h - 1) * i \in Nat
  BY <1>2
<1> QED
  BY <1>1, <1>2, <1>3

\* Every second keeps what the count of healthy windows stands for.
LEMMA SecondKeepsCalm ==
  ASSUME IInv, NEW s \in Samples, SevereSecond(s) \/ LastSecond(s) \/ OtherSecond(s)
  PROVE  CalmSince'
<1>1. strategy' = strategy /\ Horizon' = Horizon
  BY EverySecond DEF IInv, Horizon
<1> SUFFICES ASSUME strategy = "aimd", healthy' > 0
             PROVE  sinceSevere' >= Smaller(Horizon, (healthy' - 1) * Interval + 1 + second')
  BY <1>1 DEF CalmSince
<1>2. healthy \in Nat /\ sinceSevere \in Nat /\ Horizon \in Nat /\ Horizon >= 1
  BY BoundsTyped, ParametersTyped DEF IInv, Typed, ControllerTyped, RunsTyped
<1>3. healthy > 0 => sinceSevere >= Smaller(Horizon, (healthy - 1) * Interval + 1 + second)
  BY DEF IInv, CalmSince
<1>4. second \in 0..(Interval - 1) /\ Interval \in Nat /\ Interval >= 1
  BY SecondMoves DEF IInv
<1>5. CASE SevereSecond(s)
  <2>1. healthy' = 0
    BY <1>5, EmergencyDrops DEF IInv, Typed, SevereSecond
  <2> QED
    BY <2>1
<1>6. CASE LastSecond(s) /\ ~SevereSecond(s)
  <2>1. second = Interval - 1 /\ second' = 0 /\ sinceSevere' = Smaller(Horizon, sinceSevere + 1)
    BY <1>6, SecondMoves DEF IInv
  <2>2. healthy' = healthy + 1
    <3>1. PICK values : ObserveWindow(values)
      BY <1>6 DEF LastSecond
    <3>2. healthy' = 0 \/ healthy' = healthy + 1
      BY <3>1, AimdWindow, Zenon
    <3> QED
      BY <3>2
  <2>3. CASE healthy = 0
    <3>1. (healthy' - 1) * Interval + 1 + second' = 1
      BY <1>4, <2>1, <2>2, <2>3
    <3> QED
      BY <1>2, <2>1, <3>1 DEF Smaller
  <2>4. CASE healthy > 0
    <3>1. (healthy - 1) * Interval + 1 + second = healthy * Interval /\ healthy * Interval \in Nat
      BY <1>2, <1>4, <2>1, <2>4, OneMoreInterval
    <3>2. (healthy' - 1) * Interval + 1 + second' = healthy * Interval + 1
      BY <1>2, <1>4, <2>1, <2>2
    <3> DEFINE n == healthy * Interval
    <3>3. n \in Nat /\ sinceSevere >= Smaller(Horizon, n)
      BY <1>3, <2>4, <3>1
    <3> HIDE DEF n
    <3>4. Smaller(Horizon, sinceSevere + 1) >= Smaller(Horizon, n + 1)
      BY <1>2, <3>3 DEF Smaller
    <3> QED
      BY <2>1, <3>2, <3>4 DEF n
  <2> QED
    BY <1>2, <2>3, <2>4
<1>7. CASE OtherSecond(s) /\ ~SevereSecond(s)
  <2>1. second' = second + 1 /\ sinceSevere' = Smaller(Horizon, sinceSevere + 1)
    BY <1>7, SecondMoves DEF IInv
  <2>2. healthy' = healthy
    BY <1>7 DEF OtherSecond
  <2> DEFINE n == (healthy - 1) * Interval
  <2>3. n \in Nat
    BY <1>2, <1>4, <2>2, OneMoreInterval
  <2>4. sinceSevere >= Smaller(Horizon, n + 1 + second)
    BY <1>3, <2>2
  <2>5. (healthy' - 1) * Interval = n
    BY <2>2
  <2> HIDE DEF n
  <2>6. Smaller(Horizon, sinceSevere + 1) >= Smaller(Horizon, n + 1 + (second + 1))
    BY <1>2, <1>4, <2>3, <2>4 DEF Smaller
  <2> QED
    BY <2>1, <2>5, <2>6
<1> QED
  BY <1>5, <1>6, <1>7

\* A second of an incident that has a cost is bounded by what was captured of it,
\* or by the base wait.
LEMMA SecondKeepsCaptured ==
  ASSUME IInv, NEW s \in Samples, SevereSecond(s) \/ LastSecond(s) \/ OtherSecond(s)
  PROVE  NeverWorseThanCaptured'
<1> DEFINE a == Admitted(s)
           w == WaitOf(s, a)
           o == Overload(a + s.background)
           d == Larger(0, s.captured - model.base)
<1>1. Simulate(s, w) /\ strategy' = strategy /\ model' = model /\ sample' = s /\ wait' = w
  BY EverySecond DEF IInv, Simulate
<1>2. IncidentCosts' = IncidentCosts /\ Unit' = Unit
  BY <1>1 DEF Unit, IncidentCosts, IncidentOverload, Overload
<1> SUFFICES ASSUME s.incident, IncidentCosts
             PROVE  /\ w <= Larger(model.base, s.captured) * Unit
                    /\ strategy = "fixed" /\ FixedBudget >= IncidentDemand
                         /\ s.background = IncidentBackground =>
                           w = Larger(model.base, s.captured) * Unit
  BY <1>1, <1>2, Zenon DEF NeverWorseThanCaptured
<1>3. model \in Models /\ budget \in Nat
      /\ (strategy = "fixed" => budget = FixedBudget)
  BY ParametersTyped DEF IInv, Typed, ControllerTyped, SecondsTyped
<1>4. model.base \in Nat /\ model.safe \in Nat /\ IncidentOverload \in Nat
      /\ Unit = IncidentOverload /\ IncidentDemand \in Nat /\ IncidentBackground \in Nat
  BY <1>3, PoolTyped, ParametersTyped DEF IncidentCosts
<1>5. a \in Nat /\ a <= IncidentDemand /\ s.background \in Nat /\ s.captured \in Nat
      /\ s.background <= IncidentBackground /\ s.demand = IncidentDemand
  BY <1>3, AdmittedTyped
<1>6. w = model.base * Unit + o * d
  BY DEF WaitOf
<1>7. o \in Nat /\ o <= Unit
  <2> HIDE DEF a
  <2> QED
    BY <1>4, <1>5 DEF Overload, IncidentOverload, Larger
<1>8. d \in Nat /\ model.base + d = Larger(model.base, s.captured)
  BY <1>4, <1>5 DEF Larger
<1>9. ASSUME strategy = "fixed", FixedBudget >= IncidentDemand, s.background = IncidentBackground
      PROVE  o = Unit
  <2>1. a = IncidentDemand
    BY <1>3, <1>4, <1>5, <1>9 DEF Admitted, Smaller
  <2> QED
    BY <1>4, <1>9, <2>1 DEF IncidentOverload
<1> HIDE DEF w, a, o, d
<1>10. o * d <= Unit * d /\ o * d \in Nat /\ Unit * d \in Nat /\ model.base * Unit \in Nat
  BY <1>4, <1>7, <1>8, TimesMonotone
<1>11. (model.base + d) * Unit = model.base * Unit + Unit * d
  BY <1>4, <1>8
<1>12. w <= (model.base + d) * Unit /\ (o = Unit => w = (model.base + d) * Unit)
  BY <1>6, <1>10, <1>11
<1> QED
  BY <1>8, <1>9, <1>12

\* It holds at the start.
LEMMA InitStep == Init => IInv
<1> SUFFICES ASSUME Init PROVE IInv
  OBVIOUS
<1> USE DEF Init
<1>1. ControllerTyped
  BY PoolAssumption, ParametersTyped DEF ControllerTyped, FirstBudget
<1>2. SecondsTyped
  <2>1. window \in Seq(Nat) /\ Len(window) = 0
    OBVIOUS
  <2> QED
    BY <2>1, PoolAssumption, ParametersTyped DEF SecondsTyped
<1>3. RunsTyped
  BY BoundsTyped DEF RunsTyped
<1>4. SevereIsCut /\ CalmSince /\ NeverWorseThanCaptured
  BY DEF SevereIsCut, CalmSince, NeverWorseThanCaptured
<1> QED
  BY <1>1, <1>2, <1>3, <1>4 DEF IInv, Typed

\* A step that changes nothing keeps it.
LEMMA StutterStep == IInv /\ UNCHANGED vars => IInv'
<1> SUFFICES ASSUME IInv, UNCHANGED vars PROVE IInv'
  OBVIOUS
<1>1. UNCHANGED <<strategy, model, budget, healthy, breaches, age, second, window, sample, wait,
                  severeRun, unsafeRun, sinceSevere>>
  BY DEF vars, controller
<1>2. Unit' = Unit /\ IncidentCosts' = IncidentCosts /\ UnsafeBound' = UnsafeBound
      /\ Horizon' = Horizon
  BY <1>1 DEF Unit, IncidentCosts, IncidentOverload, Overload, UnsafeBound, Horizon
<1>3. Typed'
  BY <1>1, <1>2 DEF IInv, Typed, ControllerTyped, SecondsTyped, RunsTyped, Severe
<1>4. SevereIsCut' /\ CalmSince'
  BY <1>1, <1>2 DEF IInv, SevereIsCut, CalmSince
<1>5. NeverWorseThanCaptured'
  BY <1>1, <1>2, Zenon DEF IInv, NeverWorseThanCaptured
<1> QED
  BY <1>3, <1>4, <1>5 DEF IInv

\* Every step keeps it.
LEMMA NextStep == IInv /\ [Next]_vars => IInv'
<1>1. ASSUME IInv, NEW s \in Samples, SevereSecond(s) \/ LastSecond(s) \/ OtherSecond(s)
      PROVE  IInv'
  <2>1. Typed'
    BY <1>1, SecondKeepsTyped DEF IInv
  <2> QED
    BY <1>1, <2>1, SecondKeepsCut, SecondKeepsCalm, SecondKeepsCaptured DEF IInv
<1> QED
  BY <1>1, StutterStep DEF Next

\* The invariant holds in every state.
THEOREM InductiveInvariant == Spec => []IInv
<1> QED
  BY InitStep, NextStep, PTL DEF Spec

\* Every variable keeps its type, the budget the policy's bounds.
THEOREM TypeCorrect == Spec => []TypeOK
<1>1. IInv => TypeOK
  <2> SUFFICES ASSUME IInv PROVE TypeOK
    OBVIOUS
  <2> QED
    BY DEF IInv, Typed, ControllerTyped, SecondsTyped, RunsTyped, TypeOK
<1> QED
  BY <1>1, InductiveInvariant, PTL

\* Where the incident overloads the pool at a cost, no second of it is simulated
\* worse than the larger of the captured and the base wait.
THEOREM NeverWorse == Spec => []NeverWorseThanCaptured
<1>1. IInv => NeverWorseThanCaptured
  BY DEF IInv
<1> QED
  BY <1>1, InductiveInvariant, PTL

\* The AIMD budget rises only after its healthy windows have passed without a
\* severe second.
THEOREM RaiseAlwaysEarned == Spec => RaiseIsEarned
<1>1. ASSUME IInv, NEW s \in Samples, SevereSecond(s) \/ LastSecond(s) \/ OtherSecond(s),
             strategy = "aimd", budget' > budget
      PROVE  sinceSevere' >= Horizon
  <2>0. MinBudget \in Nat /\ MaxBudget \in Nat /\ HealthyWindows \in Nat
    BY ParametersTyped
  <2>1. healthy \in 0..(HealthyWindows - 1) /\ sinceSevere \in Nat /\ Horizon \in Nat
        /\ budget \in MinBudget..MaxBudget /\ budget \in Nat
    BY <1>1, <2>0, BoundsTyped DEF IInv, Typed, ControllerTyped, RunsTyped
  <2>2. second \in 0..(Interval - 1) /\ Interval \in Nat /\ Interval >= 1
    BY <1>1, SecondMoves DEF IInv
  <2>3. ~SevereSecond(s)
    BY <1>1, <2>0, <2>1, EmergencyDrops DEF IInv, Typed, SevereSecond
  <2>4. ~OtherSecond(s)
    BY <1>1, <2>1 DEF OtherSecond, Hold
  <2>5. second = Interval - 1 /\ sinceSevere' = Smaller(Horizon, sinceSevere + 1)
    BY <1>1, <2>3, <2>4, SecondMoves DEF IInv
  <2>6. PICK values : ObserveWindow(values)
    BY <1>1, <2>3, <2>4 DEF LastSecond
  <2>7. ~Hold
    BY <1>1, <2>1 DEF Hold
  <2>8. ~Apply(Lower(budget), FALSE)
    <3>1. Lower(budget) \in MinBudget..budget
      BY <2>1, LowerIsLower
    <3> QED
      BY <1>1, <2>0, <2>1, <3>1 DEF Apply
  <2>9. healthy + 1 >= HealthyWindows
    BY <1>1, <2>6, <2>7, <2>8, AimdWindow
  <2>10. healthy = HealthyWindows - 1 /\ healthy \in Nat
    BY <2>0, <2>1, <2>9
  <2>11. Horizon = healthy * Interval + 1
    BY <2>10 DEF Horizon
  <2>12. CASE healthy = 0
    <3>1. Horizon = 1
      BY <2>2, <2>11, <2>12
    <3> QED
      BY <2>1, <2>5, <3>1 DEF Smaller
  <2>13. CASE healthy > 0
    <3>1. (healthy - 1) * Interval + 1 + second = healthy * Interval /\ healthy * Interval \in Nat
      BY <2>2, <2>5, <2>10, <2>13, OneMoreInterval
    <3>2. sinceSevere >= Smaller(Horizon, healthy * Interval)
      BY <1>1, <2>13, <3>1 DEF IInv, CalmSince
    <3> QED
      BY <2>1, <2>5, <2>11, <3>1, <3>2 DEF Smaller
  <2>14. healthy = 0 \/ healthy > 0
    BY <2>0, <2>1
  <2> QED
    BY <2>12, <2>13, <2>14, Zenon
<1>2. IInv /\ [Next]_vars =>
        [strategy = "aimd" /\ budget' > budget => sinceSevere' >= Horizon]_vars
  BY <1>1 DEF Next
<1> QED
  BY <1>2, InductiveInvariant, PTL DEF Spec, RaiseIsEarned

-----------------------------------------------------------------------------
(* Overload ends.                                                          *)

Series == BreachWindows * Interval

\* The series of breach windows to one decrease: the cooldown's, rounded up.
Rounds == Larger(1, (Cooldown + Series - 1) \div Series)

\* The last unsafe seconds of the window are those of the run.
WindowRemembers ==
  \A i \in 1..Len(window) : i > Len(window) - unsafeRun => Unsafe(window[i])

\* Seconds since the last change, or less, when the cooldown held back the
\* decrease at the end of i series of breach windows.
Elapsed(i) == i * Series + breaches * Interval + second

\* Above the minimum budget a run of unsafe seconds has lasted no longer than a
\* cut interval, the decreases since the largest budget, and the way to the next.
Underway ==
  \E i \in 0..(Rounds - 1) :
    /\ age >= Smaller(Cooldown, Elapsed(i) + 1)
    /\ unsafeRun <= (Interval - 1) + (Decreases[MaxBudget] - Decreases[budget]) * ToOneDecrease
                      + Elapsed(i)

Progress ==
  strategy = "aimd" =>
    /\ budget = MinBudget => unsafeRun <= UnsafeBound
    /\ budget > MinBudget => Underway

\* The series that fit in the cooldown are fewer than the rounds.
LEMMA RoundsCoverCooldown ==
  /\ Rounds \in Nat /\ Rounds >= 1 /\ Series \in Nat /\ Series >= 1
  /\ ToOneDecrease = Rounds * Series
  /\ \A n \in Nat : n * Series < Cooldown => n < Rounds
<1>1. /\ Interval \in Nat /\ Interval >= 1 /\ BreachWindows \in Nat /\ BreachWindows >= 1
      /\ Cooldown \in Nat
  BY PoolAssumption, ParametersTyped
<1>2. Series \in Nat /\ Series >= 1
  BY <1>1 DEF Series
<1> DEFINE n0 == Cooldown + Series - 1
           q == n0 \div Series
           r == n0 % Series
<1>3. n0 \in Nat /\ n0 = Cooldown + Series - 1
  BY <1>1, <1>2
<1> HIDE DEF n0
<1>4. q \in Nat /\ r \in 0..(Series - 1) /\ n0 = q * Series + r
  <2>1. Series \in Nat \ {0}
    BY <1>2
  <2> QED
    BY <1>3, <2>1, Division
<1>5. Rounds = Larger(1, q)
  BY DEF Rounds, n0
<1>6. ToOneDecrease = Rounds * Series
  BY DEF ToOneDecrease, Rounds, Series
<1> HIDE DEF q, r
<1>7. Rounds \in Nat /\ Rounds >= 1 /\ q <= Rounds
  BY <1>4, <1>5 DEF Larger
<1>8. Cooldown <= q * Series
  BY <1>1, <1>2, <1>3, <1>4
<1>9. ASSUME NEW n \in Nat, n * Series < Cooldown PROVE n < Rounds
  <2> SUFFICES ASSUME q <= n PROVE FALSE
    BY <1>4, <1>7
  <2>1. q * Series <= n * Series /\ q * Series \in Nat /\ n * Series \in Nat
    BY <1>2, <1>4, TimesMonotone
  <2> QED
    BY <1>1, <1>8, <1>9, <2>1
<1> QED
  BY <1>2, <1>6, <1>7, <1>9

\* The way to the next decrease is shorter than the time to one.
LEMMA ElapsedBounded ==
  ASSUME Typed, NEW i \in 0..(Rounds - 1)
  PROVE  /\ Elapsed(i) \in Nat /\ Elapsed(i) + 1 <= ToOneDecrease
         /\ breaches + 1 >= BreachWindows /\ second = Interval - 1 =>
              Elapsed(i) + 1 = (i + 1) * Series
         /\ i * Series \in Nat /\ breaches * Interval \in Nat
<1>1. /\ Interval \in Nat /\ Interval >= 1 /\ BreachWindows \in Nat /\ BreachWindows >= 1
      /\ Rounds \in Nat /\ Rounds >= 1 /\ Series \in Nat /\ ToOneDecrease = Rounds * Series
  BY PoolAssumption, ParametersTyped, RoundsCoverCooldown
<1>2. breaches \in Nat /\ breaches <= BreachWindows - 1 /\ second \in 0..(Interval - 1)
      /\ i \in Nat /\ i <= Rounds - 1
  BY <1>1 DEF Typed, ControllerTyped, SecondsTyped
<1>3. i * Series \in Nat /\ i * Series <= (Rounds - 1) * Series
  BY <1>1, <1>2, TimesMonotone
<1>4. breaches * Interval \in Nat /\ breaches * Interval <= (BreachWindows - 1) * Interval
  BY <1>1, <1>2, TimesMonotone
<1>5. (Rounds - 1) * Series = Rounds * Series - Series
      /\ (BreachWindows - 1) * Interval = Series - Interval
      /\ (i + 1) * Series = i * Series + Series /\ Rounds * Series \in Nat
  BY <1>1, <1>2 DEF Series
<1>6. breaches + 1 >= BreachWindows => breaches * Interval = (BreachWindows - 1) * Interval
  <2>1. breaches + 1 >= BreachWindows => breaches = BreachWindows - 1
    BY <1>1, <1>2
  <2> QED
    BY <2>1
<1> QED
  BY <1>1, <1>2, <1>3, <1>4, <1>5, <1>6 DEF Elapsed

\* Under way, one more second is still within the bound.
LEMMA UnderwayBounded ==
  ASSUME EveryDecreaseLowers, Typed, strategy = "aimd", budget > MinBudget, Underway
  PROVE  unsafeRun + 1 <= UnsafeBound
<1> DEFINE D == Decreases[MaxBudget]
           e == Decreases[budget]
           T == ToOneDecrease
<1>1. /\ MinBudget \in Nat /\ MaxBudget \in Nat /\ Interval \in Nat
      /\ budget \in Budgets /\ MaxBudget \in Budgets /\ budget <= MaxBudget
  BY PoolAssumption, ParametersTyped DEF Typed, ControllerTyped, Budgets
<1>2. D \in Nat /\ e \in Nat /\ e <= D /\ e >= 1
  <2>1. Lower(budget) \in Budgets /\ e = 1 + Decreases[Lower(budget)]
    BY <1>1, DecreasesMonotone
  <2>2. e <= D
    BY <1>1, DecreasesMonotone
  <2>3. D \in Nat /\ e \in Nat /\ Decreases[Lower(budget)] \in Nat
    BY <1>1, <2>1, DecreasesCounts
  <2> QED
    BY <2>1, <2>2, <2>3
<1>3. PICK i \in 0..(Rounds - 1) : unsafeRun <= (Interval - 1) + (D - e) * T + Elapsed(i)
  BY DEF Underway
<1>4. Elapsed(i) \in Nat /\ Elapsed(i) + 1 <= T /\ T \in Nat
  BY ElapsedBounded, BoundsTyped
<1>5. unsafeRun \in Nat
  BY BoundsTyped DEF Typed, RunsTyped
<1>6. UnsafeBound = (Interval - 1) + D * T
  BY DEF UnsafeBound
<1> HIDE DEF D, e, T
<1>7. (D - e + 1) * T <= D * T
  BY <1>2, <1>4, TimesMonotone
<1>8. (D - e + 1) * T = (D - e) * T + T /\ (D - e) * T \in Int /\ D * T \in Int
  BY <1>2, <1>4
<1> QED
  BY <1>1, <1>3, <1>4, <1>5, <1>6, <1>7, <1>8

\* A second makes the run one longer, or ends it.
LEMMA RunMoves ==
  ASSUME Typed, NEW s \in Samples, SevereSecond(s) \/ LastSecond(s) \/ OtherSecond(s)
  PROVE  /\ unsafeRun \in Nat /\ unsafeRun' \in Nat /\ unsafeRun' <= unsafeRun + 1
         /\ unsafeRun' > 0 => Unsafe(WaitOf(s, Admitted(s))) /\ budget > MinBudget
<1> DEFINE w == WaitOf(s, Admitted(s))
<1>1. unsafeRun' = IF Unsafe(w) /\ Avoidable(s) THEN Smaller(UnsafeBound + 1, unsafeRun + 1) ELSE 0
  BY EverySecond DEF Simulate
<1>2. unsafeRun \in Nat /\ UnsafeBound \in Nat
  BY BoundsTyped DEF Typed, RunsTyped
<1>3. model \in Models /\ budget \in Nat
  BY ParametersTyped DEF Typed, ControllerTyped, SecondsTyped
<1>4. unsafeRun' > 0 => Unsafe(w) /\ Avoidable(s)
  BY <1>1
<1>5. Unsafe(w) /\ Avoidable(s) => budget > MinBudget
  BY <1>3, UnsafeNeedsMore
<1> HIDE DEF w
<1>6. unsafeRun' \in Nat /\ unsafeRun' <= unsafeRun + 1
  BY <1>1, <1>2 DEF Smaller
<1> QED
  BY <1>2, <1>4, <1>5, <1>6 DEF w

\* The window goes on remembering the run.
LEMMA SecondKeepsMemory ==
  ASSUME Typed, WindowRemembers, NEW s \in Samples,
         SevereSecond(s) \/ LastSecond(s) \/ OtherSecond(s)
  PROVE  WindowRemembers'
<1> DEFINE w == WaitOf(s, Admitted(s))
<1>1. model' = model /\ w \in Nat
  BY EverySecond
<1>2. Unit' = Unit
  BY <1>1 DEF Unit, IncidentOverload, Overload
<1>3. CASE window' = <<>>
  <2>1. Len(window') = 0
    BY <1>3
  <2> QED
    BY <2>1 DEF WindowRemembers
<1>4. CASE OtherSecond(s)
  <2>1. window' = Append(window, w)
    BY <1>4 DEF OtherSecond
  <2>2. window \in Seq(Nat) /\ Len(window) \in Nat
    BY DEF Typed, SecondsTyped
  <2>3. unsafeRun \in Nat /\ unsafeRun' \in Nat /\ unsafeRun' <= unsafeRun + 1
        /\ (unsafeRun' > 0 => w > TargetWait * Unit)
    BY RunMoves DEF Unsafe
  <2>4. \A i \in 1..Len(window) : i > Len(window) - unsafeRun => window[i] > TargetWait * Unit
    BY DEF WindowRemembers, Unsafe
  <2> HIDE DEF w
  <2>5. Len(window') = Len(window) + 1 /\ window'[Len(window) + 1] = w
        /\ \A i \in 1..Len(window) : window'[i] = window[i]
    BY <1>1, <2>1, <2>2
  <2>6. ASSUME NEW i \in 1..Len(window'), i > Len(window') - unsafeRun'
        PROVE  window'[i] > TargetWait * Unit
    <3>1. CASE i = Len(window) + 1
      BY <2>2, <2>3, <2>5, <2>6, <3>1
    <3>2. CASE i # Len(window) + 1
      <4>1. i \in 1..Len(window) /\ i > Len(window) - unsafeRun
        BY <2>2, <2>3, <2>5, <2>6, <3>2
      <4> QED
        BY <2>4, <2>5, <4>1
    <3> QED
      BY <3>1, <3>2
  <2> QED
    BY <1>2, <2>6 DEF WindowRemembers, Unsafe
<1> QED
  BY <1>3, <1>4 DEF SevereSecond, LastSecond

\* A whole window of unsafe waits is above the target.
LEMMA UnsafeWindowAbove ==
  ASSUME Typed, WindowRemembers, NEW w \in Nat, Unsafe(w), unsafeRun >= Len(window)
  PROVE  Above(Append(window, w)) /\ ~Below(Append(window, w))
<1> DEFINE v == Append(window, w)
           t == TargetWait * Unit
           h == HealthyWait * Unit
<1>1. /\ TargetWait \in Nat /\ HealthyWait \in Nat /\ HealthyWait <= TargetWait
      /\ Unit \in Nat /\ window \in Seq(Nat) /\ Len(window) \in Nat /\ unsafeRun \in Nat
  BY PoolAssumption, ParametersTyped, PoolTyped, BoundsTyped DEF Typed, SecondsTyped, RunsTyped
<1>2. t \in Nat /\ h \in Nat /\ h <= t
  BY <1>1, TimesMonotone
<1>3. (100 * TargetWait) * Unit = 100 * t /\ (100 * HealthyWait) * Unit = 100 * h
  BY <1>1
<1>4. \A i \in 1..Len(window) : window[i] > t
  BY <1>1 DEF WindowRemembers, Unsafe
<1>5. w > t
  BY DEF Unsafe
<1>6. v \in Seq(Nat) /\ Len(v) = Len(window) + 1 /\ v[Len(window) + 1] = w
      /\ \A i \in 1..Len(window) : v[i] = window[i]
  BY <1>1
<1> HIDE DEF v, t, h
<1>7. ASSUME NEW i \in 1..Len(v) PROVE v[i] > t
  <2>1. i \in 1..Len(window) \/ i = Len(window) + 1
    BY <1>1, <1>6
  <2> QED
    BY <1>4, <1>5, <1>6, <2>1
<1>8. Len(v) >= 1
  BY <1>1, <1>6
<1>9. P95(v) \in Nat /\ P95(v) > 100 * t
  BY <1>2, <1>6, <1>7, <1>8, P95Above
<1>10. ~(P95(v) < 100 * h)
  BY <1>2, <1>9
<1> QED
  BY <1>3, <1>9, <1>10 DEF Above, Below, v

\* Under way is what follows, for an i, when the cooldown and the run allow it.
LEMMA UnderwayFrom ==
  ASSUME Typed', NEW i \in 0..(Rounds - 1),
         age' >= Smaller(Cooldown, i * Series + breaches' * Interval + second' + 1),
         unsafeRun' <= (Interval - 1)
                        + (Decreases[MaxBudget] - Decreases[budget']) * ToOneDecrease
                        + (i * Series + breaches' * Interval + second')
  PROVE  Underway'
BY DEF Underway, Elapsed

\* The decreases left are no more than those from the largest budget.
LEMMA DecreasesLeft ==
  ASSUME EveryDecreaseLowers, Typed', strategy' = "aimd"
  PROVE  /\ (Decreases[MaxBudget] - Decreases[budget']) * ToOneDecrease \in Nat
         /\ budget' \in Budgets
<1>1. /\ MinBudget \in Nat /\ MaxBudget \in Nat /\ MaxBudget \in Budgets
      /\ budget' \in Budgets /\ budget' <= MaxBudget
  BY PoolAssumption, ParametersTyped DEF Typed, ControllerTyped, Budgets
<1> DEFINE D == Decreases[MaxBudget]
           e == Decreases[budget']
<1>2. D \in Nat /\ e \in Nat /\ e <= D /\ ToOneDecrease \in Nat
  BY <1>1, DecreasesCounts, DecreasesMonotone, BoundsTyped
<1> HIDE DEF D, e
<1>3. D - e \in Nat
  BY <1>2
<1>4. (D - e) * ToOneDecrease \in Nat
  BY <1>2, <1>3
<1> QED
  BY <1>1, <1>4 DEF D, e

\* The age after a second.
LEMMA AgeMoves ==
  ASSUME Typed, strategy = "aimd", NEW s \in Samples, LastSecond(s) \/ OtherSecond(s)
  PROVE  /\ age \in Nat /\ Cooldown \in Nat /\ age <= Cooldown
         /\ age' = Smaller(Cooldown, 1) \/ age' = Smaller(Cooldown, age + 1)
         /\ age' >= Smaller(Cooldown, 1)
<1>1. age \in Nat /\ Cooldown \in Nat /\ age <= Cooldown
  BY ParametersTyped DEF Typed, ControllerTyped
<1>2. age' = Smaller(Cooldown, 1) \/ age' = Smaller(Cooldown, age + 1)
  <2>1. CASE OtherSecond(s)
    BY <2>1 DEF OtherSecond, Hold
  <2>2. CASE LastSecond(s)
    <3>1. PICK values : ObserveWindow(values)
      BY <2>2 DEF LastSecond
    <3>2. \/ Apply(Lower(budget), FALSE)
          \/ Apply(Desired((budget + Increase) * DecDen), FALSE)
          \/ Hold
      BY <3>1, AimdWindow
    <3> QED
      BY <3>2 DEF Apply, Hold
  <2> QED
    BY <2>1, <2>2
<1> QED
  BY <1>1, <1>2 DEF Smaller

\* Every second keeps the progress of an AIMD controller.
LEMMA SecondKeepsProgress ==
  ASSUME EveryDecreaseLowers, IInv, IInv', WindowRemembers, Progress, NEW s \in Samples,
         SevereSecond(s) \/ LastSecond(s) \/ OtherSecond(s)
  PROVE  Progress'
<1>1. strategy' = strategy /\ UnsafeBound' = UnsafeBound
  BY EverySecond DEF IInv, UnsafeBound
<1> SUFFICES ASSUME strategy = "aimd"
             PROVE  /\ budget' = MinBudget => unsafeRun' <= UnsafeBound
                    /\ budget' > MinBudget => Underway'
  BY <1>1 DEF Progress
<1>2. /\ MinBudget \in Nat /\ MaxBudget \in Nat /\ Interval \in Nat /\ Interval >= 1
      /\ Cooldown \in Nat /\ UnsafeBound \in Nat
      /\ budget \in MinBudget..MaxBudget /\ budget \in Budgets /\ budget \in Nat
      /\ breaches \in Nat /\ breaches <= BreachWindows - 1 /\ BreachWindows \in Nat
      /\ second \in 0..(Interval - 1)
  BY PoolAssumption, ParametersTyped, BoundsTyped
     DEF IInv, Typed, ControllerTyped, SecondsTyped, Budgets
<1>3. Typed /\ Typed'
  BY DEF IInv
<1>4. unsafeRun \in Nat /\ unsafeRun' \in Nat /\ unsafeRun' <= unsafeRun + 1
      /\ (unsafeRun' > 0 => Unsafe(WaitOf(s, Admitted(s))) /\ budget > MinBudget)
  BY <1>3, RunMoves
<1>5. unsafeRun' <= UnsafeBound
  <2>1. CASE unsafeRun' > 0
    <3>1. budget > MinBudget /\ Underway
      BY <1>4, <2>1 DEF Progress
    <3>2. unsafeRun + 1 <= UnsafeBound
      BY <1>3, <3>1, UnderwayBounded
    <3> QED
      BY <1>2, <1>4, <3>2
  <2>2. CASE ~(unsafeRun' > 0)
    BY <1>2, <1>4, <2>2
  <2> QED
    BY <2>1, <2>2
<1> SUFFICES ASSUME budget' > MinBudget PROVE Underway'
  BY <1>5
<1> DEFINE left == (Decreases[MaxBudget] - Decreases[budget]) * ToOneDecrease
           left2 == (Decreases[MaxBudget] - Decreases[budget']) * ToOneDecrease
<1>6. left2 \in Nat /\ budget' \in Budgets
  BY <1>1, <1>3, DecreasesLeft
<1>7. ~SevereSecond(s)
  BY <1>2, EmergencyDrops DEF IInv, Typed, SevereSecond
<1>8. /\ age \in Nat /\ age <= Cooldown
      /\ age' = Smaller(Cooldown, 1) \/ age' = Smaller(Cooldown, age + 1)
      /\ age' >= Smaller(Cooldown, 1)
  BY <1>3, <1>7, AgeMoves
<1>9. /\ Rounds \in Nat /\ Rounds >= 1 /\ Series \in Nat
      /\ \A n \in Nat : n * Series < Cooldown => n < Rounds
  BY RoundsCoverCooldown
\* Whatever starts over is under way from nothing.
<1>10. ASSUME breaches' = 0, second' = 0, unsafeRun' <= Interval - 1 PROVE Underway'
  <2>1. 0 * Series + breaches' * Interval + second' = 0
    BY <1>2, <1>9, <1>10
  <2>2. 0 \in 0..(Rounds - 1)
    BY <1>9
  <2>3. age' >= Smaller(Cooldown, 0 * Series + breaches' * Interval + second' + 1)
    BY <1>8, <2>1
  <2>4. unsafeRun' <= (Interval - 1) + left2 + (0 * Series + breaches' * Interval + second')
    BY <1>2, <1>4, <1>6, <1>10, <2>1
  <2> HIDE DEF left2
  <2> QED
    BY <1>3, <2>2, <2>3, <2>4, UnderwayFrom DEF left2
\* What goes on is one second further.
<1>11. ASSUME NEW i \in 0..(Rounds - 1), age >= Smaller(Cooldown, Elapsed(i) + 1),
              age' = Smaller(Cooldown, age + 1),
              unsafeRun' <= (Interval - 1) + left2 + (Elapsed(i) + 1),
              NEW j \in 0..(Rounds - 1),
              j * Series + breaches' * Interval + second' = Elapsed(i) + 1
       PROVE  Underway'
  <2>1. Elapsed(i) \in Nat
    BY <1>3, ElapsedBounded
  <2>2. age' >= Smaller(Cooldown, j * Series + breaches' * Interval + second' + 1)
    BY <1>2, <1>8, <1>11, <2>1 DEF Smaller
  <2>3. unsafeRun' <= (Interval - 1) + left2 + (j * Series + breaches' * Interval + second')
    BY <1>11
  <2> QED
    BY <1>3, <2>2, <2>3, UnderwayFrom DEF left2
<1>12. ASSUME budget > MinBudget
       PROVE  \E i \in 0..(Rounds - 1) :
                /\ age >= Smaller(Cooldown, Elapsed(i) + 1)
                /\ unsafeRun' <= (Interval - 1) + left + (Elapsed(i) + 1)
  <2>1. PICK i \in 0..(Rounds - 1) :
              /\ age >= Smaller(Cooldown, Elapsed(i) + 1)
              /\ unsafeRun <= (Interval - 1) + left + Elapsed(i)
    BY <1>12 DEF Progress, Underway
  <2>2. Elapsed(i) \in Nat
    BY <1>3, ElapsedBounded
  <2>3. left \in Int
    <3>1. MaxBudget \in Budgets
      BY PoolAssumption, <1>2 DEF Budgets
    <3>2. Decreases[MaxBudget] \in Nat /\ Decreases[budget] \in Nat /\ ToOneDecrease \in Nat
      BY <1>2, <3>1, DecreasesCounts, BoundsTyped
    <3> QED
      BY <3>2
  <2> HIDE DEF left
  <2> QED
    BY <1>2, <1>4, <2>1, <2>2, <2>3
<1>13. CASE OtherSecond(s)
  <2>1. /\ second' = second + 1 /\ budget' = budget /\ breaches' = breaches
        /\ age' = Smaller(Cooldown, age + 1)
    BY <1>3, <1>13, SecondMoves DEF OtherSecond, Hold
  <2>2. PICK i \in 0..(Rounds - 1) :
              /\ age >= Smaller(Cooldown, Elapsed(i) + 1)
              /\ unsafeRun' <= (Interval - 1) + left + (Elapsed(i) + 1)
    BY <1>12, <2>1
  <2>3. left2 = left
    BY <2>1
  <2>4. i * Series + breaches' * Interval + second' = Elapsed(i) + 1
    <3>1. i * Series \in Nat /\ breaches * Interval \in Nat
      BY <1>3, ElapsedBounded
    <3> QED
      BY <1>2, <2>1, <3>1 DEF Elapsed
  <2> QED
    BY <1>11, <2>1, <2>2, <2>3, <2>4
<1>14. CASE LastSecond(s)
  <2> DEFINE w == WaitOf(s, Admitted(s))
             v == Append(window, w)
  <2>1. second = Interval - 1 /\ second' = 0 /\ ObserveWindow(v)
    BY <1>3, <1>14, SecondMoves DEF LastSecond
  <2>2. CASE unsafeRun' <= Interval - 1
    <3>1. CASE breaches' = 0
      BY <1>10, <2>1, <2>2, <3>1
    <3>2. CASE breaches' # 0
      <4>1. Hold /\ ~(breaches + 1 >= BreachWindows) /\ breaches' = breaches + 1
        BY <2>1, <3>2, AimdWindow
      <4>2. budget' = budget /\ age' = Smaller(Cooldown, age + 1)
        BY <4>1 DEF Hold
      <4>3. PICK i \in 0..(Rounds - 1) :
                  /\ age >= Smaller(Cooldown, Elapsed(i) + 1)
                  /\ unsafeRun' <= (Interval - 1) + left + (Elapsed(i) + 1)
        BY <1>12, <4>2
      <4>4. left2 = left
        BY <4>2
      <4>5. i * Series + breaches' * Interval + second' = Elapsed(i) + 1
        <5>1. i * Series \in Nat /\ breaches * Interval \in Nat
          BY <1>3, ElapsedBounded
        <5>2. (breaches + 1) * Interval = breaches * Interval + Interval
          BY <1>2
        <5> QED
          BY <1>2, <2>1, <4>1, <5>1, <5>2 DEF Elapsed
      <4> QED
        BY <1>11, <4>2, <4>3, <4>4, <4>5
    <3> QED
      BY <3>1, <3>2
  <2>3. CASE ~(unsafeRun' <= Interval - 1)
    <3>1. unsafeRun' > 0 /\ unsafeRun >= Interval - 1
      BY <1>2, <1>4, <2>3
    <3>2. Unsafe(w) /\ budget > MinBudget
      BY <1>4, <3>1
    <3>3. w \in Nat /\ unsafeRun >= Len(window)
      <4>1. Len(window) \in Nat /\ Len(window) <= second
        BY DEF IInv, Typed, SecondsTyped
      <4> QED
        BY <1>2, <1>3, <1>4, <2>1, <3>1, <4>1, EverySecond
    <3>4. Above(v) /\ ~Below(v)
      BY <1>3, <3>2, <3>3, UnsafeWindowAbove
    <3>5. PICK i \in 0..(Rounds - 1) :
                /\ age >= Smaller(Cooldown, Elapsed(i) + 1)
                /\ unsafeRun' <= (Interval - 1) + left + (Elapsed(i) + 1)
      BY <1>12, <3>2
    <3>6. /\ Elapsed(i) \in Nat /\ Elapsed(i) + 1 <= ToOneDecrease
          /\ i * Series \in Nat /\ breaches * Interval \in Nat
      BY <1>3, ElapsedBounded
    <3>7. CASE Hold /\ breaches' = breaches + 1
      <4>1. budget' = budget /\ age' = Smaller(Cooldown, age + 1)
        BY <3>7 DEF Hold
      <4>2. left2 = left
        BY <4>1
      <4>3. i * Series + breaches' * Interval + second' = Elapsed(i) + 1
        <5>1. (breaches + 1) * Interval = breaches * Interval + Interval
          BY <1>2
        <5> QED
          BY <1>2, <2>1, <3>6, <3>7, <5>1 DEF Elapsed
      <4> QED
        BY <1>11, <3>5, <4>1, <4>2, <4>3
    <3>8. CASE Apply(Lower(budget), FALSE) /\ breaches' = 0 /\ breaches + 1 >= BreachWindows
      <4>1. Elapsed(i) + 1 = (i + 1) * Series
        BY <1>3, <2>1, <3>8, ElapsedBounded
      <4>2. Lower(budget) < budget /\ Lower(budget) \in Budgets
            /\ Decreases[budget] = 1 + Decreases[Lower(budget)]
        <5>1. budget \in (MinBudget + 1)..MaxBudget
          BY <1>2, <3>2
        <5>2. Lower(budget) < budget
          BY <5>1 DEF EveryDecreaseLowers, Lower
        <5> QED
          BY <1>2, <3>2, <5>2, DecreasesMonotone
      <4>3. CASE age >= Cooldown
        <5>1. budget' = Lower(budget) /\ age' = Smaller(Cooldown, 1)
          BY <1>2, <3>8, <4>2, <4>3 DEF Apply
        <5>2. left2 = left + ToOneDecrease /\ left \in Int
          <6>1. MaxBudget \in Budgets
            BY PoolAssumption, <1>2 DEF Budgets
          <6> DEFINE d == Decreases[MaxBudget]
                     e == Decreases[budget]
                     f == Decreases[budget']
          <6>2. d \in Nat /\ e \in Nat /\ f \in Nat /\ ToOneDecrease \in Nat /\ e = 1 + f
            BY <1>2, <1>6, <4>2, <5>1, <6>1, DecreasesCounts, BoundsTyped
          <6> HIDE DEF d, e, f
          <6>3. (d - f) * ToOneDecrease = (d - e) * ToOneDecrease + ToOneDecrease
            BY <6>2
          <6>4. (d - e) * ToOneDecrease \in Int
            BY <6>2
          <6> QED
            BY <6>3, <6>4 DEF d, e, f
        <5>3. unsafeRun' <= (Interval - 1) + left2 + 0
          <6> HIDE DEF left, left2
          <6>1. ToOneDecrease \in Nat
            BY BoundsTyped
          <6> QED
            BY <1>2, <1>4, <1>6, <3>5, <3>6, <5>2, <6>1
        <5>4. 0 * Series + breaches' * Interval + second' = 0
          BY <1>2, <1>9, <2>1, <3>8
        <5>5. 0 \in 0..(Rounds - 1)
          BY <1>9
        <5>6. age' >= Smaller(Cooldown, 0 * Series + breaches' * Interval + second' + 1)
          BY <1>8, <5>4
        <5>7. unsafeRun' <= (Interval - 1) + left2 + (0 * Series + breaches' * Interval + second')
          BY <5>3, <5>4
        <5> QED
          BY <1>3, <5>5, <5>6, <5>7, UnderwayFrom DEF left2
      <4>4. CASE ~(age >= Cooldown)
        <5>1. budget' = budget /\ age' = Smaller(Cooldown, age + 1)
          BY <3>8, <4>4 DEF Apply
        <5>2. (i + 1) * Series < Cooldown
          <6>1. age >= Elapsed(i) + 1
            BY <1>2, <1>8, <3>5, <3>6, <4>4 DEF Smaller
          <6> QED
            BY <1>2, <1>8, <3>6, <4>1, <4>4, <6>1
        <5>3. i + 1 \in 0..(Rounds - 1)
          <6>1. i \in Nat /\ i + 1 \in Nat
            BY <1>9
          <6>2. i + 1 < Rounds
            BY <1>9, <5>2, <6>1
          <6> QED
            BY <1>9, <6>1, <6>2
        <5>4. (i + 1) * Series + breaches' * Interval + second' = Elapsed(i) + 1
          BY <1>2, <2>1, <3>6, <3>8, <4>1
        <5>5. left2 = left
          BY <5>1
        <5> DEFINE j == i + 1
        <5>6. j \in 0..(Rounds - 1) /\ j * Series + breaches' * Interval + second' = Elapsed(i) + 1
          BY <5>3, <5>4
        <5> HIDE DEF j
        <5> QED
          BY <1>11, <3>5, <5>1, <5>5, <5>6
      <4> QED
        BY <4>3, <4>4
    <3> QED
      BY <2>1, <3>4, <3>7, <3>8, AimdWindow
  <2> QED
    BY <2>2, <2>3
<1> QED
  BY <1>7, <1>13, <1>14

\* An adaptive controller is out of an avoidable severe overload in a second, and
\* AIMD out of an avoidable unsafe one within the bound, when no decrease above
\* the minimum is lost in rounding.
THEOREM OverloadAlwaysEnds ==
  ASSUME EveryDecreaseLowers
  PROVE  Spec => []OverloadEnds
<1> DEFINE Inv == IInv /\ WindowRemembers /\ Progress
<1>1. Init => Inv
  <2> SUFFICES ASSUME Init PROVE WindowRemembers /\ Progress
    BY InitStep
  <2>1. WindowRemembers
    <3>1. Len(window) = 0
      BY DEF Init
    <3> QED
      BY <3>1 DEF WindowRemembers
  <2>2. ASSUME strategy = "aimd" PROVE Underway /\ unsafeRun <= UnsafeBound
    <3>1. /\ budget = InitialBudget /\ breaches = 0 /\ second = 0 /\ age = Cooldown
          /\ unsafeRun = 0
      BY <2>2 DEF Init, FirstBudget
    <3>2. /\ Rounds \in Nat /\ Rounds >= 1 /\ Series \in Nat /\ Interval \in Nat /\ Interval >= 1
          /\ Cooldown \in Nat /\ UnsafeBound \in Nat
          /\ MinBudget \in Nat /\ MaxBudget \in Nat /\ InitialBudget \in Budgets
          /\ MaxBudget \in Budgets /\ InitialBudget <= MaxBudget
      BY PoolAssumption, ParametersTyped, RoundsCoverCooldown, BoundsTyped DEF Budgets
    <3>3. 0 \in 0..(Rounds - 1) /\ Elapsed(0) = 0
      BY <3>1, <3>2 DEF Elapsed
    <3> DEFINE d == Decreases[MaxBudget]
               e == Decreases[budget]
    <3>4. d \in Nat /\ e \in Nat /\ e <= d /\ ToOneDecrease \in Nat
      BY <3>1, <3>2, DecreasesCounts, DecreasesMonotone, BoundsTyped
    <3> HIDE DEF d, e
    <3>5. d - e \in Nat
      BY <3>4
    <3>6. (d - e) * ToOneDecrease \in Nat
      BY <3>4, <3>5
    <3>7. age >= Smaller(Cooldown, Elapsed(0) + 1)
      BY <3>1, <3>2, <3>3 DEF Smaller
    <3>8. unsafeRun <= (Interval - 1) + (d - e) * ToOneDecrease + Elapsed(0)
      BY <3>1, <3>2, <3>3, <3>6
    <3> QED
      BY <3>1, <3>2, <3>3, <3>7, <3>8 DEF Underway, d, e
  <2> QED
    BY <2>1, <2>2 DEF Progress
<1>2. ASSUME Inv, IInv', [Next]_vars PROVE Inv'
  <2>1. CASE UNCHANGED vars
    <3>1. UNCHANGED <<strategy, model, budget, breaches, age, second, window, unsafeRun>>
      BY <2>1 DEF vars, controller
    <3>2. WindowRemembers'
      BY <1>2, <3>1 DEF WindowRemembers, Unsafe, Unit, IncidentOverload, Overload
    <3>3. Progress'
      BY <1>2, <3>1, Zenon DEF Progress, Underway, Elapsed, UnsafeBound
    <3> QED
      BY <1>2, <3>2, <3>3
  <2>2. CASE Next
    <3>1. PICK s \in Samples : SevereSecond(s) \/ LastSecond(s) \/ OtherSecond(s)
      BY <2>2 DEF Next
    <3>2. WindowRemembers'
      BY <1>2, <3>1, SecondKeepsMemory DEF IInv
    <3>3. Progress'
      BY <1>2, <3>1, SecondKeepsProgress
    <3> QED
      BY <1>2, <3>2, <3>3
  <2> QED
    BY <1>2, <2>1, <2>2
<1>3. Inv => OverloadEnds
  <2> SUFFICES ASSUME Inv PROVE OverloadEnds
    OBVIOUS
  <2>1. strategy \in {"step", "aimd"} => severeRun <= 1
    BY DEF IInv, Typed, RunsTyped, SevereIsCut
  <2>2. ASSUME strategy = "aimd" PROVE unsafeRun <= UnsafeBound
    <3>1. budget = MinBudget \/ budget > MinBudget
      BY <2>2, ParametersTyped DEF IInv, Typed, ControllerTyped
    <3>2. CASE budget = MinBudget
      BY <2>2, <3>2 DEF Progress
    <3>3. CASE budget > MinBudget
      <4>1. unsafeRun + 1 <= UnsafeBound
        BY <2>2, <3>3, UnderwayBounded DEF Progress, IInv
      <4>2. unsafeRun \in Nat /\ UnsafeBound \in Nat
        BY BoundsTyped DEF IInv, Typed, RunsTyped
      <4> QED
        BY <4>1, <4>2
    <3> QED
      BY <3>1, <3>2, <3>3
  <2> QED
    BY <2>1, <2>2 DEF OverloadEnds
<1>4. Inv /\ [Next]_vars => Inv'
  BY <1>2, NextStep
<1> HIDE DEF Inv
<1> QED
  BY <1>1, <1>3, <1>4, PTL DEF Spec

=============================================================================
