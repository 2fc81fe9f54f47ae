----------------------------- MODULE AIMDProofs -----------------------------
(***************************************************************************)
(* Proofs about the AIMD controller, for every policy Validate accepts.    *)
(* Two of the results need more than Validate asks for: that a persisted   *)
(* State is accepted again needs bounds that round inward, and what makes  *)
(* the budget move needs an initial budget on decide's rounding grid.      *)
(***************************************************************************)
EXTENDS AIMD, TLAPS

-----------------------------------------------------------------------------
(* Arithmetic of the rounding step.                                        *)

\* Multiplication by a natural number is monotone.
LEMMA TimesMonotone ==
  ASSUME NEW a \in Int, NEW b \in Int, NEW w \in Nat, a <= b
  PROVE  a * w <= b * w
  BY SMT

\* Integer division brackets its dividend.
LEMMA DivisionBrackets ==
  ASSUME NEW x \in Nat, NEW w \in Nat \ {0}
  PROVE  /\ x \div w \in Nat
         /\ (x \div w) * w <= x
         /\ x < (x \div w) * w + w
  BY SMT

\* A quotient is at least every a with a*w below the dividend.
LEMMA QuotientAtLeast ==
  ASSUME NEW x \in Nat, NEW w \in Nat \ {0}, NEW a \in Int, a * w <= x
  PROVE  a <= x \div w
<1> DEFINE q == x \div w
<1>1. q \in Nat /\ q * w <= x /\ x < q * w + w
  BY DivisionBrackets
<1> HIDE DEF q
<1>2. SUFFICES ASSUME q + 1 <= a PROVE FALSE
  BY <1>1, SMT DEF q
<1>3. (q + 1) * w <= a * w
  BY <1>1, <1>2, TimesMonotone, SMT
<1>4. (q + 1) * w = q * w + w
  BY <1>1, SMT
<1> QED
  BY <1>1, <1>3, <1>4, SMT

\* A quotient is at most every a whose next multiple exceeds the dividend.
LEMMA QuotientAtMost ==
  ASSUME NEW x \in Nat, NEW w \in Nat \ {0}, NEW a \in Int, x < a * w + w
  PROVE  x \div w <= a
<1> DEFINE q == x \div w
<1>1. q \in Nat /\ q * w <= x /\ x < q * w + w
  BY DivisionBrackets
<1> HIDE DEF q
<1>2. SUFFICES ASSUME a + 1 <= q PROVE FALSE
  BY <1>1, SMT DEF q
<1>3. (a + 1) * w <= q * w
  BY <1>1, <1>2, TimesMonotone, SMT
<1>4. (a + 1) * w = a * w + w
  BY SMT
<1> QED
  BY <1>1, <1>3, <1>4, SMT

\* Rounding lands on the grid and respects every bound that lies on the grid.
LEMMA RoundedRespectsGrid ==
  ASSUME NEW n \in Nat
  PROVE  /\ Rounded(n) \in Nat
         /\ \E q \in Nat : Rounded(n) = q * Grain
         /\ \A k \in Nat : n <= Exactly(k * Grain) => Rounded(n) <= k * Grain
         /\ \A k \in Nat : n >= Exactly(k * Grain) => Rounded(n) >= k * Grain
<1> DEFINE w == 2 * DecDen * Grain
           x == 2 * n + DecDen * Grain
           q == x \div w
<1>1. /\ DecDen \in Nat \ {0} /\ Grain \in Nat \ {0}
      /\ DecDen * Grain \in Nat \ {0} /\ w = 2 * (DecDen * Grain)
      /\ w \in Nat \ {0} /\ x \in Nat
  BY PolicyAssumption, ModelAssumption, SMT
<1>2. q \in Nat
  BY <1>1, DivisionBrackets
<1>3. Rounded(n) = q * Grain
  BY DEF Rounded
<1>4. Rounded(n) \in Nat
  BY <1>1, <1>2, <1>3, SMT
<1>5. ASSUME NEW k \in Nat
      PROVE  /\ Exactly(k * Grain) = k * (DecDen * Grain) 
             /\ k * (DecDen * Grain) \in Nat
             /\ k * w = 2 * (k * (DecDen * Grain))
  BY <1>1, SMT DEF Exactly
<1> HIDE DEF w
<1>6. ASSUME NEW k \in Nat, n <= Exactly(k * Grain)
      PROVE  Rounded(n) <= k * Grain
  <2>1. x < k * w + w
    BY <1>1, <1>5, <1>6, SMT
  <2>2. q <= k
    BY <1>1, <2>1, QuotientAtMost
  <2> QED
    BY <1>1, <1>2, <1>3, <2>2, TimesMonotone
<1>7. ASSUME NEW k \in Nat, n >= Exactly(k * Grain)
      PROVE  Rounded(n) >= k * Grain
  <2>1. k * w <= x
    BY <1>1, <1>5, <1>7, SMT
  <2>2. k <= q
    BY <1>1, <2>1, QuotientAtLeast
  <2> HIDE DEF q
  <2>3. k * Grain <= q * Grain
    BY <1>1, <1>2, <2>2, TimesMonotone
  <2> QED
    BY <1>3, <1>4, <2>3, <1>1, SMT
<1> QED
  BY <1>2, <1>3, <1>4, <1>6, <1>7

\* Rounding is monotone.
LEMMA RoundedMonotone ==
  ASSUME NEW m \in Nat, NEW n \in Nat, m <= n
  PROVE  Rounded(m) <= Rounded(n)
<1> DEFINE w == 2 * DecDen * Grain
           x == 2 * m + DecDen * Grain
           y == 2 * n + DecDen * Grain
           q == x \div w
           p == y \div w
<1>1. /\ DecDen \in Nat \ {0} /\ Grain \in Nat \ {0}
      /\ DecDen * Grain \in Nat \ {0} /\ w = 2 * (DecDen * Grain)
  BY PolicyAssumption, ModelAssumption, SMT
<1>2. w \in Nat \ {0} /\ x \in Nat /\ y \in Nat /\ x <= y
  BY <1>1, SMT
<1>3. Rounded(m) = q * Grain /\ Rounded(n) = p * Grain
  BY DEF Rounded
<1> HIDE DEF w, x, y
<1>4. q \in Nat /\ q * w <= x /\ p \in Nat
  BY <1>2, DivisionBrackets
<1> HIDE DEF q, p
<1>5. q * w <= y
  <2> DEFINE z == q * w
  <2>1. z \in Int
    BY <1>2, <1>4
  <2> HIDE DEF z
  <2> QED
    BY <1>2, <1>4, <2>1, SMT DEF z
<1>6. q <= p
  BY <1>2, <1>4, <1>5, QuotientAtLeast DEF p
<1> QED
  BY <1>1, <1>3, <1>4, <1>6, TimesMonotone

\* A multiple of Grain is one of the values IsOnGrid enumerates.
LEMMA MultipleIsOnGrid ==
  ASSUME NEW r \in Nat, NEW q \in Nat, r = q * Grain
  PROVE  IsOnGrid(r)
<1>1. Grain \in Nat /\ 1 <= Grain
  BY ModelAssumption
<1>2. 1 * q <= Grain * q
  BY <1>1, TimesMonotone
<1>3. q <= r
  BY <1>1, <1>2, SMT
<1> QED
  BY <1>3, SMT DEF IsOnGrid

InitialOnGrid == IsOnGrid(InitialBudget)

\* The rounded bounds are ordered, and an initial budget on the grid is between them.
LEMMA EdgesOrdered ==
  /\ Lowest \in Nat /\ Highest \in Nat /\ Lowest <= Highest
  /\ Budgets \subseteq Nat
  /\ InitialOnGrid => InitialBudget \in Lowest..Highest
<1>1. /\ MinBudget \in Nat /\ MaxBudget \in Nat /\ InitialBudget \in Nat /\ DecDen \in Nat
      /\ MinBudget <= InitialBudget /\ InitialBudget <= MaxBudget /\ MinBudget <= MaxBudget
  BY PolicyAssumption
<1>2. /\ Exactly(MinBudget) \in Nat /\ Exactly(MaxBudget) \in Nat /\ Exactly(InitialBudget) \in Nat
      /\ Exactly(MinBudget) <= Exactly(InitialBudget)
      /\ Exactly(InitialBudget) <= Exactly(MaxBudget)
      /\ Exactly(MinBudget) <= Exactly(MaxBudget)
  BY <1>1, TimesMonotone, SMT DEF Exactly
<1>3. Lowest \in Nat /\ Highest \in Nat /\ Lowest <= Highest
  BY <1>2, RoundedMonotone, RoundedRespectsGrid DEF Lowest, Highest
<1>4. ASSUME InitialOnGrid
      PROVE  Lowest <= InitialBudget /\ InitialBudget <= Highest
  <2>1. PICK k \in Nat : InitialBudget = k * Grain
    BY <1>1, <1>4 DEF InitialOnGrid, IsOnGrid
  <2> QED
    BY <1>2, <2>1, RoundedRespectsGrid DEF Lowest, Highest
<1> QED
  BY <1>1, <1>3, <1>4 DEF Budgets

\* Bounds on the grid are their own rounding, so they round inward.
LEMMA GridBoundsRoundInward ==
  ASSUME IsOnGrid(MinBudget), IsOnGrid(MaxBudget)
  PROVE  BoundsRoundInward
<1>1. PICK lo \in Nat : MinBudget = lo * Grain
  BY PolicyAssumption DEF IsOnGrid
<1>2. PICK hi \in Nat : MaxBudget = hi * Grain
  BY PolicyAssumption DEF IsOnGrid
<1>3. Exactly(MinBudget) \in Nat /\ Exactly(MaxBudget) \in Nat
  BY PolicyAssumption, SMT DEF Exactly
<1>4. Exactly(MinBudget) >= Exactly(lo * Grain) /\ Exactly(MaxBudget) <= Exactly(hi * Grain)
  BY <1>1, <1>2, <1>3
<1>5. MinBudget <= Lowest
  BY <1>1, <1>3, <1>4, RoundedRespectsGrid DEF Lowest
<1> QED
  BY <1>2, <1>3, <1>4, <1>5, RoundedRespectsGrid DEF BoundsRoundInward, Highest

\* The budget decide settles on: on the grid, between the rounded bounds, and
\* on the same side of any grid budget between them as the desired value was.
LEMMA DesiredWithinBounds ==
  ASSUME NEW n \in Nat
  PROVE  /\ Rounded(Clamped(n)) \in Lowest..Highest
         /\ IsOnGrid(Rounded(Clamped(n)))
         /\ \A b \in Lowest..Highest : IsOnGrid(b) =>
              /\ n <= Exactly(b) => Rounded(Clamped(n)) <= b
              /\ n >= Exactly(b) => Rounded(Clamped(n)) >= b
<1> DEFINE c == Clamped(n)
           r == Rounded(c)
           lo == Exactly(MinBudget)
           hi == Exactly(MaxBudget)
<1>1. /\ MinBudget \in Nat /\ MaxBudget \in Nat /\ MinBudget <= MaxBudget
      /\ DecDen \in Nat \ {0} /\ Grain \in Nat \ {0}
  BY PolicyAssumption, ModelAssumption
<1>2. lo \in Nat /\ hi \in Nat /\ lo <= hi
  BY <1>1, TimesMonotone, SMT DEF Exactly
<1>3. c = Smaller(hi, Larger(lo, n))
  BY DEF Clamped
<1>4. Lowest = Rounded(lo) /\ Highest = Rounded(hi)
  BY DEF Lowest, Highest
<1> HIDE DEF lo, hi, c
<1>5. /\ c \in Nat /\ lo <= c /\ c <= hi
      /\ c = n \/ (c = lo /\ n <= lo) \/ (c = hi /\ n >= hi)
  BY <1>2, <1>3, SMT DEF Smaller, Larger
<1>6. r \in Nat /\ \E q \in Nat : r = q * Grain
  BY <1>5, RoundedRespectsGrid
<1>7. Lowest <= r /\ r <= Highest
  BY <1>2, <1>4, <1>5, RoundedMonotone
<1>8. IsOnGrid(r)
  BY <1>6, MultipleIsOnGrid
<1> HIDE DEF r
<1>9. ASSUME NEW b \in Lowest..Highest, IsOnGrid(b)
      PROVE  /\ n <= Exactly(b) => r <= b
             /\ n >= Exactly(b) => r >= b
  <2>1. b \in Nat /\ Lowest <= b /\ b <= Highest
    BY EdgesOrdered
  <2>2. PICK k \in Nat : b = k * Grain
    BY <2>1, <1>9 DEF IsOnGrid
  <2>3. /\ c <= Exactly(b) => r <= b
        /\ c >= Exactly(b) => r >= b
    BY <1>5, <2>2, RoundedRespectsGrid DEF r
  <2>4. CASE c = n
    BY <2>3, <2>4
  <2>5. CASE c = lo /\ n <= lo
    <3>1. r <= b
      BY <1>4, <2>1, <2>5 DEF r
    <3>2. ASSUME n >= Exactly(b) PROVE c >= Exactly(b)
      <4>1. Exactly(b) \in Nat
        BY <1>1, <2>1, SMT DEF Exactly
      <4> QED
        BY <1>2, <2>5, <3>2, <4>1, SMT
    <3> QED
      BY <2>3, <3>1, <3>2
  <2>6. CASE c = hi /\ n >= hi
    <3>1. r >= b
      BY <1>4, <2>1, <2>6 DEF r
    <3>2. ASSUME n <= Exactly(b) PROVE c <= Exactly(b)
      <4>1. Exactly(b) \in Nat
        BY <1>1, <2>1, SMT DEF Exactly
      <4> QED
        BY <1>2, <2>6, <3>2, <4>1, SMT
    <3> QED
      BY <2>3, <3>1, <3>2
  <2> QED
    BY <1>5, <2>4, <2>5, <2>6
<1>10. r \in Lowest..Highest
  BY <1>6, <1>7, EdgesOrdered
<1> QED
  BY <1>8, <1>9, <1>10 DEF r, c

\* decide takes the minimum to the lowest budget.
LEMMA MinimumSettlesLowest ==
  Rounded(Clamped(Exactly(MinBudget))) = Lowest
<1>1. /\ Exactly(MinBudget) \in Nat /\ Exactly(MaxBudget) \in Nat
      /\ Exactly(MinBudget) <= Exactly(MaxBudget)
  BY PolicyAssumption, TimesMonotone, SMT DEF Exactly
<1>2. Clamped(Exactly(MinBudget)) = Exactly(MinBudget)
  BY <1>1, SMT DEF Clamped, Smaller, Larger
<1> QED
  BY <1>2 DEF Lowest

-----------------------------------------------------------------------------
(* What a decision may do, whatever branch of Observe asked for it.        *)

Bounded(s) == s \in State /\ Settled(s)

\* A decision keeps a state well typed and its budget settled, ages nothing
\* beyond the history, and moves a budget on the grid only towards what is asked.
LEMMA DecideEffect ==
  ASSUME quiet \in 0..Cooldown,
         NEW s, Bounded(s), s.age <= quiet,
         NEW n \in Nat, NEW reason \in Reasons, NEW bypass \in BOOLEAN,
         Decide(s, n, reason, bypass)
  PROVE  /\ Bounded(state')
         /\ state'.healthy = s.healthy /\ state'.breaches = s.breaches
         /\ verdict' \in [reason : Reasons, changed : BOOLEAN]
         /\ quiet' \in 0..Cooldown
         /\ state'.age <= quiet'
         /\ InitialOnGrid => /\ n <= Exactly(s.budget) => state'.budget <= s.budget
                             /\ n >= Exactly(s.budget) => state'.budget >= s.budget
         /\ state'.budget # s.budget => bypass \/ quiet = Cooldown
         /\ n = Exactly(MinBudget) /\ bypass => state'.budget = Lowest
<1> DEFINE desired == Rounded(Clamped(n))
           differs == desired # s.budget
           changed == differs /\ (bypass \/ s.age >= Cooldown)
<1>1. /\ desired \in Lowest..Highest /\ IsOnGrid(desired)
      /\ desired \in Budgets /\ desired \in Nat
  BY DesiredWithinBounds, EdgesOrdered DEF Budgets
<1>2. Cooldown \in Nat
  BY PolicyAssumption
<1>3. n = Exactly(MinBudget) => desired = Lowest
  BY MinimumSettlesLowest
<1>4. /\ state' = IF changed THEN [s EXCEPT !.budget = desired, !.age = 0] ELSE s
      /\ verdict' = [reason |-> IF differs /\ ~changed THEN "cooldown_hold" ELSE reason,
                     changed |-> changed]
      /\ quiet' = IF changed THEN 0 ELSE quiet
  BY DEF Decide, CooldownElapsed
<1>5. s \in State /\ s.age \in 0..Cooldown /\ s.budget \in Budgets /\ s.budget \in Nat
  BY EdgesOrdered DEF Bounded, State
<1>6. ASSUME InitialOnGrid
      PROVE  /\ n <= Exactly(s.budget) => desired <= s.budget
             /\ n >= Exactly(s.budget) => desired >= s.budget
  <2>1. s.budget \in Lowest..Highest /\ IsOnGrid(s.budget)
    BY <1>5, <1>6, EdgesOrdered DEF Bounded, Settled, InitialOnGrid, Budgets
  <2> QED
    BY <2>1, DesiredWithinBounds
<1> HIDE DEF desired
<1>7. CASE changed
  <2>1. state' = [s EXCEPT !.budget = desired, !.age = 0]
    BY <1>4, <1>7
  <2>2. /\ state' \in State /\ state'.budget = desired /\ state'.age = 0
        /\ state'.healthy = s.healthy /\ state'.breaches = s.breaches
    <3>1. /\ s = [budget |-> s.budget, healthy |-> s.healthy, breaches |-> s.breaches, age |-> s.age]
          /\ s.healthy \in 0..HealthyWindows /\ s.breaches \in 0..BreachWindows
      BY <1>5 DEF State
    <3>2. state' = [budget |-> desired, healthy |-> s.healthy, breaches |-> s.breaches, age |-> 0]
      BY <2>1, <3>1
    <3>3. 0 \in 0..Cooldown
      BY <1>2
    <3>4. [budget |-> desired, healthy |-> s.healthy, breaches |-> s.breaches, age |-> 0] \in State
      BY <1>1, <3>1, <3>3 DEF State
    <3> QED
      BY <3>2, <3>4
  <2>3. quiet' = 0
    BY <1>4, <1>7
  <2>4. verdict' \in [reason : Reasons, changed : BOOLEAN]
    BY <1>4, <1>7
  <2>5. bypass \/ quiet = Cooldown
    BY <1>2, <1>5, <1>7, SMT
  <2>6. Bounded(state')
    BY <1>1, <2>2 DEF Bounded, Settled
  <2>7. quiet' \in 0..Cooldown /\ state'.age <= quiet'
    BY <1>2, <2>2, <2>3
  <2> QED
    BY <1>3, <1>6, <2>2, <2>4, <2>5, <2>6, <2>7
<1>8. CASE ~changed
  <2>1. state' = s /\ quiet' = quiet
    BY <1>4, <1>8
  <2>2. verdict' \in [reason : Reasons, changed : BOOLEAN]
    BY <1>4, <1>8 DEF Reasons
  <2>3. bypass => desired = s.budget
    BY <1>8
  <2>4. state'.budget <= s.budget /\ state'.budget >= s.budget /\ state'.budget = s.budget
    BY <1>5, <2>1
  <2> QED
    BY <1>3, <2>1, <2>2, <2>3, <2>4
<1> QED
  BY <1>7, <1>8

-----------------------------------------------------------------------------
(* The inductive invariant is preserved by every step.                     *)

\* Replacing the counters leaves the budget and the age alone.
LEMMA CountersReplaced ==
  ASSUME NEW s \in State, NEW h \in 0..HealthyWindows, NEW b \in 0..BreachWindows
  PROVE  /\ WithCounters(s, h, b) \in State
         /\ WithCounters(s, h, b).budget = s.budget
         /\ WithCounters(s, h, b).age = s.age
         /\ WithCounters(s, h, b).healthy = h
         /\ WithCounters(s, h, b).breaches = b
<1>1. /\ s = [budget |-> s.budget, healthy |-> s.healthy, breaches |-> s.breaches, age |-> s.age]
      /\ s.budget \in Budgets /\ s.age \in 0..Cooldown
  BY DEF State
<1>2. WithCounters(s, h, b) = [budget |-> s.budget, healthy |-> h, breaches |-> b, age |-> s.age]
  <2>1. PICK t : t = WithCounters(s, h, b)
    OBVIOUS
  <2>2. t = [s EXCEPT !.healthy = h, !.breaches = b]
    BY <2>1 DEF WithCounters
  <2>3. t = [budget |-> s.budget, healthy |-> h, breaches |-> b, age |-> s.age]
    BY <1>1, <2>2
  <2> QED
    BY <2>1, <2>3
<1>3. [budget |-> s.budget, healthy |-> h, breaches |-> b, age |-> s.age] \in State
  BY <1>1 DEF State
<1> QED
  BY <1>2, <1>3

\* The counters of a state are ones RestoreController accepts and do not run
\* ahead of the streak that follows the sample.
CountersSound(s) ==
  /\ ~(s.healthy > 0 /\ s.breaches > 0)
  /\ s.healthy < HealthyWindows /\ s.breaches < BreachWindows
  /\ s.healthy <= streak'.calm /\ s.breaches <= streak'.breaching

\* A sample moves the independent streaks by one, or resets them.
LEMMA StreakStep ==
  ASSUME IInv, NEW f \in Feedbacks, Receive(f)
  PROVE  /\ streak' \in Streak
         /\ Calm(f) => streak'.calm = Smaller(HealthyWindows, streak.calm + 1)
         /\ Breaching(f) => streak'.breaching = Smaller(BreachWindows, streak.breaching + 1)
<1>1. streak \in Streak /\ HealthyWindows \in Nat \ {0} /\ BreachWindows \in Nat \ {0}
  BY PolicyAssumption DEF IInv, TypeOK
<1>2. streak.calm \in 0..HealthyWindows /\ streak.breaching \in 0..BreachWindows
  BY <1>1 DEF Streak
<1>3. /\ Smaller(HealthyWindows, streak.calm + 1) \in 0..HealthyWindows
      /\ Smaller(BreachWindows, streak.breaching + 1) \in 0..BreachWindows
      /\ 0 \in 0..HealthyWindows /\ 0 \in 0..BreachWindows
  BY <1>1, <1>2, SMT DEF Smaller
<1>4. streak' = StreakAfter(f)
  BY DEF Receive
<1> QED
  BY <1>3, <1>4 DEF StreakAfter, Streak

\* A branch of Observe that hands decide a state with sound counters and the
\* current budget and age re-establishes the invariant.
LEMMA BranchPreserves ==
  ASSUME IInv, NEW f \in Feedbacks, Receive(f),
         NEW s \in State, s.budget = state.budget, s.age = state.age, CountersSound(s),
         NEW n \in Nat, NEW reason \in Reasons, NEW bypass \in BOOLEAN,
         Decide(s, n, reason, bypass)
  PROVE  /\ IInv'
         /\ InitialOnGrid => /\ n <= Exactly(state.budget) => state'.budget <= state.budget
                             /\ n >= Exactly(state.budget) => state'.budget >= state.budget
         /\ state'.budget # state.budget => bypass \/ quiet = Cooldown
         /\ n = Exactly(MinBudget) /\ bypass => state'.budget = Lowest
<1>1. /\ quiet \in 0..Cooldown /\ savedQuiet \in 0..Cooldown /\ saved \in State
      /\ running \in BOOLEAN /\ savedStreak \in Streak
      /\ state \in State /\ CountersRestorable(saved)
      /\ Settled(state) /\ Settled(saved) /\ state.age <= quiet
      /\ saved.healthy <= savedStreak.calm /\ saved.breaches <= savedStreak.breaching
      /\ saved.age <= savedQuiet
  BY DEF IInv, TypeOK, CountersAlwaysRestorable, BudgetsSettled, CountersBackedBySamples,
         CooldownNotOverstated
<1>2. Bounded(s)
  BY <1>1 DEF Bounded, Settled
<1>3. /\ Bounded(state')
      /\ state'.healthy = s.healthy /\ state'.breaches = s.breaches
      /\ verdict' \in [reason : Reasons, changed : BOOLEAN]
      /\ quiet' \in 0..Cooldown
      /\ state'.age <= quiet'
      /\ InitialOnGrid => /\ n <= Exactly(state.budget) => state'.budget <= state.budget
                          /\ n >= Exactly(state.budget) => state'.budget >= state.budget
      /\ state'.budget # state.budget => bypass \/ quiet = Cooldown
      /\ n = Exactly(MinBudget) /\ bypass => state'.budget = Lowest
  BY <1>1, <1>2, DecideEffect
<1>4. /\ running' = running /\ saved' = saved /\ savedStreak' = savedStreak /\ sample' = f
      /\ savedQuiet' = savedQuiet
  BY DEF Receive
<1>5. f \in Feedback
  BY ModelAssumption
<1>6. TypeOK'
  BY <1>1, <1>3, <1>4, <1>5, StreakStep DEF TypeOK, Bounded
<1>7. CountersAlwaysRestorable'
  BY <1>1, <1>3, <1>4 DEF CountersAlwaysRestorable, CountersRestorable, CountersSound
<1>8. BudgetsSettled'
  BY <1>1, <1>3, <1>4 DEF BudgetsSettled, Bounded, Settled, IsOnGrid
<1>9. CountersBackedBySamples'
  BY <1>1, <1>3, <1>4 DEF CountersBackedBySamples, CountersSound
<1>10. CooldownNotOverstated'
  BY <1>1, <1>3, <1>4 DEF CooldownNotOverstated
<1> QED
  BY <1>3, <1>6, <1>7, <1>8, <1>9, <1>10 DEF IInv

\* Hold keeps a budget on the grid: the rounding of it is that budget.
LEMMA HoldKeepsBudget ==
  ASSUME IInv, NEW f \in Feedbacks, Receive(f),
         NEW s \in State, s.budget = state.budget, s.age = state.age, CountersSound(s),
         NEW reason \in Reasons, Hold(s, reason)
  PROVE  IInv' /\ (InitialOnGrid => state'.budget = state.budget)
<1>1. state.budget \in Nat
  BY EdgesOrdered DEF IInv, TypeOK, State
<1>2. Exactly(s.budget) \in Nat /\ DecDen \in Nat
  BY <1>1, PolicyAssumption, SMT DEF Exactly
<1>3. Decide(s, Exactly(s.budget), reason, FALSE)
  BY DEF Hold
<1>4. /\ IInv'
      /\ InitialOnGrid =>
           /\ Exactly(s.budget) <= Exactly(state.budget) => state'.budget <= state.budget
           /\ Exactly(s.budget) >= Exactly(state.budget) => state'.budget >= state.budget
  <2>1. FALSE \in BOOLEAN
    OBVIOUS
  <2> QED
    BY <1>2, <1>3, <2>1, BranchPreserves
<1>5. Exactly(s.budget) = Exactly(state.budget)
  OBVIOUS
<1>6. Exactly(s.budget) <= Exactly(state.budget) /\ Exactly(s.budget) >= Exactly(state.budget)
  BY <1>2, <1>5
<1>7. state'.budget \in Nat
  BY <1>4, EdgesOrdered DEF IInv, TypeOK, State
<1> QED
  BY <1>1, <1>4, <1>6, <1>7

\* The reasons a budget may move, for one observed sample.
Earned(f) ==
  /\ state'.budget > state.budget =>
       Calm(f) /\ streak'.calm = HealthyWindows /\ quiet = Cooldown
  /\ state'.budget < state.budget =>
       \/ Emergency(f) /\ state'.budget = Lowest
       \/ Unmanaged(f)
       \/ Breaching(f) /\ streak'.breaching = BreachWindows /\ quiet = Cooldown

\* Every branch of Observe keeps the invariant and moves the budget only for
\* an accepted reason.
LEMMA ObserveStep ==
  ASSUME IInv, NEW f \in Feedbacks, Observe(f)
  PROVE  IInv' /\ (InitialOnGrid => Earned(f))
<1>1. /\ state \in State /\ streak \in Streak
      /\ CountersRestorable(state)
      /\ state.healthy <= streak.calm /\ state.breaches <= streak.breaching
  BY DEF IInv, TypeOK, CountersAlwaysRestorable, CountersBackedBySamples
<1>2. /\ state.budget \in Nat /\ state.healthy \in 0..HealthyWindows
      /\ state.breaches \in 0..BreachWindows /\ state.age \in 0..Cooldown
      /\ streak.calm \in 0..HealthyWindows /\ streak.breaching \in 0..BreachWindows
  BY <1>1, EdgesOrdered DEF State, Streak
<1>3. /\ DecDen \in Nat \ {0} /\ DecNum \in Nat \ {0} /\ DecNum < DecDen
      /\ Increase \in Nat \ {0} /\ MinBudget \in Nat /\ Cooldown \in Nat
      /\ HealthyWindows \in Nat \ {0} /\ BreachWindows \in Nat \ {0}
  BY PolicyAssumption
<1>4. /\ state.healthy < HealthyWindows /\ state.breaches < BreachWindows
      /\ IInv' => state'.budget \in Nat
      /\ InitialOnGrid => state.budget >= Lowest
  <2>1. ASSUME InitialOnGrid PROVE state.budget >= Lowest
    BY <1>1, <2>1, EdgesOrdered DEF State, Budgets
  <2> QED
    BY <1>1, <2>1, EdgesOrdered DEF CountersRestorable, IInv, TypeOK, State
<1>5. Exactly(state.budget) \in Nat /\ Exactly(MinBudget) \in Nat
  BY <1>2, <1>3, SMT DEF Exactly
\* The counters that each branch hands to decide.
<1>6. ASSUME Receive(f)
      PROVE  streak' \in Streak /\ streak'.calm \in Nat /\ streak'.breaching \in Nat
  <2>1. streak' \in Streak
    BY <1>6, StreakStep
  <2> QED
    BY <2>1, <1>3 DEF Streak
<1>7. /\ ResetCounters(state) \in State
      /\ ResetCounters(state).budget = state.budget
      /\ ResetCounters(state).age = state.age
      /\ Receive(f) => CountersSound(ResetCounters(state))
  <2>1. /\ ResetCounters(state) \in State
        /\ ResetCounters(state).budget = state.budget
        /\ ResetCounters(state).age = state.age
        /\ ResetCounters(state).healthy = 0
        /\ ResetCounters(state).breaches = 0
    <3>1. 0 \in 0..HealthyWindows /\ 0 \in 0..BreachWindows
      BY <1>3
    <3> QED
      BY <1>1, <3>1, CountersReplaced DEF ResetCounters
  <2> QED
    BY <1>3, <1>6, <2>1 DEF CountersSound
<1>8. CASE HoldUnusable(f)
  <2>1. /\ Receive(f)
        /\ Hold(ResetCounters(state), "stale_or_invalid_hold")
    BY <1>8 DEF HoldUnusable
  <2>2. IInv' /\ (InitialOnGrid => state'.budget = state.budget)
    BY <1>7, <2>1, HoldKeepsBudget DEF Reasons
  <2> QED
    BY <1>2, <1>4, <2>2 DEF Earned
<1>9. CASE DropToMinimum(f)
  <2>1. /\ Receive(f) /\ Emergency(f)
        /\ Decide(ResetCounters(state), Exactly(MinBudget), "emergency", TRUE)
    BY <1>9 DEF DropToMinimum
  <2>2. IInv' /\ state'.budget = Lowest
    BY <1>5, <1>7, <2>1, BranchPreserves DEF Reasons
  <2> QED
    BY <1>2, <1>4, <2>1, <2>2, EdgesOrdered DEF Earned
<1>10. state.budget * DecNum \in Nat /\ state.budget * DecNum <= Exactly(state.budget)
  <2>1. DecNum * state.budget <= DecDen * state.budget
    BY <1>2, <1>3, TimesMonotone
  <2> QED
    BY <1>2, <1>3, <2>1, SMT DEF Exactly
<1>11. CASE ManagementDecrease(f)
  <2>1. /\ Receive(f) /\ Unmanaged(f)
        /\ Decide(ResetCounters(state), state.budget * DecNum, "management_plane_decrease", TRUE)
    BY <1>11 DEF ManagementDecrease
  <2>2. IInv' /\ (InitialOnGrid => state'.budget <= state.budget)
    BY <1>7, <1>10, <2>1, BranchPreserves DEF Reasons
  <2> QED
    BY <1>2, <1>4, <2>1, <2>2 DEF Earned
<1>12. CASE HoldBetween(f)
  <2>1. /\ Receive(f)
        /\ Hold(ResetCounters(state), "hysteresis_hold")
    BY <1>12 DEF HoldBetween
  <2>2. IInv' /\ (InitialOnGrid => state'.budget = state.budget)
    BY <1>7, <2>1, HoldKeepsBudget DEF Reasons
  <2> QED
    BY <1>2, <1>4, <2>2 DEF Earned
<1>13. CASE ObserveBreach(f)
  <2> DEFINE counted == WithCounters(state, 0, state.breaches + 1)
  <2>1. Receive(f) /\ Breaching(f)
    BY <1>13 DEF ObserveBreach
  <2>2. /\ counted \in State /\ counted.budget = state.budget /\ counted.age = state.age
        /\ counted.healthy = 0 /\ counted.breaches = state.breaches + 1
    <3>1. 0 \in 0..HealthyWindows /\ state.breaches + 1 \in 0..BreachWindows
      BY <1>2, <1>3, <1>4
    <3> QED
      BY <1>1, <3>1, CountersReplaced
  <2>3. streak'.breaching = Smaller(BreachWindows, streak.breaching + 1)
    BY <2>1, StreakStep
  <2>4. counted.breaches <= streak'.breaching
    BY <1>1, <1>2, <1>3, <1>4, <2>2, <2>3, SMT DEF Smaller
  <2>5. CASE counted.breaches >= BreachWindows
    <3> DEFINE reset == ResetCounters(counted)
    <3>1. Decide(reset, state.budget * DecNum, "multiplicative_decrease", FALSE)
      BY <1>13, <2>5 DEF ObserveBreach
    <3>2. /\ reset \in State /\ reset.budget = state.budget /\ reset.age = state.age
          /\ reset.healthy = 0 /\ reset.breaches = 0
      <4>1. 0 \in 0..HealthyWindows /\ 0 \in 0..BreachWindows
        BY <1>3
      <4> QED
        BY <2>2, <4>1, CountersReplaced DEF ResetCounters
    <3>3. CountersSound(reset)
      BY <1>3, <1>6, <2>1, <3>2 DEF CountersSound
    <3>4. /\ IInv' /\ (InitialOnGrid => state'.budget <= state.budget)
          /\ state'.budget # state.budget => quiet = Cooldown
      BY <1>10, <2>1, <3>1, <3>2, <3>3, BranchPreserves DEF Reasons
    <3>5. streak'.breaching = BreachWindows
      BY <1>2, <1>3, <2>3, <2>4, <2>5, <2>2, SMT DEF Smaller
    <3> QED
      BY <1>2, <1>4, <2>1, <3>4, <3>5 DEF Earned
  <2>6. CASE ~(counted.breaches >= BreachWindows)
    <3>1. Hold(counted, "breach_pending")
      BY <1>13, <2>6 DEF ObserveBreach
    <3>2. CountersSound(counted)
      BY <1>2, <1>3, <1>6, <2>1, <2>2, <2>4, <2>6, SMT DEF CountersSound
    <3>3. IInv' /\ (InitialOnGrid => state'.budget = state.budget)
      BY <2>1, <2>2, <3>1, <3>2, HoldKeepsBudget DEF Reasons
    <3> QED
      BY <1>2, <1>4, <3>3 DEF Earned
  <2> QED
    BY <2>5, <2>6
<1>14. CASE ObserveCalm(f)
  <2> DEFINE counted == WithCounters(state, state.healthy + 1, 0)
  <2>1. Receive(f) /\ Calm(f)
    BY <1>14 DEF ObserveCalm
  <2>2. /\ counted \in State /\ counted.budget = state.budget /\ counted.age = state.age
        /\ counted.breaches = 0 /\ counted.healthy = state.healthy + 1
    <3>1. state.healthy + 1 \in 0..HealthyWindows /\ 0 \in 0..BreachWindows
      BY <1>2, <1>3, <1>4
    <3> QED
      BY <1>1, <3>1, CountersReplaced
  <2>3. streak'.calm = Smaller(HealthyWindows, streak.calm + 1)
    BY <2>1, StreakStep
  <2>4. counted.healthy <= streak'.calm
    BY <1>1, <1>2, <1>3, <1>4, <2>2, <2>3, SMT DEF Smaller
  <2>5. CASE counted.healthy >= HealthyWindows
    <3> DEFINE reset == ResetCounters(counted)
    <3>1. Decide(reset, Exactly(state.budget + Increase), "additive_increase", FALSE)
      BY <1>14, <2>5 DEF ObserveCalm
    <3>2. /\ reset \in State /\ reset.budget = state.budget /\ reset.age = state.age
          /\ reset.healthy = 0 /\ reset.breaches = 0
      <4>1. 0 \in 0..HealthyWindows /\ 0 \in 0..BreachWindows
        BY <1>3
      <4> QED
        BY <2>2, <4>1, CountersReplaced DEF ResetCounters
    <3>3. CountersSound(reset)
      BY <1>3, <1>6, <2>1, <3>2 DEF CountersSound
    <3>4. Exactly(state.budget + Increase) \in Nat
      BY <1>2, <1>3, SMT DEF Exactly
    <3>5. Exactly(state.budget + Increase) >= Exactly(state.budget)
      BY <1>2, <1>3, TimesMonotone, SMT DEF Exactly
    <3>6. /\ IInv' /\ (InitialOnGrid => state'.budget >= state.budget)
          /\ state'.budget # state.budget => quiet = Cooldown
      BY <2>1, <3>1, <3>2, <3>3, <3>4, <3>5, BranchPreserves DEF Reasons
    <3>7. streak'.calm = HealthyWindows
      BY <1>2, <1>3, <2>3, <2>4, <2>5, <2>2, SMT DEF Smaller
    <3> QED
      BY <1>2, <1>4, <2>1, <3>6, <3>7 DEF Earned
  <2>6. CASE ~(counted.healthy >= HealthyWindows)
    <3>1. Hold(counted, "healthy_pending")
      BY <1>14, <2>6 DEF ObserveCalm
    <3>2. CountersSound(counted)
      BY <1>2, <1>3, <1>6, <2>1, <2>2, <2>4, <2>6, SMT DEF CountersSound
    <3>3. IInv' /\ (InitialOnGrid => state'.budget = state.budget)
      BY <2>1, <2>2, <3>1, <3>2, HoldKeepsBudget DEF Reasons
    <3> QED
      BY <1>2, <1>4, <3>3 DEF Earned
  <2> QED
    BY <2>5, <2>6
<1> QED
  BY <1>8, <1>9, <1>11, <1>12, <1>13, <1>14 DEF Observe

\* Ageing a state touches only its age.
LEMMA OlderState ==
  ASSUME NEW s \in State
  PROVE  /\ Older(s) \in State
         /\ Older(s).budget = s.budget
         /\ Older(s).healthy = s.healthy /\ Older(s).breaches = s.breaches
         /\ Older(s).age = Smaller(Cooldown, s.age + 1)
<1>1. /\ s = [budget |-> s.budget, healthy |-> s.healthy, breaches |-> s.breaches, age |-> s.age]
      /\ s.budget \in Budgets /\ s.healthy \in 0..HealthyWindows
      /\ s.breaches \in 0..BreachWindows /\ s.age \in 0..Cooldown
  BY DEF State
<1>2. PICK older : older = Smaller(Cooldown, s.age + 1)
  OBVIOUS
<1>3. older \in 0..Cooldown
  BY <1>1, <1>2, PolicyAssumption, SMT DEF Smaller
<1>4. Older(s) = [budget |-> s.budget, healthy |-> s.healthy, breaches |-> s.breaches, age |-> older]
  <2>1. PICK t : t = Older(s)
    OBVIOUS
  <2>2. t = [s EXCEPT !.age = older]
    BY <1>2, <2>1 DEF Older
  <2>3. t = [budget |-> s.budget, healthy |-> s.healthy, breaches |-> s.breaches, age |-> older]
    BY <1>1, <2>2
  <2> QED
    BY <2>1, <2>3
<1>5. [budget |-> s.budget, healthy |-> s.healthy, breaches |-> s.breaches, age |-> older] \in State
  BY <1>1, <1>3 DEF State
<1> QED
  BY <1>2, <1>4, <1>5

\* The passage of time keeps the invariant: every age grows by as much as quiet.
LEMMA TickPreserves ==
  ASSUME IInv, Tick
  PROVE  IInv'
<1>1. /\ state \in State /\ saved \in State /\ quiet \in 0..Cooldown /\ savedQuiet \in 0..Cooldown
      /\ Cooldown \in Nat
  BY PolicyAssumption DEF IInv, TypeOK
<1>2. /\ state' = Older(state) /\ saved' = Older(saved)
      /\ quiet' = Smaller(Cooldown, quiet + 1) /\ savedQuiet' = Smaller(Cooldown, savedQuiet + 1)
      /\ running' = running /\ sample' = sample /\ verdict' = verdict /\ streak' = streak
      /\ savedStreak' = savedStreak
  BY DEF Tick
<1>3. /\ state' \in State /\ saved' \in State
      /\ state'.budget = state.budget /\ saved'.budget = saved.budget
      /\ state'.healthy = state.healthy /\ saved'.healthy = saved.healthy
      /\ state'.breaches = state.breaches /\ saved'.breaches = saved.breaches
      /\ state'.age = Smaller(Cooldown, state.age + 1)
      /\ saved'.age = Smaller(Cooldown, saved.age + 1)
  BY <1>1, <1>2, OlderState
<1>4. quiet' \in 0..Cooldown /\ savedQuiet' \in 0..Cooldown
  BY <1>1, <1>2, SMT DEF Smaller
<1>5. TypeOK'
  BY <1>2, <1>3, <1>4 DEF IInv, TypeOK
<1>6. CountersAlwaysRestorable'
  BY <1>3 DEF IInv, CountersAlwaysRestorable, CountersRestorable
<1>7. BudgetsSettled'
  BY <1>3 DEF IInv, BudgetsSettled, Settled, IsOnGrid
<1>8. CountersBackedBySamples'
  BY <1>2, <1>3 DEF IInv, CountersBackedBySamples
<1>9. CooldownNotOverstated'
  <2>1. state.age \in Nat /\ saved.age \in Nat
    BY <1>1 DEF State
  <2> QED
    BY <1>1, <1>2, <1>3, <2>1, SMT DEF IInv, CooldownNotOverstated, Smaller
<1> QED
  BY <1>5, <1>6, <1>7, <1>8, <1>9 DEF IInv

LEMMA SavePreserves ==
  ASSUME IInv, Save
  PROVE  IInv'
BY DEF IInv, Save, TypeOK, CountersAlwaysRestorable, BudgetsSettled, CountersBackedBySamples,
       CooldownNotOverstated, CountersRestorable, Settled, IsOnGrid

LEMMA CrashPreserves ==
  ASSUME IInv, Crash
  PROVE  IInv'
BY DEF IInv, Crash, history, TypeOK, CountersAlwaysRestorable, BudgetsSettled, CountersBackedBySamples,
       CooldownNotOverstated, CountersRestorable, Settled, IsOnGrid

\* A restart continues from the persisted copy and from the history behind it.
LEMMA RestartPreserves ==
  ASSUME IInv, Restart
  PROVE  IInv'
BY DEF IInv, Restart, Restore, TypeOK, CountersAlwaysRestorable, BudgetsSettled,
       CountersBackedBySamples, CooldownNotOverstated, CountersRestorable, Settled, IsOnGrid

LEMMA StutterPreserves ==
  ASSUME IInv, UNCHANGED vars
  PROVE  IInv'
BY DEF IInv, vars, TypeOK, CountersAlwaysRestorable, BudgetsSettled, CountersBackedBySamples,
       CooldownNotOverstated, CountersRestorable, Settled, IsOnGrid

LEMMA InitEstablishes ==
  ASSUME Init
  PROVE  IInv
<1>1. /\ 0 \in 0..HealthyWindows /\ 0 \in 0..BreachWindows /\ Cooldown \in 0..Cooldown
      /\ InitialBudget \in Budgets /\ 0 < HealthyWindows /\ 0 < BreachWindows
  BY PolicyAssumption DEF Budgets
<1>2. /\ FreshState \in State /\ NoStreak \in Streak
      /\ FreshState.budget = InitialBudget /\ FreshState.age = Cooldown
      /\ FreshState.healthy = 0 /\ FreshState.breaches = 0
      /\ NoStreak.calm = 0 /\ NoStreak.breaching = 0
  BY <1>1 DEF FreshState, State, NoStreak, Streak
<1>3. /\ state = FreshState /\ saved = FreshState /\ streak = NoStreak /\ savedStreak = NoStreak
      /\ quiet = Cooldown /\ running = TRUE /\ savedQuiet = Cooldown /\ sample \in Feedback
      /\ verdict = [reason |-> "none", changed |-> FALSE]
  BY ModelAssumption DEF Init
<1>4. TypeOK
  BY <1>1, <1>2, <1>3 DEF TypeOK, Reasons
<1>5. CountersAlwaysRestorable
  BY <1>1, <1>2, <1>3 DEF CountersAlwaysRestorable, CountersRestorable
<1>6. BudgetsSettled
  BY <1>2, <1>3 DEF BudgetsSettled, Settled
<1>7. CountersBackedBySamples /\ CooldownNotOverstated
  BY <1>1, <1>2, <1>3, PolicyAssumption DEF CountersBackedBySamples, CooldownNotOverstated
<1> QED
  BY <1>4, <1>5, <1>6, <1>7 DEF IInv

\* One step of the controller, its owner or the clock.
LEMMA NextStep ==
  ASSUME IInv, [Next]_vars
  PROVE  /\ IInv'
         /\ InitialOnGrid /\ running /\ running' => \/ state'.budget = state.budget
                                   \/ \E f \in Feedbacks : sample' = f /\ Earned(f)
<1>1. CASE ObserveAny
  <2>1. PICK f \in Feedbacks : Observe(f)
    BY <1>1 DEF ObserveAny
  <2>2. sample' = f
    BY <2>1 DEF Observe, Receive, HoldUnusable, DropToMinimum, ManagementDecrease,
                ObserveBreach, ObserveCalm, HoldBetween
  <2> QED
    BY <2>1, <2>2, ObserveStep
<1>2. CASE Tick
  <2>1. state'.budget = state.budget
    BY <1>2, OlderState DEF IInv, TypeOK, Tick
  <2> QED
    BY <1>2, <2>1, TickPreserves
<1>3. CASE Save
  BY <1>3, SavePreserves DEF Save
<1>4. CASE Crash
  BY <1>4, CrashPreserves DEF Crash
<1>5. CASE Restart
  BY <1>5, RestartPreserves DEF Restart
<1>6. CASE UNCHANGED vars
  BY <1>6, StutterPreserves DEF vars
<1> QED
  BY <1>1, <1>2, <1>3, <1>4, <1>5, <1>6 DEF Next

-----------------------------------------------------------------------------

\* For every policy Validate accepts, the strengthened invariant holds after any
\* sequence of samples, ticks, saves and crashes.
THEOREM InductiveInvariant ==
  Spec => []IInv
<1>1. Init => IInv
  BY InitEstablishes
<1>2. IInv /\ [Next]_vars => IInv'
  BY NextStep
<1> QED
  BY <1>1, <1>2, PTL DEF Spec

\* The controller's State is well typed: the budget is the initial one or lies
\* between the rounded bounds, and no sample drives a counter past its window.
THEOREM TypeCorrect ==
  Spec => []TypeOK
<1>1. IInv => TypeOK
  BY DEF IInv
<1> QED
  BY <1>1, InductiveInvariant, PTL

\* Any State Observe leaves, and so any copy its owner persisted, is accepted by
\* RestoreController, when the policy's bounds round inward.  (When one of them
\* rounds outward, Lowest or Highest is a budget decide does settle on and
\* RestoreController refuses.)
THEOREM AlwaysRestorable ==
  ASSUME BoundsRoundInward
  PROVE  Spec => []DurableStateRestorable
<1>1. /\ MinBudget \in Nat /\ MaxBudget \in Nat /\ InitialBudget \in Nat
      /\ MinBudget <= InitialBudget /\ InitialBudget <= MaxBudget
      /\ Lowest \in Nat /\ Highest \in Nat
      /\ MinBudget <= Lowest /\ Highest <= MaxBudget
  BY PolicyAssumption, EdgesOrdered DEF BoundsRoundInward
<1>2. ASSUME NEW b \in Budgets
      PROVE  b >= MinBudget /\ b <= MaxBudget
  BY <1>1 DEF Budgets
<1>3. IInv => DurableStateRestorable
  BY <1>2 DEF IInv, TypeOK, State, CountersAlwaysRestorable, DurableStateRestorable, Restorable
<1> QED
  BY <1>3, InductiveInvariant, PTL

\* From an initial budget on the grid: the budget rises only after a full streak
\* of calm samples, with the cooldown elapsed since the last change that led to it,
\* made after the restart or before the copy it restarted from was persisted.
THEOREM IncreaseAlwaysEarned ==
  ASSUME InitialOnGrid
  PROVE  Spec => IncreaseIsEarned
<1>1. IInv /\ [Next]_vars =>
        [running /\ running' /\ state'.budget > state.budget =>
           /\ Calm(sample') /\ streak'.calm = HealthyWindows /\ quiet = Cooldown]_vars
  <2> SUFFICES ASSUME IInv, [Next]_vars, running, running', state'.budget > state.budget
               PROVE  Calm(sample') /\ streak'.calm = HealthyWindows /\ quiet = Cooldown
    OBVIOUS
  <2>1. state.budget \in Nat
    BY EdgesOrdered DEF IInv, TypeOK, State
  <2>2. state'.budget # state.budget
    BY <2>1
  <2> QED
    BY <2>2, NextStep DEF Earned
<1> QED
  BY <1>1, InductiveInvariant, PTL DEF Spec, IncreaseIsEarned

\* The budget falls only on an emergency, on lost management health, or after a
\* full streak of breaches outside the cooldown.
THEOREM DecreaseAlwaysEarned ==
  ASSUME InitialOnGrid
  PROVE  Spec => DecreaseIsEarned
<1>1. IInv /\ [Next]_vars =>
        [running /\ running' /\ state'.budget < state.budget =>
           \/ Emergency(sample') /\ state'.budget = Lowest
           \/ Unmanaged(sample')
           \/ Breaching(sample') /\ streak'.breaching = BreachWindows /\ quiet = Cooldown]_vars
  <2> SUFFICES ASSUME IInv, [Next]_vars, running, running', state'.budget < state.budget
               PROVE  \/ Emergency(sample') /\ state'.budget = Lowest
                      \/ Unmanaged(sample')
                      \/ Breaching(sample') /\ streak'.breaching = BreachWindows /\ quiet = Cooldown
    OBVIOUS
  <2>1. state.budget \in Nat
    BY EdgesOrdered DEF IInv, TypeOK, State
  <2>2. state'.budget # state.budget
    BY <2>1
  <2> QED
    BY <2>2, NextStep DEF Earned
<1> QED
  BY <1>1, InductiveInvariant, PTL DEF Spec, DecreaseIsEarned

\* From an initial budget on the grid the promise of aimd.go:121 does hold: input that is stale,
\* invalid or without management health never raises the budget.
THEOREM UntrustedNeverIncreases ==
  ASSUME InitialOnGrid
  PROVE  Spec => UntrustedInputNeverIncreases
<1>1. IInv /\ [Next]_vars =>
        [running /\ running' /\ (Unusable(sample') \/ Unmanaged(sample'))
           => state'.budget <= state.budget]_vars
  <2> SUFFICES ASSUME IInv, [Next]_vars, running, running',
                      Unusable(sample') \/ Unmanaged(sample')
               PROVE  state'.budget <= state.budget
    OBVIOUS
  <2>1. IInv'
    BY NextStep
  <2>2. state.budget \in Nat /\ state'.budget \in Nat
    BY <2>1, EdgesOrdered DEF IInv, TypeOK, State
  <2>3. CASE state'.budget = state.budget
    BY <2>2, <2>3
  <2>4. CASE Earned(sample')
    <3>1. ~Calm(sample')
      BY DEF Calm, Ordinary, Unmanaged
    <3> QED
      BY <2>2, <2>4, <3>1 DEF Earned
  <2> QED
    BY <2>3, <2>4, NextStep
<1> QED
  BY <1>1, InductiveInvariant, PTL DEF Spec, UntrustedInputNeverIncreases

=============================================================================
