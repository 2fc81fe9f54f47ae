--------------------------- MODULE AllocatorProofs --------------------------
(***************************************************************************)
(* Proofs about Allocate, for any finite set of disks, every envelope and  *)
(* budget its validation accepts and every rounding step.                  *)
(***************************************************************************)
EXTENDS Allocator, FiniteSums

-----------------------------------------------------------------------------
(* The inductive invariant.                                                *)

Before == step \in {"check", "loop"}

\* Until the final rounding nothing is lost: what the disks have been given
\* and what is left add up to the budget.
Conserved ==
  step # "feasible" => SumFunction(allocations) + remaining = budget * den

\* A disk only leaves the rounds when it is full.
LeftOutIsFull ==
  step # "feasible" => \A d \in Disks \ eligible : Room(d) = 0

\* The loop never hands out more than it has.
NotOverdrawn == step = "loop" => remaining >= 0

\* SharesByWeight, from the start of the call on.
FairSoFar ==
  Before =>
    \A d \in eligible : \A e \in Disks :
      /\ Room(d) > 0 => Above(e) * disk[d].weight <= Above(d) * disk[e].weight
      /\ Room(d) > 0 /\ Room(e) > 0 => Above(e) * disk[d].weight = Above(d) * disk[e].weight

\* Every round that leaves something to share has filled a disk.
RoundsPaidFor ==
  Before /\ remaining > 0 => rounds + Cardinality(OpenDisks) <= Cardinality(Disks)

IInv ==
  /\ TypeOK
  /\ EnvelopesRespected
  /\ Conserved
  /\ LeftOutIsFull
  /\ NotOverdrawn
  /\ FairSoFar
  /\ RoundsPaidFor
  /\ RoundsBounded
  /\ BudgetUsedExactly

-----------------------------------------------------------------------------
(* Integer arithmetic.                                                     *)

\* Products of natural numbers are natural numbers, and positive if both are.
LEMMA Products ==
  ASSUME NEW a \in Nat, NEW b \in Nat
  PROVE  /\ a * b \in Nat
         /\ a > 0 /\ b > 0 => a * b > 0
OBVIOUS

\* Multiplication by a natural number is monotone.
LEMMA TimesMonotone ==
  ASSUME NEW a \in Int, NEW b \in Int, NEW w \in Nat, a <= b
  PROVE  a * w <= b * w
BY SMT

\* A positive factor may be cancelled.
LEMMA Cancel ==
  ASSUME NEW a \in Int, NEW b \in Int, NEW w \in Nat \ {0}, a * w <= b * w
  PROVE  a <= b
<1> SUFFICES ASSUME b + 1 <= a PROVE FALSE
  OBVIOUS
<1>1. (b + 1) * w <= a * w
  BY TimesMonotone
<1>2. (b + 1) * w = b * w + w
  OBVIOUS
<1> QED
  BY <1>1, <1>2

\* The final rounding moves a share by half a step at most.
LEMMA RoundingIsClose ==
  ASSUME den \in Nat \ {0}, NEW n \in Nat
  PROVE  /\ Rounded(n) \in Nat
         /\ 2 * n - den * Grain <= 2 * (den * Rounded(n))
         /\ 2 * (den * Rounded(n)) <= 2 * n + den * Grain
<1> DEFINE g == den * Grain
           x == 2 * n + g
           w == 2 * den * Grain
           q == x \div w
<1>1. Grain \in Nat \ {0} /\ g \in Nat \ {0}
  BY AllocatorAssumption, Products
<1>2. w = 2 * g
  BY <1>1
<1>3. w \in Nat \ {0} /\ x \in Nat
  <2> HIDE DEF w, g
  <2> QED
    BY <1>1, <1>2
<1>4. q \in Nat /\ w * q <= x /\ x < w * q + w
  <2> HIDE DEF w, x
  <2> QED
    BY <1>3
<1>5. Rounded(n) = q * Grain
  BY DEF Rounded
<1> HIDE DEF q, w, x
<1>6. q * Grain \in Nat
  BY <1>1, <1>4, Products
<1>7. w * q = 2 * (g * q) /\ g * q = den * (q * Grain) /\ g * q \in Nat
  BY <1>1, <1>2, <1>4, Products
<1> HIDE DEF g
<1>8. 2 * n - g <= 2 * (g * q) /\ 2 * (g * q) <= 2 * n + g
  <2>1. x = 2 * n + g
    BY DEF x
  <2> QED
    BY <1>1, <1>2, <1>4, <1>7, <2>1
<1> QED
  BY <1>5, <1>6, <1>7, <1>8 DEF g

-----------------------------------------------------------------------------
(* One round.                                                              *)

\* The envelopes, the shares and the disks that are open have their types.
LEMMA DiskFacts ==
  ASSUME TypeOK
  PROVE  /\ IsFiniteSet(Disks) /\ IsFiniteSet(OpenDisks) /\ OpenDisks \subseteq eligible
         /\ OpenDisks \subseteq Disks
         /\ \A d \in Disks : /\ disk[d].min \in Nat /\ disk[d].max \in Nat
                             /\ disk[d].weight \in Nat /\ disk[d].weight > 0
                             /\ allocations[d] \in Nat
                             /\ disk[d].max * den \in Int /\ disk[d].min * den \in Int
                             /\ Room(d) \in Int /\ Above(d) \in Int
<1>1. IsFiniteSet(Disks)
  BY AllocatorAssumption
<1>2. OpenDisks \subseteq eligible /\ OpenDisks \subseteq Disks
  BY DEF OpenDisks, TypeOK
<1>3. IsFiniteSet(OpenDisks)
  BY <1>1, <1>2, FS_Subset
<1>4. ASSUME NEW d \in Disks
      PROVE  /\ disk[d].min \in Nat /\ disk[d].max \in Nat
             /\ disk[d].weight \in Nat /\ disk[d].weight > 0
             /\ allocations[d] \in Nat
  BY DEF TypeOK, Envelope
<1>5. den \in Nat
  BY DEF TypeOK
<1>6. ASSUME NEW d \in Disks
      PROVE  /\ disk[d].max * den \in Int /\ disk[d].min * den \in Int
             /\ Room(d) \in Int /\ Above(d) \in Int
  BY <1>4, <1>5 DEF Room, Above
<1> QED
  BY <1>1, <1>2, <1>3, <1>4, <1>6

\* The total weight is positive as long as a disk has room.
LEMMA TotalWeightPositive ==
  ASSUME TypeOK, OpenDisks # {}
  PROVE  TotalWeight \in Nat /\ TotalWeight > 0
<1> DEFINE g == [d \in OpenDisks |-> disk[d].weight]
<1>1. \A d \in OpenDisks : g[d] \in Nat /\ g[d] > 0
  BY DiskFacts
<1>2. TotalWeight = SumFunctionOnSet(g, OpenDisks)
  BY DEF TotalWeight, SumFunction
<1> HIDE DEF g
<1>3. SumFunctionOnSet(g, OpenDisks) \in Nat
  BY <1>1, DiskFacts, SumNat
<1>4. PICK d : d \in OpenDisks
  OBVIOUS
<1>5. g[d] <= SumFunctionOnSet(g, OpenDisks)
  BY <1>1, <1>4, DiskFacts, SumMember
<1> QED
  BY <1>1, <1>2, <1>3, <1>4, <1>5

\* Each grant is within the disk's weighted share and within its room.
LEMMA GrantBounds ==
  ASSUME TypeOK, CanShare, NEW d \in Disks
  PROVE  /\ GrantTo(d) \in Nat
         /\ remaining * disk[d].weight \in Nat
         /\ GrantTo(d) <= remaining * disk[d].weight
         /\ d \notin OpenDisks => GrantTo(d) = 0
         /\ d \in OpenDisks => /\ GrantTo(d) <= Room(d) * TotalWeight
                               /\ Room(d) * TotalWeight \in Nat
                               /\ \/ GrantTo(d) = remaining * disk[d].weight
                                  \/ GrantTo(d) = Room(d) * TotalWeight
<1>1. remaining \in Nat /\ OpenDisks # {}
  BY DEF CanShare, TypeOK
<1>2. TotalWeight \in Nat /\ TotalWeight > 0
  BY <1>1, TotalWeightPositive
<1>3. remaining * disk[d].weight \in Nat
  BY <1>1, DiskFacts, Products
<1>4. CASE d \notin OpenDisks
  BY <1>3, <1>4 DEF GrantTo
<1>5. CASE d \in OpenDisks
  <2>1. Room(d) \in Nat
    BY <1>5, DiskFacts DEF OpenDisks
  <2>2. Room(d) * TotalWeight \in Nat
    BY <1>2, <2>1, Products
  <2>3. GrantTo(d) = Smaller(remaining * disk[d].weight, Room(d) * TotalWeight)
    BY <1>5 DEF GrantTo
  <2> QED
    BY <1>3, <1>5, <2>2, <2>3 DEF Smaller
<1> QED
  BY <1>4, <1>5

Grants == [d \in Disks |-> GrantTo(d)]

\* What is granted is a function of the open disks' weights.
LEMMA GrantsOverOpen ==
  ASSUME TypeOK, CanShare
  PROVE  /\ SumFunction(Grants) = SumFunctionOnSet(Grants, OpenDisks)
         /\ SumFunction(Grants) \in Nat
<1>1. \A d \in Disks : Grants[d] \in Nat /\ Grants[d] \in Int
  BY GrantBounds DEF Grants
<1>2. \A d \in Disks \ OpenDisks : Grants[d] = 0
  BY GrantBounds DEF Grants
<1>3. SumFunctionOnSet(Grants, Disks) = SumFunctionOnSet(Grants, OpenDisks)
  BY <1>1, <1>2, DiskFacts, SumSupport
<1>4. SumFunctionOnSet(Grants, Disks) \in Nat
  BY <1>1, DiskFacts, SumNat
<1>5. SumFunction(Grants) = SumFunctionOnSet(Grants, Disks)
  BY DEF SumFunction, Grants
<1> QED
  BY <1>3, <1>4, <1>5

\* The shares of a round add up to what is left, if no disk fills up, and to
\* no more in any case.
LEMMA GrantsWithinRemaining ==
  ASSUME TypeOK, CanShare
  PROVE  /\ SumFunction(Grants) <= remaining * TotalWeight
         /\ (\A d \in OpenDisks : GrantTo(d) = remaining * disk[d].weight)
              => SumFunction(Grants) = remaining * TotalWeight
<1> DEFINE g == [d \in OpenDisks |-> disk[d].weight]
           h == [d \in OpenDisks |-> remaining * disk[d].weight]
<1>1. remaining \in Int
  BY DEF TypeOK
<1>2. \A d \in OpenDisks : g[d] \in Int /\ h[d] = remaining * g[d] /\ h[d] \in Int
                             /\ h[d] = remaining * disk[d].weight
  BY <1>1, DiskFacts
<1>3. \A d \in OpenDisks : Grants[d] = GrantTo(d) /\ Grants[d] \in Int
                             /\ Grants[d] <= remaining * disk[d].weight
  BY DiskFacts, GrantBounds DEF Grants
<1>4. TotalWeight = SumFunctionOnSet(g, OpenDisks)
  BY DEF TotalWeight, SumFunction
<1> HIDE DEF g, h
<1>5. SumFunctionOnSet(h, OpenDisks) = remaining * TotalWeight
  <2>1. SumFunctionOnSet(h, OpenDisks) = remaining * SumFunctionOnSet(g, OpenDisks)
    BY <1>1, <1>2, DiskFacts, SumScale
  <2> QED
    BY <1>4, <2>1
<1>6. \A d \in OpenDisks : Grants[d] <= h[d]
  BY <1>2, <1>3
<1>7. SumFunctionOnSet(Grants, OpenDisks) <= SumFunctionOnSet(h, OpenDisks)
  BY <1>2, <1>3, <1>6, DiskFacts, SumMonotone
<1>8. ASSUME \A d \in OpenDisks : GrantTo(d) = remaining * disk[d].weight
      PROVE  SumFunctionOnSet(Grants, OpenDisks) = SumFunctionOnSet(h, OpenDisks)
  <2>1. \A d \in OpenDisks : Grants[d] = h[d]
    BY <1>2, <1>3, <1>8
  <2> QED
    BY <1>2, <2>1, DiskFacts, SumCongruence
<1> QED
  BY <1>5, <1>7, <1>8, GrantsOverOpen

\* Scaling a bound times a denominator.
LEMMA Rescaled ==
  ASSUME NEW m \in Int, NEW n \in Int, NEW a \in Int, NEW w \in Int, NEW g \in Int
  PROVE  /\ m * (n * w) - (a * w + g) = (m * n - a) * w - g
         /\ (a * w + g) - m * (n * w) = (a - m * n) * w + g
OBVIOUS

\* What a round does to the variables, to the room of a disk and to what it has
\* above its minimum.
LEMMA RoundEffect ==
  ASSUME TypeOK, Round
  PROVE  /\ TypeOK'
         /\ CanShare /\ TotalWeight \in Nat /\ TotalWeight > 0
         /\ step = "loop" /\ step' = "loop" /\ disk' = disk /\ budget' = budget
         /\ den' = den * TotalWeight
         /\ remaining' = remaining * TotalWeight - SumFunction(Grants)
         /\ eligible' = {d \in OpenDisks : Room(d) * TotalWeight > GrantTo(d)}
         /\ rounds' = rounds + 1
         /\ \A d \in Disks : /\ allocations'[d] = allocations[d] * TotalWeight + GrantTo(d)
                             /\ Room(d)' = Room(d) * TotalWeight - GrantTo(d)
                             /\ Above(d)' = Above(d) * TotalWeight + GrantTo(d)
<1>1. CanShare /\ step = "loop" /\ step' = "loop" /\ disk' = disk /\ budget' = budget
      /\ den' = den * TotalWeight
      /\ remaining' = remaining * TotalWeight - SumFunction(Grants)
      /\ eligible' = {d \in OpenDisks : Room(d) * TotalWeight > GrantTo(d)}
      /\ rounds' = rounds + 1
      /\ allocations' = [d \in Disks |-> allocations[d] * TotalWeight + GrantTo(d)]
  BY DEF Round, Grants
<1>2. TotalWeight \in Nat /\ TotalWeight > 0
  BY <1>1, TotalWeightPositive DEF CanShare
<1>3. \A d \in Disks : allocations'[d] = allocations[d] * TotalWeight + GrantTo(d)
  BY <1>1
<1>4. \A d \in Disks : GrantTo(d) \in Nat /\ allocations[d] * TotalWeight \in Nat
  BY <1>1, <1>2, DiskFacts, GrantBounds, Products
<1>5. TypeOK'
  <2>1. allocations' \in [Disks -> Nat]
    BY <1>1, <1>4
  <2>2. den' \in Nat \ {0}
    BY <1>1, <1>2, Products DEF TypeOK
  <2>3. remaining' \in Int
    BY <1>1, <1>2, GrantsOverOpen DEF TypeOK
  <2>4. eligible' \subseteq Disks
    BY <1>1, DiskFacts
  <2> QED
    BY <1>1, <2>1, <2>2, <2>3, <2>4 DEF TypeOK
<1>6. ASSUME NEW d \in Disks
      PROVE  /\ Room(d)' = Room(d) * TotalWeight - GrantTo(d)
             /\ Above(d)' = Above(d) * TotalWeight + GrantTo(d)
  <2>1. /\ Room(d)' = disk[d].max * (den * TotalWeight) - (allocations[d] * TotalWeight + GrantTo(d))
        /\ Above(d)' = (allocations[d] * TotalWeight + GrantTo(d)) - disk[d].min * (den * TotalWeight)
    BY <1>1, <1>3 DEF Room, Above
  <2>2. den \in Int /\ disk[d].max \in Int /\ disk[d].min \in Int /\ allocations[d] \in Int
        /\ TotalWeight \in Int /\ GrantTo(d) \in Int
    BY <1>2, <1>4, DiskFacts DEF TypeOK
  <2> QED
    BY <2>1, <2>2, Rescaled DEF Room, Above
<1> QED
  BY <1>1, <1>2, <1>3, <1>5, <1>6

\* A round keeps every disk within its envelope.
LEMMA RoundKeepsEnvelopes ==
  ASSUME TypeOK, EnvelopesRespected, Round
  PROVE  \A d \in Disks : /\ disk'[d].min * den' <= allocations'[d]
                          /\ allocations'[d] <= disk'[d].max * den'
                          /\ Room(d) >= 0
<1> SUFFICES ASSUME NEW d \in Disks
             PROVE  /\ disk'[d].min * den' <= allocations'[d]
                    /\ allocations'[d] <= disk'[d].max * den'
                    /\ Room(d) >= 0
  OBVIOUS
<1>1. disk[d].min * den <= allocations[d] /\ allocations[d] <= disk[d].max * den
  BY RoundEffect DEF EnvelopesRespected
<1>2. Room(d) \in Nat /\ Above(d) \in Nat
  BY <1>1, DiskFacts DEF Room, Above
<1>3. Room(d) * TotalWeight \in Nat /\ Above(d) * TotalWeight \in Nat
  BY <1>2, RoundEffect, Products
<1>4. GrantTo(d) \in Nat /\ GrantTo(d) <= Room(d) * TotalWeight
  BY <1>3, RoundEffect, GrantBounds
<1>5. Room(d)' >= 0 /\ Above(d)' >= 0
  BY <1>3, <1>4, RoundEffect
<1>6. allocations'[d] \in Int /\ disk'[d].min * den' \in Int /\ disk'[d].max * den' \in Int
  <2>1. TypeOK' /\ disk' = disk /\ den' \in Int
    BY RoundEffect DEF TypeOK
  <2> QED
    BY <2>1, DiskFacts DEF TypeOK
<1> QED
  BY <1>2, <1>5, <1>6 DEF Room, Above

\* A round hands out exactly what it takes from the rest.
LEMMA RoundConserves ==
  ASSUME TypeOK, Conserved, Round
  PROVE  SumFunction(allocations') + remaining' = budget' * den'
<1> DEFINE scaled == [d \in Disks |-> TotalWeight * allocations[d]]
<1>1. TotalWeight \in Int /\ CanShare
  BY RoundEffect
<1>2. \A d \in Disks : /\ allocations[d] \in Int /\ Grants[d] \in Int /\ scaled[d] \in Int
                       /\ scaled[d] = TotalWeight * allocations[d]
                       /\ allocations'[d] = scaled[d] + Grants[d]
  <2>1. \A d \in Disks : allocations[d] \in Int /\ GrantTo(d) \in Int /\ Grants[d] = GrantTo(d)
    BY <1>1, DiskFacts, GrantBounds DEF Grants
  <2> QED
    BY <1>1, <2>1, RoundEffect
<1>3. /\ SumFunction(allocations) = SumFunctionOnSet(allocations, Disks)
      /\ SumFunction(allocations') = SumFunctionOnSet(allocations', Disks)
      /\ SumFunction(Grants) = SumFunctionOnSet(Grants, Disks)
  <2>1. DOMAIN allocations = Disks /\ DOMAIN allocations' = Disks /\ DOMAIN Grants = Disks
    BY RoundEffect DEF TypeOK, Grants
  <2> QED
    BY <2>1, Zenon DEF SumFunction
<1> HIDE DEF scaled
<1>4. SumFunctionOnSet(scaled, Disks) = TotalWeight * SumFunction(allocations)
  <2>1. IsFiniteSet(Disks) /\ \A d \in Disks : /\ allocations[d] \in Int
                                               /\ scaled[d] = TotalWeight * allocations[d]
    BY <1>2, DiskFacts
  <2>2. SumFunctionOnSet(scaled, Disks) = TotalWeight * SumFunctionOnSet(allocations, Disks)
    BY <1>1, <2>1, SumScale
  <2> QED
    BY <1>3, <2>2, Zenon
<1>5. SumFunctionOnSet(allocations', Disks)
        = SumFunctionOnSet(scaled, Disks) + SumFunctionOnSet(Grants, Disks)
  BY <1>2, DiskFacts, SumPlus
<1>6. SumFunction(allocations) \in Int /\ SumFunction(Grants) \in Int
  BY <1>2, <1>3, DiskFacts, SumInt
<1>7. SumFunction(allocations) + remaining = budget * den
  BY RoundEffect DEF Conserved
<1>8. SumFunction(allocations') + remaining' = TotalWeight * SumFunction(allocations) + remaining * TotalWeight
  BY <1>1, <1>3, <1>4, <1>5, <1>6, RoundEffect DEF TypeOK
<1>9. remaining \in Int /\ budget \in Int /\ den \in Int
  BY DEF TypeOK
<1>10. TotalWeight * SumFunction(allocations) + remaining * TotalWeight
         = TotalWeight * (SumFunction(allocations) + remaining)
  BY <1>1, <1>6, <1>9, Distributes
<1>11. TotalWeight * (budget * den) = budget * (den * TotalWeight)
  BY <1>1, <1>9
<1> QED
  BY <1>7, <1>8, <1>10, <1>11, RoundEffect

\* A disk left out of the rounds after this one is full.
LEMMA RoundLeavesOutTheFull ==
  ASSUME TypeOK, EnvelopesRespected, LeftOutIsFull, Round, NEW d \in Disks, d \notin eligible'
  PROVE  Room(d)' = 0
<1>1. CanShare /\ step = "loop" /\ TotalWeight \in Nat
  BY RoundEffect
<1>2. Room(d) >= 0 /\ Room(d) \in Int
  BY DiskFacts, RoundKeepsEnvelopes
<1>3. GrantTo(d) \in Int /\ (d \notin OpenDisks => GrantTo(d) = 0)
  BY <1>1, GrantBounds
<1>4. CASE d \in OpenDisks
  <2>1. ~(Room(d) * TotalWeight > GrantTo(d)) /\ GrantTo(d) <= Room(d) * TotalWeight
    BY <1>1, <1>4, RoundEffect, GrantBounds
  <2> QED
    BY <1>1, <1>2, <1>3, <2>1, RoundEffect
<1>5. CASE d \notin OpenDisks
  <2>1. Room(d) = 0
    <3>1. CASE d \in eligible
      BY <1>2, <1>5, <3>1 DEF OpenDisks
    <3>2. CASE d \notin eligible
      BY <1>1, <3>2 DEF LeftOutIsFull
    <3> QED
      BY <3>1, <3>2
  <2> QED
    BY <1>1, <1>3, <1>5, <2>1, RoundEffect
<1> QED
  BY <1>4, <1>5

\* Adding at most a full share per weight to one disk and a full share to
\* another keeps their order per weight.
LEMMA FairStep ==
  ASSUME NEW a \in Int, NEW b \in Int, NEW v \in Nat, NEW w \in Nat, NEW t \in Nat,
         NEW r \in Nat, NEW g \in Nat, b * v <= a * w, g <= r * w
  PROVE  (b * t + g) * v <= (a * t + r * v) * w
<1>1. (b * t + g) * v = (b * v) * t + g * v /\ (a * t + r * v) * w = (a * w) * t + (r * w) * v
  OBVIOUS
<1>2. b * v \in Int /\ a * w \in Int /\ r * w \in Int
  OBVIOUS
<1>3. (b * v) * t <= (a * w) * t
  BY <1>2, TimesMonotone
<1>4. g * v <= (r * w) * v
  BY <1>2, TimesMonotone
<1>5. (b * v) * t \in Int /\ (a * w) * t \in Int /\ g * v \in Int /\ (r * w) * v \in Int
  BY <1>2
<1> QED
  BY <1>1, <1>3, <1>4, <1>5

\* Equal shares stay equal when each disk gets all that its weight entitles it to.
LEMMA EqualStep ==
  ASSUME NEW a \in Int, NEW b \in Int, NEW v \in Int, NEW w \in Int, NEW t \in Int, NEW r \in Int,
         b * v = a * w
  PROVE  (b * t + r * w) * v = (a * t + r * v) * w
<1>1. (b * t + r * w) * v = (b * v) * t + (r * w) * v
  OBVIOUS
<1>2. (a * t + r * v) * w = (a * w) * t + (r * w) * v
  OBVIOUS
<1> QED
  BY <1>1, <1>2, Zenon

\* Weighted fairness is kept by a round.
LEMMA RoundIsFair ==
  ASSUME TypeOK, EnvelopesRespected, LeftOutIsFull, FairSoFar, Round
  PROVE  FairSoFar'
<1>1. CanShare /\ step = "loop" /\ TotalWeight \in Nat /\ disk' = disk /\ remaining \in Nat
  BY RoundEffect DEF CanShare, TypeOK
<1> SUFFICES ASSUME NEW d \in eligible', NEW e \in Disks
             PROVE  /\ Above(e)' * disk[d].weight <= Above(d)' * disk[e].weight
                    /\ Room(e)' > 0 => Above(e)' * disk[d].weight = Above(d)' * disk[e].weight
  BY <1>1 DEF FairSoFar
<1>2. d \in OpenDisks /\ Room(d) * TotalWeight > GrantTo(d) /\ d \in eligible /\ d \in Disks
  BY RoundEffect, DiskFacts
<1>3. Room(d) > 0
  BY <1>2 DEF OpenDisks
<1>4. GrantTo(d) = remaining * disk[d].weight
  <2>1. GrantTo(d) \in Nat /\ Room(d) * TotalWeight \in Nat
    BY <1>1, <1>2, GrantBounds
  <2> QED
    BY <1>1, <1>2, <2>1, GrantBounds
<1>5. GrantTo(e) \in Nat /\ GrantTo(e) <= remaining * disk[e].weight
  BY <1>1, GrantBounds
<1>6. /\ Above(d)' = Above(d) * TotalWeight + remaining * disk[d].weight
      /\ Above(e)' = Above(e) * TotalWeight + GrantTo(e)
      /\ Room(e)' = Room(e) * TotalWeight - GrantTo(e)
  BY <1>2, <1>4, RoundEffect
<1>7. /\ Above(d) \in Int /\ Above(e) \in Int
      /\ disk[d].weight \in Nat /\ disk[e].weight \in Nat
  BY <1>2, DiskFacts
<1>8. Above(e) * disk[d].weight <= Above(d) * disk[e].weight
  BY <1>1, <1>2, <1>3 DEF FairSoFar, Before
<1>9. Above(e)' * disk[d].weight <= Above(d)' * disk[e].weight
  <2>1. (Above(e) * TotalWeight + GrantTo(e)) * disk[d].weight
          <= (Above(d) * TotalWeight + remaining * disk[d].weight) * disk[e].weight
    BY <1>1, <1>5, <1>7, <1>8, FairStep
  <2> QED
    BY <1>6, <2>1, Zenon
<1>10. ASSUME Room(e)' > 0
       PROVE  Above(e)' * disk[d].weight = Above(d)' * disk[e].weight
  <2>1. e \in eligible'
    BY <1>10, RoundLeavesOutTheFull
  <2>2. e \in OpenDisks /\ Room(e) * TotalWeight > GrantTo(e)
    BY <2>1, RoundEffect
  <2>3. GrantTo(e) = remaining * disk[e].weight
    <3>1. GrantTo(e) \in Nat /\ Room(e) * TotalWeight \in Nat
      BY <1>1, <2>2, GrantBounds
    <3> QED
      BY <1>1, <2>2, <3>1, GrantBounds
  <2>4. Room(e) > 0
    BY <2>2 DEF OpenDisks
  <2>5. Above(e) * disk[d].weight = Above(d) * disk[e].weight
    BY <1>1, <1>2, <1>3, <2>4 DEF FairSoFar, Before
  <2>6. (Above(e) * TotalWeight + remaining * disk[e].weight) * disk[d].weight
          = (Above(d) * TotalWeight + remaining * disk[d].weight) * disk[e].weight
    <3>1. /\ Above(d) \in Int /\ Above(e) \in Int /\ TotalWeight \in Int /\ remaining \in Int
          /\ disk[d].weight \in Int /\ disk[e].weight \in Int
      BY <1>1, <1>7
    <3> QED
      <4> DEFINE a == Above(d)
                 b == Above(e)
                 v == disk[d].weight
                 w == disk[e].weight
                 t == TotalWeight
                 r == remaining
      <4>1. a \in Int /\ b \in Int /\ v \in Int /\ w \in Int /\ t \in Int /\ r \in Int
        BY <3>1
      <4>2. b * v = a * w
        BY <2>5
      <4> HIDE DEF a, b, v, w, t, r
      <4>3. (b * t + r * w) * v = (a * t + r * v) * w
        BY <4>1, <4>2, EqualStep
      <4> QED
        BY <4>3, Zenon DEF a, b, v, w, t, r
  <2> QED
    BY <1>6, <2>3, <2>6, Zenon
<1> QED
  BY <1>9, <1>10

\* A round fills a disk or leaves nothing to share.
LEMMA RoundIsPaidFor ==
  ASSUME TypeOK, EnvelopesRespected, RoundsPaidFor, Round
  PROVE  RoundsPaidFor' /\ RoundsBounded'
<1>1. CanShare /\ step = "loop" /\ TypeOK' /\ disk' = disk /\ rounds \in Nat /\ rounds' = rounds + 1
  BY RoundEffect DEF TypeOK
<1>2. Cardinality(OpenDisks) \in Nat /\ Cardinality(Disks) \in Nat /\ Cardinality(OpenDisks) # 0
  BY <1>1, DiskFacts, FS_CardinalityType, FS_EmptySet DEF CanShare
<1>3. rounds + Cardinality(OpenDisks) <= Cardinality(Disks)
  BY <1>1 DEF RoundsPaidFor, Before, CanShare
<1>4. RoundsBounded'
  BY <1>1, <1>2, <1>3 DEF RoundsBounded
<1>5. ASSUME remaining' > 0
      PROVE  rounds' + Cardinality(OpenDisks') <= Cardinality(Disks)
  <2>1. ~(SumFunction(Grants) = remaining * TotalWeight)
    BY <1>1, <1>5, GrantsOverOpen, RoundEffect DEF TypeOK
  <2>2. PICK d \in OpenDisks : GrantTo(d) # remaining * disk[d].weight
    BY <1>1, <2>1, GrantsWithinRemaining
  <2>3. GrantTo(d) = Room(d) * TotalWeight /\ GrantTo(d) \in Nat
    BY <1>1, <2>2, DiskFacts, GrantBounds
  <2>4. d \notin eligible' /\ eligible' \subseteq OpenDisks
    BY <2>3, RoundEffect
  <2>5. OpenDisks' \subseteq OpenDisks \ {d}
    BY <2>4 DEF OpenDisks
  <2>6. /\ IsFiniteSet(OpenDisks \ {d})
        /\ Cardinality(OpenDisks \ {d}) = Cardinality(OpenDisks) - 1
    BY <2>2, DiskFacts, FS_RemoveElement
  <2>7. Cardinality(OpenDisks') <= Cardinality(OpenDisks) - 1 /\ Cardinality(OpenDisks') \in Nat
    BY <2>5, <2>6, FS_Subset, FS_CardinalityType
  <2> QED
    BY <1>1, <1>2, <1>3, <2>7
<1> QED
  BY <1>4, <1>5 DEF RoundsPaidFor

-----------------------------------------------------------------------------
(* The final rounding.                                                     *)

\* Rounding a share that is within the envelope leaves it there, up to half a
\* rounding step.
LEMMA RoundedWithinEnvelope ==
  ASSUME den \in Nat \ {0}, NEW n \in Nat, NEW lo \in Nat, NEW hi \in Nat,
         lo * den <= n, n <= hi * den
  PROVE  2 * Rounded(n) >= 2 * lo - Grain /\ 2 * Rounded(n) <= 2 * hi + Grain
<1>1. Grain \in Nat \ {0} /\ Rounded(n) \in Nat /\ den * Grain \in Int /\ den * Rounded(n) \in Int
      /\ lo * den \in Int /\ hi * den \in Int
  BY AllocatorAssumption, RoundingIsClose
<1>2. 2 * (lo * den) - den * Grain <= 2 * (den * Rounded(n))
      /\ 2 * (den * Rounded(n)) <= 2 * (hi * den) + den * Grain
  BY <1>1, RoundingIsClose
<1>3. (2 * lo - Grain) * den = 2 * (lo * den) - den * Grain
      /\ (2 * hi + Grain) * den = 2 * (hi * den) + den * Grain
      /\ (2 * Rounded(n)) * den = 2 * (den * Rounded(n))
  BY <1>1
<1>4. (2 * lo - Grain) * den <= (2 * Rounded(n)) * den
      /\ (2 * Rounded(n)) * den <= (2 * hi + Grain) * den
  BY <1>2, <1>3
<1>5. 2 * lo - Grain \in Int /\ 2 * Rounded(n) \in Int /\ 2 * hi + Grain \in Int
  BY <1>1
<1>6. 2 * lo - Grain <= 2 * Rounded(n) /\ 2 * Rounded(n) <= 2 * hi + Grain
  BY <1>4, <1>5, Cancel
<1> QED
  BY <1>1, <1>6

\* A bound that lies on the grid survives the rounding.
LEMMA RoundedKeepsGridBounds ==
  ASSUME den \in Nat \ {0}, NEW n \in Nat, NEW lo \in Nat, NEW hi \in Nat,
         lo * den <= n, n <= hi * den
  PROVE  /\ OnGrid(lo) => Rounded(n) >= lo
         /\ OnGrid(hi) => Rounded(n) <= hi
<1> DEFINE w == 2 * den * Grain
           x == 2 * n + den * Grain
           q == x \div w
<1>1. Grain \in Nat \ {0} /\ den * Grain \in Nat \ {0} /\ w = 2 * (den * Grain)
  BY AllocatorAssumption, Products
<1>2. w \in Nat \ {0} /\ x \in Nat
  <2> HIDE DEF w
  <2> QED
    BY <1>1
<1>3. q \in Nat
  <2> HIDE DEF w, x
  <2> QED
    BY <1>2
<1>4. Rounded(n) = q * Grain
  BY DEF Rounded
<1> HIDE DEF q, w, x
<1>5. /\ 2 * lo - Grain <= 2 * (q * Grain) /\ 2 * (q * Grain) <= 2 * hi + Grain
      /\ q * Grain \in Nat
  BY <1>1, <1>3, <1>4, Products, RoundedWithinEnvelope
<1>6. ASSUME NEW b \in Nat, OnGrid(b)
      PROVE  \E k \in Nat : b = k * Grain
  BY <1>1, <1>6, SMT DEF OnGrid
<1>7. ASSUME OnGrid(lo) PROVE q * Grain >= lo
  <2>1. PICK k \in Nat : lo = k * Grain
    BY <1>6, <1>7
  <2>2. (2 * k - 1) * Grain = 2 * lo - Grain /\ (2 * q) * Grain = 2 * (q * Grain)
    BY <1>1, <1>3, <2>1
  <2>3. 2 * k - 1 <= 2 * q
    BY <1>1, <1>3, <1>5, <2>2, Cancel
  <2>4. k <= q
    BY <1>3, <2>3
  <2> QED
    BY <1>1, <1>3, <2>1, <2>4, TimesMonotone
<1>8. ASSUME OnGrid(hi) PROVE q * Grain <= hi
  <2>1. PICK k \in Nat : hi = k * Grain
    BY <1>6, <1>8
  <2>2. (2 * k + 1) * Grain = 2 * hi + Grain /\ (2 * q) * Grain = 2 * (q * Grain)
    BY <1>1, <1>3, <2>1
  <2>3. 2 * q <= 2 * k + 1
    BY <1>1, <1>3, <1>5, <2>2, Cancel
  <2>4. q <= k
    BY <1>3, <2>3
  <2> QED
    BY <1>1, <1>3, <2>1, <2>4, TimesMonotone
<1> QED
  BY <1>4, <1>7, <1>8

\* When the loop stops, the shares add up to the budget or to all the maxima,
\* whichever is smaller.
LEMMA DueIsGiven ==
  ASSUME TypeOK, EnvelopesRespected, Conserved, LeftOutIsFull, NotOverdrawn,
         step = "loop", ~CanShare
  PROVE  /\ SumFunction(allocations) = Smaller(budget, SumFunction([d \in Disks |-> disk[d].max])) * den
         /\ SumFunction([d \in Disks |-> disk[d].max]) \in Int
<1> DEFINE maxima == [d \in Disks |-> disk[d].max]
           full == [d \in Disks |-> den * maxima[d]]
           top == SumFunction(maxima)
           given == SumFunction(allocations)
<1>1. den \in Nat \ {0} /\ budget \in Int /\ remaining \in Int
  BY DEF TypeOK
<1>2. \A d \in Disks : /\ allocations[d] \in Int /\ maxima[d] \in Int /\ full[d] \in Int
                       /\ full[d] = den * maxima[d] /\ full[d] = disk[d].max * den
                       /\ allocations[d] <= full[d]
                       /\ Room(d) = full[d] - allocations[d]
  <2> SUFFICES ASSUME NEW d \in Disks
               PROVE  /\ allocations[d] \in Int /\ maxima[d] \in Int /\ full[d] \in Int
                      /\ full[d] = den * maxima[d] /\ full[d] = disk[d].max * den
                      /\ allocations[d] <= full[d]
                      /\ Room(d) = full[d] - allocations[d]
    OBVIOUS
  <2>1. allocations[d] \in Int /\ disk[d].max \in Int
    BY DiskFacts
  <2>2. full[d] = disk[d].max * den /\ full[d] \in Int
    BY <1>1, <2>1
  <2>3. allocations[d] <= disk[d].max * den
    BY DEF EnvelopesRespected
  <2> QED
    BY <2>1, <2>2, <2>3 DEF Room
<1>3. top = SumFunctionOnSet(maxima, Disks) /\ given = SumFunctionOnSet(allocations, Disks)
  <2>1. DOMAIN maxima = Disks /\ DOMAIN allocations = Disks
    BY DEF TypeOK
  <2> QED
    BY <2>1, Zenon DEF SumFunction
<1> HIDE DEF maxima, full, top, given
<1>4. top \in Int /\ given \in Int
  BY <1>2, <1>3, DiskFacts, SumInt
<1>5. SumFunctionOnSet(full, Disks) = den * top
  <2>1. IsFiniteSet(Disks) /\ den \in Int
        /\ \A d \in Disks : maxima[d] \in Int /\ full[d] = den * maxima[d]
    BY <1>1, <1>2, DiskFacts
  <2>2. SumFunctionOnSet(full, Disks) = den * SumFunctionOnSet(maxima, Disks)
    BY <2>1, SumScale
  <2> QED
    BY <1>3, <2>2, Zenon
<1>6. given <= den * top
  BY <1>2, <1>3, <1>5, DiskFacts, SumMonotone
<1>7. given + remaining = budget * den /\ remaining >= 0
  BY DEF Conserved, NotOverdrawn, given
<1>8. CASE remaining = 0
  <2>1. budget * den <= top * den /\ given = budget * den
    BY <1>1, <1>4, <1>6, <1>7, <1>8
  <2>2. budget <= top
    BY <1>1, <1>4, <2>1, Cancel
  <2>3. Smaller(budget, top) = budget
    BY <2>2 DEF Smaller
  <2> QED
    BY <1>4, <2>1, <2>3 DEF top, maxima, given
<1>9. CASE OpenDisks = {}
  <2>1. \A d \in Disks : Room(d) = 0
    <3> SUFFICES ASSUME NEW d \in Disks PROVE Room(d) = 0
      OBVIOUS
    <3>1. CASE d \in eligible
      <4>1. ~(Room(d) > 0)
        BY <1>9, <3>1 DEF OpenDisks
      <4> QED
        BY <1>2, <4>1
    <3>2. CASE d \notin eligible
      BY <3>2 DEF LeftOutIsFull
    <3> QED
      BY <3>1, <3>2
  <2>2. \A d \in Disks : allocations[d] \in Int /\ full[d] = allocations[d]
    BY <1>2, <2>1
  <2>3. SumFunctionOnSet(full, Disks) = SumFunctionOnSet(allocations, Disks)
    BY <2>2, DiskFacts, SumCongruence
  <2>4. given = top * den
    BY <1>1, <1>3, <1>4, <1>5, <2>3
  <2>5. top * den <= budget * den
    BY <1>1, <1>4, <1>7, <2>4
  <2>6. top <= budget
    BY <1>1, <1>4, <2>5, Cancel
  <2>7. Smaller(budget, top) = top
    BY <1>1, <1>4, <2>6 DEF Smaller
  <2> QED
    BY <1>4, <2>4, <2>7 DEF top, maxima, given
<1> QED
  BY <1>1, <1>7, <1>8, <1>9 DEF CanShare

\* Rounding the shares one by one moves their sum by half a step per disk.
LEMMA RoundedSum ==
  ASSUME TypeOK, NEW due \in Int, SumFunction(allocations) = due * den
  PROVE  LET rounded == SumFunction([d \in Disks |-> Rounded(allocations[d])])
             slack == Cardinality(Disks) * Grain
         IN  2 * due - slack <= 2 * rounded /\ 2 * rounded <= 2 * due + slack
<1> DEFINE R == [d \in Disks |-> Rounded(allocations[d])]
           lower == [d \in Disks |-> 2 * allocations[d] + (0 - den * Grain)]
           upper == [d \in Disks |-> 2 * allocations[d] + den * Grain]
           twice == [d \in Disks |-> 2 * allocations[d]]
           scaled == [d \in Disks |-> (2 * den) * R[d]]
           plus == [d \in Disks |-> den * Grain]
           minus == [d \in Disks |-> 0 - den * Grain]
           card == Cardinality(Disks)
           sum(f) == SumFunctionOnSet(f, Disks)
<1>1. den \in Nat \ {0} /\ Grain \in Nat \ {0} /\ den * Grain \in Int /\ 0 - den * Grain \in Int
      /\ card \in Nat /\ IsFiniteSet(Disks)
  BY AllocatorAssumption, FS_CardinalityType DEF TypeOK
<1>2. \A d \in Disks :
        /\ allocations[d] \in Int /\ R[d] \in Int /\ twice[d] \in Int
        /\ twice[d] = 2 * allocations[d] /\ plus[d] = den * Grain /\ minus[d] = 0 - den * Grain
        /\ lower[d] = twice[d] + minus[d] /\ upper[d] = twice[d] + plus[d]
        /\ scaled[d] = (2 * den) * R[d] /\ scaled[d] \in Int
        /\ lower[d] \in Int /\ upper[d] \in Int /\ plus[d] \in Int /\ minus[d] \in Int
        /\ lower[d] <= scaled[d] /\ scaled[d] <= upper[d]
  <2> SUFFICES ASSUME NEW d \in Disks
               PROVE  /\ allocations[d] \in Nat /\ R[d] \in Nat /\ (2 * den) * R[d] \in Int
                      /\ 2 * allocations[d] + (0 - den * Grain) <= (2 * den) * R[d]
                      /\ (2 * den) * R[d] <= 2 * allocations[d] + den * Grain
    BY <1>1
  <2>1. allocations[d] \in Nat
    BY DiskFacts
  <2>2. R[d] = Rounded(allocations[d]) /\ R[d] \in Nat
        /\ 2 * allocations[d] - den * Grain <= 2 * (den * R[d])
        /\ 2 * (den * R[d]) <= 2 * allocations[d] + den * Grain
    BY <1>1, <2>1, RoundingIsClose
  <2>3. (2 * den) * R[d] = 2 * (den * R[d]) /\ den * R[d] \in Int
    BY <1>1, <2>2
  <2> QED
    BY <1>1, <2>1, <2>2, <2>3
<1>3. sum(R) = SumFunction(R) /\ sum(allocations) = due * den
  <2>1. DOMAIN R = Disks /\ DOMAIN allocations = Disks
    BY DEF TypeOK
  <2> HIDE DEF R
  <2> QED
    BY <2>1, Zenon DEF SumFunction
<1> HIDE DEF R, lower, upper, twice, scaled, plus, minus, card
<1>4. sum(scaled) = (2 * den) * sum(R) /\ sum(twice) = 2 * sum(allocations)
  <2>1. 2 * den \in Int /\ 2 \in Int
    BY <1>1
  <2>2. sum(scaled) = (2 * den) * sum(R)
    BY <1>1, <1>2, <2>1, SumScale
  <2>3. sum(twice) = 2 * sum(allocations)
    BY <1>1, <1>2, <2>1, SumScale
  <2> QED
    BY <2>2, <2>3
<1>5. sum(plus) = (den * Grain) * card /\ sum(minus) = (0 - den * Grain) * card
  BY <1>1, <1>2, SumConstant DEF card
<1>6. sum(lower) = sum(twice) + sum(minus) /\ sum(upper) = sum(twice) + sum(plus)
  BY <1>1, <1>2, SumPlus
<1>7. sum(lower) <= sum(scaled) /\ sum(scaled) <= sum(upper)
  BY <1>1, <1>2, SumMonotone
<1>8. sum(R) \in Int /\ sum(allocations) \in Int
  BY <1>1, <1>2, SumInt
<1> HIDE DEF sum
<1>9. (2 * due - card * Grain) * den <= (2 * sum(R)) * den
      /\ (2 * sum(R)) * den <= (2 * due + card * Grain) * den
  <2>1. (2 * due - card * Grain) * den = 2 * (due * den) + (0 - den * Grain) * card
    BY <1>1
  <2>2. (2 * due + card * Grain) * den = 2 * (due * den) + (den * Grain) * card
    BY <1>1
  <2>3. (2 * sum(R)) * den = (2 * den) * sum(R)
    BY <1>1, <1>8
  <2> QED
    BY <1>3, <1>4, <1>5, <1>6, <1>7, <2>1, <2>2, <2>3
<1>10. 2 * due - card * Grain \in Int /\ 2 * due + card * Grain \in Int /\ 2 * sum(R) \in Int
  BY <1>1, <1>8
<1>11. 2 * due - card * Grain <= 2 * sum(R) /\ 2 * sum(R) <= 2 * due + card * Grain
  BY <1>1, <1>9, <1>10, Cancel
<1> QED
  BY <1>3, <1>11 DEF R, card

-----------------------------------------------------------------------------
(* The invariant holds.                                                    *)

\* Every call starts in it.
LEMMA InitStep == Init => IInv
<1> SUFFICES ASSUME Init PROVE IInv
  OBVIOUS
<1> DEFINE minima == [d \in Disks |-> disk[d].min]
<1>1. \A d \in Disks : /\ disk[d] \in Envelope /\ disk[d].min \in Nat /\ disk[d].max \in Nat
                       /\ disk[d].min <= disk[d].max /\ disk[d].weight \in Nat
                       /\ allocations[d] = disk[d].min
  BY AllocatorAssumption DEF Init, Envelope
<1>2. RequiredMinimum \in Int /\ RequiredMinimum = SumFunction(allocations)
  <2>1. allocations = minima /\ RequiredMinimum = SumFunction(minima)
    BY DEF Init, RequiredMinimum
  <2>2. SumFunction(minima) = SumFunctionOnSet(minima, Disks)
    BY DEF SumFunction
  <2>3. \A d \in Disks : minima[d] \in Int
    BY <1>1
  <2> HIDE DEF minima
  <2>4. SumFunctionOnSet(minima, Disks) \in Int
    BY <2>3, AllocatorAssumption, SumInt
  <2> QED
    BY <2>1, <2>2, <2>4
<1>3. TypeOK
  BY <1>1, <1>2, AllocatorAssumption DEF Init, TypeOK
<1>4. step = "check" /\ den = 1 /\ eligible = Disks /\ rounds = 0 /\ budget \in Int
      /\ remaining = budget - RequiredMinimum
  BY AllocatorAssumption DEF Init
<1>5. EnvelopesRespected
  BY <1>1, <1>4 DEF EnvelopesRespected
<1>6. Conserved
  BY <1>2, <1>4 DEF Conserved
<1>7. FairSoFar
  <2>1. \A d \in Disks : Above(d) = 0
    BY <1>1, <1>4 DEF Above
  <2>2. \A d \in Disks : disk[d].weight \in Int
    BY <1>1
  <2> QED
    BY <1>4, <2>1, <2>2 DEF FairSoFar
<1>8. RoundsPaidFor /\ RoundsBounded
  <2>1. Cardinality(Disks) \in Nat /\ Cardinality(OpenDisks) \in Nat
        /\ Cardinality(OpenDisks) <= Cardinality(Disks)
    BY <1>3, DiskFacts, FS_CardinalityType, FS_Subset
  <2> QED
    BY <1>4, <2>1 DEF RoundsPaidFor, RoundsBounded
<1> QED
  BY <1>3, <1>4, <1>5, <1>6, <1>7, <1>8
     DEF IInv, LeftOutIsFull, NotOverdrawn, BudgetUsedExactly

\* A step that only moves on in the call keeps everything that does not speak of
\* where the call is.
LEMMA SameShares ==
  ASSUME UNCHANGED <<budget, disk, allocations, remaining, den, eligible, rounds>>
  PROVE  /\ \A d \in Disks : Room(d)' = Room(d) /\ Above(d)' = Above(d)
         /\ OpenDisks' = OpenDisks
         /\ SumFunction(allocations') = SumFunction(allocations)
BY DEF Room, Above, OpenDisks

\* Every step keeps it.
LEMMA NextStep == IInv /\ [Next]_vars => IInv'
<1> SUFFICES ASSUME IInv, [Next]_vars PROVE IInv'
  OBVIOUS
<1> USE DEF IInv
<1>1. CASE Infeasible \/ Feasible
  <2>1. /\ UNCHANGED <<budget, disk, allocations, remaining, den, eligible, rounds>>
        /\ step = "check"
        /\ step' = "infeasible" \/ (step' = "loop" /\ remaining >= 0)
    BY <1>1 DEF Infeasible, Feasible
  <2>2. TypeOK'
    BY <2>1 DEF TypeOK
  <2>3. EnvelopesRespected'
    BY <2>1 DEF EnvelopesRespected
  <2>4. Conserved'
    BY <2>1, SameShares DEF Conserved
  <2>5. LeftOutIsFull'
    BY <2>1, SameShares DEF LeftOutIsFull
  <2>6. NotOverdrawn'
    BY <2>1 DEF NotOverdrawn
  <2>7. FairSoFar'
    BY <2>1, SameShares, DiskFacts DEF FairSoFar, Before, TypeOK
  <2>8. RoundsPaidFor' /\ RoundsBounded'
    BY <2>1, SameShares DEF RoundsPaidFor, RoundsBounded, Before
  <2>9. BudgetUsedExactly'
    BY <2>1 DEF BudgetUsedExactly
  <2> QED
    BY <2>2, <2>3, <2>4, <2>5, <2>6, <2>7, <2>8, <2>9
<1>2. CASE Round
  <2>1. TypeOK' /\ step = "loop" /\ step' = "loop" /\ disk' = disk /\ CanShare
    BY <1>2, RoundEffect
  <2>2. EnvelopesRespected'
    BY <1>2, <2>1, RoundKeepsEnvelopes DEF EnvelopesRespected
  <2>3. Conserved'
    BY <1>2, <2>1, RoundConserves DEF Conserved
  <2>4. LeftOutIsFull'
    BY <1>2, <2>1, RoundLeavesOutTheFull DEF LeftOutIsFull
  <2>5. NotOverdrawn'
    <3>1. SumFunction(Grants) \in Nat /\ SumFunction(Grants) <= remaining * TotalWeight
      BY <2>1, GrantsOverOpen, GrantsWithinRemaining
    <3>2. remaining * TotalWeight \in Int
      BY <1>2, RoundEffect DEF TypeOK
    <3> QED
      BY <1>2, <3>1, <3>2, RoundEffect DEF NotOverdrawn
  <2>6. FairSoFar'
    BY <1>2, RoundIsFair
  <2>7. RoundsPaidFor' /\ RoundsBounded'
    BY <1>2, RoundIsPaidFor
  <2>8. BudgetUsedExactly'
    BY <2>1 DEF BudgetUsedExactly
  <2> QED
    BY <2>1, <2>2, <2>3, <2>4, <2>5, <2>6, <2>7, <2>8
<1>3. CASE Finish
  <2>1. /\ step = "loop" /\ ~CanShare /\ step' = "feasible"
        /\ allocations' = [d \in Disks |-> Rounded(allocations[d])]
        /\ UNCHANGED <<budget, disk, remaining, den, eligible, rounds>>
    BY <1>3 DEF Finish
  <2>2. den \in Nat \ {0}
    BY DEF TypeOK
  <2>3. TypeOK'
    <3>1. \A d \in Disks : Rounded(allocations[d]) \in Nat
      BY <2>2, DiskFacts, RoundingIsClose
    <3>2. allocations' \in [Disks -> Nat]
      BY <2>1, <3>1
    <3> QED
      BY <2>1, <3>2 DEF TypeOK
  <2>4. EnvelopesRespected'
    <3> SUFFICES ASSUME NEW d \in Disks
                 PROVE  /\ OnGrid(disk[d].min) => allocations'[d] >= disk[d].min
                        /\ OnGrid(disk[d].max) => allocations'[d] <= disk[d].max
                        /\ 2 * allocations'[d] >= 2 * disk[d].min - Grain
                        /\ 2 * allocations'[d] <= 2 * disk[d].max + Grain
      BY <2>1 DEF EnvelopesRespected, OnGrid
    <3>1. disk[d].min * den <= allocations[d] /\ allocations[d] <= disk[d].max * den
      BY <2>1 DEF EnvelopesRespected
    <3>2. allocations'[d] = Rounded(allocations[d])
      BY <2>1
    <3>3. /\ 2 * Rounded(allocations[d]) >= 2 * disk[d].min - Grain
          /\ 2 * Rounded(allocations[d]) <= 2 * disk[d].max + Grain
      BY <2>2, <3>1, DiskFacts, RoundedWithinEnvelope
    <3>4. /\ OnGrid(disk[d].min) => Rounded(allocations[d]) >= disk[d].min
          /\ OnGrid(disk[d].max) => Rounded(allocations[d]) <= disk[d].max
      BY <2>2, <3>1, DiskFacts, RoundedKeepsGridBounds
    <3> QED
      BY <3>2, <3>3, <3>4
  <2>5. BudgetUsedExactly'
    <3> DEFINE due == Smaller(budget, SumFunction([d \in Disks |-> disk[d].max]))
    <3>1. SumFunction(allocations) = due * den /\ SumFunction([d \in Disks |-> disk[d].max]) \in Int
      BY <2>1, DueIsGiven
    <3>2. due \in Int
      BY <3>1 DEF Smaller, TypeOK
    <3>3. due' = due
      BY <2>1
    <3> HIDE DEF due
    <3>4. LET rounded == SumFunction([d \in Disks |-> Rounded(allocations[d])])
              slack == Cardinality(Disks) * Grain
          IN  2 * due - slack <= 2 * rounded /\ 2 * rounded <= 2 * due + slack
      BY <3>1, <3>2, RoundedSum
    <3> QED
      BY <2>1, <3>3, <3>4 DEF BudgetUsedExactly, due
  <2>6. Conserved' /\ LeftOutIsFull' /\ NotOverdrawn' /\ FairSoFar' /\ RoundsPaidFor'
    BY <2>1 DEF Conserved, LeftOutIsFull, NotOverdrawn, FairSoFar, RoundsPaidFor, Before
  <2>7. RoundsBounded'
    BY <2>1 DEF RoundsBounded
  <2> QED
    BY <2>3, <2>4, <2>5, <2>6, <2>7
<1>4. CASE UNCHANGED vars
  <2>1. UNCHANGED <<budget, disk, allocations, remaining, den, eligible, rounds>> /\ step' = step
    BY <1>4 DEF vars
  <2>2. TypeOK'
    BY <2>1 DEF TypeOK
  <2>3. EnvelopesRespected' /\ NotOverdrawn'
    BY <2>1 DEF EnvelopesRespected, NotOverdrawn
  <2>4. Conserved' /\ LeftOutIsFull'
    BY <2>1, SameShares DEF Conserved, LeftOutIsFull
  <2>5. FairSoFar'
    BY <2>1, SameShares DEF FairSoFar, Before, TypeOK
  <2>6. RoundsPaidFor' /\ RoundsBounded'
    BY <2>1, SameShares DEF RoundsPaidFor, RoundsBounded, Before
  <2>7. BudgetUsedExactly'
    BY <2>1 DEF BudgetUsedExactly
  <2> QED
    BY <2>2, <2>3, <2>4, <2>5, <2>6, <2>7
<1> QED
  BY <1>1, <1>2, <1>3, <1>4 DEF Next

\* The invariant holds in every state of the call.
THEOREM InductiveInvariant == Spec => []IInv
<1> QED
  BY InitStep, NextStep, PTL DEF Spec

\* Every variable keeps its type.
THEOREM TypeCorrect == Spec => []TypeOK
<1>1. IInv => TypeOK
  BY DEF IInv
<1> QED
  BY <1>1, InductiveInvariant, PTL

\* Whatever the disks, envelopes and budget, no disk is ever given less than its
\* minimum or more than its maximum, but that the final rounding may miss a bound
\* off its grid by half a step.
THEOREM EnvelopesAlwaysRespected == Spec => []EnvelopesRespected
<1>1. IInv => EnvelopesRespected
  BY DEF IInv
<1> QED
  BY <1>1, InductiveInvariant, PTL

\* Whatever the disks, envelopes and budget, a feasible allocation uses the whole
\* budget or saturates every disk.
THEOREM BudgetAlwaysUsedExactly == Spec => []BudgetUsedExactly
<1>1. IInv => BudgetUsedExactly
  BY DEF IInv
<1> QED
  BY <1>1, InductiveInvariant, PTL

\* Disks that still have room have been given the same per weight, in whatever
\* rounds the others filled up.
THEOREM AlwaysSharesByWeight == Spec => []SharesByWeight
<1>1. IInv => SharesByWeight
  BY DEF IInv, FairSoFar, Before, SharesByWeight
<1> QED
  BY <1>1, InductiveInvariant, PTL

\* The loop takes at most one round per disk.
THEOREM RoundsAlwaysBounded == Spec => []RoundsBounded
<1>1. IInv => RoundsBounded
  BY DEF IInv
<1> QED
  BY <1>1, InductiveInvariant, PTL

=============================================================================
