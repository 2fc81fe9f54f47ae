----------------------------- MODULE Allocator ------------------------------
(***************************************************************************)
(* Allocate (internal/allocator/allocator.go): a storage domain's budget   *)
(* split over the enrolled disks, one action per round of its loop.        *)
(*                                                                         *)
(* Rates are exact fractions of a unit of the model's choice, written as   *)
(* numerators over the denominator den, which grows with every division.   *)
(* The code's tolerances (1e-9 and 1e-12 MiB/s) stand for "not zero" in    *)
(* floating point and are zero here; Grain units are its rounding grid.    *)
(***************************************************************************)
EXTENDS Integers, FiniteSets, Functions

CONSTANTS
  Disks,       \* resource keys, unique
  Envelopes,   \* the envelopes a disk may be enrolled with
  Budgets,     \* the budgets that may be asked for
  Grain        \* units per rounding step

Envelope == [min : Nat, max : Nat, weight : Nat \ {0}]

\* Allocate's validation of its arguments.
ASSUME AllocatorAssumption ==
  /\ IsFiniteSet(Disks)
  /\ Envelopes \subseteq {e \in Envelope : e.min <= e.max}
  /\ Budgets \subseteq Nat
  /\ Grain \in Nat \ {0}

VARIABLES
  budget, disk,    \* the arguments: a budget and each disk's envelope
  allocations,     \* numerators over den, until they are rounded
  remaining,       \* numerator over den
  den,             \* the common denominator
  eligible,        \* disks that took part in the last round and still have room
  step,            \* where the call is
  rounds           \* history: rounds of the loop so far

vars == <<budget, disk, allocations, remaining, den, eligible, step, rounds>>

Smaller(a, b) == IF a <= b THEN a ELSE b

\* What a disk can still take.
Room(d) == disk[d].max * den - allocations[d]

RequiredMinimum == SumFunction([d \in Disks |-> disk[d].min])

OpenDisks == {d \in eligible : Room(d) > 0}

\* Mutant: the weight is summed once, over all the disks.
TotalWeight_AllDisks == SumFunction([d \in Disks |-> disk[d].weight])

TotalWeight == SumFunction([d \in OpenDisks |-> disk[d].weight])

\* Mutant: the share is not limited by the disk's maximum.
GrantTo_Unclamped(d) ==
  IF d \in OpenDisks THEN remaining * disk[d].weight ELSE 0

\* Mutant: the weights only enter the total.
GrantTo_EqualShares(d) ==
  IF d \in OpenDisks THEN Smaller(remaining, Room(d) * TotalWeight) ELSE 0

\* One disk's grant in this round, over den * TotalWeight.
GrantTo(d) ==
  IF d \in OpenDisks THEN Smaller(remaining * disk[d].weight, Room(d) * TotalWeight) ELSE 0

\* math.Round of n/den to a multiple of Grain.
Rounded(n) == ((2 * n + den * Grain) \div (2 * den * Grain)) * Grain

-----------------------------------------------------------------------------

Init ==
  /\ budget \in Budgets
  /\ disk \in [Disks -> Envelopes]
  /\ allocations = [d \in Disks |-> disk[d].min]
  /\ remaining = budget - RequiredMinimum
  /\ den = 1
  /\ eligible = Disks
  /\ step = "check"
  /\ rounds = 0

\* The minima alone exceed the budget: they are reported as they are.
Infeasible ==
  /\ step = "check"
  /\ remaining < 0
  /\ step' = "infeasible"
  /\ UNCHANGED <<budget, disk, allocations, remaining, den, eligible, rounds>>

Feasible ==
  /\ step = "check"
  /\ remaining >= 0
  /\ step' = "loop"
  /\ UNCHANGED <<budget, disk, allocations, remaining, den, eligible, rounds>>

\* Mutant: no break when every disk is saturated.
CanShare_WithoutRoom == remaining > 0

\* Mutant: what a clamp leaves over is not shared again.
CanShare_Once == remaining > 0 /\ OpenDisks # {} /\ rounds = 0

\* The loop's condition, and the break on no weight to share between.
CanShare == remaining > 0 /\ OpenDisks # {}

Round ==
  /\ step = "loop"
  /\ CanShare
  /\ den' = den * TotalWeight
  /\ allocations' = [d \in Disks |-> allocations[d] * TotalWeight + GrantTo(d)]
  /\ remaining' = remaining * TotalWeight - SumFunction([d \in Disks |-> GrantTo(d)])
  /\ eligible' = {d \in OpenDisks : Room(d) * TotalWeight > GrantTo(d)}
  /\ rounds' = rounds + 1
  /\ UNCHANGED <<budget, disk, step>>

\* The result is rounded disk by disk.
Finish ==
  /\ step = "loop"
  /\ ~CanShare
  /\ allocations' = [d \in Disks |-> Rounded(allocations[d])]
  /\ step' = "feasible"
  /\ UNCHANGED <<budget, disk, remaining, den, eligible, rounds>>

Next == Infeasible \/ Feasible \/ Round \/ Finish

Spec == Init /\ [][Next]_vars

-----------------------------------------------------------------------------
(* Properties.                                                             *)

\* Every variable holds a value of its type.
TypeOK ==
  /\ budget \in Nat
  /\ disk \in [Disks -> Envelope]
  /\ allocations \in [Disks -> Nat]
  /\ remaining \in Int
  /\ den \in Nat \ {0}
  /\ eligible \subseteq Disks
  /\ step \in {"check", "loop", "feasible", "infeasible"}
  /\ rounds \in Nat

OnGrid(rate) == rate % Grain = 0

\* A disk is never given less than its minimum nor more than its maximum, in
\* whatever round the others saturate, and the final rounding keeps every bound
\* that lies on its grid.  A bound off the grid it may miss, by half a step at
\* most: allocator.go:26 ("never exceeds maxima") and POLICY-DESIGN.md:133 do not
\* say so, and a saturated disk whose maximum rounds up does exceed it.
EnvelopesRespected ==
  \A d \in Disks :
    IF step = "feasible"
      THEN /\ OnGrid(disk[d].min) => allocations[d] >= disk[d].min
           /\ OnGrid(disk[d].max) => allocations[d] <= disk[d].max
           /\ 2 * allocations[d] >= 2 * disk[d].min - Grain
           /\ 2 * allocations[d] <= 2 * disk[d].max + Grain
      ELSE disk[d].min * den <= allocations[d] /\ allocations[d] <= disk[d].max * den

\* A feasible allocation uses the whole budget or saturates every disk, and
\* exceeds neither: the total is off by the rounding of each disk at most.
BudgetUsedExactly ==
  step = "feasible" =>
    LET total == SumFunction(allocations)
        due == Smaller(budget, SumFunction([d \in Disks |-> disk[d].max]))
        slack == Cardinality(Disks) * Grain
    IN  2 * due - slack <= 2 * total /\ 2 * total <= 2 * due + slack

\* Weighted fairness across rounds: disks that still have room have all been
\* given the same amount per weight above their minimum, and nobody was given
\* more per weight than they.
Above(d) == allocations[d] - disk[d].min * den

SharesByWeight ==
  step = "loop" =>
    \A d \in eligible : \A e \in Disks :
      /\ Room(d) > 0 => Above(e) * disk[d].weight <= Above(d) * disk[e].weight
      /\ Room(d) > 0 /\ Room(e) > 0 => Above(e) * disk[d].weight = Above(d) * disk[e].weight

\* Every round but the last saturates a disk, so the loop is over after at most
\* one round per disk, whatever the weights.
RoundsBounded == rounds <= Cardinality(Disks)

=============================================================================
