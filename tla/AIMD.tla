-------------------------------- MODULE AIMD --------------------------------
(***************************************************************************)
(* The bounded AIMD controller of one storage domain                       *)
(* (internal/policy/aimd.go): one action per branch of Observe, the        *)
(* clamp/round/cooldown step decide shared by all of them, and the durable *)
(* State its owner may persist, lose in a crash and hand to                *)
(* RestoreController.                                                      *)
(*                                                                         *)
(* Budgets are integers in a unit of the model's choice; Grain units are   *)
(* one millionth of a MiB/s, the grid decide rounds to.  LastChangeAt is   *)
(* kept as its age, saturated at the cooldown: decide only asks whether    *)
(* the cooldown has elapsed, and a zero LastChangeAt counts as elapsed.    *)
(***************************************************************************)
EXTENDS Integers

CONSTANTS
  MinBudget, InitialBudget, MaxBudget,     \* bounds of the storage domain
  Increase,                                \* additive step
  DecNum, DecDen,                          \* multiplicative factor DecNum/DecDen
  HealthyWait, TargetWait, EmergencyWait,  \* wait thresholds
  HealthyWindows, BreachWindows,           \* consecutive samples that trigger
  Cooldown,                                \* ticks between ordinary changes
  Grain,                                   \* units per rounding step
  Feedbacks                                \* the samples the feed may deliver

\* A sample as the policy sees it: a wait that is valid only when the flag
\* says so and the number is finite and non-negative.
Feedback == [wait : Nat, valid : BOOLEAN, stale : BOOLEAN,
             emergency : BOOLEAN, managed : BOOLEAN]

\* PoolPolicy.Validate accepts the policy.
ASSUME PolicyAssumption ==
  /\ MinBudget \in Nat \ {0} /\ InitialBudget \in Nat /\ MaxBudget \in Nat
  /\ MinBudget <= InitialBudget /\ InitialBudget <= MaxBudget
  /\ HealthyWait \in Nat /\ TargetWait \in Nat /\ EmergencyWait \in Nat
  /\ HealthyWait < TargetWait /\ TargetWait < EmergencyWait
  /\ Increase \in Nat \ {0}
  /\ DecNum \in Nat \ {0} /\ DecDen \in Nat \ {0} /\ DecNum < DecDen
  /\ HealthyWindows \in Nat \ {0} /\ BreachWindows \in Nat \ {0}
  /\ Cooldown \in Nat

\* The model's own units: a rounding grid, and samples of the right shape.
ASSUME ModelAssumption ==
  /\ Grain \in Nat \ {0}
  /\ Feedbacks \subseteq Feedback

VARIABLES
  running,        \* the process that holds the controller is up
  state,          \* the controller's State
  saved,          \* the copy of State() its owner last persisted
  sample,         \* the last feedback observed
  verdict,        \* reason and changed flag of the last Decision
  \* History, read by no action's guard:
  streak,         \* consecutive calm and breaching samples, independent counters
  savedStreak,    \* the same when the copy was persisted
  quiet,          \* ticks since the last change of the budget that led to it
  savedQuiet      \* the same for the persisted copy

vars == <<running, state, saved, sample, verdict, streak, savedStreak, quiet, savedQuiet>>
history == <<streak, savedStreak, quiet, savedQuiet>>

Smaller(a, b) == IF a <= b THEN a ELSE b
Larger(a, b) == IF a <= b THEN b ELSE a

\* A desired budget is passed to decide as a numerator over DecDen, so that the
\* product with the multiplicative factor stays exact until it is rounded.
Exactly(b) == b * DecDen

\* Mutant: the desired budget is bounded from below only.
Clamped_NoMaximum(n) == Larger(Exactly(MinBudget), n)

Clamped(n) == Smaller(Exactly(MaxBudget), Larger(Exactly(MinBudget), n))

\* Half away from zero to a multiple of Grain, as math.Round on a positive value.
Rounded(n) == ((2 * n + DecDen * Grain) \div (2 * DecDen * Grain)) * Grain

\* decide rounds after it clamps: the least and the greatest budget it settles on.
Lowest == Rounded(Exactly(MinBudget))
Highest == Rounded(Exactly(MaxBudget))

\* A controller holds its initial budget, unrounded, until the first change.
Budgets == {InitialBudget} \cup Lowest..Highest

State == [budget : Budgets, healthy : 0..HealthyWindows, breaches : 0..BreachWindows,
          age : 0..Cooldown]
Streak == [calm : 0..HealthyWindows, breaching : 0..BreachWindows]
Reasons == {"none", "stale_or_invalid_hold", "emergency", "management_plane_decrease",
            "multiplicative_decrease", "breach_pending", "additive_increase",
            "healthy_pending", "hysteresis_hold", "cooldown_hold"}

\* What NewController returns; also what a start without a persisted copy uses.
FreshState == [budget |-> InitialBudget, healthy |-> 0, breaches |-> 0, age |-> Cooldown]
NoStreak == [calm |-> 0, breaching |-> 0]

-----------------------------------------------------------------------------
(* Classification of a sample, in the order of Observe's early returns.    *)

Unusable(f) == f.stale \/ ~f.valid
Emergency(f) == ~Unusable(f) /\ (f.emergency \/ f.wait >= EmergencyWait)
Unmanaged(f) == ~Unusable(f) /\ ~Emergency(f) /\ ~f.managed
Ordinary(f) == ~Unusable(f) /\ ~Emergency(f) /\ f.managed
Breaching(f) == Ordinary(f) /\ f.wait > TargetWait
Calm(f) == Ordinary(f) /\ f.wait < HealthyWait
Between(f) == Ordinary(f) /\ HealthyWait <= f.wait /\ f.wait <= TargetWait

-----------------------------------------------------------------------------
(* decide: clamp, round to the grid, apply unless the cooldown forbids it. *)

CooldownElapsed(s) == s.age >= Cooldown

WithCounters(s, healthy, breaches) ==
  [s EXCEPT !.healthy = healthy, !.breaches = breaches]

ResetCounters(s) == WithCounters(s, 0, 0)

\* Mutant: a decision held back by the cooldown restarts the cooldown.
Decide_HeldRestartsCooldown(s, n, reason, bypass) ==
  LET desired == Rounded(Clamped(n))
      differs == desired # s.budget
      changed == differs /\ (bypass \/ CooldownElapsed(s))
  IN  /\ state' = [s EXCEPT !.budget = IF changed THEN desired ELSE @,
                            !.age = IF differs THEN 0 ELSE @]
      /\ verdict' = [reason |-> IF differs /\ ~changed THEN "cooldown_hold" ELSE reason,
                     changed |-> changed]
      /\ quiet' = IF changed THEN 0 ELSE quiet

Decide(s, n, reason, bypass) ==
  LET desired == Rounded(Clamped(n))
      differs == desired # s.budget
      changed == differs /\ (bypass \/ CooldownElapsed(s))
  IN  /\ state' = IF changed THEN [s EXCEPT !.budget = desired, !.age = 0] ELSE s
      /\ verdict' = [reason |-> IF differs /\ ~changed THEN "cooldown_hold" ELSE reason,
                     changed |-> changed]
      /\ quiet' = IF changed THEN 0 ELSE quiet

Hold(s, reason) == Decide(s, Exactly(s.budget), reason, FALSE)

-----------------------------------------------------------------------------
(* Observe, one action per branch.                                         *)

\* The independent count of consecutive samples that the properties refer to.
StreakAfter(f) ==
  [calm |-> IF Calm(f) THEN Smaller(HealthyWindows, streak.calm + 1) ELSE 0,
   breaching |-> IF Breaching(f) THEN Smaller(BreachWindows, streak.breaching + 1) ELSE 0]

Receive(f) ==
  /\ running
  /\ sample' = f
  /\ streak' = StreakAfter(f)
  /\ UNCHANGED <<running, saved, savedStreak, savedQuiet>>

HoldUnusable(f) ==
  /\ Unusable(f)
  /\ Receive(f)
  /\ Hold(ResetCounters(state), "stale_or_invalid_hold")

DropToMinimum(f) ==
  /\ Emergency(f)
  /\ Receive(f)
  /\ Decide(ResetCounters(state), Exactly(MinBudget), "emergency", TRUE)

ManagementDecrease(f) ==
  /\ Unmanaged(f)
  /\ Receive(f)
  /\ Decide(ResetCounters(state), state.budget * DecNum, "management_plane_decrease", TRUE)

\* Mutant: the trigger compares with > instead of >=.
ObserveBreach_OffByOne(f) ==
  LET counted == WithCounters(state, 0, state.breaches + 1)
  IN  /\ Breaching(f)
      /\ Receive(f)
      /\ IF counted.breaches > BreachWindows
           THEN Decide(ResetCounters(counted), state.budget * DecNum,
                       "multiplicative_decrease", FALSE)
           ELSE Hold(counted, "breach_pending")

ObserveBreach(f) ==
  LET counted == WithCounters(state, 0, state.breaches + 1)
  IN  /\ Breaching(f)
      /\ Receive(f)
      /\ IF counted.breaches >= BreachWindows
           THEN Decide(ResetCounters(counted), state.budget * DecNum,
                       "multiplicative_decrease", FALSE)
           ELSE Hold(counted, "breach_pending")

ObserveCalm(f) ==
  LET counted == WithCounters(state, state.healthy + 1, 0)
  IN  /\ Calm(f)
      /\ Receive(f)
      /\ IF counted.healthy >= HealthyWindows
           THEN Decide(ResetCounters(counted), Exactly(state.budget + Increase),
                       "additive_increase", FALSE)
           ELSE Hold(counted, "healthy_pending")

\* Mutant: a sample between the thresholds keeps the counters.
HoldBetween_KeepsCounters(f) ==
  /\ Between(f)
  /\ Receive(f)
  /\ Hold(state, "hysteresis_hold")

HoldBetween(f) ==
  /\ Between(f)
  /\ Receive(f)
  /\ Hold(ResetCounters(state), "hysteresis_hold")

Observe(f) ==
  \/ HoldUnusable(f)
  \/ DropToMinimum(f)
  \/ ManagementDecrease(f)
  \/ ObserveBreach(f)
  \/ ObserveCalm(f)
  \/ HoldBetween(f)

-----------------------------------------------------------------------------
(* Time, persistence and restart.  The copy State() returns is persisted   *)
(* by the controller's owner at a moment of its choosing.                  *)

Older(s) == [s EXCEPT !.age = Smaller(Cooldown, @ + 1)]

\* Time also passes for a persisted LastChangeAt and for a stopped process.
Tick ==
  /\ state' = Older(state)
  /\ saved' = Older(saved)
  /\ quiet' = Smaller(Cooldown, quiet + 1)
  /\ savedQuiet' = Smaller(Cooldown, savedQuiet + 1)
  /\ UNCHANGED <<running, sample, verdict, streak, savedStreak>>

Save ==
  /\ running
  /\ saved' = state
  /\ savedStreak' = streak
  /\ savedQuiet' = quiet
  /\ UNCHANGED <<running, state, sample, verdict, streak, quiet>>

Crash ==
  /\ running
  /\ running' = FALSE
  /\ UNCHANGED <<state, saved, sample, verdict, history>>

\* RestoreController's validation of a durable state.
CountersRestorable(s) ==
  /\ ~(s.healthy > 0 /\ s.breaches > 0)
  /\ s.healthy < HealthyWindows /\ s.breaches < BreachWindows

Restorable(s) ==
  /\ s.budget >= MinBudget /\ s.budget <= MaxBudget
  /\ CountersRestorable(s)

\* Mutant: LastChangeAt does not survive the restart.
Restore_ForgetsCooldown(s) ==
  /\ Restorable(s)
  /\ state' = [s EXCEPT !.age = Cooldown]

Restore(s) ==
  /\ Restorable(s)
  /\ state' = s

\* RestoreController on the persisted copy.  The controller goes on from there:
\* samples and changes that the copy does not hold are lost to it, so the history
\* of the run that led to the copy is what its later decisions answer to.
Restart ==
  /\ ~running
  /\ Restore(saved)
  /\ running' = TRUE
  /\ streak' = savedStreak
  /\ quiet' = savedQuiet
  /\ UNCHANGED <<saved, sample, verdict, savedStreak, savedQuiet>>

-----------------------------------------------------------------------------

Init ==
  /\ running = TRUE
  /\ state = FreshState
  /\ saved = FreshState
  /\ sample \in Feedbacks
  /\ verdict = [reason |-> "none", changed |-> FALSE]
  /\ streak = NoStreak
  /\ savedStreak = NoStreak
  /\ quiet = Cooldown
  /\ savedQuiet = Cooldown

ObserveAny == \E f \in Feedbacks : Observe(f)

Next == ObserveAny \/ Tick \/ Save \/ Crash \/ Restart

Spec == Init /\ [][Next]_vars

\* The feed keeps delivering while the process is up (agent watch samples on a
\* period) and time passes.  Nothing is assumed of Save, Crash and Restart.
FairSpec == Spec /\ WF_vars(ObserveAny) /\ WF_vars(Tick)

-----------------------------------------------------------------------------
(* The inductive invariant behind the safety properties.                   *)

IsOnGrid(b) == \E k \in 0..b : b = k * Grain

\* What keeps decide's rounding inside the bounds RestoreController asks for.
\* Validate does not ask for it; bounds on the grid have it.
BoundsRoundInward == MinBudget <= Lowest /\ Highest <= MaxBudget

\* Every budget but the initial one has been rounded.
Settled(s) == s.budget = InitialBudget \/ IsOnGrid(s.budget)
BudgetsSettled == Settled(state) /\ Settled(saved)

CountersAlwaysRestorable == CountersRestorable(state) /\ CountersRestorable(saved)

\* The code's counters never run ahead of the samples really seen in a row.
CountersBackedBySamples ==
  /\ state.healthy <= streak.calm /\ state.breaches <= streak.breaching
  /\ saved.healthy <= savedStreak.calm /\ saved.breaches <= savedStreak.breaching

\* The code never believes more of the cooldown has passed than really has.
CooldownNotOverstated == state.age <= quiet /\ saved.age <= savedQuiet

-----------------------------------------------------------------------------
(* Properties.                                                             *)

\* Every variable holds a value of its type.  The budget, and the persisted one,
\* is the initial one or lies between the rounded bounds; the counters of the
\* code's State never exceed the windows that trigger a change.
TypeOK ==
  /\ running \in BOOLEAN
  /\ state \in State
  /\ saved \in State
  /\ sample \in Feedback
  /\ verdict \in [reason : Reasons, changed : BOOLEAN]
  /\ streak \in Streak
  /\ savedStreak \in Streak
  /\ quiet \in 0..Cooldown
  /\ savedQuiet \in 0..Cooldown

\* Whatever sequence of samples Observe has seen, the State it leaves (and so
\* any persisted copy) is one RestoreController accepts, when decide's rounding
\* stays within the bounds (BoundsRoundInward): a crash at any moment then never
\* leaves the owner with a copy that refuses to start.
DurableStateRestorable == Restorable(state) /\ Restorable(saved)

\* The inductive strengthening of the two invariants above.
IInv ==
  /\ TypeOK
  /\ CountersAlwaysRestorable
  /\ BudgetsSettled
  /\ CountersBackedBySamples
  /\ CooldownNotOverstated

\* The budget rises only after HealthyWindows consecutive calm samples, the
\* last of them fresh, valid, managed and not an emergency, and never within
\* the cooldown of a change that led to the budget it rises from: one made since
\* the start or, before it, in the run the restored copy was taken from.  (A
\* change after the last copy was taken is undone by a crash, and its cooldown
\* with it: aimd.go:168 measures from the restored LastChangeAt.)
IncreaseIsEarned ==
  [][running /\ running' /\ state'.budget > state.budget =>
       /\ Calm(sample')
       /\ streak'.calm = HealthyWindows
       /\ quiet = Cooldown]_vars

\* The budget falls only on an emergency, and then all the way, on lost
\* management health, or after BreachWindows consecutive breaches with the
\* cooldown elapsed since the last change that led to it.
DecreaseIsEarned ==
  [][running /\ running' /\ state'.budget < state.budget =>
       \/ Emergency(sample') /\ state'.budget = Lowest
       \/ Unmanaged(sample')
       \/ Breaching(sample') /\ streak'.breaching = BreachWindows /\ quiet = Cooldown]_vars

\* aimd.go:121: "Invalid, stale, or management-plane unhealthy input can never
\* increase the budget."
UntrustedInputNeverIncreases ==
  [][running /\ running' /\ (Unusable(sample') \/ Unmanaged(sample'))
       => state'.budget <= state.budget]_vars

Pressured(f) == Emergency(f) \/ Unmanaged(f) \/ Breaching(f)

\* Samples that stay pressured bring the budget to its lowest and keep it
\* there: a trigger that the cooldown holds back is not lost for ever.
OverloadReachesMinimum ==
  <>[](running /\ Pressured(sample)) => <>[](state.budget = Lowest)

\* Samples that stay calm bring the budget back to its highest.
CalmReachesMaximum ==
  <>[](running /\ Calm(sample)) => <>[](state.budget = Highest)

=============================================================================
