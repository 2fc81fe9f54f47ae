-------------------------------- MODULE Pool --------------------------------
(***************************************************************************)
(* The closed loop of the offline simulator (poc/simulate.py with the      *)
(* controllers of poc/storage_control.py): each second the demand is cut   *)
(* to the controller's budget, the pool model answers with a write wait,   *)
(* and the controller hears of it - at once when the wait is an emergency, *)
(* else as the p95 of the control window that ends with the second.        *)
(*                                                                         *)
(* Budgets are integers on the grid the controller rounds to.  Waits are   *)
(* counted in 1/Unit ms, which makes the pool model's quotient exact.      *)
(* The simulator never passes a stale feedback or one without a wait.      *)
(***************************************************************************)
EXTENDS Integers, Sequences, SequencesExt, FiniteSets

CONSTANTS
  MinBudget, InitialBudget, MaxBudget,         \* PoolPolicy
  Increase, DecNum, DecDen,                    \* additive step, factor DecNum/DecDen
  HealthyWait, TargetWait, EmergencyWait,
  HealthyWindows, BreachWindows, Cooldown,
  Interval,                                    \* control_interval_seconds
  FixedBudget, PressureBudget,                 \* the other two controllers
  Models,                                      \* PoolModels: base wait, safe capacity, slope
  IncidentDemand, IncidentBackground,          \* the largest override sample
  Samples                                      \* the seconds a trace may hold

ASSUME PoolAssumption ==
  /\ {MinBudget, InitialBudget, MaxBudget, Increase, DecNum, DecDen,
      HealthyWait, TargetWait, EmergencyWait, HealthyWindows, BreachWindows, Cooldown,
      Interval, FixedBudget, IncidentDemand, IncidentBackground} \subseteq Nat
  /\ 0 < MinBudget /\ MinBudget <= InitialBudget /\ InitialBudget <= MaxBudget
  /\ 0 <= HealthyWait /\ HealthyWait < TargetWait /\ TargetWait < EmergencyWait
  /\ 0 < Increase /\ 0 < DecNum /\ DecNum < DecDen
  /\ HealthyWindows >= 1 /\ BreachWindows >= 1 /\ Cooldown >= 0 /\ Interval >= 1
  /\ FixedBudget > 0 /\ PressureBudget \in MinBudget..MaxBudget
  /\ Models \subseteq [base : 0..HealthyWait, safe : Nat, slope : Nat]
  /\ Samples \subseteq [demand : Nat, background : Nat, incident : BOOLEAN, captured : Nat]
  /\ \A s \in Samples : s.incident =>
       s.demand = IncidentDemand /\ s.background <= IncidentBackground

VARIABLES
  strategy, model, \* which controller runs, against which pool
  budget, healthy, breaches,   \* ControllerState
  age,             \* seconds since the last change, saturated at Cooldown
  second,          \* at_seconds modulo Interval
  window,          \* waits since the last feedback or interval
  sample, wait,    \* the last second and its wait
  severeRun,       \* history: severe seconds in a row that MinBudget would avoid
  unsafeRun,       \* history: the same of unsafe seconds, saturated
  sinceSevere      \* history: seconds since the last severe one, saturated

controller == <<budget, healthy, breaches, age>>
vars == <<strategy, model, controller, second, window, sample, wait,
          severeRun, unsafeRun, sinceSevere>>

Smaller(a, b) == IF a <= b THEN a ELSE b
Larger(a, b) == IF a <= b THEN b ELSE a

-----------------------------------------------------------------------------
(* The pool model.                                                         *)

Overload(total) == Larger(0, total - model.safe)

\* As a mutant: the background is left out of the incident's total.
IncidentOverloadOfDemand == Overload(IncidentDemand)

IncidentOverload == Overload(IncidentDemand + IncidentBackground)

Unit == Larger(1, IncidentOverload)

\* The full incident has a cost on this pool, so that the captured wait scales it.
IncidentCosts == IncidentOverload > 0 /\ model.slope > 0

\* Base wait plus the cost of the overload.  In an incident that has a cost the
\* overload's is scaled by what the captured wait was to it: the slope cancels.
WaitOf(s, admitted) ==
  LET overload == Overload(admitted + s.background)
  IN IF s.incident /\ IncidentCosts
     THEN model.base * Unit + overload * Larger(0, s.captured - model.base)
     ELSE (model.base + overload * model.slope) * Unit

Admitted(s) == Smaller(s.demand, budget)

-----------------------------------------------------------------------------
(* The controllers.                                                        *)

\* As a mutant: a change that the cooldown forbids restarts the cooldown.
ApplyHeldRestarts(desired, bypass) ==
  LET changed == desired # budget /\ (bypass \/ age >= Cooldown)
  IN /\ budget' = IF changed THEN desired ELSE budget
     /\ age' = Smaller(Cooldown, IF desired # budget THEN 1 ELSE age + 1)

\* A different budget is set when the cooldown has elapsed or is bypassed.
Apply(desired, bypass) ==
  LET changed == desired # budget /\ (bypass \/ age >= Cooldown)
  IN /\ budget' = IF changed THEN desired ELSE budget
     /\ age' = Smaller(Cooldown, IF changed THEN 1 ELSE age + 1)

Hold == budget' = budget /\ age' = Smaller(Cooldown, age + 1)

\* round(n / DecDen) of a numerator, ties to the even neighbour.
RoundHalfEven(n) ==
  LET q == n \div DecDen
      twice == 2 * (n % DecDen)
  IN IF twice > DecDen \/ (twice = DecDen /\ q % 2 = 1) THEN q + 1 ELSE q

\* As a mutant: the upper bound is not enforced.
DesiredUnbounded(n) == RoundHalfEven(Larger(MinBudget * DecDen, n))

Desired(n) == RoundHalfEven(Smaller(MaxBudget * DecDen, Larger(MinBudget * DecDen, n)))

Counters(h, b) == healthy' = h /\ breaches' = b

\* As a mutant: an emergency keeps the count of healthy windows.
EmergencyKeepsHealthy ==
  \/ strategy = "fixed" /\ Hold /\ UNCHANGED <<healthy, breaches>>
  \/ strategy = "step" /\ Apply(MinBudget, TRUE) /\ UNCHANGED <<healthy, breaches>>
  \/ strategy = "aimd" /\ Apply(Desired(MinBudget * DecDen), TRUE) /\ Counters(healthy, 0)

\* observe of a feedback with the emergency flag.
ObserveEmergency ==
  \/ strategy = "fixed" /\ Hold /\ UNCHANGED <<healthy, breaches>>
  \/ strategy = "step" /\ Apply(MinBudget, TRUE) /\ UNCHANGED <<healthy, breaches>>
  \/ strategy = "aimd" /\ Apply(Desired(MinBudget * DecDen), TRUE) /\ Counters(0, 0)

\* StepController.observe: the budget by the wait alone.
StepObserve(above, below) ==
  /\ \/ above /\ Apply(PressureBudget, FALSE)
     \/ below /\ Apply(MaxBudget, FALSE)
     \/ ~above /\ ~below /\ Hold
  /\ UNCHANGED <<healthy, breaches>>

\* AimdController.observe: consecutive windows are counted, the last of them
\* sets the count back and asks for the change.
AimdObserve(above, below) ==
  \/ /\ above
     /\ IF breaches + 1 >= BreachWindows
        THEN Counters(0, 0) /\ Apply(Desired(budget * DecNum), FALSE)
        ELSE Counters(0, breaches + 1) /\ Hold
  \/ /\ below
     /\ IF healthy + 1 >= HealthyWindows
        THEN Counters(0, 0) /\ Apply(Desired((budget + Increase) * DecDen), FALSE)
        ELSE Counters(healthy + 1, 0) /\ Hold
  \/ ~above /\ ~below /\ Counters(0, 0) /\ Hold

\* The k-th of the sorted values: the least that k of them do not exceed.
Ranked(values, k) ==
  Min({v \in Range(values) : Cardinality({i \in 1..Len(values) : values[i] <= v}) >= k})

\* statistics.quantiles(values, n=100, method="inclusive")[94], times 100;
\* the one value of a window that holds no other.
P95(values) ==
  LET place == 95 * (Len(values) - 1)
      j == place \div 100
      delta == place % 100
  IN IF Len(values) = 1 THEN 100 * values[1]
     ELSE Ranked(values, j + 1) * (100 - delta) + Ranked(values, j + 2) * delta

\* A p95 never reaches EmergencyWait here: no wait in the window does.
ObserveWindow(values) ==
  LET above == P95(values) > 100 * TargetWait * Unit
      below == P95(values) < 100 * HealthyWait * Unit
  IN \/ strategy = "fixed" /\ Hold /\ UNCHANGED <<healthy, breaches>>
     \/ strategy = "step" /\ StepObserve(above, below)
     \/ strategy = "aimd" /\ AimdObserve(above, below)

-----------------------------------------------------------------------------
(* simulate_strategy: one action per way a second may end.                 *)

Severe(w) == w >= EmergencyWait * Unit
Unsafe(w) == w > TargetWait * Unit

\* Background on its own, with what the minimum budget admits, is within capacity.
Avoidable(s) == MinBudget + s.background <= model.safe

Horizon == (HealthyWindows - 1) * Interval + 1

\* How many decreases take the largest budget to the smallest, if each lowers it.
Decreases[b \in MinBudget..MaxBudget] ==
  IF Desired(b * DecNum) >= b THEN 0 ELSE 1 + Decreases[Desired(b * DecNum)]

\* Seconds to one decrease that happens: full breach windows, until the
\* cooldown has elapsed at the end of a series of them.
ToOneDecrease ==
  LET series == BreachWindows * Interval
  IN Larger(1, (Cooldown + series - 1) \div series) * series

\* Rounding hides no decrease above the minimum.  Only what is proved of
\* UnsafeBound needs it; the policy's validation does not ask for it.
EveryDecreaseLowers == \A b \in (MinBudget + 1)..MaxBudget : Desired(b * DecNum) < b

UnsafeBound == (Interval - 1) + Decreases[MaxBudget] * ToOneDecrease

\* The budget in force cuts the demand, and the second passes.
Simulate(s, w) ==
  /\ sample' = s /\ wait' = w
  /\ second' = (second + 1) % Interval
  /\ severeRun' = IF Severe(w) /\ Avoidable(s) THEN Smaller(2, severeRun + 1) ELSE 0
  /\ unsafeRun' = IF Unsafe(w) /\ Avoidable(s) THEN Smaller(UnsafeBound + 1, unsafeRun + 1) ELSE 0
  /\ sinceSevere' = IF Severe(w) THEN 0 ELSE Smaller(Horizon, sinceSevere + 1)
  /\ UNCHANGED <<strategy, model>>

SevereSecond(s) ==
  LET w == WaitOf(s, Admitted(s))
  IN /\ Severe(w)
     /\ Simulate(s, w)
     /\ ObserveEmergency
     /\ window' = <<>>

LastSecond(s) ==
  LET w == WaitOf(s, Admitted(s))
  IN /\ ~Severe(w) /\ (second + 1) % Interval = 0
     /\ Simulate(s, w)
     /\ ObserveWindow(Append(window, w))
     /\ window' = <<>>

OtherSecond(s) ==
  LET w == WaitOf(s, Admitted(s))
  IN /\ ~Severe(w) /\ (second + 1) % Interval # 0
     /\ Simulate(s, w)
     /\ Hold /\ UNCHANGED <<healthy, breaches>>
     /\ window' = Append(window, w)

FirstBudget == IF strategy = "fixed" THEN FixedBudget ELSE InitialBudget

Init ==
  /\ strategy \in {"fixed", "step", "aimd"} /\ model \in Models
  /\ budget = FirstBudget
  /\ healthy = 0 /\ breaches = 0 /\ age = Cooldown
  /\ second = 0 /\ window = <<>>
  /\ sample \in Samples /\ wait = 0
  /\ severeRun = 0 /\ unsafeRun = 0 /\ sinceSevere = Horizon

Next == \E s \in Samples : SevereSecond(s) \/ LastSecond(s) \/ OtherSecond(s)

Spec == Init /\ [][Next]_vars

-----------------------------------------------------------------------------
(* Properties.                                                             *)

\* Every variable holds a value of its type, the budget within the policy.
TypeOK ==
  /\ strategy \in {"fixed", "step", "aimd"} /\ model \in Models
  /\ budget \in (IF strategy = "fixed" THEN {FixedBudget} ELSE MinBudget..MaxBudget)
  /\ healthy \in 0..(HealthyWindows - 1) /\ breaches \in 0..(BreachWindows - 1)
  /\ healthy = 0 \/ breaches = 0
  /\ age \in 0..Cooldown /\ second \in 0..(Interval - 1)
  /\ Len(window) <= second /\ \A i \in 1..Len(window) : ~Severe(window[i])
  /\ sample \in Samples /\ wait \in Nat
  /\ severeRun \in 0..2 /\ unsafeRun \in 0..(UnsafeBound + 1) /\ sinceSevere \in 0..Horizon

\* The AIMD budget rises only when as much time as its healthy windows take has
\* passed since the last severe second - the first of them may be cut short to
\* a second by it - although an emergency at the minimum budget restarts no
\* cooldown and changes nothing but the counters of windows.
RaiseIsEarned ==
  [][strategy = "aimd" /\ budget' > budget => sinceSevere' >= Horizon]_vars

\* Feedback that is late by a window, held by the cooldown, or diluted by the
\* seconds before still gets the pool out of an overload that the minimum budget
\* avoids: an adaptive controller meets no two severe seconds in a row, and AIMD
\* no longer run of unsafe ones than its policy's windows and cooldown explain.
OverloadEnds ==
  /\ strategy \in {"step", "aimd"} => severeRun <= 1
  /\ strategy = "aimd" => unsafeRun <= UnsafeBound

\* Where the incident overloads the pool at a cost, a counterfactual second of
\* it is never worse than the captured wait, or the base wait where that is
\* higher, and is no better than it when all of the incident's demand is
\* admitted on top of its largest background.
NeverWorseThanCaptured ==
  sample.incident /\ IncidentCosts /\ wait > 0 =>
    /\ wait <= Larger(model.base, sample.captured) * Unit
    /\ strategy = "fixed" /\ FixedBudget >= IncidentDemand
         /\ sample.background = IncidentBackground =>
           wait = Larger(model.base, sample.captured) * Unit

=============================================================================
