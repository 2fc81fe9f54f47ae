------------------------------- MODULE MCPool -------------------------------
(***************************************************************************)
(* Small pools for TLC, as run_poc's three: less capacity with a steeper    *)
(* wait, and more; and one whose wait no overload raises.  Seconds are      *)
(* idle, busy with the pool to themselves, busy beside backgrounds the      *)
(* minimum budget can and cannot live with, and of an incident captured     *)
(* mild and captured severe.                                                *)
(***************************************************************************)
EXTENDS Pool

Ordinary(d, b) == [demand |-> d, background |-> b, incident |-> FALSE, captured |-> 0]
Captured(b, c) == [demand |-> IncidentDemand, background |-> b, incident |-> TRUE,
                   captured |-> c]

MCModels ==
  {[base |-> 1, safe |-> 5, slope |-> 1], [base |-> 1, safe |-> 4, slope |-> 3],
   [base |-> 0, safe |-> 14, slope |-> 2], [base |-> 2, safe |-> 5, slope |-> 0]}

MCSamples ==
  {Ordinary(0, 0), Ordinary(10, 0), Ordinary(10, 3), Ordinary(10, 6), Ordinary(0, 9)}
    \cup {Captured(3, 5), Captured(3, 17), Captured(0, 0)}

ASSUME InstanceAssumption == EveryDecreaseLowers

=============================================================================
