---------------------------- MODULE MCSafetyGate ----------------------------
(***************************************************************************)
(* Small instances of SafetyGate.  A unit is half a byte per second, so    *)
(* limitEpsilon (1e-6 MiB/s, 1.05 bytes) is 2 units.                       *)
(***************************************************************************)
EXTENDS SafetyGate, TLC

CONSTANTS c1, c2, g1, g2, r1, r2, a1, a2

Ask(limit, expected, resource, approval, expires, ok) ==
  [wellFormed |-> ok, resource |-> resource, limit |-> limit, expected |-> expected,
   approval |-> approval, expires |-> expires]

\* One gate with two callers; the binding is 4..8.
MutexGateOf == [c \in {c1, c2} |-> g1]
MutexEnvelopeOf == [r \in {r1, r2} |-> [min |-> 4, max |-> 8]]
MutexApprovalOf ==
  (a1 :> [resource |-> r1, min |-> 4, max |-> 8, expires |-> 9])
    @@ (a2 :> [resource |-> r2, min |-> 4, max |-> 8, expires |-> 9])

\* A change each way, and one for a resource the actuator is not bound to.
MutexRequests ==
  {Ask(8, 4, r1, a1, 9, TRUE), Ask(4, 8, r1, a1, 9, TRUE), Ask(8, 4, r2, a2, 9, TRUE)}

\* Two gates with a caller each; the binding is 4..12, approval a1 stops at 8
\* and approval a2 ends at time 1.
LeaseGateOf == (c1 :> g1) @@ (c2 :> g2)
LeaseEnvelopeOf == (r1 :> [min |-> 4, max |-> 12])
LeaseApprovalOf ==
  (a1 :> [resource |-> r1, min |-> 4, max |-> 8, expires |-> 9])
    @@ (a2 :> [resource |-> r1, min |-> 4, max |-> 12, expires |-> 1])

\* A lasting change, one that only the tolerance admits under its approval, one
\* beyond that, one that is no whole byte rate, a brief one, one that outlives its
\* approval, and one whose identity fields do not match.
LeaseRequests ==
  {Ask(8, 4, r1, a1, 9, TRUE), Ask(10, 4, r1, a1, 9, TRUE), Ask(12, 4, r1, a1, 9, TRUE),
   Ask(7, 4, r1, a1, 9, TRUE), Ask(4, 8, r1, a2, 1, TRUE), Ask(4, 8, r1, a2, 2, TRUE),
   Ask(8, 4, r1, a1, 9, FALSE)}

=============================================================================
