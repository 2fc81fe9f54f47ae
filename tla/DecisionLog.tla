---------------------------- MODULE DecisionLog -----------------------------
(***************************************************************************)
(* What the private decision journal promises (docs/ARCHITECTURE.md:167):  *)
(* an event is durable before its proposal is emitted, and what is durable *)
(* is never lost, whatever crashes in between.                             *)
(***************************************************************************)

CONSTANT Event

VARIABLES
  recorded,   \* events that survive a power failure
  emitted     \* events whose proposals reached stdout

logVars == <<recorded, emitted>>

LogInit == recorded = {} /\ emitted = {}

\* Events become durable, one or several with one sync.
Record ==
  /\ recorded' \in {recorded \cup new : new \in SUBSET Event}
  /\ UNCHANGED emitted

Emit(e) ==
  /\ e \in recorded
  /\ emitted' = emitted \cup {e}
  /\ UNCHANGED recorded

LogNext == Record \/ \E e \in Event : Emit(e)

LogSpec == LogInit /\ [][LogNext]_logVars

=============================================================================
