------------------------------- MODULE MCAIMD -------------------------------
(***************************************************************************)
(* A small policy for TLC: thresholds 2 < 4 < 6, bounds beside the grid    *)
(* that round inward, and samples on and beside every threshold with every *)
(* flag.                                                                   *)
(***************************************************************************)
EXTENDS AIMD

Sample(w, v, s, e, m) ==
  [wait |-> w, valid |-> v, stale |-> s, emergency |-> e, managed |-> m]

\* Usable samples at each wait that the thresholds tell apart, and unusable
\* ones that look healthy or urgent.
MCFeedbacks ==
  {Sample(w, TRUE, FALSE, FALSE, TRUE) : w \in {1, 2, 4, 5, 6}}
    \cup {Sample(w, TRUE, FALSE, e, FALSE) : w \in {1, 5}, e \in BOOLEAN}
    \cup {Sample(1, TRUE, TRUE, FALSE, TRUE), Sample(6, FALSE, FALSE, TRUE, TRUE)}

=============================================================================
