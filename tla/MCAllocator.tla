---------------------------- MODULE MCAllocator -----------------------------
(***************************************************************************)
(* Three disks and every combination of a few envelopes.  Two units are    *)
(* one rounding step, so odd bounds are off the grid.                      *)
(***************************************************************************)
EXTENDS Allocator

MCEnvelopes ==
  {[min |-> 0, max |-> 2, weight |-> 1], [min |-> 0, max |-> 9, weight |-> 1],
   [min |-> 1, max |-> 5, weight |-> 2], [min |-> 2, max |-> 12, weight |-> 3],
   [min |-> 3, max |-> 3, weight |-> 2], [min |-> 0, max |-> 4, weight |-> 3]}

MCBudgets == 0..20

=============================================================================
