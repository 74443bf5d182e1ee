---------------------------- MODULE MCPurchasing ----------------------------
(***************************************************************************)
(* Two orders, two lines, two clerks; a line of 2 with a tolerance of 50%  *)
(* may receive 3, a line of 1 may receive 1 only.                          *)
(***************************************************************************)
EXTENDS Purchasing, TLC

CONSTANTS p1, p2, l1, l2, c1, c2

Symmetry == Permutations({p1, p2}) \cup Permutations({l1, l2}) \cup Permutations({c1, c2})
=============================================================================
