-------------------------- MODULE MCSerialInventory --------------------------
(***************************************************************************)
(* Two units, two stores (one of them restricted to its own stock), two    *)
(* transfers, one vendor RMA, and one unit that is named while it is       *)
(* elsewhere.                                                              *)
(***************************************************************************)
EXTENDS SerialInventory, TLC

CONSTANTS s1, s2, x1, x2

Symmetry == Permutations({s1, s2}) \cup Permutations({x1, x2})
=============================================================================
