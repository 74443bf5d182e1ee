----------------------------- MODULE MCCustomers -----------------------------
(* Two profiles with a return each, and an id for a third to be created.    *)
EXTENDS Customers, TLC

CONSTANTS ann, bob, cy, r1, r2, x1, x2

MCSeeded == ann :> [contact |-> "e1", tax |-> None] @@ bob :> [contact |-> "e2", tax |-> None]
MCBought == x1 :> ann @@ x2 :> bob
Symmetry == Permutations(Requests)
=============================================================================
