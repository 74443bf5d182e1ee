------------------------------ MODULE MCCounts -------------------------------
(* A balance of one pen, and caps, of which there is no balance row yet.    *)
EXTENDS Counts, TLC

CONSTANTS s1, s2, m1, m2

MCOpening == [pen |-> 1]
Symmetry == Permutations(Sessions) \cup Permutations(Managers)
=============================================================================
