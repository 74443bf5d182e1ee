---------------------------- MODULE MCPosIntake -----------------------------
(* Three sales of a location: a sells two units of pen, b a pen and a cap,  *)
(* c a serialized phone and a pen.                                          *)
EXTENDS PosIntake, TLC

CONSTANTS a, b, c

MCSkus == {"pen", "cap", "phone"}
MCFirst == a :> "pen" @@ b :> "pen" @@ c :> "pen"
MCDemand == a :> [pen |-> 2, cap |-> 0, phone |-> 0]
         @@ b :> [pen |-> 1, cap |-> 1, phone |-> 0]
         @@ c :> [pen |-> 1, cap |-> 0, phone |-> 1]
MCOpening == [pen |-> 3, cap |-> 0, phone |-> 0]
MCMaxSupply == [pen |-> 1, cap |-> 1, phone |-> 0]
MCBatches == {<<a>>, <<b>>, <<c>>, <<a, b>>}
MCMaxInFlight == [q \in MCBatches |-> 2]
=============================================================================
