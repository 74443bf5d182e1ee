--------------------------- MODULE MCOfflineQueue ----------------------------
(* Three sales: a, a pen; b, a pen and a cap, of which there is none before  *)
(* one is delivered; and c, a pen, that comes from submitSale and has no     *)
(* register_id, so that it is refused.  Another client posts a and b in one  *)
(* batch that lists a twice: fresh, after a or b alone, or after both.       *)
EXTENDS OfflineQueue, TLC

CONSTANTS a, b, c

MCFirst == [s \in Sales |-> "pen"]
MCDemand == a :> [pen |-> 1, cap |-> 0]
         @@ b :> [pen |-> 1, cap |-> 1]
         @@ c :> [pen |-> 1, cap |-> 0]
MCOpening == [pen |-> 3, cap |-> 0]
MCMaxSupply == [pen |-> 0, cap |-> 1]
MCKey == a :> 1 @@ b :> 2 @@ c :> 3
MCOthers == {<<a, b, a>>}
MCBatches == {<<s>> : s \in Sales} \cup MCOthers
MCMaxInFlight == [q \in MCBatches |-> IF q = <<a>> THEN 2 ELSE 1]

\* The instance in which the page is loaded again: b and c, alone, and stock for both.
MCOpeningBoth == [pen |-> 3, cap |-> 1]
MCNoSupply == [pen |-> 0, cap |-> 0]
MCDemandOf == Restrict(MCDemand, Sales)
MCKeyOf == Restrict(MCKey, Sales)
MCSingles == {<<s>> : s \in Sales}
MCTwoInFlight == [q \in MCSingles |-> 2]
=============================================================================
