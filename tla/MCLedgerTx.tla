----------------------------- MODULE MCLedgerTx -----------------------------
(***************************************************************************)
(* LedgerTx on one SKU: a shop whose balance row exists, the virtual       *)
(* in-transit location whose row exists too, and a new shop that has never *)
(* held the SKU.  The requests are those of the services: a receipt, a     *)
(* two-line sale, a transfer shipped and one received (which lock the same *)
(* two rows in opposite orders), the first stock of the new shop and a  *)
(* transfer out of it.                                                     *)
(***************************************************************************)
EXTENDS LedgerTx

CONSTANTS t1, t2, t3, none

MCTxns == {t1, t2, t3}
MCKeys == {"shop", "transit", "new"}

In(k, q)  == [key |-> k, delta |-> q, guarded |-> FALSE]
Out(k, q) == [key |-> k, delta |-> -q, guarded |-> FALSE]
Sale(k, q) == [key |-> k, delta |-> -q, guarded |-> TRUE]

MCRequests == { <<In("shop", 1)>>,
                <<Sale("shop", 1), Sale("shop", 1)>>,
                <<Out("shop", 1), In("transit", 1)>>,
                <<Out("transit", 1), In("shop", 1)>>,
                <<In("new", 1)>>,
                <<Sale("new", 1)>>,
                <<Out("new", 1), In("transit", 1)>> }

MCOpening == [k \in {"shop", "transit"} |-> IF k = "shop" THEN 2 ELSE 1]
NoOpening == [k \in {} |-> 0]
=============================================================================
