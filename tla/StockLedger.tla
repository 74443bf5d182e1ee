---------------------------- MODULE StockLedger ----------------------------
(***************************************************************************)
(* What the inventory writer promises its callers (ledger.py docstring,    *)
(* research.md R2): a request is a list of movements, and a request takes  *)
(* effect as a whole, in one step, on the balance projection and on the    *)
(* append-only ledger alike, or not at all.  No locks, no rows, no         *)
(* statements: LedgerTx shows how the code gets there.                     *)
(***************************************************************************)
EXTENDS Integers, Sequences, Functions

CONSTANTS Keys,       \* (sku, location) pairs
          Requests,   \* sequences of movements [key, delta, guarded]
          Opening     \* the stock at the start

VARIABLES onHand,     \* inv.balance.on_hand
          posted      \* SUM(qty_delta) over inv.ledger

vars == <<onHand, posted>>

\* What request req adds to key k over all its movements.
Net(req, k) ==
  SumFunction([i \in DOMAIN req |-> IF req[i].key = k THEN req[i].delta ELSE 0])

Init == /\ onHand = Opening
        /\ posted = Opening

\* Request req takes effect: the whole of it, on both projections, and only
\* if the stock is there.
Post(req) ==
  /\ \A k \in Keys : onHand[k] + Net(req, k) >= 0
  /\ onHand' = [k \in Keys |-> onHand[k] + Net(req, k)]
  /\ posted' = [k \in Keys |-> posted[k] + Net(req, k)]

Next == \E req \in Requests : Post(req)

Spec == Init /\ [][Next]_vars
=============================================================================
