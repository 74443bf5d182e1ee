----------------------------- MODULE PosIntake ------------------------------
(***************************************************************************)
(* POST /pos-intake/sales (api/v1/pos_intake.py): batches of sale          *)
(* envelopes, each with a client_intake_id that makes it idempotent.       *)
(* Clients post what they like as often as they like, requests are lost    *)
(* and copies of a request are open at once.  What the client does with    *)
(* the reply, or without it, is OfflineQueue.                              *)
(*                                                                         *)
(* A request is handled in one step: all of them lock the inv.balance row  *)
(* of their first line before they reach the unique index, so two copies   *)
(* of an envelope run one after the other (LedgerTx has the steps).  The   *)
(* whole request is one transaction, a SAVEPOINT per envelope.             *)
(***************************************************************************)
EXTENDS Integers, Sequences, SequencesExt, FiniteSetsExt

CONSTANTS Sales,        \* client_intake_ids
          Skus,
          Serialized,   \* the SKUs whose tracking is "serialized"
          First,        \* the SKU of an envelope's first line
          Whole,        \* the envelopes with every field PosSaleIntake requires
          Demand,       \* the quantity an envelope sells of each SKU, 0 for none
          Opening,      \* stock of the location
          Batches,      \* the `items` a client may post
          RowSecurity,  \* may the database role be subject to RLS, may it not?
          MaxInFlight,  \* bound: copies of a request open at once, per request
          MaxSupply     \* bound: units received, per SKU

ASSUME SalesAssumption ==
  /\ IsFiniteSet(Sales) /\ Whole \subseteq Sales /\ Serialized \subseteq Skus
  /\ First \in [Sales -> Skus]
  /\ Demand \in [Sales -> [Skus -> Nat]]
  /\ \A s \in Sales : Demand[s][First[s]] > 0
  /\ Opening \in [Skus -> Nat]
  /\ \A b \in Batches : b \in Seq(Sales) /\ b # <<>>
  /\ RowSecurity \subseteq BOOLEAN
  /\ MaxInFlight \in [Batches -> Nat] /\ MaxSupply \in [Skus -> Nat]

VARIABLES onHand,    \* inv.balance.on_hand, committed
          rows,      \* inv.ledger rows with the client_intake_id, committed
          supplied,  \* units received since the start
          inFlight   \* requests sent and not handled yet

vars == <<onHand, rows, supplied, inFlight>>

TypeOK ==
  /\ onHand \in [Skus -> Nat]
  /\ rows \in [Sales -> Nat]
  /\ supplied \in [Skus -> Nat]
  /\ inFlight \in [Batches -> Nat]
  /\ \A b \in Batches : inFlight[b] <= MaxInFlight[b]

Init ==
  /\ onHand = Opening
  /\ rows = [s \in Sales |-> 0]
  /\ supplied = [k \in Skus |-> 0]
  /\ inFlight = [b \in Batches |-> 0]

-----------------------------------------------------------------------------
(* The loop of post_sales over the envelopes of a batch.  tx is the state  *)
(* of the request: the stock and ledger rows it sees, the results so far,  *)
(* the HTTP status it ends with ("200" while all is well) and whether      *)
(* app.current_tenant is still set.                                        *)

Start == [onHand |-> onHand, rows |-> rows, results |-> {}, code |-> "200",
          tenant |-> TRUE]

Result(tx, s, status) == tx.results \cup {[sale |-> s, status |-> status]}

\* post_movement for every line, in the envelope's savepoint.
Accept(tx, s) ==
  [tx EXCEPT !.onHand = [k \in Skus |-> @[k] - Demand[s][k]],
             !.rows[s] = @ + 1,
             !.results = Result(tx, s, "accepted")]

\* IntegrityError: sess.rollback() takes back the whole transaction, the
\* envelopes accepted before and the tenant setting included, and the loop goes
\* on; for a single envelope the raise that follows is a TypeError
\* (IdempotencyConflict takes no keyword).
Duplicate(tx, s, alone, rls) ==
  [tx EXCEPT !.onHand = onHand,
             !.rows = rows,
             !.results = Result(tx, s, "already_processed"),
             !.code = IF alone THEN "500" ELSE @,
             !.tenant = ~rls]

\* assert_can_sell on a line finds enough.
Covered(tx, s, k) == tx.onHand[k] >= Demand[s][k]
Sold(s) == {k \in Skus : Demand[s][k] > 0}

Fail(tx, code) == [tx EXCEPT !.code = code]

\* Mutants: no unique index; every exception is taken for a duplicate; the
\* stock is not looked at.
Envelope_NoIndex(tx, s, alone, rls) ==
  CASE tx.code # "200" -> tx
    [] ~tx.tenant -> Fail(tx, "400")
    [] Sold(s) \cap Serialized # {} -> Fail(tx, "409")
    [] \E k \in Sold(s) : ~Covered(tx, s, k) -> Fail(tx, "409")
    [] OTHER -> Accept(tx, s)

Envelope_AnyError(tx, s, alone, rls) ==
  CASE tx.code # "200" -> tx
    [] ~tx.tenant -> Fail(tx, "400")
    [] Sold(s) \cap Serialized # {} -> Fail(tx, "409")
    [] tx.rows[s] > 0 \/ \E k \in Sold(s) : ~Covered(tx, s, k) -> Duplicate(tx, s, alone, rls)
    [] OTHER -> Accept(tx, s)

Envelope_NoGuard(tx, s, alone, rls) ==
  CASE tx.code # "200" -> tx
    [] ~tx.tenant -> Fail(tx, "400")
    [] Sold(s) \cap Serialized # {} -> Fail(tx, "409")
    [] tx.rows[s] > 0 -> Duplicate(tx, s, alone, rls)
    [] OTHER -> Accept(tx, s)

\* One envelope: _is_serialized on every line, then line by line the guard and
\* the movement.  The first line carries the key, so its guard comes before the
\* index and the guards of the other lines after it.
Envelope(tx, s, alone, rls) ==
  CASE tx.code # "200" -> tx
    [] ~tx.tenant -> Fail(tx, "400")
    [] Sold(s) \cap Serialized # {} -> Fail(tx, "409")
    [] ~Covered(tx, s, First[s]) -> Fail(tx, "409")
    [] tx.rows[s] > 0 -> Duplicate(tx, s, alone, rls)
    [] \E k \in Sold(s) : ~Covered(tx, s, k) -> Fail(tx, "409")
    [] OTHER -> Accept(tx, s)

\* A body that PosSaleIntake does not accept never reaches the handler.
Outcome(b, rls) ==
  IF Range(b) \subseteq Whole
  THEN FoldLeft(LAMBDA tx, s : Envelope(tx, s, Len(b) = 1, rls), Start, b)
  ELSE Fail(Start, "422")

\* What the reply says: the results, or for every envelope the error.
Reply(b, tx) ==
  IF tx.code = "200" THEN tx.results
  ELSE {[sale |-> s, status |-> tx.code] : s \in Range(b)}

-----------------------------------------------------------------------------
\* A client posts a batch, for the first time or again.
Post(b) ==
  /\ inFlight[b] < MaxInFlight[b]
  /\ inFlight' = [inFlight EXCEPT ![b] = @ + 1]
  /\ UNCHANGED <<onHand, rows, supplied>>

\* Mutant: get_session does not commit.
PostSales_NotCommitted(b, rls) ==
  /\ inFlight[b] > 0
  /\ inFlight' = [inFlight EXCEPT ![b] = @ - 1]
  /\ UNCHANGED <<onHand, rows, supplied>>

\* post_sales and get_session: committed when the handler returns, rolled back
\* when it raises.  The client is sent Reply(b, Outcome(b, rls)).
PostSales(b, rls) ==
  LET tx == Outcome(b, rls) IN
  /\ inFlight[b] > 0
  /\ inFlight' = [inFlight EXCEPT ![b] = @ - 1]
  /\ onHand' = IF tx.code = "200" THEN tx.onHand ELSE onHand
  /\ rows' = IF tx.code = "200" THEN tx.rows ELSE rows
  /\ UNCHANGED supplied

\* The request is lost, or the process dies before the commit.
Lose(b) ==
  /\ inFlight[b] > 0
  /\ inFlight' = [inFlight EXCEPT ![b] = @ - 1]
  /\ UNCHANGED <<onHand, rows, supplied>>

\* A receipt, a return or a transfer brings a unit.
Supply(k) ==
  /\ supplied[k] < MaxSupply[k]
  /\ supplied' = [supplied EXCEPT ![k] = @ + 1]
  /\ onHand' = [onHand EXCEPT ![k] = @ + 1]
  /\ UNCHANGED <<rows, inFlight>>

Next ==
  \/ \E b \in Batches : Post(b)
  \/ \E b \in Batches, rls \in RowSecurity : PostSales(b, rls)
  \/ \E b \in Batches : Lose(b)
  \/ \E k \in Skus : Supply(k)

Spec == Init /\ [][Next]_vars

-----------------------------------------------------------------------------
(* Properties. *)

\* However often an envelope is resent, alone or in batches, its stock leaves
\* once: the balance is short of exactly the sales on the ledger.
EachSaleOnce ==
  /\ \A s \in Sales : rows[s] <= 1
  /\ \A k \in Skus :
       onHand[k] = Opening[k] + supplied[k]
                   - SumFunction([s \in Sales |-> rows[s] * Demand[s][k]])

\* The sales of S that clients are told of with a status are on the ledger, for
\* good: a client may forget them.  (rows never shrink, so it is enough to look at
\* the ledger when the reply is sent.)
ToldIsRecorded(b, status, S) ==
  \A rls \in RowSecurity :
    PostSales(b, rls) =>
      \A r \in Reply(b, Outcome(b, rls)) :
        r.status = status /\ r.sale \in S => rows'[r.sale] > 0

\* Every sale answered "accepted" is recorded, in a batch of any length.
AcceptedIsRecorded == [][\A b \in Batches : ToldIsRecorded(b, "accepted", Sales)]_vars

\* A reply that calls no sale "already_processed" tells the truth about those it
\* calls "accepted", whatever the batch and whatever ran before: no refusal of one
\* envelope leaves the others accepted and not recorded.
AcceptedUnlessDuplicates ==
  [][\A b \in Batches, rls \in RowSecurity :
       LET reply == Reply(b, Outcome(b, rls)) IN
       PostSales(b, rls) /\ (\A r \in reply : r.status # "already_processed") =>
         \A r \in reply : r.status = "accepted" => rows'[r.sale] > 0]_vars

\* The sales a batch lists more than once.
Repeated(b) == {s \in Range(b) : \E i, j \in DOMAIN b : i # j /\ b[i] = s /\ b[j] = s}

\* "already_processed" is safe to take for success, in a batch of any length, for a
\* sale that the batch lists once.  (A second copy in the same batch runs into the
\* first, and the rollback takes both back.)
ProcessedIsRecorded ==
  [][\A b \in Batches : ToldIsRecorded(b, "already_processed", Sales \ Repeated(b))]_vars
=============================================================================
