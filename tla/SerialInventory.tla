-------------------------- MODULE SerialInventory --------------------------
(***************************************************************************)
(* The units of one serialized SKU and every document that moves them:     *)
(* receipts, sales, customer returns, transfers and vendor RMAs.  One      *)
(* action per service call, each of them one transaction: the loops over   *)
(* lines and serials run to the end or roll back together (LedgerTx has    *)
(* the interleaving of their statements).                                  *)
(*                                                                         *)
(* The services believe the serial numbers they are given: none of them    *)
(* looks at where a unit is.  What the code cannot see the model adds:     *)
(* holder is where each unit really is, misnamed the units some document   *)
(* has named while they were elsewhere, slips how often that happened.     *)
(* The paper of a slip goes through like any other, the unit stays where   *)
(* it is.                                                                  *)
(***************************************************************************)
EXTENDS Integers, FiniteSets

CONSTANTS Serials,      \* units of the SKU
          Stores,       \* its locations, the in-transit one apart
          Restricted,   \* stores with restrict_to_home_location
          Transfers,    \* ids of transfers that may be created
          Rmas,         \* ids of vendor RMAs that may be created
          UnitCost,     \* purchase order unit cost
          InTransit,    \* the tenant's virtual_in_transit location
          NoLoc,        \* current_location_id IS NULL
          MaxSlips      \* bound: times a document names a unit that is elsewhere

ASSUME SerialsAssumption == IsFiniteSet(Serials)
ASSUME LocationsAssumption ==
  /\ Restricted \subseteq Stores
  /\ InTransit \notin Stores /\ NoLoc \notin Stores \cup {InTransit}
ASSUME CostAssumption == UnitCost \in Nat \ {0}
ASSUME SlipsAssumption == MaxSlips \in Nat

VARIABLES state,    \* inv.serial.state; "unknown" before the row exists
          loc,      \* inv.serial.current_location_id
          cost,     \* inv.serial.unit_cost
          lastIn,   \* location of the serial's last inbound ledger row
          saleRow,  \* does inv.ledger hold a 'sale' row of the serial?
          onHand,   \* inv.balance.on_hand
          xfer,     \* xfr.transfer with its lines and serials
          rma,      \* rma.vendor_rma with its lines
          holder,   \* where the unit really is
          misnamed, \* units named by a document while elsewhere (history)
          slips     \* how often that happened (history)

serialRow == <<state, loc, cost>>
ledger == <<lastIn, saleRow>>
units == <<holder, misnamed, slips>>
vars == <<state, loc, cost, lastIn, saleRow, onHand, xfer, rma, holder, misnamed, slips>>

States == {"received", "sellable", "reserved", "sold", "returned", "rma_pending",
           "rma_closed", "in_transit", "scrapped"}
Locations == Stores \cup {InTransit}
Outside == {"supplier", "customer", "vendor", "scrap"}
ASSUME OutsideAssumption == Locations \cap Outside = {}

\* domain/serials/service.py, the FR-012 lifecycle.
TRANSITIONS ==
  [received    |-> {"sellable", "scrapped"},
   sellable    |-> {"reserved", "sold", "in_transit", "scrapped"},
   reserved    |-> {"sellable", "sold"},
   sold        |-> {"returned"},
   returned    |-> {"sellable", "rma_pending", "scrapped"},
   rma_pending |-> {"rma_closed", "sellable"},
   rma_closed  |-> {},
   in_transit  |-> {"sellable", "scrapped"},
   scrapped    |-> {}]

NoTransfer == [state |-> "none"]
NoRma == [state |-> "none"]
TransferDocs ==
  {NoTransfer} \cup [state : {"draft", "shipped", "received"}, src : Stores,
                     dst : Stores, serials : SUBSET Serials]
RmaDocs ==
  {NoRma} \cup [state : {"open", "shipped", "closed"}, holding : Stores,
                serials : SUBSET Serials, credit : Nat]

TypeOK ==
  /\ state \in [Serials -> States \cup {"unknown"}]
  /\ loc \in [Serials -> Locations \cup {NoLoc}]
  /\ cost \in [Serials -> {0, UnitCost}]
  /\ lastIn \in [Serials -> Locations \cup {NoLoc}]
  /\ saleRow \in [Serials -> BOOLEAN]
  /\ onHand \in [Locations -> Int]
  /\ xfer \in [Transfers -> TransferDocs]
  /\ rma \in [Rmas -> RmaDocs]
  /\ holder \in [Serials -> Locations \cup Outside]
  /\ misnamed \subseteq Serials
  /\ slips \in Nat

Init ==
  /\ state = [s \in Serials |-> "unknown"]
  /\ loc = [s \in Serials |-> NoLoc]
  /\ cost = [s \in Serials |-> 0]
  /\ lastIn = [s \in Serials |-> NoLoc]
  /\ saleRow = [s \in Serials |-> FALSE]
  /\ onHand = [l \in Locations |-> 0]
  /\ xfer = [x \in Transfers |-> NoTransfer]
  /\ rma = [r \in Rmas |-> NoRma]
  /\ holder = [s \in Serials |-> "supplier"]
  /\ misnamed = {}
  /\ slips = 0

-----------------------------------------------------------------------------
Known == {s \in Serials : state[s] # "unknown"}

\* f with the value v at every serial of S.
Set(f, S, v) == [s \in Serials |-> IF s \in S THEN v ELSE f[s]]

\* A document takes the units of S from one place to another: those that are
\* there go, the others have been misnamed.
Hand(S, from, to) ==
  LET astray == {s \in S : holder[s] # from} IN
  /\ holder' = Set(holder, S \ astray, to)
  /\ misnamed' = misnamed \cup astray
  /\ slips' = slips + Cardinality(astray)
  /\ slips' <= MaxSlips

\* post_movement checks only the balance: on_hand never goes below zero.
Available(l, n) == onHand[l] >= n

-----------------------------------------------------------------------------
(* Purchasing: receiving.post_receipt, a line of serialized units. *)

PostReceipt(S, l) ==
  /\ S # {}
  /\ S \cap Known = {}                    \* _ensure_serials_unique
  /\ state' = Set(state, S, "sellable")
  /\ loc' = Set(loc, S, l)
  /\ cost' = Set(cost, S, UnitCost)
  /\ lastIn' = Set(lastIn, S, l)
  /\ onHand' = [onHand EXCEPT ![l] = @ + Cardinality(S)]
  /\ Hand(S, "supplier", l)
  /\ UNCHANGED <<saleRow, xfer, rma>>

-----------------------------------------------------------------------------
(* Point of sale: serials/service.py and serials/sale_guard.py. *)

\* serials.reserve
Reserve(s) ==
  /\ s \in Known
  /\ "reserved" \in TRANSITIONS[state[s]]
  /\ state' = [state EXCEPT ![s] = "reserved"]
  /\ UNCHANGED <<loc, cost, ledger, onHand, xfer, rma, units>>

\* Mutant: sell does not clear current_location_id.
Sell_KeepsLocation(s, l) ==
  /\ s \in Known
  /\ state[s] \in {"sellable", "reserved"}
  /\ Available(l, 1)
  /\ state' = [state EXCEPT ![s] = "sold"]
  /\ saleRow' = [saleRow EXCEPT ![s] = TRUE]
  /\ onHand' = [onHand EXCEPT ![l] = @ - 1]
  /\ Hand({s}, l, "customer")
  /\ UNCHANGED <<loc, cost, lastIn, xfer, rma>>

\* validate_sale, post_movement and serials.sell: the service's docstring has
\* its caller write the ledger row.
Sell(s, l) ==
  /\ s \in Known
  /\ state[s] \in {"sellable", "reserved"}
  /\ l \in Restricted => loc[s] = l
  /\ Available(l, 1)
  /\ state' = [state EXCEPT ![s] = "sold"]
  /\ loc' = [loc EXCEPT ![s] = NoLoc]
  /\ saleRow' = [saleRow EXCEPT ![s] = TRUE]
  /\ onHand' = [onHand EXCEPT ![l] = @ - 1]
  /\ Hand({s}, l, "customer")
  /\ UNCHANGED <<cost, lastIn, xfer, rma>>

-----------------------------------------------------------------------------
(* Customer returns: returns/service.py post_return, one line of quantity 1. *)

\* _resolve_serial_id, and the prior-sale check of a return without receipt.
Returnable(s, noReceipt) ==
  /\ s \in Known
  /\ noReceipt => saleRow[s]

\* Disposition "scrap": serials.return_ and mark_scrapped, no movement.
ReturnToScrap(s, noReceipt) ==
  /\ Returnable(s, noReceipt)
  /\ state[s] = "sold"
  /\ state' = [state EXCEPT ![s] = "scrapped"]
  /\ loc' = [loc EXCEPT ![s] = NoLoc]
  /\ Hand({s}, "customer", "scrap")
  /\ UNCHANGED <<cost, ledger, onHand, xfer, rma>>

\* The others: post_movement of +1 at unit_cost 0, then mark_rma_pending for
\* "vendor_rma".  post_movement asks nothing of the serial's state.
ReturnToStock(s, l, disposition, noReceipt) ==
  /\ Returnable(s, noReceipt)
  /\ state' = [state EXCEPT ![s] = IF disposition = "vendor_rma" THEN "rma_pending"
                                                                 ELSE "returned"]
  /\ loc' = [loc EXCEPT ![s] = l]
  /\ cost' = [cost EXCEPT ![s] = 0]
  /\ lastIn' = [lastIn EXCEPT ![s] = l]
  /\ onHand' = [onHand EXCEPT ![l] = @ + 1]
  /\ Hand({s}, "customer", l)
  /\ UNCHANGED <<saleRow, xfer, rma>>

-----------------------------------------------------------------------------
(* Transfers: transfers/service.py. *)

CreateTransfer(x, src, dst, S) ==
  /\ xfer[x] = NoTransfer
  /\ src # dst
  /\ S # {} /\ S \subseteq Known
  /\ xfer' = [xfer EXCEPT ![x] = [state |-> "draft", src |-> src, dst |-> dst,
                                  serials |-> S]]
  /\ UNCHANGED <<serialRow, ledger, onHand, rma, units>>

\* Mutants: the inbound leg is lost; the serial row keeps its location.
Carry_OneLeg(S, from, to, newState) ==
  /\ Available(from, Cardinality(S))
  /\ state' = Set(state, S, newState)
  /\ loc' = Set(loc, S, to)
  /\ lastIn' = Set(lastIn, S, to)
  /\ onHand' = [onHand EXCEPT ![from] = @ - Cardinality(S)]
  /\ Hand(S, from, to)
  /\ UNCHANGED <<cost, saleRow, rma>>

Carry_KeepsLocation(S, from, to, newState) ==
  /\ Available(from, Cardinality(S))
  /\ state' = Set(state, S, newState)
  /\ lastIn' = Set(lastIn, S, to)
  /\ onHand' = [onHand EXCEPT ![from] = @ - Cardinality(S), ![to] = @ + Cardinality(S)]
  /\ Hand(S, from, to)
  /\ UNCHANGED <<loc, cost, saleRow, rma>>

\* One unit of S after another out of `from` and into `to`; the first failure
\* rolls back the document.
Carry(S, from, to, newState) ==
  /\ Available(from, Cardinality(S))
  /\ state' = Set(state, S, newState)
  /\ loc' = Set(loc, S, to)
  /\ lastIn' = Set(lastIn, S, to)
  /\ onHand' = [onHand EXCEPT ![from] = @ - Cardinality(S), ![to] = @ + Cardinality(S)]
  /\ Hand(S, from, to)
  /\ UNCHANGED <<cost, saleRow, rma>>

Ship(x) ==
  /\ xfer[x].state = "draft"
  /\ Carry(xfer[x].serials, xfer[x].src, InTransit, "in_transit")
  /\ xfer' = [xfer EXCEPT ![x].state = "shipped"]

\* Mutants: the source kind passed as the serial's state; state not updated.
Receive_SourceKind(x) ==
  /\ xfer[x].state = "shipped"
  /\ Carry(xfer[x].serials, InTransit, xfer[x].dst, "transfer_receive")
  /\ xfer' = [xfer EXCEPT ![x].state = "received"]

Receive_NotMarked(x) ==
  /\ xfer[x].state = "shipped"
  /\ Carry(xfer[x].serials, InTransit, xfer[x].dst, "sellable")
  /\ UNCHANGED xfer

Receive(x) ==
  /\ xfer[x].state = "shipped"
  /\ Carry(xfer[x].serials, InTransit, xfer[x].dst, "sellable")
  /\ xfer' = [xfer EXCEPT ![x].state = "received"]

-----------------------------------------------------------------------------
(* Vendor RMAs: rmas/service.py, lines of one serialized unit each. *)

CreateRma(r, l, S) ==
  /\ rma[r] = NoRma
  /\ S # {} /\ S \subseteq Known
  /\ rma' = [rma EXCEPT ![r] = [state |-> "open", holding |-> l, serials |-> S,
                                credit |-> 0]]
  /\ UNCHANGED <<serialRow, ledger, onHand, xfer, units>>

\* post_movement of -1 with no serial_state_after: the state stays, and the
\* location becomes the one shipped from.
ShipRma(r) ==
  /\ rma[r].state = "open"
  /\ LET S == rma[r].serials
         l == rma[r].holding IN
       /\ Available(l, Cardinality(S))
       /\ loc' = Set(loc, S, l)
       /\ onHand' = [onHand EXCEPT ![l] = @ - Cardinality(S)]
       /\ Hand(S, l, "vendor")
  /\ rma' = [rma EXCEPT ![r].state = "shipped"]
  /\ UNCHANGED <<state, cost, ledger, xfer>>

\* close_rma credits each serial's unit_cost: those a return has not set to 0.
CloseRma(r) ==
  LET S == rma[r].serials IN
  /\ rma[r].state = "shipped"
  /\ \A s \in S : state[s] = "rma_pending"       \* mark_rma_closed
  /\ state' = Set(state, S, "rma_closed")
  /\ loc' = Set(loc, S, NoLoc)
  /\ rma' = [rma EXCEPT ![r].state = "closed",
                        ![r].credit = UnitCost * Cardinality({s \in S : cost[s] # 0})]
  /\ UNCHANGED <<cost, ledger, onHand, xfer, units>>

-----------------------------------------------------------------------------
Next ==
  \/ \E S \in SUBSET Serials, l \in Stores : PostReceipt(S, l)
  \/ \E s \in Serials : Reserve(s)
  \/ \E s \in Serials, l \in Stores : Sell(s, l)
  \/ \E s \in Serials, noReceipt \in BOOLEAN : ReturnToScrap(s, noReceipt)
  \/ \E s \in Serials, l \in Stores, noReceipt \in BOOLEAN,
        disposition \in {"sellable", "hold", "vendor_rma"} :
       ReturnToStock(s, l, disposition, noReceipt)
  \/ \E x \in Transfers, src, dst \in Stores, S \in SUBSET Serials :
       CreateTransfer(x, src, dst, S)
  \/ \E x \in Transfers : Ship(x)
  \/ \E x \in Transfers : Receive(x)
  \/ \E r \in Rmas, l \in Stores, S \in SUBSET Serials : CreateRma(r, l, S)
  \/ \E r \in Rmas : ShipRma(r)
  \/ \E r \in Rmas : CloseRma(r)

Spec == Init /\ [][Next]_vars

-----------------------------------------------------------------------------
(* Properties. *)

\* The units on vendor RMAs that have left: their rows still name the location
\* they were shipped from.
AtVendor == UNION {rma[r].serials : r \in {r \in Rmas : rma[r].state = "shipped"}}

\* The balance of a location is the number of units standing there, give or take
\* one for every slip: nothing else in the five services takes the books off the
\* shelf.
BooksMatchShelf ==
  \A l \in Locations :
    LET there == Cardinality({s \in Serials : holder[s] = l}) IN
    onHand[l] - there \in -slips .. slips

\* current_location_id is where the unit is, and NULL when the business does not
\* have it (FR-029); units misnamed and units at a vendor apart.
RecordedWhereItIs ==
  \A s \in Serials \ (AtVendor \cup misnamed) :
    loc[s] = IF holder[s] \in Locations THEN holder[s] ELSE NoLoc

\* What is in transit is on a shipped transfer, and on one only, whatever is said
\* of other units.
InTransitExplained ==
  \A s \in Serials \ misnamed :
    holder[s] = InTransit
      <=> \E x \in Transfers :
            /\ xfer[x].state = "shipped" /\ s \in xfer[x].serials
            /\ \A y \in Transfers \ {x} :
                 ~(xfer[y].state = "shipped" /\ s \in xfer[y].serials)

\* Wherever a serial has a location, its last inbound ledger row names the same
\* one, through any mix of receipts, transfers, returns and RMAs: the comparison
\* of the daily check of SC-008 has no false positive but for misnamed units.
LocationIsLastInbound ==
  \A s \in Known \ misnamed : loc[s] # NoLoc => loc[s] = lastIn[s]

\* Only a unit that was sold, and is not back already, comes back: FR-011.
\* post_return asks nothing of the serial's state, so this fails.
OnlySoldAreReturned ==
  [][\A s \in Serials :
       /\ state'[s] # state[s]
       /\ state'[s] \in {"returned", "rma_pending"}
       => state[s] = "sold"]_vars
=============================================================================
