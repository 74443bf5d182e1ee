----------------------------- MODULE Purchasing -----------------------------
(***************************************************************************)
(* Purchase orders and the receipts posted against them                    *)
(* (domain/purchase_orders).  A transition is one short transaction; a     *)
(* receipt is a long one, a step per line here, between the SELECT ... FOR *)
(* UPDATE of the order and the commit.  Both lock the order first, so      *)
(* transitions and other receipts of the order wait for an open receipt.   *)
(*                                                                         *)
(* Until it commits a receipt is only add[t], what it has put on each      *)
(* line: t holds the order it is at and the lines where add[t] is not      *)
(* zero.  backordered_qty is max(0, ordered - received) at every update    *)
(* and has no variable.  What a line does to stock is LedgerTx's and       *)
(* SerialInventory's.                                                      *)
(***************************************************************************)
EXTENDS Integers, FiniteSets

CONSTANTS Orders,     \* ids of purchase orders that may be created
          Lines,      \* ids of order lines
          Quantities, \* quantities a request may order or receive
          Tolerance,  \* over_receive_tolerance_pct
          Callers,    \* the role sets of the users
          Clerks,     \* receipts being posted at the same time
          NoOrder

ASSUME QuantitiesAssumption == Quantities \subseteq Nat \ {0}
ASSUME ToleranceAssumption == Tolerance \in Nat
ASSUME NoOrderAssumption == NoOrder \notin Orders

VARIABLES state,     \* po.purchase_order.state, "none" before it is created
          lineOf,    \* po.purchase_order_line.po_id
          ordered,   \* ordered_qty
          received,  \* received_qty
          at,        \* the order a clerk's open receipt is for
          add,       \* what the open receipt has received so far, per line
          complete,  \* its all_lines_complete
          untidy     \* orders a receipt has mixed up, see ReceiveLine (history)

order == <<state, lineOf, ordered, received>>
receipt == <<at, add, complete>>
vars == <<state, lineOf, ordered, received, at, add, complete, untidy>>

\* domain/purchase_orders/state.py
TRANSITIONS ==
  [draft     |-> {"submitted", "cancelled"},
   submitted |-> {"approved", "cancelled"},
   approved  |-> {"sent", "cancelled"},
   sent      |-> {"receiving", "cancelled"},
   receiving |-> {"closed"},
   closed    |-> {},
   cancelled |-> {}]

States == DOMAIN TRANSITIONS

\* Who may make a transition; a pair that is not here has no role pin.
ROLE_GATE ==
  { [from |-> "draft",     to |-> "submitted", roles |-> {"Purchasing"}],
    [from |-> "submitted", to |-> "approved",  roles |-> {"Store Manager", "Purchasing"}],
    [from |-> "approved",  to |-> "sent",      roles |-> {"Purchasing"}] }

TypeOK ==
  /\ state \in [Orders -> States \cup {"none"}]
  /\ lineOf \in [Lines -> Orders \cup {NoOrder}]
  /\ ordered \in [Lines -> Nat]
  /\ received \in [Lines -> Nat]
  /\ at \in [Clerks -> Orders \cup {NoOrder}]
  /\ add \in [Clerks -> [Lines -> Nat]]
  /\ complete \in [Clerks -> BOOLEAN]
  /\ untidy \subseteq Orders

Nothing == [l \in Lines |-> 0]

Init ==
  /\ state = [p \in Orders |-> "none"]
  /\ lineOf = [l \in Lines |-> NoOrder]
  /\ ordered = [l \in Lines |-> 0]
  /\ received = [l \in Lines |-> 0]
  /\ at = [t \in Clerks |-> NoOrder]
  /\ add = [t \in Clerks |-> Nothing]
  /\ complete = [t \in Clerks |-> TRUE]
  /\ untidy = {}

-----------------------------------------------------------------------------
LinesOf(p) == {l \in Lines : lineOf[l] = p}

\* The row locks of open receipts.
OrderFree_NoForUpdate(p) == TRUE        \* mutant: a plain SELECT
OrderFree(p) == \A t \in Clerks : at[t] # p
LineFree(l, t) == \A u \in Clerks \ {t} : add[u][l] = 0

\* Mutant: an order that is being received can be cancelled.
Allowed_LateCancel(from, to, roles) ==
  \/ from = "receiving" /\ to = "cancelled"
  \/ /\ to \in TRANSITIONS[from]
     /\ \A gate \in ROLE_GATE :
          gate.from = from /\ gate.to = to =>
            "Admin" \in roles \/ roles \cap gate.roles # {}

\* assert_transition
Allowed(from, to, roles) ==
  /\ to \in TRANSITIONS[from]
  /\ \A gate \in ROLE_GATE :
       gate.from = from /\ gate.to = to =>
         "Admin" \in roles \/ roles \cap gate.roles # {}

\* received_qty as the transaction of t sees it, with q more.
Total(t, l, q) == received[l] + add[t][l] + q

\* ordered_qty * (100 + tolerance) / 100 is not exceeded.
WithinLimit_PerReceipt(l, total) ==     \* mutant: checked without what came before
  (total - received[l]) * 100 <= ordered[l] * (100 + Tolerance)
WithinLimit(l, total) == total * 100 <= ordered[l] * (100 + Tolerance)

\* The open receipt of t is over: nothing is left of it.
Leave(t) ==
  /\ at' = [at EXCEPT ![t] = NoOrder]
  /\ add' = [add EXCEPT ![t] = Nothing]
  /\ complete' = [complete EXCEPT ![t] = TRUE]

-----------------------------------------------------------------------------
\* service.create_po
CreatePo(p, quantity) ==
  /\ state[p] = "none"
  /\ \A l \in DOMAIN quantity : lineOf[l] = NoOrder
  /\ state' = [state EXCEPT ![p] = "draft"]
  /\ lineOf' = [l \in Lines |-> IF l \in DOMAIN quantity THEN p ELSE lineOf[l]]
  /\ ordered' = [l \in Lines |-> IF l \in DOMAIN quantity THEN quantity[l] ELSE ordered[l]]
  /\ UNCHANGED <<received, receipt, untidy>>

\* service.transition, called for submit, approve, send and cancel.
Transition(p, to, roles) ==
  /\ state[p] # "none"
  /\ OrderFree(p)
  /\ Allowed(state[p], to, roles)
  /\ state' = [state EXCEPT ![p] = to]
  /\ UNCHANGED <<lineOf, ordered, received, receipt, untidy>>

\* post_receipt, up to its loop: the order is locked and its state checked.
\* Routes let only a Receiver or an Inventory Clerk (or an Admin) in.
OpenReceipt(t, p, roles) ==
  /\ roles \cap {"Receiver", "Inventory Clerk", "Admin"} # {}
  /\ at[t] = NoOrder
  /\ OrderFree(p)
  /\ state[p] \in {"approved", "sent", "receiving"}
  /\ at' = [at EXCEPT ![t] = p]
  /\ UNCHANGED <<order, add, complete, untidy>>

\* The orders that are mixed up when the receipt of t names l: two if l is a line
\* of another order, one if l has been named before and was left short.
MixedUp(t, l) ==
  IF lineOf[l] # at[t] THEN {lineOf[l], at[t]}
  ELSE IF add[t][l] > 0 /\ Total(t, l, 0) < ordered[l] THEN {at[t]} ELSE {}

\* One line of the loop.  The line is looked up by its id alone: nothing asks for
\* a line of the order, or for lines named once.
ReceiveLine(t, l, q) ==
  /\ at[t] # NoOrder /\ lineOf[l] # NoOrder
  /\ LineFree(l, t)
  /\ WithinLimit(l, Total(t, l, q))
  /\ add' = [add EXCEPT ![t][l] = @ + q]
  /\ complete' = [complete EXCEPT ![t] = @ /\ Total(t, l, q) >= ordered[l]]
  /\ untidy' = untidy \cup MixedUp(t, l)
  /\ UNCHANGED <<order, at>>

\* After the loop: the order is closed when every line of the receipt is
\* complete and a count over all lines of the order finds none outstanding.
Outstanding(t) == {l \in LinesOf(at[t]) : Total(t, l, 0) < ordered[l]}

CommitReceipt_LinesOfReceipt(t) ==      \* mutant: no count over the whole order
  /\ at[t] # NoOrder
  /\ received' = [l \in Lines |-> Total(t, l, 0)]
  /\ state' = [state EXCEPT ![at[t]] = IF complete[t] THEN "closed" ELSE "receiving"]
  /\ Leave(t)
  /\ UNCHANGED <<lineOf, ordered, untidy>>

CommitReceipt_NeverCloses(t) ==         \* mutant: closing is left to somebody else
  /\ at[t] # NoOrder
  /\ received' = [l \in Lines |-> Total(t, l, 0)]
  /\ state' = [state EXCEPT ![at[t]] = "receiving"]
  /\ Leave(t)
  /\ UNCHANGED <<lineOf, ordered, untidy>>

CommitReceipt_Received(t) ==              \* mutant: not a state of an order
  /\ at[t] # NoOrder
  /\ state' = [state EXCEPT ![at[t]] = "received"]
  /\ Leave(t)
  /\ UNCHANGED <<lineOf, ordered, received, untidy>>

CommitReceipt(t) ==
  /\ at[t] # NoOrder
  /\ received' = [l \in Lines |-> Total(t, l, 0)]
  /\ state' = [state EXCEPT ![at[t]] =
                 IF complete[t] /\ Outstanding(t) = {} THEN "closed" ELSE "receiving"]
  /\ Leave(t)
  /\ UNCHANGED <<lineOf, ordered, untidy>>

\* A refused line, a failed statement or a crash rolls the receipt back.
AbortReceipt(t) ==
  /\ at[t] # NoOrder
  /\ Leave(t)
  /\ UNCHANGED <<order, untidy>>

-----------------------------------------------------------------------------
Next ==
  \/ \E p \in Orders, L \in SUBSET Lines : \E quantity \in [L -> Quantities] :
       CreatePo(p, quantity)
  \/ \E p \in Orders, roles \in Callers, to \in {"submitted", "approved", "sent", "cancelled"} :
       Transition(p, to, roles)
  \/ \E t \in Clerks, p \in Orders, roles \in Callers : OpenReceipt(t, p, roles)
  \/ \E t \in Clerks, l \in Lines, q \in Quantities : ReceiveLine(t, l, q)
  \/ \E t \in Clerks : CommitReceipt(t)
  \/ \E t \in Clerks : AbortReceipt(t)

Spec == Init /\ [][Next]_vars

-----------------------------------------------------------------------------
(* Properties. *)

\* However the receipts of a line are split and raced, what was received stays
\* within the tolerance of what was ordered (FR-005).
WithinTolerance ==
  \A l \in Lines : received[l] * 100 <= ordered[l] * (100 + Tolerance)

\* A closed order has nothing left on back order, and never will.
ClosedIsComplete ==
  \A p \in Orders : state[p] = "closed" =>
    \A l \in LinesOf(p) : received[l] >= ordered[l]

\* Goods are only ever on the books of orders that were approved (FR-004): a draft,
\* a submitted, an approved, a sent and a cancelled order have received nothing,
\* unless a receipt has named lines of the order and of another one.
NothingReceivedEarly ==
  \A l \in Lines :
    received[l] > 0 => state[lineOf[l]] \in {"receiving", "closed"} \/ lineOf[l] \in untidy

\* A cancelled order is not brought back, nor a closed one reopened, by a receipt
\* that read the order's state before.
FinalStatesStay ==
  [][\A p \in Orders :
       state[p] \in {"closed", "cancelled"} => state'[p] = state[p]]_vars

\* An order whose lines are all received is closed, by whichever receipt completes
\* it (spec.md, user story 1): it does not stay in receiving for nobody to close,
\* unless a receipt mixed it up with another order or named a line again that it
\* had left short.
FullyReceivedIsClosed ==
  \A p \in Orders \ untidy :
    state[p] = "receiving" /\ LinesOf(p) # {} =>
      \E l \in LinesOf(p) : received[l] < ordered[l]
=============================================================================
