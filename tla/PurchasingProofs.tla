-------------------------- MODULE PurchasingProofs --------------------------
(***************************************************************************)
(* For every set of orders, lines, quantities and clerks, and for any      *)
(* tolerance: types, the limit on what a line receives, the completeness   *)
(* of closed orders and, for orders no receipt has mixed up, that goods    *)
(* are booked on approved orders only and that a fully received order is   *)
(* closed.                                                                 *)
(***************************************************************************)
EXTENDS Purchasing, TLAPS

(***************************************************************************)
(* The strengthening: what the locks of open receipts keep apart, and what *)
(* an open receipt has already established about what it will commit.      *)
(***************************************************************************)

\* No receipt, nothing received; one receipt per order, one receipt per line.
Settled == \A t \in Clerks : at[t] = NoOrder => \A l \in Lines : add[t][l] = 0
Alone == \A t, u \in Clerks : t # u /\ at[t] # NoOrder => at[t] # at[u]
Apart == \A t, u \in Clerks, l \in Lines : t # u => add[t][l] = 0 \/ add[u][l] = 0

\* The limit holds of what will be committed too.
Limited ==
  \A l \in Lines : /\ WithinLimit(l, received[l])
                   /\ \A t \in Clerks : WithinLimit(l, Total(t, l, 0))

\* A line that was never ordered has nothing on it.
Unordered ==
  \A l \in Lines : lineOf[l] = NoOrder =>
    /\ ordered[l] = 0 /\ received[l] = 0
    /\ \A t \in Clerks : add[t][l] = 0

\* The state a receipt checked is the state still.
StillOpen ==
  \A t \in Clerks : at[t] # NoOrder => state[at[t]] \in {"approved", "sent", "receiving"}

\* A receipt touches its own lines, or else both orders are mixed up; if it is not
\* complete a line of its order that it named is outstanding, and stays so, since
\* naming it again would mix the order up.
OwnLines ==
  \A t \in Clerks, l \in Lines :
    add[t][l] > 0 => lineOf[l] = at[t] \/ (lineOf[l] \in untidy /\ at[t] \in untidy)
LeftOver ==
  \A t \in Clerks : ~complete[t] =>
    \/ at[t] \in untidy
    \/ \E l \in Lines : lineOf[l] = at[t] /\ add[t][l] > 0 /\ Total(t, l, 0) < ordered[l]

IInv ==
  /\ TypeOK
  /\ Settled /\ Alone /\ Apart
  /\ Limited /\ Unordered /\ StillOpen
  /\ OwnLines /\ LeftOver
  /\ ClosedIsComplete
  /\ NothingReceivedEarly
  /\ FullyReceivedIsClosed

-----------------------------------------------------------------------------
(* One lemma per kind of step. *)

\* With no receipt open nothing has been received.
LEMMA InitIInv == Init => IInv
  <1> SUFFICES ASSUME Init PROVE IInv
    OBVIOUS
  <1>1. TypeOK
    BY DEF Init, TypeOK, Nothing, States
  <1>2. Settled /\ Alone /\ Apart
    BY NoOrderAssumption DEF Init, Settled, Alone, Apart, Nothing
  <1>3. Limited
    BY ToleranceAssumption DEF Init, Limited, WithinLimit, Total, Nothing
  <1>4. Unordered /\ StillOpen /\ OwnLines /\ LeftOver
    BY DEF Init, Unordered, StillOpen, OwnLines, LeftOver, Nothing
  <1>5. ClosedIsComplete /\ NothingReceivedEarly /\ FullyReceivedIsClosed
    BY DEF Init, ClosedIsComplete, NothingReceivedEarly, FullyReceivedIsClosed
  <1>6. QED
    BY <1>1, <1>2, <1>3, <1>4, <1>5 DEF IInv

\* The lines of a new order were on none, and nothing is on them.
LEMMA CreatePoStep ==
  ASSUME IInv, NEW p \in Orders, NEW L \in SUBSET Lines,
         NEW quantity \in [L -> Quantities], CreatePo(p, quantity)
  PROVE  IInv'
  <1> USE DEF IInv
  <1>1. /\ DOMAIN quantity = L
        /\ \A l \in L : quantity[l] \in Nat /\ lineOf[l] = NoOrder
        /\ state[p] = "none"
        /\ state' = [state EXCEPT ![p] = "draft"]
        /\ lineOf' = [l \in Lines |-> IF l \in L THEN p ELSE lineOf[l]]
        /\ ordered' = [l \in Lines |-> IF l \in L THEN quantity[l] ELSE ordered[l]]
        /\ received' = received /\ at' = at /\ add' = add /\ complete' = complete
        /\ untidy' = untidy
    BY QuantitiesAssumption DEF CreatePo, receipt
  <1>2. TypeOK'
    BY <1>1 DEF TypeOK, States, TRANSITIONS
  <1>3. (Settled /\ Alone /\ Apart)'
    BY <1>1 DEF Settled, Alone, Apart
  <1>4. Limited'
    <2>1. \A l \in Lines \ L : ordered'[l] = ordered[l]
      BY <1>1
    <2>2. \A l \in L : /\ WithinLimit(l, 0)'
                      /\ received[l] = 0 /\ \A t \in Clerks : add[t][l] = 0
      BY <1>1, <1>2, ToleranceAssumption DEF WithinLimit, Unordered, TypeOK
    <2> SUFFICES ASSUME NEW l \in Lines
                 PROVE  /\ WithinLimit(l, received[l])'
                        /\ \A t \in Clerks : WithinLimit(l, Total(t, l, 0))'
      BY DEF Limited
    <2>3. CASE l \in L
      <3>1. received'[l] = 0 /\ \A t \in Clerks : Total(t, l, 0)' = 0
        BY <1>1, <2>2, <2>3 DEF Total
      <3>2. QED
        BY <2>2, <2>3, <3>1 DEF WithinLimit
    <2>4. CASE l \notin L
      <3>1. /\ ordered'[l] = ordered[l] /\ received'[l] = received[l]
            /\ \A t \in Clerks : Total(t, l, 0)' = Total(t, l, 0)
        BY <1>1, <2>1, <2>4 DEF Total
      <3>2. QED
        BY <3>1 DEF Limited, WithinLimit
    <2>5. QED
      BY <2>3, <2>4
  <1>5. Unordered'
    BY <1>1, NoOrderAssumption DEF Unordered
  <1>6. StillOpen'
    BY <1>1 DEF StillOpen, TypeOK
  <1>7. OwnLines'
    BY <1>1 DEF OwnLines, Unordered, TypeOK
  <1>8. LeftOver'
    <2> SUFFICES ASSUME NEW t \in Clerks, ~complete[t], at[t] \notin untidy
                 PROVE  \E l \in Lines : /\ lineOf'[l] = at[t] /\ add[t][l] > 0
                                         /\ Total(t, l, 0)' < ordered'[l]
      BY <1>1 DEF LeftOver
    <2>1. PICK l \in Lines : /\ lineOf[l] = at[t] /\ add[t][l] > 0
                             /\ Total(t, l, 0) < ordered[l]
      BY DEF LeftOver
    <2>2. l \notin L
      BY <1>1, <2>1 DEF Unordered
    <2>3. QED
      BY <1>1, <2>1, <2>2 DEF Total
  <1>9. ClosedIsComplete'
    BY <1>1 DEF ClosedIsComplete, LinesOf, TypeOK
  <1>10. NothingReceivedEarly'
    <2> SUFFICES ASSUME NEW l \in Lines, received[l] > 0, lineOf'[l] \notin untidy
                 PROVE  state'[lineOf'[l]] \in {"receiving", "closed"}
      BY <1>1 DEF NothingReceivedEarly
    <2>1. lineOf[l] # NoOrder /\ lineOf'[l] = lineOf[l]
      BY <1>1 DEF Unordered
    <2>2. state[lineOf[l]] \in {"receiving", "closed"}
      BY <2>1 DEF NothingReceivedEarly
    <2>3. QED
      BY <1>1, <2>1, <2>2 DEF TypeOK
  <1>11. FullyReceivedIsClosed'
    <2> SUFFICES ASSUME NEW q \in Orders \ untidy,
                        state'[q] = "receiving", LinesOf(q)' # {}
                 PROVE  \E l \in LinesOf(q)' : received'[l] < ordered'[l]
      BY <1>1 DEF FullyReceivedIsClosed
    <2>1. q # p /\ state[q] = "receiving"
      BY <1>1 DEF TypeOK
    <2>2. LinesOf(q)' = LinesOf(q) /\ \A l \in LinesOf(q) : l \notin L
      BY <1>1, <2>1, NoOrderAssumption DEF LinesOf
    <2>3. PICK l \in LinesOf(q) : received[l] < ordered[l]
      BY <2>1, <2>2 DEF FullyReceivedIsClosed
    <2>4. received'[l] < ordered'[l]
      BY <1>1, <2>2, <2>3 DEF LinesOf
    <2>5. QED
      BY <2>2, <2>4
  <1>12. QED
    BY <1>2, <1>3, <1>4, <1>5, <1>6, <1>7, <1>8, <1>9, <1>10, <1>11

\* No receipt of the order is open, and an order that has received anything has no
\* transition left but the receipt's own.
LEMMA TransitionStep ==
  ASSUME IInv, NEW p \in Orders, NEW roles,
         NEW to \in {"submitted", "approved", "sent", "cancelled"},
         Transition(p, to, roles)
  PROVE  IInv'
  <1> USE DEF IInv
  <1>1. /\ state' = [state EXCEPT ![p] = to]
        /\ lineOf' = lineOf /\ ordered' = ordered /\ received' = received
        /\ at' = at /\ add' = add /\ complete' = complete /\ untidy' = untidy
        /\ \A t \in Clerks : at[t] # p
    BY DEF Transition, receipt, OrderFree
  <1>2. state[p] \notin {"receiving", "closed"}
    BY DEF Transition, Allowed, TRANSITIONS
  <1>3. TypeOK'
    BY <1>1 DEF TypeOK, States, TRANSITIONS
  <1>4. (Settled /\ Alone /\ Apart /\ Limited /\ Unordered /\ OwnLines /\ LeftOver)'
    BY <1>1 DEF Settled, Alone, Apart, Limited, Unordered, OwnLines, LeftOver,
                WithinLimit, Total
  <1>5. StillOpen'
    BY <1>1 DEF StillOpen, TypeOK
  <1>6. (ClosedIsComplete /\ FullyReceivedIsClosed)'
    BY <1>1 DEF ClosedIsComplete, FullyReceivedIsClosed, LinesOf, TypeOK
  <1>7. NothingReceivedEarly'
    BY <1>1, <1>2 DEF NothingReceivedEarly, TypeOK
  <1>8. QED
    BY <1>3, <1>4, <1>5, <1>6, <1>7

\* A receipt opens on an order no other receipt has locked.
LEMMA OpenReceiptStep ==
  ASSUME IInv, NEW t \in Clerks, NEW p \in Orders, NEW roles, OpenReceipt(t, p, roles)
  PROVE  IInv'
  <1> USE DEF IInv
  <1>1. /\ at' = [at EXCEPT ![t] = p]
        /\ at[t] = NoOrder /\ state[p] \in {"approved", "sent", "receiving"}
        /\ \A u \in Clerks : at[u] # p
        /\ state' = state /\ lineOf' = lineOf /\ ordered' = ordered
        /\ received' = received /\ add' = add /\ complete' = complete
        /\ untidy' = untidy
    BY DEF OpenReceipt, order, OrderFree
  <1>2. TypeOK'
    BY <1>1 DEF TypeOK
  <1>3. (Settled /\ Alone /\ Apart)'
    BY <1>1 DEF Settled, Alone, Apart, TypeOK
  <1>4. (Limited /\ Unordered)'
    BY <1>1 DEF Limited, Unordered, WithinLimit, Total
  <1>5. StillOpen'
    BY <1>1 DEF StillOpen, TypeOK
  <1>6. OwnLines'
    BY <1>1 DEF OwnLines, Settled, TypeOK
  <1>7. LeftOver'
    <2>1. complete[t]
      BY <1>1, NoOrderAssumption DEF LeftOver, Settled, TypeOK
    <2>2. \A u \in Clerks \ {t} : at'[u] = at[u]
      BY <1>1 DEF TypeOK
    <2>3. QED
      BY <1>1, <2>1, <2>2 DEF LeftOver, Total
  <1>8. (ClosedIsComplete /\ NothingReceivedEarly /\ FullyReceivedIsClosed)'
    BY <1>1 DEF ClosedIsComplete, NothingReceivedEarly, FullyReceivedIsClosed, LinesOf
  <1>9. QED
    BY <1>2, <1>3, <1>4, <1>5, <1>6, <1>7, <1>8

\* A line received is no more than was ordered, others' receipts included.
LEMMA ReceiveLineStep ==
  ASSUME IInv, NEW t \in Clerks, NEW l \in Lines, NEW q \in Quantities,
         ReceiveLine(t, l, q)
  PROVE  IInv'
  <1> USE DEF IInv
  <1>1. /\ add' = [add EXCEPT ![t][l] = @ + q]
        /\ complete' = [complete EXCEPT ![t] = @ /\ Total(t, l, q) >= ordered[l]]
        /\ at' = at /\ state' = state /\ lineOf' = lineOf
        /\ ordered' = ordered /\ received' = received
        /\ untidy' = untidy \cup MixedUp(t, l)
        /\ q \in Nat /\ q > 0
    BY QuantitiesAssumption DEF ReceiveLine, order
  <1>2. /\ at[t] # NoOrder /\ lineOf[l] # NoOrder
        /\ \A u \in Clerks \ {t} : add[u][l] = 0
        /\ WithinLimit(l, Total(t, l, q))
    BY DEF ReceiveLine, LineFree
  <1>3. /\ add'[t][l] = add[t][l] + q
        /\ \A u \in Clerks, m \in Lines : u # t \/ m # l => add'[u][m] = add[u][m]
        /\ complete'[t] = (complete[t] /\ Total(t, l, q) >= ordered[l])
        /\ \A u \in Clerks \ {t} : complete'[u] = complete[u]
    BY <1>1 DEF TypeOK
  <1>4. TypeOK'
    <2>1. add[t][l] + q \in Nat
      BY <1>1 DEF TypeOK
    <2>2. add' \in [Clerks -> [Lines -> Nat]]
      BY <1>1, <2>1 DEF TypeOK
    <2>3. complete' \in [Clerks -> BOOLEAN]
      BY <1>1 DEF TypeOK
    <2>4. untidy' \subseteq Orders
      BY <1>1, <1>2 DEF MixedUp, TypeOK
    <2>5. QED
      BY <1>1, <2>2, <2>3, <2>4 DEF TypeOK
  <1>5. (Settled /\ Alone /\ Apart)'
    BY <1>1, <1>2, <1>3 DEF Settled, Alone, Apart
  <1>6. Limited'
    <2>1. Total(t, l, 0)' = Total(t, l, q)
      BY <1>1, <1>3 DEF Total, TypeOK
    <2>2. \A u \in Clerks, m \in Lines : u # t \/ m # l => Total(u, m, 0)' = Total(u, m, 0)
      BY <1>1, <1>3 DEF Total
    <2>3. QED
      BY <1>1, <1>2, <2>1, <2>2 DEF Limited, WithinLimit
  <1>7. (Unordered /\ StillOpen)'
    BY <1>1, <1>2, <1>3 DEF Unordered, StillOpen
  <1>8. OwnLines'
    BY <1>1, <1>2, <1>3 DEF OwnLines, MixedUp
  <1>9. LeftOver'
    <2> SUFFICES ASSUME NEW u \in Clerks, ~complete'[u], at[u] \notin untidy'
                 PROVE  \E m \in Lines : /\ lineOf[m] = at[u] /\ add'[u][m] > 0
                                         /\ Total(u, m, 0)' < ordered[m]
      BY <1>1 DEF LeftOver
    <2>1. CASE complete[u]
      <3>1. u = t /\ ~(Total(t, l, q) >= ordered[l])
        BY <1>3, <2>1
      <3>2. add'[t][l] > 0 /\ Total(t, l, 0)' < ordered[l]
        BY <1>1, <1>3, <3>1 DEF Total, TypeOK
      <3>3. lineOf[l] = at[t]
        BY <1>1, <3>1 DEF MixedUp
      <3>4. QED
        BY <3>1, <3>2, <3>3
    <2>2. CASE ~complete[u]
      <3>1. PICK m \in Lines : /\ lineOf[m] = at[u] /\ add[u][m] > 0
                               /\ Total(u, m, 0) < ordered[m]
        BY <1>1, <2>2 DEF LeftOver
      <3>2. u # t \/ m # l
        BY <1>1, <3>1 DEF MixedUp
      <3>3. add'[u][m] = add[u][m] /\ Total(u, m, 0)' = Total(u, m, 0)
        BY <1>1, <1>3, <3>2 DEF Total
      <3>4. QED
        BY <3>1, <3>3
    <2>3. QED
      BY <2>1, <2>2
  <1>10. (ClosedIsComplete /\ NothingReceivedEarly /\ FullyReceivedIsClosed)'
    BY <1>1 DEF ClosedIsComplete, NothingReceivedEarly, FullyReceivedIsClosed, LinesOf
  <1>11. QED
    BY <1>4, <1>5, <1>6, <1>7, <1>8, <1>9, <1>10

\* What is left when the receipt of t is over.
LEMMA LeaveFacts ==
  ASSUME TypeOK, NEW t \in Clerks, Leave(t)
  PROVE  /\ at' \in [Clerks -> Orders \cup {NoOrder}]
         /\ add' \in [Clerks -> [Lines -> Nat]]
         /\ complete' \in [Clerks -> BOOLEAN]
         /\ at'[t] = NoOrder /\ complete'[t] = TRUE
         /\ \A l \in Lines : add'[t][l] = 0
         /\ \A u \in Clerks \ {t} :
              at'[u] = at[u] /\ add'[u] = add[u] /\ complete'[u] = complete[u]
  BY DEF TypeOK, Leave, Nothing

\* A receipt that ends leaves the others as far apart as they were.
LEMMA LeaveApart ==
  ASSUME TypeOK, Settled, Alone, Apart, NEW t \in Clerks, Leave(t)
  PROVE  (Settled /\ Alone /\ Apart)'
  <1>1. /\ at'[t] = NoOrder /\ \A l \in Lines : add'[t][l] = 0
        /\ \A u \in Clerks \ {t} : at'[u] = at[u] /\ add'[u] = add[u]
    BY LeaveFacts
  <1>2. Settled'
    <2> SUFFICES ASSUME NEW u \in Clerks, at'[u] = NoOrder, NEW l \in Lines
                 PROVE  add'[u][l] = 0
      BY DEF Settled
    <2>1. CASE u = t
      BY <1>1, <2>1
    <2>2. CASE u # t
      BY <1>1, <2>2 DEF Settled
    <2>3. QED
      BY <2>1, <2>2
  <1>3. Alone'
    <2> SUFFICES ASSUME NEW u \in Clerks, NEW v \in Clerks, u # v, at'[u] # NoOrder
                 PROVE  at'[u] # at'[v]
      BY DEF Alone
    <2>1. u # t /\ at'[u] = at[u]
      BY <1>1
    <2>2. CASE v = t
      BY <1>1, <2>2
    <2>3. CASE v # t
      BY <1>1, <2>1, <2>3 DEF Alone
    <2>4. QED
      BY <2>2, <2>3
  <1>4. Apart'
    <2> SUFFICES ASSUME NEW u \in Clerks, NEW v \in Clerks, NEW l \in Lines, u # v
                 PROVE  add'[u][l] = 0 \/ add'[v][l] = 0
      BY DEF Apart
    <2>1. CASE u = t \/ v = t
      BY <1>1, <2>1
    <2>2. CASE u # t /\ v # t
      BY <1>1, <2>2 DEF Apart
    <2>3. QED
      BY <2>1, <2>2
  <1>5. QED
    BY <1>2, <1>3, <1>4

\* A receipt that commits closes the order when it found nothing outstanding.
LEMMA CommitReceiptStep ==
  ASSUME IInv, NEW t \in Clerks, CommitReceipt(t)
  PROVE  IInv'
  <1> USE DEF IInv
  <1> DEFINE p == at[t]
             closes == complete[t] /\ Outstanding(t) = {}
  <1>1. /\ p \in Orders /\ p # NoOrder
        /\ state' = [state EXCEPT ![p] = IF closes THEN "closed" ELSE "receiving"]
        /\ lineOf' = lineOf /\ ordered' = ordered /\ untidy' = untidy
        /\ \A l \in Lines : received'[l] = received[l] + add[t][l]
        /\ received' \in [Lines -> Nat]
    BY DEF CommitReceipt, TypeOK, Total
  <1>2. /\ at' \in [Clerks -> Orders \cup {NoOrder}]
        /\ add' \in [Clerks -> [Lines -> Nat]]
        /\ complete' \in [Clerks -> BOOLEAN]
        /\ at'[t] = NoOrder /\ complete'[t] = TRUE
        /\ \A l \in Lines : add'[t][l] = 0
        /\ \A u \in Clerks \ {t} :
             at'[u] = at[u] /\ add'[u] = add[u] /\ complete'[u] = complete[u]
    BY LeaveFacts DEF CommitReceipt
  <1>3. \A l \in Lines : received[l] \in Nat /\ ordered[l] \in Nat /\ add[t][l] \in Nat
    BY DEF TypeOK
  <1> HIDE DEF p, closes
  <1>4. TypeOK'
    BY <1>1, <1>2 DEF TypeOK, States, TRANSITIONS
  <1>5. (Settled /\ Alone /\ Apart)'
    BY LeaveApart DEF CommitReceipt
  <1>6. Limited'
    <2> SUFFICES ASSUME NEW l \in Lines
                 PROVE  /\ WithinLimit(l, received[l])'
                        /\ \A u \in Clerks : WithinLimit(l, Total(u, l, 0))'
      BY DEF Limited
    <2>1. received'[l] = Total(t, l, 0) /\ Total(t, l, 0)' = Total(t, l, 0)
      BY <1>1, <1>2, <1>3 DEF Total
    <2>2. ASSUME NEW u \in Clerks \ {t}
          PROVE  Total(u, l, 0)' = Total(t, l, 0) \/ Total(u, l, 0)' = Total(u, l, 0)
      <3>1. add[u][l] \in Nat /\ (add[t][l] = 0 \/ add[u][l] = 0)
        BY DEF Apart, TypeOK
      <3>2. Total(u, l, 0)' = received[l] + add[t][l] + add[u][l] + 0
        BY <1>1, <1>2 DEF Total
      <3>3. QED
        BY <1>3, <3>1, <3>2 DEF Total
    <2>3. QED
      BY <1>1, <2>1, <2>2 DEF Limited, WithinLimit
  <1>7. Unordered'
    <2> SUFFICES ASSUME NEW l \in Lines, lineOf[l] = NoOrder
                 PROVE  /\ ordered[l] = 0 /\ received'[l] = 0
                        /\ \A u \in Clerks : add'[u][l] = 0
      BY <1>1 DEF Unordered
    <2>1. ordered[l] = 0 /\ received[l] = 0 /\ \A u \in Clerks : add[u][l] = 0
      BY DEF Unordered
    <2>2. received'[l] = 0
      BY <1>1, <2>1
    <2>3. ASSUME NEW u \in Clerks PROVE add'[u][l] = 0
      <3>1. CASE u = t
        BY <1>2, <3>1
      <3>2. CASE u # t
        BY <1>2, <2>1, <3>2
      <3>3. QED
        BY <3>1, <3>2
    <2>4. QED
      BY <2>1, <2>2, <2>3
  <1>8. StillOpen'
    <2> SUFFICES ASSUME NEW u \in Clerks \ {t}, at[u] # NoOrder
                 PROVE  state'[at[u]] \in {"approved", "sent", "receiving"}
      BY <1>2 DEF StillOpen
    <2>1. at[u] # p /\ at[u] \in Orders
      BY DEF Alone, TypeOK, p
    <2>2. QED
      BY <1>1, <2>1 DEF StillOpen, TypeOK
  <1>9. OwnLines'
    BY <1>1, <1>2 DEF OwnLines
  <1>10. LeftOver'
    <2> SUFFICES ASSUME NEW u \in Clerks \ {t}, ~complete[u], at[u] \notin untidy
                 PROVE  \E l \in Lines : /\ lineOf[l] = at[u] /\ add'[u][l] > 0
                                         /\ Total(u, l, 0)' < ordered[l]
      BY <1>1, <1>2 DEF LeftOver
    <2>1. PICK l \in Lines : /\ lineOf[l] = at[u] /\ add[u][l] > 0
                             /\ Total(u, l, 0) < ordered[l]
      BY DEF LeftOver
    <2>2. add[t][l] = 0
      BY <2>1 DEF Apart, TypeOK
    <2>3. add'[u][l] = add[u][l] /\ Total(u, l, 0)' = Total(u, l, 0)
      BY <1>1, <1>2, <1>3, <2>2 DEF Total
    <2>4. QED
      BY <2>1, <2>3
  <1>11. ClosedIsComplete'
    <2> SUFFICES ASSUME NEW q \in Orders, state'[q] = "closed",
                        NEW l \in Lines, lineOf[l] = q
                 PROVE  received'[l] >= ordered[l]
      BY <1>1 DEF ClosedIsComplete, LinesOf
    <2>1. CASE q = p
      <3>1. closes
        BY <1>1, <2>1 DEF TypeOK
      <3>2. ~(Total(t, l, 0) < ordered[l])
        BY <2>1, <3>1 DEF closes, Outstanding, LinesOf, p
      <3>3. QED
        BY <1>1, <1>3, <3>2 DEF Total
    <2>2. CASE q # p
      <3>1. state[q] = "closed"
        BY <1>1, <2>2 DEF TypeOK
      <3>2. received[l] >= ordered[l]
        BY <3>1 DEF ClosedIsComplete, LinesOf
      <3>3. QED
        BY <1>1, <1>3, <3>2
    <2>3. QED
      BY <2>1, <2>2
  <1>12. NothingReceivedEarly'
    <2> SUFFICES ASSUME NEW l \in Lines, received'[l] > 0, lineOf[l] \notin untidy
                 PROVE  state'[lineOf[l]] \in {"receiving", "closed"}
      BY <1>1 DEF NothingReceivedEarly
    <2>1. lineOf[l] = p \/ received[l] > 0
      BY <1>1, <1>3 DEF OwnLines, p
    <2>2. lineOf[l] = p \/ (lineOf[l] \in Orders /\ state[lineOf[l]] \in {"receiving", "closed"})
      BY <2>1, <1>3 DEF NothingReceivedEarly, Unordered, TypeOK
    <2>3. QED
      BY <1>1, <2>2 DEF TypeOK
  <1>13. FullyReceivedIsClosed'
    <2> SUFFICES ASSUME NEW q \in Orders \ untidy,
                        state'[q] = "receiving", LinesOf(q) # {}
                 PROVE  \E l \in Lines : lineOf[l] = q /\ received'[l] < ordered[l]
      BY <1>1 DEF FullyReceivedIsClosed, LinesOf
    <2>1. CASE q = p /\ ~complete[t]
      <3>1. PICK l \in Lines : lineOf[l] = p /\ Total(t, l, 0) < ordered[l]
        BY <2>1 DEF LeftOver, p
      <3>2. QED
        BY <1>1, <1>3, <2>1, <3>1 DEF Total
    <2>2. CASE q = p /\ complete[t]
      <3>1. ~closes
        BY <1>1, <2>2 DEF TypeOK
      <3>2. PICK l \in LinesOf(p) : Total(t, l, 0) < ordered[l]
        BY <2>2, <3>1 DEF closes, Outstanding, p
      <3>3. QED
        BY <1>1, <1>3, <2>2, <3>2 DEF Total, LinesOf
    <2>3. CASE q # p
      <3>1. state[q] = "receiving"
        BY <1>1, <2>3 DEF TypeOK
      <3>2. PICK l \in LinesOf(q) : received[l] < ordered[l]
        BY <3>1 DEF FullyReceivedIsClosed
      <3>3. lineOf[l] = q /\ add[t][l] = 0
        BY <1>3, <2>3, <3>2 DEF OwnLines, LinesOf, p
      <3>4. QED
        BY <1>1, <1>3, <3>2, <3>3 DEF LinesOf
    <2>4. QED
      BY <2>1, <2>2, <2>3 DEF TypeOK
  <1>14. QED
    BY <1>4, <1>5, <1>6, <1>7, <1>8, <1>9, <1>10, <1>11, <1>12, <1>13

\* A receipt rolled back leaves what was there before it.
LEMMA AbortReceiptStep ==
  ASSUME IInv, NEW t \in Clerks, AbortReceipt(t)
  PROVE  IInv'
  <1> USE DEF IInv
  <1>1. /\ state' = state /\ lineOf' = lineOf /\ untidy' = untidy
        /\ ordered' = ordered /\ received' = received
    BY DEF AbortReceipt, order
  <1>2. /\ at' \in [Clerks -> Orders \cup {NoOrder}]
        /\ add' \in [Clerks -> [Lines -> Nat]]
        /\ complete' \in [Clerks -> BOOLEAN]
        /\ at'[t] = NoOrder /\ complete'[t] = TRUE
        /\ \A l \in Lines : add'[t][l] = 0
        /\ \A u \in Clerks \ {t} :
             at'[u] = at[u] /\ add'[u] = add[u] /\ complete'[u] = complete[u]
    BY LeaveFacts DEF AbortReceipt
  <1>3. TypeOK'
    BY <1>1, <1>2 DEF TypeOK
  <1>4. (Settled /\ Alone /\ Apart)'
    BY LeaveApart DEF AbortReceipt
  <1>5. Limited'
    <2>1. \A l \in Lines : Total(t, l, 0)' = received[l]
      BY <1>1, <1>2 DEF Total, TypeOK
    <2>2. \A u \in Clerks \ {t}, l \in Lines : Total(u, l, 0)' = Total(u, l, 0)
      BY <1>1, <1>2 DEF Total
    <2>3. QED
      BY <1>1, <2>1, <2>2 DEF Limited, WithinLimit
  <1>6. (Unordered /\ StillOpen)'
    BY <1>1, <1>2 DEF Unordered, StillOpen
  <1>7. OwnLines' /\ LeftOver'
    <2>1. \A u \in Clerks \ {t}, l \in Lines : Total(u, l, 0)' = Total(u, l, 0)
      BY <1>1, <1>2 DEF Total
    <2>2. OwnLines'
      BY <1>1, <1>2 DEF OwnLines
    <2>3. QED
      BY <1>1, <1>2, <2>1, <2>2 DEF LeftOver
  <1>8. (ClosedIsComplete /\ NothingReceivedEarly /\ FullyReceivedIsClosed)'
    BY <1>1 DEF ClosedIsComplete, NothingReceivedEarly, FullyReceivedIsClosed, LinesOf
  <1>9. QED
    BY <1>3, <1>4, <1>5, <1>6, <1>7, <1>8

\* Every step keeps the invariant.
LEMMA NextIInv == IInv /\ [Next]_vars => IInv'
  <1> SUFFICES ASSUME IInv, [Next]_vars PROVE IInv'
    OBVIOUS
  <1>1. CASE \E p \in Orders, L \in SUBSET Lines : \E quantity \in [L -> Quantities] :
               CreatePo(p, quantity)
    BY <1>1, CreatePoStep
  <1>2. CASE \E p \in Orders, roles \in Callers,
               to \in {"submitted", "approved", "sent", "cancelled"} :
               Transition(p, to, roles)
    BY <1>2, TransitionStep
  <1>3. CASE \E t \in Clerks, p \in Orders, roles \in Callers : OpenReceipt(t, p, roles)
    BY <1>3, OpenReceiptStep
  <1>4. CASE \E t \in Clerks, l \in Lines, q \in Quantities : ReceiveLine(t, l, q)
    BY <1>4, ReceiveLineStep
  <1>5. CASE \E t \in Clerks : CommitReceipt(t)
    BY <1>5, CommitReceiptStep
  <1>6. CASE \E t \in Clerks : AbortReceipt(t)
    BY <1>6, AbortReceiptStep
  <1>7. CASE UNCHANGED vars
    BY <1>7 DEF IInv, vars, TypeOK, Settled, Alone, Apart, Limited, Unordered, StillOpen,
                OwnLines, LeftOver, ClosedIsComplete, NothingReceivedEarly,
                FullyReceivedIsClosed, WithinLimit, Total, LinesOf
  <1>8. QED
    BY <1>1, <1>2, <1>3, <1>4, <1>5, <1>6, <1>7 DEF Next

\* The strengthening holds of every behaviour.
THEOREM InductiveInvariant == Spec => []IInv
  BY InitIInv, NextIInv, PTL DEF Spec

-----------------------------------------------------------------------------
(* The theorems. *)

\* Every variable keeps its type.
THEOREM TypeCorrect == Spec => []TypeOK
  <1>1. IInv => TypeOK
    BY DEF IInv
  <1>2. QED
    BY <1>1, InductiveInvariant, PTL

\* No split of a delivery, and no race of its receipts, passes the tolerance (FR-005).
THEOREM ReceivedWithinTolerance == Spec => []WithinTolerance
  <1>1. IInv => WithinTolerance
    BY DEF IInv, Limited, WithinLimit, WithinTolerance
  <1>2. QED
    BY <1>1, InductiveInvariant, PTL

\* A closed order has nothing on back order, whatever lines receipts name.
THEOREM ClosedOrdersAreComplete == Spec => []ClosedIsComplete
  <1>1. IInv => ClosedIsComplete
    BY DEF IInv
  <1>2. QED
    BY <1>1, InductiveInvariant, PTL

\* Goods are booked on approved orders only, and on no cancelled one (FR-004), but
\* for orders a receipt has mixed up.
THEOREM ApprovedBeforeReceived == Spec => []NothingReceivedEarly
  <1>1. IInv => NothingReceivedEarly
    BY DEF IInv
  <1>2. QED
    BY <1>1, InductiveInvariant, PTL

\* An open receipt is of an order that is neither closed nor cancelled, and keeps
\* it so until it commits: nothing brings such an order back.
THEOREM FinalStatesAreFinal == Spec => FinalStatesStay
  <1>1. ASSUME IInv, Next, NEW p \in Orders, state[p] \in {"closed", "cancelled"}
        PROVE  state'[p] = state[p]
    <2> USE DEF IInv
    <2>1. CASE \E q \in Orders, L \in SUBSET Lines : \E quantity \in [L -> Quantities] :
                 CreatePo(q, quantity)
      BY <1>1, <2>1 DEF CreatePo, TypeOK
    <2>2. CASE \E q \in Orders, roles \in Callers,
                 to \in {"submitted", "approved", "sent", "cancelled"} :
                 Transition(q, to, roles)
      <3>1. PICK q \in Orders, to \in States : /\ to \in TRANSITIONS[state[q]]
                                             /\ state' = [state EXCEPT ![q] = to]
        BY <2>2 DEF Transition, Allowed, States, TRANSITIONS
      <3>2. q # p
        BY <1>1, <3>1 DEF TRANSITIONS
      <3>3. QED
        BY <3>1, <3>2 DEF TypeOK
    <2>3. CASE \E t \in Clerks : CommitReceipt(t)
      <3>1. PICK t \in Clerks : CommitReceipt(t)
        BY <2>3
      <3>2. at[t] # p
        BY <1>1, <3>1 DEF CommitReceipt, StillOpen
      <3>3. QED
        BY <3>1, <3>2 DEF CommitReceipt, TypeOK
    <2>4. CASE state' = state
      BY <2>4
    <2>5. QED
      BY <1>1, <2>1, <2>2, <2>3, <2>4
         DEF Next, OpenReceipt, ReceiveLine, AbortReceipt, order
  <1>2. IInv /\ [Next]_vars =>
          [\A p \in Orders :
             state[p] \in {"closed", "cancelled"} => state'[p] = state[p]]_vars
    BY <1>1
  <1>3. QED
    BY <1>2, InductiveInvariant, PTL DEF Spec, FinalStatesStay

\* A fully received order is closed, unless a receipt has named a stray line or a
\* line it had left short before; whatever else receipts name, and in any order.
THEOREM FullyReceivedOrdersAreClosed == Spec => []FullyReceivedIsClosed
  <1>1. IInv => FullyReceivedIsClosed
    BY DEF IInv
  <1>2. QED
    BY <1>1, InductiveInvariant, PTL
=============================================================================
