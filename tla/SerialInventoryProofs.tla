----------------------- MODULE SerialInventoryProofs -----------------------
(***************************************************************************)
(* For any number of units, stores, transfers, RMAs and slips: types, that *)
(* the books are off the shelf by no more than the slips, and that the     *)
(* row, the ledger and the transfers agree with where every unit is that   *)
(* no document has misnamed.                                               *)
(***************************************************************************)
EXTENDS SerialInventory, FiniteSetTheorems, TLAPS

\* The units at l when each is where h says.
At(h, l) == {s \in Serials : h[s] = l}

\* Balances b after n units went from one place to another.
Moved(b, n, from, to) ==
  [l \in Locations |-> IF l = to THEN b[l] + n
                       ELSE IF l = from THEN b[l] - n
                       ELSE b[l]]

\* What a document does to the units it names and to those it does not.
Handed(S, from, to) ==
  /\ holder' \in [Serials -> Locations \cup Outside]
  /\ misnamed' \subseteq Serials /\ slips' \in Nat
  /\ misnamed \subseteq misnamed'
  /\ \A s \in Serials : s \in S /\ s \notin misnamed'
       => holder[s] = from /\ holder'[s] = to
  /\ \A s \in Serials : s \notin S => holder'[s] = holder[s]

\* What a leg of a transfer does to rows and ledger.
Carried(S, to) ==
  /\ onHand' \in [Locations -> Int] /\ state' \in [Serials -> States \cup {"unknown"}]
  /\ loc' \in [Serials -> Locations \cup {NoLoc}]
  /\ lastIn' \in [Serials -> Locations \cup {NoLoc}]
  /\ UNCHANGED <<cost, saleRow, rma>>
  /\ \A s \in Serials : IF s \in S THEN loc'[s] = to /\ lastIn'[s] = to
                        ELSE UNCHANGED <<state[s], loc[s], lastIn[s]>>

\* A unit on a shipped transfer is in transit, and on no other; a unit in transit
\* is on one.
ShippedOnce ==
  /\ \A x \in Transfers : xfer[x].state = "shipped" =>
       \A s \in xfer[x].serials \ misnamed : holder[s] = InTransit
  /\ \A x, y \in Transfers :
       xfer[x].state = "shipped" /\ xfer[y].state = "shipped" /\ x # y
         => xfer[x].serials \cap xfer[y].serials \subseteq misnamed
  /\ \A s \in Serials \ misnamed : holder[s] = InTransit =>
       \E x \in Transfers : xfer[x].state = "shipped" /\ s \in xfer[x].serials

\* The units of a shipped RMA are with the vendor.
VendorHolds ==
  \A r \in Rmas : rma[r].state = "shipped" =>
    \A s \in rma[r].serials \ misnamed : holder[s] = "vendor"

IInv ==
  /\ TypeOK
  /\ ShippedOnce
  /\ VendorHolds
  /\ BooksMatchShelf
  /\ RecordedWhereItIs
  /\ LocationIsLastInbound

-----------------------------------------------------------------------------
(* Counting units. *)

\* There are finitely many units at a location.
LEMMA AtFinite ==
  ASSUME NEW h, NEW l
  PROVE  IsFiniteSet(At(h, l)) /\ Cardinality(At(h, l)) \in Nat
  <1>1. IsFiniteSet(At(h, l))
    BY SerialsAssumption, FS_Subset DEF At
  <1>2. QED
    BY <1>1, FS_CardinalityType

\* Units of S, all of them at `from`, go to `to`: both counts change by |S|.
LEMMA MoveCounts ==
  \A h, from, to, l : \A S \in SUBSET Serials :
    from # to /\ S \subseteq At(h, from) =>
      Cardinality(At(Set(h, S, to), l)) =
        IF l = to THEN Cardinality(At(h, l)) + Cardinality(S)
        ELSE IF l = from THEN Cardinality(At(h, l)) - Cardinality(S)
        ELSE Cardinality(At(h, l))
  <1> TAKE h, from, to, l
  <1> TAKE S \in SUBSET Serials
  <1> HAVE from # to /\ S \subseteq At(h, from)
  <1> DEFINE before == At(h, l)
             after == At(Set(h, S, to), l)
  <1>1. IsFiniteSet(S) /\ Cardinality(S) \in Nat
    BY SerialsAssumption, FS_Subset, FS_CardinalityType
  <1>2. IsFiniteSet(before) /\ Cardinality(before) \in Nat
    BY AtFinite
  <1>3. CASE l = to
    <2>1. after = before \cup S /\ before \cap S = {}
      BY <1>3 DEF At, Set
    <2>2. Cardinality(before \cap S) = 0
      BY <2>1, FS_EmptySet
    <2>3. Cardinality(before \cup S) =
            Cardinality(before) + Cardinality(S) - Cardinality(before \cap S)
      BY <1>1, <1>2, FS_Union
    <2>4. QED
      BY <1>1, <1>2, <1>3, <2>1, <2>2, <2>3
  <1>4. CASE l = from
    <2>1. after = before \ S /\ before \cap S = S
      BY <1>4 DEF At, Set
    <2>2. Cardinality(before \ S) = Cardinality(before) - Cardinality(before \cap S)
      BY <1>2, FS_Difference
    <2>3. QED
      BY <1>1, <1>4, <2>1, <2>2
  <1>5. CASE l # to /\ l # from
    <2>1. after = before
      BY <1>5 DEF At, Set
    <2>2. QED
      BY <1>1, <1>5, <2>1
  <1>6. QED
    BY <1>3, <1>4, <1>5

\* A serial is one unit.
LEMMA OneUnit == \A s : Cardinality({s}) = 1
  BY FS_Singleton

\* A number of units.
LEMMA Number == \A S \in SUBSET Serials : IsFiniteSet(S) /\ Cardinality(S) \in Nat
  BY SerialsAssumption, FS_Subset, FS_CardinalityType

\* Units that a document names rightly go where it says, and no others move.
LEMMA HandFacts ==
  ASSUME TypeOK
  PROVE  \A from : \A S \in SUBSET Serials : \A to \in Locations \cup Outside :
           Hand(S, from, to) => Handed(S, from, to)
  <1> SUFFICES ASSUME NEW from, NEW S \in SUBSET Serials,
                      NEW to \in Locations \cup Outside, Hand(S, from, to)
               PROVE  Handed(S, from, to)
    OBVIOUS
  <1> DEFINE astray == {s \in S : holder[s] # from}
  <1>1. /\ holder' = Set(holder, S \ astray, to) /\ misnamed' = misnamed \cup astray
        /\ slips' = slips + Cardinality(astray)
    BY DEF Hand
  <1>2. Cardinality(astray) \in Nat
    BY Number
  <1>3. QED
    BY <1>1, <1>2 DEF TypeOK, Set, Handed

\* A movement of the units of S takes the books off the shelf by no more than the
\* number of them that were elsewhere.
LEMMA BooksFollow ==
  ASSUME TypeOK, BooksMatchShelf
  PROVE  \A from, to : \A S \in SUBSET Serials :
           /\ from # to /\ Hand(S, from, to)
           /\ \A l \in Locations : onHand'[l] = Moved(onHand, Cardinality(S), from, to)[l]
           => BooksMatchShelf'
  <1> SUFFICES ASSUME NEW from, NEW to, NEW S \in SUBSET Serials,
                      from # to, Hand(S, from, to),
                      \A l \in Locations :
                        onHand'[l] = Moved(onHand, Cardinality(S), from, to)[l],
                      NEW l \in Locations
               PROVE  onHand'[l] - Cardinality(At(holder', l)) \in -(slips') .. slips'
    BY DEF BooksMatchShelf, At
  <1> DEFINE astray == {s \in S : holder[s] # from}
             gone == S \ astray
  <1>1. /\ holder' = Set(holder, gone, to)
        /\ slips' = slips + Cardinality(astray)
    BY DEF Hand
  <1>2. /\ gone \in SUBSET Serials /\ astray \in SUBSET Serials
        /\ gone \subseteq At(holder, from)
    BY DEF At
  <1>3. /\ Cardinality(S) \in Nat /\ Cardinality(gone) \in Nat
        /\ Cardinality(astray) \in Nat /\ Cardinality(At(holder, l)) \in Nat
    BY <1>2, Number, AtFinite
  <1>4. Cardinality(S) = Cardinality(gone) + Cardinality(astray)
    <2>1. S \cap astray = astray
      OBVIOUS
    <2>2. Cardinality(S \ astray) = Cardinality(S) - Cardinality(S \cap astray)
      BY Number, FS_Difference
    <2>3. Cardinality(gone) = Cardinality(S) - Cardinality(astray)
      BY <2>1, <2>2
    <2> HIDE DEF astray, gone
    <2>4. QED
      BY <1>3, <2>3
  <1> HIDE DEF astray, gone
  <1>5. onHand[l] \in Int /\ slips \in Nat
        /\ onHand[l] - Cardinality(At(holder, l)) \in -slips .. slips
    BY DEF BooksMatchShelf, At, TypeOK
  <1>6. Cardinality(At(holder', l)) =
          IF l = to THEN Cardinality(At(holder, l)) + Cardinality(gone)
          ELSE IF l = from THEN Cardinality(At(holder, l)) - Cardinality(gone)
          ELSE Cardinality(At(holder, l))
    BY <1>1, <1>2, MoveCounts
  <1>7. onHand'[l] = IF l = to THEN onHand[l] + Cardinality(S)
                     ELSE IF l = from THEN onHand[l] - Cardinality(S)
                     ELSE onHand[l]
    BY DEF Moved
  <1>8. QED
    BY <1>1, <1>3, <1>4, <1>5, <1>6, <1>7

\* Steps that move no unit.
LEMMA BooksStay ==
  ASSUME IInv, UNCHANGED <<onHand, holder, slips>>
  PROVE  BooksMatchShelf'
  BY DEF IInv, BooksMatchShelf

-----------------------------------------------------------------------------
\* To begin with nothing has been received.
LEMMA InitIInv == Init => IInv
  <1> SUFFICES ASSUME Init PROVE IInv
    OBVIOUS
  <1>1. TypeOK
    BY CostAssumption DEF Init, TypeOK, Outside, NoTransfer, NoRma, TransferDocs, RmaDocs
  <1>2. ShippedOnce /\ VendorHolds
    BY LocationsAssumption, OutsideAssumption
       DEF Init, ShippedOnce, VendorHolds, NoTransfer, NoRma, Locations, Outside
  <1>3. BooksMatchShelf
    <2>1. \A l \in Locations : {s \in Serials : holder[s] = l} = {}
      BY OutsideAssumption DEF Init, Outside
    <2>2. QED
      BY <2>1, FS_EmptySet DEF Init, BooksMatchShelf
  <1>4. RecordedWhereItIs /\ LocationIsLastInbound
    BY OutsideAssumption DEF Init, RecordedWhereItIs, LocationIsLastInbound, Outside
  <1>5. QED
    BY <1>1, <1>2, <1>3, <1>4 DEF IInv

-----------------------------------------------------------------------------
(* One lemma per service call. *)

\* The documents there are, taken apart.
LEMMA DocsTyped ==
  ASSUME TypeOK
  PROVE  /\ \A x \in Transfers : xfer[x] # NoTransfer =>
              /\ xfer[x].state \in {"draft", "shipped", "received"}
              /\ xfer[x].src \in Stores /\ xfer[x].dst \in Stores
              /\ xfer[x].serials \in SUBSET Serials
         /\ \A r \in Rmas : rma[r] # NoRma =>
              /\ rma[r].holding \in Stores /\ rma[r].serials \in SUBSET Serials
         /\ \A x \in Transfers : xfer[x].state # "none" => xfer[x] # NoTransfer
         /\ \A r \in Rmas : rma[r].state # "none" => rma[r] # NoRma
  BY DEF TypeOK, TransferDocs, RmaDocs, NoTransfer, NoRma

\* A receipt books the units in at the store that takes them.
LEMMA PostReceiptStep ==
  ASSUME IInv, NEW S \in SUBSET Serials, NEW l \in Stores, PostReceipt(S, l)
  PROVE  IInv'
  <1> USE DEF IInv
  <1>1. /\ S \cap Known = {} /\ Hand(S, "supplier", l)
        /\ state' = Set(state, S, "sellable") /\ loc' = Set(loc, S, l)
        /\ cost' = Set(cost, S, UnitCost) /\ lastIn' = Set(lastIn, S, l)
        /\ onHand' = [onHand EXCEPT ![l] = @ + Cardinality(S)]
        /\ UNCHANGED <<saleRow, xfer, rma>>
    BY DEF PostReceipt
  <1>2. l \in Locations /\ l # "supplier" /\ l # "vendor" /\ l # InTransit
        /\ "supplier" \notin Locations /\ InTransit # "supplier"
    BY LocationsAssumption, OutsideAssumption DEF Locations, Outside
  <1>3. Handed(S, "supplier", l)
    BY <1>1, <1>2, HandFacts
  <1>4. TypeOK'
    <2>1. Cardinality(S) \in Nat
      BY Number
    <2>2. QED
      BY <1>1, <1>2, <1>3, <2>1 DEF TypeOK, Set, States, Handed
  <1>5. ShippedOnce' /\ VendorHolds'
    <2>1. \A s \in Serials \ misnamed' :
            /\ s \notin misnamed
            /\ holder[s] # "supplier" => holder'[s] = holder[s]
            /\ holder'[s] \in {InTransit, "vendor"} => holder'[s] = holder[s]
      BY <1>2, <1>3 DEF Handed
    <2>2. ShippedOnce'
      BY <1>1, <1>2, <1>3, <2>1, DocsTyped DEF ShippedOnce, Handed
    <2>3. VendorHolds'
      BY <1>1, <1>2, <1>3, <2>1, DocsTyped DEF VendorHolds, Handed
    <2>4. QED
      BY <2>2, <2>3
  <1>6. BooksMatchShelf'
    <2>1. \A k \in Locations : onHand'[k] = Moved(onHand, Cardinality(S), "supplier", l)[k]
      BY <1>1, <1>2 DEF TypeOK, Moved
    <2>2. QED
      BY <1>1, <1>2, <2>1, BooksFollow
  <1>7. RecordedWhereItIs' /\ LocationIsLastInbound'
    BY <1>1, <1>2, <1>3 DEF RecordedWhereItIs, LocationIsLastInbound, AtVendor, Known, Set, TypeOK, Handed
  <1>8. QED
    BY <1>4, <1>5, <1>6, <1>7

\* A reservation moves nothing.
LEMMA ReserveStep ==
  ASSUME IInv, NEW s \in Serials, Reserve(s)
  PROVE  IInv'
  <1> USE DEF IInv
  <1>1. /\ state[s] = "sellable" /\ state' = [state EXCEPT ![s] = "reserved"]
        /\ UNCHANGED <<loc, cost, lastIn, saleRow, onHand, xfer, rma, holder, misnamed, slips>>
    BY DEF Reserve, Known, TypeOK, States, TRANSITIONS, ledger, units
  <1>2. TypeOK'
    BY <1>1 DEF TypeOK, States
  <1>3. ShippedOnce' /\ VendorHolds'
    BY <1>1 DEF ShippedOnce, VendorHolds, TypeOK
  <1>4. BooksMatchShelf'
    BY <1>1, BooksStay
  <1>5. RecordedWhereItIs' /\ LocationIsLastInbound'
    BY <1>1 DEF RecordedWhereItIs, LocationIsLastInbound, AtVendor, Known, TypeOK
  <1>6. QED
    BY <1>2, <1>3, <1>4, <1>5

\* A unit that goes from one place to another, neither of them in transit nor the
\* vendor, is on no document.
LEMMA OneUnitStep ==
  ASSUME IInv
  PROVE  \A s \in Serials : \A from : \A to \in Locations \cup Outside :
           /\ from # to /\ from \notin {InTransit, "vendor"} /\ to \notin {InTransit, "vendor"}
           /\ Hand({s}, from, to) /\ UNCHANGED <<xfer, rma>>
           /\ \A k \in Locations : onHand'[k] = Moved(onHand, 1, from, to)[k]
           => Handed({s}, from, to) /\ ShippedOnce' /\ VendorHolds' /\ BooksMatchShelf'
  <1> SUFFICES ASSUME NEW s \in Serials, NEW from, NEW to \in Locations \cup Outside,
                      from # to, from \notin {InTransit, "vendor"},
                      to \notin {InTransit, "vendor"},
                      Hand({s}, from, to), UNCHANGED <<xfer, rma>>,
                      \A k \in Locations : onHand'[k] = Moved(onHand, 1, from, to)[k]
               PROVE  Handed({s}, from, to) /\ ShippedOnce' /\ VendorHolds' /\ BooksMatchShelf'
    OBVIOUS
  <1>1. TypeOK /\ BooksMatchShelf /\ {s} \in SUBSET Serials
    BY DEF IInv
  <1>2. Handed({s}, from, to)
    BY <1>1, HandFacts
  <1>3. \A u \in Serials \ misnamed' :
          /\ u \notin misnamed
          /\ holder[u] \in {InTransit, "vendor"} => holder'[u] = holder[u]
          /\ holder'[u] \in {InTransit, "vendor"} => holder'[u] = holder[u]
    BY <1>2 DEF Handed
  <1>4. ShippedOnce'
    BY <1>1, <1>2, <1>3, DocsTyped DEF IInv, ShippedOnce, Handed
  <1>5. VendorHolds'
    BY <1>1, <1>2, <1>3, DocsTyped DEF IInv, VendorHolds, Handed
  <1>6. BooksMatchShelf'
    <2>1. Cardinality({s}) = 1
      BY OneUnit
    <2>2. QED
      BY <1>1, <2>1, BooksFollow
  <1>7. QED
    BY <1>2, <1>4, <1>5, <1>6

\* A sale books a unit out of the location that holds it.
LEMMA SellStep ==
  ASSUME IInv, NEW s \in Serials, NEW l \in Stores, Sell(s, l)
  PROVE  IInv'
  <1> USE DEF IInv
  <1>1. /\ state[s] \in {"sellable", "reserved"} /\ Hand({s}, l, "customer")
        /\ state' = [state EXCEPT ![s] = "sold"] /\ loc' = [loc EXCEPT ![s] = NoLoc]
        /\ saleRow' = [saleRow EXCEPT ![s] = TRUE]
        /\ onHand' = [onHand EXCEPT ![l] = @ - 1]
        /\ UNCHANGED <<cost, lastIn, xfer, rma>>
    BY DEF Sell
  <1>2. l \in Locations /\ l # "customer" /\ l # "vendor" /\ l # InTransit
        /\ "customer" \notin Locations /\ InTransit # "customer" /\ "customer" \in Outside
    BY LocationsAssumption, OutsideAssumption DEF Locations, Outside
  <1>3. \A k \in Locations : onHand'[k] = Moved(onHand, 1, l, "customer")[k]
    BY <1>1, <1>2 DEF TypeOK, Moved
  <1>4. Handed({s}, l, "customer") /\ ShippedOnce' /\ VendorHolds' /\ BooksMatchShelf'
    BY <1>1, <1>2, <1>3, OneUnitStep
  <1>5. TypeOK'
    <2>1. /\ holder' \in [Serials -> Locations \cup Outside]
          /\ misnamed' \subseteq Serials /\ slips' \in Nat
      BY <1>4 DEF Handed
    <2>2. TypeOK /\ onHand' \in [Locations -> Int]
      BY <1>1, <1>2 DEF TypeOK
    <2>3. state' \in [Serials -> States \cup {"unknown"}]
      BY <1>1 DEF TypeOK, States
    <2>4. QED
      BY <1>1, <1>2, <2>1, <2>2, <2>3 DEF TypeOK
  <1>6. RecordedWhereItIs' /\ LocationIsLastInbound'
    BY <1>1, <1>2, <1>4 DEF RecordedWhereItIs, LocationIsLastInbound, AtVendor, Known, TypeOK, Handed
  <1>7. QED
    BY <1>4, <1>5, <1>6

\* A return to scrap puts a unit on no shelf that is counted.
LEMMA ReturnToScrapStep ==
  ASSUME IInv, NEW s \in Serials, NEW noReceipt \in BOOLEAN, ReturnToScrap(s, noReceipt)
  PROVE  IInv'
  <1> USE DEF IInv
  <1>1. /\ state[s] = "sold" /\ Hand({s}, "customer", "scrap")
        /\ state' = [state EXCEPT ![s] = "scrapped"] /\ loc' = [loc EXCEPT ![s] = NoLoc]
        /\ UNCHANGED <<cost, lastIn, saleRow, onHand, xfer, rma>>
    BY DEF ReturnToScrap, Returnable, ledger
  <1>2. {"customer", "scrap"} \cap Locations = {} /\ InTransit \in Locations
        /\ "scrap" \in Outside
    BY OutsideAssumption DEF Locations, Outside
  <1>3. \A k \in Locations : onHand'[k] = Moved(onHand, 1, "customer", "scrap")[k]
    BY <1>1, <1>2 DEF Moved
  <1>4. Handed({s}, "customer", "scrap") /\ ShippedOnce' /\ VendorHolds' /\ BooksMatchShelf'
    BY <1>1, <1>2, <1>3, OneUnitStep
  <1>5. TypeOK'
    BY <1>1, <1>4 DEF TypeOK, States, Handed
  <1>6. RecordedWhereItIs' /\ LocationIsLastInbound'
    BY <1>1, <1>2, <1>4 DEF RecordedWhereItIs, LocationIsLastInbound, AtVendor, Known, TypeOK, Handed
  <1>7. QED
    BY <1>4, <1>5, <1>6

\* What a customer brings back is on no document.
LEMMA ReturnToStockStep ==
  ASSUME IInv, NEW s \in Serials, NEW l \in Stores, NEW noReceipt \in BOOLEAN,
         NEW disposition \in {"sellable", "hold", "vendor_rma"},
         ReturnToStock(s, l, disposition, noReceipt)
  PROVE  IInv'
  <1> USE DEF IInv
  <1>1. PICK new \in {"returned", "rma_pending"} :
        /\ state[s] # "unknown" /\ Hand({s}, "customer", l)
        /\ state' = [state EXCEPT ![s] = new] /\ loc' = [loc EXCEPT ![s] = l]
        /\ cost' = [cost EXCEPT ![s] = 0] /\ lastIn' = [lastIn EXCEPT ![s] = l]
        /\ onHand' = [onHand EXCEPT ![l] = @ + 1]
        /\ UNCHANGED <<saleRow, xfer, rma>>
    BY DEF ReturnToStock, Returnable, Known
  <1>2. l \in Locations /\ l # "customer" /\ l # "vendor" /\ l # InTransit
        /\ "customer" \notin Locations /\ InTransit # "customer"
    BY LocationsAssumption, OutsideAssumption DEF Locations, Outside
  <1>3. \A k \in Locations : onHand'[k] = Moved(onHand, 1, "customer", l)[k]
    BY <1>1, <1>2 DEF TypeOK, Moved
  <1>4. Handed({s}, "customer", l) /\ ShippedOnce' /\ VendorHolds' /\ BooksMatchShelf'
    BY <1>1, <1>2, <1>3, OneUnitStep
  <1>5. TypeOK'
    <2>1. /\ holder' \in [Serials -> Locations \cup Outside]
          /\ misnamed' \subseteq Serials /\ slips' \in Nat
      BY <1>4 DEF Handed
    <2>2. TypeOK /\ onHand' \in [Locations -> Int]
      BY <1>1, <1>2 DEF TypeOK
    <2>3. state' \in [Serials -> States \cup {"unknown"}]
      BY <1>1 DEF TypeOK, States
    <2>4. QED
      BY <1>1, <1>2, <2>1, <2>2, <2>3 DEF TypeOK
  <1>6. RecordedWhereItIs' /\ LocationIsLastInbound'
    BY <1>1, <1>2, <1>4 DEF RecordedWhereItIs, LocationIsLastInbound, AtVendor, Known, TypeOK, Handed
  <1>7. QED
    BY <1>4, <1>5, <1>6

\* A draft moves nothing.
LEMMA CreateTransferStep ==
  ASSUME IInv, NEW x \in Transfers, NEW src \in Stores, NEW dst \in Stores,
         NEW S \in SUBSET Serials, CreateTransfer(x, src, dst, S)
  PROVE  IInv'
  <1> USE DEF IInv
  <1> DEFINE doc == [state |-> "draft", src |-> src, dst |-> dst, serials |-> S]
  <1>1. /\ xfer[x] = NoTransfer /\ xfer' = [xfer EXCEPT ![x] = doc]
        /\ UNCHANGED <<state, loc, cost, lastIn, saleRow, onHand, rma, holder, misnamed, slips>>
    BY DEF CreateTransfer, serialRow, ledger, units
  <1>2. doc \in TransferDocs /\ doc.state # "shipped" /\ NoTransfer.state # "shipped"
    BY DEF TransferDocs, NoTransfer
  <1> HIDE DEF doc
  <1>3. TypeOK'
    BY <1>1, <1>2 DEF TypeOK
  <1>4. \A y \in Transfers : /\ xfer'[y].state = "shipped" <=> xfer[y].state = "shipped"
                             /\ xfer[y].state = "shipped" => xfer'[y] = xfer[y]
    BY <1>1, <1>2 DEF TypeOK
  <1>5. ShippedOnce' /\ VendorHolds'
    BY <1>1, <1>4 DEF ShippedOnce, VendorHolds
  <1>6. BooksMatchShelf'
    BY <1>1, BooksStay
  <1>7. RecordedWhereItIs' /\ LocationIsLastInbound'
    BY <1>1 DEF RecordedWhereItIs, LocationIsLastInbound, AtVendor, Known
  <1>8. QED
    BY <1>3, <1>5, <1>6, <1>7

\* What both legs of a transfer have in common.
LEMMA CarryFacts ==
  ASSUME IInv
  PROVE  \A S \in SUBSET Serials : \A from, to \in Locations : \A newState \in States :
           from # to /\ Carry(S, from, to, newState)
             => BooksMatchShelf' /\ Handed(S, from, to) /\ Carried(S, to)
  <1> SUFFICES ASSUME NEW S \in SUBSET Serials, NEW from \in Locations, NEW to \in Locations,
                      NEW newState \in States, from # to, Carry(S, from, to, newState)
               PROVE  BooksMatchShelf' /\ Handed(S, from, to) /\ Carried(S, to)
    OBVIOUS
  <1>1. /\ state' = Set(state, S, newState) /\ loc' = Set(loc, S, to)
        /\ lastIn' = Set(lastIn, S, to) /\ Hand(S, from, to)
        /\ onHand' = [onHand EXCEPT ![from] = @ - Cardinality(S), ![to] = @ + Cardinality(S)]
        /\ UNCHANGED <<cost, saleRow, rma>>
    BY DEF Carry
  <1>2. Cardinality(S) \in Nat
    BY Number
  <1>3. BooksMatchShelf'
    <2>1. \A k \in Locations : onHand'[k] = Moved(onHand, Cardinality(S), from, to)[k]
      BY <1>1 DEF IInv, TypeOK, Moved
    <2>2. TypeOK /\ BooksMatchShelf /\ from # to /\ Hand(S, from, to)
      BY <1>1 DEF IInv
    <2>3. QED
      BY <2>1, <2>2, BooksFollow
  <1>4. Handed(S, from, to)
    BY <1>1, HandFacts DEF IInv
  <1>5. Carried(S, to)
    <2>1. onHand' \in [Locations -> Int]
      BY <1>1, <1>2 DEF IInv, TypeOK
    <2>2. QED
      BY <1>1, <2>1 DEF IInv, TypeOK, Set, Carried
  <1>6. QED
    BY <1>3, <1>4, <1>5

\* Units at a store are on no shipped document.
LEMMA ShipStep ==
  ASSUME IInv, NEW x \in Transfers, Ship(x)
  PROVE  IInv'
  <1> DEFINE S == xfer[x].serials
             src == xfer[x].src
  <1>1. xfer[x].state = "draft" /\ S \in SUBSET Serials /\ src \in Stores
        /\ xfer[x] \in TransferDocs \ {NoTransfer}
    BY DocsTyped DEF Ship, IInv, TypeOK
  <1>2. src \in Locations /\ src # InTransit /\ InTransit \in Locations
        /\ src # "vendor" /\ InTransit # "vendor" /\ "in_transit" \in States
    BY <1>1, LocationsAssumption, OutsideAssumption DEF Locations, Outside, States
  <1>3. /\ Carry(S, src, InTransit, "in_transit")
        /\ xfer' = [xfer EXCEPT ![x].state = "shipped"]
    BY DEF Ship
  <1>4. /\ xfer'[x].state = "shipped" /\ xfer'[x].serials = S
        /\ \A y \in Transfers : y # x => xfer'[y] = xfer[y]
        /\ xfer' \in [Transfers -> TransferDocs]
    BY <1>1, <1>3 DEF IInv, TypeOK, TransferDocs, NoTransfer
  <1> HIDE DEF S, src
  <1>5. BooksMatchShelf' /\ Handed(S, src, InTransit) /\ Carried(S, InTransit)
    BY <1>1, <1>2, <1>3, CarryFacts
  <1>6. /\ misnamed \subseteq misnamed' /\ UNCHANGED rma
        /\ \A s \in Serials \ misnamed' :
             /\ s \notin misnamed
             /\ s \in S => /\ holder[s] = src /\ holder'[s] = InTransit
                           /\ loc'[s] = InTransit /\ lastIn'[s] = InTransit
             /\ s \notin S => /\ holder'[s] = holder[s] /\ state'[s] = state[s]
                              /\ loc'[s] = loc[s] /\ lastIn'[s] = lastIn[s]
    BY <1>5 DEF Handed, Carried
  <1>7. TypeOK'
    BY <1>4, <1>5 DEF IInv, TypeOK, Handed, Carried
  <1>8. ShippedOnce'
    <2>1. \A y \in Transfers : y # x /\ xfer[y].state = "shipped" =>
            xfer[y].serials \cap S \subseteq misnamed' /\ xfer[y].serials \subseteq Serials
      BY <1>1, <1>2, <1>6, DocsTyped DEF IInv, ShippedOnce
    <2>2. \A y \in Transfers : xfer'[y].state = "shipped" =>
            \A s \in xfer'[y].serials \ misnamed' : holder'[s] = InTransit
      BY <1>1, <1>4, <1>6, <2>1 DEF IInv, ShippedOnce
    <2>3. \A y, z \in Transfers :
            xfer'[y].state = "shipped" /\ xfer'[z].state = "shipped" /\ y # z
              => xfer'[y].serials \cap xfer'[z].serials \subseteq misnamed'
      BY <1>4, <1>6, <2>1 DEF IInv, ShippedOnce
    <2>4. \A s \in Serials \ misnamed' : holder'[s] = InTransit =>
            \E y \in Transfers : xfer'[y].state = "shipped" /\ s \in xfer'[y].serials
      BY <1>1, <1>4, <1>6 DEF IInv, ShippedOnce
    <2>5. QED
      BY <2>2, <2>3, <2>4 DEF ShippedOnce
  <1>9. VendorHolds'
    BY <1>2, <1>6, DocsTyped DEF IInv, VendorHolds
  <1>10. RecordedWhereItIs' /\ LocationIsLastInbound'
    <2>1. AtVendor' = AtVendor
      BY <1>6 DEF AtVendor
    <2>2. QED
      BY <1>2, <1>6, <2>1 DEF IInv, RecordedWhereItIs, LocationIsLastInbound, Known
  <1>11. QED
    BY <1>5, <1>7, <1>8, <1>9, <1>10 DEF IInv

\* The other shipped transfers hold other units.
LEMMA ReceiveStep ==
  ASSUME IInv, NEW x \in Transfers, Receive(x)
  PROVE  IInv'
  <1> DEFINE S == xfer[x].serials
             dst == xfer[x].dst
  <1>1. xfer[x].state = "shipped" /\ S \in SUBSET Serials /\ dst \in Stores
        /\ xfer[x] \in TransferDocs \ {NoTransfer}
    BY DocsTyped DEF Receive, IInv, TypeOK
  <1>2. dst \in Locations /\ dst # InTransit /\ InTransit \in Locations
        /\ dst # "vendor" /\ InTransit # "vendor" /\ "sellable" \in States
    BY <1>1, LocationsAssumption, OutsideAssumption DEF Locations, Outside, States
  <1>3. /\ Carry(S, InTransit, dst, "sellable")
        /\ xfer' = [xfer EXCEPT ![x].state = "received"]
    BY DEF Receive
  <1>4. /\ xfer'[x].state = "received"
        /\ \A y \in Transfers : y # x => xfer'[y] = xfer[y]
        /\ xfer' \in [Transfers -> TransferDocs]
    BY <1>1, <1>3 DEF IInv, TypeOK, TransferDocs, NoTransfer
  <1>5. \A y \in Transfers : y # x /\ xfer[y].state = "shipped" =>
          xfer[y].serials \cap S \subseteq misnamed /\ xfer[y].serials \subseteq Serials
    BY <1>1, DocsTyped DEF IInv, ShippedOnce
  <1>6. BooksMatchShelf' /\ Handed(S, InTransit, dst) /\ Carried(S, dst)
    BY <1>1, <1>2, <1>3, CarryFacts
  <1>7. /\ misnamed \subseteq misnamed' /\ UNCHANGED rma
        /\ \A s \in Serials \ misnamed' :
             /\ s \notin misnamed
             /\ s \in S => /\ holder[s] = InTransit /\ holder'[s] = dst
                           /\ loc'[s] = dst /\ lastIn'[s] = dst
             /\ s \notin S => /\ holder'[s] = holder[s] /\ state'[s] = state[s]
                              /\ loc'[s] = loc[s] /\ lastIn'[s] = lastIn[s]
    BY <1>6 DEF Handed, Carried
  <1>8. TypeOK'
    BY <1>4, <1>6 DEF IInv, TypeOK, Handed, Carried
  <1>9. ShippedOnce'
    <2>1. \A y \in Transfers : xfer'[y].state = "shipped" =>
            \A s \in xfer'[y].serials \ misnamed' : holder'[s] = InTransit
      BY <1>4, <1>5, <1>7 DEF IInv, ShippedOnce
    <2>2. \A y, z \in Transfers :
            xfer'[y].state = "shipped" /\ xfer'[z].state = "shipped" /\ y # z
              => xfer'[y].serials \cap xfer'[z].serials \subseteq misnamed'
      BY <1>4, <1>7 DEF IInv, ShippedOnce
    <2>3. \A s \in Serials \ misnamed' : holder'[s] = InTransit =>
            \E y \in Transfers : xfer'[y].state = "shipped" /\ s \in xfer'[y].serials
      <3> SUFFICES ASSUME NEW s \in Serials \ misnamed', holder'[s] = InTransit
                   PROVE  \E y \in Transfers : xfer'[y].state = "shipped" /\ s \in xfer'[y].serials
        OBVIOUS
      <3>1. s \notin S /\ holder[s] = InTransit /\ s \notin misnamed
        BY <1>2, <1>7
      <3>2. PICK y \in Transfers : xfer[y].state = "shipped" /\ s \in xfer[y].serials
        BY <3>1 DEF IInv, ShippedOnce
      <3>3. QED
        BY <1>4, <3>1, <3>2 DEF S
    <2>4. QED
      BY <2>1, <2>2, <2>3 DEF ShippedOnce
  <1>10. VendorHolds'
    BY <1>2, <1>7, DocsTyped DEF IInv, VendorHolds
  <1>11. RecordedWhereItIs' /\ LocationIsLastInbound'
    <2>1. AtVendor' = AtVendor
      BY <1>7 DEF AtVendor
    <2>2. QED
      BY <1>2, <1>7, <2>1 DEF IInv, RecordedWhereItIs, LocationIsLastInbound, Known
  <1>12. QED
    BY <1>6, <1>8, <1>9, <1>10, <1>11 DEF IInv

\* Opening an RMA moves nothing.
LEMMA CreateRmaStep ==
  ASSUME IInv, NEW r \in Rmas, NEW l \in Stores, NEW S \in SUBSET Serials, CreateRma(r, l, S)
  PROVE  IInv'
  <1> USE DEF IInv
  <1> DEFINE doc == [state |-> "open", holding |-> l, serials |-> S, credit |-> 0]
  <1>1. /\ rma[r] = NoRma /\ rma' = [rma EXCEPT ![r] = doc]
        /\ UNCHANGED <<state, loc, cost, lastIn, saleRow, onHand, xfer, holder, misnamed, slips>>
    BY DEF CreateRma, serialRow, ledger, units
  <1>2. doc \in RmaDocs /\ doc.state # "shipped" /\ NoRma.state # "shipped"
    BY DEF RmaDocs, NoRma
  <1> HIDE DEF doc
  <1>3. TypeOK'
    BY <1>1, <1>2 DEF TypeOK
  <1>4. \A q \in Rmas : /\ rma'[q].state = "shipped" <=> rma[q].state = "shipped"
                        /\ rma[q].state = "shipped" => rma'[q] = rma[q]
    BY <1>1, <1>2 DEF TypeOK
  <1>5. ShippedOnce' /\ VendorHolds'
    BY <1>1, <1>4 DEF ShippedOnce, VendorHolds
  <1>6. BooksMatchShelf'
    BY <1>1, BooksStay
  <1>7. RecordedWhereItIs' /\ LocationIsLastInbound'
    <2>1. AtVendor' = AtVendor
      BY <1>4 DEF AtVendor
    <2>2. QED
      BY <1>1, <2>1 DEF RecordedWhereItIs, LocationIsLastInbound, Known
  <1>8. QED
    BY <1>3, <1>5, <1>6, <1>7

\* The units leave the holding location, which is where their rows already say
\* they are.
LEMMA ShipRmaStep ==
  ASSUME IInv, NEW r \in Rmas, ShipRma(r)
  PROVE  IInv'
  <1> DEFINE S == rma[r].serials
             l == rma[r].holding
  <1>1. rma[r].state = "open" /\ S \in SUBSET Serials /\ l \in Stores
        /\ rma[r] \in RmaDocs \ {NoRma}
    BY DocsTyped DEF ShipRma, IInv, TypeOK
  <1>2. l \in Locations /\ l # InTransit /\ l # NoLoc /\ l # "vendor"
        /\ "vendor" \notin Locations /\ InTransit # "vendor" /\ "vendor" \in Outside
    BY <1>1, LocationsAssumption, OutsideAssumption DEF Locations, Outside
  <1>3. /\ loc' = Set(loc, S, l) /\ Hand(S, l, "vendor")
        /\ onHand' = [onHand EXCEPT ![l] = @ - Cardinality(S)]
        /\ rma' = [rma EXCEPT ![r].state = "shipped"]
        /\ UNCHANGED <<state, cost, lastIn, saleRow, xfer>>
    BY DEF ShipRma, ledger
  <1>4. /\ rma'[r].state = "shipped" /\ rma'[r].serials = S
        /\ \A q \in Rmas : q # r => rma'[q] = rma[q]
        /\ rma' \in [Rmas -> RmaDocs]
    BY <1>1, <1>3 DEF IInv, TypeOK, RmaDocs, NoRma
  <1>5. Cardinality(S) \in Nat
    BY <1>1, Number
  <1> HIDE DEF S, l
  <1>6. Handed(S, l, "vendor")
    BY <1>1, <1>2, <1>3, HandFacts DEF IInv
  <1>7. TypeOK'
    <2>1. onHand' \in [Locations -> Int]
      BY <1>2, <1>3, <1>5 DEF IInv, TypeOK
    <2>2. loc' \in [Serials -> Locations \cup {NoLoc}]
      BY <1>2, <1>3 DEF IInv, TypeOK, Set
    <2>3. QED
      BY <1>3, <1>4, <1>6, <2>1, <2>2 DEF IInv, TypeOK, Handed
  <1>8. BooksMatchShelf'
    <2>1. \A k \in Locations : onHand'[k] = Moved(onHand, Cardinality(S), l, "vendor")[k]
      BY <1>2, <1>3 DEF IInv, TypeOK, Moved
    <2>2. TypeOK /\ BooksMatchShelf
      BY DEF IInv
    <2>3. QED
      BY <1>1, <1>2, <1>3, <2>1, <2>2, BooksFollow
  <1>9. /\ misnamed \subseteq misnamed'
        /\ \A s \in Serials \ misnamed' :
          /\ s \notin misnamed
          /\ s \in S => holder[s] = l /\ holder'[s] = "vendor" /\ loc'[s] = l
          /\ s \notin S => holder'[s] = holder[s] /\ loc'[s] = loc[s]
    BY <1>3, <1>6 DEF Set, Handed
  <1>10. ShippedOnce'
    BY <1>2, <1>3, <1>9, DocsTyped DEF IInv, ShippedOnce
  <1>11. VendorHolds'
    BY <1>1, <1>4, <1>9, DocsTyped DEF IInv, VendorHolds
  <1>12. RecordedWhereItIs' /\ LocationIsLastInbound'
    <2>1. AtVendor' = AtVendor \cup S
      BY <1>1, <1>4 DEF AtVendor
    <2>2. \A s \in S \ misnamed' : s \notin AtVendor
      BY <1>1, <1>2, <1>9 DEF IInv, VendorHolds, AtVendor
    <2>3. \A s \in S \ misnamed' : loc[s] = l
      BY <1>1, <1>2, <1>9, <2>2 DEF IInv, RecordedWhereItIs
    <2>4. RecordedWhereItIs'
      BY <1>9, <2>1 DEF IInv, RecordedWhereItIs
    <2>5. LocationIsLastInbound'
      BY <1>1, <1>2, <1>3, <1>9, <2>3 DEF IInv, LocationIsLastInbound, Known
    <2>6. QED
      BY <2>4, <2>5
  <1>13. QED
    BY <1>7, <1>8, <1>10, <1>11, <1>12 DEF IInv

\* What the vendor credits stays with the vendor.
LEMMA CloseRmaStep ==
  ASSUME IInv, NEW r \in Rmas, CloseRma(r)
  PROVE  IInv'
  <1> DEFINE S == rma[r].serials
             paid == {s \in S : cost[s] # 0}
  <1>1. rma[r].state = "shipped" /\ S \in SUBSET Serials
        /\ rma[r] \in RmaDocs \ {NoRma}
    BY DocsTyped DEF CloseRma, IInv, TypeOK
  <1>2. /\ \A s \in S \ misnamed : holder[s] = "vendor"
        /\ \A s \in S : state[s] = "rma_pending"
        /\ state' = Set(state, S, "rma_closed") /\ loc' = Set(loc, S, NoLoc)
        /\ rma' = [rma EXCEPT ![r].state = "closed",
                              ![r].credit = UnitCost * Cardinality(paid)]
        /\ UNCHANGED <<cost, lastIn, saleRow, onHand, xfer, holder, misnamed, slips>>
    BY <1>1 DEF CloseRma, IInv, VendorHolds, ledger, units
  <1>3. UnitCost * Cardinality(paid) \in Nat
    <2>1. Cardinality(paid) \in Nat
      BY <1>1, Number
    <2>2. QED
      BY <2>1, CostAssumption
  <1> HIDE DEF paid
  <1>4. /\ rma'[r].state = "closed" /\ rma' \in [Rmas -> RmaDocs]
        /\ \A q \in Rmas : q # r => rma'[q] = rma[q]
    BY <1>1, <1>2, <1>3 DEF IInv, TypeOK, RmaDocs, NoRma
  <1> HIDE DEF S
  <1>5. TypeOK'
    BY <1>1, <1>2, <1>4 DEF IInv, TypeOK, Set, States
  <1>6. BooksMatchShelf'
    BY <1>2, BooksStay
  <1>7. \A s \in Serials :
          /\ s \in S => state[s] = "rma_pending" /\ state'[s] = "rma_closed" /\ loc'[s] = NoLoc
          /\ s \notin S => state'[s] = state[s] /\ loc'[s] = loc[s]
    BY <1>2 DEF Set
  <1>8. "vendor" \notin Locations
    BY OutsideAssumption DEF Outside
  <1>9. ShippedOnce' /\ VendorHolds'
    BY <1>2, <1>4, DocsTyped DEF IInv, ShippedOnce, VendorHolds
  <1>10. RecordedWhereItIs' /\ LocationIsLastInbound'
    <2>1. \A s \in Serials : s \in AtVendor => s \in AtVendor' \/ s \in S
      BY <1>4 DEF AtVendor, S
    <2>2. RecordedWhereItIs'
      BY <1>2, <1>7, <1>8, <2>1 DEF IInv, RecordedWhereItIs
    <2>3. LocationIsLastInbound'
      BY <1>2, <1>7 DEF IInv, LocationIsLastInbound, Known
    <2>4. QED
      BY <2>2, <2>3
  <1>11. QED
    BY <1>5, <1>6, <1>9, <1>10 DEF IInv

\* Every step keeps the invariant.
LEMMA NextStep == IInv /\ [Next]_vars => IInv'
  <1> SUFFICES ASSUME IInv, [Next]_vars PROVE IInv'
    OBVIOUS
  <1>1. CASE Next
    BY <1>1, PostReceiptStep, ReserveStep, SellStep, ReturnToScrapStep, ReturnToStockStep,
       CreateTransferStep, ShipStep, ReceiveStep, CreateRmaStep, ShipRmaStep, CloseRmaStep
       DEF Next
  <1>2. CASE UNCHANGED vars
    BY <1>2 DEF vars, serialRow, ledger, IInv, TypeOK, ShippedOnce,
                VendorHolds, BooksMatchShelf, RecordedWhereItIs, LocationIsLastInbound,
                Known, AtVendor
  <1>3. QED
    BY <1>1, <1>2

-----------------------------------------------------------------------------
(* The theorems. *)

\* The invariant the theorems rest on.
THEOREM InductiveInvariant == Spec => []IInv
  BY InitIInv, NextStep, PTL DEF Spec

\* Rows, balances and documents are well typed, whoever names what.
THEOREM TypeCorrect == Spec => []TypeOK
  <1>1. IInv => TypeOK
    BY DEF IInv
  <1>2. QED
    BY <1>1, InductiveInvariant, PTL

\* Every balance is the number of units standing at its location, give or take the
\* slips: with none of them, exactly.
THEOREM BooksAreRight == Spec => []BooksMatchShelf
  <1>1. IInv => BooksMatchShelf
    BY DEF IInv
  <1>2. QED
    BY <1>1, InductiveInvariant, PTL

\* current_location_id is where the unit is (FR-029), for all that were never
\* misnamed.
THEOREM LocationsAreRight == Spec => []RecordedWhereItIs
  <1>1. IInv => RecordedWhereItIs
    BY DEF IInv
  <1>2. QED
    BY <1>1, InductiveInvariant, PTL

\* Units in transit, the misnamed apart, are those of exactly one shipped transfer.
THEOREM TransitIsExplained == Spec => []InTransitExplained
  <1>1. IInv => InTransitExplained
    BY DEF IInv, ShippedOnce, InTransitExplained
  <1>2. QED
    BY <1>1, InductiveInvariant, PTL

\* The daily comparison of locations with the ledger (SC-008) finds misnamed units
\* only.
THEOREM LocationMatchesLedger == Spec => []LocationIsLastInbound
  <1>1. IInv => LocationIsLastInbound
    BY DEF IInv
  <1>2. QED
    BY <1>1, InductiveInvariant, PTL
=============================================================================
