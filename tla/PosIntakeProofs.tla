-------------------------- MODULE PosIntakeProofs ---------------------------
(***************************************************************************)
(* Proofs about PosIntake and OfflineQueue.  Outcome folds Envelope over   *)
(* the batch; the first section shows that this is a loop over the         *)
(* positions 1, 2, ..., so that a property of the request that Start has   *)
(* and Envelope preserves is one of Outcome: if it were not, there would   *)
(* be a first position at which it fails.                                  *)
(***************************************************************************)
EXTENDS OfflineQueue, SumTheorems

-----------------------------------------------------------------------------
(* The loop of post_sales. *)

\* The request after the envelopes at the positions s, given those before.
LoopStep(g, b, rls, s) ==
  IF s = {} THEN Start
  ELSE Envelope(g[s \ {Max(s)}], b[Max(s)], Len(b) = 1, rls)

IsLoop(g, b, rls, P) == g = [s \in P |-> LoopStep(g, b, rls, s)]

\* A finite set of positions has a last one.
LEMMA MaxIn ==
  ASSUME NEW n \in Nat, NEW s \in SUBSET (1..n), s # {}
  PROVE  Max(s) \in s /\ \A i \in s : i <= Max(s)
  <1> DEFINE T == {j \in 0..n : n - j \in s}
  <1>1. T \in SUBSET Nat /\ T # {}
    <2>1. PICK i \in s : TRUE
      OBVIOUS
    <2>2. i \in Nat /\ i <= n /\ n - i \in 0..n /\ n - (n - i) = i
      OBVIOUS
    <2>3. n - (n - i) \in s
      BY <2>2
    <2>4. n - i \in T
      BY <2>2, <2>3
    <2>5. T \in SUBSET Nat
      OBVIOUS
    <2>6. QED
      BY <2>4, <2>5
  <1>2. PICK j \in T : \A i \in T : j <= i
    <2> HIDE DEF T
    <2>1. QED
      BY <1>1, LeastNat
  <1>3. n - j \in s /\ \A i \in s : i <= n - j
    <2>1. \A i \in s : n - i \in T
      OBVIOUS
    <2>2. QED
      BY <1>2, <2>1
  <1>4. \E x \in s : \A y \in s : x >= y
    BY <1>3
  <1>5. QED
    BY <1>4 DEF Max

\* The fold over a prefix family can be carried one position further, and so to
\* the whole batch.
LEMMA LoopExtends ==
  ASSUME NEW l \in Nat, NEW b, NEW rls, NEW n \in Nat, NEW g,
         IsLoop(g, b, rls, UpTo(1..l, n))
  PROVE  \E h : IsLoop(h, b, rls, UpTo(1..l, n + 1))
  <1> DEFINE h == [s \in UpTo(1..l, n + 1) |-> LoopStep(g, b, rls, s)]
  <1>1. ASSUME NEW s \in UpTo(1..l, n + 1)
        PROVE  LoopStep(g, b, rls, s) = LoopStep(h, b, rls, s)
    <2>1. CASE s = {}
      BY <2>1 DEF LoopStep
    <2>2. CASE s # {}
      <3> DEFINE r == s \ {Max(s)}
      <3>1. Max(s) \in s
        BY <2>2, MaxIn DEF UpTo
      <3>2. r \in UpTo(1..l, n) /\ r \in UpTo(1..l, n + 1)
        <4>1. IsFiniteSet(1..l)
          BY FS_Interval
        <4>2. QED
          BY <3>1, <4>1, UpToLess
      <3>3. g[r] = LoopStep(g, b, rls, r) /\ h[r] = LoopStep(g, b, rls, r)
        BY <3>2 DEF IsLoop
      <3> HIDE DEF h
      <3>4. QED
        BY <3>3, <2>2 DEF LoopStep
    <2>3. QED
      BY <2>1, <2>2
  <1>2. IsLoop(h, b, rls, UpTo(1..l, n + 1))
    BY <1>1 DEF IsLoop
  <1>3. QED
    BY <1>2

\* The function that the fold of SequencesExt chooses exists.
LEMMA LoopExists ==
  ASSUME NEW l \in Nat, NEW b, NEW rls
  PROVE  \E g : IsLoop(g, b, rls, SUBSET (1..l))
  <1> DEFINE Bad == {n \in Nat : ~ \E g : IsLoop(g, b, rls, UpTo(1..l, n))}
  <1>1. IsFiniteSet(1..l)
    BY FS_Interval
  <1>2. ASSUME Bad # {} PROVE FALSE
    <2>1. Bad \in SUBSET Nat
      OBVIOUS
    <2>2. PICK n \in Bad : \A i \in Bad : n <= i
      <3> HIDE DEF Bad
      <3>1. QED
        BY <1>2, <2>1, LeastNat
    <2>3. n # 0
      <3> DEFINE g == [s \in UpTo(1..l, 0) |-> Start]
      <3>1. IsLoop(g, b, rls, UpTo(1..l, 0))
        BY <1>1, UpToZero DEF LoopStep, IsLoop
      <3>2. QED
        BY <2>2, <3>1
    <2>4. n - 1 \in Nat /\ n - 1 \notin Bad
      <3> HIDE DEF Bad
      <3>1. QED
        BY <2>1, <2>2, <2>3
    <2>5. PICK g : IsLoop(g, b, rls, UpTo(1..l, n - 1))
      BY <2>4
    <2>6. \E h : IsLoop(h, b, rls, UpTo(1..l, (n - 1) + 1))
      BY <2>4, <2>5, LoopExtends
    <2>7. (n - 1) + 1 = n
      BY <2>1, <2>2
    <2>8. QED
      BY <2>2, <2>6, <2>7
  <1>3. PICK g : IsLoop(g, b, rls, UpTo(1..l, Cardinality(1..l)))
    BY <1>1, <1>2, UpToAll
  <1>4. QED
    BY <1>1, <1>3, UpToAll

\* The loop runs the envelopes of a batch one after the other.
Runs(h, b, rls) ==
  /\ h[0] = Start
  /\ \A n \in 1..Len(b) : h[n] = Envelope(h[n - 1], b[n], Len(b) = 1, rls)

\* Outcome is the state such a loop ends in.
LEMMA OutcomeLoops ==
  ASSUME NEW b \in Seq(Sales), NEW rls, Range(b) \subseteq Whole
  PROVE  \E h : Runs(h, b, rls) /\ Outcome(b, rls) = h[Len(b)]
  <1> DEFINE g == CHOOSE g : IsLoop(g, b, rls, SUBSET (1..Len(b)))
             h == [n \in 0..Len(b) |-> g[1..n]]
  <1>1. Len(b) \in Nat /\ DOMAIN b = 1..Len(b)
    OBVIOUS
  <1>2. IsLoop(g, b, rls, SUBSET (1..Len(b)))
    BY <1>1, LoopExists
  <1>3. Outcome(b, rls) = g[1..Len(b)]
    BY <1>1 DEF Outcome, FoldLeft, MapThenFoldSet, IsLoop, LoopStep
  <1> HIDE DEF g
  <1>4. h[0] = Start
    <2>1. 1..0 = {} /\ 0 \in 0..Len(b)
      BY <1>1
    <2>2. QED
      BY <1>2, <2>1 DEF IsLoop, LoopStep
  <1>5. ASSUME NEW n \in 1..Len(b)
        PROVE  h[n] = Envelope(h[n - 1], b[n], Len(b) = 1, rls)
    <2>1. n \in Nat /\ 1 <= n /\ n <= Len(b) /\ n \in 1..n
      BY <1>1
    <2>2. 1..n \in SUBSET (1..Len(b)) /\ 1..n \in SUBSET (1..n) /\ 1..n # {}
      <3>1. \A i \in 1..n : i \in 1..Len(b)
        BY <1>1, <2>1
      <3>2. QED
        BY <2>1, <3>1
    <2>3. Max(1..n) \in 1..n /\ n <= Max(1..n)
      BY <2>1, <2>2, MaxIn
    <2>4. Max(1..n) = n
      BY <2>1, <2>3
    <2>5. (1..n) \ {n} = 1..(n - 1) /\ n - 1 \in 0..Len(b) /\ n \in 0..Len(b)
      BY <1>1, <2>1
    <2>6. g[1..n] = LoopStep(g, b, rls, 1..n)
      BY <1>2, <2>2 DEF IsLoop
    <2>7. QED
      BY <2>2, <2>4, <2>5, <2>6 DEF LoopStep
  <1>6. Len(b) \in 0..Len(b)
    BY <1>1
  <1>7. Runs(h, b, rls) /\ Outcome(b, rls) = h[Len(b)]
    <2>1. Outcome(b, rls) = h[Len(b)]
      BY <1>3, <1>6
    <2> HIDE DEF h
    <2>2. QED
      BY <1>4, <1>5, <2>1 DEF Runs
  <1>8. QED
    BY <1>7

-----------------------------------------------------------------------------
(* What the loop preserves. *)

Codes == {"200", "400", "409", "422", "500"}
Results == [sale : Sales, status : {"accepted", "already_processed"}]

TxType == [onHand : [Skus -> Nat], rows : [Sales -> Nat], results : SUBSET Results,
           code : Codes, tenant : BOOLEAN]

\* The units of k on the ledger rows r.
Taken(r, k) == SumFunction([s \in Sales |-> r[s] * Demand[s][k]])

\* Stock h accounts for the ledger rows r, each sale at most once.
Balanced(h, r) ==
  /\ \A s \in Sales : r[s] <= 1
  /\ \A k \in Skus : h[k] = Opening[k] + supplied[k] - Taken(r, k)

\* The request tx has seen the sales of S, and no other.
Seen(tx, S) == \A s \in Sales : tx.rows[s] # rows[s] => s \in S

\* Rows are added to what is committed, never taken away; a result
\* "already_processed" is about a row that was committed before or a sale of D,
\* those the batch lists again; and until there is such a result, the accepted
\* sales have their rows.
Faithful(tx, D) ==
  /\ \A s \in Sales : tx.rows[s] >= rows[s]
  /\ \A r \in tx.results :
       r.status = "already_processed" => rows[r.sale] > 0 \/ r.sale \in D
  /\ (\A r \in tx.results : r.status # "already_processed") =>
       \A r \in tx.results : r.status = "accepted" => tx.rows[r.sale] > 0

Good(tx, D) == tx \in TxType /\ Balanced(tx.onHand, tx.rows) /\ Faithful(tx, D)

IInv == TypeOK /\ EachSaleOnce

\* The property in the form the loop preserves.
LEMMA EachSaleOnceIsBalanced == EachSaleOnce <=> Balanced(onHand, rows)
  BY DEF EachSaleOnce, Balanced, Taken

\* What Envelope does to a request.
LEMMA EnvelopeCases ==
  ASSUME NEW tx, NEW s, NEW alone, NEW rls
  PROVE  LET e == Envelope(tx, s, alone, rls) IN
         \/ tx.code # "200" /\ e = tx
         \/ e = Fail(tx, "400")
         \/ e = Fail(tx, "409")
         \/ tx.rows[s] > 0 /\ e = Duplicate(tx, s, alone, rls)
         \/ /\ ~ (tx.rows[s] > 0)
            /\ \A k \in Sold(s) : Covered(tx, s, k)
            /\ e = Accept(tx, s)
  BY DEF Envelope

\* The rows of two states of the ledger that differ in sale s, by one.
LEMMA TakenMore ==
  ASSUME NEW r \in [Sales -> Nat], NEW s \in Sales, r[s] = 0, NEW k \in Skus
  PROVE  /\ Taken(r, k) \in Int
         /\ Taken([r EXCEPT ![s] = @ + 1], k) = Taken(r, k) + Demand[s][k]
  <1> DEFINE q == [r EXCEPT ![s] = @ + 1]
             f == [u \in Sales |-> r[u] * Demand[u][k]]
             h == [u \in Sales |-> q[u] * Demand[u][k]]
  <1>1. \A u \in Sales : r[u] \in Int /\ q[u] \in Int /\ Demand[u][k] \in Int
    BY SalesAssumption
  <1>2. \A m, n \in Int : m * n \in Int
    OBVIOUS
  <1>3. f \in [Sales -> Int] /\ h \in [Sales -> Int]
    BY <1>1, <1>2
  <1>4. IsFiniteSet(Sales) /\ Sales \in SUBSET Sales
    BY SalesAssumption
  <1>5. \A u \in Sales \ {s} : f[u] = h[u]
    OBVIOUS
  <1>6. f[s] = 0 /\ h[s] = Demand[s][k]
    <2>1. q[s] = 1
      OBVIOUS
    <2>2. \A n \in Int : 0 * n = 0 /\ 1 * n = n
      OBVIOUS
    <2>3. QED
      BY <1>1, <2>1, <2>2
  <1>7. Taken(r, k) = SumFunctionOnSet(f, Sales) /\ Taken(q, k) = SumFunctionOnSet(h, Sales)
    BY DEF Taken, SumFunction
  <1> HIDE DEF f, h, q
  <1>8. SumFunctionOnSet(f, Sales) \in Int
    BY <1>3, <1>4, SumType
  <1>9. SumFunctionOnSet(h, Sales) = SumFunctionOnSet(f, Sales) + (h[s] - f[s])
    BY <1>3, <1>4, <1>5, SumChange
  <1>10. Taken(q, k) = Taken(r, k) + Demand[s][k]
    BY <1>1, <1>6, <1>7, <1>8, <1>9
  <1>11. QED
    BY <1>7, <1>8, <1>10 DEF q

\* The records the loop makes, field by field.
LEMMA AcceptFields ==
  ASSUME NEW tx \in TxType, NEW s \in Sales
  PROVE  LET e == Accept(tx, s) IN
         /\ e.onHand = [k \in Skus |-> tx.onHand[k] - Demand[s][k]]
         /\ e.rows = [tx.rows EXCEPT ![s] = @ + 1]
         /\ e.results = Result(tx, s, "accepted")
         /\ e.code = tx.code
         /\ e \in [onHand : {e.onHand}, rows : {e.rows}, results : {e.results},
                   code : {tx.code}, tenant : {tx.tenant}]
  BY DEF TxType, Accept

\* The same of a duplicate.
LEMMA DuplicateFields ==
  ASSUME NEW tx \in TxType, NEW s \in Sales, NEW alone, NEW rls
  PROVE  LET e == Duplicate(tx, s, alone, rls) IN
         /\ e.onHand = onHand
         /\ e.rows = rows
         /\ e.results = Result(tx, s, "already_processed")
         /\ e.code = IF alone THEN "500" ELSE tx.code
         /\ e \in [onHand : {e.onHand}, rows : {e.rows}, results : {e.results},
                   code : {e.code}, tenant : {~rls}]
  BY DEF TxType, Duplicate

\* An accepted envelope takes its stock and adds its row.
LEMMA AcceptStep ==
  ASSUME IInv, NEW D, NEW tx, Good(tx, D), NEW s \in Sales, ~ (tx.rows[s] > 0),
         \A k \in Sold(s) : Covered(tx, s, k)
  PROVE  Good(Accept(tx, s), D)
  <1> DEFINE e == Accept(tx, s)
  <1>1. /\ e.onHand = [k \in Skus |-> tx.onHand[k] - Demand[s][k]]
        /\ e.rows = [tx.rows EXCEPT ![s] = @ + 1]
        /\ e.results = Result(tx, s, "accepted")
        /\ e \in [onHand : {e.onHand}, rows : {e.rows}, results : {e.results},
                  code : {tx.code}, tenant : {tx.tenant}]
    BY AcceptFields DEF Good
  <1>2. /\ tx.onHand \in [Skus -> Nat] /\ tx.rows \in [Sales -> Nat]
        /\ tx.results \in SUBSET Results /\ tx.code \in Codes /\ tx.tenant \in BOOLEAN
    BY DEF Good, TxType
  <1> HIDE DEF e
  <1>3. \A k \in Skus : tx.onHand[k] - Demand[s][k] \in Nat
    <2> TAKE k \in Skus
    <2>1. tx.onHand[k] \in Nat /\ Demand[s][k] \in Nat
      BY <1>2, SalesAssumption
    <2>2. Demand[s][k] > 0 => tx.onHand[k] >= Demand[s][k]
      BY DEF Sold, Covered
    <2>3. QED
      BY <2>1, <2>2
  <1>4. e.onHand \in [Skus -> Nat] /\ e.rows \in [Sales -> Nat]
    BY <1>1, <1>2, <1>3
  <1>5. e.results \in SUBSET Results
    BY <1>1, <1>2 DEF Result, Results
  <1>6. e \in TxType
    BY <1>1, <1>2, <1>4, <1>5 DEF TxType
  <1>7. tx.rows[s] = 0
    BY <1>2
  <1>8. Balanced(e.onHand, e.rows)
    <2>1. \A u \in Sales : e.rows[u] <= 1
      BY <1>1, <1>2, <1>7 DEF Good, Balanced
    <2>2. ASSUME NEW k \in Skus
          PROVE  e.onHand[k] = Opening[k] + supplied[k] - Taken(e.rows, k)
      <3>1. /\ Taken(tx.rows, k) \in Int
            /\ Taken(e.rows, k) = Taken(tx.rows, k) + Demand[s][k]
        BY <1>1, <1>2, <1>7, TakenMore
      <3>2. tx.onHand[k] = Opening[k] + supplied[k] - Taken(tx.rows, k)
        BY DEF Good, Balanced
      <3>3. e.onHand[k] = tx.onHand[k] - Demand[s][k]
        BY <1>1
      <3>4. Opening[k] \in Nat /\ supplied[k] \in Nat /\ Demand[s][k] \in Nat
        BY SalesAssumption DEF IInv, TypeOK
      <3>5. QED
        BY <3>1, <3>2, <3>3, <3>4
    <2>3. QED
      BY <2>1, <2>2 DEF Balanced
  <1>9. Faithful(e, D)
    <2>1. \A u \in Sales : e.rows[u] >= rows[u]
      BY <1>1, <1>2 DEF Good, Faithful, IInv, TypeOK
    <2>2. \A r \in e.results :
            r.status = "already_processed" => rows[r.sale] > 0 \/ r.sale \in D
      BY <1>1 DEF Result, Good, Faithful
    <2>3. ASSUME \A r \in e.results : r.status # "already_processed",
                 NEW r \in e.results, r.status = "accepted"
          PROVE  e.rows[r.sale] > 0
      <3>1. \A q \in tx.results : q \in e.results
        BY <1>1 DEF Result
      <3>2. \A q \in tx.results : q.status = "accepted" => tx.rows[q.sale] > 0
        BY <2>3, <3>1 DEF Good, Faithful
      <3>3. CASE r \in tx.results
        <4>1. tx.rows[r.sale] > 0 /\ r.sale \in Sales
          BY <1>2, <2>3, <3>2, <3>3 DEF Results
        <4>2. QED
          BY <1>1, <1>2, <4>1
      <3>4. CASE r \notin tx.results
        <4>1. r.sale = s
          BY <1>1, <2>3, <3>4 DEF Result
        <4>2. QED
          BY <1>1, <1>2, <4>1
      <3>5. QED
        BY <3>3, <3>4
    <2>4. QED
      BY <2>1, <2>2, <2>3 DEF Faithful
  <1>10. QED
    BY <1>6, <1>8, <1>9 DEF Good, e

\* A duplicate starts over from what is committed.  The row it ran into is
\* committed if the batch has not sold s before.
LEMMA DuplicateStep ==
  ASSUME IInv, NEW D, NEW tx, Good(tx, D), NEW s \in Sales, tx.rows[s] > 0,
         tx.rows[s] = rows[s] \/ s \in D, NEW alone, NEW rls \in BOOLEAN
  PROVE  Good(Duplicate(tx, s, alone, rls), D) /\ Duplicate(tx, s, alone, rls).rows = rows
  <1> DEFINE e == Duplicate(tx, s, alone, rls)
  <1>1. /\ e.onHand = onHand /\ e.rows = rows
        /\ e.results = Result(tx, s, "already_processed")
        /\ e.code = IF alone THEN "500" ELSE tx.code
        /\ e \in [onHand : {e.onHand}, rows : {e.rows}, results : {e.results},
                  code : {e.code}, tenant : {~rls}]
    BY DuplicateFields DEF Good
  <1> HIDE DEF e
  <1>2. tx.results \in SUBSET Results /\ tx.code \in Codes
    BY DEF Good, TxType
  <1>3. e.results \in SUBSET Results
    BY <1>1, <1>2 DEF Result, Results
  <1>4. e.code \in Codes
    BY <1>1, <1>2 DEF Codes
  <1>4a. (~rls) \in BOOLEAN
    BY Zenon
  <1>5. e \in TxType
    BY <1>1, <1>3, <1>4, <1>4a DEF TxType, IInv, TypeOK
  <1>6. Balanced(e.onHand, e.rows)
    BY <1>1, EachSaleOnceIsBalanced DEF IInv
  <1>7. Faithful(e, D)
    <2>1. \A u \in Sales : e.rows[u] >= rows[u]
      BY <1>1 DEF IInv, TypeOK
    <2>2. \A r \in e.results :
            r.status = "already_processed" => rows[r.sale] > 0 \/ r.sale \in D
      BY <1>1 DEF Result, Good, Faithful
    <2>3. \E r \in e.results : r.status = "already_processed"
      <3> DEFINE q == [sale |-> s, status |-> "already_processed"]
      <3>1. q \in e.results /\ q.status = "already_processed"
        BY <1>1 DEF Result
      <3> HIDE DEF q
      <3>2. QED
        BY <3>1
    <2>4. QED
      BY <2>1, <2>2, <2>3 DEF Faithful
  <1>8. QED
    BY <1>1, <1>5, <1>6, <1>7 DEF Good, e

\* One envelope more, of a sale the request has not seen or that is listed again.
LEMMA EnvelopeStep ==
  ASSUME IInv, NEW D, NEW tx, Good(tx, D), NEW S, Seen(tx, S),
         NEW s \in Sales, s \notin S \/ s \in D,
         NEW alone, NEW rls \in BOOLEAN
  PROVE  LET e == Envelope(tx, s, alone, rls) IN Good(e, D) /\ Seen(e, S \cup {s})
  <1> DEFINE e == Envelope(tx, s, alone, rls)
  <1> SUFFICES Good(e, D) /\ Seen(e, S \cup {s})
    OBVIOUS
  <1>1. tx.rows[s] = rows[s] \/ s \in D
    BY DEF Seen
  <1>2. CASE e = tx
    BY <1>2 DEF Seen
  <1>3. ASSUME NEW code \in {"400", "409"}, e = Fail(tx, code)
        PROVE  Good(e, D) /\ Seen(e, S \cup {s})
    <2>1. e.onHand = tx.onHand /\ e.rows = tx.rows /\ e.results = tx.results /\ e \in TxType
      BY <1>3 DEF Fail, Good, TxType, Codes
    <2> HIDE DEF e
    <2>2. Balanced(e.onHand, e.rows) /\ Seen(e, S \cup {s})
      BY <2>1 DEF Good, Seen
    <2>3. Faithful(e, D)
      BY <2>1 DEF Good, Faithful
    <2>4. QED
      BY <2>1, <2>2, <2>3 DEF Good
  <1>4. CASE tx.rows[s] > 0 /\ e = Duplicate(tx, s, alone, rls)
    <2>1. Good(e, D) /\ e.rows = rows
      BY <1>1, <1>4, DuplicateStep
    <2> HIDE DEF e
    <2>2. QED
      BY <2>1 DEF Seen
  <1>5. CASE /\ ~ (tx.rows[s] > 0)
             /\ \A k \in Sold(s) : Covered(tx, s, k)
             /\ e = Accept(tx, s)
    <2>1. Good(e, D)
      BY <1>5, AcceptStep
    <2>2. e.rows = [tx.rows EXCEPT ![s] = @ + 1]
      BY <1>5 DEF Accept, Good, TxType
    <2> HIDE DEF e
    <2>3. QED
      BY <2>1, <2>2 DEF Seen, Good, TxType
  <1>6. \/ e = tx
        \/ \E code \in {"400", "409"} : e = Fail(tx, code)
        \/ tx.rows[s] > 0 /\ e = Duplicate(tx, s, alone, rls)
        \/ /\ ~ (tx.rows[s] > 0)
           /\ \A k \in Sold(s) : Covered(tx, s, k)
           /\ e = Accept(tx, s)
    BY EnvelopeCases
  <1>7. QED
    BY <1>2, <1>3, <1>4, <1>5, <1>6

\* The request starts from what is committed.
LEMMA StartIsGood ==
  ASSUME IInv, NEW D
  PROVE  Good(Start, D) /\ Seen(Start, {})
  <1>1. Start \in TxType
    BY DEF IInv, TypeOK, Start, TxType, Codes
  <1>2. Balanced(Start.onHand, Start.rows)
    BY EachSaleOnceIsBalanced DEF IInv, Start
  <1>3. Faithful(Start, D) /\ Seen(Start, {})
    BY DEF IInv, TypeOK, Faithful, Seen, Start
  <1>4. QED
    BY <1>1, <1>2, <1>3 DEF Good

\* The first n sales of a batch.
FirstSales(b, n) == {b[i] : i \in 1..n}

\* A batch names a sale once, unless it is one of Repeated.
LEMMA BatchType ==
  ASSUME NEW b \in Batches
  PROVE  /\ b \in Seq(Sales) /\ Len(b) \in Nat
         /\ \A n \in 1..Len(b) :
              /\ b[n] \in Sales
              /\ b[n] \notin FirstSales(b, n - 1) \/ b[n] \in Repeated(b)
              /\ FirstSales(b, n) = FirstSales(b, n - 1) \cup {b[n]}
  <1>1. b \in Seq(Sales)
    BY SalesAssumption
  <1>2. Len(b) \in Nat /\ DOMAIN b = 1..Len(b)
    BY <1>1
  <1>3. ASSUME NEW n \in 1..Len(b)
        PROVE  /\ b[n] \in Sales
               /\ b[n] \notin FirstSales(b, n - 1) \/ b[n] \in Repeated(b)
               /\ FirstSales(b, n) = FirstSales(b, n - 1) \cup {b[n]}
    <2>1. b[n] \in Sales
      BY <1>1
    <2>2. n \in Nat /\ \A i \in 1..(n - 1) : i \in DOMAIN b /\ i # n
      BY <1>2
    <2>3. (\A i \in 1..(n - 1) : b[i] # b[n]) \/ b[n] \in Repeated(b)
      BY <1>2, <2>2 DEF Repeated, Range
    <2>4. 1..n = (1..(n - 1)) \cup {n}
      BY <2>2
    <2>5. QED
      BY <2>1, <2>3, <2>4 DEF FirstSales
  <1>4. QED
    BY <1>1, <1>2, <1>3

\* The state a request ends with.
LEMMA OutcomeIsGood ==
  ASSUME IInv, NEW b \in Batches, NEW rls \in RowSecurity
  PROVE  Good(Outcome(b, rls), Repeated(b))
  <1>1. rls \in BOOLEAN /\ b \in Seq(Sales) /\ Len(b) \in Nat
    BY BatchType, SalesAssumption
  <1>2. CASE ~ (Range(b) \subseteq Whole)
    <2>1. Outcome(b, rls) = Fail(Start, "422")
      BY <1>2 DEF Outcome
    <2>2. Good(Fail(Start, "422"), Repeated(b))
      BY StartIsGood DEF Fail, Good, TxType, Codes, Balanced, Faithful, Start
    <2>3. QED
      BY <2>1, <2>2
  <1>3. CASE Range(b) \subseteq Whole
    <2>1. PICK h : Runs(h, b, rls) /\ Outcome(b, rls) = h[Len(b)]
      BY <1>1, <1>3, OutcomeLoops
    <2> DEFINE Fine(n) == Good(h[n], Repeated(b)) /\ Seen(h[n], FirstSales(b, n))
               Bad == {n \in 0..Len(b) : ~ Fine(n)}
    <2>2. ASSUME Bad # {} PROVE FALSE
      <3>1. Bad \in SUBSET Nat /\ Bad \in SUBSET (0..Len(b))
        BY <1>1
      <3>2. PICK n \in Bad : \A i \in Bad : n <= i
        <4> HIDE DEF Bad
        <4>1. QED
          BY <2>2, <3>1, LeastNat
      <3>3. n # 0
        <4>1. FirstSales(b, 0) = {}
          BY DEF FirstSales
        <4>2. h[0] = Start
          BY <2>1 DEF Runs
        <4>3. Fine(0)
          BY <4>1, <4>2, StartIsGood
        <4>4. QED
          BY <3>2, <4>3
      <3>4. n \in 1..Len(b) /\ n - 1 \in 0..Len(b) /\ n - 1 \notin Bad
        <4> HIDE DEF Bad
        <4>1. QED
          BY <1>1, <3>1, <3>2, <3>3
      <3>5. Fine(n - 1)
        BY <3>4
      <3>6. h[n] = Envelope(h[n - 1], b[n], Len(b) = 1, rls)
        BY <2>1, <3>4 DEF Runs
      <3>7. Fine(n)
        <4>1. /\ b[n] \in Sales
              /\ b[n] \notin FirstSales(b, n - 1) \/ b[n] \in Repeated(b)
              /\ FirstSales(b, n) = FirstSales(b, n - 1) \cup {b[n]}
          BY <3>4, BatchType
        <4>2. Good(h[n - 1], Repeated(b)) /\ Seen(h[n - 1], FirstSales(b, n - 1))
          BY <3>5
        <4>3. LET e == Envelope(h[n - 1], b[n], Len(b) = 1, rls) IN
              Good(e, Repeated(b)) /\ Seen(e, FirstSales(b, n - 1) \cup {b[n]})
          <5> DEFINE tx == h[n - 1]
                     D == Repeated(b)
                     S == FirstSales(b, n - 1)
                     s == b[n]
                     alone == (Len(b) = 1)
          <5>1. s \in Sales /\ (s \notin S \/ s \in D) /\ Good(tx, D) /\ Seen(tx, S)
            BY <4>1, <4>2
          <5> HIDE DEF tx, D, S, s, alone
          <5>2. LET e == Envelope(tx, s, alone, rls) IN Good(e, D) /\ Seen(e, S \cup {s})
            BY <1>1, <5>1, EnvelopeStep
          <5>3. QED
            BY <5>2 DEF tx, D, S, s, alone
        <4>4. QED
          BY <3>6, <4>1, <4>3
      <3>8. QED
        BY <3>2, <3>7
    <2>3. Len(b) \in 0..Len(b)
      BY <1>1
    <2>4. QED
      BY <2>1, <2>2, <2>3
  <1>4. QED
    BY <1>2, <1>3

-----------------------------------------------------------------------------
\* Nothing is sold at the start.
LEMMA InitIInv == Init => IInv
  <1> SUFFICES ASSUME Init PROVE IInv
    OBVIOUS
  <1>1. TypeOK
    BY SalesAssumption DEF Init, TypeOK
  <1>2. ASSUME NEW k \in Skus PROVE Taken(rows, k) = 0
    <2> DEFINE f == [s \in Sales |-> rows[s] * Demand[s][k]]
    <2>1. \A s \in Sales : rows[s] = 0 /\ Demand[s][k] \in Int
      BY SalesAssumption DEF Init
    <2>2. \A n \in Int : 0 * n = 0
      OBVIOUS
    <2>3. \A s \in Sales : f[s] = 0
      BY <2>1, <2>2
    <2>4. Taken(rows, k) = SumFunctionOnSet(f, Sales)
      BY DEF Taken, SumFunction
    <2> HIDE DEF f
    <2>5. QED
      BY <2>3, <2>4, SumOfZeros, SalesAssumption
  <1>3. Balanced(onHand, rows)
    <2>1. \A s \in Sales : rows[s] <= 1
      BY DEF Init
    <2>2. ASSUME NEW k \in Skus
          PROVE  onHand[k] = Opening[k] + supplied[k] - Taken(rows, k)
      <3>1. Opening[k] \in Nat /\ onHand[k] = Opening[k] /\ supplied[k] = 0
        BY SalesAssumption DEF Init
      <3>2. QED
        BY <1>2, <3>1
    <2>3. QED
      BY <2>1, <2>2 DEF Balanced
  <1>4. QED
    BY <1>1, <1>3, EachSaleOnceIsBalanced DEF IInv

\* A request commits a good state or none.
LEMMA PostSalesStep ==
  ASSUME IInv, NEW b \in Batches, NEW rls \in RowSecurity, PostSales(b, rls)
  PROVE  IInv'
  <1> DEFINE tx == Outcome(b, rls)
  <1>1. Good(tx, Repeated(b))
    BY OutcomeIsGood
  <1>2. /\ inFlight[b] > 0
        /\ inFlight' = [inFlight EXCEPT ![b] = @ - 1]
        /\ onHand' = IF tx.code = "200" THEN tx.onHand ELSE onHand
        /\ rows' = IF tx.code = "200" THEN tx.rows ELSE rows
        /\ supplied' = supplied
    BY DEF PostSales
  <1> HIDE DEF tx
  <1>3. TypeOK /\ Balanced(onHand, rows)
    BY EachSaleOnceIsBalanced DEF IInv
  <1>4. MaxInFlight \in [Batches -> Nat]
    BY SalesAssumption
  <1>5. TypeOK'
    BY <1>1, <1>2, <1>3, <1>4 DEF TypeOK, Good, TxType
  <1>6. Balanced(onHand', rows')
    BY <1>1, <1>2, <1>3 DEF Good
  <1>7. EachSaleOnce'
    BY <1>2, <1>6 DEF Balanced, Taken, EachSaleOnce
  <1>8. QED
    BY <1>5, <1>7 DEF IInv

\* A unit that comes in is counted on both sides.
LEMMA SupplyStep ==
  ASSUME IInv, NEW k \in Skus, Supply(k)
  PROVE  IInv'
  <1>1. TypeOK /\ MaxSupply \in [Skus -> Nat]
    BY SalesAssumption DEF IInv
  <1>2. TypeOK'
    BY <1>1 DEF Supply, TypeOK
  <1>3. \A j \in Skus : Taken(rows, j) \in Int
    <2> TAKE j \in Skus
    <2> DEFINE f == [s \in Sales |-> rows[s] * Demand[s][j]]
    <2>1. \A s \in Sales : rows[s] \in Int /\ Demand[s][j] \in Int
      BY <1>1, SalesAssumption DEF TypeOK
    <2>2. \A m, n \in Int : m * n \in Int
      OBVIOUS
    <2>3. f \in [Sales -> Int]
      BY <2>1, <2>2
    <2>4. Taken(rows, j) = SumFunctionOnSet(f, Sales)
      BY DEF Taken, SumFunction
    <2>5. IsFiniteSet(Sales) /\ Sales \in SUBSET Sales
      BY SalesAssumption
    <2> HIDE DEF f
    <2>6. SumFunctionOnSet(f, Sales) \in Int
      BY <2>3, <2>5, SumType
    <2>7. QED
      BY <2>4, <2>6
  <1>4. ASSUME NEW j \in Skus
        PROVE  onHand'[j] = Opening[j] + supplied'[j] - Taken(rows, j)
    <2>1. onHand[j] = Opening[j] + supplied[j] - Taken(rows, j)
      BY EachSaleOnceIsBalanced DEF IInv, Balanced
    <2>2. Opening[j] \in Nat /\ supplied[j] \in Nat /\ onHand[j] \in Nat
      BY <1>1, SalesAssumption DEF TypeOK
    <2>3. \/ onHand'[j] = onHand[j] /\ supplied'[j] = supplied[j]
          \/ onHand'[j] = onHand[j] + 1 /\ supplied'[j] = supplied[j] + 1
      BY <1>1 DEF Supply, TypeOK
    <2>4. QED
      BY <1>3, <2>1, <2>2, <2>3
  <1>5. EachSaleOnce'
    BY <1>4 DEF Supply, EachSaleOnce, Taken, IInv
  <1>6. QED
    BY <1>2, <1>5 DEF IInv

\* Every step of the server keeps the invariant.
LEMMA NextIInv == IInv /\ [Next]_vars => IInv'
  <1> SUFFICES ASSUME IInv, [Next]_vars PROVE IInv'
    OBVIOUS
  <1>1. MaxInFlight \in [Batches -> Nat]
    BY SalesAssumption
  <1>2. ASSUME NEW b \in Batches, Post(b) \/ Lose(b)
        PROVE  IInv'
    <2>1. TypeOK'
      BY <1>1, <1>2 DEF IInv, TypeOK, Post, Lose
    <2>2. QED
      BY <1>2, <2>1 DEF IInv, EachSaleOnce, Post, Lose
  <1>3. CASE UNCHANGED vars
    BY <1>3 DEF IInv, TypeOK, EachSaleOnce, vars
  <1>4. QED
    BY <1>2, <1>3, PostSalesStep, SupplyStep DEF Next

\* The inductive invariant: it needs the balances to be naturals, which the
\* guards of Envelope keep them, and each sale to be on the ledger at most once.
THEOREM InductiveInvariant == Spec => []IInv
  BY InitIInv, NextIInv, PTL DEF Spec

\* Balances never go below zero and counters stay in their bounds.
THEOREM TypeCorrect == Spec => []TypeOK
  <1>1. IInv => TypeOK
    BY DEF IInv
  <1>2. QED
    BY <1>1, InductiveInvariant, PTL

\* However often and in whatever batches a sale is posted, it is on the ledger
\* at most once and its stock has left exactly as often (post_sales and the
\* unique index on client_intake_id).
THEOREM StockLeavesOnce == Spec => []EachSaleOnce
  <1>1. IInv => EachSaleOnce
    BY DEF IInv
  <1>2. QED
    BY <1>1, InductiveInvariant, PTL

-----------------------------------------------------------------------------
(* What clients are told. *)

\* A reply with one of the two good statuses comes from a request that
\* committed, and from its results.
LEMMA GoodReply ==
  ASSUME IInv, NEW b \in Batches, NEW rls \in RowSecurity, PostSales(b, rls),
         NEW r \in Reply(b, Outcome(b, rls)),
         r.status \in {"accepted", "already_processed"}
  PROVE  /\ Outcome(b, rls).code = "200"
         /\ r \in Outcome(b, rls).results /\ r \in Results
         /\ rows' = Outcome(b, rls).rows
  <1> DEFINE tx == Outcome(b, rls)
  <1>1. tx \in TxType
    BY OutcomeIsGood DEF Good
  <1>2. PostSales(b, rls) => rows' = IF tx.code = "200" THEN tx.rows ELSE rows
    BY DEF PostSales
  <1> HIDE DEF tx
  <1>3. tx.code = "200"
    <2>1. SUFFICES ASSUME tx.code # "200" PROVE FALSE
      OBVIOUS
    <2>2. r.status = tx.code
      BY <2>1 DEF Reply, tx
    <2>3. QED
      BY <1>1, <2>2 DEF TxType, Codes
  <1>4. r \in tx.results /\ r \in Results
    BY <1>1, <1>3 DEF Reply, TxType, tx
  <1>5. QED
    BY <1>2, <1>3, <1>4 DEF tx

\* Whoever is told "already_processed", in a batch of any length, finds the sale
\* on the ledger (the IntegrityError branch of post_sales), unless the batch itself
\* lists it twice.
THEOREM ProcessedSalesAreRecorded == Spec => ProcessedIsRecorded
  <1>1. ASSUME IInv, NEW b \in Batches
        PROVE  ToldIsRecorded(b, "already_processed", Sales \ Repeated(b))
    <2>1. SUFFICES ASSUME NEW rls \in RowSecurity, PostSales(b, rls),
                          NEW r \in Reply(b, Outcome(b, rls)),
                          r.status = "already_processed",
                          r.sale \in Sales \ Repeated(b)
                   PROVE  rows'[r.sale] > 0
      BY DEF ToldIsRecorded
    <2> DEFINE tx == Outcome(b, rls)
    <2>2. r \in tx.results /\ r \in Results /\ rows' = tx.rows
      BY <1>1, <2>1, GoodReply
    <2>3. tx \in TxType /\ Faithful(tx, Repeated(b))
      BY <1>1, OutcomeIsGood DEF Good
    <2> HIDE DEF tx
    <2>4. rows[r.sale] > 0 /\ tx.rows[r.sale] >= rows[r.sale]
      BY <2>1, <2>2, <2>3 DEF Faithful
    <2>5. rows[r.sale] \in Nat /\ tx.rows[r.sale] \in Nat
      BY <1>1, <2>1, <2>3 DEF IInv, TypeOK, TxType
    <2>6. QED
      BY <2>2, <2>4, <2>5
  <1>2. IInv /\ [Next]_vars =>
          [\A b \in Batches :
             ToldIsRecorded(b, "already_processed", Sales \ Repeated(b))]_vars
    BY <1>1
  <1>3. QED
    BY <1>2, InductiveInvariant, PTL DEF Spec, ProcessedIsRecorded

\* A reply in which nothing is "already_processed" is true of what it calls
\* "accepted".  (With a duplicate among them, the rollback may have taken the
\* accepted ones back.)
THEOREM AcceptedSalesAreRecorded == Spec => AcceptedUnlessDuplicates
  <1> DEFINE Told(b, rls) ==
               LET reply == Reply(b, Outcome(b, rls)) IN
               PostSales(b, rls) /\ (\A r \in reply : r.status # "already_processed") =>
                 \A r \in reply : r.status = "accepted" => rows'[r.sale] > 0
  <1>1. ASSUME IInv, NEW b \in Batches, NEW rls \in RowSecurity
        PROVE  Told(b, rls)
    <2> DEFINE tx == Outcome(b, rls)
    <2>1. SUFFICES ASSUME PostSales(b, rls),
                          \A r \in Reply(b, tx) : r.status # "already_processed",
                          NEW r \in Reply(b, tx), r.status = "accepted"
                   PROVE  rows'[r.sale] > 0
      OBVIOUS
    <2>2. /\ r \in tx.results /\ rows' = tx.rows /\ tx.code = "200"
      BY <1>1, <2>1, GoodReply
    <2>3. Faithful(tx, Repeated(b))
      BY <1>1, OutcomeIsGood DEF Good
    <2>4. Reply(b, tx) = tx.results
      BY <2>2 DEF Reply
    <2> HIDE DEF tx
    <2>5. QED
      BY <2>1, <2>2, <2>3, <2>4 DEF Faithful
  <1>2. IInv /\ [Next]_vars => [\A b \in Batches, rls \in RowSecurity : Told(b, rls)]_vars
    <2> HIDE DEF Told
    <2>1. QED
      BY <1>1
  <1>3. QED
    BY <1>2, InductiveInvariant, PTL DEF Spec, AcceptedUnlessDuplicates

\* A request of one envelope that commits has recorded its sale.
LEMMA OutcomeAlone ==
  ASSUME IInv, NEW b \in Batches, Len(b) = 1, NEW rls \in RowSecurity,
         Outcome(b, rls).code = "200"
  PROVE  /\ b[1] \in Sales /\ Outcome(b, rls).rows[b[1]] > 0
         /\ \A r \in Outcome(b, rls).results : r.sale = b[1]
  <1> DEFINE tx == Outcome(b, rls)
             s == b[1]
  <1>1. b \in Seq(Sales) /\ s \in Sales
    <2>1. 1 \in 1..Len(b)
      OBVIOUS
    <2>2. QED
      BY <2>1, BatchType
  <1>2. Range(b) \subseteq Whole
    BY DEF Outcome, Fail, Start
  <1>3. tx = Envelope(Start, s, TRUE, rls)
    <2>1. PICK h : Runs(h, b, rls) /\ Outcome(b, rls) = h[Len(b)]
      BY <1>1, <1>2, OutcomeLoops
    <2>2. 1 \in 1..Len(b) /\ 1 - 1 = 0 /\ (Len(b) = 1) = TRUE
      OBVIOUS
    <2>3. h[1] = Envelope(h[1 - 1], b[1], Len(b) = 1, rls)
      BY <2>1, <2>2 DEF Runs
    <2>4. h[1] = Envelope(Start, b[1], TRUE, rls)
      BY <2>1, <2>2, <2>3 DEF Runs
    <2>5. QED
      BY <2>1, <2>4
  <1>4. Start \in TxType /\ Start.results = {} /\ Start.code = "200"
    BY StartIsGood DEF Good, Start
  <1> HIDE DEF tx
  <1>5. ~ (tx = Fail(Start, "400") \/ tx = Fail(Start, "409"))
    BY <1>4 DEF Fail, TxType, tx
  <1>6. ~ (tx = Duplicate(Start, s, TRUE, rls))
    <2>1. Duplicate(Start, s, TRUE, rls).code = "500"
      BY DEF Duplicate, Start
    <2>2. QED
      BY <2>1 DEF tx
  <1>7. tx = Accept(Start, s)
    BY <1>3, <1>4, <1>5, <1>6, EnvelopeCases
  <1>8. tx.rows = [Start.rows EXCEPT ![s] = @ + 1] /\ tx.results = Result(Start, s, "accepted")
    BY <1>1, <1>4, <1>7, AcceptFields
  <1>9. Start.rows \in [Sales -> Nat]
    BY <1>4 DEF TxType
  <1>10. tx.rows[s] > 0
    BY <1>1, <1>8, <1>9
  <1>11. \A r \in tx.results : r.sale = s
    BY <1>4, <1>8 DEF Result
  <1>12. QED
    BY <1>1, <1>10, <1>11 DEF tx

-----------------------------------------------------------------------------
(* The register's queue. *)

\* q lists the sales of S in the order of their keys.
InKeyOrder(q, S) ==
  /\ q \in [1..Cardinality(S) -> S]
  /\ \A i, j \in DOMAIN q : i < j => Key[q[i]] < Key[q[j]]

IsLastKey(m, S) == m \in S /\ \A s \in S \ {m} : Key[s] < Key[m]

\* One of the sales of a set has the greatest key: a smallest set without one
\* would get one from what is left when a sale is taken away.
LEMMA LastKey ==
  ASSUME NEW S \in SUBSET Sales, S # {}
  PROVE  \E m : IsLastKey(m, S)
  <1> DEFINE F == {T \in SUBSET S : T # {} /\ ~ \E m : IsLastKey(m, T)}
  <1>1. IsFiniteSet(S)
    BY SalesAssumption, FS_Subset
  <1>2. F \in SUBSET SUBSET S
    OBVIOUS
  <1>3. ASSUME F # {} PROVE FALSE
    <2>1. PICK T \in F : \A x \in T : T \ {x} \notin F
      <3> HIDE DEF F
      <3>1. QED
        BY <1>1, <1>2, <1>3, MinimalMember
    <2>2. PICK x \in T : T \ {x} \notin F
      BY <2>1
    <2>3. T \in SUBSET Sales /\ \A s \in T : Key[s] \in Nat
      BY QueueAssumption
    <2>4. T \ {x} # {}
      <3>1. T \ {x} = {} => IsLastKey(x, T)
        BY DEF IsLastKey
      <3>2. QED
        BY <2>1, <3>1
    <2>5. PICK m : IsLastKey(m, T \ {x})
      BY <2>2, <2>4
    <2>6. m \in T /\ m # x /\ Key[m] # Key[x]
      BY <2>3, <2>5, QueueAssumption DEF IsLastKey, IsInjective
    <2>7. IsLastKey(x, T) \/ IsLastKey(m, T)
      BY <2>3, <2>5, <2>6 DEF IsLastKey
    <2>8. QED
      BY <2>1, <2>7
  <1>4. QED
    BY <1>3

\* Every set of sales can be put in the order of their keys: what is left when
\* the last is taken away can be, and the last comes after it.
LEMMA KeyOrderExists ==
  ASSUME NEW S \in SUBSET Sales
  PROVE  \E q : InKeyOrder(q, S)
  <1> DEFINE F == {T \in SUBSET S : ~ \E q : InKeyOrder(q, T)}
  <1>1. IsFiniteSet(S)
    BY SalesAssumption, FS_Subset
  <1>2. F \in SUBSET SUBSET S
    OBVIOUS
  <1>3. ASSUME F # {} PROVE FALSE
    <2>1. PICK T \in F : IsFiniteSet(T) /\ \A x \in T : T \ {x} \notin F
      <3> HIDE DEF F
      <3>1. QED
        BY <1>1, <1>2, <1>3, MinimalMember
    <2>2. T # {}
      <3>1. InKeyOrder(<<>>, {})
        BY FS_EmptySet DEF InKeyOrder
      <3>2. QED
        BY <2>1, <3>1
    <2>3. T \in SUBSET Sales
      OBVIOUS
    <2>4. PICK m : IsLastKey(m, T)
      BY <2>2, <2>3, LastKey
    <2> DEFINE R == T \ {m}
               n == Cardinality(R)
    <2>5. m \in T /\ n \in Nat /\ Cardinality(T) = n + 1
      <3>1. m \in T /\ IsFiniteSet(T)
        BY <2>1, <2>4 DEF IsLastKey
      <3>2. IsFiniteSet(R) /\ n = Cardinality(T) - 1 /\ Cardinality(T) \in Nat
        BY <3>1, FS_RemoveElement, FS_CardinalityType
      <3>3. n \in Nat
        BY <3>2, FS_CardinalityType
      <3> HIDE DEF n
      <3>4. QED
        BY <3>1, <3>2, <3>3
    <2>6. PICK q : InKeyOrder(q, R)
      BY <2>1, <2>5
    <2> DEFINE p == [i \in 1..(n + 1) |-> IF i = n + 1 THEN m ELSE q[i]]
    <2> HIDE DEF R, n
    <2>7. q \in [1..n -> R] /\ R \subseteq T /\ \A i \in 1..n : q[i] \in R
      BY <2>6 DEF InKeyOrder, R, n
    <2>8. \A i \in 1..(n + 1) : i \in 1..n \/ i = n + 1
      BY <2>5
    <2>9. p \in [1..(n + 1) -> T]
      BY <2>5, <2>7, <2>8
    <2>10. ASSUME NEW i \in 1..(n + 1), NEW j \in 1..(n + 1), i < j
           PROVE  Key[p[i]] < Key[p[j]]
      <3>1. i \in 1..n /\ p[i] = q[i] /\ q[i] \in R
        BY <2>5, <2>7, <2>10
      <3>2. CASE j = n + 1
        <4>1. p[j] = m
          BY <3>2
        <4>2. QED
          BY <2>4, <3>1, <4>1 DEF IsLastKey, R
      <3>3. CASE j \in 1..n
        <4>1. p[j] = q[j]
          BY <2>5, <3>3
        <4>2. QED
          BY <2>6, <2>7, <2>10, <3>1, <3>3, <4>1 DEF InKeyOrder
      <3>4. QED
        BY <2>8, <3>2, <3>3
    <2>11. InKeyOrder(p, T)
      <3>1. DOMAIN p = 1..(n + 1)
        OBVIOUS
      <3> HIDE DEF p
      <3>2. QED
        BY <2>5, <2>9, <2>10, <3>1 DEF InKeyOrder
    <2>12. QED
      BY <2>1, <2>11
  <1>4. S \in SUBSET S
    OBVIOUS
  <1>5. QED
    BY <1>3, <1>4

\* What drain() works through is a sequence of sales, in key order.
LEMMA AllType ==
  ASSUME store \in SUBSET Sales
  PROVE  InKeyOrder(All, store) /\ All \in Seq(Sales)
  <1>1. InKeyOrder(All, store)
    BY KeyOrderExists DEF InKeyOrder, All
  <1>2. Cardinality(store) \in Nat
    BY SalesAssumption, FS_Subset, FS_CardinalityType
  <1>3. QED
    BY <1>1, <1>2 DEF InKeyOrder

\* What the register knows: a drain that waits or deletes has an envelope at
\* hand, and one that deletes knows that the server has it on the ledger.
DrainsKnow ==
  \A d \in Drains :
    /\ drains[d].at # "idle" => drains[d].items # <<>>
    /\ drains[d].at = "delete" => rows[Head(drains[d].items)] > 0

QueueIInv == IInv /\ QueueTypeOK /\ DrainsKnow /\ CapturedIsKept

QueueStates == [at : {"idle", "post", "delete"}, items : Seq(Sales)]

\* A drain that is not under way has nothing to know.
LEMMA IdleType == Idle \in QueueStates /\ Idle.at = "idle"
  BY DEF Idle, QueueStates

\* What a drain has at hand, and what is left when it is done.
LEMMA HeadAndTail ==
  ASSUME NEW q \in Seq(Sales), q # <<>>
  PROVE  Head(q) \in Sales /\ Tail(q) \in Seq(Sales)
  OBVIOUS

\* No step of the server takes a row off the ledger.
RowsGrow == \A s \in Sales : rows'[s] >= rows[s]

\* What the client's proofs need of the server's step.
LEMMA ServerStep ==
  ASSUME IInv, [Next]_vars
  PROVE  IInv' /\ RowsGrow
  <1>1. IInv'
    BY NextIInv
  <1>2. rows \in [Sales -> Nat]
    BY DEF IInv, TypeOK
  <1>3. ASSUME NEW b \in Batches, NEW rls \in RowSecurity, PostSales(b, rls)
        PROVE  RowsGrow
    <2> DEFINE tx == Outcome(b, rls)
    <2>1. rows' = IF tx.code = "200" THEN tx.rows ELSE rows
      BY <1>3 DEF PostSales
    <2>2. Faithful(tx, Repeated(b))
      BY OutcomeIsGood DEF Good
    <2> HIDE DEF tx
    <2>3. QED
      BY <1>2, <2>1, <2>2 DEF Faithful, RowsGrow
  <1>4. rows' = rows => RowsGrow
    BY <1>2 DEF RowsGrow
  <1>5. QED
    BY <1>1, <1>3, <1>4 DEF Next, Post, Lose, Supply, vars

\* What a step has to show of the client's side.
ClientOK ==
  /\ store \subseteq Sales /\ captured \subseteq Sales /\ online \in BOOLEAN
  /\ drains \in [Drains -> QueueStates]
  /\ DrainsKnow /\ CapturedIsKept

\* The invariant, taken apart into the server's and the client's.
LEMMA QueueIInvIsClientOK == QueueIInv <=> IInv /\ ClientOK
  BY DEF QueueIInv, ClientOK, QueueTypeOK, QueueStates, IInv

\* A drain that is as it was, or idle, still knows.
LEMMA KnownStays ==
  ASSUME QueueIInv, RowsGrow, rows' \in [Sales -> Nat], NEW d \in Drains,
         drains'[d] \in {drains[d], Idle}
  PROVE  /\ drains'[d].at # "idle" => drains'[d].items # <<>>
         /\ drains'[d].at = "delete" => rows'[Head(drains'[d].items)] > 0
  <1>1. /\ drains[d] \in QueueStates /\ rows \in [Sales -> Nat]
        /\ drains[d].at # "idle" => drains[d].items # <<>>
        /\ drains[d].at = "delete" => rows[Head(drains[d].items)] > 0
    BY QueueIInvIsClientOK DEF ClientOK, DrainsKnow, IInv, TypeOK
  <1>2. CASE drains'[d] = Idle
    BY <1>2, IdleType
  <1>3. CASE drains'[d] = drains[d] /\ drains[d].at = "delete"
    <2>1. Head(drains[d].items) \in Sales
      BY <1>1, <1>3, HeadAndTail DEF QueueStates
    <2>2. QED
      BY <1>1, <1>3, <2>1 DEF RowsGrow
  <1>4. QED
    BY <1>1, <1>2, <1>3

\* The steps in which drains end or stay as they are and nothing leaves the
\* store.
LEMMA KeepingStep ==
  ASSUME QueueIInv, [Next]_vars,
         store \subseteq store', store' \subseteq Sales,
         captured' \subseteq Sales, captured' \subseteq captured \cup store',
         online' \in BOOLEAN,
         drains' \in [Drains -> QueueStates],
         \A d \in Drains : drains'[d] \in {drains[d], Idle}
  PROVE  QueueIInv'
  <1>1. IInv' /\ RowsGrow
    BY ServerStep DEF QueueIInv
  <1>2. rows \in [Sales -> Nat] /\ rows' \in [Sales -> Nat]
    BY <1>1 DEF QueueIInv, IInv, TypeOK
  <1>3. DrainsKnow'
    BY <1>1, <1>2, KnownStays DEF DrainsKnow
  <1>4. CapturedIsKept'
    <2>1. CapturedIsKept /\ captured \subseteq Sales
      BY DEF QueueIInv, QueueTypeOK
    <2>2. ASSUME NEW s \in captured' PROVE s \in store' \/ rows'[s] > 0
      BY <1>1, <1>2, <2>1, <2>2 DEF CapturedIsKept, RowsGrow
    <2>3. QED
      BY <2>2 DEF CapturedIsKept
  <1>5. QED
    BY <1>1, <1>3, <1>4 DEF QueueIInv, QueueTypeOK, QueueStates, IInv

\* The steps that take a drain to the top of its loop.  What they delete is on
\* the ledger.
LEMMA LoopingStep ==
  ASSUME QueueIInv, [Next]_vars, NEW d \in Drains, NEW items \in Seq(Sales),
         Loop(d, items), store' \subseteq store, captured' = captured,
         online' \in BOOLEAN,
         \A s \in store \ store' : s \in Sales /\ rows[s] > 0
  PROVE  QueueIInv'
  <1>1. IInv' /\ RowsGrow
    BY ServerStep DEF QueueIInv
  <1>2. rows \in [Sales -> Nat] /\ rows' \in [Sales -> Nat]
    BY <1>1 DEF QueueIInv, IInv, TypeOK
  <1>3. ClientOK
    BY QueueIInvIsClientOK
  <1>4. \/ drains' = [drains EXCEPT ![d] = Idle]
        \/ items # <<>> /\ drains' = [drains EXCEPT ![d] = [at |-> "post", items |-> items]]
    BY DEF Loop
  <1>5. [at |-> "post", items |-> items] \in QueueStates
    BY DEF QueueStates
  <1>6. drains' \in [Drains -> QueueStates]
    BY <1>3, <1>4, <1>5, IdleType DEF ClientOK
  <1>7. DrainsKnow'
    <2>1. ASSUME NEW e \in Drains
          PROVE  /\ drains'[e].at # "idle" => drains'[e].items # <<>>
                 /\ drains'[e].at = "delete" => rows'[Head(drains'[e].items)] > 0
      <3>1. drains \in [Drains -> QueueStates]
        BY <1>3 DEF ClientOK
      <3>2. \/ drains'[e] \in {drains[e], Idle}
            \/ items # <<>> /\ drains'[e] = [at |-> "post", items |-> items]
        BY <1>4, <3>1
      <3>3. CASE items # <<>> /\ drains'[e] = [at |-> "post", items |-> items]
        BY <3>3
      <3>4. QED
        BY <1>1, <1>2, <3>2, <3>3, KnownStays
    <2>2. QED
      BY <2>1 DEF DrainsKnow
  <1>8. CapturedIsKept'
    <2>1. ASSUME NEW s \in captured PROVE s \in store' \/ rows'[s] > 0
      BY <1>1, <1>2, <1>3, <2>1 DEF ClientOK, CapturedIsKept, RowsGrow
    <2>2. QED
      BY <2>1 DEF CapturedIsKept
  <1>9. QED
    BY <1>1, <1>3, <1>6, <1>7, <1>8 DEF ClientOK, QueueIInv, QueueTypeOK, QueueStates, IInv

\* The server's part of a step at the top of the loop.
LEMMA LoopPosts ==
  ASSUME NEW d, NEW items \in Seq(Sales), Loop(d, items)
  PROVE  [Next]_vars
  <1>1. CASE items = <<>>
    BY <1>1 DEF Loop
  <1>2. CASE items # <<>>
    <2>1. <<Head(items)>> \in Batches
      BY <1>2, HeadAndTail, QueueAssumption
    <2>2. QED
      BY <1>2, <2>1 DEF Loop, Next
  <1>3. QED
    BY <1>1, <1>2

\* 200 comes only from a request that has committed the sale; anything else
\* ends the drain.
LEMMA AnswerStep ==
  ASSUME QueueIInv, NEW d \in Drains, Answer(d)
  PROVE  QueueIInv'
  <1> DEFINE s == Head(drains[d].items)
  <1>1. ClientOK /\ IInv
    BY QueueIInvIsClientOK
  <1>2. PICK rls \in RowSecurity :
          /\ PostSales(<<s>>, rls)
          /\ drains' = [drains EXCEPT ![d] =
                          IF Outcome(<<s>>, rls).code = "200"
                          THEN [@ EXCEPT !.at = "delete"] ELSE Idle]
    BY DEF Answer
  <1>3. drains[d].at = "post" /\ UNCHANGED <<store, online, captured>>
    BY DEF Answer
  <1>4. drains \in [Drains -> QueueStates] /\ drains[d] \in QueueStates
    BY <1>1 DEF ClientOK
  <1>5. drains[d].items # <<>> /\ drains[d].items \in Seq(Sales)
    BY <1>1, <1>3, <1>4 DEF ClientOK, DrainsKnow, QueueStates
  <1>6. s \in Sales /\ <<s>> \in Batches
    BY <1>5, HeadAndTail, QueueAssumption
  <1>7. Next
    BY <1>2, <1>6 DEF Next
  <1>8. CASE Outcome(<<s>>, rls).code = "200"
    <2> DEFINE q == [drains[d] EXCEPT !.at = "delete"]
    <2>1. q \in QueueStates /\ q.at = "delete" /\ q.items = drains[d].items
      BY <1>4 DEF QueueStates
    <2>2. drains' = [drains EXCEPT ![d] = q]
      BY <1>2, <1>8
    <2>3. rows' = Outcome(<<s>>, rls).rows
      BY <1>2, <1>8 DEF PostSales
    <2>4. rows'[s] > 0
      <3>1. Len(<<s>>) = 1 /\ <<s>>[1] = s
        OBVIOUS
      <3>2. Outcome(<<s>>, rls).rows[<<s>>[1]] > 0
        BY <1>1, <1>6, <1>8, <3>1, OutcomeAlone
      <3>3. QED
        BY <2>3, <3>1, <3>2
    <2> HIDE DEF q
    <2>5. IInv' /\ RowsGrow
      BY <1>1, <1>7, ServerStep
    <2>6. rows \in [Sales -> Nat] /\ rows' \in [Sales -> Nat]
      BY <1>1, <2>5 DEF IInv, TypeOK
    <2>7. drains' \in [Drains -> QueueStates]
      BY <1>4, <2>1, <2>2
    <2>8. DrainsKnow'
      <3>1. ASSUME NEW e \in Drains
            PROVE  /\ drains'[e].at # "idle" => drains'[e].items # <<>>
                   /\ drains'[e].at = "delete" => rows'[Head(drains'[e].items)] > 0
        <4>1. CASE e = d
          BY <1>4, <1>5, <2>1, <2>2, <2>4, <4>1
        <4>2. CASE e # d
          <5>1. drains'[e] = drains[e]
            BY <1>4, <2>2, <4>2
          <5>2. QED
            BY <2>5, <2>6, <5>1, KnownStays
        <4>3. QED
          BY <4>1, <4>2
      <3>2. QED
        BY <3>1 DEF DrainsKnow
    <2>9. CapturedIsKept'
      <3>1. ASSUME NEW u \in captured PROVE u \in store' \/ rows'[u] > 0
        BY <1>1, <1>3, <2>5, <2>6, <3>1 DEF ClientOK, CapturedIsKept, RowsGrow
      <3>2. QED
        BY <1>3, <3>1 DEF CapturedIsKept
    <2>10. QED
      BY <1>1, <1>3, <2>5, <2>7, <2>8, <2>9
         DEF ClientOK, QueueIInv, QueueTypeOK, QueueStates, IInv
  <1>9. CASE Outcome(<<s>>, rls).code # "200"
    <2>1. drains' = [drains EXCEPT ![d] = Idle]
      BY <1>2, <1>9
    <2>2. /\ drains' \in [Drains -> QueueStates]
          /\ \A e \in Drains : drains'[e] \in {drains[e], Idle}
      BY <1>4, <2>1, IdleType
    <2>3. QED
      BY <1>1, <1>3, <1>7, <2>2, KeepingStep DEF ClientOK
  <1>10. QED
    BY <1>8, <1>9

\* What is deleted is on the ledger.
LEMMA DeleteStep ==
  ASSUME QueueIInv, NEW d \in Drains, Delete(d)
  PROVE  QueueIInv'
  <1> DEFINE items == drains[d].items
  <1>1. ClientOK
    BY QueueIInvIsClientOK
  <1>2. drains[d] \in QueueStates /\ drains[d].at = "delete"
    BY <1>1 DEF ClientOK, Delete
  <1>3. items \in Seq(Sales) /\ items # <<>> /\ rows[Head(items)] > 0
    BY <1>1, <1>2 DEF ClientOK, DrainsKnow, QueueStates
  <1>4. /\ store' = store \ {Head(items)} /\ Loop(d, Tail(items))
        /\ captured' = captured /\ online' = online
    BY DEF Delete
  <1> HIDE DEF items
  <1>5. Head(items) \in Sales /\ Tail(items) \in Seq(Sales)
    BY <1>3, HeadAndTail
  <1>6. [Next]_vars
    BY <1>4, <1>5, LoopPosts
  <1>7. \A s \in store \ store' : s \in Sales /\ rows[s] > 0
    BY <1>3, <1>4, <1>5
  <1>8. store' \subseteq store /\ online' \in BOOLEAN
    BY <1>1, <1>4 DEF ClientOK
  <1>9. QED
    BY <1>4, <1>5, <1>6, <1>7, <1>8, LoopingStep

\* drain() is called: by the tick or the "online" event.
LEMMA BeginStep ==
  ASSUME QueueIInv, NEW d \in Drains, Begin(d), online' = TRUE,
         UNCHANGED <<store, captured>>
  PROVE  QueueIInv'
  <1>1. All \in Seq(Sales) /\ Loop(d, All)
    BY AllType DEF Begin, QueueIInv, QueueTypeOK
  <1>2. [Next]_vars
    BY <1>1, LoopPosts
  <1>3. QED
    BY <1>1, <1>2, LoopingStep

\* The register starts with an empty store.
LEMMA QueueInitIInv == QueueInit => QueueIInv
  <1> SUFFICES ASSUME QueueInit PROVE QueueIInv
    OBVIOUS
  <1>1. IInv
    BY InitIInv DEF QueueInit
  <1>2. drains \in [Drains -> QueueStates] /\ \A d \in Drains : drains[d].at = "idle"
    BY IdleType DEF QueueInit
  <1>3. ClientOK
    BY <1>2 DEF QueueInit, ClientOK, DrainsKnow, CapturedIsKept
  <1>4. QED
    BY <1>1, <1>3, QueueIInvIsClientOK

\* Every step of the register, of its drains and of the rest of the world keeps
\* the invariant.
LEMMA QueueNextIInv == QueueIInv /\ [QueueNext]_queueVars => QueueIInv'
  <1> SUFFICES ASSUME QueueIInv, [QueueNext]_queueVars PROVE QueueIInv'
    OBVIOUS
  <1>1. ClientOK
    BY QueueIInvIsClientOK
  <1>2. /\ drains \in [Drains -> QueueStates] /\ store \subseteq Sales
        /\ captured \subseteq Sales /\ online \in BOOLEAN
    BY <1>1 DEF ClientOK
  <1>3. ASSUME NEW s \in Sales, Enqueue(s) PROVE QueueIInv'
    BY <1>2, <1>3, KeepingStep DEF Enqueue
  <1>4. ASSUME NEW s \in Sales, SubmitSale(s) PROVE QueueIInv'
    <2>1. CASE online
      <3>1. Next
        BY <1>4, <2>1, QueueAssumption DEF SubmitSale, Next
      <3>2. UNCHANGED client
        BY <1>4, <2>1 DEF SubmitSale
      <3>3. QED
        BY <1>2, <3>1, <3>2, KeepingStep DEF client
    <2>2. CASE ~online
      BY <1>3, <1>4, <2>2 DEF SubmitSale
    <2>3. QED
      BY <2>1, <2>2
  <1>5. ASSUME NEW s \in Sales, CaptureWhole(s) PROVE QueueIInv'
    BY <1>3, <1>5 DEF CaptureWhole
  <1>6. ASSUME NEW d \in Drains, NoAnswer(d) PROVE QueueIInv'
    <2>1. /\ drains' \in [Drains -> QueueStates]
          /\ \A e \in Drains : drains'[e] \in {drains[e], Idle}
      BY <1>2, <1>6, IdleType DEF NoAnswer
    <2>2. QED
      BY <1>2, <1>6, <2>1, KeepingStep DEF NoAnswer
  <1>7. CASE Tick
    <2>1. CASE online
      BY <1>2, <1>7, <2>1, KeepingStep DEF Tick
    <2>2. CASE ~online
      BY <1>7, <2>2, BeginStep DEF Tick
    <2>3. QED
      BY <2>1, <2>2
  <1>8. CASE OnlineEvent
    BY <1>8, BeginStep DEF OnlineEvent
  <1>9. CASE GoOffline
    BY <1>2, <1>9, KeepingStep DEF GoOffline
  <1>10. CASE Reload
    <2>1. /\ drains' \in [Drains -> QueueStates]
          /\ \A e \in Drains : drains'[e] \in {drains[e], Idle}
      BY <1>10, IdleType DEF Reload
    <2>2. QED
      BY <1>2, <1>10, <2>1, KeepingStep DEF Reload
  <1>11. CASE Elsewhere
    <2>1. Next
      BY <1>11, QueueAssumption DEF Elsewhere, Next
    <2>2. UNCHANGED client
      BY <1>11 DEF Elsewhere
    <2>3. QED
      BY <1>2, <2>1, <2>2, KeepingStep DEF client
  <1>12. CASE UNCHANGED queueVars
    BY <1>2, <1>12, KeepingStep DEF queueVars, client
  <1>13. QED
    BY <1>4, <1>5, <1>6, <1>7, <1>8, <1>9, <1>10, <1>11, <1>12, AnswerStep, DeleteStep
       DEF QueueNext

\* Whatever the register does is a step of the server that it allows its clients,
\* or none of the server's at all.
LEMMA QueueStepIsServerStep ==
  ASSUME QueueIInv, [QueueNext]_queueVars
  PROVE  [Next]_vars
  <1>1. ClientOK /\ All \in Seq(Sales)
    BY QueueIInvIsClientOK, AllType DEF ClientOK
  <1>2. ASSUME NEW d \in Drains, Begin(d) PROVE [Next]_vars
    BY <1>1, <1>2, LoopPosts DEF Begin
  <1>3. ASSUME NEW s \in Sales, SubmitSale(s) \/ CaptureWhole(s) PROVE [Next]_vars
    BY <1>3, QueueAssumption DEF SubmitSale, CaptureWhole, Enqueue, Next
  <1>4. ASSUME NEW d \in Drains, drains[d].at \in {"post", "delete"}
        PROVE  /\ drains[d].items \in Seq(Sales) /\ drains[d].items # <<>>
               /\ Head(drains[d].items) \in Sales /\ Tail(drains[d].items) \in Seq(Sales)
    <2>1. drains[d].items \in Seq(Sales) /\ drains[d].items # <<>>
      BY <1>1, <1>4 DEF ClientOK, DrainsKnow, QueueStates
    <2>2. QED
      BY <2>1, HeadAndTail
  <1>5. ASSUME NEW d \in Drains, Answer(d) PROVE [Next]_vars
    <2>1. <<Head(drains[d].items)>> \in Batches
      BY <1>4, <1>5, QueueAssumption DEF Answer
    <2>2. QED
      BY <1>5, <2>1 DEF Answer, Next
  <1>6. ASSUME NEW d \in Drains, Delete(d) PROVE [Next]_vars
    BY <1>4, <1>6, LoopPosts DEF Delete
  <1>7. CASE Tick \/ OnlineEvent \/ GoOffline \/ Reload
    BY <1>2, <1>7 DEF Tick, OnlineEvent, GoOffline, Reload
  <1>8. CASE Elsewhere
    BY <1>8, QueueAssumption DEF Elsewhere, Next
  <1>9. ASSUME (\E d \in Drains : NoAnswer(d)) \/ UNCHANGED queueVars
        PROVE  [Next]_vars
    BY <1>9 DEF NoAnswer, queueVars
  <1>10. QED
    BY <1>3, <1>5, <1>6, <1>7, <1>8, <1>9 DEF QueueNext

\* The inductive invariant of server and register together.
THEOREM QueueInductiveInvariant == QueueSpec => []QueueIInv
  BY QueueInitIInv, QueueNextIInv, PTL DEF QueueSpec

\* The store holds sales, and what a drain works through is a sequence of them.
THEOREM QueueTypeCorrect == QueueSpec => []QueueTypeOK
  <1>1. QueueIInv => QueueTypeOK
    BY DEF QueueIInv
  <1>2. QED
    BY <1>1, QueueInductiveInvariant, PTL

\* A sale captured offline is in the store or on the ledger, for any number of
\* drains at once, reloads, lost requests and late answers (offline-queue.ts).
THEOREM CapturedSalesAreKept == QueueSpec => []CapturedIsKept
  <1>1. QueueIInv => CapturedIsKept
    BY DEF QueueIInv
  <1>2. QED
    BY <1>1, QueueInductiveInvariant, PTL

\* What a drain has been answered is on the ledger, so that it may delete its
\* copy, as long as it is at it.
THEOREM DeletedSalesAreRecorded == QueueSpec => []DrainsKnow
  <1>1. QueueIInv => DrainsKnow
    BY DEF QueueIInv
  <1>2. QED
    BY <1>1, QueueInductiveInvariant, PTL

\* Server and register together implement the server's specification: what is
\* proved of sale intake under any clients holds of it with these.
THEOREM RegisterIsAClient == QueueSpec => Spec
  <1>1. QueueInit => Init
    BY DEF QueueInit
  <1>2. QueueIInv /\ [QueueNext]_queueVars => [Next]_vars
    BY QueueStepIsServerStep
  <1>3. QED
    BY <1>1, <1>2, QueueInductiveInvariant, PTL DEF QueueSpec, Spec

\* A sale queued, posted, cut off and posted again takes its stock once.
THEOREM QueuedStockLeavesOnce == QueueSpec => []EachSaleOnce
  BY RegisterIsAClient, StockLeavesOnce, PTL
=============================================================================
