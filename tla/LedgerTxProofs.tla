--------------------------- MODULE LedgerTxProofs ---------------------------
(***************************************************************************)
(* For every set of transactions, keys and requests: types, stock that     *)
(* never goes negative, a balance that equals the ledger where its row     *)
(* existed, and never exceeds it anywhere; and the statements, interleaved *)
(* as they may be, implement the atomic requests of StockLedger.           *)
(***************************************************************************)
EXTENDS LedgerTx, SumTheorems, SequenceTheorems, TLAPS

(***************************************************************************)
(* The strengthening.  A transaction has written only rows it has locked   *)
(* (OnlyLocked), so what it wrote stays comparable to the committed row    *)
(* and to the ledger until it commits.                                     *)
(***************************************************************************)
Posting(t) == pc[t] \in {"guard", "lock", "insert", "post"}

\* Between statements of a movement there is a movement; outside a transaction
\* there is neither a write nor a lock.
Shape ==
  \A t \in Txns :
    /\ Posting(t) => todo[t] # <<>>
    /\ pc[t] = "insert" => lock[Key(t)] # t
    /\ pc[t] \notin Live => wrote[t] = {} /\ \A k \in Keys : lock[k] # t

OnlyLocked ==
  \A t \in Txns, k \in Keys :
    /\ k \in wrote[t] => lock[k] = t
    /\ k \notin wrote[t] => delta[t][k] = 0

\* A row that is not there counts as zero.
Unborn == \A k \in Keys : ~exists[k] => onHand[k] = 0

\* Every balance in sight is between zero and the ledger.
Bounded ==
  /\ \A k \in Keys : 0 <= onHand[k] /\ onHand[k] <= posted[k]
  /\ \A t \in Txns : \A k \in wrote[t] :
       0 <= draft[t][k] /\ draft[t][k] <= LayersLeft(t, k)

\* What a movement has read before posting: the balance it has locked, or the
\* (0, 0) of an insert that found the row.
ReadBounded ==
  \A t \in Txns : pc[t] = "post" =>
    /\ 0 <= seen[t]
    /\ lock[Key(t)] = t => seen[t] = View(t, Key(t))
    /\ lock[Key(t)] # t => seen[t] = 0

\* A key with a row is never inserted again, is read under its lock, and its
\* balance is the ledger, committed or not.
Exact ==
  \A k \in Provisioned :
    /\ exists[k]
    /\ onHand[k] = posted[k]
    /\ \A t \in Txns :
         /\ k \in wrote[t] => draft[t][k] = LayersLeft(t, k)
         /\ pc[t] = "insert" => Key(t) # k
         /\ pc[t] = "post" /\ Key(t) = k => lock[k] = t

IInv == TypeOK /\ Shape /\ OnlyLocked /\ Unborn /\ Bounded /\ ReadBounded /\ Exact

-----------------------------------------------------------------------------
(* Facts the steps share. *)

\* A transaction that is posting has a well-formed movement at hand.
LEMMA MoveType ==
  ASSUME TypeOK, Shape, NEW t \in Txns, Posting(t)
  PROVE  /\ Move(t) \in Movements
         /\ Key(t) \in Keys
         /\ Move(t).delta \in Int
         /\ Tail(todo[t]) \in Seq(Movements)
  <1>1. todo[t] \in Seq(Movements) /\ todo[t] # <<>>
    BY DEF TypeOK, Shape
  <1>2. Head(todo[t]) \in Movements /\ Tail(todo[t]) \in Seq(Movements)
    BY <1>1
  <1>3. QED
    BY <1>2 DEF Move, Key, Movements

\* The first statement of a list of movements.
LEMMA EntryType ==
  ASSUME NEW moves \in Seq(Movements)
  PROVE  /\ Entry(moves) \in {"guard", "lock", "commit"}
         /\ Entry(moves) \in {"guard", "lock"} => moves # <<>>
  BY DEF Entry

-----------------------------------------------------------------------------
\* With no transaction open the balances are those of the layers.
LEMMA InitIInv == Init => IInv
  <1> SUFFICES ASSUME Init PROVE IInv
    OBVIOUS
  <1> USE DEF Init
  <1>1. TypeOK
    BY ProvisionedAssumption DEF TypeOK, Live, Done
  <1>2. Shape /\ OnlyLocked /\ Unborn
    BY NoTxAssumption DEF Shape, OnlyLocked, Unborn, Posting, Live
  <1>3. \A k \in Keys : onHand[k] \in Nat /\ posted[k] = onHand[k]
    BY ProvisionedAssumption
  <1>4. Bounded
    BY <1>3 DEF Bounded, LayersLeft
  <1>5. ReadBounded
    BY DEF ReadBounded
  <1>6. Exact
    BY <1>3, ProvisionedAssumption DEF Exact, LayersLeft
  <1>7. QED
    BY <1>1, <1>2, <1>4, <1>5, <1>6 DEF IInv

\* A request that begins has read and written nothing.
LEMMA BeginStep ==
  ASSUME IInv, NEW t \in Txns, NEW req \in Requests, Begin(t, req)
  PROVE  IInv'
  <1> USE DEF IInv, Begin, rows
  <1>1. req \in Seq(Movements) /\ req # <<>> /\ Entry(req) \in {"guard", "lock"}
    BY RequestsAssumption, EntryType DEF Entry
  <1>2. TypeOK'
    BY <1>1 DEF TypeOK, Live, Done
  <1>3. Shape'
    BY <1>1 DEF TypeOK, Shape, Posting, Live, Key, Move
  <1>4. OnlyLocked' /\ Unborn'
    BY DEF OnlyLocked, Unborn
  <1>5. Bounded'
    BY DEF Bounded, LayersLeft
  <1>6. ReadBounded'
    BY <1>1 DEF TypeOK, ReadBounded, Key, Move, View
  <1>7. Exact'
    BY <1>1 DEF TypeOK, Exact, Key, Move, LayersLeft
  <1>8. QED
    BY <1>2, <1>3, <1>4, <1>5, <1>6, <1>7

\* The guard reads a balance, and changes none.
LEMMA AssertCanSellStep ==
  ASSUME IInv, NEW t \in Txns, AssertCanSell(t)
  PROVE  IInv'
  <1> USE DEF IInv, AssertCanSell, rows
  <1>1. TypeOK' /\ Shape'
    BY DEF TypeOK, Shape, Posting, Live, Key, Move
  <1>2. OnlyLocked' /\ Unborn' /\ Bounded'
    BY DEF OnlyLocked, Unborn, Bounded, LayersLeft
  <1>3. ReadBounded' /\ Exact'
    BY DEF TypeOK, ReadBounded, Exact, Key, Move, View, LayersLeft
  <1>4. QED
    BY <1>1, <1>2, <1>3

\* A balance not found leaves the request about to insert it.
LEMMA MissBalanceStep ==
  ASSUME IInv, NEW t \in Txns, MissBalance(t)
  PROVE  IInv'
  <1> USE DEF IInv, MissBalance, rows
  <1>1. TypeOK' /\ Shape'
    BY DEF TypeOK, Shape, Posting, Live, Key, Move, Visible
  <1>2. OnlyLocked' /\ Unborn' /\ Bounded'
    BY DEF OnlyLocked, Unborn, Bounded, LayersLeft
  <1>3. ReadBounded'
    BY DEF TypeOK, ReadBounded, Key, Move, View
  <1>4. Exact'
    BY DEF TypeOK, Exact, Key, Move, LayersLeft, Visible
  <1>5. QED
    BY <1>1, <1>2, <1>3, <1>4

\* What a request reads under the lock is what it has or is committed.
LEMMA LockBalanceStep ==
  ASSUME IInv, NEW t \in Txns, LockBalance(t)
  PROVE  IInv'
  <1> USE DEF IInv, LockBalance, rows
  <1>1. Key(t) \in Keys /\ View(t, Key(t)) \in Int
    BY MoveType DEF TypeOK, Posting, View
  <1>2. \A u \in Txns : Key(u)' = Key(u)
    BY DEF Key, Move
  <1>3. \A u \in Txns, k \in Keys : View(u, k)' = View(u, k)
    BY DEF View
  <1>4. \A k \in Keys : \/ lock'[k] = lock[k]
                        \/ k = Key(t) /\ lock[k] \in {t, NoTx} /\ lock'[k] = t
    BY <1>1 DEF TypeOK, Free
  <1>5. TypeOK'
    BY <1>1 DEF TypeOK, Live
  <1>6. Shape'
    BY <1>1 DEF TypeOK, Shape, Posting, Live, Key, Move, Free
  <1>7. OnlyLocked' /\ Unborn'
    BY <1>4, NoTxAssumption DEF OnlyLocked, Unborn
  <1>8. Bounded'
    BY DEF Bounded, LayersLeft
  <1>9. ReadBounded'
    <2>1. SUFFICES ASSUME NEW u \in Txns, pc'[u] = "post"
                   PROVE  (/\ 0 <= seen[u]
                           /\ lock[Key(u)] = u => seen[u] = View(u, Key(u))
                           /\ lock[Key(u)] # u => seen[u] = 0)'
      BY DEF ReadBounded
    <2>2. Key(u)' = Key(u) /\ View(u, Key(u))' = View(u, Key(u))
      BY DEF Key, Move, View
    <2>3. CASE u = t
      <3>1. 0 <= View(t, Key(t))
        BY <1>1 DEF TypeOK, Bounded, View
      <3>2. lock'[Key(t)] = t /\ seen'[t] = View(t, Key(t))
        BY <1>1 DEF TypeOK
      <3>3. QED
        BY <2>2, <2>3, <3>1, <3>2
    <2>4. CASE u # t
      <3>1. pc[u] = "post" /\ seen'[u] = seen[u] /\ Key(u) \in Keys
        BY <2>1, <2>4, MoveType DEF TypeOK, Posting
      <3>2. lock'[Key(u)] = u <=> lock[Key(u)] = u
        BY <1>4, <2>4, <3>1, NoTxAssumption
      <3>3. QED
        BY <2>2, <3>1, <3>2 DEF ReadBounded
    <2>5. QED
      BY <2>3, <2>4
  <1>10. Exact'
    <2>1. SUFFICES ASSUME NEW k \in Provisioned, NEW u \in Txns
                   PROVE  (/\ exists[k]
                           /\ onHand[k] = posted[k]
                           /\ k \in wrote[u] => draft[u][k] = LayersLeft(u, k)
                           /\ pc[u] = "insert" => Key(u) # k
                           /\ pc[u] = "post" /\ Key(u) = k => lock[k] = u)'
      BY DEF Exact
    <2>2. Key(u)' = Key(u)
      BY DEF Key, Move
    <2>3. k \in Keys
      BY ProvisionedAssumption
    <2>4. QED
      BY <1>1, <1>4, <2>2, <2>3, NoTxAssumption DEF TypeOK, Exact, LayersLeft
  <1>11. QED
    BY <1>5, <1>6, <1>7, <1>8, <1>9, <1>10

\* A balance inserted is zero, and nobody else's.
LEMMA InsertBalanceStep ==
  ASSUME IInv, NEW t \in Txns, InsertBalance(t)
  PROVE  IInv'
  <1> USE DEF IInv, InsertBalance, rows
  <1>1. Key(t) \in Keys /\ lock[Key(t)] # t
    BY MoveType DEF Posting, Shape
  <1>2. \A k \in Keys : \/ lock'[k] = lock[k]
                        \/ k = Key(t) /\ lock[k] = NoTx /\ lock'[k] = t /\ ~exists[k]
    BY <1>1 DEF TypeOK, Free
  <1>3. TypeOK'
    BY <1>1 DEF TypeOK, Live
  <1>4. Shape'
    BY <1>1 DEF TypeOK, Shape, Posting, Live, Key, Move, Free
  <1>5. OnlyLocked' /\ Unborn'
    BY <1>2, NoTxAssumption DEF OnlyLocked, Unborn
  <1>6. Bounded'
    BY DEF Bounded, LayersLeft
  <1>7. ReadBounded'
    <2>1. SUFFICES ASSUME NEW u \in Txns, pc'[u] = "post"
                   PROVE  (/\ 0 <= seen[u]
                           /\ lock[Key(u)] = u => seen[u] = View(u, Key(u))
                           /\ lock[Key(u)] # u => seen[u] = 0)'
      BY DEF ReadBounded
    <2>2. Key(u)' = Key(u) /\ View(u, Key(u))' = View(u, Key(u))
      BY DEF Key, Move, View
    <2>3. CASE u = t
      <3>1. seen'[t] = 0
        BY DEF TypeOK
      <3>2. lock'[Key(t)] = t => View(t, Key(t)) = 0
        BY <1>1, <1>2 DEF Unborn, View, OnlyLocked
      <3>3. QED
        BY <2>2, <2>3, <3>1, <3>2
    <2>4. CASE u # t
      <3>1. pc[u] = "post" /\ seen'[u] = seen[u] /\ Key(u) \in Keys
        BY <2>1, <2>4, MoveType DEF TypeOK, Posting
      <3>2. lock'[Key(u)] = u <=> lock[Key(u)] = u
        BY <1>2, <2>4, <3>1, NoTxAssumption
      <3>3. QED
        BY <2>2, <3>1, <3>2 DEF ReadBounded
    <2>5. QED
      BY <2>3, <2>4
  <1>8. Exact'
    <2>1. SUFFICES ASSUME NEW k \in Provisioned, NEW u \in Txns
                   PROVE  (/\ exists[k]
                           /\ onHand[k] = posted[k]
                           /\ k \in wrote[u] => draft[u][k] = LayersLeft(u, k)
                           /\ pc[u] = "insert" => Key(u) # k
                           /\ pc[u] = "post" /\ Key(u) = k => lock[k] = u)'
      BY DEF Exact
    <2>2. Key(u)' = Key(u)
      BY DEF Key, Move
    <2>3. k \in Keys
      BY ProvisionedAssumption
    <2>4. Key(t) # k /\ exists'[k] /\ onHand'[k] = posted'[k]
      BY DEF Exact
    <2>5. lock'[k] = lock[k]
      BY <1>2, <2>3, <2>4
    <2>6. k \in wrote'[u] => draft'[u][k] = LayersLeft(u, k)'
      BY DEF Exact, LayersLeft
    <2>7. pc'[u] \in {"insert", "post"} /\ u # t => pc'[u] = pc[u]
      BY DEF TypeOK
    <2>8. pc'[t] = "post"
      BY DEF TypeOK
    <2>9. QED
      BY <2>2, <2>4, <2>5, <2>6, <2>7, <2>8 DEF Exact
  <1>9. QED
    BY <1>3, <1>4, <1>5, <1>6, <1>7, <1>8

\* A movement about to be posted has read at most what the ledger holds, and
\* exactly that at a provisioned key.
LEMMA SeenBounded ==
  ASSUME IInv, NEW t \in Txns, pc[t] = "post"
  PROVE  /\ 0 <= seen[t]
         /\ seen[t] <= LayersLeft(t, Key(t))
         /\ Key(t) \in Provisioned => seen[t] = LayersLeft(t, Key(t))
  <1> DEFINE k == Key(t)
  <1>1. k \in Keys
    BY MoveType DEF IInv, Posting
  <1>2. k \notin wrote[t] => delta[t][k] = 0 /\ View(t, k) = onHand[k]
    BY <1>1 DEF IInv, OnlyLocked, View
  <1>3. k \in wrote[t] => View(t, k) = draft[t][k] /\ lock[k] = t
    BY <1>1 DEF IInv, OnlyLocked, View
  <1>4. /\ onHand[k] \in Int /\ posted[k] \in Int /\ delta[t][k] \in Int
        /\ draft[t][k] \in Int /\ seen[t] \in Int
    BY <1>1 DEF IInv, TypeOK
  <1>5. /\ 0 <= onHand[k] /\ onHand[k] <= posted[k]
        /\ k \in wrote[t] => draft[t][k] <= LayersLeft(t, k)
    BY <1>1 DEF IInv, Bounded
  <1>6. /\ 0 <= seen[t]
        /\ lock[k] = t => seen[t] = View(t, k)
        /\ lock[k] # t => seen[t] = 0
    BY DEF IInv, ReadBounded
  <1>7. seen[t] <= LayersLeft(t, k)
    BY <1>2, <1>3, <1>4, <1>5, <1>6 DEF LayersLeft
  <1>8. k \in Provisioned => seen[t] = LayersLeft(t, k)
    <2>1. k \in Provisioned => /\ onHand[k] = posted[k]
                               /\ k \in wrote[t] => draft[t][k] = LayersLeft(t, k)
                               /\ lock[k] = t
      BY DEF IInv, Exact
    <2>2. QED
      BY <2>1, <1>2, <1>3, <1>4, <1>6 DEF LayersLeft
  <1>9. QED
    BY <1>6, <1>7, <1>8

\* Under the lock the balance written is that of the layers.
LEMMA PostMovementStep ==
  ASSUME IInv, NEW t \in Txns, PostMovement(t)
  PROVE  IInv'
  <1> DEFINE k == Key(t)
             d == Move(t).delta
  <1> USE DEF rows
  <1>1. /\ pc[t] = "post" /\ Coverable(t) /\ Free(t, k)
        /\ lock' = [lock EXCEPT ![k] = t]
        /\ wrote' = [wrote EXCEPT ![t] = @ \cup {k}]
        /\ draft' = [draft EXCEPT ![t][k] = seen[t] + d]
        /\ delta' = [delta EXCEPT ![t][k] = @ + d]
        /\ todo' = [todo EXCEPT ![t] = Tail(@)]
        /\ pc' = [pc EXCEPT ![t] = Entry(Tail(todo[t]))]
        /\ UNCHANGED <<exists, onHand, posted, seen>>
    BY DEF PostMovement
  <1> TypeOK /\ Shape /\ OnlyLocked /\ Unborn /\ Bounded /\ ReadBounded /\ Exact
    BY DEF IInv
  <1>2. /\ k \in Keys /\ d \in Int
        /\ Tail(todo[t]) \in Seq(Movements)
        /\ Entry(Tail(todo[t])) \in {"guard", "lock", "commit"}
        /\ Entry(Tail(todo[t])) \in {"guard", "lock"} => Tail(todo[t]) # <<>>
    BY <1>1, MoveType, EntryType DEF Posting
  <1> HIDE DEF k, d
  <1>3. TypeOK'
    BY <1>1, <1>2 DEF TypeOK, Live
  <1>4. \A j \in Keys : \/ lock'[j] = lock[j]
                        \/ j = k /\ lock[j] \in {t, NoTx} /\ lock'[j] = t
    BY <1>1, <1>2 DEF TypeOK, Free
  <1>5. /\ lock'[k] = t /\ k \in wrote'[t]
        /\ draft'[t][k] = seen[t] + d /\ delta'[t][k] = delta[t][k] + d
    BY <1>1, <1>2 DEF TypeOK
  <1>6. \A u \in Txns, j \in Keys : ~(u = t /\ j = k) =>
           /\ j \in wrote'[u] <=> j \in wrote[u]
           /\ draft'[u][j] = draft[u][j] /\ delta'[u][j] = delta[u][j]
    BY <1>1, <1>2 DEF TypeOK
  <1>7. \A u \in Txns : u # t => /\ pc'[u] = pc[u] /\ todo'[u] = todo[u]
                                 /\ wrote'[u] = wrote[u] /\ seen'[u] = seen[u]
    BY <1>1 DEF TypeOK
  <1>8. pc'[t] \in {"guard", "lock", "commit"} /\ todo'[t] = Tail(todo[t])
    BY <1>1, <1>2 DEF TypeOK
  <1>9. \A u \in Txns : u # t => Key(u)' = Key(u)
    BY <1>7 DEF Key, Move
  <1>10. Shape'
    <2>1. SUFFICES ASSUME NEW u \in Txns
                   PROVE  (/\ Posting(u) => todo[u] # <<>>
                           /\ pc[u] = "insert" => lock[Key(u)] # u
                           /\ pc[u] \notin Live =>
                                wrote[u] = {} /\ \A j \in Keys : lock[j] # u)'
      BY DEF Shape
    <2>2. CASE u = t
      <3>1. pc'[t] \in Live /\ pc'[t] # "insert"
        BY <1>8 DEF Live
      <3>2. Posting(t)' => todo'[t] # <<>>
        BY <1>1, <1>2, <1>8 DEF Posting, TypeOK
      <3>3. QED
        BY <2>2, <3>1, <3>2 DEF Posting
    <2>3. CASE u # t
      <3>1. pc[u] = "insert" => Key(u) \in Keys
        BY MoveType DEF Posting
      <3>2. Key(u)' = Key(u)
        BY <1>9, <2>3
      <3>3. QED
        BY <2>3, <1>4, <1>7, <3>1, <3>2 DEF Shape, Posting
    <2>4. QED
      BY <2>2, <2>3
  <1>11. OnlyLocked' /\ Unborn'
    BY <1>1, <1>4, <1>5, <1>6, NoTxAssumption DEF OnlyLocked, Unborn
  <1>12. Bounded'
    <2>1. SUFFICES ASSUME NEW u \in Txns, NEW j \in wrote'[u]
                   PROVE  (0 <= draft[u][j] /\ draft[u][j] <= LayersLeft(u, j))'
      BY <1>1 DEF Bounded
    <2>2. j \in Keys
      BY <1>3 DEF TypeOK
    <2>3. CASE u = t /\ j = k
      <3>1. seen[t] <= LayersLeft(t, k) /\ 0 <= seen[t] + d
        BY <1>1, SeenBounded DEF k, d, Coverable
      <3>2. seen[t] \in Int /\ posted[k] \in Int /\ delta[t][k] \in Int
        BY <1>2 DEF TypeOK
      <3>3. QED
        BY <1>1, <1>2, <1>5, <2>3, <3>1, <3>2 DEF LayersLeft
    <2>4. CASE ~(u = t /\ j = k)
      BY <1>1, <1>6, <2>2, <2>4 DEF Bounded, LayersLeft
    <2>5. QED
      BY <2>3, <2>4
  <1>13. ReadBounded'
    <2>1. SUFFICES ASSUME NEW u \in Txns, pc'[u] = "post"
                   PROVE  (/\ 0 <= seen[u]
                           /\ lock[Key(u)] = u => seen[u] = View(u, Key(u))
                           /\ lock[Key(u)] # u => seen[u] = 0)'
      BY DEF ReadBounded
    <2>2. u # t
      BY <1>8, <2>1
    <2>3. pc[u] = "post" /\ seen'[u] = seen[u] /\ Key(u) \in Keys /\ Key(u)' = Key(u)
      BY <1>7, <1>9, <2>1, <2>2, MoveType DEF Posting
    <2>4. lock'[Key(u)] = u <=> lock[Key(u)] = u
      BY <1>4, <2>2, <2>3, NoTxAssumption
    <2>5. View(u, Key(u))' = View(u, Key(u))
      BY <1>1, <1>6, <2>2, <2>3 DEF View
    <2>6. QED
      BY <2>3, <2>4, <2>5 DEF ReadBounded
  <1>14. Exact'
    <2>1. SUFFICES ASSUME NEW j \in Provisioned, NEW u \in Txns
                   PROVE  (/\ exists[j]
                           /\ onHand[j] = posted[j]
                           /\ j \in wrote[u] => draft[u][j] = LayersLeft(u, j)
                           /\ pc[u] = "insert" => Key(u) # j
                           /\ pc[u] = "post" /\ Key(u) = j => lock[j] = u)'
      BY DEF Exact
    <2>2. j \in Keys
      BY ProvisionedAssumption
    <2>3. exists'[j] /\ onHand'[j] = posted'[j]
      BY <1>1 DEF Exact
    <2>4. j \in wrote'[u] => draft'[u][j] = LayersLeft(u, j)'
      <3>1. CASE u = t /\ j = k
        <4>1. seen[t] = LayersLeft(t, k)
          BY <1>1, <3>1, SeenBounded DEF k
        <4>2. posted[k] \in Int /\ delta[t][k] \in Int
          BY <1>2 DEF TypeOK
        <4>3. QED
          BY <1>1, <1>2, <1>5, <3>1, <4>1, <4>2 DEF LayersLeft
      <3>2. CASE ~(u = t /\ j = k)
        BY <1>1, <1>6, <2>2, <3>2 DEF Exact, LayersLeft
      <3>3. QED
        BY <3>1, <3>2
    <2>5. u # t => /\ pc'[u] = "insert" => Key(u)' # j
                   /\ pc'[u] = "post" /\ Key(u)' = j => lock'[j] = u
      BY <1>4, <1>7, <1>9, <2>2, NoTxAssumption DEF Exact
    <2>6. u = t => pc'[u] \notin {"insert", "post"}
      BY <1>8
    <2>7. QED
      BY <2>3, <2>4, <2>5, <2>6
  <1>15. QED
    BY <1>3, <1>10, <1>11, <1>12, <1>13, <1>14 DEF IInv

\* Rolling back loses the transaction's writes and frees its rows.
LEMMA EndStep ==
  ASSUME IInv, NEW t \in Txns, NEW outcome \in Done, End(t, outcome),
         \/ UNCHANGED rows
         \/ Publish(t)
  PROVE  IInv'
  <1> TypeOK /\ Shape /\ OnlyLocked /\ Unborn /\ Bounded /\ ReadBounded /\ Exact
    BY DEF IInv
  <1> USE DEF rows
  <1>1. /\ pc' = [pc EXCEPT ![t] = outcome]
        /\ lock' = [k \in Keys |-> IF lock[k] = t THEN NoTx ELSE lock[k]]
        /\ todo' = [todo EXCEPT ![t] = <<>>]
        /\ seen' = [seen EXCEPT ![t] = 0]
        /\ wrote' = [wrote EXCEPT ![t] = {}]
        /\ draft' = [draft EXCEPT ![t] = [k \in Keys |-> 0]]
        /\ delta' = [delta EXCEPT ![t] = [k \in Keys |-> 0]]
    BY DEF End, Release
  <1>2. \A k \in Keys : /\ View(t, k) \in Int
                        /\ 0 <= View(t, k) /\ View(t, k) <= LayersLeft(t, k)
                        /\ k \in Provisioned => View(t, k) = LayersLeft(t, k)
    BY DEF TypeOK, View, Bounded, OnlyLocked, LayersLeft, Exact
  <1>3. TypeOK'
    <2>1. exists' \in [Keys -> BOOLEAN]
      BY DEF TypeOK, Publish
    <2>2. onHand' \in [Keys -> Int] /\ posted' \in [Keys -> Int]
      BY <1>2 DEF TypeOK, Publish
    <2>3. lock' \in [Keys -> Txns \cup {NoTx}]
      BY <1>1 DEF TypeOK
    <2>4. todo' \in [Txns -> Seq(Movements)] /\ seen' \in [Txns -> Int]
      BY <1>1 DEF TypeOK
    <2>5. /\ wrote' \in [Txns -> SUBSET Keys]
          /\ draft' \in [Txns -> [Keys -> Int]]
          /\ delta' \in [Txns -> [Keys -> Int]]
      BY <1>1 DEF TypeOK
    <2>6. pc' \in [Txns -> {"idle"} \cup Live \cup Done]
      BY <1>1 DEF TypeOK
    <2>7. QED
      BY <2>1, <2>2, <2>3, <2>4, <2>5, <2>6 DEF TypeOK
  <1>4. \A u \in Txns : u # t =>
           /\ pc'[u] = pc[u] /\ todo'[u] = todo[u] /\ seen'[u] = seen[u]
           /\ wrote'[u] = wrote[u] /\ draft'[u] = draft[u] /\ delta'[u] = delta[u]
    BY <1>1 DEF TypeOK
  <1>5. \A u \in Txns, k \in Keys : u # t => (lock'[k] = u <=> lock[k] = u)
    BY <1>1, NoTxAssumption
  <1>6. /\ pc'[t] \in Done /\ wrote'[t] = {}
        /\ \A k \in Keys : lock'[k] # t /\ delta'[t][k] = 0
    BY <1>1, NoTxAssumption DEF TypeOK
  \* A row that another transaction has locked is not changed.
  <1>7. \A u \in Txns, k \in Keys : u # t /\ lock[k] = u =>
           onHand'[k] = onHand[k] /\ posted'[k] = posted[k]
    BY DEF TypeOK, Publish, OnlyLocked, View
  \* The committed rows stay between zero and the ledger.
  <1>8. \A k \in Keys : /\ 0 <= onHand'[k] /\ onHand'[k] <= posted'[k]
                        /\ k \in Provisioned => onHand'[k] = posted'[k]
                        /\ exists[k] => exists'[k]
    <2>1. SUFFICES ASSUME NEW k \in Keys
                   PROVE  /\ 0 <= onHand'[k] /\ onHand'[k] <= posted'[k]
                          /\ k \in Provisioned => onHand'[k] = posted'[k]
                          /\ exists[k] => exists'[k]
      OBVIOUS
    <2>2. CASE UNCHANGED rows
      BY <2>2 DEF Bounded, Exact
    <2>3. CASE Publish(t)
      <3>1. onHand'[k] = View(t, k) /\ posted'[k] = LayersLeft(t, k)
        BY <2>3 DEF Publish, LayersLeft
      <3>2. exists[k] => exists'[k]
        BY <2>3 DEF Publish
      <3>3. QED
        BY <1>2, <3>1, <3>2
    <2>4. QED
      BY <2>2, <2>3
  <1>9. \A u \in Txns : u # t => Key(u)' = Key(u)
    BY <1>4 DEF Key, Move
  <1>10. Shape'
    <2>1. SUFFICES ASSUME NEW u \in Txns
                   PROVE  (/\ Posting(u) => todo[u] # <<>>
                           /\ pc[u] = "insert" => lock[Key(u)] # u
                           /\ pc[u] \notin Live =>
                                wrote[u] = {} /\ \A j \in Keys : lock[j] # u)'
      BY DEF Shape
    <2>2. CASE u = t
      BY <1>6, <2>2 DEF Posting, Done
    <2>3. CASE u # t
      <3>1. pc[u] = "insert" => Key(u) \in Keys
        BY MoveType DEF Posting
      <3>2. QED
        BY <1>4, <1>5, <1>9, <2>3, <3>1 DEF Shape, Posting
    <2>4. QED
      BY <2>2, <2>3
  <1>11. OnlyLocked'
    BY <1>4, <1>5, <1>6 DEF OnlyLocked
  <1>12. Unborn'
    BY DEF Unborn, Publish, View, TypeOK
  <1>13. Bounded'
    <2>1. SUFFICES ASSUME NEW u \in Txns, NEW j \in wrote'[u]
                   PROVE  (0 <= draft[u][j] /\ draft[u][j] <= LayersLeft(u, j))'
      BY <1>8 DEF Bounded
    <2>2. u # t /\ j \in wrote[u] /\ j \in Keys /\ lock[j] = u
      BY <1>4, <1>6, <2>1 DEF TypeOK, OnlyLocked
    <2>3. QED
      BY <1>4, <1>7, <2>2 DEF Bounded, LayersLeft
  <1>14. ReadBounded'
    <2>1. SUFFICES ASSUME NEW u \in Txns, pc'[u] = "post"
                   PROVE  (/\ 0 <= seen[u]
                           /\ lock[Key(u)] = u => seen[u] = View(u, Key(u))
                           /\ lock[Key(u)] # u => seen[u] = 0)'
      BY DEF ReadBounded
    <2>2. u # t
      BY <1>6, <2>1 DEF Done
    <2>3. pc[u] = "post" /\ seen'[u] = seen[u] /\ Key(u) \in Keys /\ Key(u)' = Key(u)
      BY <1>4, <1>9, <2>1, <2>2, MoveType DEF Posting
    <2>4. lock[Key(u)] = u => View(u, Key(u))' = View(u, Key(u))
      BY <1>4, <1>7, <2>2, <2>3 DEF View
    <2>5. QED
      BY <1>5, <2>2, <2>3, <2>4 DEF ReadBounded
  <1>15. Exact'
    <2>1. SUFFICES ASSUME NEW j \in Provisioned, NEW u \in Txns
                   PROVE  (/\ exists[j]
                           /\ onHand[j] = posted[j]
                           /\ j \in wrote[u] => draft[u][j] = LayersLeft(u, j)
                           /\ pc[u] = "insert" => Key(u) # j
                           /\ pc[u] = "post" /\ Key(u) = j => lock[j] = u)'
      BY DEF Exact
    <2>2. j \in Keys
      BY ProvisionedAssumption
    <2>3. exists'[j] /\ onHand'[j] = posted'[j]
      BY <1>8, <2>2 DEF Exact
    <2>4. CASE u = t
      BY <1>6, <2>3, <2>4 DEF Done
    <2>5. CASE u # t
      <3>1. j \in wrote[u] => draft'[u][j] = LayersLeft(u, j)'
        BY <1>4, <1>7, <2>2, <2>5 DEF Exact, OnlyLocked, LayersLeft
      <3>2. QED
        BY <1>4, <1>5, <1>9, <2>2, <2>3, <2>5, <3>1 DEF Exact
    <2>6. QED
      BY <2>4, <2>5
  <1>16. QED
    BY <1>3, <1>10, <1>11, <1>12, <1>13, <1>14, <1>15 DEF IInv

\* Nothing changes.
LEMMA StutterStep == IInv /\ UNCHANGED vars => IInv'
  BY DEF IInv, vars, TypeOK, Shape, OnlyLocked, Unborn, Bounded, ReadBounded,
         Exact, Posting, Key, Move, View, LayersLeft

\* Every step keeps the invariant.
LEMMA NextIInv == IInv /\ [Next]_vars => IInv'
  <1> SUFFICES ASSUME IInv, Next PROVE IInv'
    BY StutterStep
  <1>1. PICK t \in Txns : \/ \E req \in Requests : Begin(t, req)
                          \/ Statement(t)
                          \/ BreakDeadlock(t)
                          \/ Crash(t)
    BY DEF Next
  <1>2. CASE \E req \in Requests : Begin(t, req)
    BY <1>2, BeginStep
  <1>3. CASE Statement(t)
    <2>1. CASE AssertCanSell(t)
      BY <2>1, AssertCanSellStep
    <2>2. CASE LockBalance(t)
      BY <2>2, LockBalanceStep
    <2>3. CASE MissBalance(t)
      BY <2>3, MissBalanceStep
    <2>4. CASE InsertBalance(t)
      BY <2>4, InsertBalanceStep
    <2>5. CASE PostMovement(t)
      BY <2>5, PostMovementStep
    <2>6. CASE Commit(t)
      BY <2>6, EndStep DEF Commit, Done
    <2>7. CASE Conflict(t)
      BY <2>7, EndStep DEF Conflict, Done
    <2>8. QED
      BY <1>3, <2>1, <2>2, <2>3, <2>4, <2>5, <2>6, <2>7 DEF Statement
  <1>4. CASE BreakDeadlock(t)
    BY <1>4, EndStep DEF BreakDeadlock, Done
  <1>5. CASE Crash(t)
    BY <1>5, EndStep DEF Crash, Done
  <1>6. QED
    BY <1>1, <1>2, <1>3, <1>4, <1>5

\* The strengthening holds of every behaviour.
THEOREM InductiveInvariant == Spec => []IInv
  BY InitIInv, NextIInv, PTL DEF Spec

-----------------------------------------------------------------------------
(* The theorems. *)

\* Every variable keeps its type, for any set of requests.
THEOREM TypeCorrect == Spec => []TypeOK
  <1>1. IInv => TypeOK
    BY DEF IInv
  <1>2. QED
    BY <1>1, InductiveInvariant, PTL

\* No interleaving of requests makes on-hand or the ledger negative (FR-033).
THEOREM StockNeverNegative == Spec => []NoNegativeStock
  <1>1. IInv => NoNegativeStock
    BY DEF IInv, TypeOK, Bounded, NoNegativeStock
  <1>2. QED
    BY <1>1, InductiveInvariant, PTL

\* The balance is the ledger wherever its row was there first.
THEOREM BalanceIsLedger == Spec => []ProvisionedBalanceExact
  <1>1. IInv => ProvisionedBalanceExact
    BY DEF IInv, Exact, ProvisionedBalanceExact
  <1>2. QED
    BY <1>1, InductiveInvariant, PTL

\* Where first movements race, the balance can only hide stock.
THEOREM BalanceNeverOverstated == Spec => []NeverOverstated
  <1>1. IInv => NeverOverstated
    BY DEF IInv, Bounded, NeverOverstated
  <1>2. QED
    BY <1>1, InductiveInvariant, PTL

\* What a transaction has read under the row lock is what it overwrites.
THEOREM LockedReadsAreStable == Spec => HeldBalanceIsStable
  <1>1. ASSUME IInv, Next, NEW k \in Keys, NEW t \in Txns,
               exists[k], lock[k] = t, pc'[t] # "committed"
        PROVE  onHand'[k] = onHand[k]
    <2>1. PICK u \in Txns : onHand' = onHand \/ Commit(u)
      BY <1>1 DEF Next, Begin, Statement, AssertCanSell, LockBalance, MissBalance,
                  InsertBalance, PostMovement, Conflict, BreakDeadlock, Crash, rows
    <2>2. CASE Commit(u)
      <3>1. u # t
        BY <1>1, <2>2 DEF Commit, End, IInv, TypeOK
      <3>2. k \notin wrote[u]
        BY <1>1, <3>1 DEF IInv, OnlyLocked
      <3>3. QED
        BY <2>2, <3>2 DEF Commit, Publish, View
    <2>3. QED
      BY <2>1, <2>2
  <1>2. IInv /\ [Next]_vars =>
          [\A k \in Keys, t \in Txns :
             /\ exists[k] /\ lock[k] = t
             /\ pc'[t] # "committed"
             => onHand'[k] = onHand[k]]_vars
    BY <1>1
  <1>3. QED
    BY <1>2, InductiveInvariant, PTL DEF Spec, HeldBalanceIsStable
-----------------------------------------------------------------------------
(***************************************************************************)
(* The refinement.  What a transaction has posted and not committed is the *)
(* sum over a prefix of its request, and the rest of the request is what   *)
(* it has to do; so at its commit, with nothing left to do, it publishes   *)
(* the Net of the request at every key.                                    *)
(***************************************************************************)
\* What a request adds to key k, movement by movement.
Adds(req, k) == [i \in DOMAIN req |-> IF req[i].key = k THEN req[i].delta ELSE 0]

\* The first n movements of req are posted by t, and the others are to do.
PostedUpTo(t, req, n) ==
  /\ todo[t] = SubSeq(req, n + 1, Len(req))
  /\ \A k \in Keys : delta[t][k] = SumFunctionOnSet(Adds(req, k), 1..n)

\* An open transaction is in the midst of a request.
InMidst(t) ==
  /\ pc[t] \in Live => \E req \in Requests : \E n \in 0..Len(req) : PostedUpTo(t, req, n)
  /\ pc[t] = "commit" => todo[t] = <<>>

Progress == \A t \in Txns : InMidst(t)

\* The inductive invariant of the refinement.
RInv == IInv /\ Progress

\* The abstract ledger's Net is a sum over the movements of the request.
LEMMA NetIsSum ==
  ASSUME NEW req, NEW k
  PROVE  Atomic!Net(req, k) = SumFunctionOnSet(Adds(req, k), DOMAIN req)
  BY DEF Atomic!Net, Atomic!SumFunction, Atomic!SumFunctionOnSet,
         Atomic!FoldFunctionOnSet, Atomic!MapThenFoldSet,
         SumFunctionOnSet, FoldFunctionOnSet, MapThenFoldSet, Adds

\* Adds is an integer function on the positions of the request.
LEMMA AddsType ==
  ASSUME NEW req \in Seq(Movements), NEW k
  PROVE  Adds(req, k) \in [1..Len(req) -> Int]
  <1>1. \A i \in DOMAIN req : req[i] \in Movements
    OBVIOUS
  <1>2. \A i \in DOMAIN req : req[i].delta \in Int
    BY <1>1 DEF Movements
  <1>3. DOMAIN req = 1..Len(req)
    OBVIOUS
  <1>4. QED
    BY <1>2, <1>3 DEF Adds

\* The sum over one movement more.
LEMMA OneMore ==
  ASSUME NEW req \in Seq(Movements), NEW k, NEW n \in Nat, n < Len(req)
  PROVE  SumFunctionOnSet(Adds(req, k), 1..(n + 1))
           = (IF req[n + 1].key = k THEN req[n + 1].delta ELSE 0)
             + SumFunctionOnSet(Adds(req, k), 1..n)
  <1>1. Len(req) \in Nat /\ DOMAIN req = 1..Len(req)
    OBVIOUS
  <1>2. /\ 1..(n + 1) \in SUBSET (1..Len(req))
        /\ n + 1 \in 1..(n + 1)
        /\ (1..(n + 1)) \ {n + 1} = 1..n
    BY <1>1
  <1>3. IsFiniteSet(1..(n + 1))
    BY FS_Interval
  <1>4. Adds(req, k)[n + 1] = IF req[n + 1].key = k THEN req[n + 1].delta ELSE 0
    BY <1>1, <1>2 DEF Adds
  <1>5. SumFunctionOnSet(Adds(req, k), 1..(n + 1))
          = Adds(req, k)[n + 1] + SumFunctionOnSet(Adds(req, k), (1..(n + 1)) \ {n + 1})
    BY <1>2, <1>3, AddsType, SumTake
  <1>6. QED
    BY <1>2, <1>4, <1>5

\* What other transactions do is not this one's progress.
LEMMA SameProgress ==
  ASSUME Progress, NEW t \in Txns,
         \A u \in Txns : u # t => pc'[u] = pc[u] /\ todo'[u] = todo[u] /\ delta'[u] = delta[u],
         InMidst(t)'
  PROVE  Progress'
  <1>1. ASSUME NEW u \in Txns, u # t
        PROVE  InMidst(u)'
    <2>1. InMidst(u) /\ pc'[u] = pc[u] /\ todo'[u] = todo[u] /\ delta'[u] = delta[u]
      BY <1>1 DEF Progress
    <2>2. \A req, n : PostedUpTo(u, req, n) => PostedUpTo(u, req, n)'
      BY <2>1 DEF PostedUpTo
    <2>3. QED
      BY <2>1, <2>2 DEF InMidst
  <1>2. QED
    BY <1>1 DEF Progress

\* A transaction that begins has posted nothing.
LEMMA ProgressBegin ==
  ASSUME RInv, NEW t \in Txns, NEW req \in Requests, Begin(t, req)
  PROVE  Progress'
  <1>1. req \in Seq(Movements) /\ req # <<>> /\ Entry(req) \in {"guard", "lock"}
    BY RequestsAssumption, EntryType DEF Entry
  <1>2. Len(req) \in Nat /\ SubSeq(req, 0 + 1, Len(req)) = req
    BY <1>1
  <1>3. \A k \in Keys : delta[t][k] = 0
    BY DEF RInv, IInv, Shape, OnlyLocked, Begin, Live
  <1>4. \A k \in Keys : SumFunctionOnSet(Adds(req, k), 1..0) = 0
    <2>1. 1..0 = {}
      OBVIOUS
    <2>2. QED
      BY <2>1, SumEmpty
  <1>5. pc'[t] # "commit" /\ PostedUpTo(t, req, 0)'
    BY <1>1, <1>2, <1>3, <1>4 DEF RInv, IInv, TypeOK, Begin, PostedUpTo
  <1>6. \A u \in Txns : u # t =>
          pc'[u] = pc[u] /\ todo'[u] = todo[u] /\ delta'[u] = delta[u]
    BY DEF RInv, IInv, TypeOK, Begin
  <1>7. InMidst(t)'
    <2>1. 0 \in 0..Len(req)
      BY <1>2
    <2>2. QED
      BY <1>5, <2>1 DEF InMidst
  <1>8. QED
    BY <1>6, <1>7, SameProgress DEF RInv

\* A movement posted moves from what is to do to what is done.
LEMMA ProgressPost ==
  ASSUME RInv, NEW t \in Txns, PostMovement(t)
  PROVE  Progress'
  <1>1. TypeOK /\ Shape /\ pc[t] \in Live /\ todo[t] # <<>>
    BY DEF RInv, IInv, Shape, Posting, PostMovement, Live
  <1>2a. PICK req \in Requests : \E n \in 0..Len(req) : PostedUpTo(t, req, n)
    BY <1>1 DEF RInv, Progress, InMidst
  <1>2. PICK n \in 0..Len(req) : PostedUpTo(t, req, n)
    BY <1>2a
  <1>3. req \in Seq(Movements) /\ Len(req) \in Nat /\ n \in Nat
    BY RequestsAssumption
  <1>4. n < Len(req)
    BY <1>1, <1>2, <1>3 DEF PostedUpTo
  <1>5. /\ Move(t) = req[n + 1]
        /\ Tail(todo[t]) = SubSeq(req, (n + 1) + 1, Len(req))
    <2>1. n + 1 \in 1..Len(req) /\ Len(req) \in (n + 1)..Len(req)
      BY <1>3, <1>4
    <2>2. QED
      BY <1>2, <1>3, <2>1, HeadTailOfSubSeq DEF PostedUpTo, Move
  <1>6. /\ Key(t) \in Keys /\ Move(t).delta \in Int
        /\ delta' = [delta EXCEPT ![t][Key(t)] = @ + Move(t).delta]
        /\ todo' = [todo EXCEPT ![t] = Tail(@)]
        /\ pc' = [pc EXCEPT ![t] = Entry(Tail(todo[t]))]
    BY <1>1, MoveType DEF PostMovement, Posting
  <1>7. \A k \in Keys : delta'[t][k] = SumFunctionOnSet(Adds(req, k), 1..(n + 1))
    <2> TAKE k \in Keys
    <2>1. /\ delta[t][k] \in Int
          /\ delta'[t][k] = delta[t][k] + (IF Key(t) = k THEN Move(t).delta ELSE 0)
      BY <1>1, <1>6 DEF TypeOK
    <2>2. delta[t][k] = SumFunctionOnSet(Adds(req, k), 1..n)
      BY <1>2 DEF PostedUpTo
    <2>3. SumFunctionOnSet(Adds(req, k), 1..(n + 1))
            = (IF Key(t) = k THEN Move(t).delta ELSE 0) + delta[t][k]
      BY <1>3, <1>4, <1>5, <2>2, OneMore DEF Key
    <2>4. QED
      BY <1>6, <2>1, <2>3
  <1>8. PostedUpTo(t, req, n + 1)' /\ n + 1 \in 0..Len(req)
    <2>1. todo'[t] = SubSeq(req, (n + 1) + 1, Len(req))
      BY <1>1, <1>5, <1>6 DEF TypeOK
    <2>2. n + 1 \in 0..Len(req)
      BY <1>3, <1>4
    <2>3. QED
      BY <1>7, <2>1, <2>2 DEF PostedUpTo
  <1>9. pc'[t] = "commit" => todo'[t] = <<>>
    BY <1>1, <1>6 DEF TypeOK, Entry
  <1>10. \A u \in Txns : u # t =>
          pc'[u] = pc[u] /\ todo'[u] = todo[u] /\ delta'[u] = delta[u]
    BY <1>1, <1>6 DEF TypeOK
  <1>11. InMidst(t)'
    BY <1>8, <1>9 DEF InMidst
  <1>12. QED
    BY <1>10, <1>11, SameProgress DEF RInv

\* Any other statement leaves the movements and the deltas as they are.
LEMMA ProgressKept ==
  ASSUME RInv, NEW t \in Txns, UNCHANGED <<todo, delta>>,
         \/ UNCHANGED pc
         \/ pc[t] \in Live /\ \E at \in Live \ {"commit"} : pc' = [pc EXCEPT ![t] = at]
  PROVE  Progress'
  <1>1. /\ InMidst(t)
        /\ pc'[t] \in Live => pc[t] \in Live
        /\ pc'[t] = "commit" => pc[t] = "commit"
    BY DEF RInv, IInv, TypeOK, Progress, Live
  <1>2. \A req, n : PostedUpTo(t, req, n) => PostedUpTo(t, req, n)'
    BY DEF PostedUpTo
  <1>3. InMidst(t)'
    BY <1>1, <1>2 DEF InMidst
  <1>4. \A u \in Txns : u # t =>
          pc'[u] = pc[u] /\ todo'[u] = todo[u] /\ delta'[u] = delta[u]
    BY DEF RInv, IInv, TypeOK
  <1>5. QED
    BY <1>3, <1>4, SameProgress DEF RInv

\* A transaction that ends is in the midst of nothing.
LEMMA ProgressEnd ==
  ASSUME RInv, NEW t \in Txns, NEW outcome \in Done, End(t, outcome)
  PROVE  Progress'
  <1>1. outcome \notin Live
    BY DEF Done, Live
  <1>2. pc'[t] \notin Live
    BY <1>1 DEF End, RInv, IInv, TypeOK
  <1>3. \A u \in Txns : u # t =>
          pc'[u] = pc[u] /\ todo'[u] = todo[u] /\ delta'[u] = delta[u]
    BY DEF RInv, IInv, TypeOK, End
  <1>4. InMidst(t)'
    BY <1>2 DEF InMidst, Live
  <1>5. QED
    BY <1>3, <1>4, SameProgress DEF RInv

\* Every step keeps the invariant of the refinement.
LEMMA NextRInv == RInv /\ [Next]_vars => RInv'
  <1> SUFFICES ASSUME RInv, [Next]_vars PROVE Progress'
    BY NextIInv DEF RInv
  <1>1. CASE UNCHANGED vars
    BY <1>1 DEF vars, RInv, Progress, InMidst, PostedUpTo
  <1>2. ASSUME NEW t \in Txns, NEW req \in Requests, Begin(t, req)
        PROVE  Progress'
    BY <1>2, ProgressBegin
  <1>3. ASSUME NEW t \in Txns, \/ AssertCanSell(t) \/ LockBalance(t)
                               \/ MissBalance(t) \/ InsertBalance(t)
        PROVE  Progress'
    <2>1. /\ UNCHANGED <<todo, delta>> /\ pc[t] \in Live
          /\ \E at \in Live \ {"commit"} : pc' = [pc EXCEPT ![t] = at]
      BY <1>3 DEF AssertCanSell, LockBalance, MissBalance, InsertBalance, Live
    <2>2. QED
      BY <2>1, ProgressKept
  <1>4. ASSUME NEW t \in Txns, \/ Commit(t) \/ Conflict(t)
                               \/ BreakDeadlock(t) \/ Crash(t)
        PROVE  Progress'
    BY <1>4, ProgressEnd DEF Commit, Conflict, BreakDeadlock, Crash, Done
  <1>5. QED
    BY <1>1, <1>2, <1>3, <1>4, ProgressPost DEF Next, Statement

\* No transaction is open, so none is in the midst of a request.
LEMMA InitRInv == Init => RInv
  BY InitIInv DEF Init, RInv, Progress, InMidst, Live

\* A commit is a request of the abstract ledger.
LEMMA CommitPosts ==
  ASSUME RInv, NEW t \in Txns, Commit(t)
  PROVE  \E req \in Requests : Atomic!Post(req)
  <1>1. IInv /\ TypeOK /\ pc[t] \in Live /\ todo[t] = <<>>
    BY DEF RInv, IInv, Progress, InMidst, Commit, Live
  <1>2a. PICK req \in Requests : \E n \in 0..Len(req) : PostedUpTo(t, req, n)
    BY <1>1 DEF RInv, Progress, InMidst
  <1>2. PICK n \in 0..Len(req) : PostedUpTo(t, req, n)
    BY <1>2a
  <1>3. req \in Seq(Movements) /\ Len(req) \in Nat /\ DOMAIN req = 1..Len(req)
    BY RequestsAssumption
  <1>4. n = Len(req)
    <2>1. SUFFICES ASSUME n # Len(req) PROVE FALSE
      OBVIOUS
    <2>2. n \in Nat /\ n + 1 \in Int /\ Len(req) \in Int /\ n < Len(req)
      <3>1. n \in 0..Len(req) /\ Len(req) \in Nat
        BY <1>3
      <3>2. QED
        BY <2>1, <3>1
    <2>3. SubSeq(req, n + 1, Len(req)) # <<>>
      <3>1. \A i \in (n + 1)..Len(req) : req[i] \in Movements
        BY <1>3, <2>2
      <3>2. Len(SubSeq(req, n + 1, Len(req))) = Len(req) - (n + 1) + 1
        BY <2>2, <3>1, SubSeqProperties
      <3>3. Len(SubSeq(req, n + 1, Len(req))) # 0
        BY <2>2, <3>2
      <3>4. QED
        BY <3>3, EmptySeq
    <2>4. QED
      BY <1>1, <1>2, <2>3 DEF PostedUpTo
  <1>5. \A k \in Keys : Atomic!Net(req, k) = delta[t][k]
    BY <1>2, <1>3, <1>4, NetIsSum DEF PostedUpTo
  <1>6. IInv'
    BY <1>1, EndStep DEF Commit, Done
  <1>7. \A k \in Provisioned :
          /\ k \in Keys
          /\ posted'[k] = posted[k] + delta[t][k]
          /\ onHand[k] = posted[k] /\ onHand'[k] = posted'[k] /\ onHand'[k] >= 0
          /\ onHand[k] \in Int /\ delta[t][k] \in Int
    <2> TAKE k \in Provisioned
    <2>1. k \in Keys
      BY ProvisionedAssumption
    <2>2. posted'[k] = posted[k] + delta[t][k]
      BY <2>1 DEF Commit, Publish
    <2>3. onHand[k] = posted[k] /\ onHand'[k] = posted'[k]
      BY <1>1, <1>6 DEF IInv, Exact
    <2>4. onHand'[k] >= 0
      BY <1>6, <2>1 DEF IInv, TypeOK, Bounded
    <2>5. onHand[k] \in Int /\ delta[t][k] \in Int
      BY <1>1, <2>1 DEF TypeOK
    <2>6. QED
      BY <2>1, <2>2, <2>3, <2>4, <2>5
  <1>8. Atomic!Post(req)
    BY <1>5, <1>7 DEF Atomic!Post
  <1>9. QED
    BY <1>8

\* Committed history is one of StockLedger: a Commit takes the whole of a request
\* at once, on the balance and on the ledger, and no other step shows.
THEOREM RequestsAreAtomic == Spec => Serializable
  <1>1. Init => Atomic!Init
    BY ProvisionedAssumption DEF Init, Atomic!Init
  <1>2. RInv /\ [Next]_vars => [Atomic!Next]_(Atomic!vars)
    <2> SUFFICES ASSUME RInv, [Next]_vars
                 PROVE  Atomic!Next \/ UNCHANGED Atomic!vars
      OBVIOUS
    <2>1. CASE \E t \in Txns : Commit(t)
      BY <2>1, CommitPosts DEF Atomic!Next
    <2>2. CASE ~ \E t \in Txns : Commit(t)
      <3>1. UNCHANGED <<onHand, posted>>
        BY <2>2 DEF Next, vars, rows, Begin, Statement, AssertCanSell, LockBalance,
                    MissBalance, InsertBalance, PostMovement, Conflict, BreakDeadlock, Crash
      <3>2. QED
        BY <3>1 DEF Atomic!vars
    <2>3. QED
      BY <2>1, <2>2
  <1>3. QED
    BY <1>1, <1>2, InitRInv, NextRInv, PTL DEF Spec, Serializable, Atomic!Spec
=============================================================================
