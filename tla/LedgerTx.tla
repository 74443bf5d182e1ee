------------------------------ MODULE LedgerTx ------------------------------
(***************************************************************************)
(* post_movement (domain/inventory/ledger.py) run by concurrent requests,  *)
(* one database statement per step.  Each HTTP request is one PostgreSQL   *)
(* READ COMMITTED transaction (core/db.py get_session): what it writes is  *)
(* its own until it commits, the row locks it takes are held until it      *)
(* ends, and an exception rolls everything back.  Non-serialized SKUs; the *)
(* serial row that a serialized movement locks as well is in               *)
(* SerialInventory.                                                        *)
(*                                                                         *)
(* inv.cost_layer has no variable: an inbound movement inserts a layer of  *)
(* qty_delta and an outbound one takes exactly -qty_delta from the layers  *)
(* or fails, so at a key the layers left are the ledger rows summed        *)
(* (LayersLeft).  Quantities are integers.                                 *)
(***************************************************************************)
EXTENDS Integers, Sequences

CONSTANTS Txns,         \* transactions (HTTP requests)
          Keys,         \* (sku_id, location_id) pairs
          Requests,     \* what a request may ask: sequences of movements
          Provisioned,  \* keys whose inv.balance row exists from the start
          Opening,      \* their stock then, received by earlier requests
          NoTx          \* the owner of a row nobody has locked

Movements == [key : Keys, delta : Int, guarded : BOOLEAN]

ASSUME ProvisionedAssumption == /\ Provisioned \subseteq Keys
                                /\ Opening \in [Provisioned -> Nat]

\* api/schemas and the services refuse a zero or negative quantity and an
\* empty list of lines; a guarded movement is a sale.
ASSUME RequestsAssumption ==
  /\ Requests \subseteq Seq(Movements)
  /\ \A req \in Requests :
       /\ req # <<>>
       /\ \A i \in DOMAIN req :
            /\ req[i].delta # 0
            /\ req[i].guarded => req[i].delta < 0

ASSUME NoTxAssumption == NoTx \notin Txns

VARIABLES exists,   \* committed: is there an inv.balance row for the key
          onHand,   \* committed: inv.balance.on_hand (0 when no row)
          posted,   \* committed: SUM(qty_delta) over inv.ledger
          lock,     \* who holds the row lock, or has inserted the row
          pc,       \* the statement the transaction runs next
          todo,     \* its movements still to post
          seen,     \* the on_hand its _ensure_balance_locked returned
          wrote,    \* the keys whose balance row it has updated
          draft,    \* the on_hand it wrote there, not yet committed
          delta     \* SUM(qty_delta) of its uncommitted ledger rows

rows == <<exists, onHand, posted>>
vars == <<exists, onHand, posted, lock, pc, todo, seen, wrote, draft, delta>>

Live == {"guard", "lock", "insert", "post", "commit"}
Done == {"committed", "aborted"}

TypeOK ==
  /\ exists \in [Keys -> BOOLEAN]
  /\ onHand \in [Keys -> Int]
  /\ posted \in [Keys -> Int]
  /\ lock \in [Keys -> Txns \cup {NoTx}]
  /\ pc \in [Txns -> {"idle"} \cup Live \cup Done]
  /\ todo \in [Txns -> Seq(Movements)]
  /\ seen \in [Txns -> Int]
  /\ wrote \in [Txns -> SUBSET Keys]
  /\ draft \in [Txns -> [Keys -> Int]]
  /\ delta \in [Txns -> [Keys -> Int]]

Init ==
  /\ exists = [k \in Keys |-> k \in Provisioned]
  /\ onHand = [k \in Keys |-> IF k \in Provisioned THEN Opening[k] ELSE 0]
  /\ posted = onHand
  /\ lock = [k \in Keys |-> NoTx]
  /\ pc = [t \in Txns |-> "idle"]
  /\ todo = [t \in Txns |-> <<>>]
  /\ seen = [t \in Txns |-> 0]
  /\ wrote = [t \in Txns |-> {}]
  /\ draft = [t \in Txns |-> [k \in Keys |-> 0]]
  /\ delta = [t \in Txns |-> [k \in Keys |-> 0]]

-----------------------------------------------------------------------------
(* Views and guards. *)

\* The movement transaction t is posting.
Move(t) == Head(todo[t])
Key(t)  == Move(t).key

\* The first statement of a movement: a sale reads `available` first.
Entry(moves) == IF moves = <<>> THEN "commit"
                ELSE IF Head(moves).guarded THEN "guard" ELSE "lock"

\* on_hand as t reads it: its own write, or the committed row.
View_Committed(t, k) == onHand[k]       \* mutant: its own write is not flushed
View(t, k) == IF k \in wrote[t] THEN draft[t][k] ELSE onHand[k]

\* The quantity left in the cost layers t can see at k.
LayersLeft(t, k) == posted[k] + delta[t][k]

\* The row lock on k is free for t.
Free_NoForUpdate(t, k) == TRUE          \* mutant: a plain SELECT and UPDATE
Free(t, k) == lock[k] \in {t, NoTx}

\* SELECT ... FOR UPDATE finds a row: a committed one, or t's own insert.
Visible(t, k) == exists[k] \/ lock[k] = t

\* The statement t is at waits for another transaction's row lock.  A SELECT
\* does not see, and does not wait for, a row another one is inserting; the
\* INSERT that follows does.
Waiting(t) ==
  /\ pc[t] \in {"lock", "insert", "post"}
  /\ ~Free(t, Key(t))
  /\ pc[t] = "lock" => exists[Key(t)]
  /\ pc[t] = "insert" => ~exists[Key(t)]

\* t is on a cycle of waiting transactions.
Deadlocked(t) ==
  \E cycle \in SUBSET Txns :
    /\ t \in cycle
    /\ \A u \in cycle : Waiting(u)
    /\ {lock[Key(u)] : u \in cycle} = cycle

-----------------------------------------------------------------------------
(* One action per statement. *)

\* A request arrives and its transaction opens.
Begin(t, req) ==
  /\ pc[t] = "idle"
  /\ todo' = [todo EXCEPT ![t] = req]
  /\ pc' = [pc EXCEPT ![t] = Entry(req)]
  /\ UNCHANGED <<rows, lock, seen, wrote, draft, delta>>

\* assert_can_sell: a plain SELECT, which neither waits nor locks.
GuardPasses(t) == /\ Visible(t, Key(t))
                  /\ View(t, Key(t)) >= -Move(t).delta

AssertCanSell(t) ==
  /\ pc[t] = "guard"
  /\ GuardPasses(t)
  /\ pc' = [pc EXCEPT ![t] = "lock"]
  /\ UNCHANGED <<rows, lock, todo, seen, wrote, draft, delta>>

\* _ensure_balance_locked, row found: SELECT ... FOR UPDATE waits for the lock
\* and returns the row as it is once it has it.
LockBalance(t) ==
  /\ pc[t] = "lock"
  /\ Visible(t, Key(t))
  /\ Free(t, Key(t))
  /\ lock' = [lock EXCEPT ![Key(t)] = t]
  /\ seen' = [seen EXCEPT ![t] = View(t, Key(t))]
  /\ pc' = [pc EXCEPT ![t] = "post"]
  /\ UNCHANGED <<rows, todo, wrote, draft, delta>>

\* _ensure_balance_locked, no row: the SELECT returns at once, with no lock.
MissBalance(t) ==
  /\ pc[t] = "lock"
  /\ ~Visible(t, Key(t))
  /\ pc' = [pc EXCEPT ![t] = "insert"]
  /\ UNCHANGED <<rows, lock, todo, seen, wrote, draft, delta>>

\* Mutant: the insert branch falls through and returns None.
InsertBalance_NoReturn(t) ==
  /\ pc[t] = "insert"
  /\ exists[Key(t)] \/ Free(t, Key(t))
  /\ lock' = IF exists[Key(t)] THEN lock ELSE [lock EXCEPT ![Key(t)] = t]
  /\ seen' = [seen EXCEPT ![t] = NoTx]
  /\ pc' = [pc EXCEPT ![t] = "post"]
  /\ UNCHANGED <<rows, todo, wrote, draft, delta>>

\* INSERT ... ON CONFLICT DO NOTHING, then (0, 0) is returned.  The insert
\* waits for a concurrent insert of the same row to commit or roll back; when
\* it finds the row committed it does nothing: no row, and no lock either.
InsertBalance(t) ==
  /\ pc[t] = "insert"
  /\ exists[Key(t)] \/ Free(t, Key(t))
  /\ lock' = IF exists[Key(t)] THEN lock ELSE [lock EXCEPT ![Key(t)] = t]
  /\ seen' = [seen EXCEPT ![t] = 0]
  /\ pc' = [pc EXCEPT ![t] = "post"]
  /\ UNCHANGED <<rows, todo, wrote, draft, delta>>

\* Mutant: the check that the new on-hand is not negative is dropped.
Coverable_NoOnHandCheck(t) ==
  Move(t).delta < 0 => LayersLeft(t, Key(t)) >= -Move(t).delta

\* The rest of post_movement: layers, the on-hand check, UPDATE inv.balance
\* SET on_hand = <value computed here>, INSERT INTO inv.ledger.
Coverable(t) ==
  /\ Move(t).delta < 0 => LayersLeft(t, Key(t)) >= -Move(t).delta
  /\ seen[t] + Move(t).delta >= 0

PostMovement(t) ==
  /\ pc[t] = "post"
  /\ Coverable(t)
  /\ Free(t, Key(t))
  /\ LET k == Key(t) IN
       /\ lock' = [lock EXCEPT ![k] = t]
       /\ wrote' = [wrote EXCEPT ![t] = @ \cup {k}]
       /\ draft' = [draft EXCEPT ![t][k] = seen[t] + Move(t).delta]
       /\ delta' = [delta EXCEPT ![t][k] = @ + Move(t).delta]
  /\ todo' = [todo EXCEPT ![t] = Tail(@)]
  /\ pc' = [pc EXCEPT ![t] = Entry(Tail(todo[t]))]
  /\ UNCHANGED <<rows, seen>>

\* The end of a transaction releases its row locks.
Release_Leaked(t) == UNCHANGED lock     \* mutant: the session is never closed
Release(t) == lock' = [k \in Keys |-> IF lock[k] = t THEN NoTx ELSE lock[k]]

End(t, outcome) ==
  /\ Release(t)
  /\ pc' = [pc EXCEPT ![t] = outcome]
  /\ todo' = [todo EXCEPT ![t] = <<>>]
  /\ seen' = [seen EXCEPT ![t] = 0]
  /\ wrote' = [wrote EXCEPT ![t] = {}]
  /\ draft' = [draft EXCEPT ![t] = [k \in Keys |-> 0]]
  /\ delta' = [delta EXCEPT ![t] = [k \in Keys |-> 0]]

\* What the transaction wrote becomes the committed state.
Publish(t) ==
  /\ exists' = [k \in Keys |-> exists[k] \/ k \in wrote[t]]
  /\ onHand' = [k \in Keys |-> View(t, k)]
  /\ posted' = [k \in Keys |-> posted[k] + delta[t][k]]

\* get_session: sess.commit() once the handler has returned.
Commit(t) ==
  /\ pc[t] = "commit"
  /\ Publish(t)
  /\ End(t, "committed")

\* get_session: a BusinessRuleConflict of the guard, of _consume_fifo or of the
\* on-hand check rolls the request back.
Refused(t) == \/ pc[t] = "guard" /\ ~GuardPasses(t)
              \/ pc[t] = "post" /\ ~Coverable(t)

\* Mutant: get_session commits in a finally clause, conflict or not.
Conflict_Committed(t) == Refused(t) /\ Publish(t) /\ End(t, "aborted")

Conflict(t) == Refused(t) /\ End(t, "aborted") /\ UNCHANGED rows

\* PostgreSQL breaks a deadlock by failing one of the statements on it.
BreakDeadlock(t) ==
  /\ Deadlocked(t)
  /\ End(t, "aborted")
  /\ UNCHANGED rows

\* The process dies, the connection drops or any other statement of the
\* request fails: the server rolls the transaction back.
Crash(t) ==
  /\ pc[t] \in Live
  /\ End(t, "aborted")
  /\ UNCHANGED rows

-----------------------------------------------------------------------------
Statement(t) == \/ AssertCanSell(t)
                \/ LockBalance(t)
                \/ MissBalance(t)
                \/ InsertBalance(t)
                \/ PostMovement(t)
                \/ Commit(t)
                \/ Conflict(t)

Next == \E t \in Txns :
          \/ \E req \in Requests : Begin(t, req)
          \/ Statement(t)
          \/ BreakDeadlock(t)
          \/ Crash(t)

Spec == Init /\ [][Next]_vars

\* An open request keeps executing its statements, and the server's deadlock
\* detector keeps running.  Nothing makes a request arrive or a process die.
FairSpec == Spec /\ \A t \in Txns : WF_vars(Statement(t)) /\ WF_vars(BreakDeadlock(t))

-----------------------------------------------------------------------------
(* Properties. *)

\* No race drives on-hand, or the ledger itself, below zero at any key (FR-033):
\* an outbound movement never takes what is not there.
NoNegativeStock == \A k \in Keys : onHand[k] >= 0 /\ posted[k] >= 0

\* The balance is a projection of the ledger (research.md R2) at every key whose
\* balance row was there before the first movement, whatever interleaves.
ProvisionedBalanceExact == \A k \in Provisioned : onHand[k] = posted[k]

\* The same at every key.  The two first movements of a key can race for its row.
BalanceMatchesLedger == \A k \in Keys : onHand[k] = posted[k]

\* Even where the first movements of a key race, the balance never shows more
\* than the ledger holds: stock can be hidden, it cannot be oversold.
NeverOverstated == \A k \in Keys : onHand[k] <= posted[k]

\* What a transaction read under the row lock still holds when it commits: from
\* SELECT ... FOR UPDATE to its end nobody else changes the committed balance.
HeldBalanceIsStable ==
  [][\A k \in Keys, t \in Txns :
       /\ exists[k] /\ lock[k] = t
       /\ pc'[t] # "committed"
       => onHand'[k] = onHand[k]]_vars

\* Committed history reads as if each request had run alone, in the order of the
\* commits: at the provisioned keys this module implements StockLedger.
Atomic == INSTANCE StockLedger
            WITH Keys <- Provisioned,
                 onHand <- [k \in Provisioned |-> onHand[k]],
                 posted <- [k \in Provisioned |-> posted[k]]
Serializable == Atomic!Spec

\* Every request that starts ends: whatever waits for a lock gets it or is told.
EveryRequestEnds == \A t \in Txns : pc[t] \in Live ~> pc[t] \in Done
=============================================================================
