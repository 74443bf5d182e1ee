---------------------------- MODULE OfflineQueue -----------------------------
(***************************************************************************)
(* The register's offline queue (frontend/pos/src/lib/offline-queue.ts)    *)
(* and the sale hook that fills it (useSale.ts), against the server of     *)
(* PosIntake.  JavaScript runs to the next await, so a step here is what   *)
(* runs between two awaits: of an IndexedDB request, of a POST or of the   *)
(* heartbeat's fetch.  Several drains may be under way, each working       *)
(* through the snapshot of the store it took when it began.                *)
(***************************************************************************)
EXTENDS PosIntake

CONSTANTS Scanned,      \* the sales with a serial_value on a line
          Others,       \* what other clients post
          Key,          \* the order of the client_intake_ids in the store
          Drains        \* bound: calls of drain() under way at once

ASSUME QueueAssumption ==
  /\ Scanned \subseteq Sales /\ Others \subseteq Batches
  /\ Key \in [Sales -> Nat] /\ IsInjective(Key)
  /\ \A s \in Sales : <<s>> \in Batches

VARIABLES store,     \* IndexedDB: the client_intake_ids in pos_intake
          online,    \* _online
          drains,    \* the calls of drain()
          captured   \* sales that have been put in the store (history)

client == <<store, online, drains, captured>>
queueVars == <<vars, client>>

Idle == [at |-> "idle", items |-> <<>>]

QueueTypeOK ==
  /\ TypeOK
  /\ store \subseteq Sales /\ captured \subseteq Sales
  /\ online \in BOOLEAN
  /\ drains \in [Drains -> [at : {"idle", "post", "delete"}, items : Seq(Sales)]]

\* navigator.onLine may be either when the page is loaded.
QueueInit ==
  /\ Init
  /\ store = {} /\ captured = {}
  /\ online \in BOOLEAN
  /\ drains = [d \in Drains |-> Idle]

-----------------------------------------------------------------------------
(* Sales *)

\* enqueue refuses a line with a serial_value and puts the envelope under its
\* client_intake_id, over an older copy if there is one.
Enqueue(s) ==
  /\ s \notin Scanned
  /\ store' = store \cup {s}
  /\ captured' = captured \cup {s}
  /\ UNCHANGED <<vars, online, drains>>

\* submitSale: posted when online, queued when not.  A POST that fails is not
\* queued.  The envelope it builds has no register_id, so is not Whole.
SubmitSale(s) ==
  /\ s \notin Whole /\ s \notin captured
  /\ IF online THEN Post(<<s>>) /\ UNCHANGED client ELSE Enqueue(s)

\* An envelope with a register_id, queued by a caller that asks isOnline() as
\* submitSale does.
CaptureWhole(s) == s \in Whole /\ s \notin captured /\ ~online /\ Enqueue(s)

-----------------------------------------------------------------------------
(* drain() *)

\* The top of the loop: post the next envelope of the snapshot, or return.
Loop(d, items) ==
  IF items = <<>>
  THEN drains' = [drains EXCEPT ![d] = Idle] /\ UNCHANGED vars
  ELSE /\ drains' = [drains EXCEPT ![d] = [at |-> "post", items |-> items]]
       /\ Post(<<Head(items)>>)

\* Mutant: the newest key first.
All_Newest ==
  CHOOSE q \in [1..Cardinality(store) -> store] :
    \A i, j \in DOMAIN q : i < j => Key[q[i]] > Key[q[j]]

\* getAll returns the envelopes in the order of their keys.
All ==
  CHOOSE q \in [1..Cardinality(store) -> store] :
    \A i, j \in DOMAIN q : i < j => Key[q[i]] < Key[q[j]]

\* drain() is called.  Its read of the store is taken together with the call:
\* the caller does nothing in between that a later call would not do.
Begin(d) == drains[d] = Idle /\ Loop(d, All)

\* Mutant: every answer of the server is taken for success.
Answer_AnyAnswer(d) ==
  LET s == Head(drains[d].items) IN
  /\ drains[d].at = "post"
  /\ \E rls \in RowSecurity : PostSales(<<s>>, rls)
  /\ drains' = [drains EXCEPT ![d].at = "delete"]
  /\ UNCHANGED <<store, online, captured>>

\* The server handles the envelope and the reply arrives.  200 is success (and
\* 409 already_processed would be: the server never sends it); anything else
\* ends the drain.
Answer(d) ==
  LET s == Head(drains[d].items) IN
  /\ drains[d].at = "post"
  /\ \E rls \in RowSecurity :
       /\ PostSales(<<s>>, rls)
       /\ drains' = [drains EXCEPT ![d] =
                       IF Outcome(<<s>>, rls).code = "200"
                       THEN [@ EXCEPT !.at = "delete"] ELSE Idle]
  /\ UNCHANGED <<store, online, captured>>

\* The connection fails: no reply will come, whatever becomes of the request.
NoAnswer(d) ==
  /\ drains[d].at = "post"
  /\ drains' = [drains EXCEPT ![d] = Idle]
  /\ UNCHANGED <<vars, store, online, captured>>

\* _delete, and back to the top of the loop.
Delete(d) ==
  /\ drains[d].at = "delete"
  /\ store' = store \ {Head(drains[d].items)}
  /\ Loop(d, Tail(drains[d].items))
  /\ UNCHANGED <<online, captured>>

-----------------------------------------------------------------------------
(* What startOnlineHeartbeat listens to, and the page *)

\* The tick's fetch comes back: drain if offline until now.
Tick ==
  /\ online' = TRUE
  /\ IF online THEN UNCHANGED <<vars, drains>> ELSE \E d \in Drains : Begin(d)
  /\ UNCHANGED <<store, captured>>

\* The browser's "online" event drains whatever _online was.
OnlineEvent ==
  /\ online' = TRUE
  /\ \E d \in Drains : Begin(d)
  /\ UNCHANGED <<store, captured>>

\* A tick that fails, or the browser's "offline" event.
GoOffline ==
  /\ online' = FALSE
  /\ UNCHANGED <<vars, store, drains, captured>>

\* The page is closed and loaded again: what drains were doing is gone, the
\* store and the requests on their way are not.
Reload ==
  /\ online' \in BOOLEAN
  /\ drains' = [d \in Drains |-> Idle]
  /\ UNCHANGED <<vars, store, captured>>

\* The rest of the world: other clients post, the server handles requests
\* nobody waits for, requests get lost, stock comes in.
Elsewhere ==
  /\ \/ \E b \in Others : Post(b)
     \/ \E b \in Batches, rls \in RowSecurity : PostSales(b, rls)
     \/ \E b \in Batches : Lose(b)
     \/ \E k \in Skus : Supply(k)
  /\ UNCHANGED client

QueueNext ==
  \/ \E s \in Sales : SubmitSale(s) \/ CaptureWhole(s)
  \/ \E d \in Drains : Answer(d) \/ NoAnswer(d) \/ Delete(d)
  \/ Tick \/ OnlineEvent \/ GoOffline \/ Reload
  \/ Elsewhere

QueueSpec == QueueInit /\ [][QueueNext]_queueVars

\* A drain that posts again and again is answered some time, and a callback
\* that is due runs.  (Strong: a drain may be cut off any number of times.)
\* Users and the connection owe nothing else.
QueueFairness ==
  \A d \in Drains : SF_queueVars(Answer(d)) /\ SF_queueVars(Delete(d))

QueueFairSpec == QueueSpec /\ QueueFairness

-----------------------------------------------------------------------------
(* Properties. *)

\* A sale captured offline is in the register or on the server's ledger,
\* whatever is lost, reloaded or drained twice.
CapturedIsKept == \A s \in captured : s \in store \/ rows[s] > 0

\* The server would refuse a copy of s now.
Refused(s) == \E rls \in RowSecurity : Outcome(<<s>>, rls).code # "200"

Reconnect == \E d \in Drains : drains[d] = Idle /\ drains'[d] # Idle

\* If the register reconnects again and again, a captured sale leaves the store
\* unless the server refuses it or one that comes before it in key order.  (A sale
\* that is not Whole is refused as it is.)
DrainedOnReconnect ==
  []<><<Reconnect>>_queueVars =>
    \A s \in Whole :
      (s \in store) ~>
        (s \notin store \/ \E h \in store : Key[h] <= Key[s] /\ Refused(h))

\* Once the register is online for good and its posts are answered, what it has
\* queued is posted: "non-serialized sales queue locally and reconcile on
\* reconnect".
ReconciledWhileOnline ==
  (<>[]online /\ <>[][\A d \in Drains : ~NoAnswer(d)]_queueVars) =>
    \A s \in Whole : (s \in store) ~> (s \notin store)
=============================================================================
