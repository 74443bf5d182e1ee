--------------------------- MODULE MessagingProofs ---------------------------
(***************************************************************************)
(* For any number of messages, outbox rows, requests, workers, batches and *)
(* deaths: types, that what waits is in the outbox, that the provider takes *)
(* a row once, and again per lost answer and death, and that what is queued *)
(* had consent.                                                            *)
(***************************************************************************)
EXTENDS Messaging, TLAPS

States == {"unset", "opted_in", "opted_out"}

\* The consents with which a purpose passes the gate.
Passes(purpose, state) ==
  \/ state = "opted_in"
  \/ state = "unset" /\ purpose = "transactional"

SendRequests ==
  {q \in [op : {"send"}, crid : Crids \cup {None}, purpose : Purposes, read : States] :
     Passes(q.purpose, q.read)}

\* What an open request has read, and that it passed when it did.
RequestsOK ==
  /\ req \in [Requests -> {Idle} \cup SendRequests
                          \cup [op : {"disable"}, of : Templates, read : TemplateRows]
                          \cup [op : {"retry"}, of : Messages]]
  /\ \A r \in Requests : req[r].op = "retry" => req[r].of \in DOMAIN message

Results == UNION {[D -> {"taken", "refused", "raised"}] : D \in SUBSET Rows}
WorkersOK == worker \in [Workers -> [claimed : SUBSET Rows, result : Results]]

\* A row that is claimed is pending, and claimed by one worker: SKIP LOCKED.
ClaimsApart ==
  /\ \A w \in Workers : \A o \in worker[w].claimed : row[o].pending
  /\ \A v, w \in Workers : v # w => worker[v].claimed \cap worker[w].claimed = {}

\* A row is dispatched, or will be when the worker that sent it commits.
Spent(o) ==
  \/ o \in DOMAIN row /\ ~row[o].pending
  \/ \E w \in Workers : o \in DOMAIN worker[w].result /\ worker[w].result[o] = "taken"

\* Only a spent row has been taken more often than its answers were lost and
\* workers have died.
TakenMeansSpent == \A o \in Rows : calls[o] > unheard[o] + deaths => Spent(o)

IInv ==
  /\ MsgTypeOK
  /\ RequestsOK
  /\ WorkersOK
  /\ ClaimsApart
  /\ TakenMeansSpent
  /\ TakenOncePerRow
  /\ WaitingIsInOutbox

-----------------------------------------------------------------------------
\* A worker that polls is a worker.
LEMMA PollingType == Polling \in [claimed : SUBSET Rows, result : Results]
  <1>1. [o \in {} |-> None] \in [{} -> {"taken", "refused", "raised"}]
    OBVIOUS
  <1>2. QED
    BY <1>1 DEF Polling, Results

\* In particular it has no rows and no results.
LEMMA PollingIsEmpty == Polling.claimed = {} /\ DOMAIN Polling.result = {}
  BY DEF Polling

\* The outbox is empty, and nobody is at work.
LEMMA InitIInv == Init => IInv
  <1> SUFFICES ASSUME Init PROVE IInv
    OBVIOUS
  <1>1. MsgTypeOK
    BY MessagingAssumption DEF Init, MsgTypeOK, TemplateRows, Purposes, Polling
  <1>2. RequestsOK
    BY DEF Init, RequestsOK, Idle
  <1>3. WorkersOK /\ ClaimsApart
    BY PollingType DEF Init, WorkersOK, ClaimsApart, Polling
  <1>4. TakenMeansSpent /\ TakenOncePerRow
    BY DEF Init, TakenMeansSpent, TakenOncePerRow
  <1>5. WaitingIsInOutbox
    BY DEF Init, WaitingIsInOutbox
  <1>6. QED
    BY <1>1, <1>2, <1>3, <1>4, <1>5 DEF IInv

\* Steps of the API that leave messages, the outbox and the workers alone.
LEMMA QuietStep ==
  ASSUME IInv,
         template' \in [Templates -> TemplateRows],
         consent' \in [Purposes -> States],
         RequestsOK', begun' \in 0..MaxRequests,
         UNCHANGED <<schema, message, row, worker, calls, unheard, deaths>>
  PROVE  IInv'
  <1> USE DEF IInv
  <1>1. MsgTypeOK'
    BY DEF MsgTypeOK, States, Fits
  <1>2. WorkersOK' /\ ClaimsApart'
    BY DEF WorkersOK, ClaimsApart
  <1>3. TakenMeansSpent' /\ TakenOncePerRow'
    BY DEF TakenMeansSpent, TakenOncePerRow, Spent
  <1>4. WaitingIsInOutbox'
    BY DEF WaitingIsInOutbox
  <1>5. QED
    BY <1>1, <1>2, <1>3, <1>4

\* A new outbox row is pending, and is the row of nobody yet.
LEMMA NewRowStep ==
  ASSUME MsgTypeOK, NEW o \in Rows, NEW kind \in MessageKinds \cup {"event"},
         NEW m \in Messages \cup {None}, NewRow(o, kind, m)
  PROVE  /\ DOMAIN row' = DOMAIN row \cup {o} /\ o \notin DOMAIN row
         /\ \A p \in DOMAIN row : row'[p] = row[p]
         /\ row'[o].of = m /\ row'[o].pending
         /\ \A p \in DOMAIN row' : row'[p] \in OutboxRows
  BY DEF NewRow, OutboxRows, MsgTypeOK

\* Steps that add an outbox row and leave the workers alone.
LEMMA NewRowKeeps ==
  ASSUME IInv, NEW o \in Rows, NEW kind \in MessageKinds \cup {"event"},
         NEW m \in Messages \cup {None}, NewRow(o, kind, m),
         UNCHANGED <<worker, calls, unheard, deaths>>
  PROVE  WorkersOK' /\ ClaimsApart' /\ TakenMeansSpent' /\ TakenOncePerRow'
  <1> USE DEF IInv
  <1>1. /\ DOMAIN row' = DOMAIN row \cup {o} /\ o \notin DOMAIN row
        /\ \A p \in DOMAIN row : row'[p] = row[p]
    BY NewRowStep
  <1>2. WorkersOK'
    BY DEF WorkersOK
  <1>3. \A w \in Workers : worker[w].claimed \subseteq DOMAIN row
    BY DEF MsgTypeOK
  <1>4. ClaimsApart'
    BY <1>1, <1>3 DEF ClaimsApart
  <1>5. TakenOncePerRow'
    BY DEF TakenOncePerRow
  <1>6. TakenMeansSpent'
    BY <1>1 DEF TakenMeansSpent, Spent
  <1>7. QED
    BY <1>2, <1>4, <1>5, <1>6

\* An event is a new row of the outbox, and of no message.
LEMMA EmitEventStep ==
  ASSUME IInv, NEW o \in Rows, EmitEvent(o)
  PROVE  IInv'
  <1> USE DEF IInv
  <1>1. /\ NewRow(o, "event", None) /\ begun' \in 0..MaxRequests
        /\ UNCHANGED <<schema, template, consent, message, req, worker, calls, unheard, deaths>>
    BY MessagingAssumption DEF EmitEvent, Begun, MsgTypeOK
  <1>2. /\ DOMAIN row' = DOMAIN row \cup {o}
        /\ \A p \in DOMAIN row : row'[p] = row[p]
        /\ \A p \in DOMAIN row' : row'[p] \in OutboxRows
    BY <1>1, NewRowStep
  <1>3. MsgTypeOK'
    BY <1>1, <1>2 DEF MsgTypeOK, Fits
  <1>4. RequestsOK'
    BY <1>1 DEF RequestsOK
  <1>5. WorkersOK' /\ ClaimsApart' /\ TakenMeansSpent' /\ TakenOncePerRow'
    BY <1>1, NewRowKeeps
  <1>6. WaitingIsInOutbox'
    BY <1>1, <1>2 DEF WaitingIsInOutbox
  <1>7. QED
    BY <1>3, <1>4, <1>5, <1>6

\* The message is new, so is its row.
LEMMA SendMessageStep ==
  ASSUME IInv, NEW r \in Requests, NEW m \in Messages, NEW o \in Rows, SendMessage(r, m, o)
  PROVE  IInv'
  <1> USE DEF IInv
  <1>1. /\ req[r] \in SendRequests
        /\ m \in Messages \ DOMAIN message
        /\ req[r].crid # None => \A n \in DOMAIN message : message[n].crid # req[r].crid
        /\ message' = [n \in DOMAIN message \cup {m} |->
                         IF n = m THEN [status |-> "queued", purpose |-> req[r].purpose,
                                        crid |-> req[r].crid, called |-> FALSE]
                         ELSE message[n]]
        /\ NewRow(o, "customer_message.send", m)
        /\ req' = [req EXCEPT ![r] = Idle]
        /\ UNCHANGED <<schema, template, consent, worker, calls, unheard, deaths, begun>>
    BY DEF SendMessage, RequestsOK, Idle, FirstStatus
  <1>2. /\ DOMAIN row' = DOMAIN row \cup {o}
        /\ \A p \in DOMAIN row : row'[p] = row[p]
        /\ row'[o].of = m /\ row'[o].pending
        /\ \A p \in DOMAIN row' : row'[p] \in OutboxRows
    BY <1>1, NewRowStep DEF MessageKinds
  <1>3. /\ DOMAIN message' = DOMAIN message \cup {m}
        /\ \A n \in DOMAIN message : n # m /\ message'[n] = message[n]
        /\ message'[m] = [status |-> "queued", purpose |-> req[r].purpose,
                          crid |-> req[r].crid, called |-> FALSE]
        /\ req[r].purpose \in Purposes
    BY <1>1 DEF SendRequests
  <1>4. MsgTypeOK'
    <2>1. /\ message'[m].status \in Waiting
          /\ (schema = "queried" \/ message'[m].status \notin {"opened", "clicked", "unsubscribed"})
          /\ message'[m].purpose \in Purposes /\ message'[m].called \in BOOLEAN
      BY <1>3 DEF Waiting
    <2>2. \A n \in DOMAIN message' : \A k \in DOMAIN message' \ {n} :
             message'[n].crid # None => message'[k].crid # message'[n].crid
      BY <1>1, <1>3 DEF MsgTypeOK
    <2>3. \A n \in DOMAIN message :
            /\ message'[n].status \in Waiting \cup {"sent", "failed"} \cup Reports
            /\ (schema = "queried" \/ message'[n].status \notin {"opened", "clicked", "unsubscribed"})
            /\ message'[n].purpose \in Purposes /\ message'[n].called \in BOOLEAN
      BY <1>3 DEF MsgTypeOK, Fits
    <2>4. DOMAIN message' \subseteq Messages /\ DOMAIN row' \subseteq Rows
      BY <1>2, <1>3 DEF MsgTypeOK
    <2>5. \A w \in Workers : /\ worker'[w].claimed \subseteq DOMAIN row'
                             /\ DOMAIN worker'[w].result \subseteq worker'[w].claimed
      BY <1>1, <1>2 DEF MsgTypeOK
    <2>6. \A n \in DOMAIN message' :
            /\ message'[n].status \in Waiting \cup {"sent", "failed"} \cup Reports
            /\ (schema = "queried" \/ message'[n].status \notin {"opened", "clicked", "unsubscribed"})
            /\ message'[n].purpose \in Purposes /\ message'[n].called \in BOOLEAN
      BY <1>3, <2>1, <2>3
    <2>7. /\ schema' = schema /\ template' = template /\ consent' = consent
          /\ calls' = calls /\ unheard' = unheard /\ deaths' = deaths /\ begun' = begun
      BY <1>1
    <2>8. QED
      BY <1>2, <2>2, <2>4, <2>5, <2>6, <2>7 DEF MsgTypeOK, Fits
  <1>5. RequestsOK'
    BY <1>1, <1>3 DEF RequestsOK, Idle
  <1>6. WorkersOK' /\ ClaimsApart' /\ TakenMeansSpent' /\ TakenOncePerRow'
    BY <1>1, NewRowKeeps DEF MessageKinds
  <1>7. WaitingIsInOutbox'
    BY <1>2, <1>3 DEF WaitingIsInOutbox
  <1>8. QED
    BY <1>4, <1>5, <1>6, <1>7

\* A retry puts its message into the outbox with the status it writes.
LEMMA RetryMessageStep ==
  ASSUME IInv, NEW r \in Requests, NEW o \in Rows, RetryMessage(r, o)
  PROVE  IInv'
  <1> USE DEF IInv
  <1> DEFINE m == req[r].of
  <1>1. /\ req[r].op = "retry" /\ m \in DOMAIN message /\ m \in Messages
        /\ message' = [message EXCEPT ![m].status = "retrying"]
        /\ NewRow(o, "customer_message.retry", m)
        /\ req' = [req EXCEPT ![r] = Idle]
        /\ UNCHANGED <<schema, template, consent, worker, calls, unheard, deaths, begun>>
    BY DEF RetryMessage, RequestsOK, MsgTypeOK
  <1> HIDE DEF m
  <1>2. /\ DOMAIN row' = DOMAIN row \cup {o}
        /\ \A p \in DOMAIN row : row'[p] = row[p]
        /\ row'[o].of = m /\ row'[o].pending
        /\ \A p \in DOMAIN row' : row'[p] \in OutboxRows
    BY <1>1, NewRowStep DEF MessageKinds
  <1>3. /\ DOMAIN message' = DOMAIN message
        /\ \A n \in DOMAIN message \ {m} : message'[n] = message[n]
        /\ message'[m] = [message[m] EXCEPT !.status = "retrying"]
    BY <1>1
  <1>4. MsgTypeOK'
    <2>1. \A w \in Workers : /\ worker'[w].claimed \subseteq DOMAIN row'
                             /\ DOMAIN worker'[w].result \subseteq worker'[w].claimed
      BY <1>1, <1>2 DEF MsgTypeOK
    <2>2. QED
      BY <1>1, <1>2, <2>1 DEF MsgTypeOK, Fits, Waiting
  <1>5. RequestsOK'
    BY <1>1, <1>3 DEF RequestsOK, Idle
  <1>6. WorkersOK' /\ ClaimsApart' /\ TakenMeansSpent' /\ TakenOncePerRow'
    BY <1>1, NewRowKeeps DEF MessageKinds
  <1>7. WaitingIsInOutbox'
    BY <1>2, <1>3 DEF WaitingIsInOutbox
  <1>8. QED
    BY <1>4, <1>5, <1>6, <1>7

\* What a callback reports is never that the message waits.
LEMMA ProviderCallbackStep ==
  ASSUME IInv, NEW m \in Messages, NEW status \in Reports, ProviderCallback(m, status)
  PROVE  IInv'
  <1> USE DEF IInv
  <1>1. /\ m \in DOMAIN message /\ Fits(status) /\ status \notin Waiting
        /\ message' = [message EXCEPT ![m].status = status]
        /\ consent' \in [Purposes -> States]
        /\ begun' \in 0..MaxRequests
        /\ UNCHANGED <<schema, template, row, req, worker, calls, unheard, deaths>>
    BY MessagingAssumption DEF ProviderCallback, Begun, MsgTypeOK, States, Purposes, Waiting
  <1>2. /\ DOMAIN message' = DOMAIN message
        /\ \A n \in DOMAIN message \ {m} : message'[n] = message[n]
        /\ message'[m] = [message[m] EXCEPT !.status = status]
    BY <1>1
  <1>3. MsgTypeOK'
    BY <1>1, <1>2 DEF MsgTypeOK, Fits, States
  <1>4. RequestsOK' /\ WorkersOK' /\ ClaimsApart'
    BY <1>1, <1>2 DEF RequestsOK, WorkersOK, ClaimsApart
  <1>5. TakenMeansSpent' /\ TakenOncePerRow'
    BY <1>1 DEF TakenMeansSpent, TakenOncePerRow, Spent
  <1>6. WaitingIsInOutbox'
    BY <1>1, <1>2 DEF WaitingIsInOutbox
  <1>7. QED
    BY <1>3, <1>4, <1>5, <1>6

-----------------------------------------------------------------------------
(* The worker. *)

\* What is claimed is pending and free.
LEMMA ClaimStep ==
  ASSUME IInv, NEW w \in Workers, NEW kinds, Claim(w, kinds)
  PROVE  IInv'
  <1> USE DEF IInv
  <1> DEFINE C == Oldest(Free(kinds))
  <1>1. /\ C \subseteq DOMAIN row
        /\ \A o \in C : row[o].pending
        /\ \A v \in Workers : worker[v].claimed \cap C = {}
    BY DEF Oldest, Free, Pending, Claimed
  <1>2. /\ worker[w] = Polling
        /\ worker' = [worker EXCEPT ![w].claimed = C]
        /\ UNCHANGED <<schema, template, consent, message, row, req, calls, unheard, deaths, begun>>
    BY DEF Claim
  <1> HIDE DEF C
  <1>3. /\ worker'[w].claimed = C /\ worker'[w].result = worker[w].result
        /\ \A v \in Workers \ {w} : worker'[v] = worker[v]
        /\ DOMAIN worker[w].result = {}
    BY <1>2 DEF WorkersOK, Polling
  <1>4. WorkersOK'
    BY <1>1, <1>2 DEF WorkersOK, MsgTypeOK
  <1>5. MsgTypeOK'
    BY <1>1, <1>2, <1>3 DEF MsgTypeOK, Fits
  <1>6. RequestsOK' /\ ClaimsApart'
    BY <1>1, <1>2, <1>3 DEF RequestsOK, ClaimsApart
  <1>7. TakenMeansSpent' /\ TakenOncePerRow' /\ WaitingIsInOutbox'
    <2>1. \A v \in Workers : worker'[v].result = worker[v].result
      BY <1>3
    <2>2. QED
      BY <1>2, <2>1 DEF TakenMeansSpent, TakenOncePerRow, Spent, WaitingIsInOutbox
  <1>8. QED
    BY <1>4, <1>5, <1>6, <1>7

\* Whoever calls for a row holds it alone, has not called for it before, and writes
\* down only what the call came to.
LEMMA CallStep ==
  ASSUME IInv, NEW w \in Workers, NEW o \in Rows,
         NEW result \in {"taken", "refused", "raised"}, Call(w, o, result),
         calls' \in [Rows -> Nat], unheard' \in [Rows -> Nat]
  PROVE  /\ MsgTypeOK' /\ RequestsOK' /\ WorkersOK' /\ ClaimsApart' /\ WaitingIsInOutbox'
         /\ ~Spent(o) /\ (result = "taken" => Spent(o)')
         /\ \A p \in Rows : Spent(p) => Spent(p)'
         /\ deaths' = deaths
  <1> USE DEF IInv
  <1> DEFINE R == worker[w].result
  <1>1. /\ o \in worker[w].claimed \ DOMAIN R
        /\ worker' = [worker EXCEPT ![w].result =
                        [p \in DOMAIN R \cup {o} |-> IF p = o THEN result ELSE R[p]]]
        /\ UNCHANGED <<schema, template, consent, message, row, req, deaths, begun>>
    BY DEF Call
  <1>2. /\ worker'[w].claimed = worker[w].claimed
        /\ worker'[w].result = [p \in DOMAIN R \cup {o} |-> IF p = o THEN result ELSE R[p]]
        /\ \A v \in Workers \ {w} : worker'[v] = worker[v]
    BY <1>1 DEF WorkersOK
  <1>3. WorkersOK'
    <2>1. PICK D \in SUBSET Rows : R \in [D -> {"taken", "refused", "raised"}]
      <3>1. R \in Results
        BY DEF WorkersOK
      <3>2. QED
        BY <3>1 DEF Results
    <2>2. worker'[w].result \in [D \cup {o} -> {"taken", "refused", "raised"}]
      BY <1>2, <2>1
    <2>3. worker'[w].result \in Results
      BY <2>2 DEF Results
    <2>4. QED
      BY <1>1, <1>2, <2>3 DEF WorkersOK
  <1>4. MsgTypeOK'
    BY <1>1, <1>2 DEF MsgTypeOK, Fits
  <1>5. RequestsOK' /\ ClaimsApart' /\ WaitingIsInOutbox'
    BY <1>1, <1>2 DEF RequestsOK, ClaimsApart, WaitingIsInOutbox
  <1>6. ~Spent(o)
    BY <1>1 DEF Spent, ClaimsApart, MsgTypeOK
  <1>7. \A p \in Rows : Spent(p) => Spent(p)'
    BY <1>1, <1>2 DEF Spent
  <1>8. result = "taken" => Spent(o)'
    BY <1>2 DEF Spent
  <1>9. QED
    BY <1>1, <1>3, <1>4, <1>5, <1>6, <1>7, <1>8

\* A call that is taken and heard of spends the row.
LEMMA AttemptStep ==
  ASSUME IInv, NEW w \in Workers, NEW o \in Rows,
         NEW result \in {"taken", "refused", "raised"}, Attempt(w, o, result)
  PROVE  IInv'
  <1> USE DEF IInv
  <1>1. /\ Call(w, o, result) /\ unheard' = unheard
        /\ calls' = IF result = "taken" THEN [calls EXCEPT ![o] = @ + 1] ELSE calls
    BY DEF Attempt
  <1>2. calls \in [Rows -> Nat] /\ unheard \in [Rows -> Nat] /\ deaths \in Nat
    BY DEF MsgTypeOK
  <1>3. calls' \in [Rows -> Nat] /\ unheard' \in [Rows -> Nat]
    BY <1>1, <1>2
  <1>4. /\ MsgTypeOK' /\ RequestsOK' /\ WorkersOK' /\ ClaimsApart' /\ WaitingIsInOutbox'
        /\ ~Spent(o) /\ (result = "taken" => Spent(o)')
        /\ \A p \in Rows : Spent(p) => Spent(p)'
        /\ deaths' = deaths
    BY <1>1, <1>3, CallStep
  <1>5. TakenMeansSpent' /\ TakenOncePerRow'
    BY <1>1, <1>2, <1>4 DEF TakenMeansSpent, TakenOncePerRow
  <1>6. QED
    BY <1>4, <1>5

\* One that is taken and not heard of is counted on both sides.
LEMMA AnswerLostStep ==
  ASSUME IInv, NEW w \in Workers, NEW o \in Rows, AnswerLost(w, o)
  PROVE  IInv'
  <1> USE DEF IInv
  <1>1. /\ Call(w, o, "raised")
        /\ calls' = [calls EXCEPT ![o] = @ + 1]
        /\ unheard' = [unheard EXCEPT ![o] = @ + 1]
    BY DEF AnswerLost
  <1>2. calls \in [Rows -> Nat] /\ unheard \in [Rows -> Nat] /\ deaths \in Nat
    BY DEF MsgTypeOK
  <1>3. calls' \in [Rows -> Nat] /\ unheard' \in [Rows -> Nat]
    BY <1>1, <1>2
  <1>4. /\ MsgTypeOK' /\ RequestsOK' /\ WorkersOK' /\ ClaimsApart' /\ WaitingIsInOutbox'
        /\ \A p \in Rows : Spent(p) => Spent(p)'
        /\ deaths' = deaths
    BY <1>1, <1>3, CallStep
  <1>5. TakenMeansSpent' /\ TakenOncePerRow'
    BY <1>1, <1>2, <1>4 DEF TakenMeansSpent, TakenOncePerRow
  <1>6. QED
    BY <1>4, <1>5

\* What was done for rows whose call did not raise is settled; a message nobody
\* answered for keeps its row, claimed and raised or not claimed at all.
LEMMA CommitBatchStep ==
  ASSUME IInv, NEW w \in Workers, CommitBatch(w)
  PROVE  IInv'
  <1> USE DEF IInv
  <1> DEFINE C == worker[w].claimed
             R == worker[w].result
  <1>1. /\ DOMAIN R = C /\ C \subseteq DOMAIN row
        /\ row' = [o \in DOMAIN row |->
                     IF o \notin C THEN row[o]
                     ELSE IF R[o] # "raised" THEN [row[o] EXCEPT !.pending = FALSE]
                     ELSE [row[o] EXCEPT !.resting = (row[o].kind = "event")]]
        /\ message' = [m \in DOMAIN message |->
                   IF Answered(w, m) = {} THEN message[m]
                   ELSE [message[m] EXCEPT !.status = IF Sent(w, m) THEN "sent" ELSE "failed",
                                           !.called = Sent(w, m)]]
        /\ worker' = [worker EXCEPT ![w] = Polling]
        /\ UNCHANGED <<schema, template, consent, req, calls, unheard, deaths, begun>>
    BY DEF CommitBatch, Settled, MsgTypeOK
  <1>2. /\ worker'[w] = Polling
        /\ \A v \in Workers \ {w} : worker'[v] = worker[v]
    BY <1>1 DEF WorkersOK
  <1>3. /\ DOMAIN row' = DOMAIN row
        /\ \A o \in DOMAIN row :
             /\ row'[o] \in OutboxRows /\ row'[o].of = row[o].of
             /\ o \in C /\ R[o] # "raised" => ~row'[o].pending
             /\ ~(o \in C /\ R[o] # "raised") => row'[o].pending = row[o].pending
    <2>1. \A o \in DOMAIN row : row[o] \in OutboxRows
      BY DEF MsgTypeOK
    <2>2. \A o \in DOMAIN row : row'[o] =
             IF o \notin C THEN row[o]
             ELSE IF R[o] # "raised" THEN [row[o] EXCEPT !.pending = FALSE]
             ELSE [row[o] EXCEPT !.resting = (row[o].kind = "event")]
      BY <1>1
    <2>3. DOMAIN row' = DOMAIN row
      BY <1>1
    <2>4. ASSUME NEW o \in DOMAIN row
          PROVE  row'[o] \in OutboxRows /\ row'[o].of = row[o].of
      <3>1. PICK b \in BOOLEAN : \/ row'[o] = row[o]
                                 \/ row'[o] = [row[o] EXCEPT !.pending = FALSE]
                                 \/ row'[o] = [row[o] EXCEPT !.resting = b]
        <4>1. (row[o].kind = "event") \in BOOLEAN
          OBVIOUS
        <4>2. QED
          BY <2>2, <4>1
      <3>2. QED
        BY <2>1, <3>1 DEF OutboxRows
    <2>5. ASSUME NEW o \in DOMAIN row, o \in C, R[o] # "raised" PROVE ~row'[o].pending
      <3>1. row'[o] = [row[o] EXCEPT !.pending = FALSE] /\ row[o] \in OutboxRows
        BY <2>1, <2>2, <2>5
      <3>2. row'[o].pending = FALSE
        BY <3>1 DEF OutboxRows
      <3>3. QED
        BY <3>2
    <2>6. \A o \in DOMAIN row :
            ~(o \in C /\ R[o] # "raised") => row'[o].pending = row[o].pending
      BY <2>1, <2>2 DEF OutboxRows
    <2>7. QED
      BY <2>3, <2>4, <2>5, <2>6
  <1>4. WorkersOK'
    <2>1. Polling \in [claimed : SUBSET Rows, result : Results]
      BY PollingType
    <2>2. QED
      BY <1>1, <2>1 DEF WorkersOK
  <1>5. MsgTypeOK'
    <2>1. ASSUME NEW m \in DOMAIN message'
          PROVE  /\ message'[m].status \in Waiting \cup {"sent", "failed"} \cup Reports
                 /\ (schema = "queried" \/ message'[m].status \notin {"opened", "clicked", "unsubscribed"})
                 /\ message'[m].purpose = message[m].purpose
                 /\ message'[m].crid = message[m].crid
                 /\ message'[m].called \in BOOLEAN
      <3>1. m \in DOMAIN message
        BY <1>1
      <3>2. CASE Answered(w, m) = {}
        BY <1>1, <3>1, <3>2 DEF MsgTypeOK, Fits
      <3>3. CASE Answered(w, m) # {}
        <4>1. message'[m] = [message[m] EXCEPT !.status = IF Sent(w, m) THEN "sent" ELSE "failed",
                                               !.called = Sent(w, m)]
          BY <1>1, <3>1, <3>3
        <4>2. Sent(w, m) \in BOOLEAN
          BY DEF Sent
        <4>3. QED
          BY <3>1, <4>1, <4>2 DEF MsgTypeOK
      <3>4. QED
        BY <3>2, <3>3
    <2>2. \A v \in Workers : /\ worker'[v].claimed \subseteq DOMAIN row'
                             /\ DOMAIN worker'[v].result \subseteq worker'[v].claimed
      BY <1>2, <1>3, PollingIsEmpty DEF MsgTypeOK
    <2>3. DOMAIN message' = DOMAIN message
      BY <1>1
    <2>4. /\ schema' = schema /\ template' = template /\ consent' = consent
          /\ calls' = calls /\ unheard' = unheard /\ deaths' = deaths /\ begun' = begun
      BY <1>1
    <2>5. QED
      BY <1>3, <2>1, <2>2, <2>3, <2>4 DEF MsgTypeOK, Fits
  <1>6. RequestsOK'
    <2>1. DOMAIN message' = DOMAIN message
      BY <1>1
    <2>2. QED
      BY <1>1, <2>1 DEF RequestsOK
  <1>7. ClaimsApart'
    <2>1. \A v \in Workers : v # w => worker[v].claimed \cap C = {}
      BY DEF ClaimsApart
    <2>2. ASSUME NEW v \in Workers, NEW o \in worker'[v].claimed
          PROVE  row'[o].pending
      <3>1. v # w /\ worker'[v] = worker[v]
        BY <1>2 DEF Polling
      <3>2. o \in DOMAIN row /\ row[o].pending /\ o \notin C
        BY <2>1, <3>1 DEF ClaimsApart, MsgTypeOK
      <3>3. QED
        BY <1>3, <3>2
    <2>3. QED
      BY <1>2, <2>2 DEF ClaimsApart, Polling
  <1>8. TakenOncePerRow' /\ TakenMeansSpent'
    <2>1. ASSUME NEW o \in Rows, Spent(o) PROVE Spent(o)'
      <3>1. CASE o \in DOMAIN row /\ ~row[o].pending
        BY <1>3, <3>1 DEF Spent
      <3>2. CASE o \in DOMAIN R /\ R[o] = "taken"
        BY <1>1, <1>3, <3>2 DEF Spent
      <3>3. CASE \E v \in Workers \ {w} : o \in DOMAIN worker[v].result
                                         /\ worker[v].result[o] = "taken"
        BY <1>2, <3>3 DEF Spent
      <3>4. QED
        BY <2>1, <3>1, <3>2, <3>3 DEF Spent
    <2>2. QED
      BY <1>1, <2>1 DEF TakenMeansSpent, TakenOncePerRow
  <1>9. WaitingIsInOutbox'
    <2> SUFFICES ASSUME NEW m \in DOMAIN message', message'[m].status \in Waiting
                 PROVE  \E o \in DOMAIN row' : row'[o].of = m /\ row'[o].pending
      BY DEF WaitingIsInOutbox
    <2>1. Answered(w, m) = {} /\ m \in DOMAIN message /\ message'[m] = message[m]
      <3>1. m \in DOMAIN message
        BY <1>1
      <3>2. SUFFICES ASSUME Answered(w, m) # {} PROVE FALSE
        BY <1>1, <3>1
      <3>3. message'[m] = [message[m] EXCEPT !.status = IF Sent(w, m) THEN "sent" ELSE "failed",
                                             !.called = Sent(w, m)]
        BY <1>1, <3>1, <3>2
      <3>4. QED
        BY <3>1, <3>3 DEF Waiting, MsgTypeOK
    <2>2. PICK o \in DOMAIN row : row[o].of = m /\ row[o].pending
      BY <2>1 DEF WaitingIsInOutbox
    <2>3. ~(o \in C /\ R[o] # "raised")
      BY <1>1, <2>1, <2>2 DEF Answered
    <2>4. QED
      BY <1>3, <2>2, <2>3
  <1>10. QED
    BY <1>4, <1>5, <1>6, <1>7, <1>8, <1>9

\* A row due again is still pending.
LEMMA BackoffEndsStep ==
  ASSUME IInv, NEW o \in Rows, BackoffEnds(o)
  PROVE  IInv'
  <1> USE DEF IInv
  <1>1. /\ row' = [row EXCEPT ![o].resting = FALSE] /\ o \in DOMAIN row
        /\ UNCHANGED <<schema, template, consent, message, req, worker, calls, unheard, deaths, begun>>
    BY DEF BackoffEnds
  <1>2. /\ DOMAIN row' = DOMAIN row
        /\ \A p \in DOMAIN row :
             /\ row'[p] \in OutboxRows /\ row'[p].of = row[p].of
             /\ row'[p].pending = row[p].pending
    BY <1>1 DEF MsgTypeOK, OutboxRows
  <1>3. MsgTypeOK'
    <2>1. /\ DOMAIN row' \subseteq Rows /\ \A p \in DOMAIN row' : row'[p] \in OutboxRows
          /\ \A v \in Workers : worker'[v].claimed \subseteq DOMAIN row'
      BY <1>1, <1>2 DEF MsgTypeOK
    <2>2. QED
      BY <1>1, <2>1 DEF MsgTypeOK, Fits
  <1>4. RequestsOK' /\ WorkersOK'
    BY <1>1 DEF RequestsOK, WorkersOK
  <1>5. ClaimsApart'
    BY <1>1, <1>2 DEF ClaimsApart, MsgTypeOK
  <1>6. TakenMeansSpent' /\ TakenOncePerRow'
    BY <1>1, <1>2 DEF TakenMeansSpent, TakenOncePerRow, Spent
  <1>7. WaitingIsInOutbox'
    BY <1>1, <1>2 DEF WaitingIsInOutbox
  <1>8. QED
    BY <1>3, <1>4, <1>5, <1>6, <1>7

\* A death allows one more call for every row.
LEMMA DieStep ==
  ASSUME IInv, NEW w \in Workers, Die(w)
  PROVE  IInv'
  <1> USE DEF IInv
  <1>1. /\ worker' = [worker EXCEPT ![w] = Polling]
        /\ deaths' = deaths + 1 /\ deaths' \in Nat
        /\ UNCHANGED <<schema, template, consent, message, row, req, calls, unheard, begun>>
    BY MessagingAssumption DEF Die, MsgTypeOK
  <1>2. /\ worker'[w] = Polling
        /\ \A v \in Workers \ {w} : worker'[v] = worker[v]
    BY <1>1 DEF WorkersOK
  <1>3. MsgTypeOK'
    <2>1. \A v \in Workers : /\ worker'[v].claimed \subseteq DOMAIN row
                             /\ DOMAIN worker'[v].result \subseteq worker'[v].claimed
      BY <1>2, PollingIsEmpty DEF MsgTypeOK
    <2>2. QED
      BY <1>1, <2>1 DEF MsgTypeOK, Fits
  <1>4. RequestsOK' /\ WorkersOK'
    BY <1>1, PollingType DEF RequestsOK, WorkersOK
  <1>5. ClaimsApart'
    BY <1>1, <1>2 DEF ClaimsApart, Polling
  <1>6. TakenMeansSpent' /\ TakenOncePerRow'
    BY <1>1 DEF TakenMeansSpent, TakenOncePerRow, MsgTypeOK
  <1>7. WaitingIsInOutbox'
    BY <1>1 DEF WaitingIsInOutbox
  <1>8. QED
    BY <1>3, <1>4, <1>5, <1>6, <1>7

-----------------------------------------------------------------------------
\* Nothing changes.
LEMMA StutterStep == IInv /\ UNCHANGED vars => IInv'
  BY DEF vars, IInv, MsgTypeOK, Fits, RequestsOK, WorkersOK, ClaimsApart, TakenMeansSpent,
         Spent, TakenOncePerRow, WaitingIsInOutbox

\* Templates, consent and what requests read.
LEMMA TemplatesStep ==
  ASSUME IInv, MessageTemplates \/ PostConsentEvent
  PROVE  IInv'
  <1> USE DEF IInv
  <1>1. ASSUME NEW t \in Templates, NEW new \in TemplateRows, UpdateTemplate(t, new)
        PROVE  IInv'
    <2>1. /\ template' \in [Templates -> TemplateRows] /\ begun' \in 0..MaxRequests
          /\ UNCHANGED <<schema, consent, message, row, req, worker, calls, unheard, deaths>>
      BY <1>1, MessagingAssumption DEF UpdateTemplate, Begun, MsgTypeOK
    <2>2. RequestsOK' /\ consent' \in [Purposes -> States]
      BY <2>1 DEF RequestsOK, MsgTypeOK, States
    <2>3. QED
      BY <2>1, <2>2, QuietStep
  <1>2. ASSUME NEW r \in Requests, NEW t \in Templates, ReadTemplate(r, t)
        PROVE  IInv'
    <2>1. /\ req' = [req EXCEPT ![r] = [op |-> "disable", of |-> t, read |-> template[t]]]
          /\ template[t] \in TemplateRows /\ begun' \in 0..MaxRequests
          /\ UNCHANGED <<schema, template, consent, message, row, worker, calls, unheard, deaths>>
      BY <1>2, MessagingAssumption DEF ReadTemplate, Begun, MsgTypeOK
    <2>2. RequestsOK' /\ consent' \in [Purposes -> States] /\ template' \in [Templates -> TemplateRows]
      BY <2>1 DEF RequestsOK, MsgTypeOK, States
    <2>3. QED
      BY <2>1, <2>2, QuietStep
  <1>3. ASSUME NEW r \in Requests, DisableTemplate(r)
        PROVE  IInv'
    <2>1. /\ req' = [req EXCEPT ![r] = Idle] /\ req[r].of \in Templates
          /\ req[r].read \in TemplateRows
          /\ template' = [template EXCEPT ![req[r].of] = [req[r].read EXCEPT !.enabled = FALSE]]
          /\ UNCHANGED <<schema, consent, message, row, worker, calls, unheard, deaths, begun>>
      BY <1>3 DEF DisableTemplate, RequestsOK, SendRequests, Idle
    <2>2. template' \in [Templates -> TemplateRows]
      BY <2>1 DEF MsgTypeOK, TemplateRows
    <2>3. RequestsOK' /\ consent' \in [Purposes -> States] /\ begun' \in 0..MaxRequests
      BY <2>1 DEF RequestsOK, MsgTypeOK, States, Idle
    <2>4. QED
      BY <2>1, <2>2, <2>3, QuietStep
  <1>4. ASSUME NEW p \in Purposes, NEW state \in {"opted_in", "opted_out"}, RecordEvent(p, state)
        PROVE  IInv'
    <2>1. /\ consent' \in [Purposes -> States] /\ begun' \in 0..MaxRequests
          /\ UNCHANGED <<schema, template, message, row, req, worker, calls, unheard, deaths>>
      BY <1>4, MessagingAssumption DEF RecordEvent, Begun, MsgTypeOK, States
    <2>2. RequestsOK' /\ template' \in [Templates -> TemplateRows]
      BY <2>1 DEF RequestsOK, MsgTypeOK
    <2>3. QED
      BY <2>1, <2>2, QuietStep
  <1>5. QED
    BY <1>1, <1>2, <1>3, <1>4 DEF MessageTemplates, PostConsentEvent

\* A purpose that may be sent passes with the consent as read.
LEMMA CheckStep ==
  ASSUME IInv, NEW r \in Requests,
         \/ Abort(r)
         \/ \E m \in Messages : CheckRetry(r, m)
         \/ \E crid \in Crids \cup {None}, t \in Templates \cup {None} :
              \E p \in Named(t) : CheckSend(r, crid, p)
  PROVE  IInv'
  <1> USE DEF IInv
  <1>1. CASE Abort(r)
    <2>1. /\ req' = [req EXCEPT ![r] = Idle]
          /\ UNCHANGED <<schema, template, consent, message, row, worker, calls, unheard, deaths, begun>>
      BY <1>1 DEF Abort
    <2>2. /\ RequestsOK' /\ consent' \in [Purposes -> States] /\ begun' \in 0..MaxRequests
          /\ template' \in [Templates -> TemplateRows]
      BY <2>1 DEF RequestsOK, MsgTypeOK, States, Idle
    <2>3. QED
      BY <2>1, <2>2, QuietStep
  <1>2. ASSUME NEW m \in Messages, CheckRetry(r, m) PROVE IInv'
    <2>1. /\ req' = [req EXCEPT ![r] = [op |-> "retry", of |-> m]]
          /\ m \in DOMAIN message /\ begun' \in 0..MaxRequests
          /\ UNCHANGED <<schema, template, consent, message, row, worker, calls, unheard, deaths>>
      BY <1>2, MessagingAssumption DEF CheckRetry, Begun, MsgTypeOK
    <2>2. /\ RequestsOK' /\ consent' \in [Purposes -> States]
          /\ template' \in [Templates -> TemplateRows]
      BY <2>1 DEF RequestsOK, MsgTypeOK, States
    <2>3. QED
      BY <2>1, <2>2, QuietStep
  <1>3. ASSUME NEW crid \in Crids \cup {None}, NEW t \in Templates \cup {None},
               NEW p \in Named(t), CheckSend(r, crid, p)
        PROVE  IInv'
    <2>1. /\ req' = [req EXCEPT ![r] = [op |-> "send", crid |-> crid, purpose |-> p,
                                        read |-> consent[p]]]
          /\ Allowed(p) /\ begun' \in 0..MaxRequests
          /\ UNCHANGED <<schema, template, consent, message, row, worker, calls, unheard, deaths>>
      BY <1>3, MessagingAssumption DEF CheckSend, Begun, MsgTypeOK
    <2>2. p \in Purposes
      BY <1>3 DEF Named
    <2>3. consent[p] \in States /\ Passes(p, consent[p])
      BY <2>1, <2>2 DEF Allowed, Passes, Purposes, MsgTypeOK, States
    <2>4. [op |-> "send", crid |-> crid, purpose |-> p, read |-> consent[p]] \in SendRequests
      BY <2>2, <2>3 DEF SendRequests
    <2>5. /\ RequestsOK' /\ consent' \in [Purposes -> States]
          /\ template' \in [Templates -> TemplateRows]
      BY <2>1, <2>4 DEF RequestsOK, MsgTypeOK, States
    <2>6. QED
      BY <2>1, <2>5, QuietStep
  <1>4. QED
    BY <1>1, <1>2, <1>3

\* Every step keeps the invariant.
LEMMA NextStep == IInv /\ [Next]_vars => IInv'
  <1> SUFFICES ASSUME IInv, [Next]_vars PROVE IInv'
    OBVIOUS
  <1>1. CASE MessageTemplates \/ PostConsentEvent
    BY <1>1, TemplatesStep
  <1>2. CASE Request
    <2>1. ASSUME NEW r \in Requests, SendCustomerMessage(r) \/ RetryCustomerMessage(r) \/ Abort(r)
          PROVE  IInv'
      BY <2>1, CheckStep, SendMessageStep, RetryMessageStep
         DEF SendCustomerMessage, RetryCustomerMessage
    <2>2. QED
      BY <1>2, <2>1, ProviderCallbackStep, EmitEventStep DEF Request
  <1>3. CASE RunForever
    BY <1>3, ClaimStep, AttemptStep, AnswerLostStep, CommitBatchStep, BackoffEndsStep, DieStep
       DEF RunForever, Works
  <1>4. CASE UNCHANGED vars
    BY <1>4, StutterStep
  <1>5. QED
    BY <1>1, <1>2, <1>3, <1>4 DEF Next

-----------------------------------------------------------------------------
(* The theorems. *)

\* The invariant the theorems rest on.
THEOREM InductiveInvariant == Spec => []IInv
  BY InitIInv, NextStep, PTL DEF Spec

\* Requests, rows and workers have their types, whatever overlaps.
THEOREM TypeCorrect == Spec => []MsgTypeOK
  <1>1. IInv => MsgTypeOK
    BY DEF IInv
  <1>2. QED
    BY <1>1, InductiveInvariant, PTL

\* A message shown as queued or retrying has a row that some worker will take
\* up: status and row are written together, by send, retry and the worker.
THEOREM WaitingHasARow == Spec => []WaitingIsInOutbox
  <1>1. IInv => WaitingIsInOutbox
    BY DEF IInv
  <1>2. QED
    BY <1>1, InductiveInvariant, PTL

\* The provider, or the webhook, takes a row once, and once more for every lost
\* answer about it and every death: SKIP LOCKED keeps workers apart, and one commit
\* settles a batch.
THEOREM TakenAgainOnlyUnheard == Spec => []TakenOncePerRow
  <1>1. IInv => TakenOncePerRow
    BY DEF IInv
  <1>2. QED
    BY <1>1, InductiveInvariant, PTL

\* Only send_message adds a message, and its request passed assert_allowed with
\* the consent it read.
THEOREM ConsentWhenQueued == Spec => QueuedWithConsent
  <1> DEFINE HadConsent(m) ==
        LET p == message'[m].purpose IN
        \/ consent[p] = "opted_in"
        \/ consent[p] = "unset" /\ p = "transactional"
        \/ \E r \in Requests : req[r].op = "send" /\ req'[r] = Idle /\ req[r].read # consent[p]
  <1>1. ASSUME IInv, Next, NEW m \in Messages, m \in DOMAIN message' \ DOMAIN message
        PROVE  HadConsent(m)
    <2> USE DEF IInv
    <2>1. CASE \E r \in Requests, n \in Messages, o \in Rows : SendMessage(r, n, o)
      <3>1. PICK r \in Requests, n \in Messages, o \in Rows : SendMessage(r, n, o)
        BY <2>1
      <3>2. n = m /\ message'[m].purpose = req[r].purpose
        BY <1>1, <3>1 DEF SendMessage
      <3>3. req[r] \in SendRequests /\ req'[r] = Idle /\ req[r].op = "send"
        BY <1>1, <3>1 DEF SendMessage, RequestsOK, Idle
      <3>4. Passes(req[r].purpose, req[r].read)
        BY <3>3 DEF SendRequests
      <3>5. QED
        BY <3>2, <3>3, <3>4 DEF Passes
    <2>2. CASE DOMAIN message' = DOMAIN message
      BY <1>1, <2>2
    <2>3. QED
      <3>1. CASE MessageTemplates \/ PostConsentEvent
        BY <3>1, <2>2 DEF MessageTemplates, PostConsentEvent, UpdateTemplate, ReadTemplate,
                          DisableTemplate, RecordEvent
      <3>2. CASE Request
        BY <3>2, <2>1, <2>2 DEF Request, SendCustomerMessage, RetryCustomerMessage, CheckSend,
                          CheckRetry, RetryMessage, Abort, ProviderCallback, EmitEvent
      <3>3. CASE RunForever
        BY <3>3, <2>2 DEF RunForever, Works, Claim, Attempt, AnswerLost, Call, CommitBatch, BackoffEnds, Die
      <3>4. QED
        BY <1>1, <3>1, <3>2, <3>3 DEF Next
  <1>2. IInv /\ [Next]_vars =>
          [\A m \in Messages : m \in DOMAIN message' \ DOMAIN message => HadConsent(m)]_vars
    BY <1>1
  <1>3. QED
    BY <1>2, InductiveInvariant, PTL DEF Spec, QueuedWithConsent
=============================================================================
