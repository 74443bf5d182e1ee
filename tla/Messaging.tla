------------------------------ MODULE Messaging ------------------------------
(***************************************************************************)
(* Messages to a customer: templates, consent, sending and retrying        *)
(* (domain/messaging, domain/consent), the provider's callbacks, and the   *)
(* outbox worker (workers/outbox_worker.py), which also posts the          *)
(* outbox.event rows of every other transaction to the tenant's webhook.   *)
(* One customer and one channel: nothing relates two.                      *)
(*                                                                         *)
(* Requests read first and write and commit later.  A worker locks the     *)
(* rows it claims, calls the provider for one after the other, and commits *)
(* once for all of them: what it has done before is known to nobody else,  *)
(* and undone if it dies, the calls excepted.                              *)
(***************************************************************************)
EXTENDS Integers, FiniteSets, FiniteSetsExt

CONSTANTS Messages,
          Rows,        \* outbox rows, numbered in the order of created_at
          Undeliverable, \* rows whose calls raise, whenever they are made
          Crids,       \* client_request_ids
          Templates,
          Requests,    \* bound: API requests open at once
          Workers,
          Batch,       \* BATCH: how many rows a worker claims
          MaxMishaps,  \* bound: deaths of workers and lost answers in all
          MaxRequests, \* bound: API requests, callbacks and other events in all
          Reports,     \* bound: what callbacks say, of _STATUS_MAP
          Schemas,     \* "migrated", "queried": see the README
          None         \* NULL

ASSUME MessagingAssumption ==
  /\ Rows \subseteq Nat /\ IsFiniteSet(Rows) /\ Undeliverable \subseteq Rows
  /\ Reports \subseteq {"delivered", "failed", "bounced", "opened", "clicked", "unsubscribed"}
  /\ Batch \in Nat \ {0} /\ {MaxMishaps, MaxRequests} \subseteq Nat
  /\ None \notin Crids \cup Messages \cup Templates
  /\ Schemas \subseteq {"migrated", "queried"}

VARIABLES schema,
          template,  \* msg.template
          consent,   \* consent.state
          message,   \* msg.message: a function on the ids that have a row
          row,       \* msg.outbox and outbox.event
          req,       \* the open requests: what each has read
          worker,    \* what each worker does and has not committed
          calls,     \* by row, how often the provider or webhook has taken it
          unheard,   \* by row, how often it was taken and the answer did not come
          deaths,    \* how often a worker has died
          begun      \* how many requests there have been, for the bound

vars == <<schema, template, consent, message, row, req, worker, calls, unheard, deaths, begun>>

Purposes == {"transactional", "marketing"}
TemplateRows == [purpose : Purposes, enabled : BOOLEAN]
Waiting == {"queued", "retrying"}
\* ck_message_status, which lacks three of what a callback may say.
Fits(status) == schema = "queried" \/ status \notin {"opened", "clicked", "unsubscribed"}

MessageKinds == {"customer_message.send", "customer_message.retry"}
OutboxRows == [kind : MessageKinds \cup {"event"}, of : Messages \cup {None},
               pending : BOOLEAN, resting : BOOLEAN]

Idle == [op |-> "idle"]
\* A worker between two batches.
Polling == [claimed |-> {}, result |-> [o \in {} |-> None]]

MsgTypeOK ==
  /\ schema \in Schemas
  /\ template \in [Templates -> TemplateRows]
  /\ consent \in [Purposes -> {"unset", "opted_in", "opted_out"}]
  /\ DOMAIN message \subseteq Messages
  /\ \A m \in DOMAIN message :
       /\ message[m].status \in Waiting \cup {"sent", "failed"} \cup Reports
       /\ Fits(message[m].status)
       /\ message[m].purpose \in Purposes
       /\ message[m].called \in BOOLEAN
       /\ \A n \in DOMAIN message \ {m} : message[m].crid # None => message[n].crid # message[m].crid
  /\ DOMAIN row \subseteq Rows /\ \A o \in DOMAIN row : row[o] \in OutboxRows
  /\ \A w \in Workers :
       /\ worker[w].claimed \subseteq DOMAIN row
       /\ DOMAIN worker[w].result \subseteq worker[w].claimed
  /\ calls \in [Rows -> Nat] /\ unheard \in [Rows -> Nat]
  /\ deaths \in Nat
  /\ begun \in 0..MaxRequests

Init ==
  /\ schema \in Schemas
  /\ template = [t \in Templates |-> [purpose |-> "transactional", enabled |-> TRUE]]
  /\ consent = [p \in Purposes |-> "unset"]
  /\ message = [m \in {} |-> None]
  /\ row = [o \in {} |-> None]
  /\ req = [r \in Requests |-> Idle]
  /\ worker = [w \in Workers |-> Polling]
  /\ calls = [o \in Rows |-> 0] /\ unheard = [o \in Rows |-> 0]
  /\ deaths = 0
  /\ begun = 0

-----------------------------------------------------------------------------
(* Templates and consent. *)

Begun == begun < MaxRequests /\ begun' = begun + 1

\* PUT: the row as sent.
UpdateTemplate(t, new) ==
  /\ Begun
  /\ template' = [template EXCEPT ![t] = new]
  /\ UNCHANGED <<schema, consent, message, row, req, worker, calls, unheard, deaths>>

\* DELETE reads the row, and writes it all back with enabled false.
ReadTemplate(r, t) ==
  /\ Begun
  /\ req[r] = Idle
  /\ req' = [req EXCEPT ![r] = [op |-> "disable", of |-> t, read |-> template[t]]]
  /\ UNCHANGED <<schema, template, consent, message, row, worker, calls, unheard, deaths>>

DisableTemplate(r) ==
  /\ req[r].op = "disable"
  /\ template' = [template EXCEPT ![req[r].of] = [req[r].read EXCEPT !.enabled = FALSE]]
  /\ req' = [req EXCEPT ![r] = Idle]
  /\ UNCHANGED <<schema, consent, message, row, worker, calls, unheard, deaths, begun>>

\* record_event and its commit, with the kinds and sources that the CHECKs of
\* consent.event do not know.
RecordEvent(purpose, state) ==
  /\ Begun
  /\ schema = "queried"
  /\ consent' = [consent EXCEPT ![purpose] = state]
  /\ UNCHANGED <<schema, template, message, row, req, worker, calls, unheard, deaths>>

\* Mutant: marketing is let through as long as nobody objects.
Allowed_OptOut(purpose) == consent[purpose] # "opted_out"

\* assert_allowed.
Allowed(purpose) ==
  CASE purpose = "transactional" -> consent[purpose] # "opted_out"
    [] purpose = "marketing" -> consent[purpose] = "opted_in"

-----------------------------------------------------------------------------
(* Sending and retrying. *)

NewRow(o, kind, m) ==
  /\ o \in Rows \ DOMAIN row /\ \A p \in DOMAIN row : p < o
  /\ row' = [p \in DOMAIN row \cup {o} |->
               IF p = o THEN [kind |-> kind, of |-> m, pending |-> TRUE, resting |-> FALSE]
               ELSE row[p]]

\* Other transactions leave their events in the outbox (emit_event).
EmitEvent(o) ==
  /\ Begun
  /\ NewRow(o, "event", None)
  /\ UNCHANGED <<schema, template, consent, message, req, worker, calls, unheard, deaths>>

\* send_message: a known client_request_id is answered with its message; a
\* template gives the purpose, a free text comes with one; then the consent.
CheckSend(r, crid, purpose) ==
  /\ Begun
  /\ req[r] = Idle
  /\ crid # None => \A m \in DOMAIN message : message[m].crid # crid
  /\ Allowed(purpose)
  /\ req' = [req EXCEPT ![r] = [op |-> "send", crid |-> crid, purpose |-> purpose,
                                read |-> consent[purpose]]]
  /\ UNCHANGED <<schema, template, consent, message, row, worker, calls, unheard, deaths>>

\* The purposes a request can name: its own, or an enabled template's.
Named(t) == IF t = None THEN Purposes
            ELSE {p \in Purposes : template[t] = [purpose |-> p, enabled |-> TRUE]}

\* Mutant: the status outbox.event starts with.
FirstStatus_Pending == "pending"

FirstStatus == "queued"

\* The message and its outbox row; uq_message_tenant_client_request_id
\* lets one of two requests with an id pass.
SendMessage(r, m, o) ==
  /\ req[r].op = "send" /\ m \in Messages \ DOMAIN message
  /\ req[r].crid # None => \A n \in DOMAIN message : message[n].crid # req[r].crid
  /\ message' = [n \in DOMAIN message \cup {m} |->
                   IF n = m THEN [status |-> FirstStatus, purpose |-> req[r].purpose,
                                  crid |-> req[r].crid, called |-> FALSE]
                   ELSE message[n]]
  /\ NewRow(o, "customer_message.send", m)
  /\ req' = [req EXCEPT ![r] = Idle]
  /\ UNCHANGED <<schema, template, consent, worker, calls, unheard, deaths, begun>>

\* retry_message reads the status ...
CheckRetry(r, m) ==
  /\ Begun
  /\ req[r] = Idle
  /\ m \in DOMAIN message /\ message[m].status \in {"failed", "bounced"}
  /\ req' = [req EXCEPT ![r] = [op |-> "retry", of |-> m]]
  /\ UNCHANGED <<schema, template, consent, message, row, worker, calls, unheard, deaths>>

\* A worker that has updated the message and not committed holds its lock.
Held(m) == \E w \in Workers : \E o \in DOMAIN worker[w].result :
             row[o].of = m /\ worker[w].result[o] # "raised"

\* ... and writes its own, with another outbox row.
RetryMessage(r, o) ==
  /\ req[r].op = "retry" /\ ~Held(req[r].of)
  /\ message' = [message EXCEPT ![req[r].of].status = "retrying"]
  /\ NewRow(o, "customer_message.retry", req[r].of)
  /\ req' = [req EXCEPT ![r] = Idle]
  /\ UNCHANGED <<schema, template, consent, worker, calls, unheard, deaths, begun>>

\* A constraint refuses a statement, or the request dies: rolled back.
Abort(r) ==
  /\ req[r] # Idle
  /\ req' = [req EXCEPT ![r] = Idle]
  /\ UNCHANGED <<schema, template, consent, message, row, worker, calls, unheard, deaths, begun>>

\* provider_callback, for a message whose provider_message_id is committed: the
\* status as reported, in the order of arrival, and for an unsubscription the
\* consent.  A report on any other id is dropped.
ProviderCallback(m, status) ==
  /\ Begun
  /\ m \in DOMAIN message /\ message[m].called /\ ~Held(m)
  /\ Fits(status)
  /\ message' = [message EXCEPT ![m].status = status]
  /\ consent' = IF status = "unsubscribed" THEN [consent EXCEPT !["marketing"] = "opted_out"]
                ELSE consent
  /\ UNCHANGED <<schema, template, row, req, worker, calls, unheard, deaths>>

-----------------------------------------------------------------------------
(* The outbox worker: batches of events and batches of messages in turn.      *)

Claimed == UNION {worker[w].claimed : w \in Workers}

\* Mutant: a row at a time.
Oldest_One(R) == {o \in R : \A p \in R : o <= p}

\* ORDER BY created_at (or occurred_at) LIMIT.
Oldest(R) == {o \in R : Cardinality({p \in R : p < o}) < Batch}

\* Not dispatched, and not waiting for its next attempt.
Pending(kinds) == {o \in DOMAIN row : row[o].pending /\ ~row[o].resting /\ row[o].kind \in kinds}

\* Mutant: SELECT without FOR UPDATE.
Free_NotLocked(kinds) == Pending(kinds)

\* FOR UPDATE SKIP LOCKED.
Free(kinds) == Pending(kinds) \ Claimed

\* The worker needs core.db.get_engine and, for events, columns of outbox.event
\* that are not there when the tables are as migrated.
Claim(w, kinds) ==
  /\ schema = "queried"
  /\ worker[w] = Polling /\ Free(kinds) # {}
  /\ worker' = [worker EXCEPT ![w].claimed = Oldest(Free(kinds))]
  /\ UNCHANGED <<schema, template, consent, message, row, req, calls, unheard, deaths, begun>>

Mishaps == deaths + MapThenSumSet(LAMBDA o : unheard[o], Rows)

\* The call for one row, the oldest left, and what it comes to.  A row lock of
\* another worker on the message is waited for.
Call(w, o, result) ==
  /\ o \in worker[w].claimed \ DOMAIN worker[w].result
  /\ \A p \in worker[w].claimed \ DOMAIN worker[w].result : o <= p
  /\ \A v \in Workers \ {w} : \A p \in DOMAIN worker[v].result :
       worker[v].result[p] # "raised" => row[p].of = None \/ row[p].of # row[o].of
  /\ worker' = [worker EXCEPT ![w].result =
                  [p \in DOMAIN @ \cup {o} |-> IF p = o THEN result ELSE @[p]]]
  /\ UNCHANGED <<schema, template, consent, message, row, req, deaths, begun>>

\* The provider takes or refuses the message, the webhook takes the event, or the
\* call raises and nobody has taken anything.
Attempt(w, o, result) ==
  /\ Call(w, o, result)
  /\ result = "refused" => row[o].kind # "event"
  /\ o \in Undeliverable => result = "raised"
  /\ calls' = IF result = "taken" THEN [calls EXCEPT ![o] = @ + 1] ELSE calls
  /\ UNCHANGED unheard

\* It is taken, and raises: the answer is lost, or comes after the timeout.
AnswerLost(w, o) ==
  /\ Call(w, o, "raised")
  /\ o \notin Undeliverable /\ Mishaps < MaxMishaps
  /\ calls' = [calls EXCEPT ![o] = @ + 1]
  /\ unheard' = [unheard EXCEPT ![o] = @ + 1]

\* What becomes of a message: the status of the last answer for it.
Answered(w, m) ==
  {o \in DOMAIN worker[w].result : row[o].of = m /\ worker[w].result[o] # "raised"}
Sent(w, m) == worker[w].result[Max(Answered(w, m))] = "taken"

\* Mutant: a row whose call raised is marked dispatched like the others.
Settled_Always(w, o) == TRUE

\* dispatched_at or delivered_at is set, if the call did not raise.
Settled(w, o) == worker[w].result[o] # "raised"

\* The commit.  A message whose call raised keeps its status and its row; an
\* event is left alone for the time of its backoff.
CommitBatch(w) ==
  /\ worker[w].claimed # {} /\ DOMAIN worker[w].result = worker[w].claimed
  /\ row' = [o \in DOMAIN row |->
               IF o \notin worker[w].claimed THEN row[o]
               ELSE IF Settled(w, o) THEN [row[o] EXCEPT !.pending = FALSE]
               ELSE [row[o] EXCEPT !.resting = (row[o].kind = "event")]]
  /\ message' = [m \in DOMAIN message |->
                   IF Answered(w, m) = {} THEN message[m]
                   ELSE [message[m] EXCEPT !.status = IF Sent(w, m) THEN "sent" ELSE "failed",
                                           !.called = Sent(w, m)]]
  /\ worker' = [worker EXCEPT ![w] = Polling]
  /\ UNCHANGED <<schema, template, consent, req, calls, unheard, deaths, begun>>

\* next_attempt_at has passed.
BackoffEnds(o) ==
  /\ o \in DOMAIN row /\ row[o].resting
  /\ row' = [row EXCEPT ![o].resting = FALSE]
  /\ UNCHANGED <<schema, template, consent, message, req, worker, calls, unheard, deaths, begun>>

\* The worker dies, or the loop fails and starts again: rolled back.
Die(w) ==
  /\ worker[w] # Polling /\ Mishaps < MaxMishaps
  /\ worker' = [worker EXCEPT ![w] = Polling]
  /\ deaths' = deaths + 1
  /\ UNCHANGED <<schema, template, consent, message, row, req, calls, unheard, begun>>

Events == {"event"}

\* /message-templates.
MessageTemplates ==
  \/ \E t \in Templates, new \in TemplateRows : UpdateTemplate(t, new)
  \/ \E r \in Requests, t \in Templates : ReadTemplate(r, t)
  \/ \E r \in Requests : DisableTemplate(r)

\* POST /customers/{id}/consent.
PostConsentEvent ==
  \E p \in Purposes, state \in {"opted_in", "opted_out"} : RecordEvent(p, state)

\* POST /customers/{id}/messages.
SendCustomerMessage(r) ==
  \/ \E crid \in Crids \cup {None}, t \in Templates \cup {None} :
       \E p \in Named(t) : CheckSend(r, crid, p)
  \/ \E m \in Messages, o \in Rows : SendMessage(r, m, o)

\* POST /customer-messages/{id}/retry.
RetryCustomerMessage(r) ==
  \/ \E m \in Messages : CheckRetry(r, m)
  \/ \E o \in Rows : RetryMessage(r, o)

Request ==
  \/ \E r \in Requests : SendCustomerMessage(r) \/ RetryCustomerMessage(r) \/ Abort(r)
  \/ \E m \in Messages, status \in Reports : ProviderCallback(m, status)
  \/ \E o \in Rows : EmitEvent(o)

\* A batch goes on.
Works(w) ==
  \/ \E o \in Rows, result \in {"taken", "refused", "raised"} : Attempt(w, o, result)
  \/ \E o \in Rows : AnswerLost(w, o)
  \/ CommitBatch(w)

RunForever ==
  \/ \E w \in Workers : Claim(w, Events) \/ Claim(w, MessageKinds) \/ Works(w)
  \/ \E o \in Rows : BackoffEnds(o)
  \/ \E w \in Workers : Die(w)

Next == MessageTemplates \/ PostConsentEvent \/ Request \/ RunForever

Spec == Init /\ [][Next]_vars

\* The loop goes on, batches of both kinds in turn; and the provider, or the
\* webhook, asked again and again about a row that can be delivered, takes it.
Fairness ==
  /\ SF_vars(\E w \in Workers : Claim(w, Events))
  /\ SF_vars(\E w \in Workers : Claim(w, MessageKinds))
  /\ \A w \in Workers : WF_vars(Works(w))
  /\ \A o \in Rows \ Undeliverable : SF_vars(\E w \in Workers : Attempt(w, o, "taken"))
  /\ \A o \in Rows : WF_vars(BackoffEnds(o))

FairSpec == Spec /\ Fairness

-----------------------------------------------------------------------------
(* Properties. *)

\* A message shown as queued or retrying has a row in the outbox that some
\* worker will still take up, whatever retries, callbacks and batches overlap.
WaitingIsInOutbox ==
  \A m \in DOMAIN message :
    message[m].status \in Waiting => \E o \in DOMAIN row : row[o].of = m /\ row[o].pending

\* The provider takes a row once, once more for every answer about it that was
\* lost, and once more for every worker that died.
TakenOncePerRow == \A o \in Rows : calls[o] <= 1 + unheard[o] + deaths

\* A message is queued with the consent of the customer, or consent was there
\* when the request looked and has been changed since.
QueuedWithConsent ==
  [][\A m \in Messages :
       m \in DOMAIN message' \ DOMAIN message =>
         LET p == message'[m].purpose IN
         \/ consent[p] = "opted_in"
         \/ consent[p] = "unset" /\ p = "transactional"
         \/ \E r \in Requests : req[r].op = "send" /\ req'[r] = Idle /\ req[r].read # consent[p]]_vars

\* Where the worker runs, a row that can be delivered is dispatched sooner or
\* later, also behind rows that cannot and are claimed again and again before it:
\* as long as these are fewer than a batch.
OutboxDrains ==
  Cardinality(Undeliverable) < Batch =>
    \A o \in Rows \ Undeliverable :
      (schema = "queried" /\ o \in DOMAIN row) ~> (o \in DOMAIN row /\ ~row[o].pending)
=============================================================================
