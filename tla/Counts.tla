-------------------------------- MODULE Counts --------------------------------
(***************************************************************************)
(* Count sessions (domain/counts): a snapshot of the balances when the     *)
(* session opens, entries of counters, and an approval that posts for      *)
(* every balance of the snapshot what was counted, less the snapshot and   *)
(* the ledger rows whose occurred_at is not before the session.            *)
(*                                                                         *)
(* None of it locks the session.  A step here is what one statement reads  *)
(* (READ COMMITTED: what is committed by then) or one commit; movements of *)
(* other requests happen in between.  Time is cut into epochs, a new one   *)
(* with every session's `now`; a movement's occurred_at is any epoch that  *)
(* has begun, as POS clients send theirs and every request takes its time  *)
(* before it commits.                                                      *)
(***************************************************************************)
EXTENDS Integers, FiniteSets, Functions

CONSTANTS Keys,        \* (sku, location) pairs, not serialized, all in scope
          Opening,     \* the balances there are to begin with
          Sessions,
          Counters,    \* bound: requests with entries open at once
          Managers,    \* bound: approvals open at once
          Quantities,  \* what a counter enters for a key
          Schemas,     \* "migrated", "queried": see the README
          MaxMoves,    \* bound: movements of other requests
          MaxEntries   \* bound: requests with entries

ASSUME CountsAssumption ==
  /\ \E K \in SUBSET Keys : Opening \in [K -> Nat]
  /\ IsFiniteSet(Sessions) /\ "none" \notin Sessions
  /\ Quantities \subseteq Nat
  /\ Schemas \subseteq {"migrated", "queried"}
  /\ MaxMoves \in Nat /\ MaxEntries \in Nat

VARIABLES schema,
          onHand,     \* inv.balance: a function on the keys that have a row
          moved,      \* inv.ledger: by epoch and key, the sum of qty_delta
          session,    \* cnt.count_session and its snapshot
          entries,    \* cnt.count_entry: by session and key, the sum
          counting,   \* POST entries, state read and not committed
          approving,  \* POST approve, state read and not committed
          astray,     \* keys moved on the wrong side of a session's opening
          moves, submits  \* how often, for the bounds

vars == <<schema, onHand, moved, session, entries, counting, approving,
          astray, moves, submits>>

Epochs == 0..Cardinality(Sessions)
Now == Cardinality({s \in Sessions : session[s].state # "none"})

None == "none"
Empty == [k \in {} |-> 0]
NewSession == [state |-> "none", created |-> 0, snapshot |-> Empty]
\* An approval: the session, its `now`, the deltas and counts read so far, and
\* the keys something was committed to since they were read (history).
NoApproval == [of |-> None, at |-> 0, delta |-> Empty, counted |-> Empty, stale |-> {}]

CountsTypeOK ==
  /\ schema \in Schemas
  /\ DOMAIN onHand \subseteq Keys /\ \A k \in DOMAIN onHand : onHand[k] \in Nat
  /\ moved \in [Epochs -> [Keys -> Int]]
  /\ \A s \in Sessions :
       /\ session[s].state \in {"none", "creating", "open", "submitted", "approved"}
       /\ session[s].created \in Epochs
       /\ \A k \in DOMAIN session[s].snapshot : session[s].snapshot[k] \in Nat
  /\ entries \in [Sessions -> [Keys -> Nat]]
  /\ counting \in [Counters -> Sessions \cup {None}]
  /\ \A m \in Managers : approving[m].of = None \/ session[approving[m].of].state \notin {"none", "creating"}
  /\ astray \in [Sessions -> SUBSET Keys]
  /\ moves \in 0..MaxMoves /\ submits \in 0..MaxEntries

Init ==
  /\ schema \in Schemas
  /\ onHand = Opening
  /\ moved = [e \in Epochs |-> [k \in Keys |-> 0]]
  /\ session = [s \in Sessions |-> NewSession]
  /\ entries = [s \in Sessions |-> [k \in Keys |-> 0]]
  /\ counting = [c \in Counters |-> None]
  /\ approving = [m \in Managers |-> NoApproval]
  /\ astray = [s \in Sessions |-> {}]
  /\ moves = 0 /\ submits = 0

-----------------------------------------------------------------------------
(* Movements *)

Balance(k) == IF k \in DOMAIN onHand THEN onHand[k] ELSE 0

\* Mutant: nobody asks whether the stock covers the movement.
Commit_NoCheck(qty, at) ==
  LET K == DOMAIN qty
      Wrong(s) == IF session[s].state = "creating" THEN at >= session[s].created
                  ELSE session[s].state # "none" /\ at < session[s].created
  IN /\ onHand' = [k \in DOMAIN onHand \cup K |->
                     Balance(k) + (IF k \in K THEN qty[k] ELSE 0)]
     /\ moved' = [moved EXCEPT ![at] =
                    [k \in Keys |-> @[k] + (IF k \in K THEN qty[k] ELSE 0)]]
     /\ astray' = [s \in Sessions |-> astray[s] \cup (IF Wrong(s) THEN K ELSE {})]

\* post_movement for several keys at once, committed: balances, ledger, and
\* the history of who has looked at these keys too early.  A session that has
\* its `now` and not yet its snapshot counts a movement inside its window
\* twice; one that has its snapshot never counts a movement before its window.
Commit(qty, at) ==
  LET K == DOMAIN qty
      Wrong(s) == IF session[s].state = "creating" THEN at >= session[s].created
                  ELSE session[s].state # "none" /\ at < session[s].created
  IN /\ \A k \in K : Balance(k) + qty[k] >= 0
     /\ onHand' = [k \in DOMAIN onHand \cup K |->
                     Balance(k) + (IF k \in K THEN qty[k] ELSE 0)]
     /\ moved' = [moved EXCEPT ![at] =
                    [k \in Keys |-> @[k] + (IF k \in K THEN qty[k] ELSE 0)]]
     /\ astray' = [s \in Sessions |-> astray[s] \cup (IF Wrong(s) THEN K ELSE {})]

Stale(K) == [m \in Managers |->
               [approving[m] EXCEPT !.stale = @ \cup (K \cap DOMAIN approving[m].delta)]]

\* A receipt, a sale, a transfer: dated now or earlier.
Move(k, q, at) ==
  /\ moves < MaxMoves /\ at <= Now
  /\ Commit([j \in {k} |-> q], at)
  /\ approving' = Stale({k})
  /\ moves' = moves + 1
  /\ UNCHANGED <<schema, session, entries, counting, submits>>

-----------------------------------------------------------------------------
(* service.py *)

\* create_session: `now`, then one SELECT of the balances in scope, then the
\* rows of the session and its snapshot, committed together.
CreateSession(s) ==
  /\ session[s].state = "none"
  /\ session' = [session EXCEPT ![s] = [NewSession EXCEPT !.state = "creating", !.created = Now + 1]]
  /\ UNCHANGED <<schema, onHand, moved, entries, counting, approving, astray, moves, submits>>

ScopePairs(s) ==
  /\ session[s].state = "creating"
  /\ session' = [session EXCEPT ![s].state = "open", ![s].snapshot = onHand]
  /\ UNCHANGED <<schema, onHand, moved, entries, counting, approving, astray, moves, submits>>

\* submit_entries reads the state ...
CheckEntries(c, s) ==
  /\ counting[c] = None /\ submits < MaxEntries
  /\ session[s].state \in {"open", "submitted"}
  /\ counting' = [counting EXCEPT ![c] = s]
  /\ submits' = submits + 1
  /\ UNCHANGED <<schema, onHand, moved, session, entries, approving, astray, moves>>

\* Mutant: the UPDATE does not ask for state 'open'.
SubmitEntries_AnyState(c, k, q) ==
  LET s == counting[c] IN
  /\ s # None
  /\ counting' = [counting EXCEPT ![c] = None]
  /\ entries' = [entries EXCEPT ![s][k] = @ + q]
  /\ approving' = [m \in Managers |->
                     IF approving[m].of = s /\ k \in DOMAIN approving[m].counted
                     THEN [approving[m] EXCEPT !.stale = @ \cup {k}] ELSE approving[m]]
  /\ session' = [session EXCEPT ![s].state = "submitted"]
  /\ UNCHANGED <<schema, onHand, moved, astray, moves, submits>>

\* ... inserts the entries and sets the state if it is still 'open'.  Entries
\* of a key add up, also when a request is sent twice.
SubmitEntries(c, k, q) ==
  LET s == counting[c] IN
  /\ s # None
  /\ counting' = [counting EXCEPT ![c] = None]
  /\ entries' = [entries EXCEPT ![s][k] = @ + q]
  /\ approving' = [m \in Managers |->
                     IF approving[m].of = s /\ k \in DOMAIN approving[m].counted
                     THEN [approving[m] EXCEPT !.stale = @ \cup {k}] ELSE approving[m]]
  /\ session' = [session EXCEPT ![s].state = IF @ = "open" THEN "submitted" ELSE @]
  /\ UNCHANGED <<schema, onHand, moved, astray, moves, submits>>

-----------------------------------------------------------------------------
(* approve.py and variance.py *)

\* approve_session reads the state, not its row lock.
BeginApproval(m, s) ==
  /\ approving[m].of = None
  /\ session[s].state \in {"submitted", "open"}
  /\ approving' = [approving EXCEPT ![m] = [NoApproval EXCEPT !.of = s, !.at = Now]]
  /\ UNCHANGED <<schema, onHand, moved, session, entries, counting, astray, moves, submits>>

\* Mutant: only what occurred after the session opened.
Window_After(s, k) ==
  SumFunctionOnSet([e \in Epochs |-> moved[e][k]], {e \in Epochs : e > session[s].created})

\* The ledger rows at the key with occurred_at >= created_at.
Window(s, k) ==
  SumFunctionOnSet([e \in Epochs |-> moved[e][k]], {e \in Epochs : e >= session[s].created})

\* What has been read so far, and v for k.
With(f, k, v) == [j \in DOMAIN f \cup {k} |-> IF j = k THEN v ELSE f[j]]

\* compute_variance, for each row of the snapshot: the movements ...
ReadDelta(m, k) ==
  LET a == approving[m] IN
  /\ a.of # None
  /\ k \in DOMAIN session[a.of].snapshot \ DOMAIN a.delta
  /\ DOMAIN a.delta = DOMAIN a.counted
  /\ approving' = [approving EXCEPT ![m].delta = With(@, k, Window(a.of, k))]
  /\ UNCHANGED <<schema, onHand, moved, session, entries, counting, astray, moves, submits>>

\* ... the entries, and a cost layer, by a column no migration creates.
ReadCounted(m, k) ==
  LET a == approving[m] IN
  /\ k \in DOMAIN a.delta \ DOMAIN a.counted
  /\ approving' = [approving EXCEPT ![m] =
                     IF schema = "migrated" THEN NoApproval
                     ELSE [a EXCEPT !.counted = With(@, k, entries[a.of][k])]]
  /\ UNCHANGED <<schema, onHand, moved, session, entries, counting, astray, moves, submits>>

Variance(a, k) == a.counted[k] - (session[a.of].snapshot[k] + a.delta[k])
Adjusted(a) == {k \in DOMAIN a.counted : Variance(a, k) # 0}
Measured(m) ==
  /\ approving[m].of # None
  /\ DOMAIN approving[m].counted = DOMAIN session[approving[m].of].snapshot

\* An adjustment and a movement for every variance that is not zero (on the
\* balance as it is by then), the state, and the commit.
Approve(m) ==
  LET a == approving[m]
      v == [k \in Adjusted(a) |-> Variance(a, k)]
  IN /\ Measured(m)
     /\ Commit(v, a.at)
     /\ approving' = [Stale(DOMAIN v) EXCEPT ![m] = NoApproval]
     /\ session' = [session EXCEPT ![a.of].state = "approved"]
     /\ UNCHANGED <<schema, entries, counting, moves, submits>>

\* A movement is refused for want of stock, or the request dies: rolled back.
AbortApproval(m) ==
  /\ approving[m].of # None
  /\ approving' = [approving EXCEPT ![m] = NoApproval]
  /\ UNCHANGED <<schema, onHand, moved, session, entries, counting, astray, moves, submits>>

\* POST /count-sessions.
Create == \E s \in Sessions : CreateSession(s) \/ ScopePairs(s)

\* POST /count-sessions/{id}/entries.
AddEntries ==
  \/ \E c \in Counters, s \in Sessions : CheckEntries(c, s)
  \/ \E c \in Counters, k \in Keys, q \in Quantities : SubmitEntries(c, k, q)

\* POST /count-sessions/{id}/approve.
ApproveSession ==
  \/ \E m \in Managers, s \in Sessions : BeginApproval(m, s)
  \/ \E m \in Managers, k \in Keys : ReadDelta(m, k) \/ ReadCounted(m, k)
  \/ \E m \in Managers : Approve(m) \/ AbortApproval(m)

Next ==
  \/ \E k \in Keys, q \in {-1, 1}, at \in Epochs : Move(k, q, at)
  \/ Create
  \/ AddEntries
  \/ ApproveSession

Spec == Init /\ [][Next]_vars

-----------------------------------------------------------------------------
(* Properties. *)

\* An approval leaves the counted quantity of every balance that had a row when
\* the session opened, if no movement fell on the wrong side of the opening and
\* none was committed, nor an entry, after the approval had read the balance's.
ApprovedIsCounted ==
  [][\A m \in Managers :
       Approve(m) =>
         LET a == approving[m] IN
         \A k \in DOMAIN session[a.of].snapshot \ (astray[a.of] \cup a.stale) :
           onHand'[k] = entries[a.of][k]]_vars

\* An approved session stays approved, whatever entries and second approvals
\* were under way when it was.
ApprovedStays ==
  [][\A s \in Sessions :
       session[s].state = "approved" => session'[s].state = "approved"]_vars
=============================================================================
