---------------------------- MODULE CountsProofs -----------------------------
(***************************************************************************)
(* Proofs about Counts.  The invariant says why an approval is right: the  *)
(* balance of a key in a session's snapshot is the snapshot and what the   *)
(* ledger has in the session's window, unless a movement fell on the wrong *)
(* side of the opening; and what an approval has read is still so, unless  *)
(* the key went stale.  Windows are sums over the ledger: a movement adds  *)
(* itself to the windows it falls in (SumCommit).                          *)
(***************************************************************************)
EXTENDS Counts, SumTheorems

\* What ledger mv adds up to at key k from epoch c on.
SumFrom(mv, c, k) == SumFunctionOnSet([e \in Epochs |-> mv[e][k]], {e \in Epochs : e >= c})

Uncounted == {"none", "creating"}

\* Nothing is dated in an epoch that has not begun.
NothingAhead ==
  \A e \in Epochs, k \in Keys : e > Now => moved[e][k] = 0

\* A session that has its `now` and not its snapshot: no ledger row is in its
\* window, but those of the keys that went astray.
WindowsOpenEmpty ==
  \A s \in Sessions :
    session[s].state = "creating" =>
      \A k \in Keys \ astray[s], e \in Epochs : e >= session[s].created => moved[e][k] = 0

\* A session that has its snapshot: the balance is what the snapshot says and
\* what the window adds.
SnapshotExplains ==
  \A s \in Sessions :
    session[s].state \notin Uncounted =>
      /\ DOMAIN session[s].snapshot \subseteq DOMAIN onHand
      /\ \A k \in DOMAIN session[s].snapshot \ astray[s] :
           onHand[k] = session[s].snapshot[k] + Window(s, k)

\* What approval a has read is still so, but of the keys that went stale.  (The
\* epoch n and the tables are parameters: they are those before or after a step.)
Reads(a, n, ses, ent, mv) ==
  /\ a.at <= n
  /\ DOMAIN a.counted \subseteq DOMAIN a.delta
  /\ a.of = None => DOMAIN a.delta = {}
  /\ a.of # None =>
       /\ ses[a.of].state \notin Uncounted
       /\ DOMAIN a.delta \subseteq DOMAIN ses[a.of].snapshot
       /\ \A k \in DOMAIN a.delta \ a.stale : a.delta[k] = SumFrom(mv, ses[a.of].created, k)
       /\ \A k \in DOMAIN a.counted \ a.stale : a.counted[k] = ent[a.of][k]

ReadingsHold == \A m \in Managers : Reads(approving[m], Now, session, entries, moved)

\* Functions from some of the keys.
PerKey(V) == UNION {[K -> V] : K \in SUBSET Keys}

SessionRows == [state : {"none", "creating", "open", "submitted", "approved"},
                created : Epochs, snapshot : PerKey(Nat)]
Approvals == [of : Sessions \cup {None}, at : Epochs, delta : PerKey(Int),
              counted : PerKey(Nat), stale : SUBSET Keys]

Types ==
  /\ schema \in Schemas
  /\ onHand \in PerKey(Nat)
  /\ moved \in [Epochs -> [Keys -> Int]]
  /\ session \in [Sessions -> SessionRows]
  /\ entries \in [Sessions -> [Keys -> Nat]]
  /\ counting \in [Counters -> Sessions \cup {None}]
  /\ approving \in [Managers -> Approvals]
  /\ astray \in [Sessions -> SUBSET Keys]
  /\ moves \in 0..MaxMoves /\ submits \in 0..MaxEntries

IInv == Types /\ NothingAhead /\ WindowsOpenEmpty /\ SnapshotExplains /\ ReadingsHold

-----------------------------------------------------------------------------
(* Functions on some of the keys, epochs, and sums over them. *)

\* The same, without the set of keys.
LEMMA PerKeyIs ==
  ASSUME NEW V, NEW f
  PROVE  f \in PerKey(V) <=> DOMAIN f \subseteq Keys /\ f \in [DOMAIN f -> V]
  BY DEF PerKey

\* The function that has read nothing.
LEMMA EmptyType == ASSUME NEW V PROVE Empty \in PerKey(V) /\ DOMAIN Empty = {}
  <1>1. Empty \in [{} -> V] /\ DOMAIN Empty = {}
    BY DEF Empty
  <1>2. QED
    BY <1>1 DEF PerKey

\* With adds one key or replaces its value.
LEMMA WithType ==
  ASSUME NEW V, NEW f \in PerKey(V), NEW k \in Keys, NEW v \in V
  PROVE  /\ With(f, k, v) \in PerKey(V)
         /\ DOMAIN With(f, k, v) = DOMAIN f \cup {k}
         /\ \A j \in DOMAIN f \cup {k} : With(f, k, v)[j] = IF j = k THEN v ELSE f[j]
  <1>1. DOMAIN f \subseteq Keys /\ f \in [DOMAIN f -> V]
    BY PerKeyIs
  <1>2. With(f, k, v) \in [DOMAIN f \cup {k} -> V]
    BY <1>1 DEF With
  <1>3. DOMAIN f \cup {k} \in SUBSET Keys
    BY <1>1
  <1>4. QED
    BY <1>2, <1>3 DEF With, PerKey

\* There are as many epochs as sessions, and one before them.
LEMMA SessionsCount ==
  Cardinality(Sessions) \in Nat /\ Epochs = 0..Cardinality(Sessions)
  BY CountsAssumption, FS_CardinalityType DEF Epochs

\* The current epoch is one.
LEMMA NowType == Now \in Nat /\ Now <= Cardinality(Sessions) /\ Now \in Epochs
  <1> DEFINE B == {s \in Sessions : session[s].state # "none"}
  <1>1. B \subseteq Sessions /\ IsFiniteSet(B) /\ Cardinality(B) <= Cardinality(Sessions)
    BY CountsAssumption, FS_Subset
  <1>2. Cardinality(B) \in Nat
    BY <1>1, FS_CardinalityType
  <1>3. QED
    BY <1>1, <1>2, SessionsCount DEF Now

\* Epochs begin and do not end.
LEMMA NowGrows ==
  ASSUME \A s \in Sessions : session[s].state # "none" => session'[s].state # "none"
  PROVE  Now \in Nat /\ Now' \in Nat /\ Now <= Now' /\ Now' \in Epochs
  <1> DEFINE B == {s \in Sessions : session[s].state # "none"}
             C == {s \in Sessions : session'[s].state # "none"}
  <1>1. B \subseteq C /\ C \subseteq Sessions
    OBVIOUS
  <1>2. IsFiniteSet(C) /\ Cardinality(C) <= Cardinality(Sessions)
    BY <1>1, CountsAssumption, FS_Subset
  <1>3. IsFiniteSet(B) /\ Cardinality(B) <= Cardinality(C)
    BY <1>1, <1>2, FS_Subset
  <1>4. Cardinality(B) \in Nat /\ Cardinality(C) \in Nat
    BY <1>2, <1>3, FS_CardinalityType
  <1>5. Now = Cardinality(B) /\ Now' = Cardinality(C)
    BY DEF Now
  <1> HIDE DEF B, C
  <1>6. QED
    BY <1>2, <1>3, <1>4, <1>5, SessionsCount

\* A session that is created begins the next epoch.
LEMMA NowSteps ==
  ASSUME NEW s \in Sessions, session[s].state = "none", session'[s].state # "none",
         \A t \in Sessions \ {s} : session'[t].state = session[t].state
  PROVE  Now' = Now + 1
  <1> DEFINE B == {t \in Sessions : session[t].state # "none"}
             C == {t \in Sessions : session'[t].state # "none"}
  <1>1. C = B \cup {s} /\ s \notin B
    OBVIOUS
  <1>2. IsFiniteSet(B)
    BY CountsAssumption, FS_Subset
  <1>3. Cardinality(B \cup {s}) = Cardinality(B) + 1
    BY <1>1, <1>2, FS_AddElement
  <1>4. Now = Cardinality(B) /\ Now' = Cardinality(C)
    BY DEF Now
  <1>5. QED
    BY <1>1, <1>3, <1>4

Ledgers == [Epochs -> [Keys -> Int]]

\* A window is a number.
LEMMA SumFromType ==
  ASSUME NEW mv \in Ledgers, NEW c \in Nat, NEW k \in Keys
  PROVE  SumFrom(mv, c, k) \in Int
  <1> DEFINE f == [e \in Epochs |-> mv[e][k]]
             T == {e \in Epochs : e >= c}
  <1>1. f \in [Epochs -> Int]
    BY DEF Ledgers
  <1>2. T \in SUBSET Epochs /\ IsFiniteSet(Epochs)
    BY SessionsCount, FS_Interval
  <1>3. IsFiniteSet(T)
    BY <1>2, FS_Subset
  <1>4. SumFunctionOnSet(f, T) \in Int
    BY <1>1, <1>2, <1>3, SumType
  <1>5. QED
    BY <1>4 DEF SumFrom

\* A movement of d units dated at enters the windows that have begun by then.
LEMMA SumCommit ==
  ASSUME NEW mv \in Ledgers, NEW mw \in Ledgers, NEW at \in Epochs, NEW k \in Keys,
         NEW d \in Int, mw[at][k] = mv[at][k] + d,
         \A e \in Epochs \ {at} : mw[e][k] = mv[e][k],
         NEW c \in Nat
  PROVE  SumFrom(mw, c, k) = SumFrom(mv, c, k) + (IF at >= c THEN d ELSE 0)
  <1> DEFINE f == [e \in Epochs |-> mv[e][k]]
             h == [e \in Epochs |-> mw[e][k]]
             T == {e \in Epochs : e >= c}
  <1>1. f \in [Epochs -> Int] /\ h \in [Epochs -> Int]
    BY DEF Ledgers
  <1>2. T \in SUBSET Epochs /\ IsFiniteSet(Epochs)
    BY SessionsCount, FS_Interval
  <1>3. IsFiniteSet(T)
    BY <1>2, FS_Subset
  <1>4. h[at] - f[at] = d /\ f[at] \in Int /\ h[at] \in Int
    BY <1>1
  <1>5. \A e \in Epochs \ {at} : f[e] = h[e]
    OBVIOUS
  <1>6. SumFrom(mv, c, k) = SumFunctionOnSet(f, T) /\ SumFrom(mw, c, k) = SumFunctionOnSet(h, T)
    BY DEF SumFrom
  <1>7. SumFunctionOnSet(f, T) \in Int
    BY <1>1, <1>2, <1>3, SumType
  <1>8. at \in T <=> at >= c
    OBVIOUS
  <1> HIDE DEF f, h, T
  <1>9. CASE at \in T
    <2>1. SumFunctionOnSet(h, T) = SumFunctionOnSet(f, T) + (h[at] - f[at])
      BY <1>1, <1>2, <1>3, <1>5, <1>9, SumChange
    <2>2. QED
      BY <1>4, <1>6, <1>8, <1>9, <2>1
  <1>10. CASE at \notin T
    <2>1. \A e \in T : f[e] = h[e]
      BY <1>2, <1>5, <1>10
    <2>2. SumFunctionOnSet(f, T) = SumFunctionOnSet(h, T)
      BY <1>3, <2>1, SumAgree
    <2>3. QED
      BY <1>6, <1>7, <1>8, <1>10, <2>2
  <1>11. QED
    BY <1>9, <1>10

\* A window in which nothing is dated adds nothing.
LEMMA SumOfNothing ==
  ASSUME NEW mv, NEW c \in Nat, NEW k,
         \A e \in Epochs : e >= c => mv[e][k] = 0
  PROVE  SumFrom(mv, c, k) = 0
  <1> DEFINE f == [e \in Epochs |-> mv[e][k]]
             T == {e \in Epochs : e >= c}
  <1>1. T \in SUBSET Epochs /\ IsFiniteSet(Epochs)
    <2>1. T \in SUBSET Epochs
      OBVIOUS
    <2>2. IsFiniteSet(Epochs)
      BY SessionsCount, FS_Interval
    <2>3. QED
      BY <2>1, <2>2
  <1>2. IsFiniteSet(T)
    BY <1>1, FS_Subset
  <1>3. \A e \in T : f[e] = 0
    OBVIOUS
  <1>4. SumFrom(mv, c, k) = SumFunctionOnSet(f, T)
    BY DEF SumFrom
  <1> HIDE DEF f, T
  <1>5. QED
    BY <1>2, <1>3, <1>4, SumOfZeros

-----------------------------------------------------------------------------
(* What steps preserve. *)

\* The rows of sessions stay, but for the state: one that has its snapshot does
\* not lose it.
SessionsStay ==
  /\ session' \in [Sessions -> SessionRows]
  /\ \A s \in Sessions :
       /\ session'[s].created = session[s].created
       /\ session'[s].snapshot = session[s].snapshot
       /\ session'[s].state # session[s].state =>
            session[s].state \notin Uncounted /\ session'[s].state \notin Uncounted

\* A step that does not change what the ledger adds up to for s at k.
SameWindow(s, k) ==
  SumFrom(moved', session'[s].created, k) = SumFrom(moved, session[s].created, k)

\* No epoch begins.
LEMMA NowStays == SessionsStay => Now' = Now
  <1> SUFFICES ASSUME SessionsStay PROVE Now' = Now
    OBVIOUS
  <1>1. \A s \in Sessions : session'[s].state # "none" <=> session[s].state # "none"
    BY DEF SessionsStay, Uncounted
  <1>2. {s \in Sessions : session'[s].state # "none"} = {s \in Sessions : session[s].state # "none"}
    BY <1>1
  <1>3. QED
    BY <1>2 DEF Now

\* The fields of a session's row.
LEMMA SessionType ==
  ASSUME Types, NEW s \in Sessions
  PROVE  /\ session[s] \in SessionRows /\ session[s].created \in Epochs
         /\ session[s].created \in Nat
         /\ session[s].snapshot \in PerKey(Nat)
         /\ DOMAIN session[s].snapshot \subseteq Keys
         /\ \A k \in DOMAIN session[s].snapshot : session[s].snapshot[k] \in Nat
  <1>1. session[s] \in SessionRows
    BY DEF Types
  <1>2. session[s].created \in Epochs /\ session[s].snapshot \in PerKey(Nat)
    BY <1>1 DEF SessionRows
  <1>3. session[s].created \in Nat
    BY <1>2, SessionsCount
  <1>4. QED
    BY <1>1, <1>2, <1>3, PerKeyIs

\* What Commit does to the balances and the ledger, key by key.
LEMMA CommitFacts ==
  ASSUME Types, NEW qty, DOMAIN qty \subseteq Keys,
         \A k \in DOMAIN qty : qty[k] \in Int,
         NEW at \in Epochs, Commit(qty, at)
  PROVE  /\ onHand' \in PerKey(Nat) /\ moved' \in Ledgers
         /\ astray' \in [Sessions -> SUBSET Keys]
         /\ DOMAIN onHand \subseteq DOMAIN onHand'
         /\ \A k \in DOMAIN onHand :
              onHand'[k] = onHand[k] + (IF k \in DOMAIN qty THEN qty[k] ELSE 0)
         /\ \A e \in Epochs, k \in Keys :
              moved'[e][k] = moved[e][k] + (IF e = at /\ k \in DOMAIN qty THEN qty[k] ELSE 0)
         /\ \A s \in Sessions : astray[s] \subseteq astray'[s]
  <1> DEFINE K == DOMAIN qty
             Add(k) == IF k \in K THEN qty[k] ELSE 0
  <1>1. /\ \A k \in K : Balance(k) + qty[k] >= 0
        /\ onHand' = [k \in DOMAIN onHand \cup K |-> Balance(k) + Add(k)]
        /\ moved' = [moved EXCEPT ![at] = [k \in Keys |-> @[k] + Add(k)]]
    BY DEF Commit
  <1>2. /\ astray' \in [Sessions -> SUBSET Keys]
        /\ \A s \in Sessions : astray[s] \subseteq astray'[s]
    BY DEF Commit, Types
  <1>3. \A k \in Keys : Add(k) \in Int
    OBVIOUS
  <1>4. DOMAIN onHand \subseteq Keys /\ \A k \in DOMAIN onHand : onHand[k] \in Nat
    BY PerKeyIs DEF Types
  <1>5. \A k \in Keys : Balance(k) \in Nat /\ (k \in DOMAIN onHand => Balance(k) = onHand[k])
    BY <1>4 DEF Balance
  <1>6. \A k \in DOMAIN onHand \cup K : Balance(k) + Add(k) \in Nat
    BY <1>1, <1>3, <1>4, <1>5
  <1>7. moved \in Ledgers
    BY DEF Types, Ledgers
  <1> HIDE DEF Add
  <1>8. onHand' \in [DOMAIN onHand \cup K -> Nat] /\ DOMAIN onHand \cup K \in SUBSET Keys
    BY <1>1, <1>4, <1>6
  <1>9. onHand' \in PerKey(Nat)
    BY <1>8 DEF PerKey
  <1>10. [k \in Keys |-> moved[at][k] + Add(k)] \in [Keys -> Int]
    BY <1>3, <1>7 DEF Ledgers
  <1>11. moved' \in Ledgers
    BY <1>1, <1>7, <1>10 DEF Ledgers
  <1>12. ASSUME NEW e \in Epochs, NEW k \in Keys
         PROVE  moved'[e][k] = moved[e][k] + (IF e = at /\ k \in K THEN qty[k] ELSE 0)
    <2>1. moved[e][k] \in Int
      BY <1>7 DEF Ledgers
    <2>2. CASE e = at
      <3>1. moved'[e][k] = moved[at][k] + Add(k)
        BY <1>1, <1>7, <2>2 DEF Ledgers
      <3>2. QED
        BY <2>2, <3>1 DEF Add
    <2>3. CASE e # at
      BY <1>1, <1>7, <2>1, <2>3 DEF Ledgers
    <2>4. QED
      BY <2>2, <2>3
  <1>13. \A k \in DOMAIN onHand : onHand'[k] = onHand[k] + Add(k)
    BY <1>1, <1>4, <1>5
  <1>14. QED
    BY <1>1, <1>2, <1>9, <1>11, <1>12, <1>13 DEF Add

\* A movement after which the books still explain the balances.
LEMMA CommitStep ==
  ASSUME IInv, NEW qty, DOMAIN qty \subseteq Keys,
         \A k \in DOMAIN qty : qty[k] \in Int,
         NEW at \in Epochs, at <= Now, Commit(qty, at), SessionsStay
  PROVE  /\ NothingAhead' /\ WindowsOpenEmpty' /\ SnapshotExplains'
         /\ \A s \in Sessions, k \in Keys \ DOMAIN qty : SameWindow(s, k)
  <1> DEFINE K == DOMAIN qty
             Wrong(s) == IF session[s].state = "creating" THEN at >= session[s].created
                         ELSE session[s].state # "none" /\ at < session[s].created
  <1>1. Types /\ NothingAhead /\ WindowsOpenEmpty /\ SnapshotExplains
    BY DEF IInv
  <1>2. /\ onHand' \in PerKey(Nat) /\ moved' \in Ledgers
        /\ DOMAIN onHand \subseteq DOMAIN onHand'
        /\ \A k \in DOMAIN onHand :
             onHand'[k] = onHand[k] + (IF k \in K THEN qty[k] ELSE 0)
        /\ \A e \in Epochs, k \in Keys :
             moved'[e][k] = moved[e][k] + (IF e = at /\ k \in K THEN qty[k] ELSE 0)
        /\ \A s \in Sessions : astray[s] \subseteq astray'[s]
    BY <1>1, CommitFacts
  <1>3. \A s \in Sessions : Wrong(s) => K \subseteq astray'[s]
    BY DEF Commit
  <1>4. moved \in Ledgers
    BY <1>1 DEF Types, Ledgers
  <1>4a. \A e \in Epochs, k \in Keys : moved[e][k] \in Int
    BY <1>4 DEF Ledgers
  <1>4b. Now' = Now /\ Now \in Nat /\ \A e \in Epochs : e \in Nat
    BY NowStays, NowType, SessionsCount
  <1>5. NothingAhead'
    <2>1. ASSUME NEW e \in Epochs, NEW k \in Keys, e > Now PROVE moved'[e][k] = 0
      <3>1. e # at
        BY <1>4b, <2>1
      <3>2. moved[e][k] = 0 /\ moved'[e][k] = moved[e][k] + 0
        BY <1>1, <1>2, <2>1, <3>1 DEF NothingAhead
      <3>3. QED
        BY <3>2
    <2>2. QED
      BY <1>4b, <2>1 DEF NothingAhead
  <1>6. ASSUME NEW s \in Sessions, NEW k \in Keys
        PROVE  /\ Window(s, k) \in Int
               /\ Window(s, k)' = Window(s, k) +
                    (IF at >= session[s].created /\ k \in K THEN qty[k] ELSE 0)
    <2> DEFINE c == session[s].created
               d == IF k \in K THEN qty[k] ELSE 0
    <2>1. c \in Nat /\ d \in Int
      BY <1>1, SessionType
    <2>2. moved'[at][k] = moved[at][k] + d /\ \A e \in Epochs \ {at} : moved'[e][k] = moved[e][k]
      BY <1>2, <1>4a
    <2>3. Window(s, k) = SumFrom(moved, c, k)
      BY DEF Window, SumFrom
    <2>4. Window(s, k)' = SumFrom(moved', session'[s].created, k)
      BY DEF Window, SumFrom
    <2>5. session'[s].created = c
      BY DEF SessionsStay
    <2> HIDE DEF c, d
    <2>6. SumFrom(moved', c, k) = SumFrom(moved, c, k) + (IF at >= c THEN d ELSE 0)
      BY <1>2, <1>4, <2>1, <2>2, SumCommit
    <2>7. SumFrom(moved, c, k) \in Int
      BY <1>4, <2>1, SumFromType
    <2>8. QED
      BY <2>3, <2>4, <2>5, <2>6, <2>7 DEF c, d
  <1>7. WindowsOpenEmpty'
    <2>1. ASSUME NEW s \in Sessions, session'[s].state = "creating",
                 NEW k \in Keys \ astray'[s], NEW e \in Epochs, e >= session'[s].created
          PROVE  moved'[e][k] = 0
      <3>1. session[s].state = "creating" /\ session'[s].created = session[s].created
        BY <2>1 DEF SessionsStay, Uncounted
      <3>2. k \in Keys \ astray[s]
        BY <1>2
      <3>3. moved[e][k] = 0
        BY <1>1, <2>1, <3>1, <3>2 DEF WindowsOpenEmpty
      <3>4. ~ (e = at /\ k \in K)
        BY <1>3, <2>1, <3>1
      <3>5. moved'[e][k] = moved[e][k] + 0
        BY <1>2, <3>4
      <3>6. QED
        BY <3>3, <3>5
    <2>2. QED
      BY <2>1 DEF WindowsOpenEmpty
  <1>8. SnapshotExplains'
    <2>1. ASSUME NEW s \in Sessions, session'[s].state \notin Uncounted
          PROVE  /\ DOMAIN session'[s].snapshot \subseteq DOMAIN onHand'
                 /\ \A k \in DOMAIN session'[s].snapshot \ astray'[s] :
                      onHand'[k] = session'[s].snapshot[k] + Window(s, k)'
      <3>1. session[s].state \notin Uncounted /\ session'[s].snapshot = session[s].snapshot
        BY <2>1 DEF SessionsStay
      <3>2. /\ DOMAIN session[s].snapshot \subseteq DOMAIN onHand
            /\ \A k \in DOMAIN session[s].snapshot \ astray[s] :
                 onHand[k] = session[s].snapshot[k] + Window(s, k)
        BY <1>1, <3>1 DEF SnapshotExplains
      <3>3. ASSUME NEW k \in DOMAIN session[s].snapshot \ astray'[s]
            PROVE  onHand'[k] = session[s].snapshot[k] + Window(s, k)'
        <4>1. k \in Keys /\ session[s].snapshot[k] \in Nat
          BY <1>1, SessionType
        <4>2. onHand[k] = session[s].snapshot[k] + Window(s, k)
          BY <1>2, <3>2
        <4>3. onHand'[k] = onHand[k] + (IF k \in K THEN qty[k] ELSE 0)
          BY <1>2, <3>2
        <4>4. k \in K => at >= session[s].created
          <5>1. session[s].created \in Nat /\ at \in Nat
            BY <1>1, <1>4b, SessionType
          <5>2. QED
            BY <1>3, <3>1, <5>1 DEF Uncounted
        <4>5. Window(s, k)' = Window(s, k) + (IF k \in K THEN qty[k] ELSE 0)
          BY <1>6, <4>1, <4>4
        <4>6. Window(s, k) \in Int
          BY <1>6, <4>1
        <4>7. QED
          BY <4>1, <4>2, <4>3, <4>5, <4>6
      <3>4. QED
        BY <1>2, <3>1, <3>2, <3>3
    <2>2. QED
      BY <2>1 DEF SnapshotExplains
  <1>9. ASSUME NEW s \in Sessions, NEW k \in Keys \ K PROVE SameWindow(s, k)
    <2>1. Window(s, k)' = Window(s, k)
      BY <1>6
    <2>2. QED
      BY <2>1 DEF Window, SumFrom, SameWindow
  <1>10. QED
    BY <1>5, <1>7, <1>8, <1>9

\* The steps that leave the books as they are.
LEMMA BooksStay ==
  ASSUME IInv, SessionsStay, UNCHANGED <<onHand, moved, astray>>
  PROVE  /\ NothingAhead' /\ WindowsOpenEmpty' /\ SnapshotExplains'
         /\ \A s \in Sessions, k \in Keys : SameWindow(s, k)
  <1>1. Types /\ NothingAhead /\ WindowsOpenEmpty /\ SnapshotExplains
    BY DEF IInv
  <1>2. NothingAhead'
    BY <1>1, NowStays DEF NothingAhead
  <1>3. ASSUME NEW s \in Sessions, NEW k \in Keys PROVE Window(s, k)' = Window(s, k)
    BY DEF Window, SessionsStay
  <1>4. WindowsOpenEmpty'
    BY <1>1 DEF WindowsOpenEmpty, SessionsStay, Uncounted
  <1>5. SnapshotExplains'
    <2>1. ASSUME NEW s \in Sessions, session'[s].state \notin Uncounted
          PROVE  /\ DOMAIN session'[s].snapshot \subseteq DOMAIN onHand'
                 /\ \A k \in DOMAIN session'[s].snapshot \ astray'[s] :
                      onHand'[k] = session'[s].snapshot[k] + Window(s, k)'
      <3>1. session[s].state \notin Uncounted /\ session'[s].snapshot = session[s].snapshot
        BY <2>1 DEF SessionsStay
      <3>2. DOMAIN session[s].snapshot \subseteq Keys
        BY <1>1, SessionType
      <3>3. QED
        BY <1>1, <1>3, <3>1, <3>2 DEF SnapshotExplains
    <2>2. QED
      BY <2>1 DEF SnapshotExplains
  <1>6. ASSUME NEW s \in Sessions, NEW k \in Keys PROVE SameWindow(s, k)
    BY DEF SameWindow, SessionsStay
  <1>7. QED
    BY <1>2, <1>4, <1>5, <1>6

\* The fields of an approval.
LEMMA ApprovalType ==
  ASSUME Types, NEW m \in Managers
  PROVE  LET a == approving[m] IN
         /\ a \in Approvals
         /\ a.of \in Sessions \cup {None} /\ a.at \in Epochs /\ a.at \in Nat
         /\ a.delta \in PerKey(Int) /\ DOMAIN a.delta \subseteq Keys
         /\ a.counted \in PerKey(Nat) /\ DOMAIN a.counted \subseteq Keys
         /\ \A k \in DOMAIN a.delta : a.delta[k] \in Int
         /\ \A k \in DOMAIN a.counted : a.counted[k] \in Nat
         /\ a.stale \subseteq Keys
  <1> DEFINE a == approving[m]
  <1>1. a \in Approvals
    BY DEF Types
  <1>2. /\ a.of \in Sessions \cup {None} /\ a.at \in Epochs /\ a.delta \in PerKey(Int)
        /\ a.counted \in PerKey(Nat) /\ a.stale \in SUBSET Keys
    BY <1>1 DEF Approvals
  <1>3. a.at \in Nat
    BY <1>2, SessionsCount
  <1> HIDE DEF a
  <1>4. /\ DOMAIN a.delta \subseteq Keys /\ DOMAIN a.counted \subseteq Keys
        /\ \A k \in DOMAIN a.delta : a.delta[k] \in Int
        /\ \A k \in DOMAIN a.counted : a.counted[k] \in Nat
    BY <1>2, PerKeyIs
  <1>5. QED
    BY <1>1, <1>2, <1>3, <1>4 DEF a

\* A manager with no approval under way.
LEMMA NoApprovalType ==
  /\ NoApproval \in Approvals
  /\ NoApproval.of = None /\ NoApproval.at = 0
  /\ DOMAIN NoApproval.delta = {} /\ DOMAIN NoApproval.counted = {}
  <1>1. Empty \in PerKey(Int) /\ Empty \in PerKey(Nat) /\ DOMAIN Empty = {}
    BY EmptyType
  <1>2. 0 \in Epochs
    BY SessionsCount
  <1>3. QED
    BY <1>1, <1>2 DEF NoApproval, Approvals

\* A manager with no approval under way has read nothing.
LEMMA NothingRead ==
  ASSUME NEW n \in Nat, NEW ses, NEW ent, NEW mv
  PROVE  Reads(NoApproval, n, ses, ent, mv)
  BY NoApprovalType DEF Reads

\* An approval keeps what it has read when the keys that were moved or counted
\* go stale, and nothing else changes for it.
LEMMA ReadingsStay ==
  ASSUME NEW a \in Approvals, NEW S, NEW n \in Nat, NEW nn \in Nat, n <= nn,
         NEW ses, NEW sess, NEW ent, NEW entt, NEW mv, NEW mvv,
         Reads(a, n, ses, ent, mv),
         NEW b, b.of = a.of, b.at = a.at, b.delta = a.delta, b.counted = a.counted,
         b.stale = a.stale \cup S,
         a.of # None =>
           /\ sess[a.of].state \notin Uncounted
           /\ sess[a.of].snapshot = ses[a.of].snapshot
           /\ \A k \in DOMAIN a.delta \ S :
                SumFrom(mvv, sess[a.of].created, k) = SumFrom(mv, ses[a.of].created, k)
           /\ \A k \in DOMAIN a.counted \ S : entt[a.of][k] = ent[a.of][k]
  PROVE  Reads(b, nn, sess, entt, mvv)
  <1>1. a.at \in Nat
    BY SessionsCount DEF Approvals
  <1>2. QED
    BY <1>1 DEF Reads

\* There is no session at the start.
LEMMA InitIInv == Init => IInv
  <1> SUFFICES ASSUME Init PROVE IInv
    OBVIOUS
  <1>1. NewSession \in SessionRows /\ NewSession.state = "none"
    BY EmptyType, SessionsCount DEF NewSession, SessionRows
  <1>2. Types
    <2>1. onHand \in PerKey(Nat)
      BY CountsAssumption DEF Init, PerKey
    <2>2. moved \in [Epochs -> [Keys -> Int]]
      BY DEF Init
    <2>3. session \in [Sessions -> SessionRows] /\ approving \in [Managers -> Approvals]
      BY <1>1, NoApprovalType DEF Init
    <2>4. QED
      BY <2>1, <2>2, <2>3, CountsAssumption DEF Init, Types
  <1>3. NothingAhead /\ WindowsOpenEmpty /\ SnapshotExplains
    BY <1>1 DEF Init, NothingAhead, WindowsOpenEmpty, SnapshotExplains, Uncounted
  <1>4. ReadingsHold
    BY NothingRead, NowType DEF Init, ReadingsHold
  <1>5. QED
    BY <1>2, <1>3, <1>4 DEF IInv

-----------------------------------------------------------------------------
(* The steps. *)

\* The same in a step that leaves the sessions' rows.
LEMMA KeepsReading ==
  ASSUME IInv, SessionsStay, NEW m \in Managers, NEW S, NEW b,
         b.of = approving[m].of, b.at = approving[m].at,
         b.delta = approving[m].delta, b.counted = approving[m].counted,
         b.stale = approving[m].stale \cup S,
         \A s \in Sessions, k \in DOMAIN approving[m].delta \ S : SameWindow(s, k),
         \A s \in Sessions, k \in DOMAIN approving[m].counted \ S :
           s = approving[m].of => entries'[s][k] = entries[s][k]
  PROVE  Reads(b, Now', session', entries', moved')
  <1> DEFINE a == approving[m]
  <1>1. a \in Approvals /\ a.of \in Sessions \cup {None}
    BY ApprovalType DEF IInv
  <1>2. Reads(a, Now, session, entries, moved)
    BY DEF IInv, ReadingsHold
  <1>3. Now' = Now /\ Now \in Nat
    BY NowStays, NowType
  <1>4. a.of # None =>
          /\ session'[a.of].state \notin Uncounted
          /\ session'[a.of].snapshot = session[a.of].snapshot
          /\ \A k \in DOMAIN a.delta \ S :
               SumFrom(moved', session'[a.of].created, k) = SumFrom(moved, session[a.of].created, k)
          /\ \A k \in DOMAIN a.counted \ S : entries'[a.of][k] = entries[a.of][k]
    <2>1. SUFFICES ASSUME a.of # None, a.of \in Sessions
                   PROVE  /\ session'[a.of].state \notin Uncounted
                          /\ session'[a.of].snapshot = session[a.of].snapshot
                          /\ \A k \in DOMAIN a.delta \ S : SameWindow(a.of, k)
                          /\ \A k \in DOMAIN a.counted \ S : entries'[a.of][k] = entries[a.of][k]
      BY <1>1 DEF SameWindow
    <2>2. session[a.of].state \notin Uncounted
      BY <1>2, <2>1 DEF Reads
    <2>3. QED
      BY <2>1, <2>2 DEF SessionsStay
  <1>5. Now <= Now'
    BY <1>3
  <1> HIDE DEF a
  <1>6. b.of = a.of /\ b.at = a.at /\ b.delta = a.delta /\ b.counted = a.counted
        /\ b.stale = a.stale \cup S
    BY DEF a
  <1>7. QED
    BY <1>1, <1>2, <1>3, <1>4, <1>5, <1>6, ReadingsStay

\* An approval that is as it was.
LEMMA SameReading ==
  ASSUME IInv, SessionsStay, NEW m \in Managers,
         \A s \in Sessions, k \in DOMAIN approving[m].delta : SameWindow(s, k),
         \A s \in Sessions, k \in DOMAIN approving[m].counted :
           s = approving[m].of => entries'[s][k] = entries[s][k]
  PROVE  Reads(approving[m], Now', session', entries', moved')
  <1> DEFINE b == approving[m]
  <1>1. /\ b.of = approving[m].of /\ b.at = approving[m].at
        /\ b.delta = approving[m].delta /\ b.counted = approving[m].counted
        /\ b.stale = approving[m].stale \cup {}
    OBVIOUS
  <1> HIDE DEF b
  <1>2. Reads(b, Now', session', entries', moved')
    BY <1>1, KeepsReading
  <1>3. QED
    BY <1>2 DEF b

\* The record of an approval of which some keys go stale.
LEMMA StaleFields ==
  ASSUME NEW a \in Approvals, NEW S, S \subseteq Keys
  PROVE  LET b == [a EXCEPT !.stale = @ \cup S] IN
         /\ b \in Approvals
         /\ b.of = a.of /\ b.at = a.at /\ b.delta = a.delta /\ b.counted = a.counted
         /\ b.stale = a.stale \cup S
  BY DEF Approvals

\* A step that leaves the table of sessions.
LEMMA SessionsUnchanged ==
  ASSUME Types, session' = session
  PROVE  SessionsStay
  <1>1. session \in [Sessions -> SessionRows]
    BY DEF Types
  <1>2. QED
    BY <1>1 DEF SessionsStay

\* A step that touches no session, no book and no entry, and at most one approval.
LEMMA OneApproval ==
  ASSUME IInv, NEW m \in Managers, NEW b \in Approvals,
         approving' = [approving EXCEPT ![m] = b],
         UNCHANGED <<schema, onHand, moved, session, entries, counting, astray, moves, submits>>,
         Reads(b, Now, session, entries, moved)
  PROVE  IInv'
  <1>1. Types /\ SessionsStay
    BY SessionsUnchanged DEF IInv
  <1>2. Types'
    BY <1>1 DEF Types
  <1>3. NothingAhead' /\ WindowsOpenEmpty' /\ SnapshotExplains'
    BY <1>1, BooksStay
  <1>4. Now' = Now
    BY <1>1, NowStays
  <1>5. approving \in [Managers -> Approvals]
    BY <1>1 DEF Types
  <1>6. ReadingsHold'
    <2>1. ASSUME NEW j \in Managers PROVE Reads(approving'[j], Now', session', entries', moved')
      <3>1. Reads(approving[j], Now, session, entries, moved)
        BY DEF IInv, ReadingsHold
      <3>2. approving'[j] = b \/ approving'[j] = approving[j]
        BY <1>5
      <3>3. QED
        BY <1>4, <3>1, <3>2
    <2>2. QED
      BY <2>1 DEF ReadingsHold
  <1>7. QED
    BY <1>2, <1>3, <1>6 DEF IInv

\* An approval begins on a session that has its snapshot, and has read nothing.
LEMMA BeginApprovalStep ==
  ASSUME IInv, NEW m \in Managers, NEW s \in Sessions, BeginApproval(m, s)
  PROVE  IInv'
  <1> DEFINE b == [NoApproval EXCEPT !.of = s, !.at = Now]
  <1>1. /\ b \in Approvals /\ b.of = s /\ b.at = Now
        /\ DOMAIN b.delta = {} /\ DOMAIN b.counted = {}
    BY NoApprovalType, NowType DEF Approvals
  <1>2. session[s].state \notin Uncounted /\ s # None /\ approving' = [approving EXCEPT ![m] = b]
    BY CountsAssumption DEF BeginApproval, Uncounted, None
  <1>2a. UNCHANGED <<schema, onHand, moved, session, entries, counting, astray, moves, submits>>
    BY DEF BeginApproval
  <1> HIDE DEF b
  <1>3. Reads(b, Now, session, entries, moved)
    BY <1>1, <1>2, NowType DEF Reads
  <1>4. QED
    BY <1>1, <1>2, <1>2a, <1>3, OneApproval

\* A rollback forgets what was read.
LEMMA AbortStep ==
  ASSUME IInv, NEW m \in Managers, AbortApproval(m)
  PROVE  IInv'
  <1>1. Reads(NoApproval, Now, session, entries, moved)
    BY NothingRead, NowType
  <1>2. QED
    BY <1>1, NoApprovalType, OneApproval DEF AbortApproval

\* The movements of a key are read as they are.
LEMMA ReadDeltaStep ==
  ASSUME IInv, NEW m \in Managers, NEW k \in Keys, ReadDelta(m, k)
  PROVE  IInv'
  <1> DEFINE a == approving[m]
             d == With(a.delta, k, Window(a.of, k))
             b == [a EXCEPT !.delta = d]
  <1>1. /\ a \in Approvals /\ a.of \in Sessions /\ a.of # None
        /\ a.delta \in PerKey(Int) /\ a.stale \subseteq Keys
    BY ApprovalType DEF IInv, ReadDelta
  <1>2. k \in DOMAIN session[a.of].snapshot \ DOMAIN a.delta
    BY DEF ReadDelta
  <1>3. approving' = [approving EXCEPT ![m].delta = With(@, k, Window(a.of, k))]
    BY DEF ReadDelta
  <1>4. approving' = [approving EXCEPT ![m] = b]
    BY <1>3 DEF IInv, Types
  <1>5. Window(a.of, k) \in Int
    <2>1. moved \in Ledgers /\ session[a.of].created \in Nat
      BY <1>1, SessionType DEF IInv, Types, Ledgers
    <2>2. QED
      BY <2>1, SumFromType DEF Window, SumFrom
  <1>6. /\ d \in PerKey(Int) /\ DOMAIN d = DOMAIN a.delta \cup {k}
        /\ \A j \in DOMAIN a.delta \cup {k} : d[j] = IF j = k THEN Window(a.of, k) ELSE a.delta[j]
    <2>1. \A f \in PerKey(Int), v \in Int :
            /\ With(f, k, v) \in PerKey(Int)
            /\ DOMAIN With(f, k, v) = DOMAIN f \cup {k}
            /\ \A j \in DOMAIN f \cup {k} : With(f, k, v)[j] = IF j = k THEN v ELSE f[j]
      BY WithType
    <2> HIDE DEF a
    <2>2. QED
      BY <1>1, <1>5, <2>1
  <1>7. UNCHANGED <<schema, onHand, moved, session, entries, counting, astray, moves, submits>>
    BY DEF ReadDelta
  <1>8. Reads(a, Now, session, entries, moved)
    BY DEF IInv, ReadingsHold
  <1>9. Window(a.of, k) = SumFrom(moved, session[a.of].created, k)
    BY DEF Window, SumFrom
  <1> HIDE DEF a, d
  <1>10. /\ b \in Approvals /\ b.of = a.of /\ b.at = a.at /\ b.delta = d
         /\ b.counted = a.counted /\ b.stale = a.stale
    BY <1>1, <1>6 DEF Approvals
  <1> HIDE DEF b
  <1>11. Reads(b, Now, session, entries, moved)
    BY <1>1, <1>2, <1>6, <1>8, <1>9, <1>10 DEF Reads
  <1>12. QED
    BY <1>4, <1>7, <1>10, <1>11, OneApproval

\* The entries of a key are read as they are, or the statement fails.
LEMMA ReadCountedStep ==
  ASSUME IInv, NEW m \in Managers, NEW k \in Keys, ReadCounted(m, k)
  PROVE  IInv'
  <1> DEFINE a == approving[m]
             d == With(a.counted, k, entries[a.of][k])
             b == [a EXCEPT !.counted = d]
  <1>1. /\ a \in Approvals /\ a.of \in Sessions \cup {None}
        /\ a.counted \in PerKey(Nat) /\ a.stale \subseteq Keys
    BY ApprovalType DEF IInv
  <1>2. k \in DOMAIN a.delta \ DOMAIN a.counted
    BY DEF ReadCounted
  <1>3. UNCHANGED <<schema, onHand, moved, session, entries, counting, astray, moves, submits>>
    BY DEF ReadCounted
  <1>4. approving' = [approving EXCEPT ![m] = NoApproval] \/ approving' = [approving EXCEPT ![m] = b]
    BY DEF ReadCounted
  <1>5. CASE approving' = [approving EXCEPT ![m] = NoApproval]
    <2>1. Reads(NoApproval, Now, session, entries, moved)
      BY NothingRead, NowType
    <2>2. QED
      BY <1>3, <1>5, <2>1, NoApprovalType, OneApproval
  <1>6. CASE approving' = [approving EXCEPT ![m] = b]
    <2>1. Reads(a, Now, session, entries, moved)
      BY DEF IInv, ReadingsHold
    <2>2. a.of # None /\ a.of \in Sessions
      BY <1>1, <1>2, <2>1 DEF Reads
    <2>3. entries[a.of][k] \in Nat
      BY <2>2 DEF IInv, Types
    <2>4. /\ d \in PerKey(Nat) /\ DOMAIN d = DOMAIN a.counted \cup {k}
          /\ \A j \in DOMAIN a.counted \cup {k} :
               d[j] = IF j = k THEN entries[a.of][k] ELSE a.counted[j]
      <3>1. \A f \in PerKey(Nat), v \in Nat :
              /\ With(f, k, v) \in PerKey(Nat)
              /\ DOMAIN With(f, k, v) = DOMAIN f \cup {k}
              /\ \A j \in DOMAIN f \cup {k} : With(f, k, v)[j] = IF j = k THEN v ELSE f[j]
        BY WithType
      <3> HIDE DEF a
      <3>2. QED
        BY <1>1, <2>3, <3>1
    <2> HIDE DEF a, d
    <2>5. /\ b \in Approvals /\ b.of = a.of /\ b.at = a.at /\ b.delta = a.delta
          /\ b.counted = d /\ b.stale = a.stale
      BY <1>1, <2>4 DEF Approvals
    <2> HIDE DEF b
    <2>6. Reads(b, Now, session, entries, moved)
      BY <1>2, <2>1, <2>2, <2>4, <2>5 DEF Reads
    <2>7. QED
      BY <1>3, <1>6, <2>5, <2>6, OneApproval
  <1>7. QED
    BY <1>4, <1>5, <1>6

\* The approvals for which the keys of K go stale.
LEMMA StaleReads ==
  ASSUME IInv, SessionsStay, NEW m \in Managers, NEW K, K \subseteq Keys,
         entries' = entries,
         \A s \in Sessions, k \in Keys \ K : SameWindow(s, k)
  PROVE  /\ Stale(K)[m] \in Approvals
         /\ Reads(Stale(K)[m], Now', session', entries', moved')
  <1> DEFINE a == approving[m]
             S == K \cap DOMAIN a.delta
             b == [a EXCEPT !.stale = @ \cup S]
  <1>1. Stale(K)[m] = b
    BY DEF Stale
  <1>2. /\ a \in Approvals /\ DOMAIN a.delta \subseteq Keys /\ S \subseteq Keys
        /\ DOMAIN a.counted \subseteq DOMAIN a.delta
    BY ApprovalType DEF IInv, ReadingsHold, Reads
  <1> HIDE DEF a
  <1>3. /\ b \in Approvals /\ b.of = a.of /\ b.at = a.at /\ b.delta = a.delta
        /\ b.counted = a.counted /\ b.stale = a.stale \cup S
    BY <1>2, StaleFields
  <1> HIDE DEF b
  <1>4. \A s \in Sessions, k \in DOMAIN a.delta \ S : SameWindow(s, k)
    BY <1>2
  <1> HIDE DEF S
  <1>5. Reads(b, Now', session', entries', moved')
    BY <1>3, <1>4, KeepsReading DEF a
  <1>6. QED
    BY <1>1, <1>3, <1>5

\* Stale is a function on the managers.
LEMMA StaleIs ==
  ASSUME NEW K PROVE Stale(K) = [m \in Managers |-> Stale(K)[m]]
  BY DEF Stale

\* A movement of another request.
LEMMA MoveStep ==
  ASSUME IInv, NEW k \in Keys, NEW q \in {-1, 1}, NEW at \in Epochs, Move(k, q, at)
  PROVE  IInv'
  <1> DEFINE qty == [j \in {k} |-> q]
  <1>1. DOMAIN qty = {k} /\ DOMAIN qty \subseteq Keys /\ \A j \in DOMAIN qty : qty[j] \in Int
    OBVIOUS
  <1>2. /\ at <= Now /\ moves < MaxMoves /\ moves' = moves + 1
        /\ approving' = Stale({k})
        /\ UNCHANGED <<schema, session, entries, counting, submits>>
    BY DEF Move
  <1>3. Commit(qty, at)
    BY DEF Move
  <1>4. Types /\ SessionsStay
    BY <1>2, SessionsUnchanged DEF IInv
  <1> HIDE DEF qty
  <1>5. /\ NothingAhead' /\ WindowsOpenEmpty' /\ SnapshotExplains'
        /\ \A s \in Sessions, j \in Keys \ {k} : SameWindow(s, j)
    BY <1>1, <1>2, <1>3, <1>4, CommitStep
  <1>6. /\ onHand' \in PerKey(Nat) /\ moved' \in Ledgers
        /\ astray' \in [Sessions -> SUBSET Keys]
    BY <1>1, <1>3, <1>4, CommitFacts
  <1>7. \A m \in Managers : /\ approving'[m] \in Approvals
                            /\ Reads(approving'[m], Now', session', entries', moved')
    BY <1>2, <1>4, <1>5, StaleReads
  <1>8. approving' \in [Managers -> Approvals]
    BY <1>2, <1>7, StaleIs
  <1>9. moves' \in 0..MaxMoves
    BY <1>2, <1>4, CountsAssumption DEF Types
  <1>10. Types'
    BY <1>2, <1>4, <1>6, <1>8, <1>9 DEF Types, Ledgers
  <1>11. ReadingsHold'
    BY <1>7 DEF ReadingsHold
  <1>12. QED
    BY <1>5, <1>10, <1>11 DEF IInv

\* A session that has not been submitted has no approval.
LEMMA OtherSession ==
  ASSUME IInv, NEW s \in Sessions, session[s].state \in Uncounted,
         NEW row \in SessionRows, session' = [session EXCEPT ![s] = row],
         row.state # "none",
         UNCHANGED <<schema, onHand, moved, entries, counting, approving, astray, moves, submits>>
  PROVE  /\ Types' /\ ReadingsHold'
         /\ Now \in Nat /\ Now' \in Nat /\ Now <= Now' /\ Now' \in Epochs
         /\ session'[s] = row /\ \A t \in Sessions \ {s} : session'[t] = session[t]
  <1>1. Types /\ ReadingsHold
    BY DEF IInv
  <1>2. session'[s] = row /\ \A t \in Sessions \ {s} : session'[t] = session[t]
    BY <1>1 DEF Types
  <1>3. Types'
    BY <1>1 DEF Types
  <1>4. Now \in Nat /\ Now' \in Nat /\ Now <= Now' /\ Now' \in Epochs
    BY <1>2, NowGrows
  <1>5. ASSUME NEW m \in Managers
        PROVE  Reads(approving[m], Now', session', entries, moved)
    <2> DEFINE a == approving[m]
    <2>1. a \in Approvals /\ a.of \in Sessions \cup {None} /\ a.at \in Nat
      BY <1>1, ApprovalType
    <2>2. Reads(a, Now, session, entries, moved)
      BY <1>1 DEF ReadingsHold
    <2>3. a.of # None => session'[a.of] = session[a.of]
      BY <1>2, <2>1, <2>2 DEF Reads
    <2> HIDE DEF a
    <2>4. Reads(a, Now', session', entries, moved)
      BY <1>4, <2>1, <2>2, <2>3 DEF Reads
    <2>5. QED
      BY <2>4 DEF a
  <1>6. ReadingsHold'
    BY <1>5 DEF ReadingsHold
  <1>7. QED
    BY <1>2, <1>3, <1>4, <1>6

\* A session takes its `now`: an epoch in which nothing is dated yet.
LEMMA CreateSessionStep ==
  ASSUME IInv, NEW s \in Sessions, CreateSession(s)
  PROVE  IInv'
  <1> DEFINE row == [NewSession EXCEPT !.state = "creating", !.created = Now + 1]
  <1>1. /\ session[s].state = "none" /\ session' = [session EXCEPT ![s] = row]
        /\ UNCHANGED <<schema, onHand, moved, entries, counting, approving, astray, moves, submits>>
    BY DEF CreateSession
  <1>2. session \in [Sessions -> SessionRows]
    BY DEF IInv, Types
  <1>3. row.state = "creating" /\ row.created = Now + 1
    BY DEF NewSession
  <1>4. Now' = Now + 1
    BY <1>1, <1>2, <1>3, NowSteps
  <1>5. Now + 1 \in Epochs
    <2>1. \A t \in Sessions : session[t].state # "none" => session'[t].state # "none"
      BY <1>1, <1>2, <1>3
    <2>2. QED
      BY <1>4, <2>1, NowGrows
  <1>6. row \in SessionRows
    BY <1>5, EmptyType DEF NewSession, SessionRows
  <1> HIDE DEF row
  <1>7. session[s].state \in Uncounted /\ row.state # "none"
    BY <1>1, <1>3 DEF Uncounted
  <1>8. /\ Types' /\ ReadingsHold' /\ Now \in Nat
        /\ session'[s] = row /\ \A t \in Sessions \ {s} : session'[t] = session[t]
    BY <1>1, <1>6, <1>7, OtherSession
  <1>9. NothingAhead /\ WindowsOpenEmpty /\ SnapshotExplains
    BY DEF IInv
  <1>9a. \A e \in Epochs : e \in Nat
    BY SessionsCount
  <1>10. NothingAhead'
    BY <1>1, <1>4, <1>8, <1>9, <1>9a DEF NothingAhead
  <1>11. WindowsOpenEmpty'
    <2>1. ASSUME NEW t \in Sessions, session'[t].state = "creating",
                 NEW k \in Keys \ astray[t], NEW e \in Epochs, e >= session'[t].created
          PROVE  moved[e][k] = 0
      <3>1. CASE t = s
        BY <1>3, <1>8, <1>9, <1>9a, <2>1, <3>1 DEF NothingAhead
      <3>2. CASE t # s
        BY <1>8, <1>9, <2>1, <3>2 DEF WindowsOpenEmpty
      <3>3. QED
        BY <3>1, <3>2
    <2>2. QED
      BY <1>1, <2>1 DEF WindowsOpenEmpty
  <1>12. SnapshotExplains'
    <2>1. ASSUME NEW t \in Sessions, session'[t].state \notin Uncounted
          PROVE  /\ DOMAIN session'[t].snapshot \subseteq DOMAIN onHand
                 /\ \A k \in DOMAIN session'[t].snapshot \ astray[t] :
                      onHand[k] = session'[t].snapshot[k] + Window(t, k)'
      <3>1. t # s /\ session'[t] = session[t]
        BY <1>3, <1>8, <2>1 DEF Uncounted
      <3>2. \A k : Window(t, k)' = Window(t, k)
        BY <1>1, <3>1 DEF Window
      <3>3. QED
        BY <1>9, <2>1, <3>1, <3>2 DEF SnapshotExplains
    <2>2. QED
      BY <1>1, <2>1 DEF SnapshotExplains
  <1>13. QED
    BY <1>8, <1>10, <1>11, <1>12 DEF IInv

\* A session takes its snapshot: the balances, and an empty window.
LEMMA ScopePairsStep ==
  ASSUME IInv, NEW s \in Sessions, ScopePairs(s)
  PROVE  IInv'
  <1> DEFINE row == [session[s] EXCEPT !.state = "open", !.snapshot = onHand]
  <1>1. /\ session[s].state = "creating"
        /\ session' = [session EXCEPT ![s].state = "open", ![s].snapshot = onHand]
        /\ UNCHANGED <<schema, onHand, moved, entries, counting, approving, astray, moves, submits>>
    BY DEF ScopePairs
  <1>2. Types /\ NothingAhead /\ WindowsOpenEmpty /\ SnapshotExplains
    BY DEF IInv
  <1>3. session[s] \in SessionRows /\ onHand \in PerKey(Nat) /\ moved \in Ledgers
    BY <1>2 DEF Types, Ledgers
  <1>4. /\ row \in SessionRows /\ row.state = "open" /\ row.snapshot = onHand
        /\ row.created = session[s].created
    BY <1>3 DEF SessionRows
  <1>5. session' = [session EXCEPT ![s] = row]
    BY <1>1, <1>2 DEF Types
  <1> HIDE DEF row
  <1>6. session[s].state \in Uncounted /\ row.state # "none"
    BY <1>1, <1>4 DEF Uncounted
  <1>7. /\ Types' /\ ReadingsHold' /\ Now \in Nat /\ Now' \in Nat /\ Now <= Now'
        /\ session'[s] = row /\ \A t \in Sessions \ {s} : session'[t] = session[t]
    BY <1>1, <1>4, <1>5, <1>6, OtherSession
  <1>8. NothingAhead'
    <2>1. \A e \in Epochs : e \in Nat
      BY SessionsCount
    <2>2. QED
      BY <1>1, <1>2, <1>7, <2>1 DEF NothingAhead
  <1>9. WindowsOpenEmpty'
    <2>1. \A t \in Sessions : session'[t].state = "creating" => t # s /\ session'[t] = session[t]
      BY <1>4, <1>7
    <2>2. QED
      BY <1>1, <1>2, <2>1 DEF WindowsOpenEmpty
  <1>10. SnapshotExplains'
    <2>1. ASSUME NEW t \in Sessions, session'[t].state \notin Uncounted
          PROVE  /\ DOMAIN session'[t].snapshot \subseteq DOMAIN onHand
                 /\ \A k \in DOMAIN session'[t].snapshot \ astray[t] :
                      onHand[k] = session'[t].snapshot[k] + Window(t, k)'
      <3>1. CASE t = s
        <4>1. session'[s].snapshot = onHand /\ session'[s].created = session[s].created
          BY <1>4, <1>7
        <4>2. ASSUME NEW k \in DOMAIN onHand \ astray[s]
              PROVE  onHand[k] = onHand[k] + Window(s, k)'
          <5>1. k \in Keys \ astray[s] /\ onHand[k] \in Nat
            BY <1>3, PerKeyIs
          <5>2. \A e \in Epochs : e >= session[s].created => moved[e][k] = 0
            BY <1>1, <1>2, <5>1 DEF WindowsOpenEmpty
          <5>3. session[s].created \in Nat
            BY <1>2, SessionType
          <5>4. SumFrom(moved, session[s].created, k) = 0
            BY <5>2, <5>3, SumOfNothing
          <5>5. Window(s, k)' = 0
            BY <1>1, <4>1, <5>4 DEF Window, SumFrom
          <5>6. QED
            BY <5>1, <5>5
        <4>3. QED
          BY <3>1, <4>1, <4>2
      <3>2. CASE t # s
        <4>1. session'[t] = session[t]
          BY <1>7, <3>2
        <4>2. \A k : Window(t, k)' = Window(t, k)
          BY <1>1, <4>1 DEF Window
        <4>3. QED
          BY <1>2, <2>1, <4>1, <4>2 DEF SnapshotExplains
      <3>3. QED
        BY <3>1, <3>2
    <2>2. QED
      BY <1>1, <2>1 DEF SnapshotExplains
  <1>11. QED
    BY <1>7, <1>8, <1>9, <1>10 DEF IInv

\* A request with entries has read the state.
LEMMA CheckEntriesStep ==
  ASSUME IInv, NEW c \in Counters, NEW s \in Sessions, CheckEntries(c, s)
  PROVE  IInv'
  <1>1. Types /\ SessionsStay
    BY SessionsUnchanged DEF IInv, CheckEntries
  <1>2. Types'
    BY <1>1, CountsAssumption DEF Types, CheckEntries
  <1>3. UNCHANGED <<onHand, moved, session, entries, approving, astray>>
    BY DEF CheckEntries
  <1>4. NothingAhead' /\ WindowsOpenEmpty' /\ SnapshotExplains' /\ Now' = Now
    BY <1>1, <1>3, BooksStay, NowStays
  <1>5. ReadingsHold'
    BY <1>3, <1>4 DEF IInv, ReadingsHold
  <1>6. QED
    BY <1>2, <1>4, <1>5 DEF IInv

\* Entries make the counts stale that approvals have read of the key.
LEMMA SubmitEntriesStep ==
  ASSUME IInv, NEW c \in Counters, NEW k \in Keys, NEW q \in Quantities, SubmitEntries(c, k, q)
  PROVE  IInv'
  <1> DEFINE s == counting[c]
             Hit(m) == approving[m].of = s /\ k \in DOMAIN approving[m].counted
             row == [session[s] EXCEPT !.state = IF @ = "open" THEN "submitted" ELSE @]
  <1>1. /\ s # None
        /\ counting' = [counting EXCEPT ![c] = None]
        /\ entries' = [entries EXCEPT ![s][k] = @ + q]
        /\ approving' = [m \in Managers |->
                           IF Hit(m) THEN [approving[m] EXCEPT !.stale = @ \cup {k}]
                           ELSE approving[m]]
        /\ session' = [session EXCEPT ![s].state = IF @ = "open" THEN "submitted" ELSE @]
        /\ UNCHANGED <<schema, onHand, moved, astray, moves, submits>>
    BY DEF SubmitEntries
  <1>2. Types
    BY DEF IInv
  <1>3. s \in Sessions /\ q \in Nat
    BY <1>1, <1>2, CountsAssumption DEF Types
  <1>4. session[s] \in SessionRows
    BY <1>2, <1>3, SessionType
  <1>5. /\ row \in SessionRows /\ row.created = session[s].created
        /\ row.snapshot = session[s].snapshot
        /\ row.state # session[s].state => session[s].state = "open" /\ row.state = "submitted"
    BY <1>4 DEF SessionRows
  <1>6. session' = [session EXCEPT ![s] = row]
    BY <1>1, <1>2, <1>3 DEF Types
  <1> HIDE DEF row
  <1>7. SessionsStay
    <2>1. session \in [Sessions -> SessionRows]
      BY <1>2 DEF Types
    <2>2. QED
      BY <1>3, <1>5, <1>6, <2>1 DEF SessionsStay, Uncounted
  <1>8. NothingAhead' /\ WindowsOpenEmpty' /\ SnapshotExplains'
        /\ \A t \in Sessions, j \in Keys : SameWindow(t, j)
    BY <1>1, <1>7, BooksStay
  <1>9. \A t \in Sessions, j \in Keys : ~ (t = s /\ j = k) => entries'[t][j] = entries[t][j]
    BY <1>1, <1>2, <1>3 DEF Types
  <1>10. entries' \in [Sessions -> [Keys -> Nat]]
    <2>1. [entries[s] EXCEPT ![k] = @ + q] \in [Keys -> Nat]
      BY <1>2, <1>3 DEF Types
    <2>2. entries' = [entries EXCEPT ![s] = [entries[s] EXCEPT ![k] = @ + q]]
      BY <1>1, <1>2, <1>3 DEF Types
    <2>3. QED
      BY <1>2, <2>1, <2>2 DEF Types
  <1>11. ASSUME NEW m \in Managers
         PROVE  /\ approving'[m] \in Approvals
                /\ Reads(approving'[m], Now', session', entries', moved')
    <2> DEFINE a == approving[m]
    <2>1. /\ a \in Approvals /\ DOMAIN a.delta \subseteq Keys
          /\ DOMAIN a.counted \subseteq Keys
      BY <1>2, ApprovalType
    <2>2. CASE Hit(m)
      <3> DEFINE b == [a EXCEPT !.stale = @ \cup {k}]
      <3>1. approving'[m] = b
        BY <1>1, <2>2
      <3> HIDE DEF a
      <3>2. /\ b \in Approvals /\ b.of = a.of /\ b.at = a.at /\ b.delta = a.delta
            /\ b.counted = a.counted /\ b.stale = a.stale \cup {k}
        <4>1. {k} \subseteq Keys
          OBVIOUS
        <4>2. a \in Approvals
          BY <2>1
        <4>3. QED
          BY <4>1, <4>2, StaleFields
      <3> HIDE DEF b
      <3>3. \A t \in Sessions, j \in DOMAIN a.delta \ {k} : SameWindow(t, j)
        BY <1>8, <2>1
      <3>4. \A t \in Sessions, j \in DOMAIN a.counted \ {k} :
              t = a.of => entries'[t][j] = entries[t][j]
        BY <1>9, <2>1
      <3>5. Reads(b, Now', session', entries', moved')
        BY <1>7, <3>2, <3>3, <3>4, KeepsReading DEF a
      <3>6. QED
        BY <3>1, <3>2, <3>5
    <2>3. CASE ~ Hit(m)
      <3>1. approving'[m] = a
        BY <1>1, <2>3
      <3>2. \A t \in Sessions, j \in DOMAIN approving[m].delta : SameWindow(t, j)
        BY <1>8, <2>1
      <3>3. \A t \in Sessions, j \in DOMAIN approving[m].counted :
              t = approving[m].of => entries'[t][j] = entries[t][j]
        BY <1>9, <2>1, <2>3
      <3>4. Reads(approving[m], Now', session', entries', moved')
        BY <1>7, <3>2, <3>3, SameReading
      <3>5. QED
        BY <2>1, <3>1, <3>4
    <2>4. QED
      BY <2>2, <2>3
  <1>12. approving' \in [Managers -> Approvals]
    <2>1. approving' = [m \in Managers |-> approving'[m]]
      BY <1>1
    <2>2. QED
      BY <1>11, <2>1
  <1>13. counting' \in [Counters -> Sessions \cup {None}]
    BY <1>1, <1>2 DEF Types
  <1>14. Types'
    BY <1>1, <1>2, <1>7, <1>10, <1>12, <1>13 DEF Types, SessionsStay
  <1>15. ReadingsHold'
    BY <1>11 DEF ReadingsHold
  <1>16. QED
    BY <1>8, <1>14, <1>15 DEF IInv

\* The variances of an approval, and what they are made of.
Variances(m) ==
  [k \in Adjusted(approving[m]) |-> Variance(approving[m], k)]

\* An approval that has read everything has a count, a sum of movements and a
\* snapshot for the same keys.
LEMMA MeasuredType ==
  ASSUME IInv, NEW m \in Managers, Measured(m)
  PROVE  LET a == approving[m] IN
         /\ a.of \in Sessions /\ a.at \in Epochs /\ a.at <= Now
         /\ session[a.of].state \notin Uncounted
         /\ DOMAIN a.counted = DOMAIN session[a.of].snapshot
         /\ DOMAIN a.delta = DOMAIN session[a.of].snapshot
         /\ DOMAIN a.counted \subseteq Keys
         /\ \A k \in DOMAIN a.counted :
              /\ a.counted[k] \in Nat /\ a.delta[k] \in Int
              /\ session[a.of].snapshot[k] \in Nat
              /\ Variance(a, k) \in Int
         /\ Adjusted(a) \subseteq DOMAIN a.counted
  <1> DEFINE a == approving[m]
  <1> SUFFICES /\ a.of \in Sessions /\ a.at \in Epochs /\ a.at <= Now
               /\ session[a.of].state \notin Uncounted
               /\ DOMAIN a.counted = DOMAIN session[a.of].snapshot
               /\ DOMAIN a.delta = DOMAIN session[a.of].snapshot
               /\ DOMAIN a.counted \subseteq Keys
               /\ \A k \in DOMAIN a.counted :
                    /\ a.counted[k] \in Nat /\ a.delta[k] \in Int
                    /\ session[a.of].snapshot[k] \in Nat
                    /\ Variance(a, k) \in Int
               /\ Adjusted(a) \subseteq DOMAIN a.counted
    OBVIOUS
  <1>1. Types /\ Reads(a, Now, session, entries, moved)
    BY DEF IInv, ReadingsHold
  <1>2. /\ a.of \in Sessions \cup {None} /\ a.at \in Epochs
        /\ DOMAIN a.counted \subseteq Keys
        /\ \A k \in DOMAIN a.delta : a.delta[k] \in Int
        /\ \A k \in DOMAIN a.counted : a.counted[k] \in Nat
    BY <1>1, ApprovalType
  <1>3. a.of # None /\ DOMAIN a.counted = DOMAIN session[a.of].snapshot
    BY DEF Measured
  <1> HIDE DEF a
  <1>4. /\ a.of \in Sessions /\ a.at <= Now /\ session[a.of].state \notin Uncounted
        /\ DOMAIN a.delta = DOMAIN session[a.of].snapshot
    BY <1>1, <1>2, <1>3 DEF Reads
  <1>5. \A k \in DOMAIN a.counted : session[a.of].snapshot[k] \in Nat
    BY <1>1, <1>3, <1>4, SessionType
  <1>6. \A k \in DOMAIN a.counted : Variance(a, k) \in Int
    BY <1>2, <1>3, <1>4, <1>5 DEF Variance
  <1>7. Adjusted(a) \subseteq DOMAIN a.counted
    BY DEF Adjusted
  <1>8. QED
    BY <1>2, <1>3, <1>4, <1>5, <1>6, <1>7

\* An approval posts its variances as one movement; the others' readings of
\* these keys go stale.
LEMMA ApproveStep ==
  ASSUME IInv, NEW m \in Managers, Approve(m)
  PROVE  IInv'
  <1> DEFINE a == approving[m]
             qty == Variances(m)
             row == [session[a.of] EXCEPT !.state = "approved"]
  <1>1. /\ Measured(m)
        /\ Commit(qty, a.at)
        /\ approving' = [Stale(DOMAIN qty) EXCEPT ![m] = NoApproval]
        /\ session' = [session EXCEPT ![a.of].state = "approved"]
        /\ UNCHANGED <<schema, entries, counting, moves, submits>>
    BY DEF Approve, Variances
  <1>2. /\ a.of \in Sessions /\ a.at \in Epochs /\ a.at <= Now
        /\ session[a.of].state \notin Uncounted
        /\ DOMAIN a.counted \subseteq Keys /\ Adjusted(a) \subseteq DOMAIN a.counted
        /\ \A k \in DOMAIN a.counted : Variance(a, k) \in Int
    BY <1>1, MeasuredType
  <1>3. DOMAIN qty \subseteq Keys /\ \A k \in DOMAIN qty : qty[k] \in Int
    BY <1>2 DEF Variances
  <1>4. Types
    BY DEF IInv
  <1> HIDE DEF a, qty
  <1>5. session[a.of] \in SessionRows
    BY <1>2, <1>4, SessionType
  <1>6. /\ row \in SessionRows /\ row.created = session[a.of].created
        /\ row.snapshot = session[a.of].snapshot /\ row.state = "approved"
    BY <1>5 DEF SessionRows
  <1>7. session' = [session EXCEPT ![a.of] = row]
    BY <1>1, <1>2, <1>4 DEF Types
  <1> HIDE DEF row
  <1>8. SessionsStay
    <2>1. session \in [Sessions -> SessionRows]
      BY <1>4 DEF Types
    <2>2. QED
      BY <1>2, <1>6, <1>7, <2>1 DEF SessionsStay, Uncounted
  <1>9. /\ NothingAhead' /\ WindowsOpenEmpty' /\ SnapshotExplains'
        /\ \A s \in Sessions, k \in Keys \ DOMAIN qty : SameWindow(s, k)
    BY <1>1, <1>2, <1>3, <1>8, CommitStep
  <1>10. /\ onHand' \in PerKey(Nat) /\ moved' \in Ledgers
         /\ astray' \in [Sessions -> SUBSET Keys]
    BY <1>1, <1>2, <1>3, <1>4, CommitFacts
  <1>11. \A j \in Managers : /\ Stale(DOMAIN qty)[j] \in Approvals
                             /\ Reads(Stale(DOMAIN qty)[j], Now', session', entries', moved')
    BY <1>1, <1>3, <1>8, <1>9, StaleReads
  <1>12. Now' \in Nat
    BY <1>8, NowStays, NowType
  <1>13. Reads(NoApproval, Now', session', entries', moved')
    BY <1>12, NothingRead
  <1>14. Stale(DOMAIN qty) \in [Managers -> Approvals]
    BY <1>11, StaleIs
  <1>15. approving' \in [Managers -> Approvals]
    BY <1>1, <1>14, NoApprovalType
  <1>16. \A j \in Managers : Reads(approving'[j], Now', session', entries', moved')
    BY <1>1, <1>11, <1>13, <1>14
  <1>17. Types'
    BY <1>1, <1>4, <1>8, <1>10, <1>15 DEF Types, SessionsStay, Ledgers
  <1>18. ReadingsHold'
    BY <1>16 DEF ReadingsHold
  <1>19. QED
    BY <1>9, <1>17, <1>18 DEF IInv

\* Every step keeps the invariant.
LEMMA NextIInv == IInv /\ [Next]_vars => IInv'
  <1> SUFFICES ASSUME IInv, [Next]_vars PROVE IInv'
    OBVIOUS
  <1>1. CASE UNCHANGED vars
    <2>1. Types /\ SessionsStay
      BY <1>1, SessionsUnchanged DEF IInv, vars
    <2>2. NothingAhead' /\ WindowsOpenEmpty' /\ SnapshotExplains' /\ Now' = Now
      BY <1>1, <2>1, BooksStay, NowStays DEF vars
    <2>3. Types' /\ ReadingsHold'
      BY <1>1, <2>1, <2>2 DEF vars, Types, IInv, ReadingsHold
    <2>4. QED
      BY <2>2, <2>3 DEF IInv
  <1>2. CASE \E k \in Keys, q \in {-1, 1}, at \in Epochs : Move(k, q, at)
    BY <1>2, MoveStep
  <1>3. CASE Create
    BY <1>3, CreateSessionStep, ScopePairsStep DEF Create
  <1>4. CASE AddEntries
    BY <1>4, CheckEntriesStep, SubmitEntriesStep DEF AddEntries
  <1>5. CASE ApproveSession
    BY <1>5, BeginApprovalStep, ReadDeltaStep, ReadCountedStep, ApproveStep, AbortStep
       DEF ApproveSession
  <1>6. QED
    BY <1>1, <1>2, <1>3, <1>4, <1>5 DEF Next

\* The inductive invariant of count sessions.
THEOREM InductiveInvariant == Spec => []IInv
  BY InitIInv, NextIInv, PTL DEF Spec

\* Balances, snapshots and entries are never negative, and an approval is of a
\* session that has its snapshot.
THEOREM TypeCorrect == Spec => []CountsTypeOK
  <1>1. ASSUME IInv PROVE CountsTypeOK
    <2>1. Types
      BY <1>1 DEF IInv
    <2>2. DOMAIN onHand \subseteq Keys /\ \A k \in DOMAIN onHand : onHand[k] \in Nat
      BY <2>1, PerKeyIs DEF Types
    <2>3. ASSUME NEW s \in Sessions
          PROVE  /\ session[s].state \in {"none", "creating", "open", "submitted", "approved"}
                 /\ session[s].created \in Epochs
                 /\ \A k \in DOMAIN session[s].snapshot : session[s].snapshot[k] \in Nat
      BY <2>1, SessionType DEF SessionRows
    <2>4. ASSUME NEW m \in Managers
          PROVE  approving[m].of = None
                 \/ session[approving[m].of].state \notin {"none", "creating"}
      BY <1>1 DEF IInv, ReadingsHold, Reads, Uncounted
    <2>5. QED
      BY <2>1, <2>2, <2>3, <2>4 DEF Types, CountsTypeOK
  <1>2. QED
    BY <1>1, InductiveInvariant, PTL

\* An approved session stays approved: no entry and no second approval that was
\* under way takes it back (the UPDATE of submit_entries asks for state 'open').
THEOREM ApprovalsAreFinal == Spec => ApprovedStays
  <1>1. ASSUME IInv, [Next]_vars, NEW s \in Sessions, session[s].state = "approved"
        PROVE  session'[s].state = "approved"
    <2>1. session \in [Sessions -> SessionRows]
      BY <1>1 DEF IInv, Types
    <2>2. ASSUME NEW t \in Sessions, CreateSession(t) \/ ScopePairs(t)
          PROVE  session'[s].state = "approved"
      BY <1>1, <2>1, <2>2 DEF CreateSession, ScopePairs
    <2>3. ASSUME NEW c \in Counters, NEW k \in Keys, NEW q \in Quantities, SubmitEntries(c, k, q)
          PROVE  session'[s].state = "approved"
      BY <1>1, <2>1, <2>3 DEF SubmitEntries, SessionRows
    <2>4. ASSUME NEW m \in Managers, Approve(m)
          PROVE  session'[s].state = "approved"
      BY <1>1, <2>1, <2>4 DEF Approve, SessionRows
    <2>5. session' = session => session'[s].state = "approved"
      BY <1>1
    <2>6. QED
      BY <1>1, <2>2, <2>3, <2>4, <2>5 DEF Next, Move, Create, AddEntries, CheckEntries,
         ApproveSession, BeginApproval, ReadDelta, ReadCounted, AbortApproval, vars
  <1>2. IInv /\ [Next]_vars =>
          [\A s \in Sessions : session[s].state = "approved" => session'[s].state = "approved"]_vars
    BY <1>1
  <1>3. QED
    BY <1>2, InductiveInvariant, PTL DEF Spec, ApprovedStays

\* approve_session leaves what was counted: of any number of sessions, counters,
\* approvals and movements at once, and of every key of the snapshot that was not
\* moved on the wrong side of the opening nor after the approval had read it.
THEOREM CountedIsApplied == Spec => ApprovedIsCounted
  <1>1. ASSUME IInv, NEW m \in Managers, Approve(m),
               NEW k \in DOMAIN session[approving[m].of].snapshot
                         \ (astray[approving[m].of] \cup approving[m].stale)
        PROVE  onHand'[k] = entries[approving[m].of][k]
    <2> DEFINE a == approving[m]
               s == a.of
               qty == Variances(m)
    <2>1. Measured(m) /\ Commit(qty, a.at)
      BY <1>1 DEF Approve, Variances
    <2>2. Types /\ SnapshotExplains /\ Reads(a, Now, session, entries, moved)
      BY <1>1 DEF IInv, ReadingsHold
    <2>3. /\ s \in Sessions /\ a.at \in Epochs
          /\ session[s].state \notin Uncounted
          /\ k \in DOMAIN a.counted /\ k \in DOMAIN a.delta /\ k \in Keys
          /\ a.counted[k] \in Nat /\ a.delta[k] \in Int /\ session[s].snapshot[k] \in Nat
          /\ DOMAIN a.counted \subseteq Keys /\ Adjusted(a) \subseteq DOMAIN a.counted
          /\ \A j \in DOMAIN a.counted : Variance(a, j) \in Int
      BY <1>1, <2>1, MeasuredType
    <2>4. /\ k \in DOMAIN onHand
          /\ onHand[k] = session[s].snapshot[k] + Window(s, k)
      BY <1>1, <2>2, <2>3 DEF SnapshotExplains
    <2>5. a.delta[k] = Window(s, k) /\ a.counted[k] = entries[s][k]
      <3>1. s # None
        BY <2>3, CountsAssumption DEF None
      <3>2. k \notin a.stale
        BY <1>1
      <3> HIDE DEF a
      <3>3. QED
        BY <2>2, <2>3, <3>1, <3>2 DEF Reads, Window, SumFrom
    <2>6. DOMAIN qty \subseteq Keys /\ \A j \in DOMAIN qty : qty[j] \in Int
      BY <2>3 DEF Variances
    <2>7. onHand'[k] = onHand[k] + (IF k \in DOMAIN qty THEN qty[k] ELSE 0)
      BY <2>1, <2>2, <2>3, <2>4, <2>6, CommitFacts
    <2>8. /\ k \in DOMAIN qty <=> Variance(a, k) # 0
          /\ k \in DOMAIN qty => qty[k] = Variance(a, k)
      BY <2>3 DEF Variances, Adjusted
    <2>9. Variance(a, k) = a.counted[k] - (session[s].snapshot[k] + a.delta[k])
      BY DEF Variance
    <2> HIDE DEF a, s, qty
    <2>10. onHand'[k] = entries[s][k]
      BY <2>3, <2>4, <2>5, <2>7, <2>8, <2>9
    <2>11. QED
      BY <2>10 DEF s, a
  <1>2. IInv /\ [Next]_vars =>
          [\A m \in Managers :
             Approve(m) =>
               LET a == approving[m] IN
               \A k \in DOMAIN session[a.of].snapshot \ (astray[a.of] \cup a.stale) :
                 onHand'[k] = entries[a.of][k]]_vars
    BY <1>1
  <1>3. QED
    BY <1>2, InductiveInvariant, PTL DEF Spec, ApprovedIsCounted
=============================================================================
