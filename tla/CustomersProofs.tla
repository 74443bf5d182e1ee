--------------------------- MODULE CustomersProofs ---------------------------
(***************************************************************************)
(* For any number of customers, requests, returns and addresses: the types *)
(* and constraints of the tables, that a customer is merged once, and that  *)
(* where no update was stale what is erased stays erased and the change    *)
(* log tells the profile.                                                  *)
(***************************************************************************)
EXTENDS Customers, TLAPS

StateSet == {"active", "inactive", "merged", "anonymized"}

CustomerRows ==
  [profile : Profiles, state : StateSet, into : Customers \cup {None},
   version : Nat \ {0}, crid : Crids \cup {None}]

OpenRequests ==
  {Idle}
  \cup [op : {"create"}, crid : Crids \cup {None}, profile : Profiles]
  \cup [op : {"update"}, of : Customers, profile : Profiles, prior : Profiles, expected : Nat]
  \cup [op : {"state"}, of : Customers, new : {"active", "inactive"}]
  \cup [op : {"anonymize"}, of : Customers]
  \cup [op : {"merge"}, survivor : Customers, away : Customers, seen : StateSet \X StateSet]
  \cup [op : {"rewrite"}, survivor : Customers, away : Customers, seen : StateSet \X StateSet,
        moving : SUBSET DOMAIN Bought]
  \cup [op : {"address"}, id : Addresses, isNew : BOOLEAN, row : AddressRows,
        cleared : SUBSET Addresses]

\* The rows a request has read are still there, and as it read them while their
\* version is the one it read.
ReadsHold(q) ==
  /\ q.op \in {"update", "state", "anonymize"} => q.of \in DOMAIN cust
  /\ q.op = "update" =>
       /\ q.expected <= cust[q.of].version
       /\ q.expected = cust[q.of].version =>
            /\ q.prior = cust[q.of].profile
            /\ cust[q.of].state \notin {"merged", "anonymized"}
  /\ q.op \in {"merge", "rewrite"} => q.survivor \in DOMAIN cust /\ q.away \in DOMAIN cust

RequestsOK ==
  /\ req \in [Requests -> OpenRequests]
  /\ \A r \in Requests : ReadsHold(req[r])

\* The unique index: who has written a merge is the first, and alone.
MergesApart ==
  \A r \in Requests : req[r].op = "rewrite" =>
    /\ \A m \in merges : m[2] # req[r].away
    /\ \A q \in Requests \ {r} : req[q].op = "rewrite" => req[q].away # req[r].away

RowsOK ==
  /\ \A c \in DOMAIN cust : cust[c] \in CustomerRows
  /\ DOMAIN owner = DOMAIN Bought

IInv ==
  /\ CustTypeOK
  /\ RowsOK
  /\ RequestsOK
  /\ MergesApart
  /\ MergedOnce
  /\ ErasedStaysErased
  /\ LogTellsTheProfile

-----------------------------------------------------------------------------
\* The seeded profiles meet every constraint, and no request is open.
LEMMA InitIInv == Init => IInv
  <1> SUFFICES ASSUME Init PROVE IInv
    OBVIOUS
  <1>1. PICK C \in SUBSET Customers : Seeded \in [C -> Profiles]
    BY CustomersAssumption
  <1>2. /\ cust = [c \in C |-> NewCustomer(Seeded[c], None)] /\ logged = [c \in C |-> NewLog(Seeded[c])]
        /\ merges = {} /\ owner = Bought /\ address = [d \in {} |-> None]
        /\ req = [r \in Requests |-> Idle] /\ lapsed = {} /\ stale = {} /\ begun = 0
        /\ DOMAIN Seeded = C /\ schema \in Schemas
    BY <1>1 DEF Init
  <1>3. \A c \in C : /\ cust[c] \in CustomerRows /\ cust[c].profile = Seeded[c]
                     /\ cust[c].state = "active" /\ cust[c].into = None /\ cust[c].crid = None
    BY <1>1, <1>2 DEF NewCustomer, CustomerRows, StateSet
  <1>4. CustTypeOK
    <2>1. \A c \in C : MeetsChecks(cust[c].profile) /\ EmailFree(c, cust[c].profile)
      BY <1>2, <1>3, CustomersAssumption DEF MeetsChecks, EmailFree
    <2>2. /\ \A x \in DOMAIN Bought : owner[x] \in C
          /\ begun \in 0..MaxRequests /\ C \subseteq Customers /\ DOMAIN address = {}
      BY <1>1, <1>2, CustomersAssumption
    <2>3. \A c \in C : logged[c] \in Logs
      BY <1>1, <1>2 DEF NewLog, Logs
    <2>4. DOMAIN cust = C
      BY <1>2
    <2>5. QED
      BY <1>2, <1>3, <2>1, <2>2, <2>3, <2>4 DEF CustTypeOK, CustomerRows, StateSet
  <1>5. RowsOK /\ RequestsOK /\ MergesApart
    BY <1>2, <1>3 DEF RowsOK, RequestsOK, OpenRequests, ReadsHold, Idle, MergesApart
  <1>6. MergedOnce /\ ErasedStaysErased /\ LogTellsTheProfile
    BY <1>2, <1>3 DEF MergedOnce, ErasedStaysErased, LogTellsTheProfile, Tells, NewLog
  <1>7. QED
    BY <1>4, <1>5, <1>6 DEF IInv

-----------------------------------------------------------------------------
\* A request that begins has read rows that are there, as they are.
LEMMA BeginStep ==
  ASSUME IInv, NEW r \in Requests, NEW q \in OpenRequests,
         Begin(r, q), q.op # "rewrite", ReadsHold(q)
  PROVE  IInv'
  <1> USE DEF IInv
  <1>1. /\ req' = [req EXCEPT ![r] = q] /\ begun' \in 0..MaxRequests
        /\ UNCHANGED <<schema, cust, merges, logged, owner, address, lapsed, stale>>
    BY CustomersAssumption DEF Begin, CustTypeOK
  <1>2. CustTypeOK'
    BY <1>1 DEF CustTypeOK, MeetsChecks, EmailFree, DefaultFree
  <1>3. RowsOK' /\ MergedOnce' /\ ErasedStaysErased' /\ LogTellsTheProfile'
    BY <1>1 DEF RowsOK, MergedOnce, ErasedStaysErased, LogTellsTheProfile
  <1>4. RequestsOK'
    BY <1>1 DEF RequestsOK, ReadsHold
  <1>5. MergesApart'
    BY <1>1 DEF MergesApart, RequestsOK
  <1>6. QED
    BY <1>2, <1>3, <1>4, <1>5

\* create_customer has read nothing that can change.
LEMMA BeginCreateStep ==
  ASSUME IInv, NEW r \in Requests, NEW crid \in Crids \cup {None}, NEW p \in Profiles, NEW role,
         BeginCreate(r, crid, p, role)
  PROVE  IInv'
  <1> DEFINE q == [op |-> "create", crid |-> crid, profile |-> p]
  <1>1. q \in OpenRequests /\ q.op # "rewrite" /\ ReadsHold(q)
    BY DEF OpenRequests, ReadsHold
  <1>2. QED
    BY <1>1, BeginStep DEF BeginCreate

\* update_customer begins with the row and the version it has read.
LEMMA BeginUpdateStep ==
  ASSUME IInv, NEW r \in Requests, NEW c \in Customers, NEW v \in Nat, NEW p \in Profiles,
         NEW role, BeginUpdate(r, c, v, p, role)
  PROVE  IInv'
  <1> DEFINE q == [op |-> "update", of |-> c, profile |-> p, prior |-> cust[c].profile,
                   expected |-> v]
  <1>1. c \in DOMAIN cust /\ cust[c] \in CustomerRows
    BY DEF BeginUpdate, IInv, RowsOK
  <1>2. q \in OpenRequests
    BY <1>1 DEF OpenRequests, CustomerRows
  <1>3. ReadsHold(q)
    BY <1>1 DEF BeginUpdate, ReadsHold
  <1>4. QED
    BY <1>2, <1>3, BeginStep DEF BeginUpdate

\* deactivate, reactivate and anonymize begin with a row that is there.
LEMMA BeginLifecycleStep ==
  ASSUME IInv, NEW r \in Requests, NEW c \in Customers,
         \/ BeginSetState(r, c, "inactive")
         \/ BeginSetState(r, c, "active")
         \/ BeginAnonymize(r, c)
  PROVE  IInv'
  <1>1. ASSUME NEW new \in {"active", "inactive"}, BeginSetState(r, c, new) PROVE IInv'
    <2>1. [op |-> "state", of |-> c, new |-> new] \in OpenRequests
      BY DEF OpenRequests
    <2>2. ReadsHold([op |-> "state", of |-> c, new |-> new])
      BY <1>1 DEF ReadsHold, BeginSetState
    <2>3. QED
      BY <1>1, <2>1, <2>2, BeginStep DEF BeginSetState
  <1>2. CASE BeginAnonymize(r, c)
    <2>1. [op |-> "anonymize", of |-> c] \in OpenRequests
      BY DEF OpenRequests
    <2>2. ReadsHold([op |-> "anonymize", of |-> c])
      BY <1>2 DEF ReadsHold, BeginAnonymize
    <2>3. QED
      BY <1>2, <2>1, <2>2, BeginStep DEF BeginAnonymize
  <1>3. QED
    BY <1>1, <1>2

\* merge_customers begins with two rows that are there.
LEMMA BeginMergeStep ==
  ASSUME IInv, NEW r \in Requests, NEW s \in Customers, NEW a \in Customers, BeginMerge(r, s, a)
  PROVE  IInv'
  <1> DEFINE q == [op |-> "merge", survivor |-> s, away |-> a, seen |-> States(s, a)]
  <1>1. s \in DOMAIN cust /\ a \in DOMAIN cust
    BY DEF BeginMerge
  <1>2. States(s, a) \in StateSet \X StateSet
    BY <1>1 DEF States, IInv, RowsOK, CustomerRows
  <1>3. q \in OpenRequests
    BY <1>2 DEF OpenRequests
  <1>4. ReadsHold(q)
    BY <1>1 DEF ReadsHold
  <1>5. QED
    BY <1>3, <1>4, BeginStep DEF BeginMerge

\* A request on an address reads no customer.
LEMMA BeginAddressStep ==
  ASSUME IInv, NEW r \in Requests, NEW d \in Addresses, NEW row \in AddressRows,
         BeginAddress(r, d, row)
  PROVE  IInv'
  <1> DEFINE q == [op |-> "address", id |-> d, isNew |-> d \notin DOMAIN address, row |-> row,
                   cleared |-> ClearDefault(row.of, row)]
  <1>1. ClearDefault(row.of, row) \in SUBSET Addresses /\ (d \notin DOMAIN address) \in BOOLEAN
    BY DEF ClearDefault, IInv, CustTypeOK
  <1>2. q \in OpenRequests
    BY <1>1 DEF OpenRequests
  <1>3. ReadsHold(q)
    BY DEF ReadsHold
  <1>4. QED
    BY <1>2, <1>3, BeginStep DEF BeginAddress

-----------------------------------------------------------------------------
\* A write of one row that counts its version up: the constraints hold, and what
\* open requests have read of the row is no longer the version they name.
LEMMA RewriteRow ==
  ASSUME IInv, NEW r \in Requests, NEW c \in DOMAIN cust, NEW x \in CustomerRows,
         cust' = [cust EXCEPT ![c] = x],
         x.version = cust[c].version + 1, x.crid = cust[c].crid,
         x.into \in DOMAIN cust \cup {None}, x.state = "merged" => x.into # None,
         MeetsChecks(x.profile), EmailFree(c, x.profile),
         req' = [req EXCEPT ![r] = Idle], schema' = schema
  PROVE  /\ DOMAIN cust' = DOMAIN cust
         /\ cust'[c] = x /\ \A d \in DOMAIN cust \ {c} : cust'[d] = cust[d]
         /\ \A d \in DOMAIN cust' : cust'[d] \in CustomerRows
         /\ \A d \in DOMAIN cust' :
              /\ (MeetsChecks(cust[d].profile) /\ EmailFree(d, cust[d].profile))'
              /\ cust'[d].into \in DOMAIN cust' \cup {None}
              /\ cust'[d].state = "merged" => cust'[d].into # None
              /\ \A e \in DOMAIN cust' \ {d} :
                   cust'[d].crid # None => cust'[e].crid # cust'[d].crid
         /\ RequestsOK'
  <1> USE DEF IInv
  <1>1. /\ DOMAIN cust' = DOMAIN cust
        /\ cust'[c] = x /\ \A d \in DOMAIN cust \ {c} : cust'[d] = cust[d]
    OBVIOUS
  <1>2. \A d \in DOMAIN cust' : cust'[d] \in CustomerRows
    BY <1>1 DEF RowsOK
  <1>3. \A d \in DOMAIN cust' : (MeetsChecks(cust[d].profile) /\ EmailFree(d, cust[d].profile))'
    <2>1. \A d \in DOMAIN cust : MeetsChecks(cust[d].profile) /\ EmailFree(d, cust[d].profile)
      BY DEF CustTypeOK
    <2>2. \A d \in DOMAIN cust : MeetsChecks(cust[d].profile)'
      BY <1>1, <2>1 DEF MeetsChecks
    <2>3. ASSUME NEW d \in DOMAIN cust, NEW e \in DOMAIN cust \ {d},
                 cust'[d].profile.contact # None
          PROVE  cust'[e].profile.contact # cust'[d].profile.contact
      <3>1. CASE d = c
        BY <1>1, <2>3, <3>1 DEF EmailFree
      <3>2. CASE e = c
        BY <1>1, <2>1, <2>3, <3>2 DEF EmailFree
      <3>3. CASE d # c /\ e # c
        BY <1>1, <2>1, <2>3, <3>3 DEF EmailFree
      <3>4. QED
        BY <3>1, <3>2, <3>3
    <2>4. QED
      BY <1>1, <2>2, <2>3 DEF EmailFree
  <1>4. \A d \in DOMAIN cust' :
          /\ cust'[d].into \in DOMAIN cust' \cup {None}
          /\ cust'[d].state = "merged" => cust'[d].into # None
    BY <1>1 DEF CustTypeOK
  <1>5. \A d \in DOMAIN cust' : \A e \in DOMAIN cust' \ {d} :
          cust'[d].crid # None => cust'[e].crid # cust'[d].crid
    BY <1>1 DEF CustTypeOK
  <1>6. RequestsOK'
    <2>1. req' \in [Requests -> OpenRequests]
      BY DEF RequestsOK, OpenRequests
    <2>2. ASSUME NEW q \in Requests PROVE ReadsHold(req[q])' \/ q = r
      <3>1. CASE q = r
        BY <3>1
      <3>2. CASE q # r
        <4>1. req'[q] = req[q] /\ ReadsHold(req[q]) /\ req[q] \in OpenRequests
          BY <3>2 DEF RequestsOK
        <4>2. CASE req[q].op = "update" /\ req[q].of = c
          <5>1. /\ req[q].expected <= cust[c].version /\ req[q].expected \in Nat
                /\ cust[c].version \in Nat /\ cust'[c].version = cust[c].version + 1
            BY <1>1, <4>1, <4>2 DEF ReadsHold, RowsOK, CustomerRows, OpenRequests, Idle
          <5>2. req[q].expected <= cust'[c].version /\ req[q].expected # cust'[c].version
            BY <5>1
          <5>3. QED
            BY <1>1, <4>1, <4>2, <5>2 DEF ReadsHold
        <4>3. CASE ~(req[q].op = "update" /\ req[q].of = c)
          BY <1>1, <4>1, <4>3 DEF ReadsHold
        <4>4. QED
          BY <4>2, <4>3
      <3>3. QED
        BY <3>1, <3>2
    <2>3. ReadsHold(req[r])'
      BY DEF ReadsHold, Idle, RequestsOK
    <2>4. QED
      BY <2>1, <2>2, <2>3 DEF RequestsOK
  <1>7. QED
    BY <1>1, <1>2, <1>3, <1>4, <1>5, <1>6

\* A log with the rows of an update added is a log.
LEMMA ChangedType ==
  ASSUME NEW log \in Logs, NEW p \in Profiles, NEW prior
  PROVE  Changed(prior, p, log) \in Logs
  <1>1. /\ {p.contact} \in SUBSET (Emails \cup {None}) /\ {p.tax} \in SUBSET (TaxIds \cup {None})
        /\ log.contact \in SUBSET (Emails \cup {None}) /\ log.tax \in SUBSET (TaxIds \cup {None})
    BY DEF Profiles, Logs
  <1>2. \A contact \in SUBSET (Emails \cup {None}), tax \in SUBSET (TaxIds \cup {None}) :
          [log EXCEPT !.contact = contact, !.tax = tax] \in Logs
    BY DEF Logs
  <1> DEFINE contact == IF p.contact # prior.contact THEN {p.contact} ELSE log.contact
             tax == IF p.tax # prior.tax THEN {p.tax} ELSE log.tax
  <1>3. contact \in SUBSET (Emails \cup {None}) /\ tax \in SUBSET (TaxIds \cup {None})
    BY <1>1
  <1>4. Changed(prior, p, log) = [log EXCEPT !.contact = contact, !.tax = tax]
    BY DEF Changed
  <1> HIDE DEF contact, tax
  <1>5. QED
    BY <1>2, <1>3, <1>4

\* An update of the version it names finds the profile it has read.
LEMMA UpdateStep ==
  ASSUME IInv, NEW r \in Requests, Update(r)
  PROVE  IInv'
  <1> USE DEF IInv
  <1> DEFINE c == req[r].of
             p == req[r].profile
             x == [cust[c] EXCEPT !.profile = p, !.version = @ + 1]
  <1>1. /\ req[r].op = "update" /\ MeetsChecks(p) /\ EmailFree(c, p)
        /\ cust' = [cust EXCEPT ![c] = x]
        /\ logged' = [logged EXCEPT ![c] = Changed(req[r].prior, p, @)]
        /\ stale' = stale \cup (IF cust[c].version # req[r].expected THEN {c} ELSE {})
        /\ req' = [req EXCEPT ![r] = Idle]
        /\ UNCHANGED <<schema, merges, owner, address, lapsed, begun>>
    BY DEF Update, Done
  <1>2. /\ c \in DOMAIN cust /\ p \in Profiles /\ req[r].prior \in Profiles
        /\ req[r].expected = cust[c].version =>
             req[r].prior = cust[c].profile /\ cust[c].state # "anonymized"
    BY <1>1 DEF RequestsOK, ReadsHold, OpenRequests, Idle
  <1>3. /\ cust[c] \in CustomerRows /\ x \in CustomerRows
        /\ x.version = cust[c].version + 1 /\ x.crid = cust[c].crid
        /\ x.profile = p /\ x.state = cust[c].state /\ x.into = cust[c].into
    <2>1. cust[c] \in CustomerRows
      BY <1>2 DEF RowsOK
    <2>2. cust[c].version + 1 \in Nat \ {0}
      BY <2>1 DEF CustomerRows
    <2>3. QED
      BY <1>2, <2>1, <2>2 DEF CustomerRows
  <1> HIDE DEF x
  <1>4. /\ DOMAIN cust' = DOMAIN cust
        /\ cust'[c] = x /\ \A d \in DOMAIN cust \ {c} : cust'[d] = cust[d]
        /\ \A d \in DOMAIN cust' : cust'[d] \in CustomerRows
        /\ \A d \in DOMAIN cust' :
              /\ (MeetsChecks(cust[d].profile) /\ EmailFree(d, cust[d].profile))'
              /\ cust'[d].into \in DOMAIN cust' \cup {None}
              /\ cust'[d].state = "merged" => cust'[d].into # None
              /\ \A e \in DOMAIN cust' \ {d} :
                   cust'[d].crid # None => cust'[e].crid # cust'[d].crid
        /\ RequestsOK'
    <2>1. x.into \in DOMAIN cust \cup {None} /\ (x.state = "merged" => x.into # None)
      BY <1>2, <1>3 DEF CustTypeOK
    <2>2. QED
      BY <1>1, <1>2, <1>3, <2>1, RewriteRow
  <1>5. DOMAIN logged' = DOMAIN cust' /\ \A d \in DOMAIN logged' : logged'[d] \in Logs
    <2>1. DOMAIN logged = DOMAIN cust /\ \A d \in DOMAIN logged : logged[d] \in Logs
      BY DEF CustTypeOK
    <2>2. Changed(req[r].prior, p, logged[c]) \in Logs
      BY <1>2, <2>1, ChangedType
    <2>3. QED
      BY <1>1, <1>4, <2>1, <2>2
  <1>6. CustTypeOK'
    BY <1>1, <1>2, <1>4, <1>5 DEF CustTypeOK, CustomerRows, StateSet, DefaultFree
  <1>7. RowsOK' /\ MergesApart'
    BY <1>1, <1>4 DEF RowsOK, MergesApart, RequestsOK, Idle
  <1>8. MergedOnce'
    BY <1>1, <1>3, <1>4 DEF MergedOnce
  <1>9. ErasedStaysErased'
    BY <1>1, <1>2, <1>3, <1>4 DEF ErasedStaysErased
  <1>10. LogTellsTheProfile'
    <2>1. /\ logged[c] \in Logs /\ logged'[c] = Changed(req[r].prior, p, logged[c])
          /\ \A d \in DOMAIN cust \ {c} : logged'[d] = logged[d]
      BY <1>1, <1>2 DEF CustTypeOK
    <2>2. /\ logged'[c].was = logged[c].was /\ logged'[c].anonymized = logged[c].anonymized
          /\ logged'[c].contact = IF p.contact # req[r].prior.contact
                                  THEN {p.contact} ELSE logged[c].contact
          /\ logged'[c].tax = IF p.tax # req[r].prior.tax THEN {p.tax} ELSE logged[c].tax
      BY <2>1 DEF Changed, Logs
    <2>3. ASSUME c \notin stale', ~logged'[c].anonymized
          PROVE  /\ Tells(logged'[c].contact, logged'[c].was.contact, p.contact)
                 /\ Tells(logged'[c].tax, logged'[c].was.tax, p.tax)
      <3>1. /\ Tells(logged[c].contact, logged[c].was.contact, req[r].prior.contact)
            /\ Tells(logged[c].tax, logged[c].was.tax, req[r].prior.tax)
        BY <1>1, <1>2, <2>2, <2>3 DEF LogTellsTheProfile
      <3>2. QED
        BY <2>2, <3>1 DEF Tells
    <2>4. ASSUME NEW d \in DOMAIN cust', d \notin stale', ~logged'[d].anonymized
          PROVE  /\ Tells(logged'[d].contact, logged'[d].was.contact, cust'[d].profile.contact)
                 /\ Tells(logged'[d].tax, logged'[d].was.tax, cust'[d].profile.tax)
      <3>1. CASE d = c
        BY <1>3, <1>4, <2>3, <2>4, <3>1
      <3>2. CASE d # c
        BY <1>1, <1>4, <2>1, <2>4, <3>2 DEF LogTellsTheProfile
      <3>3. QED
        BY <3>1, <3>2
    <2>5. QED
      BY <2>4 DEF LogTellsTheProfile, Tells
  <1>11. QED
    BY <1>4, <1>6, <1>7, <1>8, <1>9, <1>10

\* The row of a new customer is in no merge, and its log tells it.
LEMMA InsertCustomerStep ==
  ASSUME IInv, NEW r \in Requests, NEW c \in Customers, InsertCustomer(r, c)
  PROVE  IInv'
  <1> USE DEF IInv
  <1> DEFINE p == req[r].profile
             k == req[r].crid
             x == NewCustomer(p, k)
  <1>1. /\ req[r].op = "create" /\ schema = "queried"
        /\ req' = [req EXCEPT ![r] = Idle]
        /\ UNCHANGED <<schema, merges, owner, address, lapsed, stale, begun>>
    BY DEF InsertCustomer, Done
  <1>2. \/ UNCHANGED <<cust, logged>>
        \/ /\ c \notin DOMAIN cust /\ EmailFree(c, p)
           /\ k # None => \A d \in DOMAIN cust : cust[d].crid # k
           /\ cust' = [d \in DOMAIN cust \cup {c} |-> IF d = c THEN x ELSE cust[d]]
           /\ logged' = [d \in DOMAIN cust \cup {c} |-> IF d = c THEN NewLog(p) ELSE logged[d]]
    BY DEF InsertCustomer
  <1>3. x \in CustomerRows /\ x.profile = p /\ x.crid = k /\ x.state = "active" /\ x.into = None
        /\ p \in Profiles /\ NewLog(p) \in Logs
    BY <1>1 DEF RequestsOK, OpenRequests, Idle, NewCustomer, CustomerRows, StateSet, NewLog, Logs
  <1> HIDE DEF x
  <1>4. CASE UNCHANGED <<cust, logged>>
    <2>1. CustTypeOK' /\ RowsOK'
      BY <1>1, <1>4 DEF CustTypeOK, MeetsChecks, EmailFree, DefaultFree, RowsOK
    <2>2. RequestsOK' /\ MergesApart'
      BY <1>1, <1>4 DEF RequestsOK, ReadsHold, OpenRequests, Idle, MergesApart
    <2>3. MergedOnce' /\ ErasedStaysErased' /\ LogTellsTheProfile'
      BY <1>1, <1>4 DEF MergedOnce, ErasedStaysErased, LogTellsTheProfile
    <2>4. QED
      BY <2>1, <2>2, <2>3
  <1>5. CASE cust' = [d \in DOMAIN cust \cup {c} |-> IF d = c THEN x ELSE cust[d]]
             /\ ~UNCHANGED <<cust, logged>>
    <2>1. /\ DOMAIN cust' = DOMAIN cust \cup {c} /\ c \notin DOMAIN cust
          /\ cust'[c] = x /\ \A d \in DOMAIN cust : d # c /\ cust'[d] = cust[d]
          /\ DOMAIN logged' = DOMAIN cust' /\ logged'[c] = NewLog(p)
          /\ \A d \in DOMAIN cust : logged'[d] = logged[d]
      BY <1>2, <1>5
    <2>2. \A d \in DOMAIN cust' : (MeetsChecks(cust[d].profile) /\ EmailFree(d, cust[d].profile))'
      <3>1. \A d \in DOMAIN cust : EmailFree(d, cust[d].profile)
        BY DEF CustTypeOK
      <3>2. EmailFree(c, p)
        BY <1>2, <1>5
      <3>3. \A d \in DOMAIN cust' : MeetsChecks(cust[d].profile)'
        BY <1>1 DEF MeetsChecks
      <3>4. ASSUME NEW d \in DOMAIN cust', NEW e \in DOMAIN cust' \ {d},
                   cust'[d].profile.contact # None
            PROVE  cust'[e].profile.contact # cust'[d].profile.contact
        <4>1. CASE d = c
          BY <1>3, <2>1, <3>2, <3>4, <4>1 DEF EmailFree
        <4>2. CASE e = c
          BY <1>3, <2>1, <3>2, <3>4, <4>2 DEF EmailFree
        <4>3. CASE d # c /\ e # c
          BY <2>1, <3>1, <3>4, <4>3 DEF EmailFree
        <4>4. QED
          BY <4>1, <4>2, <4>3
      <3>5. QED
        BY <3>3, <3>4 DEF EmailFree
    <2>3. \A d \in DOMAIN cust' : \A e \in DOMAIN cust' \ {d} :
            cust'[d].crid # None => cust'[e].crid # cust'[d].crid
      BY <1>2, <1>3, <1>5, <2>1 DEF CustTypeOK
    <2>4. /\ \A d \in DOMAIN cust' : cust'[d] \in CustomerRows
          /\ \A d \in DOMAIN cust' : /\ cust'[d].into \in DOMAIN cust' \cup {None}
                                     /\ cust'[d].state = "merged" => cust'[d].into # None
          /\ \A d \in DOMAIN logged' : logged'[d] \in Logs
      BY <1>3, <2>1 DEF RowsOK, CustTypeOK
    <2>5. CustTypeOK'
      <3>1. DOMAIN cust' \subseteq Customers /\ merges' \subseteq (DOMAIN cust') \X (DOMAIN cust')
            /\ lapsed' \subseteq DOMAIN cust' /\ stale' \subseteq DOMAIN cust'
            /\ \A y \in DOMAIN Bought : owner'[y] \in DOMAIN cust'
        BY <1>1, <2>1 DEF CustTypeOK
      <3>2. QED
        BY <1>1, <2>1, <2>2, <2>3, <2>4, <3>1 DEF CustTypeOK, CustomerRows, StateSet, DefaultFree
    <2>6. RowsOK'
      BY <1>1, <2>4 DEF RowsOK
    <2>7. RequestsOK' /\ MergesApart'
      BY <1>1, <2>1 DEF RequestsOK, ReadsHold, OpenRequests, Idle, MergesApart
    <2>8. MergedOnce'
      <3>1. {m \in merges : m[2] = c} = {}
        BY <2>1 DEF CustTypeOK
      <3>2. QED
        BY <1>1, <1>3, <2>1, <3>1 DEF MergedOnce
    <2>9. ErasedStaysErased' /\ LogTellsTheProfile'
      BY <1>1, <1>3, <2>1 DEF ErasedStaysErased, LogTellsTheProfile, Tells, NewLog, CustTypeOK
    <2>10. QED
      BY <2>5, <2>6, <2>7, <2>8, <2>9
  <1>6. QED
    BY <1>2, <1>4, <1>5

\* A change of state leaves profile and links as they are, and never erases.
LEMMA SetStateStep ==
  ASSUME IInv, NEW r \in Requests, SetState(r)
  PROVE  IInv'
  <1> USE DEF IInv
  <1> DEFINE c == req[r].of
             new == req[r].new
             x == [cust[c] EXCEPT !.state = new, !.version = @ + 1]
  <1>1. /\ req[r].op = "state" /\ cust' = [cust EXCEPT ![c] = x]
        /\ req' = [req EXCEPT ![r] = Idle]
        /\ UNCHANGED <<schema, merges, logged, owner, address, lapsed, stale, begun>>
    BY DEF SetState, Done
  <1>2. c \in DOMAIN cust /\ new \in {"active", "inactive"}
    BY <1>1 DEF RequestsOK, ReadsHold, OpenRequests, Idle
  <1>3. /\ cust[c] \in CustomerRows /\ x \in CustomerRows
        /\ x.version = cust[c].version + 1 /\ x.crid = cust[c].crid
        /\ x.profile = cust[c].profile /\ x.state = new /\ x.into = cust[c].into
    <2>1. cust[c] \in CustomerRows
      BY <1>2 DEF RowsOK
    <2>2. cust[c].version + 1 \in Nat \ {0}
      BY <2>1 DEF CustomerRows
    <2>3. QED
      BY <1>2, <2>1, <2>2 DEF CustomerRows, StateSet
  <1> HIDE DEF x
  <1>4. /\ DOMAIN cust' = DOMAIN cust
        /\ cust'[c] = x /\ \A d \in DOMAIN cust \ {c} : cust'[d] = cust[d]
        /\ \A d \in DOMAIN cust' : cust'[d] \in CustomerRows
        /\ \A d \in DOMAIN cust' :
              /\ (MeetsChecks(cust[d].profile) /\ EmailFree(d, cust[d].profile))'
              /\ cust'[d].into \in DOMAIN cust' \cup {None}
              /\ cust'[d].state = "merged" => cust'[d].into # None
              /\ \A e \in DOMAIN cust' \ {d} :
                   cust'[d].crid # None => cust'[e].crid # cust'[d].crid
        /\ RequestsOK'
    <2>1. /\ x.into \in DOMAIN cust \cup {None} /\ (x.state = "merged" => x.into # None)
          /\ MeetsChecks(x.profile) /\ EmailFree(c, x.profile)
      BY <1>2, <1>3 DEF CustTypeOK
    <2>2. QED
      BY <1>1, <1>2, <1>3, <2>1, RewriteRow
  <1>5. CustTypeOK'
    BY <1>1, <1>4 DEF CustTypeOK, CustomerRows, StateSet, DefaultFree
  <1>6. RowsOK' /\ MergesApart'
    BY <1>1, <1>4 DEF RowsOK, MergesApart, RequestsOK, Idle
  <1>7. MergedOnce'
    BY <1>1, <1>3, <1>4 DEF MergedOnce
  <1>8. ErasedStaysErased' /\ LogTellsTheProfile'
    BY <1>1, <1>2, <1>3, <1>4 DEF ErasedStaysErased, LogTellsTheProfile
  <1>9. QED
    BY <1>4, <1>5, <1>6, <1>7, <1>8

\* Anonymization leaves NULL in the profile, and from then on the log is silent.
LEMMA AnonymizeStep ==
  ASSUME IInv, NEW r \in Requests, Anonymize(r)
  PROVE  IInv'
  <1> USE DEF IInv
  <1> DEFINE c == req[r].of
             blank == [contact |-> None, tax |-> None]
             x == [cust[c] EXCEPT !.profile = blank, !.state = "anonymized", !.version = @ + 1]
  <1>1. /\ req[r].op = "anonymize" /\ cust' = [cust EXCEPT ![c] = x] /\ MeetsChecks(blank)
        /\ logged' = [logged EXCEPT ![c].anonymized = TRUE]
        /\ req' = [req EXCEPT ![r] = Idle]
        /\ UNCHANGED <<schema, merges, owner, address, lapsed, stale, begun>>
    BY DEF Anonymize, Done
  <1>2. c \in DOMAIN cust /\ blank \in Profiles /\ blank.contact = None
    BY <1>1 DEF RequestsOK, ReadsHold, OpenRequests, Idle, Profiles
  <1>3. /\ cust[c] \in CustomerRows /\ x \in CustomerRows
        /\ x.version = cust[c].version + 1 /\ x.crid = cust[c].crid
        /\ x.profile = blank /\ x.state = "anonymized" /\ x.into = cust[c].into
    <2>1. cust[c] \in CustomerRows
      BY <1>2 DEF RowsOK
    <2>2. cust[c].version + 1 \in Nat \ {0}
      BY <2>1 DEF CustomerRows
    <2>3. QED
      BY <1>2, <2>1, <2>2 DEF CustomerRows, StateSet
  <1> HIDE DEF x
  <1>4. /\ DOMAIN cust' = DOMAIN cust
        /\ cust'[c] = x /\ \A d \in DOMAIN cust \ {c} : cust'[d] = cust[d]
        /\ \A d \in DOMAIN cust' : cust'[d] \in CustomerRows
        /\ \A d \in DOMAIN cust' :
              /\ (MeetsChecks(cust[d].profile) /\ EmailFree(d, cust[d].profile))'
              /\ cust'[d].into \in DOMAIN cust' \cup {None}
              /\ cust'[d].state = "merged" => cust'[d].into # None
              /\ \A e \in DOMAIN cust' \ {d} :
                   cust'[d].crid # None => cust'[e].crid # cust'[d].crid
        /\ RequestsOK'
    <2>1. /\ x.into \in DOMAIN cust \cup {None} /\ (x.state = "merged" => x.into # None)
          /\ MeetsChecks(x.profile) /\ EmailFree(c, x.profile)
      BY <1>1, <1>2, <1>3 DEF CustTypeOK, EmailFree
    <2>2. QED
      BY <1>1, <1>2, <1>3, <2>1, RewriteRow
  <1>5. /\ DOMAIN logged' = DOMAIN cust' /\ logged'[c] \in Logs /\ logged'[c].anonymized
        /\ \A d \in DOMAIN cust \ {c} : logged'[d] = logged[d]
    <2>1. DOMAIN logged = DOMAIN cust /\ logged[c] \in Logs
      BY <1>2 DEF CustTypeOK
    <2>2. logged'[c] = [logged[c] EXCEPT !.anonymized = TRUE]
      BY <1>1, <1>2, <2>1
    <2>3. logged'[c] \in Logs /\ logged'[c].anonymized
      BY <2>1, <2>2 DEF Logs
    <2>4. QED
      BY <1>1, <1>4, <2>1, <2>3
  <1>6. CustTypeOK'
    <2>1. \A d \in DOMAIN logged' : logged'[d] \in Logs
      BY <1>2, <1>4, <1>5 DEF CustTypeOK
    <2>2. \A d \in DOMAIN cust' :
            /\ cust'[d].profile \in Profiles
            /\ cust'[d].state \in {"active", "inactive", "merged", "anonymized"}
            /\ cust'[d].version \in Nat \ {0} /\ cust'[d].crid \in Crids \cup {None}
      BY <1>4 DEF CustomerRows, StateSet
    <2>3. \A d \in DOMAIN address' :
            address'[d] \in AddressRows /\ DefaultFree(d, address[d], {})'
      BY <1>1 DEF CustTypeOK, DefaultFree
    <2>4. /\ DOMAIN cust' \subseteq Customers
          /\ merges' \subseteq (DOMAIN cust') \X (DOMAIN cust')
          /\ \A y \in DOMAIN Bought : owner'[y] \in DOMAIN cust'
          /\ DOMAIN address' \subseteq Addresses
          /\ lapsed' \subseteq DOMAIN cust' /\ stale' \subseteq DOMAIN cust'
          /\ schema' \in Schemas /\ begun' \in 0..MaxRequests
      BY <1>1, <1>4 DEF CustTypeOK
    <2>5. QED
      BY <1>4, <1>5, <2>1, <2>2, <2>3, <2>4 DEF CustTypeOK
  <1>7. RowsOK' /\ MergesApart'
    BY <1>1, <1>4 DEF RowsOK, MergesApart, RequestsOK, Idle
  <1>8. MergedOnce'
    BY <1>1, <1>3, <1>4 DEF MergedOnce
  <1>9. ErasedStaysErased' /\ LogTellsTheProfile'
    BY <1>1, <1>3, <1>4, <1>5 DEF ErasedStaysErased, LogTellsTheProfile
  <1>10. QED
    BY <1>4, <1>6, <1>7, <1>8, <1>9

\* The index lets one merge of a customer through: who gets here finds no other.
LEMMA RewriteReturnsStep ==
  ASSUME IInv, NEW r \in Requests, RewriteReturns(r)
  PROVE  IInv'
  <1> USE DEF IInv
  <1> DEFINE q == [op |-> "rewrite", survivor |-> req[r].survivor, away |-> req[r].away,
                   seen |-> req[r].seen,
                   moving |-> {y \in DOMAIN owner : owner[y] = req[r].away}]
  <1>1. /\ req[r].op = "merge" /\ req' = [req EXCEPT ![r] = q]
        /\ \A m \in merges : m[2] # req[r].away
        /\ \A o \in Requests : req[o].op = "rewrite" => req[o].away # req[r].away
        /\ UNCHANGED <<schema, cust, merges, logged, owner, address, lapsed, stale, begun>>
    BY DEF RewriteReturns, MergeFree
  <1>2. /\ q \in OpenRequests /\ ReadsHold(q)
        /\ q.op = "rewrite" /\ q.away = req[r].away
    BY <1>1 DEF RequestsOK, OpenRequests, ReadsHold, Idle, RowsOK
  <1> HIDE DEF q
  <1>3. req'[r] = q /\ \A o \in Requests \ {r} : req'[o] = req[o]
    BY <1>1 DEF RequestsOK
  <1>4. CustTypeOK' /\ RowsOK'
    BY <1>1 DEF CustTypeOK, MeetsChecks, EmailFree, DefaultFree, RowsOK
  <1>5. RequestsOK'
    BY <1>1, <1>2, <1>3 DEF RequestsOK, ReadsHold
  <1>6. MergesApart'
    BY <1>1, <1>2, <1>3 DEF MergesApart
  <1>7. MergedOnce' /\ ErasedStaysErased' /\ LogTellsTheProfile'
    BY <1>1 DEF MergedOnce, ErasedStaysErased, LogTellsTheProfile
  <1>8. QED
    BY <1>4, <1>5, <1>6, <1>7

\* The end of a merge: its record and the link it sets appear together.
LEMMA MergeStep ==
  ASSUME IInv, NEW r \in Requests, Merge(r)
  PROVE  IInv'
  <1> USE DEF IInv
  <1> DEFINE s == req[r].survivor
             a == req[r].away
             x == [cust[a] EXCEPT !.state = "merged", !.into = s, !.version = @ + 1]
  <1>1. /\ req[r].op = "rewrite" /\ merges' = merges \cup {<<s, a>>}
        /\ owner' = [y \in DOMAIN owner |-> IF y \in req[r].moving THEN s ELSE owner[y]]
        /\ cust' = [cust EXCEPT ![a] = x]
        /\ lapsed' = lapsed \cup (IF Overlapped(r) THEN {s, a} ELSE {})
        /\ req' = [req EXCEPT ![r] = Idle]
        /\ UNCHANGED <<schema, logged, address, stale, begun>>
    BY DEF Merge, Done
  <1>2. /\ s \in DOMAIN cust /\ a \in DOMAIN cust /\ s # None
        /\ \A m \in merges : m[2] # a
    BY <1>1, CustomersAssumption
       DEF RequestsOK, ReadsHold, OpenRequests, Idle, MergesApart, CustTypeOK
  <1>3. /\ cust[a] \in CustomerRows /\ x \in CustomerRows
        /\ x.version = cust[a].version + 1 /\ x.crid = cust[a].crid
        /\ x.profile = cust[a].profile /\ x.state = "merged" /\ x.into = s
    <2>1. cust[a] \in CustomerRows /\ s \in Customers
      BY <1>2 DEF RowsOK, CustTypeOK
    <2>2. cust[a].version + 1 \in Nat \ {0}
      BY <2>1 DEF CustomerRows
    <2>3. QED
      BY <1>2, <2>1, <2>2 DEF CustomerRows, StateSet
  <1> HIDE DEF x
  <1>4. /\ DOMAIN cust' = DOMAIN cust
        /\ cust'[a] = x /\ \A d \in DOMAIN cust \ {a} : cust'[d] = cust[d]
        /\ \A d \in DOMAIN cust' : cust'[d] \in CustomerRows
        /\ \A d \in DOMAIN cust' :
              /\ (MeetsChecks(cust[d].profile) /\ EmailFree(d, cust[d].profile))'
              /\ cust'[d].into \in DOMAIN cust' \cup {None}
              /\ cust'[d].state = "merged" => cust'[d].into # None
              /\ \A e \in DOMAIN cust' \ {d} :
                   cust'[d].crid # None => cust'[e].crid # cust'[d].crid
        /\ RequestsOK'
    <2>1. /\ x.into \in DOMAIN cust \cup {None} /\ (x.state = "merged" => x.into # None)
          /\ MeetsChecks(x.profile) /\ EmailFree(a, x.profile)
      BY <1>1, <1>2, <1>3 DEF CustTypeOK
    <2>2. QED
      BY <1>1, <1>2, <1>3, <2>1, RewriteRow
  <1>5. CustTypeOK'
    <2>1. \A y \in DOMAIN Bought : owner'[y] \in DOMAIN cust'
      BY <1>1, <1>2, <1>4 DEF CustTypeOK, RowsOK
    <2>2. merges' \subseteq (DOMAIN cust') \X (DOMAIN cust') /\ lapsed' \subseteq DOMAIN cust'
      BY <1>1, <1>2, <1>4 DEF CustTypeOK
    <2>3. QED
      BY <1>1, <1>4, <2>1, <2>2 DEF CustTypeOK, CustomerRows, StateSet, DefaultFree
  <1>6. RowsOK'
    BY <1>1, <1>4 DEF RowsOK
  <1>7. MergesApart'
    <2>1. ASSUME NEW q \in Requests, req'[q].op = "rewrite"
          PROVE  q # r /\ req'[q] = req[q] /\ req[q].away # a
      BY <1>1, <2>1 DEF RequestsOK, Idle, MergesApart
    <2>2. QED
      BY <1>1, <2>1 DEF MergesApart
  <1>8. MergedOnce'
    <2> SUFFICES ASSUME NEW c \in DOMAIN cust
                 PROVE  {m \in merges' : m[2] = c}
                          = IF cust'[c].into = None THEN {} ELSE {<<cust'[c].into, c>>}
      BY <1>4 DEF MergedOnce
    <2>1. CASE c = a
      <3>1. {m \in merges' : m[2] = a} = {<<s, a>>}
        BY <1>1, <1>2
      <3>2. QED
        BY <1>2, <1>3, <1>4, <2>1, <3>1
    <2>2. CASE c # a
      <3>1. {m \in merges' : m[2] = c} = {m \in merges : m[2] = c}
        BY <1>1, <2>2
      <3>2. QED
        BY <1>4, <2>2, <3>1 DEF MergedOnce
    <2>3. QED
      BY <2>1, <2>2
  <1>9. ErasedStaysErased' /\ LogTellsTheProfile'
    BY <1>1, <1>3, <1>4 DEF ErasedStaysErased, LogTellsTheProfile
  <1>10. QED
    BY <1>4, <1>5, <1>6, <1>7, <1>8, <1>9

-----------------------------------------------------------------------------
(* Addresses. *)

\* Steps that change addresses at most.
LEMMA AddressKeeps ==
  ASSUME IInv, NEW r \in Requests, req' = req \/ req' = [req EXCEPT ![r] = Idle],
         DOMAIN address' \subseteq Addresses,
         \A d \in DOMAIN address' : (address[d] \in AddressRows /\ DefaultFree(d, address[d], {}))',
         UNCHANGED <<schema, cust, merges, logged, owner, lapsed, stale, begun>>
  PROVE  IInv'
  <1> USE DEF IInv
  <1>1. CustTypeOK' /\ RowsOK'
    BY DEF CustTypeOK, MeetsChecks, EmailFree, RowsOK
  <1>2. RequestsOK'
    <2>1. Idle \in OpenRequests /\ ReadsHold(Idle)
      BY DEF OpenRequests, ReadsHold, Idle
    <2>2. QED
      BY <2>1 DEF RequestsOK, ReadsHold
  <1>3. MergesApart'
    BY DEF MergesApart, RequestsOK, Idle
  <1>4. MergedOnce' /\ ErasedStaysErased' /\ LogTellsTheProfile'
    BY DEF MergedOnce, ErasedStaysErased, LogTellsTheProfile
  <1>5. QED
    BY <1>1, <1>2, <1>3, <1>4

\* The row put is the only default of its kind but for those cleared with it.
LEMMA PutAddressStep ==
  ASSUME IInv, NEW r \in Requests, PutAddress(r)
  PROVE  IInv'
  <1> USE DEF IInv
  <1> DEFINE q == req[r]
             D == (DOMAIN address \cup {q.id}) \ (IF q.isNew THEN {} ELSE {q.id} \ DOMAIN address)
  <1>1. /\ q.op = "address"
        /\ q.id \in D => DefaultFree(q.id, q.row, q.cleared)
        /\ address' = [d \in D |-> IF d = q.id THEN q.row
                                   ELSE IF d \in q.cleared
                                        THEN [address[d] EXCEPT !.default = FALSE]
                                        ELSE address[d]]
        /\ req' = [req EXCEPT ![r] = Idle]
        /\ UNCHANGED <<schema, cust, merges, logged, owner, lapsed, stale, begun>>
    BY DEF PutAddress, Done
  <1>2. q.id \in Addresses /\ q.row \in AddressRows
    BY <1>1 DEF RequestsOK, OpenRequests, Idle
  <1>3. DOMAIN address' = D /\ D \subseteq DOMAIN address \cup {q.id}
    BY <1>1
  <1>4. \A d \in D \ {q.id} :
          /\ d \in DOMAIN address /\ address[d] \in AddressRows
          /\ d \notin q.cleared => address'[d] = address[d]
          /\ d \in q.cleared => address'[d] = [address[d] EXCEPT !.default = FALSE]
    BY <1>1, <1>3 DEF CustTypeOK
  <1>5. q.id \in D => address'[q.id] = q.row
    BY <1>1
  <1> HIDE DEF D
  <1>6. \A d \in D : address'[d] \in AddressRows
    BY <1>2, <1>4, <1>5 DEF AddressRows
  <1>7. \A d \in D \ {q.id} : address'[d].default => d \notin q.cleared
    BY <1>4 DEF AddressRows
  <1>8. ASSUME NEW d \in D, NEW e \in D \ {d}, address'[d].default, address'[e].default,
               address'[e].of = address'[d].of, address'[e].kind = address'[d].kind
        PROVE  FALSE
    <2>1. CASE d = q.id
      BY <1>1, <1>4, <1>5, <1>7, <1>8, <2>1 DEF DefaultFree
    <2>2. CASE e = q.id
      BY <1>1, <1>4, <1>5, <1>7, <1>8, <2>2 DEF DefaultFree
    <2>3. CASE d # q.id /\ e # q.id
      BY <1>4, <1>7, <1>8, <2>3 DEF DefaultFree, CustTypeOK
    <2>4. QED
      BY <2>1, <2>2, <2>3
  <1>9. \A d \in DOMAIN address' : DefaultFree(d, address[d], {})'
    BY <1>3, <1>8 DEF DefaultFree
  <1>10. QED
    BY <1>1, <1>2, <1>3, <1>6, <1>9, AddressKeeps DEF CustTypeOK

\* An address less breaks no constraint.
LEMMA DeleteAddressStep ==
  ASSUME IInv, NEW d \in Addresses, DeleteAddress(d)
  PROVE  IInv'
  <1> USE DEF IInv
  <1>1. /\ address' = [e \in DOMAIN address \ {d} |-> address[e]]
        /\ UNCHANGED <<schema, cust, merges, logged, owner, req, lapsed, stale, begun>>
    BY DEF DeleteAddress
  <1>2. CustTypeOK' /\ RowsOK'
    BY <1>1 DEF CustTypeOK, MeetsChecks, EmailFree, DefaultFree, RowsOK
  <1>3. RequestsOK' /\ MergesApart'
    BY <1>1 DEF RequestsOK, ReadsHold, MergesApart
  <1>4. MergedOnce' /\ ErasedStaysErased' /\ LogTellsTheProfile'
    BY <1>1 DEF MergedOnce, ErasedStaysErased, LogTellsTheProfile
  <1>5. QED
    BY <1>2, <1>3, <1>4

\* A request rolled back has written nothing.
LEMMA AbortStep ==
  ASSUME IInv, NEW r \in Requests, Abort(r)
  PROVE  IInv'
  <1>1. \A d \in DOMAIN address' :
           (address[d] \in AddressRows /\ DefaultFree(d, address[d], {}))'
    BY DEF Abort, IInv, CustTypeOK, DefaultFree
  <1>2. QED
    BY <1>1, AddressKeeps DEF Abort, Done, IInv, CustTypeOK

-----------------------------------------------------------------------------
\* Every step keeps the invariant.
LEMMA NextStep == IInv /\ [Next]_vars => IInv'
  <1> SUFFICES ASSUME IInv, [Next]_vars PROVE IInv'
    OBVIOUS
  <1>1. ASSUME NEW r \in Requests, Writes(r) \/ Lifecycle(r) \/ Merging(r) \/ Abort(r)
        PROVE  IInv'
    <2>1. CASE Writes(r)
      <3>1. \A v \in 1..MaxRequests : v \in Nat
        BY CustomersAssumption
      <3>2. QED
        BY <2>1, <3>1, BeginCreateStep, BeginUpdateStep, InsertCustomerStep, UpdateStep DEF Writes
    <2>2. CASE Lifecycle(r)
      BY <2>2, BeginLifecycleStep, SetStateStep, AnonymizeStep DEF Lifecycle
    <2>3. CASE Merging(r)
      BY <2>3, BeginMergeStep, RewriteReturnsStep, MergeStep DEF Merging
    <2>4. QED
      BY <1>1, <2>1, <2>2, <2>3, AbortStep
  <1>2. CASE UNCHANGED vars
    <2> USE DEF IInv, vars
    <2>1. CustTypeOK' /\ RowsOK'
      BY <1>2 DEF CustTypeOK, MeetsChecks, EmailFree, DefaultFree, RowsOK
    <2>2. RequestsOK' /\ MergesApart'
      BY <1>2 DEF RequestsOK, ReadsHold, MergesApart
    <2>3. MergedOnce' /\ ErasedStaysErased' /\ LogTellsTheProfile'
      BY <1>2 DEF MergedOnce, ErasedStaysErased, LogTellsTheProfile
    <2>4. QED
      BY <2>1, <2>2, <2>3
  <1>3. QED
    BY <1>1, <1>2, BeginAddressStep, PutAddressStep, DeleteAddressStep DEF Next

-----------------------------------------------------------------------------
(* Where the returns of a merged customer are.  The way along merged_into is  *)
(* an operator of the table f, for the table before and after a step.        *)

LinkIn(f, C) == C \cup ({f[c].into : c \in C} \ {None})
ChainIn(f, c) == LinkIn(f, LinkIn(f, LinkIn(f, LinkIn(f, LinkIn(f, {c})))))

\* The exceptions of ReturnsFollowMerges for return x, with the table f and the
\* customers L that lapsed.
Excused(f, L, x) ==
  \/ ChainIn(f, Bought[x]) \cap L # {}
  \/ \E c \in ChainIn(f, Bought[x]) : f[c].into # None /\ f[c].state # "merged"
  \/ \E c \in ChainIn(f, Bought[x]) : f[c].into \notin ChainIn(f, Bought[x]) \cup {None}

Followed(f, L, o, x) ==
  Excused(f, L, x) \/ (o[x] \in ChainIn(f, Bought[x]) /\ f[o[x]].into = None)

\* A merge has read a survivor who was not merged; the returns it moves are those
\* of the customer it merges away, but for some that are excused.
KnowsIn(f, L, o, q) ==
  /\ q.op \in {"merge", "rewrite"} => q.survivor # q.away /\ q.seen[1] # "merged"
  /\ q.op = "rewrite" =>
       \A x \in DOMAIN Bought :
         /\ x \in q.moving => o[x] = q.away
         /\ x \notin q.moving /\ o[x] = q.away => Excused(f, L, x)

MergesKnow == \A r \in Requests : KnowsIn(cust, lapsed, owner, req[r])

\* No row of cust.customer is deleted.
SeededStay == DOMAIN Seeded \subseteq DOMAIN cust

MergeInv == ReturnsFollowMerges /\ MergesKnow /\ SeededStay

\* ReturnsFollowMerges return by return, of the state before a step.
LEMMA FollowedNow ==
  ASSUME RowsOK
  PROVE  ReturnsFollowMerges <=> \A x \in DOMAIN Bought : Followed(cust, lapsed, owner, x)
  <1>1. \A c : Chain(c) = ChainIn(cust, c)
    BY DEF Chain, ChainIn, Link, LinkIn
  <1>2. QED
    BY <1>1 DEF RowsOK, ReturnsFollowMerges, Followed, Excused

\* And of the state after it.
LEMMA FollowedNext ==
  ASSUME RowsOK', \A x \in DOMAIN Bought : Followed(cust', lapsed', owner', x)
  PROVE  ReturnsFollowMerges'
  <1>1. \A c : Chain(c)' = ChainIn(cust', c)
    BY DEF Chain, ChainIn, Link, LinkIn
  <1>2. QED
    BY <1>1 DEF RowsOK, ReturnsFollowMerges, Followed, Excused

\* The way of a customer of the table stays in it, and begins with the customer.
LEMMA ChainStays ==
  ASSUME NEW f, NEW D, NEW c \in D, \A d \in D : f[d].into \in D \cup {None}
  PROVE  c \in ChainIn(f, c) /\ ChainIn(f, c) \subseteq D
  <1>1. \A C \in SUBSET D : LinkIn(f, C) \in SUBSET D /\ C \subseteq LinkIn(f, C)
    BY DEF LinkIn
  <1>2. {c} \in SUBSET D
    OBVIOUS
  <1>3. QED
    BY <1>1, <1>2 DEF ChainIn

\* S has been followed as far as e: all others of S lead into S.
OpenAt(f, S, e) == e \in S /\ \A d \in S \ {e} : f[d].into \in S /\ f[d].into # None

\* One link further there is again one customer at most with no link followed.
LEMMA LinkOpen ==
  ASSUME NEW f, NEW S, NEW e, OpenAt(f, S, e)
  PROVE  \E d : OpenAt(f, LinkIn(f, S), d)
  <1>1. CASE f[e].into = None
    <2>1. LinkIn(f, S) = S
      BY <1>1 DEF LinkIn, OpenAt
    <2>2. QED
      BY <2>1
  <1>2. CASE f[e].into # None
    <2>1. LinkIn(f, S) = S \cup {f[e].into}
      BY <1>2 DEF LinkIn, OpenAt
    <2>2. OpenAt(f, LinkIn(f, S), f[e].into)
      BY <1>2, <2>1 DEF OpenAt
    <2>3. QED
      BY <2>2
  <1>3. QED
    BY <1>1, <1>2

\* On the whole way one customer at most has a link not followed.
LEMMA ChainOpen ==
  ASSUME NEW f, NEW c
  PROVE  \E e : OpenAt(f, ChainIn(f, c), e)
  <1>1. OpenAt(f, {c}, c)
    BY DEF OpenAt
  <1>2. \A S : (\E e : OpenAt(f, S, e)) => \E d : OpenAt(f, LinkIn(f, S), d)
    BY LinkOpen
  <1>3. QED
    BY <1>1, <1>2 DEF ChainIn

\* A way none of whose customers gets another link is what it was.
LEMMA ChainSame ==
  ASSUME NEW f, NEW g, NEW c, \A d \in ChainIn(f, c) : g[d].into = f[d].into
  PROVE  ChainIn(g, c) = ChainIn(f, c)
  <1>1. \A S : S \subseteq LinkIn(f, S)
    BY DEF LinkIn
  <1>2. \A S : S \subseteq ChainIn(f, c) => LinkIn(g, S) = LinkIn(f, S)
    BY DEF LinkIn
  <1> DEFINE S1 == LinkIn(f, {c})
             S2 == LinkIn(f, S1)
             S3 == LinkIn(f, S2)
             S4 == LinkIn(f, S3)
  <1>3. ChainIn(f, c) = LinkIn(f, S4)
    BY DEF ChainIn
  <1>4. /\ S4 \subseteq ChainIn(f, c) /\ S3 \subseteq ChainIn(f, c) /\ S2 \subseteq ChainIn(f, c)
        /\ S1 \subseteq ChainIn(f, c) /\ {c} \subseteq ChainIn(f, c)
    <2> HIDE DEF S1, S2, S3, S4
    <2>1. /\ S4 \subseteq ChainIn(f, c) /\ S3 \subseteq S4 /\ S2 \subseteq S3 /\ S1 \subseteq S2
          /\ {c} \subseteq S1
      BY <1>1, <1>3 DEF S1, S2, S3, S4
    <2>2. QED
      BY <2>1
  <1>5. /\ LinkIn(g, {c}) = S1 /\ LinkIn(g, S1) = S2 /\ LinkIn(g, S2) = S3
        /\ LinkIn(g, S3) = S4 /\ LinkIn(g, S4) = LinkIn(f, S4)
    BY <1>2, <1>4
  <1>6. ChainIn(g, c) = LinkIn(g, LinkIn(g, LinkIn(g, LinkIn(g, LinkIn(g, {c})))))
    BY DEF ChainIn
  <1>7. QED
    BY <1>3, <1>5, <1>6

\* A new link makes no way shorter.
LEMMA ChainGrows ==
  ASSUME NEW f, NEW g, NEW D, NEW c \in D,
         \A d \in D : f[d].into \in D \cup {None},
         \A d \in D : f[d].into # None => g[d].into = f[d].into
  PROVE  ChainIn(f, c) \subseteq ChainIn(g, c)
  <1>1. \A S \in SUBSET D : LinkIn(f, S) \in SUBSET D
    BY DEF LinkIn
  <1>2. \A S \in SUBSET D : \A T : S \subseteq T => LinkIn(f, S) \subseteq LinkIn(g, T)
    BY DEF LinkIn
  <1>3. {c} \in SUBSET D /\ {c} \subseteq {c}
    OBVIOUS
  <1>4. QED
    BY <1>1, <1>2, <1>3 DEF ChainIn

\* A new link to a customer without one adds that customer at most.
LEMMA ChainAdds ==
  ASSUME NEW f, NEW g, NEW D, NEW c \in D, NEW a, NEW s \in D,
         \A d \in D : g[d].into \in D \cup {None},
         \A d \in D \ {a} : g[d].into = f[d].into,
         g[a].into = s, f[s].into = None, s # a
  PROVE  ChainIn(g, c) \subseteq ChainIn(f, c) \cup {s}
  <1>1. \A T \in SUBSET D : LinkIn(g, T) \in SUBSET D
    BY DEF LinkIn
  <1>2. \A T \in SUBSET D : \A S :
          T \subseteq S \cup {s} => LinkIn(g, T) \subseteq LinkIn(f, S) \cup {s}
    BY DEF LinkIn
  <1>3. {c} \in SUBSET D /\ {c} \subseteq {c} \cup {s}
    OBVIOUS
  <1>4. QED
    BY <1>1, <1>2, <1>3 DEF ChainIn

\* What excuses a return excuses it for good, when links are only added and only
\* customers without one become merged.
LEMMA ExcusedLasts ==
  ASSUME NEW f, NEW g, NEW D, NEW L, NEW M, NEW x, Bought[x] \in D, L \subseteq M, None \notin D,
         \A d \in D : f[d].into \in D \cup {None},
         \A d \in D : f[d].into # None =>
           g[d].into = f[d].into /\ (g[d].state = "merged" => f[d].state = "merged"),
         Excused(f, L, x)
  PROVE  Excused(g, M, x)
  <1> DEFINE way == ChainIn(f, Bought[x])
  <1>1. way \subseteq D
    BY ChainStays
  <1>2. way \subseteq ChainIn(g, Bought[x])
    BY ChainGrows
  <1> HIDE DEF way
  <1>3. CASE way \cap L # {}
    BY <1>2, <1>3 DEF Excused
  <1>4. CASE \E c \in way : f[c].into # None /\ f[c].state # "merged"
    BY <1>1, <1>2, <1>4 DEF Excused
  <1>5. CASE \E c \in way : f[c].into \notin way \cup {None}
    <2>1. PICK c \in way : f[c].into \notin way \cup {None}
      BY <1>5
    <2>2. PICK e : OpenAt(f, way, e)
      BY ChainOpen DEF way
    <2>3. \A d \in way : f[d].into # None
      BY <2>1, <2>2 DEF OpenAt
    <2>4. \A d \in way : g[d].into = f[d].into
      BY <1>1, <2>3
    <2>5. ChainIn(g, Bought[x]) = way
      BY <2>4, ChainSame DEF way
    <2>6. QED
      BY <2>1, <2>4, <2>5 DEF Excused
  <1>6. QED
    BY <1>3, <1>4, <1>5 DEF Excused, way

-----------------------------------------------------------------------------
\* Steps that set no link and move no return: the merges that are open afterwards
\* were open before, or know what they have to.
LEMMA NoMergeStep ==
  ASSUME IInv, MergeInv, IInv', lapsed \subseteq lapsed', owner' = owner,
         DOMAIN cust \subseteq DOMAIN cust',
         \A d \in DOMAIN cust :
           /\ cust'[d].into = cust[d].into
           /\ cust'[d].state = "merged" => cust[d].state = "merged",
         \A r \in Requests : req'[r] = req[r] \/ KnowsIn(cust', lapsed', owner', req'[r])
  PROVE  MergeInv'
  <1> DEFINE D == DOMAIN cust
  <1>1. None \notin D /\ \A x \in DOMAIN Bought : Bought[x] \in D
    BY CustomersAssumption DEF IInv, CustTypeOK, MergeInv, SeededStay
  <1>2. RowsOK /\ RowsOK' /\ \A d \in D : cust[d].into \in D \cup {None}
    BY DEF IInv, CustTypeOK
  <1>3. \A d \in D : cust[d].into # None =>
          cust'[d].into = cust[d].into /\ (cust'[d].state = "merged" => cust[d].state = "merged")
    OBVIOUS
  <1> HIDE DEF D
  <1>4. ASSUME NEW x \in DOMAIN Bought, Excused(cust, lapsed, x)
        PROVE  Excused(cust', lapsed', x)
    BY <1>1, <1>2, <1>3, <1>4, ExcusedLasts
  <1>5. ASSUME NEW x \in DOMAIN Bought
        PROVE  Followed(cust', lapsed', owner', x)
    <2>1. CASE Excused(cust, lapsed, x)
      BY <1>4, <2>1 DEF Followed
    <2>2. CASE ~Excused(cust, lapsed, x)
      <3>1. owner[x] \in ChainIn(cust, Bought[x]) /\ cust[owner[x]].into = None
        BY <1>2, <2>2, FollowedNow DEF MergeInv, Followed
      <3>2. ChainIn(cust, Bought[x]) \subseteq D
        BY <1>1, <1>2, ChainStays
      <3>3. ChainIn(cust', Bought[x]) = ChainIn(cust, Bought[x])
        BY <3>2, ChainSame DEF D
      <3>4. QED
        BY <3>1, <3>2, <3>3 DEF Followed, D
    <2>3. QED
      BY <2>1, <2>2
  <1>6. ReturnsFollowMerges'
    BY <1>2, <1>5, FollowedNext
  <1>7. MergesKnow'
    <2>1. \A r \in Requests : KnowsIn(cust', lapsed', owner', req'[r])
      BY <1>4 DEF MergeInv, MergesKnow, KnowsIn
    <2>2. QED
      BY <2>1 DEF MergesKnow
  <1>8. SeededStay'
    BY DEF MergeInv, SeededStay
  <1>9. QED
    BY <1>6, <1>7, <1>8 DEF MergeInv

\* The UPDATE of the returns finds those of the customer merged away.
LEMMA RewriteKnows ==
  ASSUME IInv, MergeInv, NEW r \in Requests, RewriteReturns(r)
  PROVE  KnowsIn(cust, lapsed, owner, req'[r])
  <1> DEFINE q == [op |-> "rewrite", survivor |-> req[r].survivor, away |-> req[r].away,
                   seen |-> req[r].seen,
                   moving |-> {y \in DOMAIN owner : owner[y] = req[r].away}]
  <1>1. req[r].op = "merge" /\ req'[r] = q
    BY DEF RewriteReturns, IInv, RequestsOK
  <1>2. KnowsIn(cust, lapsed, owner, req[r]) /\ DOMAIN owner = DOMAIN Bought
    BY DEF MergeInv, MergesKnow, IInv, RowsOK
  <1>3. QED
    BY <1>1, <1>2 DEF KnowsIn

\* Links and returns before and after a merge.
LEMMA MergeMoves ==
  ASSUME IInv, MergeInv, NEW r \in Requests, Merge(r)
  PROVE  LET s == req[r].survivor
             a == req[r].away
         IN /\ req[r].op = "rewrite" /\ s \in DOMAIN cust /\ a \in DOMAIN cust /\ s # a
            /\ cust[a].into = None /\ cust'[a].into = s /\ cust'[a].state = "merged"
            /\ DOMAIN cust' = DOMAIN cust
            /\ \A d \in DOMAIN cust \ {a} : cust'[d] = cust[d]
            /\ DOMAIN owner = DOMAIN Bought
            /\ \A x \in DOMAIN Bought : owner'[x] = IF x \in req[r].moving THEN s ELSE owner[x]
            /\ lapsed \subseteq lapsed'
            /\ Overlapped(r) => s \in lapsed' /\ a \in lapsed'
            /\ ~Overlapped(r) => cust[s].state # "merged"
            /\ req'[r] = Idle /\ \A q \in Requests \ {r} : req'[q] = req[q]
  <1> DEFINE s == req[r].survivor
             a == req[r].away
  <1>1. /\ req[r].op = "rewrite"
        /\ owner' = [y \in DOMAIN owner |-> IF y \in req[r].moving THEN s ELSE owner[y]]
        /\ cust' = [cust EXCEPT ![a].state = "merged", ![a].into = s, ![a].version = @ + 1]
        /\ lapsed' = lapsed \cup (IF Overlapped(r) THEN {s, a} ELSE {})
        /\ req' = [req EXCEPT ![r] = Idle]
    BY DEF Merge, Done
  <1>2. /\ s \in DOMAIN cust /\ a \in DOMAIN cust /\ s # a /\ req[r].seen[1] # "merged"
        /\ DOMAIN owner = DOMAIN Bought /\ req \in [Requests -> OpenRequests]
        /\ cust[a] \in CustomerRows
    BY <1>1 DEF IInv, RequestsOK, ReadsHold, RowsOK, MergeInv, MergesKnow, KnowsIn
  <1>3. cust[a].into = None
    <2>1. {m \in merges : m[2] = a} = {}
      BY <1>1 DEF IInv, MergesApart
    <2>2. QED
      BY <1>2, <2>1 DEF IInv, MergedOnce
  <1>4. cust'[a].into = s /\ cust'[a].state = "merged"
    BY <1>1, <1>2 DEF CustomerRows
  <1>5. ~Overlapped(r) => cust[s].state # "merged"
    BY <1>2 DEF Overlapped, States
  <1>6. /\ \A x \in DOMAIN Bought : owner'[x] = IF x \in req[r].moving THEN s ELSE owner[x]
        /\ Overlapped(r) => s \in lapsed' /\ a \in lapsed'
        /\ req'[r] = Idle /\ \A q \in Requests \ {r} : req'[q] = req[q]
        /\ DOMAIN cust' = DOMAIN cust /\ lapsed \subseteq lapsed'
        /\ \A d \in DOMAIN cust \ {a} : cust'[d] = cust[d]
    BY <1>1, <1>2
  <1>7. QED
    BY <1>1, <1>2, <1>3, <1>4, <1>5, <1>6

\* A merge takes the returns along, or someone on their way has lapsed.
LEMMA MergeKeepsMergeInv ==
  ASSUME IInv, MergeInv, IInv', NEW r \in Requests, Merge(r)
  PROVE  MergeInv'
  <1> DEFINE D == DOMAIN cust
             s == req[r].survivor
             a == req[r].away
  <1>1. /\ req[r].op = "rewrite" /\ s \in D /\ a \in D /\ s # a
        /\ cust[a].into = None /\ cust'[a].into = s /\ cust'[a].state = "merged"
        /\ DOMAIN cust' = D /\ \A d \in D \ {a} : cust'[d] = cust[d]
        /\ DOMAIN owner = DOMAIN Bought
        /\ \A x \in DOMAIN Bought : owner'[x] = IF x \in req[r].moving THEN s ELSE owner[x]
        /\ lapsed \subseteq lapsed' /\ (Overlapped(r) => s \in lapsed' /\ a \in lapsed')
        /\ (~Overlapped(r) => cust[s].state # "merged")
        /\ req'[r] = Idle /\ \A q \in Requests \ {r} : req'[q] = req[q]
    BY MergeMoves
  <1>2. None \notin D /\ \A x \in DOMAIN Bought : Bought[x] \in D
    BY CustomersAssumption DEF IInv, CustTypeOK, MergeInv, SeededStay
  <1>3. /\ RowsOK /\ RowsOK' /\ \A d \in D : cust[d].into \in D \cup {None}
        /\ \A d \in D : cust'[d].into \in D \cup {None}
    BY <1>1 DEF IInv, CustTypeOK
  <1>4. \A d \in D : cust[d].into # None =>
          cust'[d].into = cust[d].into /\ (cust'[d].state = "merged" => cust[d].state = "merged")
    BY <1>1
  <1>5. \A x \in DOMAIN Bought :
          /\ x \in req[r].moving => owner[x] = a
          /\ x \notin req[r].moving /\ owner[x] = a => Excused(cust, lapsed, x)
    BY <1>1 DEF MergeInv, MergesKnow, KnowsIn
  <1> HIDE DEF D
  <1>6. ASSUME NEW x \in DOMAIN Bought, Excused(cust, lapsed, x)
        PROVE  Excused(cust', lapsed', x)
    BY <1>1, <1>2, <1>3, <1>4, <1>6, ExcusedLasts
  <1>7. ASSUME NEW x \in DOMAIN Bought, ~Excused(cust, lapsed, x)
        PROVE  owner[x] \in ChainIn(cust, Bought[x]) /\ cust[owner[x]].into = None
    BY <1>3, <1>7, FollowedNow DEF MergeInv, Followed
  <1>8. ASSUME NEW x \in DOMAIN Bought, ~Excused(cust, lapsed, x), a \notin ChainIn(cust, Bought[x])
        PROVE  Followed(cust', lapsed', owner', x)
    <2>1. ChainIn(cust, Bought[x]) \subseteq D
      BY <1>2, <1>3, ChainStays
    <2>2. ChainIn(cust', Bought[x]) = ChainIn(cust, Bought[x])
      BY <1>1, <1>8, <2>1, ChainSame
    <2>3. owner'[x] = owner[x] /\ owner[x] # a
      BY <1>1, <1>5, <1>7, <1>8
    <2>4. QED
      BY <1>1, <1>7, <1>8, <2>1, <2>2, <2>3 DEF Followed
  <1>9. ASSUME NEW x \in DOMAIN Bought, ~Excused(cust, lapsed, x), a \in ChainIn(cust, Bought[x]),
               ~Excused(cust', lapsed', x)
        PROVE  owner'[x] \in ChainIn(cust', Bought[x]) /\ cust'[owner'[x]].into = None
    <2> DEFINE way == ChainIn(cust, Bought[x])
               next == ChainIn(cust', Bought[x])
    <2>1. way \subseteq next /\ next \subseteq D
      BY <1>2, <1>3, <1>4, ChainGrows, ChainStays
    <2>2. owner[x] = a
      <3>1. PICK e : OpenAt(cust, way, e)
        BY ChainOpen
      <3>2. QED
        BY <1>1, <1>7, <1>9, <3>1 DEF OpenAt
    <2>3. x \in req[r].moving /\ owner'[x] = s
      BY <1>1, <1>5, <1>9, <2>2
    <2> HIDE DEF way, next
    <2>4. a \in next /\ s \in next
      BY <1>1, <1>2, <1>9, <2>1 DEF Excused, way, next
    <2>5. ~Overlapped(r)
      BY <1>1, <1>9, <2>4 DEF Excused, next
    <2>6. cust'[s].into = None
      BY <1>1, <1>9, <2>4, <2>5 DEF Excused, next
    <2>7. QED
      BY <2>3, <2>4, <2>6 DEF next
  <1>10. ReturnsFollowMerges'
    BY <1>3, <1>6, <1>8, <1>9, FollowedNext DEF Followed
  <1>11. ASSUME NEW q \in Requests PROVE KnowsIn(cust', lapsed', owner', req'[q])
    <2>1. CASE q = r
      BY <1>1, <2>1 DEF KnowsIn, Idle
    <2>2. CASE q # r
      <3>1. KnowsIn(cust, lapsed, owner, req[q]) /\ req'[q] = req[q]
        BY <1>1, <2>2 DEF MergeInv, MergesKnow
      <3>2. ASSUME NEW x \in DOMAIN Bought, req[q].op = "rewrite", x \in req[q].moving
            PROVE  owner'[x] = req[q].away
        <4>1. owner[x] = req[q].away /\ req[q].away # a
          BY <1>1, <2>2, <3>1, <3>2 DEF KnowsIn, IInv, MergesApart
        <4>2. QED
          BY <1>1, <1>5, <4>1
      <3>3. ASSUME NEW x \in DOMAIN Bought, req[q].op = "rewrite", x \notin req[q].moving,
                   owner'[x] = req[q].away
            PROVE  Excused(cust', lapsed', x)
        <4>1. CASE x \notin req[r].moving
          BY <1>1, <1>6, <3>1, <3>3, <4>1 DEF KnowsIn
        <4>2. CASE x \in req[r].moving /\ ~Excused(cust, lapsed, x)
          <5>1. owner'[x] = s /\ owner[x] = a
            BY <1>1, <1>5, <4>2
          <5>2. Overlapped(r)
            BY <2>2, <3>3, <5>1 DEF Overlapped
          <5>3. a \in ChainIn(cust, Bought[x])
            BY <1>7, <4>2, <5>1
          <5>4. ChainIn(cust, Bought[x]) \subseteq ChainIn(cust', Bought[x])
            BY <1>2, <1>3, <1>4, ChainGrows
          <5>5. QED
            BY <1>1, <5>2, <5>3, <5>4 DEF Excused
        <4>3. QED
          BY <1>6, <4>1, <4>2
      <3>4. QED
        BY <3>1, <3>2, <3>3 DEF KnowsIn
    <2>3. QED
      BY <2>1, <2>2
  <1>12. MergesKnow'
    BY <1>11 DEF MergesKnow
  <1>13. SeededStay'
    BY <1>1 DEF MergeInv, SeededStay, D
  <1>14. QED
    BY <1>10, <1>12, <1>13 DEF MergeInv

-----------------------------------------------------------------------------
\* To begin with nobody is merged, and every return is with its customer.
LEMMA InitMergeInv == Init => MergeInv
  <1> SUFFICES ASSUME Init PROVE MergeInv
    OBVIOUS
  <1>1. RowsOK
    BY InitIInv DEF IInv
  <1>2. /\ owner = Bought /\ req = [r \in Requests |-> Idle] /\ DOMAIN cust = DOMAIN Seeded
        /\ \A c \in DOMAIN cust : cust[c].into = None
    BY DEF Init, NewCustomer
  <1>3. \A x \in DOMAIN Bought : Bought[x] \in DOMAIN cust
    BY <1>2, CustomersAssumption
  <1>4. \A x \in DOMAIN Bought : Bought[x] \in ChainIn(cust, Bought[x])
    BY <1>2, <1>3, ChainStays
  <1>5. \A x \in DOMAIN Bought : Followed(cust, lapsed, owner, x)
    BY <1>2, <1>3, <1>4 DEF Followed
  <1>6. ReturnsFollowMerges
    BY <1>1, <1>5, FollowedNow
  <1>7. MergesKnow /\ SeededStay
    BY <1>2 DEF MergesKnow, KnowsIn, SeededStay, Idle
  <1>8. QED
    BY <1>6, <1>7 DEF MergeInv

\* The steps of requests other than a merge's last set no link.
LEMMA RequestsSetNoLink ==
  ASSUME IInv, MergeInv, IInv', NEW r \in Requests,
         Writes(r) \/ Lifecycle(r) \/ Abort(r) \/ RewriteReturns(r)
           \/ (\E s, a \in Customers : BeginMerge(r, s, a)) \/ PutAddress(r)
           \/ (\E d \in Addresses, row \in AddressRows : BeginAddress(r, d, row))
  PROVE  MergeInv'
  <1>1. /\ req \in [Requests -> OpenRequests] /\ KnowsIn(cust', lapsed', owner', Idle)
        /\ ReadsHold(req[r]) /\ \A c \in DOMAIN cust : cust[c] \in CustomerRows
    BY DEF IInv, RequestsOK, RowsOK, KnowsIn, Idle
  <1>2. ASSUME NEW q, Begin(r, q), KnowsIn(cust', lapsed', owner', q)
        PROVE  MergeInv'
    BY <1>1, <1>2, NoMergeStep DEF Begin
  <1>3. ASSUME NEW q, Begin(r, q), q.op \notin {"merge", "rewrite"}
        PROVE  MergeInv'
    BY <1>2, <1>3 DEF KnowsIn
  <1>4. ASSUME NEW p \in Profiles, NEW crid, NEW role, BeginCreate(r, crid, p, role)
        PROVE  MergeInv'
    BY <1>3, <1>4 DEF BeginCreate
  <1>5. ASSUME NEW p \in Profiles, NEW c, NEW v, NEW role, BeginUpdate(r, c, v, p, role)
        PROVE  MergeInv'
    BY <1>3, <1>5 DEF BeginUpdate
  <1>6. ASSUME NEW c \in Customers, InsertCustomer(r, c)
        PROVE  MergeInv'
    <2>1. /\ req' = [req EXCEPT ![r] = Idle] /\ owner' = owner /\ lapsed' = lapsed
          /\ \/ cust' = cust
             \/ cust' = [d \in DOMAIN cust \cup {c} |->
                           IF d = c THEN NewCustomer(req[r].profile, req[r].crid) ELSE cust[d]]
                /\ c \notin DOMAIN cust
      BY <1>6 DEF InsertCustomer, Done
    <2>2. DOMAIN cust \subseteq DOMAIN cust' /\ \A d \in DOMAIN cust : cust'[d] = cust[d]
      BY <2>1
    <2>3. QED
      BY <1>1, <2>1, <2>2, NoMergeStep
  <1>7. CASE Update(r)
    <2>1. /\ req' = [req EXCEPT ![r] = Idle] /\ owner' = owner /\ lapsed' = lapsed
          /\ cust' = [cust EXCEPT ![req[r].of].profile = req[r].profile, ![req[r].of].version = @ + 1]
      BY <1>7 DEF Update, Done
    <2>2. /\ DOMAIN cust' = DOMAIN cust
          /\ \A d \in DOMAIN cust : cust'[d].into = cust[d].into /\ cust'[d].state = cust[d].state
      BY <1>1, <2>1 DEF CustomerRows
    <2>3. QED
      BY <1>1, <2>1, <2>2, NoMergeStep
  <1>8. CASE SetState(r)
    <2>1. /\ req' = [req EXCEPT ![r] = Idle] /\ owner' = owner /\ lapsed' = lapsed
          /\ req[r].op = "state"
          /\ cust' = [cust EXCEPT ![req[r].of].state = req[r].new, ![req[r].of].version = @ + 1]
      BY <1>8 DEF SetState, Done
    <2>2. req[r].new # "merged"
      BY <1>1, <2>1 DEF OpenRequests, Idle
    <2>3. /\ DOMAIN cust' = DOMAIN cust
          /\ \A d \in DOMAIN cust :
               cust'[d].into = cust[d].into /\ (cust'[d].state = "merged" => cust[d].state = "merged")
      BY <1>1, <2>1, <2>2 DEF CustomerRows
    <2>4. QED
      BY <1>1, <2>1, <2>3, NoMergeStep
  <1>9. CASE Anonymize(r)
    <2>1. /\ req' = [req EXCEPT ![r] = Idle] /\ owner' = owner /\ lapsed' = lapsed
          /\ cust' = [cust EXCEPT ![req[r].of].profile = [contact |-> None, tax |-> None],
                                  ![req[r].of].state = "anonymized", ![req[r].of].version = @ + 1]
      BY <1>9 DEF Anonymize, Done
    <2>2. /\ DOMAIN cust' = DOMAIN cust
          /\ \A d \in DOMAIN cust :
               cust'[d].into = cust[d].into /\ (cust'[d].state = "merged" => cust[d].state = "merged")
      BY <1>1, <2>1 DEF CustomerRows
    <2>3. QED
      BY <1>1, <2>1, <2>2, NoMergeStep
  <1>10. CASE Abort(r) \/ PutAddress(r)
    <2>1. /\ req' = [req EXCEPT ![r] = Idle] /\ owner' = owner /\ lapsed' = lapsed /\ cust' = cust
      BY <1>10 DEF Abort, PutAddress, Done
    <2>2. QED
      BY <1>1, <2>1, NoMergeStep
  <1>11. CASE RewriteReturns(r)
    <2>1. KnowsIn(cust, lapsed, owner, req'[r])
      BY <1>11, RewriteKnows
    <2>2. /\ owner' = owner /\ lapsed' = lapsed /\ cust' = cust
          /\ \A q \in Requests \ {r} : req'[q] = req[q]
      BY <1>1, <1>11 DEF RewriteReturns
    <2>3. QED
      BY <2>1, <2>2, NoMergeStep
  <1>12. ASSUME NEW s \in Customers, NEW a \in Customers, BeginMerge(r, s, a)
         PROVE  MergeInv'
    <2> DEFINE q == [op |-> "merge", survivor |-> s, away |-> a, seen |-> States(s, a)]
    <2>1. Begin(r, q) /\ s # a /\ cust[s].state # "merged"
      BY <1>12 DEF BeginMerge
    <2>2. KnowsIn(cust', lapsed', owner', q)
      BY <2>1 DEF KnowsIn, States
    <2> HIDE DEF q
    <2>3. QED
      BY <1>2, <2>1, <2>2
  <1>13. ASSUME NEW d, NEW row, BeginAddress(r, d, row)
         PROVE  MergeInv'
    BY <1>3, <1>13 DEF BeginAddress
  <1>14. ASSUME NEW c, BeginSetState(r, c, "inactive") \/ BeginSetState(r, c, "active")
                         \/ BeginAnonymize(r, c)
         PROVE  MergeInv'
    BY <1>3, <1>14 DEF BeginSetState, BeginAnonymize
  <1>15. QED
    BY <1>4, <1>5, <1>6, <1>7, <1>8, <1>9, <1>10, <1>11, <1>12, <1>13, <1>14
       DEF Writes, Lifecycle

\* Every step keeps the invariant of the merges.
LEMMA NextMergeInv == IInv /\ MergeInv /\ [Next]_vars => MergeInv'
  <1> SUFFICES ASSUME IInv, MergeInv, [Next]_vars PROVE MergeInv'
    OBVIOUS
  <1>1. IInv'
    BY NextStep
  <1>2. ASSUME NEW r \in Requests, Merging(r) PROVE MergeInv'
    BY <1>1, <1>2, RequestsSetNoLink, MergeKeepsMergeInv DEF Merging
  <1>3. ASSUME UNCHANGED vars \/ \E d \in Addresses : DeleteAddress(d)
        PROVE  MergeInv'
    BY <1>1, <1>3, NoMergeStep DEF DeleteAddress, vars
  <1>4. QED
    BY <1>1, <1>2, <1>3, RequestsSetNoLink DEF Next

-----------------------------------------------------------------------------
(* The theorems. *)

\* The invariant the theorems rest on.
THEOREM InductiveInvariant == Spec => []IInv
  BY InitIInv, NextStep, PTL DEF Spec

\* The tables are well typed and their constraints hold, whatever is open at once:
\* e-mails and client_request_ids are unique, a customer has one default address
\* of a kind.
THEOREM TypeCorrect == Spec => []CustTypeOK
  <1>1. IInv => CustTypeOK
    BY DEF IInv
  <1>2. QED
    BY <1>1, InductiveInvariant, PTL

\* cust.merge and merged_into tell the same, and no customer is merged twice.
THEOREM MergesAreRecorded == Spec => []MergedOnce
  <1>1. IInv => MergedOnce
    BY DEF IInv
  <1>2. QED
    BY <1>1, InductiveInvariant, PTL

\* An update of the version it names is no update of an anonymized profile.
THEOREM ErasureLasts == Spec => []ErasedStaysErased
  <1>1. IInv => ErasedStaysErased
    BY DEF IInv
  <1>2. QED
    BY <1>1, InductiveInvariant, PTL

\* Updates of the version they name log every field they change, up to the end of
\* the profile's personal life: anonymization logs no field.
THEOREM LogIsComplete == Spec => []LogTellsTheProfile
  <1>1. IInv => LogTellsTheProfile
    BY DEF IInv
  <1>2. QED
    BY <1>1, InductiveInvariant, PTL

\* And the one the theorem about merges rests on.
THEOREM MergeInvariant == Spec => [](IInv /\ MergeInv)
  <1>1. Init => IInv /\ MergeInv
    BY InitIInv, InitMergeInv
  <1>2. IInv /\ MergeInv /\ [Next]_vars => (IInv /\ MergeInv)'
    BY NextStep, NextMergeInv
  <1>3. QED
    BY <1>1, <1>2, PTL DEF Spec

\* Whoever a customer has been merged into, and on, has the returns: merges that
\* do not overlap move all of them, and to a customer not merged away.
THEOREM ReturnsStayFound == Spec => []ReturnsFollowMerges
  <1>1. IInv /\ MergeInv => ReturnsFollowMerges
    BY DEF MergeInv
  <1>2. QED
    BY <1>1, MergeInvariant, PTL
=============================================================================
