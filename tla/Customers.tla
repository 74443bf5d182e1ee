------------------------------ MODULE Customers ------------------------------
(***************************************************************************)
(* Customer profiles, their merges and their addresses                     *)
(* (domain/customers/write_service.py, api/v1/customers.py and             *)
(* customer_addresses.py), for one tenant.                                 *)
(*                                                                         *)
(* No handler locks the row it reads: each reads and checks (a Begin       *)
(* action), and writes and commits later what then may be another row.     *)
(* A profile is reduced to what the handlers tell apart: a contact (the    *)
(* e-mail, unique), a sensitive field (tax_id), the state, the version and *)
(* merged_into.                                                            *)
(***************************************************************************)
EXTENDS Integers, FiniteSets

CONSTANTS Customers,
          Seeded,      \* a function: the profiles there are to begin with
          Requests,    \* bound: requests open at once
          Emails, TaxIds,
          Crids,       \* client_request_ids
          Bought,      \* a function: the customer of each ret.customer_return
          Addresses, Kinds,
          Schemas,     \* "migrated", "queried": see the README
          MaxRequests, \* bound: requests there are in all
          None         \* NULL

Profiles == [contact : Emails \cup {None}, tax : TaxIds \cup {None}]

ASSUME CustomersAssumption ==
  /\ None \notin Emails \cup TaxIds \cup Crids \cup Customers
  /\ \E C \in SUBSET Customers : Seeded \in [C -> Profiles]
  /\ \A c, d \in DOMAIN Seeded :
       Seeded[c].contact # None /\ (c # d => Seeded[c].contact # Seeded[d].contact)
  /\ \A x \in DOMAIN Bought : Bought[x] \in DOMAIN Seeded
  /\ Schemas \subseteq {"migrated", "queried"}
  /\ MaxRequests \in Nat

VARIABLES schema,
          cust,     \* cust.customer: a function on the ids that have a row
          merges,   \* cust.merge: pairs of survivor and merged away
          logged,   \* cust.profile_change: by customer, what its rows end with
          owner,    \* ret.customer_return.customer_id
          address,  \* cust.customer_address: a function on the ids that have a row
          req,      \* the open requests: what each has read
          lapsed,   \* customers of merges that overlapped (history)
          stale,    \* customers updated from a version no longer theirs (history)
          begun     \* how many requests there have been, for the bound

vars == <<schema, cust, merges, logged, owner, address, req, lapsed, stale, begun>>

-----------------------------------------------------------------------------
(* The tables. *)

\* A row of cust.customer as an INSERT makes it.
NewCustomer(p, crid) ==
  [profile |-> p, state |-> "active", into |-> None, version |-> 1, crid |-> crid]

\* A log without a row of a field: creation leaves one with the id, and no value.
\* `was` is the profile as created, which no row tells (history).
NewLog(p) == [was |-> p, contact |-> {}, tax |-> {}, anonymized |-> FALSE]

Logs == [was : Profiles, contact : SUBSET (Emails \cup {None}),
         tax : SUBSET (TaxIds \cup {None}), anonymized : BOOLEAN]

\* ck_customer_at_least_one_contact and ck_customer_minimal_name, which ask
\* every row, whatever its state, for what anonymization takes away.
MeetsChecks(p) == schema = "queried" \/ p.contact # None

\* uq_customer_tenant_email_lower.
EmailFree(c, p) ==
  p.contact = None \/ \A d \in DOMAIN cust \ {c} : cust[d].profile.contact # p.contact

\* uq_customer_address_default_per_kind, with the rows D no longer default.
DefaultFree(d, row, D) ==
  row.default => \A e \in DOMAIN address \ (D \cup {d}) :
                   ~(address[e].of = row.of /\ address[e].kind = row.kind /\ address[e].default)

AddressRows == [of : Customers, kind : Kinds, default : BOOLEAN]

Idle == [op |-> "idle"]

CustTypeOK ==
  /\ schema \in Schemas
  /\ DOMAIN cust \subseteq Customers
  /\ \A c \in DOMAIN cust :
       /\ cust[c].profile \in Profiles /\ MeetsChecks(cust[c].profile)
       /\ cust[c].state \in {"active", "inactive", "merged", "anonymized"}
       /\ cust[c].into \in DOMAIN cust \cup {None}
       /\ cust[c].state = "merged" => cust[c].into # None
       /\ cust[c].version \in Nat \ {0}
       /\ cust[c].crid \in Crids \cup {None}
       /\ EmailFree(c, cust[c].profile)
       /\ \A d \in DOMAIN cust \ {c} : cust[c].crid # None => cust[d].crid # cust[c].crid
  /\ merges \subseteq (DOMAIN cust) \X (DOMAIN cust)
  /\ DOMAIN logged = DOMAIN cust /\ \A c \in DOMAIN logged : logged[c] \in Logs
  /\ \A x \in DOMAIN Bought : owner[x] \in DOMAIN cust
  /\ DOMAIN address \subseteq Addresses
  /\ \A d \in DOMAIN address : address[d] \in AddressRows /\ DefaultFree(d, address[d], {})
  /\ lapsed \subseteq DOMAIN cust /\ stale \subseteq DOMAIN cust
  /\ begun \in 0..MaxRequests

Init ==
  /\ schema \in Schemas
  /\ cust = [c \in DOMAIN Seeded |-> NewCustomer(Seeded[c], None)]
  /\ merges = {}
  /\ logged = [c \in DOMAIN Seeded |-> NewLog(Seeded[c])]
  /\ owner = Bought
  /\ address = [d \in {} |-> None]
  /\ req = [r \in Requests |-> Idle]
  /\ lapsed = {} /\ stale = {}
  /\ begun = 0

-----------------------------------------------------------------------------
(* Creating and updating a profile. *)

\* _enforce_sensitive_rbac: a request without a tax_id may always clear one.
Allowed(role, p, prior) ==
  role = "Store Manager" \/ p.tax \in {None, prior}

Begin(r, request) ==
  /\ req[r] = Idle /\ begun < MaxRequests
  /\ req' = [req EXCEPT ![r] = request]
  /\ begun' = begun + 1
  /\ UNCHANGED <<schema, cust, merges, logged, owner, address, lapsed, stale>>

\* The end of a request that wrote nothing but what is said elsewhere.
Done(r) == req' = [req EXCEPT ![r] = Idle]

\* create_customer: a known client_request_id is answered with its customer.
BeginCreate(r, crid, p, role) ==
  /\ p.contact # None /\ Allowed(role, p, None)
  /\ crid # None => \A c \in DOMAIN cust : cust[c].crid # crid
  /\ Begin(r, [op |-> "create", crid |-> crid, profile |-> p])

\* The INSERT, whose ON CONFLICT names columns on which the migrations only
\* have a partial index: an error.  Where it does fit, the second of two
\* requests finds the first's row.
InsertCustomer(r, c) ==
  /\ req[r].op = "create" /\ schema = "queried"
  /\ LET known == {d \in DOMAIN cust : cust[d].crid = req[r].crid /\ req[r].crid # None}
         p == req[r].profile
     IN IF known # {}
        THEN c \in known /\ UNCHANGED <<cust, logged>>
        ELSE /\ c \notin DOMAIN cust /\ EmailFree(c, p)
             /\ cust' = [d \in DOMAIN cust \cup {c} |->
                           IF d = c THEN NewCustomer(p, req[r].crid) ELSE cust[d]]
             /\ logged' = [d \in DOMAIN cust \cup {c} |-> IF d = c THEN NewLog(p) ELSE logged[d]]
  /\ Done(r)
  /\ UNCHANGED <<schema, merges, owner, address, lapsed, stale, begun>>

\* Mutant: the state is not looked at.
BeginUpdate_AnyState(r, c, expected, p, role) ==
  /\ c \in DOMAIN cust
  /\ expected = cust[c].version
  /\ Allowed(role, p, cust[c].profile.tax)
  /\ p # cust[c].profile
  /\ Begin(r, [op |-> "update", of |-> c, profile |-> p, prior |-> cust[c].profile,
               expected |-> expected])

\* update_customer: If-Match against the version as read; nothing to change is
\* no request.
BeginUpdate(r, c, expected, p, role) ==
  /\ c \in DOMAIN cust
  /\ cust[c].state \notin {"merged", "anonymized"}
  /\ expected = cust[c].version
  /\ Allowed(role, p, cust[c].profile.tax)
  /\ p # cust[c].profile
  /\ Begin(r, [op |-> "update", of |-> c, profile |-> p, prior |-> cust[c].profile,
               expected |-> expected])

\* Mutant: the sensitive field is not among TRACKED_FIELDS.
Changed_NotTax(prior, p, log) ==
  [log EXCEPT !.contact = IF p.contact # prior.contact THEN {p.contact} ELSE @]

\* One change row per field that differs from the row as read.
Changed(prior, p, log) ==
  [log EXCEPT !.contact = IF p.contact # prior.contact THEN {p.contact} ELSE @,
              !.tax     = IF p.tax # prior.tax THEN {p.tax} ELSE @]

\* The UPDATE, by id alone, writes every field of the request.
Update(r) ==
  /\ req[r].op = "update"
  /\ LET c == req[r].of
         p == req[r].profile
     IN /\ MeetsChecks(p) /\ EmailFree(c, p)
        /\ cust' = [cust EXCEPT ![c].profile = p, ![c].version = @ + 1]
        /\ logged' = [logged EXCEPT ![c] = Changed(req[r].prior, p, @)]
        /\ stale' = stale \cup (IF cust[c].version # req[r].expected THEN {c} ELSE {})
  /\ Done(r)
  /\ UNCHANGED <<schema, merges, owner, address, lapsed, begun>>

-----------------------------------------------------------------------------
(* The lifecycle of a profile. *)

\* _set_state, for deactivate and reactivate: whatever state it finds.  Its row of
\* the log tells the state, as a merge's tells merged_into: no field of `logged`.
BeginSetState(r, c, new) ==
  /\ c \in DOMAIN cust /\ cust[c].state # new
  /\ Begin(r, [op |-> "state", of |-> c, new |-> new])

SetState(r) ==
  /\ req[r].op = "state"
  /\ LET c == req[r].of
     IN cust' = [cust EXCEPT ![c].state = req[r].new, ![c].version = @ + 1]
  /\ Done(r)
  /\ UNCHANGED <<schema, merges, logged, owner, address, lapsed, stale, begun>>

BeginAnonymize(r, c) ==
  /\ c \in DOMAIN cust /\ cust[c].state # "anonymized"
  /\ Begin(r, [op |-> "anonymize", of |-> c])

\* The UPDATE sets every personal field of the profile to NULL, and the log gets
\* a row for the state alone; addresses and the rows of the log keep theirs.
Anonymize(r) ==
  /\ req[r].op = "anonymize"
  /\ LET c == req[r].of
         blank == [contact |-> None, tax |-> None]
     IN /\ MeetsChecks(blank)
        /\ cust' = [cust EXCEPT ![c].profile = blank, ![c].state = "anonymized",
                                ![c].version = @ + 1]
        /\ logged' = [logged EXCEPT ![c].anonymized = TRUE]
  /\ Done(r)
  /\ UNCHANGED <<schema, merges, owner, address, lapsed, stale, begun>>

-----------------------------------------------------------------------------
(* Merging two profiles. *)

States(s, a) == <<cust[s].state, cust[a].state>>

\* Mutant: nobody asks whether the survivor is merged.
BeginMerge_AnySurvivor(r, s, a) ==
  /\ s # a /\ {s, a} \subseteq DOMAIN cust
  /\ cust[a].state # "merged" /\ cust[a].into = None
  /\ Begin(r, [op |-> "merge", survivor |-> s, away |-> a, seen |-> States(s, a)])

\* merge_customers: both rows read and checked.
BeginMerge(r, s, a) ==
  /\ s # a /\ {s, a} \subseteq DOMAIN cust
  /\ cust[a].state # "merged" /\ cust[a].into = None
  /\ cust[s].state # "merged"
  /\ Begin(r, [op |-> "merge", survivor |-> s, away |-> a, seen |-> States(s, a)])

\* Mutant: without uq_merge_tenant_merged_away.
MergeFree_NoIndex(a) == TRUE

\* uq_merge_tenant_merged_away: of two merges of one customer the second waits
\* for the first, and fails when it commits.
MergeFree(a) ==
  /\ \A m \in merges : m[2] # a
  /\ \A q \in Requests : req[q].op = "rewrite" => req[q].away # a

\* The INSERT into cust.merge, then the UPDATE of the returns: those of the
\* merged-away customer that are committed by then.
RewriteReturns(r) ==
  /\ req[r].op = "merge" /\ MergeFree(req[r].away)
  /\ req' = [req EXCEPT ![r] =
               [op |-> "rewrite", survivor |-> req[r].survivor, away |-> req[r].away,
                seen |-> req[r].seen, moving |-> {x \in DOMAIN owner : owner[x] = req[r].away}]]
  /\ UNCHANGED <<schema, cust, merges, logged, owner, address, lapsed, stale, begun>>

\* The state of one of the two has changed since, or another merge that shares
\* a customer is under way.
Overlapped(r) ==
  \/ req[r].seen # States(req[r].survivor, req[r].away)
  \/ \E q \in Requests \ {r} :
       /\ req[q].op \in {"merge", "rewrite"}
       /\ {req[q].survivor, req[q].away} \cap {req[r].survivor, req[r].away} # {}

\* The UPDATE of the merged-away customer, and the commit.
Merge(r) ==
  /\ req[r].op = "rewrite"
  /\ LET s == req[r].survivor
         a == req[r].away
     IN /\ merges' = merges \cup {<<s, a>>}
        /\ owner' = [x \in DOMAIN owner |-> IF x \in req[r].moving THEN s ELSE owner[x]]
        /\ cust' = [cust EXCEPT ![a].state = "merged", ![a].into = s, ![a].version = @ + 1]
        /\ lapsed' = lapsed \cup (IF Overlapped(r) THEN {s, a} ELSE {})
  /\ Done(r)
  /\ UNCHANGED <<schema, logged, address, stale, begun>>

-----------------------------------------------------------------------------
(* Addresses.  A request that sets a default holds the locks of the rows it   *)
(* has cleared until it ends; one that would clear the same row waits.        *)

Locked(d) == \E q \in Requests : req[q].op = "address" /\ d \in req[q].cleared

\* _clear_default: the defaults of the kind that are committed by now.
ClearDefault(c, row) ==
  {e \in DOMAIN address : row.default /\ address[e] = row}

\* create_address_endpoint, or update_address_endpoint on an address of the
\* customer; neither reads the customer.
BeginAddress(r, d, row) ==
  /\ row.of \in DOMAIN cust
  /\ d \in DOMAIN address => address[d].of = row.of
  /\ \A e \in ClearDefault(row.of, row) : ~Locked(e)
  /\ Begin(r, [op |-> "address", id |-> d, isNew |-> d \notin DOMAIN address, row |-> row,
               cleared |-> ClearDefault(row.of, row)])

\* Mutant: without uq_customer_address_default_per_kind.
PutAddress_NoIndex(r) ==
  LET q == req[r] IN
  /\ q.op = "address"
  /\ LET D == (DOMAIN address \cup {q.id}) \ (IF q.isNew THEN {} ELSE {q.id} \ DOMAIN address)
     IN /\ q.isNew => q.id \notin DOMAIN address
        /\ \A p \in Requests \ {r} : req[p].op = "address" => q.id \notin req[p].cleared
        /\ address' = [d \in D |-> IF d = q.id THEN q.row
                                   ELSE IF d \in q.cleared
                                        THEN [address[d] EXCEPT !.default = FALSE]
                                        ELSE address[d]]
  /\ Done(r)
  /\ UNCHANGED <<schema, cust, merges, logged, owner, lapsed, stale, begun>>

\* The INSERT, or the UPDATE by id (of no row, if it has been deleted), and
\* the commit.
PutAddress(r) ==
  LET q == req[r] IN
  /\ q.op = "address"
  /\ LET D == (DOMAIN address \cup {q.id}) \ (IF q.isNew THEN {} ELSE {q.id} \ DOMAIN address)
     IN /\ q.isNew => q.id \notin DOMAIN address
        /\ q.id \in D => DefaultFree(q.id, q.row, q.cleared)
        /\ \A p \in Requests \ {r} : req[p].op = "address" => q.id \notin req[p].cleared
        /\ address' = [d \in D |-> IF d = q.id THEN q.row
                                   ELSE IF d \in q.cleared
                                        THEN [address[d] EXCEPT !.default = FALSE]
                                        ELSE address[d]]
  /\ Done(r)
  /\ UNCHANGED <<schema, cust, merges, logged, owner, lapsed, stale, begun>>

DeleteAddress(d) ==
  /\ d \in DOMAIN address /\ ~Locked(d)
  /\ address' = [e \in DOMAIN address \ {d} |-> address[e]]
  /\ UNCHANGED <<schema, cust, merges, logged, owner, req, lapsed, stale, begun>>

-----------------------------------------------------------------------------
\* A constraint refuses a statement, or the request dies: rolled back.
Abort(r) ==
  /\ req[r] # Idle /\ Done(r)
  /\ UNCHANGED <<schema, cust, merges, logged, owner, address, lapsed, stale, begun>>

\* POST and PUT on /customers: a service call and a commit.
Writes(r) ==
  \/ \E p \in Profiles, role \in {"Cashier", "Store Manager"} :
       \/ \E crid \in Crids \cup {None} : BeginCreate(r, crid, p, role)
       \/ \E c \in Customers, v \in 1..MaxRequests : BeginUpdate(r, c, v, p, role)
  \/ \E c \in Customers : InsertCustomer(r, c)
  \/ Update(r)

\* POST deactivate, reactivate and anonymize.
Lifecycle(r) ==
  \/ \E c \in Customers :
       \/ BeginSetState(r, c, "inactive")
       \/ BeginSetState(r, c, "active")
       \/ BeginAnonymize(r, c)
  \/ SetState(r)
  \/ Anonymize(r)

\* POST merge.
Merging(r) ==
  \/ \E s \in Customers, a \in Customers : BeginMerge(r, s, a)
  \/ RewriteReturns(r)
  \/ Merge(r)

Next ==
  \/ \E r \in Requests : Writes(r) \/ Lifecycle(r) \/ Merging(r) \/ Abort(r)
  \/ \E r \in Requests, d \in Addresses, row \in AddressRows : BeginAddress(r, d, row)
  \/ \E r \in Requests : PutAddress(r)
  \/ \E d \in Addresses : DeleteAddress(d)

Spec == Init /\ [][Next]_vars

-----------------------------------------------------------------------------
(* Properties. *)

\* A customer is merged away at most once, and into the survivor of the one
\* merge there is a record of, however many merges ran at once.
MergedOnce ==
  \A c \in DOMAIN cust :
    {m \in merges : m[2] = c} = (IF cust[c].into = None THEN {} ELSE {<<cust[c].into, c>>})

\* resolve_customer_id: the chain of merged_into, followed to its end or, five
\* links on, given up.
Link(C) == C \cup ({cust[c].into : c \in C} \ {None})

Chain(c) == Link(Link(Link(Link(Link({c})))))

\* The returns of a customer who has been merged away are held by the one its
\* links lead to, who is not merged itself: unless merges overlapped, one on the
\* way was merged and is in use again, or the way has more than five links.
ReturnsFollowMerges ==
  \A x \in DOMAIN owner :
    LET way == Chain(Bought[x]) IN
    \/ way \cap lapsed # {}
    \/ \E c \in way : cust[c].into # None /\ cust[c].state # "merged"
    \/ \E c \in way : cust[c].into \notin way \cup {None}
    \/ owner[x] \in way /\ cust[owner[x]].into = None

\* An anonymized profile holds nothing personal, unless an update that had read
\* an earlier version overwrote it.
ErasedStaysErased ==
  \A c \in DOMAIN cust \ stale :
    cust[c].state = "anonymized" => cust[c].profile = [contact |-> None, tax |-> None]

Tells(rows, was, is) == IF rows = {} THEN is = was ELSE rows = {is}

\* Until a customer is anonymized, the last row the change log has of a field tells
\* its value, and without one the value is the one created: unless an update
\* overwrote a version it had not read, and compared with that.
LogTellsTheProfile ==
  \A c \in DOMAIN cust \ stale :
    ~logged[c].anonymized =>
      /\ Tells(logged[c].contact, logged[c].was.contact, cust[c].profile.contact)
      /\ Tells(logged[c].tax, logged[c].was.tax, cust[c].profile.tax)

\* "Optimistic concurrency is enforced by If-Match against the row's version
\* column" (write_service.py): an update applies to the version it names.
UpdatesTheVersionNamed ==
  [][\A r \in Requests :
       Update(r) => cust[req[r].of].version = req[r].expected]_vars
=============================================================================
