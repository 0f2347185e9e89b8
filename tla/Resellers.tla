------------------------------- MODULE Resellers -------------------------------
(***************************************************************************)
(* Resellers, their credit and their customers (internal/panel/resellers/, *)
(* internal/panel/service/resellers.go, httpapi/resellers.go and the bulk  *)
(* and import handlers of httpapi/subjects_*.go).  A balance is the sum of *)
(* an append-only ledger in which an idempotency key occurs once per       *)
(* reseller.  Store transactions are single steps; a bulk request or an    *)
(* import is a sequence of them with other requests in between.            *)
(***************************************************************************)
EXTENDS Integers, FiniteSets, FiniteSetsExt

CONSTANTS
    Sellers,     \* reseller ids
    Names,       \* names a customer may have
    ClientKeys,  \* idempotency keys the clients make up
    Offers,      \* bound: the terms administrators give to resellers
    Uploads,     \* bound: the CSV files imported
    MaxSubjects, \* bound: subject ids
    MaxRequests  \* bound: requests

\* "-" marks a subject that is not there and is nobody's id.
ASSUME ResellersAssumption ==
    /\ "-" \notin Sellers
    /\ IsFiniteSet(Sellers) /\ IsFiniteSet(Names) /\ IsFiniteSet(ClientKeys)
    /\ MaxSubjects \in Nat /\ MaxRequests \in Nat
    /\ Offers \subseteq [enabled : BOOLEAN, max : 1 .. MaxSubjects + 1,
                          maxQuota : 1 .. MaxSubjects + 1, floor : {0, -1}]
    /\ Uploads \subseteq [rows : (SUBSET Names) \ {{}}, quota : {0, 1},
                           disabled : BOOLEAN, frozen : BOOLEAN]

Ids == 1 .. MaxSubjects
MaxTerm == 2                 \* bound: how far an expiry may be extended
Platform == "platform"       \* a subject without a reseller_subjects row

Enabled(terms) == [terms EXCEPT !.enabled = TRUE]
Absent == [enabled |-> FALSE, max |-> 0, maxQuota |-> 0, floor |-> 1]

\* quota 0 and expiry 0 are NULL; now is 0, so every other expiry is ahead.
Customers == [name : Names, owner : Sellers \cup {Platform}, cost : {0, 1}, quota : {0, 1},
              enabled : BOOLEAN, frozen : BOOLEAN, expiry : 0 .. MaxTerm]
NoSubject == [name |-> "-", owner |-> "-", cost |-> 0, quota |-> 0,
              enabled |-> FALSE, frozen |-> FALSE, expiry |-> 0]

\* No CSV file.  One is the names of its rows and what its columns say of them.
NoCsv == [rows |-> {}, quota |-> 0, disabled |-> FALSE, frozen |-> FALSE]

\* The two kinds of idempotency key: made up by a client, or derived by
\* importKey from the file and the name of the row.
ClientKey(k) == [csv |-> NoCsv, name |-> k]
importKey(csv, name) == [csv |-> csv, name |-> name]
Keys == {ClientKey(k) : k \in ClientKeys} \cup {importKey(c, n) : c \in Uploads, n \in Names}

VARIABLES
    rsTerms,    \* resellers: the row (max and maxQuota above MaxSubjects: NULL), or Absent
    rsLedger,   \* reseller_credit_ledger; subject 0 is NULL
    rsSubject,  \* subjects joined with reseller_subjects
    rsJob,      \* the bulk request or import being served
    rsRequests  \* counted against the bound

rsVars == <<rsTerms, rsLedger, rsSubject, rsJob, rsRequests>>

Idle == [op |-> "idle", by |-> Platform, left |-> {}, cost |-> 0, csv |-> NoCsv,
         id |-> 0, read |-> 0, todo |-> {}]

RsInit ==
    /\ rsTerms \in [Sellers -> {Enabled(t) : t \in Offers} \cup {Absent}]
    /\ rsLedger = {}
    /\ rsSubject = [s \in Ids |-> NoSubject]
    /\ rsJob = Idle
    /\ rsRequests = 0

Request == rsRequests < MaxRequests /\ rsRequests' = rsRequests + 1

Exists(s) == s \in Ids /\ rsSubject[s] # NoSubject
Owned(r) == {s \in Ids : rsSubject[s].owner = r}

-----------------------------------------------------------------------------
(***************************************************************************)
(* The reseller's own record, and credit.                                  *)
(***************************************************************************)

Movements(r) == {m \in rsLedger : m.of = r}
Balance(r) == MapThenSumSet(LAMBDA m : m.delta, Movements(r))

\* A key that is already in the ledger is answered with its row.
Credit(r, key, delta, s) ==
    IF \E m \in Movements(r) : m.key = key THEN rsLedger
    ELSE rsLedger \cup {[of |-> r, key |-> key, delta |-> delta, subject |-> s]}

CreateReseller(r, terms) ==
    /\ rsTerms[r] = Absent
    /\ rsTerms' = [rsTerms EXCEPT ![r] = Enabled(terms)]
    /\ UNCHANGED rsLedger

UpdateReseller(r, terms) ==
    /\ rsTerms[r] # Absent /\ terms # rsTerms[r]
    /\ rsTerms' = [rsTerms EXCEPT ![r] = terms]
    /\ UNCHANGED rsLedger

\* Refused while the reseller owns customers; the ledger goes with the row.
DeleteReseller(r) ==
    /\ rsTerms[r] # Absent /\ Owned(r) = {}
    /\ rsTerms' = [rsTerms EXCEPT ![r] = Absent]
    /\ rsLedger' = rsLedger \ Movements(r)

\* No floor is checked: the administrator may take credit away.
GrantCredit(r, key, delta) ==
    /\ rsTerms[r] # Absent /\ delta # 0
    /\ rsLedger' = Credit(r, key, delta, 0)
    /\ UNCHANGED rsTerms

\* The requests of the administrator.
ResellerRequest == Request /\ UNCHANGED <<rsSubject, rsJob>>
handleCreateReseller(r, terms) == CreateReseller(r, terms) /\ ResellerRequest
handleUpdateReseller(r, terms) == UpdateReseller(r, terms) /\ ResellerRequest
handleDeleteReseller(r) == DeleteReseller(r) /\ ResellerRequest
handleGrantCredit(r, key, delta) == GrantCredit(r, key, delta) /\ ResellerRequest

-----------------------------------------------------------------------------
(***************************************************************************)
(* Provisioning: charge and customer in one transaction.                   *)
(***************************************************************************)

\* SQLite hands out the highest id in use plus one: subjects.id is no
\* AUTOINCREMENT column, so a deleted highest id comes back.
NextId == Max({0} \cup {s \in Ids : Exists(s)}) + 1

NameFree(name) == \A s \in Ids : rsSubject[s].name # name

NewSubject(name, owner, cost, quota) ==
    [name |-> name, owner |-> owner, cost |-> cost, quota |-> quota,
     enabled |-> TRUE, frozen |-> FALSE, expiry |-> 0]

checkLimits(r, quota) ==
    /\ Cardinality(Owned(r)) + 1 <= rsTerms[r].max
    /\ quota > 0 => MapThenSumSet(LAMBDA s : rsSubject[s].quota, Owned(r)) + quota
                        <= rsTerms[r].maxQuota

Affordable(r, cost) == Balance(r) - cost >= rsTerms[r].floor

\* The earlier answer to this key.
Prior(r, key) == {m \in Movements(r) : m.key = key}

\* Nothing is written to the ledger for a customer who costs nothing, so the
\* key of such a request is not remembered.
NewCustomer(r, key, name, cost, quota) ==
    /\ checkLimits(r, quota) /\ Affordable(r, cost)
    /\ NameFree(name) /\ NextId \in Ids
    /\ rsSubject' = [rsSubject EXCEPT ![NextId] = NewSubject(name, r, cost, quota)]
    /\ rsLedger' = IF cost > 0 THEN Credit(r, key, -cost, NextId) ELSE rsLedger

\* Mutant of ProvisionSubject: leaves a repeated key to the ledger.
ProvisionUnchecked(r, key, name, cost, quota, id) ==
    /\ rsTerms[r] # Absent /\ rsTerms[r].enabled
    /\ id = NextId /\ NewCustomer(r, key, name, cost, quota)

\* id: the subject the caller is told of, 0 when it has been deleted since.
ProvisionSubject(r, key, name, cost, quota, id) ==
    /\ rsTerms[r] # Absent /\ rsTerms[r].enabled
    /\ \/ /\ \E m \in Prior(r, key) : id = m.subject
          /\ UNCHANGED <<rsSubject, rsLedger>>
       \/ /\ Prior(r, key) = {} /\ id = NextId
          /\ NewCustomer(r, key, name, cost, quota)

handleProvisionSubject(r, key, name, cost, quota) ==
    /\ \E id \in 0 .. MaxSubjects : ProvisionSubject(r, key, name, cost, quota, id)
    /\ Request /\ UNCHANGED <<rsTerms, rsJob>>

\* Subjects.Create: the platform's own customer.
CreateSubject(name) ==
    /\ NameFree(name) /\ NextId \in Ids
    /\ rsSubject' = [rsSubject EXCEPT ![NextId] = NewSubject(name, Platform, 0, 0)]
    /\ UNCHANGED rsLedger

handleCreateSubject(name) ==
    /\ CreateSubject(name) /\ Request /\ UNCHANGED <<rsTerms, rsJob>>

\* reseller_subjects goes with the row; the ledger keeps the charge and
\* forgets whom it was for.
DeleteSubject(s) ==
    /\ Exists(s)
    /\ rsSubject' = [rsSubject EXCEPT ![s] = NoSubject]
    /\ rsLedger' = {IF m.subject = s THEN [m EXCEPT !.subject = 0] ELSE m : m \in rsLedger}

handleDeleteSubject(s) == DeleteSubject(s) /\ Request /\ UNCHANGED <<rsTerms, rsJob>>

-----------------------------------------------------------------------------
(***************************************************************************)
(* Bulk requests.  The ids out of the caller's scope are dropped first.    *)
(***************************************************************************)

InScope(by, s) == Exists(s) /\ (by = Platform \/ rsSubject[s].owner = by)
scopeFilterSubjectIDs(by, ids) == {s \in ids : InScope(by, s)}

\* By the super admin (Platform), or by the admin of a reseller.
handleBulk(op, by, ids) ==
    /\ rsJob.op = "idle" /\ \A r \in Sellers : by = r => rsTerms[r] # Absent
    /\ rsJob' = [Idle EXCEPT !.op = op, !.by = by,
                             !.left = IF by = Platform THEN ids ELSE scopeFilterSubjectIDs(by, ids)]
    /\ Request /\ UNCHANGED <<rsTerms, rsLedger, rsSubject>>

\* The service authorises each subject again; extend reads its expiry first.
BulkAuthorise(s) ==
    /\ rsJob.op \in {"enable", "disable", "extend", "delete"} /\ rsJob.id = 0
    /\ s \in rsJob.left /\ InScope(rsJob.by, s)
    /\ rsJob' = [rsJob EXCEPT !.left = @ \ {s}, !.id = s, !.read = rsSubject[s].expiry]
    /\ UNCHANGED <<rsTerms, rsLedger, rsSubject, rsRequests>>

\* Not found, a failed write, or a delete above the caller's cap.
BulkSkip(s) ==
    /\ rsJob.op \in {"enable", "disable", "extend", "delete"}
    /\ rsJob' = IF rsJob.id = s THEN [rsJob EXCEPT !.id = 0]
                ELSE [rsJob EXCEPT !.left = @ \ {s}]
    /\ rsJob.id = s \/ (rsJob.id = 0 /\ s \in rsJob.left)
    /\ UNCHANGED <<rsTerms, rsLedger, rsSubject, rsRequests>>

SetEnabledTo(s, on) ==
    /\ Exists(s)
    /\ rsSubject' = [rsSubject EXCEPT ![s].enabled = on]
    /\ UNCHANGED rsLedger

\* Mutant of ExtendFrom: the write adds to the row what already counts it.
ExtendOnTop(s, read) ==
    /\ Exists(s) /\ read < MaxTerm
    /\ rsSubject' = [rsSubject EXCEPT ![s].expiry = @ + read + 1]
    /\ UNCHANGED rsLedger

\* From what was read, or from now; a concurrent change is overwritten.
ExtendFrom(s, read) ==
    /\ Exists(s) /\ read < MaxTerm
    /\ rsSubject' = [rsSubject EXCEPT ![s].expiry = read + 1]
    /\ UNCHANGED rsLedger

handleBulkEnableSubjects == rsJob.op = "enable" /\ SetEnabledTo(rsJob.id, TRUE)
handleBulkDisableSubjects == rsJob.op = "disable" /\ SetEnabledTo(rsJob.id, FALSE)
handleBulkExtendSubjects == rsJob.op = "extend" /\ ExtendFrom(rsJob.id, rsJob.read)
handleBulkDeleteSubjects == rsJob.op = "delete" /\ DeleteSubject(rsJob.id)

BulkWrite ==
    /\ rsJob.id \in Ids
    /\ \/ handleBulkEnableSubjects
       \/ handleBulkDisableSubjects
       \/ handleBulkExtendSubjects
       \/ handleBulkDeleteSubjects
    /\ rsJob' = [rsJob EXCEPT !.id = 0]
    /\ UNCHANGED <<rsTerms, rsRequests>>

\* One raw UPDATE per id in one transaction; no reseller's limit is checked.
handleBulkSetQuota(quota) ==
    /\ rsJob.op = "quota" /\ rsJob.left # {}
    /\ rsSubject' = [s \in Ids |-> IF s \in rsJob.left /\ Exists(s)
                                   THEN [rsSubject[s] EXCEPT !.quota = quota]
                                   ELSE rsSubject[s]]
    /\ rsJob' = Idle
    /\ UNCHANGED <<rsTerms, rsLedger, rsRequests>>

-----------------------------------------------------------------------------
(***************************************************************************)
(* Import: a row is created or provisioned, then given its quota, disabled *)
(* and frozen by writes of their own; the first that fails ends the row.   *)
(***************************************************************************)

handleImportSubjects(by, cost, csv) ==
    /\ rsJob.op = "idle"
    /\ rsJob' = [Idle EXCEPT !.op = "import", !.by = by, !.left = csv.rows,
                             !.cost = cost, !.csv = csv]
    /\ Request /\ UNCHANGED <<rsTerms, rsLedger, rsSubject>>

\* The writes a row still needs once its subject is known.
After(csv) ==
    (IF csv.quota > 0 THEN {"quota"} ELSE {})
    \cup (IF csv.disabled THEN {"disable"} ELSE {})
    \cup (IF csv.frozen THEN {"freeze"} ELSE {})

ImportRow(name) ==
    /\ rsJob.op = "import" /\ rsJob.todo = {} /\ name \in rsJob.left
    /\ \E id \in 0 .. MaxSubjects :
        /\ IF rsJob.by = Platform THEN CreateSubject(name) /\ id = NextId
           ELSE ProvisionSubject(rsJob.by, importKey(rsJob.csv, name), name, rsJob.cost,
                                 rsJob.csv.quota, id)
        /\ rsJob' = [rsJob EXCEPT !.left = @ \ {name}, !.id = id, !.todo = After(rsJob.csv)]
    /\ UNCHANGED <<rsTerms, rsRequests>>

\* A refused row, or a write that failed: the row counts as failed.
ImportRowFails(name) ==
    /\ rsJob.op = "import"
    /\ \/ rsJob.todo = {} /\ name \in rsJob.left
          /\ rsJob' = [rsJob EXCEPT !.left = @ \ {name}]
       \/ rsJob.todo # {} /\ rsJob' = [rsJob EXCEPT !.todo = {}]
    /\ UNCHANGED <<rsTerms, rsLedger, rsSubject, rsRequests>>

ImportWrite ==
    /\ rsJob.op = "import"
    /\ \/ /\ "quota" \in rsJob.todo
          /\ rsJob' = [rsJob EXCEPT !.todo = @ \ {"quota"}]
          /\ rsSubject' = IF Exists(rsJob.id)
                          THEN [rsSubject EXCEPT ![rsJob.id].quota = rsJob.csv.quota]
                          ELSE rsSubject
       \/ /\ "disable" \in rsJob.todo /\ "quota" \notin rsJob.todo /\ Exists(rsJob.id)
          /\ rsJob' = [rsJob EXCEPT !.todo = @ \ {"disable"}]
          /\ rsSubject' = [rsSubject EXCEPT ![rsJob.id].enabled = FALSE]
       \/ /\ rsJob.todo = {"freeze"} /\ Exists(rsJob.id)
          /\ rsJob' = [rsJob EXCEPT !.todo = {}]
          /\ rsSubject' = [rsSubject EXCEPT ![rsJob.id].frozen = TRUE]
    /\ UNCHANGED <<rsTerms, rsLedger, rsRequests>>

\* The answer is written, or the panel stopped.
JobEnds ==
    /\ rsJob.op # "idle" /\ rsJob' = Idle
    /\ UNCHANGED <<rsTerms, rsLedger, rsSubject, rsRequests>>

-----------------------------------------------------------------------------

RsNext ==
    \/ \E r \in Sellers, terms \in Offers :
          handleCreateReseller(r, terms) \/ handleUpdateReseller(r, terms)
    \/ \E r \in Sellers : handleDeleteReseller(r)
    \/ \E r \in Sellers, key \in ClientKeys, delta \in {-1, 1, 2} : handleGrantCredit(r, ClientKey(key), delta)
    \/ \E r \in Sellers, key \in ClientKeys, name \in Names, cost \in {0, 1}, quota \in {0, 1} :
          handleProvisionSubject(r, ClientKey(key), name, cost, quota)
    \/ \E name \in Names : handleCreateSubject(name)
    \/ \E s \in Ids : handleDeleteSubject(s)
    \/ \E op \in {"enable", "disable", "extend", "delete", "quota"},
          by \in Sellers \cup {Platform}, ids \in (SUBSET Ids) \ {{}} : handleBulk(op, by, ids)
    \/ \E s \in Ids : BulkAuthorise(s) \/ BulkSkip(s)
    \/ BulkWrite
    \/ \E quota \in {0, 1} : handleBulkSetQuota(quota)
    \/ \E by \in Sellers \cup {Platform}, cost \in {0, 1}, csv \in Uploads :
          handleImportSubjects(by, cost, csv)
    \/ \E name \in Names : ImportRow(name) \/ ImportRowFails(name)
    \/ ImportWrite
    \/ JobEnds

RsSpec == RsInit /\ [][RsNext]_rsVars

-----------------------------------------------------------------------------

RsTypeOK ==
    /\ rsTerms \in [Sellers -> Offers \cup {Enabled(t) : t \in Offers} \cup {Absent}]
    /\ rsSubject \in [Ids -> Customers \cup {NoSubject}]
    /\ \A m \in rsLedger :
        /\ m.of \in Sellers /\ m.delta \in {-1, 1, 2} /\ m.subject \in 0 .. MaxSubjects /\ m.key \in Keys

\* Nobody is served unpaid and nobody is charged twice (resellers.go:279-425): a
\* customer's cost is, to the unit, what the ledger of their owner says was
\* charged for them, however often requests and imports were repeated with the
\* same or another key, and whatever was deleted in between.
CustomersArePaidFor ==
    /\ \A s \in Ids : Exists(s) =>
        MapThenSumSet(LAMBDA m : m.delta, {m \in rsLedger : m.subject = s}) = -rsSubject[s].cost
    /\ \A m \in rsLedger : m.subject # 0 => rsSubject[m.subject].owner = m.of
================================================================================
