--------------------------- MODULE SubjectPublish ---------------------------
(***************************************************************************)
(* The life of one subject (a customer) and what the nodes' documents hold *)
(* of it: the operations of internal/panel/service/subjects.go, called by  *)
(* concurrent requests, and the three sweepers that change subjects: the   *)
(* expiry sweeper (internal/panel/subjects/sweeper.go), the quota enforcer *)
(* and the quota resetter (internal/panel/nodes/quota.go).                 *)
(*                                                                         *)
(* Each of them changes the row in one transaction and then commits node   *)
(* after node in further ones.  Services are represented by their nodes,   *)
(* credentials by a version number.  How a committed document reaches the  *)
(* agent is in ControlLoop, how usage adds up in UsageLedger.              *)
(***************************************************************************)
EXTENDS Integers, FiniteSets

CONSTANTS
    Nodes,
    ServingNodes,   \* nodes with an enabled service
    Callers,        \* requests in flight at the same time
    Sweepers,       \* which of the sweepers run
    MaxCalls,       \* bound: operations of the service
    Regrants,       \* BOOLEAN: updates change the services of the subject
    Faults          \* BOOLEAN: commits fail and the panel restarts

SweeperNames == {"expiry", "enforce", "reset"}

ASSUME PublishSetsAssumption ==
    /\ ServingNodes \subseteq Nodes
    /\ Sweepers \subseteq SweeperNames
    /\ Callers \cap SweeperNames = {}
ASSUME PublishBoundsAssumption == MaxCalls \in Nat /\ {Regrants, Faults} \subseteq BOOLEAN

Actors == Callers \cup SweeperNames

VARIABLES
    row,        \* the subject's row, with its grants and its credential
    overQuota,  \* billable usage of the period has reached the quota
    resetDue,   \* quota_reset_at has passed
    off,        \* ghost: the operator's last word was to disable the subject
    published,  \* per node, the credential its newest document serves, or 0
    pc,         \* per actor, the step its current call has come to
    todo,       \* per actor, the node set it holds
    unfreeze,   \* what the resetter's scan saw: frozen for quota
    calls,      \* service calls made so far
    lost,       \* ghost: nodes whose commit failed and was not made up for
    overtaken   \* ghost: nodes granted after the writing call had read its node set

vars == <<row, overQuota, resetDue, off, published, pc, todo, unfreeze, calls, lost, overtaken>>

Rows == [life : {"unborn", "live", "deleted"}, enabled : BOOLEAN,
         frozen : {"no", "quota", "operator"}, expiry : {"never", "future", "past"},
         grants : SUBSET Nodes, cred : Nat]

Live == row.life = "live"

\* buildSubjects: enabled, unfrozen, unexpired and granted a service of the node.
Serving(n) ==
    IF /\ Live /\ row.enabled /\ row.frozen = "no" /\ row.expiry # "past"
       /\ n \in row.grants
    THEN row.cred ELSE 0

Init ==
    /\ row = [life |-> "unborn", enabled |-> FALSE, frozen |-> "no", expiry |-> "never",
              grants |-> {}, cred |-> 0]
    /\ overQuota = FALSE /\ resetDue = FALSE /\ off = FALSE
    /\ published = [n \in Nodes |-> 0]
    /\ pc = [a \in Actors |-> "idle"]
    /\ todo = [a \in Actors |-> {}]
    /\ unfreeze = FALSE
    /\ calls = 0
    /\ lost = {} /\ overtaken = {}

-----------------------------------------------------------------------------
(***************************************************************************)
(* Helpers.  Goto leaves an actor at a step with a node set; a call with   *)
(* nothing to publish is over.                                             *)
(***************************************************************************)
Goto(a, step, nodes) ==
    /\ pc' = [pc EXCEPT ![a] = IF step = "publish" /\ nodes = {} THEN "idle" ELSE step]
    /\ todo' = [todo EXCEPT ![a] = nodes]

Return(a) == Goto(a, "idle", {})

\* The call takes service away from nodes it does not know of, other than those in
\* kept: somebody granted them after it had read its node set.
Overtake(a, kept) == overtaken' = overtaken \cup ((row.grants \ todo[a]) \ kept)

\* A call of the service by an idle request.
Call(a) ==
    /\ pc[a] = "idle" /\ calls < MaxCalls
    /\ calls' = calls + 1

World == <<overQuota, resetDue, unfreeze, published, lost, overtaken>>

-----------------------------------------------------------------------------
(***************************************************************************)
(* The service.                                                            *)
(***************************************************************************)
NewRow(g, e) ==
    [life |-> "live", enabled |-> TRUE, frozen |-> "no", expiry |-> e, grants |-> g, cred |-> 1]

Create(a, g, e) ==
    /\ Call(a) /\ row.life = "unborn"
    /\ row' = NewRow(g, e)
    /\ Goto(a, "resolve", {})
    /\ UNCHANGED <<World, off>>

\* ProvisionSubject returns the node set from its own transaction; a repeat with
\* the same idempotency key creates nothing and publishes again.
Provision(a, g, e) ==
    /\ Call(a)
    /\ \/ row.life = "unborn" /\ row' = NewRow(g, e) /\ Goto(a, "publish", g)
       \/ Live /\ row' = row /\ Goto(a, "publish", row.grants)
    /\ UNCHANGED <<World, off>>

\* Update reads the node set, writes, and reads the node set again.
Update(a) ==
    /\ Call(a) /\ Live
    /\ Goto(a, "update", row.grants)
    /\ UNCHANGED <<World, row, off>>

UpdateWrite(a) ==
    /\ pc[a] = "update"
    /\ \/ /\ Live
          /\ \E on \in BOOLEAN, e \in {"never", "future", "past"},
                g \in IF Regrants THEN SUBSET Nodes ELSE {row.grants} :
               /\ row' = [row EXCEPT !.enabled = on, !.expiry = e, !.grants = g]
               /\ off' = IF on # row.enabled THEN ~on ELSE off
          /\ Overtake(a, row'.grants)
          /\ Goto(a, "resolve", todo[a])
       \/ ~Live /\ UNCHANGED <<row, off, overtaken>> /\ Return(a)
    /\ UNCHANGED <<overQuota, resetDue, unfreeze, published, lost, calls>>

\* Delete reads the node set before the row, and its grants, are gone.
Delete(a) ==
    /\ Call(a) /\ Live
    /\ Goto(a, "delete", row.grants)
    /\ UNCHANGED <<World, row, off>>

DeleteWrite(a) ==
    /\ pc[a] = "delete"
    /\ \/ /\ Live
          /\ row' = [row EXCEPT !.life = "deleted", !.grants = {}]
          /\ Overtake(a, {})
          /\ Goto(a, "publish", todo[a])
       \/ ~Live /\ UNCHANGED <<row, overtaken>> /\ Return(a)
    /\ UNCHANGED <<overQuota, resetDue, unfreeze, published, lost, off, calls>>

\* mutate: one write, then republishFor.
SetEnabled(a, on) ==
    /\ Call(a) /\ Live
    /\ row' = [row EXCEPT !.enabled = on]
    /\ off' = ~on
    /\ Goto(a, "resolve", {})
    /\ UNCHANGED World

\* Mutant of SetFrozen: the freeze is written without its reason.
FreezeWithoutReason(a, frozen) ==
    /\ Call(a) /\ Live
    /\ row' = [row EXCEPT !.frozen = IF frozen THEN "" ELSE "no"]
    /\ Goto(a, "resolve", {})
    /\ UNCHANGED <<World, off>>

SetFrozen(a, frozen) ==
    /\ Call(a) /\ Live
    /\ row' = [row EXCEPT !.frozen = IF frozen THEN "operator" ELSE "no"]
    /\ Goto(a, "resolve", {})
    /\ UNCHANGED <<World, off>>

RotateCredential(a) ==
    /\ Call(a) /\ Live
    /\ row' = [row EXCEPT !.cred = @ + 1]
    /\ Goto(a, "resolve", {})
    /\ UNCHANGED <<World, off>>

\* Mutant of Resolve: Update publishes the new node set only.
ResolveForgetsBefore(a) ==
    /\ a \in Callers /\ pc[a] = "resolve"
    /\ Goto(a, "publish", row.grants)
    /\ UNCHANGED <<World, row, off, calls>>

\* republishFor, and Update's union of the node sets before and after.
Resolve(a) ==
    /\ a \in Callers /\ pc[a] = "resolve"
    /\ Goto(a, "publish", todo[a] \cup row.grants)
    /\ UNCHANGED <<World, row, off, calls>>

-----------------------------------------------------------------------------
(***************************************************************************)
(* Publishing, one node a transaction.                                     *)
(***************************************************************************)

\* Mutant of CommitNode: the document is not rebuilt when the subject is gone.
CommitNodeOfLiveSubject(a, n) ==
    /\ pc[a] = "publish" /\ n \in todo[a]
    /\ published' = [published EXCEPT ![n] = IF Live THEN Serving(n) ELSE @]
    /\ lost' = lost \ {n} /\ overtaken' = overtaken \ {n}
    /\ Goto(a, "publish", todo[a] \ {n})
    /\ UNCHANGED <<row, overQuota, resetDue, off, unfreeze, calls>>

\* CommitNodeChange rebuilds the node's document from the tables as they are now.
CommitNode(a, n) ==
    /\ pc[a] = "publish" /\ n \in todo[a]
    /\ published' = [published EXCEPT ![n] = Serving(n)]
    /\ lost' = lost \ {n} /\ overtaken' = overtaken \ {n}
    /\ Goto(a, "publish", todo[a] \ {n})
    /\ UNCHANGED <<row, overQuota, resetDue, off, unfreeze, calls>>

\* Mutant of CommitFails: the expiry sweeper stops at the first node that fails.
SweeperStopsAtFailure(a, n) ==
    /\ Faults /\ pc[a] = "publish" /\ n \in todo[a]
    /\ lost' = lost \cup IF a = "expiry" THEN {n} ELSE todo[a]
    /\ Return(a)
    /\ UNCHANGED <<row, overQuota, resetDue, off, unfreeze, calls, published, overtaken>>

\* The expiry sweeper goes on to the next node; the others give up.
CommitFails(a, n) ==
    /\ Faults /\ pc[a] = "publish" /\ n \in todo[a]
    /\ \/ a = "expiry" /\ lost' = lost \cup {n} /\ Goto(a, "publish", todo[a] \ {n})
       \/ a # "expiry" /\ lost' = lost \cup todo[a] /\ Return(a)
    /\ UNCHANGED <<row, overQuota, resetDue, off, unfreeze, calls, published, overtaken>>

\* The panel restarts: nothing records what was still to be published.
Restart ==
    /\ Faults
    /\ lost' = lost \cup UNION {IF pc[a] = "publish" THEN todo[a]
                                ELSE IF pc[a] = "resolve" THEN todo[a] \cup row.grants
                                ELSE {} : a \in Actors}
    /\ pc' = [a \in Actors |-> "idle"]
    /\ todo' = [a \in Actors |-> {}]
    /\ UNCHANGED <<row, overQuota, resetDue, off, unfreeze, calls, published, overtaken>>

-----------------------------------------------------------------------------
(***************************************************************************)
(* The expiry sweeper: find who is due, then their nodes, then retire them *)
(* by id, then publish.                                                    *)
(***************************************************************************)
Due == Live /\ row.enabled /\ row.expiry = "past"

ExpiryScan ==
    /\ "expiry" \in Sweepers /\ pc["expiry"] = "idle" /\ Due
    /\ Goto("expiry", "nodes", {})
    /\ UNCHANGED <<World, row, off, calls>>

ExpiryNodes ==
    /\ pc["expiry"] = "nodes"
    /\ Goto("expiry", "retire", row.grants)
    /\ UNCHANGED <<World, row, off, calls>>

\* Mutant of ExpiryRetire: the removal is left to the next unrelated change.
RetireWithoutPublishing ==
    /\ pc["expiry"] = "retire"
    /\ row' = IF Live THEN [row EXCEPT !.enabled = FALSE] ELSE row
    /\ Return("expiry")
    /\ UNCHANGED <<World, off, calls>>

ExpiryRetire ==
    /\ pc["expiry"] = "retire"
    /\ \/ Live /\ row' = [row EXCEPT !.enabled = FALSE] /\ Overtake("expiry", {})
       \/ ~Live /\ UNCHANGED <<row, overtaken>>
    /\ Goto("expiry", "publish", todo["expiry"])
    /\ UNCHANGED <<overQuota, resetDue, unfreeze, published, lost, off, calls>>

-----------------------------------------------------------------------------
(***************************************************************************)
(* The quota sweepers.                                                     *)
(***************************************************************************)
EnforceScan ==
    /\ "enforce" \in Sweepers /\ pc["enforce"] = "idle"
    /\ Live /\ overQuota /\ row.frozen = "no" /\ row.enabled
    /\ Goto("enforce", "freeze", {})
    /\ UNCHANGED <<World, row, off, calls>>

\* Mutant of freezeSubject: freezes without a commit.
FreezeWithoutPublishing ==
    /\ pc["enforce"] = "freeze"
    /\ row' = IF Live /\ row.enabled
              THEN [row EXCEPT !.enabled = FALSE, !.frozen = "quota"] ELSE row
    /\ Return("enforce")
    /\ UNCHANGED <<World, off, calls>>

\* UPDATE ... WHERE id = ? AND enabled = 1; every node with an enabled service is
\* published, whether or not a row matched.
freezeSubject ==
    /\ pc["enforce"] = "freeze"
    /\ row' = IF Live /\ row.enabled
              THEN [row EXCEPT !.enabled = FALSE, !.frozen = "quota"] ELSE row
    /\ Goto("enforce", "publish", ServingNodes)
    /\ UNCHANGED <<World, off, calls>>

ResetScan ==
    /\ "reset" \in Sweepers /\ pc["reset"] = "idle"
    /\ Live /\ resetDue
    /\ unfreeze' = (row.frozen = "quota")
    /\ Goto("reset", "reset", {})
    /\ UNCHANGED <<row, overQuota, resetDue, off, published, calls, lost, overtaken>>

\* A new period starts; who the scan saw frozen for quota is enabled and unfrozen.
resetSubject ==
    /\ pc["reset"] = "reset"
    /\ \/ ~Live /\ UNCHANGED <<row, overQuota, resetDue>> /\ Return("reset")
       \/ /\ Live /\ overQuota' = FALSE /\ resetDue' = FALSE
          /\ row' = IF unfreeze THEN [row EXCEPT !.enabled = TRUE, !.frozen = "no"] ELSE row
          /\ Goto("reset", "publish", IF unfreeze THEN ServingNodes ELSE {})
    /\ UNCHANGED <<off, published, unfreeze, calls, lost, overtaken>>

-----------------------------------------------------------------------------
\* The clock and the traffic.
TimePasses ==
    /\ Live
    /\ \/ row.expiry = "future" /\ row' = [row EXCEPT !.expiry = "past"]
          /\ UNCHANGED <<overQuota, resetDue>>
       \/ ~overQuota /\ overQuota' = TRUE /\ UNCHANGED <<row, resetDue>>
       \/ ~resetDue /\ resetDue' = TRUE /\ UNCHANGED <<row, overQuota>>
    /\ UNCHANGED <<off, published, pc, todo, unfreeze, calls, lost, overtaken>>

ServiceStep(a) ==
    \/ UpdateWrite(a) \/ DeleteWrite(a) \/ Resolve(a)

PublishStep(a) == \E n \in Nodes : CommitNode(a, n)

SweeperStep ==
    \/ ExpiryScan \/ ExpiryNodes \/ ExpiryRetire
    \/ EnforceScan \/ freezeSubject
    \/ ResetScan \/ resetSubject

ServiceCall(a) ==
    \/ \E g \in SUBSET Nodes, e \in {"never", "future"} : Create(a, g, e) \/ Provision(a, g, e)
    \/ Update(a) \/ Delete(a) \/ RotateCredential(a)
    \/ \E on \in BOOLEAN : SetEnabled(a, on) \/ SetFrozen(a, on)

Next ==
    \/ \E a \in Callers : ServiceCall(a) \/ ServiceStep(a)
    \/ \E a \in Actors : PublishStep(a)
    \/ \E a \in Actors, n \in Nodes : CommitFails(a, n)
    \/ SweeperStep
    \/ TimePasses
    \/ Restart

Spec == Init /\ [][Next]_vars

\* A request is served to its end and the sweepers' tickers keep firing; nobody
\* has to make a request, and time may stand still.
FairSpec ==
    /\ Spec
    /\ \A a \in Callers : WF_vars(ServiceStep(a))
    /\ \A a \in Actors : WF_vars(PublishStep(a))
    /\ WF_vars(ExpiryScan \/ ExpiryNodes \/ ExpiryRetire)
    /\ WF_vars(EnforceScan \/ freezeSubject)
    /\ WF_vars(ResetScan \/ resetSubject)

-----------------------------------------------------------------------------
(***************************************************************************)
(* Properties.                                                             *)
(***************************************************************************)

\* The row, the documents and the calls in flight have their types.
TypeOK ==
    /\ row \in Rows
    /\ {overQuota, resetDue, off, unfreeze} \subseteq BOOLEAN
    /\ published \in [Nodes -> Nat]
    /\ pc \in [Actors -> {"idle", "update", "delete", "resolve", "publish",
                          "nodes", "retire", "freeze", "reset"}]
    /\ todo \in [Actors -> SUBSET Nodes]
    /\ calls \in 0 .. MaxCalls
    /\ lost \subseteq Nodes /\ overtaken \subseteq Nodes

\* Some actor is still going to commit node n.
Pending(n) ==
    \E a \in Actors :
        \/ pc[a] = "publish" /\ n \in todo[a]
        \/ pc[a] = "resolve" /\ n \in todo[a] \cup row.grants

\* Its document is right, or somebody answers for it.
AccountedFor(n) ==
    published[n] = Serving(n) \/ Pending(n) \/ n \in lost \/ n \in overtaken \/ Due

\* republish, the sweepers: a document that disagrees with the tables is about to
\* be rebuilt.  However requests and sweepers interleave, a node's newest document
\* serves the subject as the row says it should, but for the nodes some actor still
\* has to commit and for three kinds of node nobody comes back to by itself: its
\* commit failed, or the subject has expired and the sweeper has not been there, or
\* a delete, an update or the expiry sweeper took the service away with a node set
\* read before another request granted that node.
NoChangeIsStranded == \A n \in ServingNodes : AccountedFor(n)

\* The quota enforcer: a subject over its quota is cut off on every node with an
\* enabled service, or gets a new period.
OverQuotaIsCutOff ==
    overQuota ~> (~overQuota \/ \A n \in ServingNodes : published[n] = 0)

\* The expiry sweeper: an expired subject is cut off everywhere, or renewed.
ExpiredIsCutOff ==
    row.expiry = "past" ~> (row.expiry # "past" \/ \A n \in Nodes : published[n] = 0)

-----------------------------------------------------------------------------
(***************************************************************************)
(* What the repository says of the program and the program does not do.    *)
(***************************************************************************)
Settled == \A a \in Actors : pc[a] = "idle"

\* subjects.go:295 "Delete removes a subject and deprovisions it everywhere."
DeletedIsRevoked ==
    (Settled /\ row.life = "deleted") => \A n \in Nodes : published[n] = 0

\* subjects/subjects.go:75 the document builder and the expiry sweeper "cannot
\* disagree about who is entitled to service": the sweeper retires nobody the
\* builder would serve.
SweeperAgreesWithBuilder ==
    [][(pc["expiry"] = "retire" /\ pc'["expiry"] # "retire" /\ row.enabled /\ ~row'.enabled)
         => \A n \in Nodes : Serving(n) = 0]_vars

\* subjects/subjects.go:571 "Unfreeze unfreezes a subject, restoring access."
UnfreezeRestoresAccess ==
    [][(/\ row.frozen # "no" /\ row'.frozen = "no"
        /\ row.life = "live" /\ row.expiry # "past" /\ ~off)
         => row'.enabled]_vars

\* sp3-design-decisions.md:119 the reset "unfreezes anyone frozen for quota alone":
\* not whom the operator has disabled or frozen.
ResetSparesTheOperator ==
    [][(pc["reset"] = "reset" /\ ~row.enabled /\ row'.enabled)
         => ~off /\ row.frozen = "quota"]_vars
=============================================================================
