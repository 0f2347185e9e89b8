------------------------------ MODULE Deployment ------------------------------
(***************************************************************************)
(* Deployments of one node's revision (internal/panel/deployment/ and      *)
(* internal/panel/httpapi/deployment.go): a goroutine executes each        *)
(* deployment, requests roll finished ones back, a sweeper fails the ones  *)
(* past their deadline, and a restart of the panel fails the ones it       *)
(* interrupted.  Every step is a store write of its own, and may fail; a   *)
(* rollback's writes use the request's context and also fail when the      *)
(* client goes away.  Nothing is sent to the node: applyToNode writes its  *)
(* row and no more.                                                        *)
(***************************************************************************)
EXTENDS Integers, FiniteSets

CONSTANTS
    Strategies,     \* of all_at_once, canary, staged, rolling
    MaxDeployments, \* bound: deployments created
    MaxRollbacks,   \* bound: rollback requests
    MaxDpFaults     \* bound: failed writes and crashes

ASSUME DeploymentAssumption ==
    /\ Strategies \subseteq {"all_at_once", "canary", "staged", "rolling"}
    /\ MaxDeployments \in Nat /\ MaxRollbacks \in Nat /\ MaxDpFaults \in Nat

Deployments == 1 .. MaxDeployments
Rollbacks == 1 .. MaxRollbacks

VARIABLES
    dpStatus,    \* deployments.status, "none" before it is created
    dpPrevious,  \* node_revisions has a revision before the deployed one
    dpRow,       \* deployment_node_status.status of the node
    dpStarted,   \* deployments with a started_at
    dpLate,      \* ... that lies longer ago than the strategy's timeout
    dpExec,      \* where ExecuteDeployment is, per deployment
    dpUndo,      \* where each RollbackDeployment is, and of which deployment
    dpDue,       \* deployments the sweeper's scan found and has not handled
    dpFaults     \* counted against the bound

dpVars == <<dpStatus, dpPrevious, dpRow, dpStarted, dpLate, dpExec,
            dpUndo, dpDue, dpFaults>>

NoRollback == [at |-> "new", of |-> 0]
Over == [at |-> "idle", of |-> 0]

DpInit ==
    /\ dpStatus = [d \in Deployments |-> "none"]
    /\ dpPrevious = [d \in Deployments |-> FALSE]
    /\ dpRow = [d \in Deployments |-> "none"]
    /\ dpStarted = {} /\ dpLate = {}
    /\ dpExec = [d \in Deployments |-> "idle"]
    /\ dpUndo = [r \in Rollbacks |-> NoRollback]
    /\ dpDue = {}
    /\ dpFaults = 0

DpFault == dpFaults < MaxDpFaults /\ dpFaults' = dpFaults + 1

\* One write: done, or failed with nothing changed.
StatusBecomes(d, s) == dpStatus' = [dpStatus EXCEPT ![d] = s] /\ UNCHANGED dpRow
RowBecomes(d, s) == dpRow' = [dpRow EXCEPT ![d] = s] /\ UNCHANGED dpStatus
NothingWritten == UNCHANGED <<dpStatus, dpRow>>

-----------------------------------------------------------------------------
(***************************************************************************)
(* CreateDeployment and ExecuteDeployment.                                 *)
(***************************************************************************)

CreateDeployment(d, previous) ==
    /\ dpStatus[d] = "none" /\ \A e \in Deployments : e < d => dpStatus[e] # "none"
    /\ dpStatus' = [dpStatus EXCEPT ![d] = "pending"]
    /\ dpPrevious' = [dpPrevious EXCEPT ![d] = previous]
    /\ dpRow' = [dpRow EXCEPT ![d] = "pending"]

\* The handler answers 201 and leaves the rest to a goroutine.
handleDeploymentCreate(d) ==
    /\ \E previous \in BOOLEAN : CreateDeployment(d, previous)
    /\ dpExec' = [dpExec EXCEPT ![d] = "start"]
    /\ UNCHANGED <<dpStarted, dpLate, dpUndo, dpDue, dpFaults>>

\* What only creation and the sweeper change.
DpKept == UNCHANGED <<dpPrevious, dpLate, dpUndo, dpDue>>

ExecGoes(d, at) == dpExec' = [dpExec EXCEPT ![d] = at]

\* One transaction: no other deployment of the node in progress, then this
\* one is.  A deployment that is turned away stays pending.
StartExecution(d) ==
    /\ dpExec[d] = "start"
    /\ \/ /\ dpStatus[d] = "pending"
          /\ \A e \in Deployments \ {d} : dpStatus[e] # "in_progress"
          /\ StatusBecomes(d, "in_progress") /\ ExecGoes(d, "stamp")
          /\ UNCHANGED dpFaults
       \/ /\ \E e \in Deployments \ {d} : dpStatus[e] = "in_progress"
          /\ NothingWritten /\ ExecGoes(d, "idle") /\ UNCHANGED dpFaults
       \/ NothingWritten /\ ExecGoes(d, "idle") /\ DpFault
    /\ UNCHANGED dpStarted /\ DpKept

StampStarted(d) ==
    /\ dpExec[d] = "stamp"
    /\ \/ dpStarted' = dpStarted \cup {d} /\ ExecGoes(d, "applying") /\ UNCHANGED dpFaults
       \/ UNCHANGED dpStarted /\ ExecGoes(d, "idle") /\ DpFault
    /\ UNCHANGED <<dpStatus, dpRow>> /\ DpKept

\* A strategy's return: to the rollback if it failed, else to the last write.
Returns(d, failed) ==
    ExecGoes(d, IF failed THEN "undo" ELSE "finish")

\* The strategy is fixed at creation and first matters here, once the node was
\* applied: canary and rolling look at its health, staged and all_at_once, of
\* the only node, do not.
AfterApply(strategy) == IF strategy \in {"canary", "rolling"} THEN strategy ELSE "finish"

\* applyToNode, by every strategy: mark the node applying, then completed.
applyToNode(d) ==
    /\ \/ /\ dpExec[d] = "applying"
          /\ \/ RowBecomes(d, "applying") /\ ExecGoes(d, "applied")
                    /\ UNCHANGED dpFaults
             \/ NothingWritten /\ Returns(d, TRUE) /\ DpFault
       \/ /\ dpExec[d] = "applied"
          /\ \/ RowBecomes(d, "completed")
                    /\ \E s \in Strategies : ExecGoes(d, AfterApply(s))
                    /\ UNCHANGED dpFaults
             \/ NothingWritten /\ Returns(d, TRUE) /\ DpFault
    /\ UNCHANGED dpStarted /\ DpKept

\* From nodes.status: online; offline or disabled; any other; no such node.
CheckNodeHealth == {"healthy", "unhealthy", "degraded", "unknown"}

\* executeCanary marks a node that is not healthy failed; the mark may fail.
executeCanary(d) ==
    /\ dpExec[d] = "canary"
    /\ \E health \in CheckNodeHealth :
           \/ /\ health = "healthy"
              /\ NothingWritten /\ Returns(d, FALSE) /\ UNCHANGED dpFaults
           \/ /\ health # "healthy"
              /\ RowBecomes(d, "failed") /\ Returns(d, TRUE) /\ UNCHANGED dpFaults
           \/ /\ health # "healthy"
              /\ NothingWritten /\ Returns(d, TRUE) /\ DpFault
    /\ UNCHANGED dpStarted /\ DpKept

\* executeRolling only reports it.
executeRolling(d) ==
    /\ dpExec[d] = "rolling"
    /\ \E health \in CheckNodeHealth : Returns(d, health # "healthy")
    /\ NothingWritten
    /\ UNCHANGED <<dpStarted, dpFaults>> /\ DpKept

\* Mutant of Deployed: a node that is still being applied is left out.
DeployedCompletely(d) == dpRow[d] = "completed"

\* initiateRollback reads which rows there are to roll back; with any, the
\* node must have an earlier revision.
Deployed(d) == dpRow[d] \in {"completed", "applying"}

UndoDeployment(d) ==
    /\ dpExec[d] = "undo"
    /\ NothingWritten
    /\ ExecGoes(d, CASE ~Deployed(d) -> "finish undone"
                  [] Deployed(d) /\ dpPrevious[d] -> "undo row"
                  [] OTHER -> "finish failed")
    /\ UNCHANGED <<dpStarted, dpFaults>> /\ DpKept

\* rollbackNode writes the row.
UndoRow(d) ==
    /\ dpExec[d] = "undo row"
    /\ \/ RowBecomes(d, "rolled_back") /\ ExecGoes(d, "finish undone") /\ UNCHANGED dpFaults
       \/ NothingWritten /\ ExecGoes(d, "finish failed") /\ DpFault
    /\ UNCHANGED dpStarted /\ DpKept

FinalStatus(at) ==
    CASE at = "finish" -> "completed"
      [] at = "finish undone" -> "rolled_back"
      [] at = "finish failed" -> "failed"

\* The last write.  When it fails the deployment stays in progress.
FinishExecution(d) ==
    /\ dpExec[d] \in {"finish", "finish undone", "finish failed"}
    /\ \/ StatusBecomes(d, FinalStatus(dpExec[d])) /\ UNCHANGED dpFaults
       \/ NothingWritten /\ DpFault
    /\ ExecGoes(d, "idle")
    /\ UNCHANGED dpStarted /\ DpKept

-----------------------------------------------------------------------------
(***************************************************************************)
(* RollbackDeployment, by request.                                         *)
(***************************************************************************)

RollbackKept == UNCHANGED <<dpPrevious, dpStarted, dpLate, dpExec,
                            dpDue>>

RollbackGoes(r, at) == dpUndo' = [dpUndo EXCEPT ![r].at = at]
RollbackEnds(r) == dpUndo' = [dpUndo EXCEPT ![r] = Over]

\* The status is read here and written in the next step.
handleDeploymentRollback(r, d) ==
    /\ dpUndo[r].at = "new" /\ \A b \in Rollbacks : b < r => dpUndo[b].at # "new"
    /\ dpStatus[d] \in {"completed", "failed"}
    /\ dpUndo' = [dpUndo EXCEPT ![r] = [at |-> "mark", of |-> d]]
    /\ NothingWritten /\ UNCHANGED dpFaults /\ RollbackKept

MarkRollback(r) ==
    /\ dpUndo[r].at = "mark"
    /\ \/ StatusBecomes(dpUndo[r].of, "in_progress") /\ RollbackGoes(r, "undo")
              /\ UNCHANGED dpFaults
       \/ NothingWritten /\ RollbackEnds(r) /\ DpFault
    /\ RollbackKept

UndoRequested(r) ==
    /\ dpUndo[r].at = "undo"
    /\ LET d == dpUndo[r].of
       IN RollbackGoes(r, CASE ~Deployed(d) -> "finish undone"
                         [] Deployed(d) /\ dpPrevious[d] -> "undo row"
                         [] OTHER -> "finish failed")
    /\ NothingWritten /\ UNCHANGED dpFaults /\ RollbackKept

UndoRowRequested(r) ==
    /\ dpUndo[r].at = "undo row"
    /\ \/ RowBecomes(dpUndo[r].of, "rolled_back") /\ RollbackGoes(r, "finish undone")
              /\ UNCHANGED dpFaults
       \/ NothingWritten /\ RollbackGoes(r, "finish failed") /\ DpFault
    /\ RollbackKept

FinishRollback(r) ==
    /\ dpUndo[r].at \in {"finish undone", "finish failed"}
    /\ \/ StatusBecomes(dpUndo[r].of, FinalStatus(dpUndo[r].at)) /\ UNCHANGED dpFaults
       \/ NothingWritten /\ DpFault
    /\ RollbackEnds(r)
    /\ RollbackKept

-----------------------------------------------------------------------------
(***************************************************************************)
(* The timeout sweeper and the recovery at start-up.                       *)
(***************************************************************************)

\* Minutes pass.  An execution takes seconds (30 of sleep at most), so a
\* deadline is only met by one that is over.
DeadlinePasses(d) ==
    /\ d \in dpStarted \ dpLate /\ dpExec[d] = "idle"
    /\ dpLate' = dpLate \cup {d}
    /\ UNCHANGED <<dpStatus, dpPrevious, dpRow, dpStarted, dpExec,
                   dpUndo, dpDue, dpFaults>>

\* Mutant of FindTimedOut: goes by the node's row.
FindStuckRows ==
    /\ dpDue = {}
    /\ dpDue' = {d \in dpStarted \cap dpLate : dpRow[d] = "applying"}
    /\ dpDue' # {}
    /\ UNCHANGED <<dpStatus, dpPrevious, dpRow, dpStarted, dpLate, dpExec, dpUndo, dpFaults>>

\* EnforceTimeouts, its query: in progress, started, and late.
FindTimedOut ==
    /\ dpDue = {}
    /\ dpDue' = {d \in dpStarted \cap dpLate : dpStatus[d] = "in_progress"}
    /\ dpDue' # {}
    /\ UNCHANGED <<dpStatus, dpPrevious, dpRow, dpStarted, dpLate, dpExec,
                   dpUndo, dpFaults>>

FailedRow(row) == IF row \in {"pending", "applying"} THEN "failed" ELSE row

\* Its transaction for one of them; the status is not looked at again.
FailTimedOut(d) ==
    /\ d \in dpDue
    /\ dpDue' = dpDue \ {d}
    /\ \/ /\ dpStatus' = [dpStatus EXCEPT ![d] = "failed"]
          /\ dpRow' = [dpRow EXCEPT ![d] = FailedRow(@)]
          /\ UNCHANGED dpFaults
       \/ NothingWritten /\ DpFault
    /\ UNCHANGED <<dpPrevious, dpStarted, dpLate, dpExec, dpUndo>>

\* The panel dies and starts again; RecoverStaleDeployments comes before the
\* server and the sweepers.  Its transaction for a deployment may fail.
RecoverStaleDeployments ==
    /\ DpFault
    /\ LET stale == {d \in Deployments : dpStatus[d] = "in_progress"}
       IN \E done \in {stale} \cup {stale \ {d} : d \in stale} :
              /\ dpStatus' = [d \in Deployments |-> IF d \in done THEN "failed" ELSE dpStatus[d]]
              /\ dpRow' = [d \in Deployments |-> IF d \in done THEN FailedRow(dpRow[d])
                                                 ELSE dpRow[d]]
    /\ dpExec' = [d \in Deployments |-> "idle"]
    /\ dpUndo' = [r \in Rollbacks |-> IF dpUndo[r].at = "new" THEN NoRollback ELSE Over]
    /\ dpDue' = {}
    /\ UNCHANGED <<dpPrevious, dpStarted, dpLate>>

Execute(d) == \/ StartExecution(d) \/ StampStarted(d) \/ applyToNode(d)
              \/ executeCanary(d) \/ executeRolling(d)
              \/ UndoDeployment(d) \/ UndoRow(d) \/ FinishExecution(d)

Rollback(r) == \/ MarkRollback(r) \/ UndoRequested(r) \/ UndoRowRequested(r)
               \/ FinishRollback(r)

EnforceTimeouts == FindTimedOut \/ \E d \in Deployments : FailTimedOut(d)

DpNext ==
    \/ \E d \in Deployments :
           \/ handleDeploymentCreate(d)
           \/ Execute(d)
           \/ DeadlinePasses(d)
           \/ \E r \in Rollbacks : handleDeploymentRollback(r, d)
    \/ \E r \in Rollbacks : Rollback(r)
    \/ EnforceTimeouts
    \/ RecoverStaleDeployments

\* Goroutines and requests run; the sweeper ticks; time passes.
DpFairness ==
    /\ \A d \in Deployments : WF_dpVars(Execute(d)) /\ WF_dpVars(DeadlinePasses(d))
    /\ \A r \in Rollbacks : WF_dpVars(Rollback(r))
    /\ WF_dpVars(EnforceTimeouts)

DpSpec == DpInit /\ [][DpNext]_dpVars /\ DpFairness
-----------------------------------------------------------------------------

DpStatuses == {"none", "pending", "in_progress", "completed", "failed", "rolled_back"}
DpPlaces == {"idle", "start", "stamp", "applying", "applied", "canary", "rolling", "mark", "undo",
             "undo row", "new", "finish", "finish undone", "finish failed"}

DpTypeOK ==
    /\ dpStatus \in [Deployments -> DpStatuses]
    /\ dpPrevious \in [Deployments -> BOOLEAN]
    /\ dpRow \in [Deployments -> {"none", "pending", "applying", "completed", "failed",
                                  "rolled_back"}]
    /\ dpLate \subseteq dpStarted /\ dpStarted \subseteq Deployments
    /\ dpExec \in [Deployments -> DpPlaces]
    /\ dpUndo \in [Rollbacks -> [at : DpPlaces, of : 0 .. MaxDeployments]]
    /\ dpDue \subseteq Deployments
    /\ dpFaults \in 0 .. MaxDpFaults

\* What a deployment says of itself agrees with what it did to the node's row:
\* completed only with the node completed, rolled back only with nothing left
\* deployed, whichever of the executor, two rollbacks, the sweeper and the
\* recovery wrote last and whichever of their writes failed.
StatusMatchesRow ==
    \A d \in Deployments :
        /\ dpStatus[d] = "completed" => dpRow[d] = "completed"
        /\ dpStatus[d] = "rolled_back" => dpRow[d] \notin {"completed", "applying"}

\* A deployment that has started does not stay in progress, which would keep
\* every later deployment of the node out: the executor, the rollback or the
\* sweeper ends it.
DeploymentEnds ==
    \A d \in Deployments :
        dpStatus[d] = "in_progress" /\ d \in dpStarted ~> dpStatus[d] # "in_progress"

\* orchestrator.go:131: "Atomically check for concurrent deployments".
\* Refuted: RollbackDeployment puts a deployment in progress unchecked.
OneInProgress ==
    Cardinality({d \in Deployments : dpStatus[d] = "in_progress"}) <= 1

\* Refuted: a pending deployment that was turned away, or whose panel died,
\* is never executed, and one whose started_at could not be written never
\* times out.
EveryDeploymentEnds ==
    \A d \in Deployments :
        dpStatus[d] \in {"pending", "in_progress"} ~> dpStatus[d] \notin {"pending", "in_progress"}

\* timeout.go:111-113: a deployment that has ended stays as it ended unless
\* somebody rolls it back.  Refuted: the sweeper's list is stale.
EndedStays ==
    [][\A d \in Deployments : dpStatus[d] \in {"completed", "rolled_back"} =>
           dpStatus'[d] \in {dpStatus[d], "in_progress"}]_dpVars
=============================================================================
