---------------------------- MODULE SettlingProofs ----------------------------
(***************************************************************************)
(* Proofs about deployments, for any strategies and any number of          *)
(* deployments, rollback requests and failed writes; about the alert       *)
(* sweeper, for any number of changes and failed writes; and about these   *)
(* and the adapters explored side by side.                                 *)
(***************************************************************************)
EXTENDS MCSettling, AdapterProofs

-----------------------------------------------------------------------------
(* Deployments: the inductive invariant. *)

\* While a deployment is being executed nobody else writes its two columns: it has
\* not been rolled back, as it has not ended, and has not met its deadline.
ExecInv ==
    /\ \A d \in Deployments : dpExec[d] = "start" => dpStatus[d] = "pending"
    /\ \A d \in Deployments : dpExec[d] \notin {"idle", "start"} => dpStatus[d] = "in_progress"
    /\ \A d \in dpLate : dpExec[d] = "idle"
    /\ \A d \in Deployments : dpExec[d] \in {"canary", "rolling", "finish"} =>
           dpRow[d] = "completed"
    /\ \A d \in Deployments : dpExec[d] = "finish undone" => ~Deployed(d)
    /\ \A d \in dpStarted : dpStatus[d] \notin {"none", "pending"}
    /\ dpDue \subseteq dpLate

\* A rollback is of a deployment whose execution is over; once it has marked it, the
\* deployment is not completed again, and what it found undone stays undone.
UndoInv ==
    \A r \in Rollbacks :
        dpUndo[r].at \notin {"new", "idle"} =>
            /\ dpUndo[r].of \in Deployments
            /\ dpExec[dpUndo[r].of] = "idle"
            /\ dpStatus[dpUndo[r].of] \notin {"none", "pending"}
            /\ dpUndo[r].at # "mark" => dpStatus[dpUndo[r].of] # "completed"
            /\ dpUndo[r].at = "finish undone" => ~Deployed(dpUndo[r].of)

DpInv == DpTypeOK /\ ExecInv /\ UndoInv /\ StatusMatchesRow

-----------------------------------------------------------------------------

\* An orchestration that is over has one of the four final statuses.
LEMMA OverFacts ==
    /\ Over \in [at : DpPlaces, of : 0 .. MaxDeployments] /\ Over.at = "idle"
    /\ NoRollback \in [at : DpPlaces, of : 0 .. MaxDeployments] /\ NoRollback.at = "new"
<1> DEFINE zero == 0
<1>1. zero \in 0 .. MaxDeployments /\ "idle" \in DpPlaces /\ "new" \in DpPlaces
  BY DeploymentAssumption DEF DpPlaces
<1>2. Over = [at |-> "idle", of |-> zero] /\ NoRollback = [at |-> "new", of |-> zero]
  BY DEF Over, NoRollback
<1> HIDE DEF zero
<1>3. QED
  BY <1>1, <1>2

\* Nothing is deployed at first.
LEMMA DpInitInv == DpInit => DpInv
<1> SUFFICES ASSUME DpInit PROVE DpInv
  OBVIOUS
<1>1. DpTypeOK
  <2>1. "idle" \in DpPlaces /\ "none" \in DpStatuses /\ 0 \in 0 .. MaxDpFaults
    BY DeploymentAssumption DEF DpPlaces, DpStatuses
  <2>2. /\ dpStatus \in [Deployments -> DpStatuses] /\ dpExec \in [Deployments -> DpPlaces]
        /\ dpUndo \in [Rollbacks -> [at : DpPlaces, of : 0 .. MaxDeployments]]
    BY <2>1, OverFacts DEF DpInit
  <2>3. QED
    BY <2>1, <2>2 DEF DpInit, DpTypeOK
<1>2. ExecInv /\ StatusMatchesRow
  BY DEF DpInit, ExecInv, StatusMatchesRow
<1>3. UndoInv
  BY OverFacts DEF DpInit, UndoInv
<1>4. QED
  BY <1>1, <1>2, <1>3 DEF DpInv

\* What the invariant says of one deployment: its columns and its execution.
Agrees(s, w, e) ==
    /\ e = "start" => s = "pending"
    /\ e \notin {"idle", "start"} => s = "in_progress"
    /\ e \in {"canary", "rolling", "finish"} => w = "completed"
    /\ e = "finish undone" => w \notin {"completed", "applying"}
    /\ s = "completed" => w = "completed"
    /\ s = "rolled_back" => w \notin {"completed", "applying"}

DpRows == {"none", "pending", "applying", "completed", "failed", "rolled_back"}

\* What is shown of one deployment is shown of all.
LEMMA EachAgrees ==
    ASSUME DpInv
    PROVE  /\ \A d \in Deployments :
                  /\ Agrees(dpStatus[d], dpRow[d], dpExec[d])
                  /\ dpStatus[d] \in DpStatuses /\ dpRow[d] \in DpRows /\ dpExec[d] \in DpPlaces
                  /\ d \in dpStarted => dpStatus[d] \notin {"none", "pending"}
                  /\ d \in dpLate => dpExec[d] = "idle"
           /\ dpStatus \in [Deployments -> DpStatuses] /\ dpRow \in [Deployments -> DpRows]
           /\ dpExec \in [Deployments -> DpPlaces] /\ dpFaults \in 0 .. MaxDpFaults
           /\ dpUndo \in [Rollbacks -> [at : DpPlaces, of : 0 .. MaxDeployments]]
           /\ dpStarted \subseteq Deployments /\ dpLate \subseteq dpStarted /\ dpDue \subseteq dpLate
BY DEF DpInv, DpTypeOK, ExecInv, StatusMatchesRow, Agrees, DpRows, Deployed

\* The execution of d writes its columns while no rollback holds d.
LEMMA ExecWrites ==
    ASSUME DpInv, NEW d \in Deployments,
           NEW s \in DpStatuses, NEW w \in DpRows, NEW e \in DpPlaces,
           dpExec[d] # "idle", Agrees(s, w, e),
           dpStatus' = [dpStatus EXCEPT ![d] = s], dpRow' = [dpRow EXCEPT ![d] = w],
           dpExec' = [dpExec EXCEPT ![d] = e],
           dpStarted' \in {dpStarted, dpStarted \cup {d}},
           d \in dpStarted' => s \notin {"none", "pending"},
           dpFaults' \in 0 .. MaxDpFaults, DpKept
    PROVE  DpInv'
<1> USE DEF Deployed, DpKept
<1>1. d \notin dpLate
  BY EachAgrees
<1>2. DpTypeOK'
  BY EachAgrees DEF DpInv, DpTypeOK, DpRows
<1>3. ExecInv'
  BY <1>1, EachAgrees DEF DpInv, ExecInv, Agrees
<1>4. StatusMatchesRow'
  BY EachAgrees DEF Agrees, StatusMatchesRow
<1>5. \A r \in Rollbacks : dpUndo[r].at \notin {"new", "idle"} => dpUndo[r].of # d
  BY DEF DpInv, UndoInv
<1>6. UndoInv'
  BY <1>5, EachAgrees DEF DpInv, UndoInv
<1>7. QED
  BY <1>2, <1>3, <1>4, <1>6 DEF DpInv

\* A step of the execution of d.
LEMMA ExecSteps ==
    ASSUME DpInv, NEW d \in Deployments, Execute(d)
    PROVE  DpInv'
<1> USE DEF DpKept, ExecGoes, Returns, StatusBecomes, RowBecomes, NothingWritten, Deployed
<1>0. /\ Agrees(dpStatus[d], dpRow[d], dpExec[d])
      /\ dpStatus[d] \in DpStatuses /\ dpRow[d] \in DpRows /\ dpExec[d] \in DpPlaces
      /\ d \in dpStarted => dpStatus[d] \notin {"none", "pending"}
      /\ dpStatus \in [Deployments -> DpStatuses] /\ dpRow \in [Deployments -> DpRows]
      /\ dpExec \in [Deployments -> DpPlaces] /\ dpFaults \in 0 .. MaxDpFaults
  BY EachAgrees
<1> DEFINE Writes(s, w, e) ==
             /\ s \in DpStatuses /\ w \in DpRows /\ e \in DpPlaces
             /\ dpStatus' = [dpStatus EXCEPT ![d] = s] /\ dpRow' = [dpRow EXCEPT ![d] = w]
             /\ dpExec' = [dpExec EXCEPT ![d] = e]
             /\ Agrees(s, w, e) /\ dpExec[d] # "idle"
             /\ dpStarted' \in {dpStarted, dpStarted \cup {d}}
             /\ d \in dpStarted' => s \notin {"none", "pending"}
             /\ dpFaults' \in 0 .. MaxDpFaults /\ DpKept
<1>1. ASSUME NEW s, NEW w, NEW e, Writes(s, w, e) PROVE DpInv'
  BY <1>1, ExecWrites
<1> HIDE DEF Writes
<1>faults. ASSUME DpFault \/ UNCHANGED dpFaults PROVE dpFaults' \in 0 .. MaxDpFaults
  BY <1>0, <1>faults, DeploymentAssumption DEF DpFault
<1>names. /\ {"idle", "stamp", "applying", "applied", "canary", "rolling", "undo", "undo row",
              "finish", "finish undone", "finish failed"} \subseteq DpPlaces
          /\ {"in_progress", "completed", "failed", "rolled_back"} \subseteq DpStatuses
          /\ {"applying", "completed", "failed", "rolled_back"} \subseteq DpRows
  BY DEF DpPlaces, DpStatuses, DpRows
<1>same. /\ dpStatus = [dpStatus EXCEPT ![d] = dpStatus[d]]
         /\ dpRow = [dpRow EXCEPT ![d] = dpRow[d]]
         /\ dpExec = [dpExec EXCEPT ![d] = dpExec[d]]
  BY <1>0
<1>2. CASE StartExecution(d)
  <2>1. \/ Writes("in_progress", dpRow[d], "stamp")
        \/ Writes(dpStatus[d], dpRow[d], "idle")
    BY <1>0, <1>same, <1>faults, <1>names, <1>2
       DEF Writes, StartExecution, Agrees
  <2>2. QED
    BY <1>1, <2>1
<1>3. CASE StampStarted(d)
  <2>1. \/ Writes(dpStatus[d], dpRow[d], "applying")
        \/ Writes(dpStatus[d], dpRow[d], "idle")
    BY <1>0, <1>same, <1>faults, <1>names, <1>3
       DEF Writes, StampStarted, Agrees
  <2>2. QED
    BY <1>1, <2>1
<1>4. CASE applyToNode(d)
  <2>1. \/ Writes(dpStatus[d], "applying", "applied")
        \/ Writes(dpStatus[d], dpRow[d], "undo")
        \/ \E s \in Strategies : Writes(dpStatus[d], "completed", AfterApply(s))
    BY <1>0, <1>same, <1>faults, <1>names, <1>4
       DEF Writes, applyToNode, AfterApply, Agrees
  <2>2. QED
    BY <1>1, <2>1
<1>5. CASE executeCanary(d)
  <2>1. \/ Writes(dpStatus[d], dpRow[d], "finish")
        \/ Writes(dpStatus[d], "failed", "undo")
        \/ Writes(dpStatus[d], dpRow[d], "undo")
    BY <1>0, <1>same, <1>faults, <1>names, <1>5
       DEF Writes, executeCanary, Agrees
  <2>2. QED
    BY <1>1, <2>1
<1>6. CASE executeRolling(d)
  <2>1. \/ Writes(dpStatus[d], dpRow[d], "finish")
        \/ Writes(dpStatus[d], dpRow[d], "undo")
    BY <1>0, <1>same, <1>faults, <1>names, <1>6
       DEF Writes, executeRolling, Agrees
  <2>2. QED
    BY <1>1, <2>1
<1>7. CASE UndoDeployment(d)
  <2>1. \/ Writes(dpStatus[d], dpRow[d], "finish undone")
        \/ Writes(dpStatus[d], dpRow[d], "undo row")
        \/ Writes(dpStatus[d], dpRow[d], "finish failed")
    BY <1>0, <1>same, <1>faults, <1>names, <1>7
       DEF Writes, UndoDeployment, Agrees
  <2>2. QED
    BY <1>1, <2>1
<1>8. CASE UndoRow(d)
  <2>1. \/ Writes(dpStatus[d], "rolled_back", "finish undone")
        \/ Writes(dpStatus[d], dpRow[d], "finish failed")
    BY <1>0, <1>same, <1>faults, <1>names, <1>8
       DEF Writes, UndoRow, Agrees
  <2>2. QED
    BY <1>1, <2>1
<1>9. CASE FinishExecution(d)
  <2>1. \/ Writes(FinalStatus(dpExec[d]), dpRow[d], "idle")
        \/ Writes(dpStatus[d], dpRow[d], "idle")
    BY <1>0, <1>same, <1>faults, <1>names, <1>9
       DEF Writes, FinishExecution, FinalStatus, Agrees
  <2>2. QED
    BY <1>1, <2>1
<1>10. QED
  BY <1>2, <1>3, <1>4, <1>5, <1>6, <1>7, <1>8, <1>9 DEF Execute

\* A rollback writes the columns of d, whose execution is over, and turns the
\* deployment away from completed; other rollbacks of d may be between their steps.
LEMMA RollbackWrites ==
    ASSUME DpInv, NEW r \in Rollbacks, NEW d \in Deployments,
           NEW s \in DpStatuses, NEW w \in DpRows,
           NEW u \in [at : DpPlaces, of : 0 .. MaxDeployments],
           dpExec[d] = "idle", Agrees(s, w, "idle"),
           s = dpStatus[d] \/ s \notin {"none", "pending", "completed"},
           w \in {dpRow[d], "rolled_back"},
           u.at \notin {"new", "idle"} => u.of = d /\ s \notin {"none", "pending"},
           u.at \notin {"new", "idle", "mark"} => s # "completed",
           u.at = "finish undone" => w \notin {"completed", "applying"},
           dpStatus' = [dpStatus EXCEPT ![d] = s], dpRow' = [dpRow EXCEPT ![d] = w],
           dpUndo' = [dpUndo EXCEPT ![r] = u],
           dpFaults' \in 0 .. MaxDpFaults, RollbackKept
    PROVE  DpInv'
<1> USE DEF Deployed, RollbackKept
<1>1. DpTypeOK'
  BY EachAgrees DEF DpInv, DpTypeOK, DpRows
<1>2. ExecInv'
  BY EachAgrees DEF DpInv, ExecInv, Agrees
<1>3. StatusMatchesRow'
  BY EachAgrees DEF Agrees, StatusMatchesRow
<1>4. ASSUME NEW q \in Rollbacks, dpUndo'[q].at \notin {"new", "idle"}
      PROVE  /\ dpUndo'[q].of \in Deployments
             /\ dpExec'[dpUndo'[q].of] = "idle"
             /\ dpStatus'[dpUndo'[q].of] \notin {"none", "pending"}
             /\ dpUndo'[q].at # "mark" => dpStatus'[dpUndo'[q].of] # "completed"
             /\ dpUndo'[q].at = "finish undone" => ~Deployed(dpUndo[q].of)'
  <2>1. CASE q = r
    BY <1>4, <2>1, EachAgrees
  <2>2. CASE q # r
    <3>1. dpUndo'[q] = dpUndo[q]
      BY <2>2, EachAgrees
    <3>2. QED
      BY <1>4, <3>1, EachAgrees DEF DpInv, UndoInv
  <2>3. QED
    BY <2>1, <2>2
<1>5. UndoInv'
  BY <1>4 DEF UndoInv
<1>6. QED
  BY <1>1, <1>2, <1>3, <1>5 DEF DpInv

\* A step of a rollback request.
LEMMA RollbackSteps ==
    ASSUME DpInv, NEW r \in Rollbacks,
           Rollback(r) \/ \E d \in Deployments : handleDeploymentRollback(r, d)
    PROVE  DpInv'
<1> USE DEF RollbackKept, RollbackGoes, RollbackEnds, Over, StatusBecomes, RowBecomes,
            NothingWritten, Deployed
<1> DEFINE Writes(d, s, w, u) ==
             /\ d \in Deployments
             /\ s \in DpStatuses /\ w \in DpRows /\ u \in [at : DpPlaces, of : 0 .. MaxDeployments]
             /\ dpExec[d] = "idle" /\ Agrees(s, w, "idle")
             /\ s = dpStatus[d] \/ s \notin {"none", "pending", "completed"}
             /\ w \in {dpRow[d], "rolled_back"}
             /\ u.at \notin {"new", "idle"} => u.of = d /\ s \notin {"none", "pending"}
             /\ u.at \notin {"new", "idle", "mark"} => s # "completed"
             /\ u.at = "finish undone" => w \notin {"completed", "applying"}
             /\ dpStatus' = [dpStatus EXCEPT ![d] = s] /\ dpRow' = [dpRow EXCEPT ![d] = w]
             /\ dpUndo' = [dpUndo EXCEPT ![r] = u]
             /\ dpFaults' \in 0 .. MaxDpFaults /\ RollbackKept
<1>0. ASSUME NEW d, NEW s, NEW w, NEW u, Writes(d, s, w, u) PROVE DpInv'
  BY <1>0, RollbackWrites
<1> HIDE DEF Writes
<1>1. /\ dpStatus \in [Deployments -> DpStatuses] /\ dpRow \in [Deployments -> DpRows]
      /\ dpFaults \in 0 .. MaxDpFaults /\ dpUndo[r] \in [at : DpPlaces, of : 0 .. MaxDeployments]
      /\ dpUndo \in [Rollbacks -> [at : DpPlaces, of : 0 .. MaxDeployments]]
      /\ \A d \in Deployments : Agrees(dpStatus[d], dpRow[d], dpExec[d])
  BY EachAgrees
<1>faults. ASSUME DpFault \/ UNCHANGED dpFaults PROVE dpFaults' \in 0 .. MaxDpFaults
  BY <1>1, <1>faults, DeploymentAssumption DEF DpFault
<1>names. /\ {"idle", "mark", "undo", "undo row", "finish undone", "finish failed"} \subseteq DpPlaces
          /\ {"in_progress", "completed", "failed", "rolled_back"} \subseteq DpStatuses
          /\ "rolled_back" \in DpRows
  BY DEF DpPlaces, DpStatuses, DpRows
<1>2. ASSUME NEW d \in Deployments, handleDeploymentRollback(r, d) PROVE DpInv'
  <2>1. dpExec[d] = "idle"
    BY <1>1, <1>2 DEF handleDeploymentRollback, Agrees
  <2>2. Writes(d, dpStatus[d], dpRow[d], [at |-> "mark", of |-> d])
    <3> DEFINE u == [at |-> "mark", of |-> d]
    <3>1. d \in 0 .. MaxDeployments
      BY DeploymentAssumption DEF Deployments
    <3>2. u \in [at : DpPlaces, of : 0 .. MaxDeployments] /\ u.at = "mark" /\ u.of = d
      BY <3>1, <1>names
    <3>3. /\ dpStatus' = [dpStatus EXCEPT ![d] = dpStatus[d]]
          /\ dpRow' = [dpRow EXCEPT ![d] = dpRow[d]]
          /\ dpUndo' = [dpUndo EXCEPT ![r] = u]
          /\ dpStatus[d] \in {"completed", "failed"} /\ dpFaults' = dpFaults
          /\ UNCHANGED <<dpPrevious, dpStarted, dpLate, dpExec, dpDue>>
      BY <1>1, <1>2 DEF handleDeploymentRollback
    <3> HIDE DEF u
    <3>4. Agrees(dpStatus[d], dpRow[d], "idle") /\ dpStatus[d] \in DpStatuses /\ dpRow[d] \in DpRows
      BY <1>1, <2>1
    <3>5. Writes(d, dpStatus[d], dpRow[d], u)
      BY <1>1, <1>faults, <2>1, <3>2, <3>3, <3>4 DEF Writes
    <3>6. QED
      BY <3>5 DEF u
  <2>3. QED
    BY <1>0, <2>2
<1>3. ASSUME Rollback(r) PROVE DpInv'
  <2> DEFINE d == dpUndo[r].of
  <2>1. /\ d \in Deployments /\ dpExec[d] = "idle" /\ dpStatus[d] \notin {"none", "pending"}
        /\ dpUndo[r].at # "mark" => dpStatus[d] # "completed"
        /\ dpUndo[r].at = "finish undone" => ~Deployed(d)
        /\ Agrees(dpStatus[d], dpRow[d], "idle")
    BY <1>1, <1>3
       DEF Rollback, MarkRollback, UndoRequested, UndoRowRequested, FinishRollback, DpInv, UndoInv
  <2>2. /\ dpStatus = [dpStatus EXCEPT ![d] = dpStatus[d]]
        /\ dpRow = [dpRow EXCEPT ![d] = dpRow[d]]
    BY <1>1
  <2> DEFINE Goes(at) == [dpUndo[r] EXCEPT !.at = at]
  <2>3. ASSUME NEW at \in DpPlaces
        PROVE  Goes(at) \in [at : DpPlaces, of : 0 .. MaxDeployments]
               /\ Goes(at).at = at /\ Goes(at).of = d
    BY <1>1
  <2>4. Over \in [at : DpPlaces, of : 0 .. MaxDeployments] /\ Over.at = "idle"
    BY OverFacts
  <2>5. \A at : RollbackGoes(r, at) => dpUndo' = [dpUndo EXCEPT ![r] = Goes(at)]
    OBVIOUS
  <2> HIDE DEF Goes, RollbackGoes, Over, d
  <2>6. CASE MarkRollback(r)
    <3>1. \/ Writes(d, "in_progress", dpRow[d], Goes("undo"))
          \/ Writes(d, dpStatus[d], dpRow[d], Over)
      BY <1>1, <1>faults, <1>names, <2>1, <2>2, <2>3, <2>4, <2>5, <2>6
         DEF Writes, Agrees, d, MarkRollback
    <3>2. QED
      BY <1>0, <3>1
  <2>7. CASE UndoRequested(r)
    <3>1. \/ Writes(d, dpStatus[d], dpRow[d], Goes("finish undone"))
          \/ Writes(d, dpStatus[d], dpRow[d], Goes("undo row"))
          \/ Writes(d, dpStatus[d], dpRow[d], Goes("finish failed"))
      BY <1>1, <1>faults, <1>names, <2>1, <2>2, <2>3, <2>4, <2>5, <2>7
         DEF Writes, Agrees, d, UndoRequested
    <3>2. QED
      BY <1>0, <3>1
  <2>8. CASE UndoRowRequested(r)
    <3>1. \/ Writes(d, dpStatus[d], "rolled_back", Goes("finish undone"))
          \/ Writes(d, dpStatus[d], dpRow[d], Goes("finish failed"))
      BY <1>1, <1>faults, <1>names, <2>1, <2>2, <2>3, <2>4, <2>5, <2>8
         DEF Writes, Agrees, d, UndoRowRequested
    <3>2. QED
      BY <1>0, <3>1
  <2>9. CASE FinishRollback(r)
    <3>1. \/ Writes(d, FinalStatus(dpUndo[r].at), dpRow[d], Over)
          \/ Writes(d, dpStatus[d], dpRow[d], Over)
      BY <1>1, <1>faults, <1>names, <2>1, <2>2, <2>3, <2>4, <2>5, <2>9
         DEF Writes, Agrees, d, FinishRollback, FinalStatus
    <3>2. QED
      BY <1>0, <3>1
  <2>10. QED
    BY <1>3, <2>6, <2>7, <2>8, <2>9 DEF Rollback
<1>4. QED
  BY <1>2, <1>3

\* Creation, the clock, the sweeper and the restart.
LEMMA OtherSteps ==
    ASSUME DpInv,
           \/ \E d \in Deployments : handleDeploymentCreate(d) \/ DeadlinePasses(d)
           \/ EnforceTimeouts
           \/ RecoverStaleDeployments
           \/ UNCHANGED dpVars
    PROVE  DpInv'
<1> USE DEF NothingWritten, Deployed
<1>0. DpTypeOK /\ ExecInv /\ UndoInv /\ StatusMatchesRow
  BY DEF DpInv
<1>faults. ASSUME DpFault \/ UNCHANGED dpFaults PROVE dpFaults' \in 0 .. MaxDpFaults
  BY <1>0, <1>faults, DeploymentAssumption DEF DpFault, DpTypeOK
<1>1. ASSUME NEW d \in Deployments, handleDeploymentCreate(d) PROVE DpInv'
  <2>1. /\ dpStatus[d] = "none" /\ dpStatus' = [dpStatus EXCEPT ![d] = "pending"]
        /\ dpRow' = [dpRow EXCEPT ![d] = "pending"] /\ dpExec' = [dpExec EXCEPT ![d] = "start"]
        /\ \E previous \in BOOLEAN : dpPrevious' = [dpPrevious EXCEPT ![d] = previous]
        /\ UNCHANGED <<dpStarted, dpLate, dpUndo, dpDue, dpFaults>>
    BY <1>1 DEF handleDeploymentCreate, CreateDeployment
  <2>2. d \notin dpStarted /\ d \notin dpLate
    BY <2>1, EachAgrees
  <2>3. DpTypeOK'
    BY <1>0, <2>1 DEF DpTypeOK, DpStatuses, DpPlaces
  <2>4. ExecInv' /\ StatusMatchesRow'
    <3>1. \A e \in Deployments :
            IF e = d THEN dpStatus'[e] = "pending" /\ dpExec'[e] = "start" /\ dpRow'[e] = "pending"
            ELSE dpStatus'[e] = dpStatus[e] /\ dpExec'[e] = dpExec[e] /\ dpRow'[e] = dpRow[e]
      BY <2>1, EachAgrees
    <3>2. StatusMatchesRow'
      BY <1>0, <3>1 DEF StatusMatchesRow
    <3>3. \A e \in Deployments : dpExec'[e] = "start" => dpStatus'[e] = "pending"
      BY <1>0, <3>1 DEF ExecInv
    <3>4. \A e \in Deployments : dpExec'[e] \notin {"idle", "start"} => dpStatus'[e] = "in_progress"
      BY <1>0, <3>1 DEF ExecInv
    <3>5. \A e \in Deployments : dpExec'[e] \in {"canary", "rolling", "finish"} =>
            dpRow'[e] = "completed"
      BY <1>0, <3>1 DEF ExecInv
    <3>6. \A e \in Deployments : dpExec'[e] = "finish undone" =>
            dpRow'[e] \notin {"completed", "applying"}
      BY <1>0, <3>1 DEF ExecInv
    <3>7. \A e \in dpStarted : e \in Deployments /\ e # d /\ dpStatus'[e] = dpStatus[e]
                                  /\ dpExec'[e] = dpExec[e]
      BY <2>2, <3>1, EachAgrees
    <3>8. dpStarted' = dpStarted /\ dpLate' = dpLate /\ dpDue' = dpDue /\ dpLate \subseteq dpStarted
      BY <2>1, EachAgrees
    <3>9. ExecInv'
      BY <1>0, <3>3, <3>4, <3>5, <3>6, <3>7, <3>8 DEF ExecInv
    <3>10. QED
      BY <3>2, <3>9
  <2>5. UndoInv'
    <3>1. \A e \in Deployments : e # d =>
            dpStatus'[e] = dpStatus[e] /\ dpExec'[e] = dpExec[e] /\ dpRow'[e] = dpRow[e]
      BY <2>1, EachAgrees
    <3>2. \A r \in Rollbacks : dpUndo[r].at \notin {"new", "idle"} => dpUndo[r].of # d
      BY <1>0, <2>1 DEF UndoInv
    <3>3. dpUndo' = dpUndo
      BY <2>1
    <3>4. ASSUME NEW r \in Rollbacks, dpUndo[r].at \notin {"new", "idle"}
          PROVE  LET e == dpUndo[r].of
                 IN e \in Deployments /\ dpStatus'[e] = dpStatus[e] /\ dpExec'[e] = dpExec[e]
                    /\ dpRow'[e] = dpRow[e]
      BY <1>0, <3>1, <3>2, <3>4 DEF UndoInv
    <3>5. QED
      BY <1>0, <3>3, <3>4 DEF UndoInv
  <2>6. QED
    BY <2>3, <2>4, <2>5 DEF DpInv
<1>2. ASSUME NEW d \in Deployments, DeadlinePasses(d) PROVE DpInv'
  <2>1. DpTypeOK'
    BY <1>0, <1>2 DEF DeadlinePasses, DpTypeOK
  <2>2. ExecInv' /\ StatusMatchesRow' /\ UndoInv'
    BY <1>0, <1>2 DEF DeadlinePasses, ExecInv, StatusMatchesRow, UndoInv
  <2>3. QED
    BY <2>1, <2>2 DEF DpInv
<1>3. CASE FindTimedOut
  <2>1. DpTypeOK'
    BY <1>0, <1>3 DEF FindTimedOut, DpTypeOK
  <2>2. ExecInv' /\ StatusMatchesRow' /\ UndoInv'
    BY <1>0, <1>3 DEF FindTimedOut, ExecInv, StatusMatchesRow, UndoInv
  <2>3. QED
    BY <2>1, <2>2 DEF DpInv
<1>4. ASSUME NEW d \in Deployments, FailTimedOut(d) PROVE DpInv'
  <2>1. /\ d \in dpDue /\ dpDue' = dpDue \ {d} /\ dpExec[d] = "idle" /\ d \in dpStarted
        /\ dpFaults' \in 0 .. MaxDpFaults
        /\ UNCHANGED <<dpPrevious, dpStarted, dpLate, dpExec, dpUndo>>
    BY <1>4, <1>faults, EachAgrees DEF FailTimedOut
  <2>2. \/ /\ dpStatus' = [dpStatus EXCEPT ![d] = "failed"]
           /\ dpRow' = [dpRow EXCEPT ![d] = FailedRow(dpRow[d])]
        \/ UNCHANGED <<dpStatus, dpRow>>
    BY <1>4 DEF FailTimedOut
  <2>3. \A e \in Deployments :
          /\ dpStatus'[e] \in {dpStatus[e], "failed"}
          /\ dpRow'[e] = dpRow[e] \/ (dpRow[e] \in {"pending", "applying"} /\ dpRow'[e] = "failed")
          /\ e # d => dpStatus'[e] = dpStatus[e] /\ dpRow'[e] = dpRow[e]
    BY <2>2, EachAgrees DEF FailedRow
  <2>4. DpTypeOK'
    <3>1. "failed" \in DpStatuses /\ "failed" \in DpRows
      BY DEF DpStatuses, DpRows
    <3>2. FailedRow(dpRow[d]) \in DpRows
      BY <3>1, EachAgrees DEF FailedRow
    <3>3. dpStatus' \in [Deployments -> DpStatuses] /\ dpRow' \in [Deployments -> DpRows]
      BY <2>2, <3>1, <3>2, EachAgrees
    <3>4. QED
      BY <1>0, <2>1, <3>3 DEF DpTypeOK, DpRows
  <2>5. ExecInv'
    BY <1>0, <2>1, <2>3, EachAgrees DEF ExecInv
  <2>6. StatusMatchesRow'
    BY <1>0, <2>3 DEF StatusMatchesRow
  <2>7. UndoInv'
    BY <1>0, <2>1, <2>3 DEF UndoInv
  <2>8. QED
    BY <2>4, <2>5, <2>6, <2>7 DEF DpInv
<1>5. CASE RecoverStaleDeployments
  <2>1. PICK done \in SUBSET {d \in Deployments : dpStatus[d] = "in_progress"} :
          /\ dpStatus' = [d \in Deployments |-> IF d \in done THEN "failed" ELSE dpStatus[d]]
          /\ dpRow' = [d \in Deployments |-> IF d \in done THEN FailedRow(dpRow[d])
                                             ELSE dpRow[d]]
    BY <1>5, Zenon DEF RecoverStaleDeployments
  <2>2. /\ dpExec' = [d \in Deployments |-> "idle"]
        /\ dpUndo' = [r \in Rollbacks |-> IF dpUndo[r].at = "new" THEN NoRollback ELSE Over]
        /\ dpDue' = {} /\ UNCHANGED <<dpPrevious, dpStarted, dpLate>>
        /\ dpFaults' \in 0 .. MaxDpFaults
    BY <1>5, <1>faults DEF RecoverStaleDeployments
  <2>3. DpTypeOK'
    <3>1. "failed" \in DpStatuses /\ "failed" \in DpRows /\ "idle" \in DpPlaces
      BY DEF DpStatuses, DpRows, DpPlaces
    <3>2. \A d \in Deployments : FailedRow(dpRow[d]) \in DpRows
      BY <3>1, EachAgrees DEF FailedRow
    <3>3. dpStatus' \in [Deployments -> DpStatuses] /\ dpRow' \in [Deployments -> DpRows]
      BY <2>1, <3>1, <3>2, EachAgrees
    <3>4. dpUndo' \in [Rollbacks -> [at : DpPlaces, of : 0 .. MaxDeployments]]
      BY <2>2, OverFacts
    <3>5. QED
      BY <1>0, <2>2, <3>1, <3>3, <3>4 DEF DpTypeOK, DpRows
  <2>4. ExecInv'
    BY <1>0, <2>1, <2>2, EachAgrees DEF ExecInv
  <2>5. StatusMatchesRow'
    BY <1>0, <2>1 DEF StatusMatchesRow
  <2>6. UndoInv'
    BY <2>2, OverFacts DEF UndoInv
  <2>7. QED
    BY <2>3, <2>4, <2>5, <2>6 DEF DpInv
<1>6. CASE UNCHANGED dpVars
  BY <1>0, <1>6 DEF dpVars, DpTypeOK, ExecInv, UndoInv, StatusMatchesRow, DpInv
<1>7. QED
  BY <1>1, <1>2, <1>3, <1>4, <1>5, <1>6 DEF EnforceTimeouts

\* The invariant of the deployments holds in every state.
LEMMA DpInvariance == DpInit /\ [][DpNext]_dpVars => []DpInv
<1>1. DpInv /\ [DpNext]_dpVars => DpInv'
  BY ExecSteps, RollbackSteps, OtherSteps DEF DpNext
<1>2. QED
  BY <1>1, DpInitInv, PTL

-----------------------------------------------------------------------------
(* Deployments: the theorems. *)

\* The rows of deployments and what the executor, the rollbacks and the sweeper hold of
\* them keep their types (orchestrator.go, timeout.go).
THEOREM DpTypeCorrect == DpSpec => []DpTypeOK
<1>1. DpInv => DpTypeOK
  BY DEF DpInv
<1>2. QED
  BY <1>1, DpInvariance, PTL DEF DpSpec

\* A deployment is only ever called completed with its node completed and rolled back with
\* nothing left deployed, however many rollbacks, stale timeouts, restarts and failed
\* writes meet in it (orchestrator.go, timeout.go, recovery.go).
THEOREM StatusAgreesWithRow == DpSpec => []StatusMatchesRow
<1>1. DpInv => StatusMatchesRow
  BY DEF DpInv
<1>2. QED
  BY <1>1, DpInvariance, PTL DEF DpSpec

-----------------------------------------------------------------------------
(* Alerts. *)

\* What a check has written down to raise and to resolve.
Writes == [active : SUBSET DedupKeys, resolved : SUBSET DedupKeys, severity : Severities]

AlTypes == AlTypeOK /\ DOMAIN alSweep = {"check", "read", "writes"} /\ alSweep.writes \in Writes

\* A check raises or resolves alerts there are.
LEMMA ChecksWrite ==
    ASSUME NEW name \in {Checks[i] : i \in 1 .. Len(Checks)}, alNode \in NodeRows, alSubject \in SubjectRows
    PROVE  Check(name) \in Writes
<1>1. Nothing \in Writes
  BY DEF Nothing, Writes, Severities
<1>2. \A k \in DedupKeys, s \in Severities : Raise(k, s) \in Writes
  BY DEF Raise, Writes
<1>3. \A ks \in SUBSET DedupKeys : Clear(ks) \in Writes
  BY DEF Clear, Writes, Severities
<1>4. "warning" \in Severities /\ "critical" \in Severities
  BY DEF Severities
<1>5. checkCertificates(alNode) \in Writes
  <2>1. alNode.live \in BOOLEAN /\ alNode.cert \in {"none", "fresh", "month", "week"}
    BY DEF NodeRows
  <2>2. \/ checkCertificates(alNode) = Nothing
        \/ checkCertificates(alNode) = Raise("cert:critical", "critical")
        \/ checkCertificates(alNode) = Raise("cert:warning", "warning")
        \/ checkCertificates(alNode) = Clear({"cert:warning", "cert:critical"})
    BY <2>1 DEF checkCertificates
  <2> QED
    BY <1>1, <1>2, <1>3, <1>4, <2>2 DEF DedupKeys
<1>6. checkQuotas(alSubject) \in Writes
  <2> DEFINE both == [Raise("quota:warning", "warning") EXCEPT !.resolved = {"quota:critical"}]
  <2>1. both \in Writes
    BY DEF Raise, Writes, DedupKeys, Severities
  <2>2. \/ checkQuotas(alSubject) = Nothing
        \/ checkQuotas(alSubject) = Clear({"quota:warning", "quota:critical"})
        \/ checkQuotas(alSubject) = both
        \/ checkQuotas(alSubject) = Raise("quota:critical", "critical")
    BY DEF checkQuotas
  <2> HIDE DEF both
  <2> QED
    BY <1>1, <1>2, <1>3, <1>4, <2>1, <2>2 DEF DedupKeys
<1>7. alertQuotaExceeded(alSubject) \in Writes
  BY <1>1, <1>2, <1>4 DEF alertQuotaExceeded, DedupKeys
<1>8. enforceQuotaWarnings(alSubject) \in Writes
  BY <1>1 DEF enforceQuotaWarnings
<1>9. checkNodeOffline(alNode) \in Writes
  BY <1>1, <1>2, <1>4 DEF checkNodeOffline, DedupKeys
<1>10. checkNodeOnline(alNode) \in Writes
  BY <1>1, <1>3 DEF checkNodeOnline, DedupKeys
<1>11. checkEnforcementFailures(alNode) \in Writes
  BY <1>1, <1>2, <1>4 DEF checkEnforcementFailures, DedupKeys
<1>12. checkRecovered(alNode) \in Writes
  BY <1>1, <1>3 DEF checkRecovered, DedupKeys
<1>13. name \in {"certificates", "quotas", "exceeded", "warnings", "offline", "online", "failing",
                 "recovered"}
  BY DEF Checks
<1> QED
  BY <1>5, <1>6, <1>7, <1>8, <1>9, <1>10, <1>11, <1>12, <1>13 DEF Check

\* Every action of the sweeper and of the rows it reads keeps the types.
LEMMA AlTypesKept ==
    ASSUME AlTypes, [AlNext]_alVars
    PROVE  AlTypes'
<1> USE DEF AlTypes, AlTypeOK
<1>1. Len(Checks) = 8
  BY DEF Checks
<1>2. Nothing \in Writes
  BY DEF Nothing, Writes, Severities
<1>3. MaxAlertChanges \in Nat /\ MaxAlertFaults \in Nat
  BY AlertsAssumption
<1>4. CASE ReadRows
  <2>1. Check(Checks[alSweep.check]) \in Writes
    <3>1. Checks[alSweep.check] \in {Checks[i] : i \in 1 .. Len(Checks)}
      OBVIOUS
    <3> QED
      BY <3>1, ChecksWrite
  <2> DEFINE w == Check(Checks[alSweep.check])  yes == TRUE
  <2>2. alSweep' = [alSweep EXCEPT !.read = yes, !.writes = w] /\ yes \in BOOLEAN
    BY <1>4 DEF ReadRows
  <2> HIDE DEF w, yes
  <2>3. /\ alSweep'.check = alSweep.check /\ alSweep'.read = yes /\ alSweep'.writes = w
        /\ DOMAIN alSweep' = DOMAIN alSweep
    BY <2>2
  <2>4. w \in Writes
    BY <2>1 DEF w
  <2> QED
    BY <1>4, <2>2, <2>3, <2>4 DEF ReadRows
<1>5. CASE WriteAlerts
  <2>1. PICK lost \in SUBSET (alSweep.writes.active \cup alSweep.writes.resolved) :
        /\ alFaults + Cardinality(lost) <= MaxAlertFaults
        /\ alFaults' = alFaults + Cardinality(lost)
        /\ alAlert' = [k \in DedupKeys |->
                        CASE k \in alSweep.writes.active \ lost ->
                                CreateOrUpdateAlert(alAlert[k], alSweep.writes.severity)
                          [] k \in alSweep.writes.resolved \ lost -> ResolveAlert(alAlert[k])
                          [] OTHER -> alAlert[k]]
    BY <1>5 DEF WriteAlerts
  <2>2. lost \subseteq DedupKeys /\ IsFiniteSet(DedupKeys)
    <3>1. lost \subseteq DedupKeys
      BY DEF Writes
    <3>2. IsFiniteSet(DedupKeys)
      <4>1. IsFiniteSet({})
        BY FS_EmptySet
      <4>2. \A S, x : IsFiniteSet(S) => IsFiniteSet(S \cup {x})
        BY FS_AddElement
      <4>3. IsFiniteSet((((((({} \cup {"cert:warning"}) \cup {"cert:critical"}) \cup {"quota:warning"})
                \cup {"quota:critical"}) \cup {"quota_exceeded"}) \cup {"node_offline"})
                \cup {"enforcement_failure"})
        BY <4>1, <4>2
      <4>4. (((((({} \cup {"cert:warning"}) \cup {"cert:critical"}) \cup {"quota:warning"})
                \cup {"quota:critical"}) \cup {"quota_exceeded"}) \cup {"node_offline"})
                \cup {"enforcement_failure"} = DedupKeys
        BY DEF DedupKeys
      <4> QED
        BY <4>3, <4>4
    <3> QED
      BY <3>1, <3>2
  <2>3. Cardinality(lost) \in Nat
    BY <2>2, FS_Subset, FS_CardinalityType
  <2>4. alFaults' \in 0 .. MaxAlertFaults
    BY <1>3, <2>1, <2>3
  <2>5. alAlert' \in [DedupKeys -> [active : BOOLEAN, severity : Severities]]
    <3> DEFINE Row == [active : BOOLEAN, severity : Severities]
    <3>1. ASSUME NEW k \in DedupKeys
          PROVE  /\ alAlert[k] \in Row
                 /\ CreateOrUpdateAlert(alAlert[k], alSweep.writes.severity) \in Row
                 /\ ResolveAlert(alAlert[k]) \in Row
      <4>1. alAlert[k] \in Row /\ alSweep.writes.severity \in Severities
        BY <3>1 DEF Writes
      <4>2. CreateOrUpdateAlert(alAlert[k], alSweep.writes.severity) \in Row
        BY <4>1 DEF CreateOrUpdateAlert
      <4>3. ResolveAlert(alAlert[k]) \in Row
        BY <4>1 DEF ResolveAlert, Severities
      <4> QED
        BY <4>1, <4>2, <4>3
    <3> HIDE DEF Row
    <3>2. alAlert' \in [DedupKeys -> Row]
      BY <2>1, <3>1
    <3> QED
      BY <3>2 DEF Row
  <2>6. /\ alSweep'.check \in 1 .. 8 /\ alSweep'.read \in BOOLEAN /\ alSweep'.writes \in Writes
        /\ DOMAIN alSweep' = {"check", "read", "writes"}
    BY <1>1, <1>2, <1>5 DEF WriteAlerts, NextCheck
  <2> QED
    BY <1>1, <1>5, <2>4, <2>5, <2>6 DEF WriteAlerts
<1>6. CASE PanelRestarts
  BY <1>1, <1>2, <1>3, <1>6 DEF PanelRestarts
<1>7. CASE SubjectChanges
  <2>1. alChanges' \in 0 .. MaxAlertChanges
    BY <1>3, <1>7 DEF SubjectChanges, Changed
  <2>2. alSubject' \in SubjectRows
    <3> DEFINE no == FALSE
    <3>1. /\ no \in BOOLEAN
          /\ \/ \E u \in Uses : alSubject' = [alSubject EXCEPT !.used = u]
             \/ \E b \in BOOLEAN : \/ alSubject' = [alSubject EXCEPT !.quota = b]
                                   \/ alSubject' = [alSubject EXCEPT !.frozen = b]
             \/ alSubject' = [alSubject EXCEPT !.live = no]
      BY <1>7 DEF SubjectChanges
    <3> HIDE DEF no
    <3> QED
      BY <3>1 DEF SubjectRows
  <2> QED
    BY <1>7, <2>1, <2>2 DEF SubjectChanges
<1>8. CASE NodeChanges
  BY <1>3, <1>8 DEF NodeChanges, Changed
<1>9. CASE UNCHANGED alVars
  BY <1>9 DEF alVars
<1> QED
  BY <1>4, <1>5, <1>6, <1>7, <1>8, <1>9 DEF AlNext

\* There are no alerts at first.
LEMMA AlTypesInit ==
    ASSUME AlInit
    PROVE  AlTypes
BY AlertsAssumption DEF AlInit, AlTypes, AlTypeOK, Writes, Nothing, Severities, Checks, SubjectRows,
   NodeRows, Uses, NoAlert

\* The types of the alert sweeper hold in every state.
LEMMA AlTypesAlways == AlInit /\ [][AlNext]_alVars => []AlTypes
<1>1. AlInit => AlTypes
  BY AlTypesInit
<1>2. AlTypes /\ [AlNext]_alVars => AlTypes'
  BY AlTypesKept
<1> QED
  BY <1>1, <1>2, PTL

\* Whatever a check has read when its row changes and whichever write fails
\* (sweeper.go, alerts.go), the alerts and the sweep stay in their types.
THEOREM AlTypeCorrect == AlSpec => []AlTypeOK
<1>1. AlTypes => AlTypeOK
  BY DEF AlTypes
<1> QED
  BY <1>1, AlTypesAlways, PTL DEF AlSpec

-----------------------------------------------------------------------------
(* The three loops side by side. *)

\* What is explored of the three is what each does on its own.
LEMMA SettlingIsAll ==
    SettlingSpec => /\ AdInit /\ [][AdNext]_adVars
                    /\ DpInit /\ [][DpNext]_dpVars
                    /\ AlInit /\ [][AlNext]_alVars
<1>1. SettlingInit => AdInit /\ DpInit /\ AlInit
  BY DEF SettlingInit
<1>2. [SettlingNext]_settlingVars => [AdNext]_adVars /\ [DpNext]_dpVars /\ [AlNext]_alVars
  BY DEF SettlingNext, OfAdapters, OfDeployments, OfAlerts, settlingVars
<1> QED
  BY <1>1, <1>2, PTL DEF SettlingSpec

\* In every state of the composed runs the adapters (internal/node/adapter,
\* reconcile.go), the deployment orchestrator and the alert sweeper have their
\* types, a deployment's status says of its row what is so, and an adapter that
\* reports convergence serves what its document asks for.
THEOREM SettlingCorrect == SettlingSpec => [](SettlingTypeOK /\ StatusMatchesRow /\ ConvergedIsServed)
<1>1. AdInv /\ DpInv /\ AlTypes =>
        SettlingTypeOK /\ StatusMatchesRow /\ ConvergedIsServed
  BY TypesAreTypes DEF DpInv, AlTypes, AdInv, SettlingTypeOK
<1> QED
  BY <1>1, SettlingIsAll, AdInvAlways, DpInvariance, AlTypesAlways, PTL
=============================================================================
