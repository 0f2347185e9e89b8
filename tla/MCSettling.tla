------------------------------ MODULE MCSettling ------------------------------
(***************************************************************************)
(* The three loops that are to settle on their own, whatever failed: the   *)
(* adapters of the node, the deployments of the panel, and the alert       *)
(* sweeper.  They share no state and each is explored on its own: the      *)
(* initial state chooses one and the others keep their initial values      *)
(* (the adapter being l2tp, of which AdapterSettles says nothing).         *)
(***************************************************************************)
EXTENDS Adapters, Deployment, Alerts

VARIABLE focus

settlingVars == <<focus, adVars, dpVars, alVars>>

\* Documents with nothing, a service switched off, a user, the user's rotated
\* credential, a second user, one without credentials, and an invalid one.
Want(service, shape, users, egress) ==
    [service |-> service, shape |-> shape, users |-> users, egress |-> egress, valid |-> TRUE]
MCWants == {Want("none", 1, {}, 0), Want("off", 1, {<<1, 1>>}, 0), Want("on", 1, {<<1, 1>>}, 0),
            Want("on", 1, {<<1, 2>>}, 1), Want("on", 2, {<<1, 1>>, <<2, 1>>}, 0),
            Want("on", 2, {<<1, 1>>, <<2, 0>>}, 0),
            [Want("on", 1, {<<1, 1>>}, 0) EXCEPT !.valid = FALSE]}

SettlingInit ==
    /\ focus \in {"adapters", "deployments", "alerts"}
    /\ AdInit /\ DpInit /\ AlInit
    /\ focus # "adapters" => kind = "l2tp" /\ desired = Want("none", 1, {}, 0)

\* An action of one part while the others stand still.
OfAdapters(A) == focus = "adapters" /\ A /\ UNCHANGED <<focus, dpVars, alVars>>
OfDeployments(A) == focus = "deployments" /\ A /\ UNCHANGED <<focus, adVars, alVars>>
OfAlerts(A) == focus = "alerts" /\ A /\ UNCHANGED <<focus, adVars, dpVars>>

SettlingNext == OfAdapters(AdNext) \/ OfDeployments(DpNext) \/ OfAlerts(AlNext)

\* The fairness of AdSpec, DpSpec and AlSpec.
SettlingFairness ==
    /\ WF_adVars(OfAdapters(AdPass \/ OperationFails))
    /\ \A d \in Deployments : /\ WF_dpVars(OfDeployments(Execute(d)))
                             /\ WF_dpVars(OfDeployments(DeadlinePasses(d)))
    /\ \A r \in Rollbacks : WF_dpVars(OfDeployments(Rollback(r)))
    /\ WF_dpVars(OfDeployments(EnforceTimeouts))
    /\ WF_alVars(OfAlerts(ReadRows))
    /\ WF_alVars(OfAlerts(WriteAlerts))

SettlingSpec == SettlingInit /\ [][SettlingNext]_settlingVars /\ SettlingFairness

\* Every variable of the adapters, of the deployment orchestrator and of the
\* alert sweeper stays in its type.
SettlingTypeOK == AdTypeOK /\ DpTypeOK /\ AlTypeOK
=============================================================================
