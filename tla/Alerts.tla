-------------------------------- MODULE Alerts --------------------------------
(***************************************************************************)
(* The alert sweeper (internal/panel/observability/: sweeper.go,           *)
(* alerts.go, quota_warnings.go, node_health.go,                           *)
(* enforcement_failures.go).  A sweep is a sequence of checks; a check     *)
(* reads its rows and then writes alerts, each in its own transaction,     *)
(* while nodes and subjects change.  One node and one subject are          *)
(* modelled; the checks treat the rows of a table alike.                   *)
(***************************************************************************)
EXTENDS Naturals, Sequences, FiniteSets

CONSTANTS
    MaxAlertChanges, \* bound: changes of the node and the subject
    MaxAlertFaults   \* bound: failed writes and restarts

ASSUME AlertsAssumption == MaxAlertChanges \in Nat /\ MaxAlertFaults \in Nat

VARIABLES
    alSubject, \* subjects: does it exist, has it a quota, the share used, frozen_at
    alNode,    \* nodes: certificate age, status, last_seen_at, failed_reconcile_streak
    alAlert,   \* alerts, by dedup_key: is one active, and its severity
    alSweep,   \* the check the sweep is at and the rows it has read
    alChanges, \* counted against the bounds
    alFaults

alVars == <<alSubject, alNode, alAlert, alSweep, alChanges, alFaults>>

\* used: below 80%, from 80%, from 95%, from 100% of the quota.
Uses == {"low", "eighty", "ninety-five", "full"}
SubjectRows == [live : BOOLEAN, quota : BOOLEAN, used : Uses, frozen : BOOLEAN]
\* cert: not enrolled, more than 30 days left, at most 30, at most 7; seen: never,
\* within 5 minutes, within 30, longer ago; streak: below 3, below 5, more.
NodeRows == [live : BOOLEAN, cert : {"none", "fresh", "month", "week"},
             status : {"pending", "online", "offline", "disabled"},
             seen : {"never", "now", "late", "long"}, streak : {"short", "three", "five"}]
DedupKeys == {"cert:warning", "cert:critical", "quota:warning", "quota:critical",
              "quota_exceeded", "node_offline", "enforcement_failure"}
Severities == {"-", "warning", "critical"}
Checks == <<"certificates", "quotas", "exceeded", "warnings", "offline", "online",
            "failing", "recovered">>

NoAlert == [active |-> FALSE, severity |-> "-"]
Nothing == [active |-> {}, resolved |-> {}, severity |-> "-"]

AlInit ==
    /\ alSubject = [live |-> TRUE, quota |-> TRUE, used |-> "low", frozen |-> FALSE]
    /\ alNode = [live |-> TRUE, cert |-> "fresh", status |-> "online", seen |-> "now",
                 streak |-> "short"]
    /\ alAlert = [k \in DedupKeys |-> NoAlert]
    /\ alSweep = [check |-> 1, read |-> FALSE, writes |-> Nothing]
    /\ alChanges = 0 /\ alFaults = 0

-----------------------------------------------------------------------------
(* What each check writes for the rows it reads. *)

Raise(k, severity) == [active |-> {k}, resolved |-> {}, severity |-> severity]
Clear(ks) == [active |-> {}, resolved |-> ks, severity |-> "-"]

checkCertificates(n) ==
    CASE ~n.live \/ n.cert = "none" -> Nothing
      [] n.live /\ n.cert = "week"  -> Raise("cert:critical", "critical")
      [] n.live /\ n.cert = "month" -> Raise("cert:warning", "warning")
      [] n.live /\ n.cert = "fresh" -> Clear({"cert:warning", "cert:critical"})

\* Mutant: at the warning threshold the critical alert is left as it is.
checkQuotasOneWay(s) ==
    CASE ~s.live \/ ~s.quota \/ s.frozen -> Nothing
      [] OTHER -> IF s.used = "low" THEN Clear({"quota:warning", "quota:critical"})
                  ELSE IF s.used = "eighty" THEN Raise("quota:warning", "warning")
                  ELSE Raise("quota:critical", "critical")

\* A frozen subject is not looked at.
checkQuotas(s) ==
    CASE ~s.live \/ ~s.quota \/ s.frozen -> Nothing
      [] OTHER ->
            IF s.used = "low" THEN Clear({"quota:warning", "quota:critical"})
            ELSE IF s.used = "eighty"
                 THEN [Raise("quota:warning", "warning") EXCEPT !.resolved = {"quota:critical"}]
                 ELSE Raise("quota:critical", "critical")

\* Raised for frozen subjects too; nothing resolves it.
alertQuotaExceeded(s) ==
    IF s.live /\ s.quota /\ s.used = "full" THEN Raise("quota_exceeded", "critical") ELSE Nothing

\* Its INSERT names columns the alerts table does not have: every one fails.
enforceQuotaWarnings(s) == Nothing

Unreachable(n) ==
    /\ n.live
    /\ n.status = "offline" \/ (n.status # "disabled" /\ n.seen \in {"late", "long"})

checkNodeOffline(n) ==
    IF Unreachable(n)
    THEN Raise("node_offline", IF n.seen \in {"never", "long"} THEN "critical" ELSE "warning")
    ELSE Nothing

checkNodeOnline(n) ==
    IF n.live /\ n.status = "online" /\ n.seen = "now" THEN Clear({"node_offline"}) ELSE Nothing

checkEnforcementFailures(n) ==
    IF n.live /\ n.streak # "short" /\ n.status \notin {"disabled", "pending"}
    THEN Raise("enforcement_failure", IF n.streak = "five" THEN "critical" ELSE "warning")
    ELSE Nothing

checkRecovered(n) ==
    IF n.live /\ n.streak = "short" THEN Clear({"enforcement_failure"}) ELSE Nothing

Check(name) ==
    CASE name = "certificates" -> checkCertificates(alNode)
      [] name = "quotas"       -> checkQuotas(alSubject)
      [] name = "exceeded"     -> alertQuotaExceeded(alSubject)
      [] name = "warnings"     -> enforceQuotaWarnings(alSubject)
      [] name = "offline"      -> checkNodeOffline(alNode)
      [] name = "online"       -> checkNodeOnline(alNode)
      [] name = "failing"      -> checkEnforcementFailures(alNode)
      [] name = "recovered"    -> checkRecovered(alNode)

\* A new alert takes its severity; one that is active keeps the one it has.
CreateOrUpdateAlert(alert, severity) ==
    IF alert.active THEN alert ELSE [active |-> TRUE, severity |-> severity]

ResolveAlert(alert) == [alert EXCEPT !.active = FALSE, !.severity = "-"]

-----------------------------------------------------------------------------
(* The sweep. *)

\* The query of the next check.
ReadRows ==
    /\ ~alSweep.read
    /\ alSweep' = [alSweep EXCEPT !.read = TRUE, !.writes = Check(Checks[alSweep.check])]
    /\ UNCHANGED <<alSubject, alNode, alAlert, alChanges, alFaults>>

NextCheck == alSweep' = [check |-> IF alSweep.check = Len(Checks) THEN 1 ELSE alSweep.check + 1,
                         read |-> FALSE, writes |-> Nothing]

\* Its writes; one that fails is logged and the check goes on.
WriteAlerts ==
    /\ alSweep.read
    /\ \E lost \in SUBSET (alSweep.writes.active \cup alSweep.writes.resolved) :
        /\ alFaults + Cardinality(lost) <= MaxAlertFaults
        /\ alFaults' = alFaults + Cardinality(lost)
        /\ alAlert' = [k \in DedupKeys |->
                        CASE k \in alSweep.writes.active \ lost ->
                                CreateOrUpdateAlert(alAlert[k], alSweep.writes.severity)
                          [] k \in alSweep.writes.resolved \ lost -> ResolveAlert(alAlert[k])
                          [] OTHER -> alAlert[k]]
    /\ NextCheck
    /\ UNCHANGED <<alSubject, alNode, alChanges>>

\* Run sweeps at once when the panel starts.
PanelRestarts ==
    /\ alFaults < MaxAlertFaults
    /\ alFaults' = alFaults + 1
    /\ alSweep' = [check |-> 1, read |-> FALSE, writes |-> Nothing]
    /\ UNCHANGED <<alSubject, alNode, alAlert, alChanges>>

-----------------------------------------------------------------------------
(* What the rest of the panel does to the rows. *)

Changed == alChanges < MaxAlertChanges /\ alChanges' = alChanges + 1

SubjectChanges ==
    /\ Changed /\ alSubject.live
    /\ \/ \E u \in Uses : alSubject' = [alSubject EXCEPT !.used = u]
       \/ \E b \in BOOLEAN : \/ alSubject' = [alSubject EXCEPT !.quota = b]
                             \/ alSubject' = [alSubject EXCEPT !.frozen = b]
       \/ alSubject' = [alSubject EXCEPT !.live = FALSE]
    /\ UNCHANGED <<alNode, alAlert, alSweep, alFaults>>

NodeChanges ==
    /\ Changed /\ alNode.live
    /\ alNode' \in {n \in NodeRows : Cardinality({f \in DOMAIN n : n[f] # alNode[f]}) = 1}
    /\ UNCHANGED <<alSubject, alAlert, alSweep, alFaults>>

AlNext == ReadRows \/ WriteAlerts \/ PanelRestarts \/ SubjectChanges \/ NodeChanges

\* Run's ticker keeps sweeping.
AlFairness == WF_alVars(ReadRows) /\ WF_alVars(WriteAlerts)

AlSpec == AlInit /\ [][AlNext]_alVars /\ AlFairness

-----------------------------------------------------------------------------
AlTypeOK ==
    /\ alSubject \in SubjectRows /\ alNode \in NodeRows
    /\ alAlert \in [DedupKeys -> [active : BOOLEAN, severity : Severities]]
    /\ alSweep.check \in 1 .. Len(Checks) /\ alSweep.read \in BOOLEAN
    /\ alChanges \in 0 .. MaxAlertChanges /\ alFaults \in 0 .. MaxAlertFaults

Active(k) == alAlert[k].active

\* What an operator may read off the alerts when nothing has changed for a while.
QuotaAlertsRight ==
    alSubject.live /\ alSubject.quota =>
        /\ alSubject.used = "full" => Active("quota_exceeded")
        /\ ~alSubject.frozen =>
            /\ alSubject.used \in {"ninety-five", "full"} => Active("quota:critical")
            /\ alSubject.used = "eighty" => Active("quota:warning")
            /\ alSubject.used \in {"low", "eighty"} => ~Active("quota:critical")
            /\ alSubject.used = "low" => ~Active("quota:warning")

NodeAlertsRight ==
    alNode.live =>
        /\ alNode.cert = "week" => Active("cert:critical")
        /\ alNode.cert = "month" => Active("cert:warning")
        /\ alNode.cert = "fresh" => ~Active("cert:critical") /\ ~Active("cert:warning")
        /\ Unreachable(alNode) => Active("node_offline")
        /\ alNode.status = "online" /\ alNode.seen = "now" => ~Active("node_offline")
        /\ alNode.streak = "short" => ~Active("enforcement_failure")
        /\ alNode.streak # "short" /\ alNode.status \in {"online", "offline"}
            => Active("enforcement_failure")

\* Whatever a check had read when its row changed, whichever write failed and
\* wherever the panel stopped, the alerts catch up: once the node and the subject
\* stay as they are, what they call for is raised and what they rule out resolved.
AlertsSettle == <>[](QuotaAlertsRight /\ NodeAlertsRight)

-----------------------------------------------------------------------------
(* Statements of the sources that the code does not keep. *)

\* node_health.go:57-60 makes an absence of more than 30 minutes critical; an alert
\* keeps the severity it was first raised with, so a node that has stayed away for
\* longer is a "warning" for as long as it is gone.
SeverityFollows ==
    <>[](alNode.live /\ alNode.status = "offline" /\ alNode.seen = "long"
            => alAlert["node_offline"].severity = "critical")

\* sweeper.go:191-194: the alert says "this subject is over quota" while it "is
\* still true".  Nothing resolves it afterwards: it stays when the quota is reset
\* or raised, and when the subject is deleted.
ExceededIsTrue == <>[](Active("quota_exceeded") => alSubject.live /\ alSubject.used = "full")
=============================================================================
