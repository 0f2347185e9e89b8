------------------------------ MODULE MCNodeCalls ------------------------------
(***************************************************************************)
(* The two conversations between the panel and a host that are calls:      *)
(* enrolling the host, and sending it a command once it is connected.      *)
(* They share no state and each is explored on its own: the initial state  *)
(* chooses one and the other keeps its initial values.                     *)
(***************************************************************************)
EXTENDS Commands, Enrollment

VARIABLE focus

nodeCallVars == <<focus, cmdVars, enVars>>

NodeCallsInit == focus \in {"commands", "enrolment"} /\ CmdInit /\ EnInit

NodeCallsNext ==
    \/ focus = "commands" /\ CmdNext /\ UNCHANGED <<focus, enVars>>
    \/ focus = "enrolment" /\ EnNext /\ UNCHANGED <<focus, cmdVars>>

NodeCallsSpec == NodeCallsInit /\ [][NodeCallsNext]_nodeCallVars

\* Every variable of the command path (hub.go, client.go) and of enrolment
\* (ca.go, enroll_service.go) stays in its type.
NodeCallsTypeOK == CmdTypeOK /\ EnTypeOK
=============================================================================
