------------------------------ MODULE Enrollment ------------------------------
(***************************************************************************)
(* How a host becomes a node: enrolment tokens (nodes/enroll.go), the      *)
(* panel's CA (nodes/ca.go), the Enroll call (control/enroll_service.go),  *)
(* the agent's side of it with its files (agent/enroll.go,                 *)
(* cmd/antimage-node/main.go), the operator's requests (httpapi/nodes.go)  *)
(* and the bootstrap over SSH (httpapi/bootstrap.go, nodes/                *)
(* bootstrap_ssh.go).  An Enroll call is two transactions with a signature *)
(* between them; agent and panel may die between any two steps.  A file    *)
(* write is one step.                                                      *)
(***************************************************************************)
EXTENDS Integers, FiniteSets, FiniteSetsExt

CONSTANTS
    Hosts,         \* machines an agent may run on
    MaxNodeRows,   \* bound: nodes created
    MaxTokens,     \* bound: tokens issued
    MaxEnrolments, \* bound: Enroll calls
    MaxReinstalls  \* bound: machines set up again

ASSUME EnrollmentAssumption ==
    /\ IsFiniteSet(Hosts)
    /\ MaxNodeRows \in Nat /\ MaxTokens \in Nat /\ MaxEnrolments \in Nat
    /\ MaxReinstalls \in Nat

NodeIds == 1 .. MaxNodeRows
Tokens == 1 .. MaxTokens
Enrolments == 1 .. MaxEnrolments

VARIABLES
    enNode,     \* nodes: id -> which creation holds it (0: no row), cert_fingerprint (0: NULL)
    enToken,    \* enroll_tokens
    enCall,     \* Enroll calls; a call's number names its key pair and certificate
    enHost,     \* per host: process, node.yaml, state directory, SSH host key
    enPanel,    \* the process and panel_ca
    enBoot,     \* the operator's bootstrap over SSH
    enRows      \* nodes created so far

enVars == <<enNode, enToken, enCall, enHost, enPanel, enBoot, enRows>>

NoNode == [row |-> 0, cert |-> 0]
NoToken == [at |-> "none", node |-> 0, row |-> 0]
\* row: the creation of the node the redeemed token was issued for (0: not redeemed);
\* ca: the CA that signed.
NoEnrolment == [at |-> "none", token |-> 0, node |-> 0, row |-> 0, ca |-> 0]
\* token and pin are node.yaml's (its node_id is not used to tell nodes apart); key,
\* crt and ca are the state directory; try is the Enroll call the process waits for or is storing.
Machine(key) == [at |-> "down", token |-> 0, pin |-> 0,
                 key |-> 0, crt |-> 0, ca |-> 0, try |-> 0, ssh |-> key]
\* key: the fingerprint shown to the operator and sent back.
NoBoot == [at |-> "idle", host |-> "-", key |-> 0, token |-> 0]

EnInit ==
    /\ enNode = [i \in NodeIds |-> NoNode]
    /\ enToken = [t \in Tokens |-> NoToken]
    /\ enCall = [n \in Enrolments |-> NoEnrolment]
    /\ enHost = [h \in Hosts |-> Machine(1)]
    /\ enPanel = [up |-> FALSE, ca |-> 0]
    /\ enBoot = NoBoot
    /\ enRows = 0

Unused(table) == {k \in DOMAIN table : table[k].at = "none"}
Present == {i \in NodeIds : enNode[i].row # 0}

-----------------------------------------------------------------------------
(* The panel process. *)

\* Mutant: a CA key that does not decrypt is replaced by a new one.
CreateWhenUnreadable(readable) ==
    /\ readable \/ enPanel.ca < 2
    /\ enPanel' = [up |-> TRUE,
                   ca |-> IF readable /\ enPanel.ca # 0 THEN enPanel.ca ELSE enPanel.ca + 1]

\* Reads the CA, creates it on the first run, refuses one it cannot decrypt.
LoadOrCreateCA(readable) ==
    /\ enPanel.ca = 0 \/ readable
    /\ enPanel' = [up |-> TRUE,
                   ca |-> IF enPanel.ca = 0 THEN 1 ELSE enPanel.ca]

\* The server certificate is issued at every start, after the CA.
PanelStart ==
    /\ ~enPanel.up
    /\ \E readable \in BOOLEAN : LoadOrCreateCA(readable)
    /\ UNCHANGED <<enNode, enToken, enCall, enHost, enBoot, enRows>>

Open(n) == enCall[n].at \in {"asked", "redeemed", "signed"}

\* Calls in flight die with the process.
PanelCrash ==
    /\ enPanel.up
    /\ enPanel' = [enPanel EXCEPT !.up = FALSE]
    /\ enCall' = [n \in Enrolments |-> IF Open(n) THEN [enCall[n] EXCEPT !.at = "failed"]
                                       ELSE enCall[n]]
    /\ enBoot' = NoBoot
    /\ UNCHANGED <<enNode, enToken, enHost, enRows>>

-----------------------------------------------------------------------------
(* The operator. *)

\* nodes.id is a rowid: the next one is one more than the largest present.
handleCreateNode ==
    /\ enPanel.up /\ enRows < MaxNodeRows
    /\ LET id == IF Present = {} THEN 1 ELSE Max(Present) + 1 IN
        enNode' = [enNode EXCEPT ![id] = [row |-> enRows + 1, cert |-> 0]]
    /\ enRows' = enRows + 1
    /\ UNCHANGED <<enToken, enCall, enHost, enPanel, enBoot>>

\* The tokens go with the row; a token that is gone is refused like an expired one.
handleDeleteNode(i) ==
    /\ enPanel.up /\ i \in Present
    /\ enNode' = [enNode EXCEPT ![i] = NoNode]
    /\ enToken' = [t \in Tokens |->
                    IF enToken[t].at # "none" /\ enToken[t].node = i
                    THEN [enToken[t] EXCEPT !.at = "expired"] ELSE enToken[t]]
    /\ UNCHANGED <<enCall, enHost, enPanel, enBoot, enRows>>

\* Tokens issued before for the same node stay good.
IssueEnrollToken(t, i) ==
    /\ t = Min(Unused(enToken)) /\ i \in Present
    /\ enToken' = [enToken EXCEPT ![t] = [at |-> "live", node |-> i, row |-> enNode[i].row]]

handleIssueEnrollToken(i) ==
    /\ enPanel.up
    /\ \E t \in Unused(enToken) : IssueEnrollToken(t, i)
    /\ UNCHANGED <<enNode, enCall, enHost, enPanel, enBoot, enRows>>

TokenExpires(t) ==
    /\ enToken[t].at = "live"
    /\ enToken' = [enToken EXCEPT ![t].at = "expired"]
    /\ UNCHANGED <<enNode, enCall, enHost, enPanel, enBoot, enRows>>

Given(h, t) == enHost' = [enHost EXCEPT ![h].token = t, ![h].pin = enPanel.ca]

\* An operator puts an issued token and the CA's fingerprint in a node.yaml (on a
\* host with a certificate it would not be read).
Install(h, t) ==
    /\ enHost[h].at = "down" /\ enPanel.ca # 0
    /\ enToken[t].at # "none" /\ enHost[h].token # t /\ enHost[h].crt = 0
    /\ Given(h, t)
    /\ UNCHANGED <<enNode, enToken, enCall, enPanel, enBoot, enRows>>

\* The machine is set up again: empty disk, new host key.
Reinstall(h) ==
    /\ MapThenSumSet(LAMBDA k : enHost[k].ssh - 1, Hosts) < MaxReinstalls
    /\ enHost' = [enHost EXCEPT ![h] = Machine(@.ssh + 1)]
    /\ UNCHANGED <<enNode, enToken, enCall, enPanel, enBoot, enRows>>

-----------------------------------------------------------------------------
(* Bootstrap over SSH. *)

\* First phase: the key is read and shown, nothing is run.
HostKeyPrompt(h) ==
    /\ enPanel.up
    /\ enBoot.at # "dial"
    /\ enBoot' = [NoBoot EXCEPT !.at = "shown", !.host = h, !.key = enHost[h].ssh]
    /\ UNCHANGED <<enNode, enToken, enCall, enHost, enPanel, enRows>>

\* Second phase: the request carries a fingerprint the operator was shown.
handleSSHBootstrap(i) ==
    /\ enPanel.up /\ enBoot.at = "shown"
    /\ \E t \in Unused(enToken) :
        /\ IssueEnrollToken(t, i)
        /\ enBoot' = [enBoot EXCEPT !.at = "dial", !.token = t]
    /\ UNCHANGED <<enNode, enCall, enHost, enPanel, enRows>>

verifyHostKey(pinned, presented) == pinned = presented

\* The command installs the agent with the token.
BootstrapOverSSH ==
    /\ enBoot.at = "dial"
    /\ LET h == enBoot.host IN
        /\ verifyHostKey(enBoot.key, enHost[h].ssh)
        /\ enHost[h].at = "down"
        /\ Given(h, enBoot.token)
        /\ enBoot' = [enBoot EXCEPT !.at = "ran"]
    /\ UNCHANGED <<enNode, enToken, enCall, enPanel, enRows>>

\* No connection, another key, or the command fails: the token stays good.
BootstrapFails ==
    /\ enBoot.at = "dial"
    /\ enBoot' = NoBoot
    /\ UNCHANGED <<enNode, enToken, enCall, enHost, enPanel, enRows>>

-----------------------------------------------------------------------------
(* The agent's process. *)

\* loadOrEnroll: with a certificate on disk the key and the panel's CA are needed
\* too and no token is used, whatever node.yaml holds.
AgentLoads(h) ==
    /\ enHost[h].at = "down" /\ enHost[h].crt # 0
    /\ enHost[h].key = enHost[h].crt /\ enHost[h].ca # 0
    /\ enHost' = [enHost EXCEPT ![h].at = "up"]
    /\ UNCHANGED <<enNode, enToken, enCall, enPanel, enBoot, enRows>>

\* Without one: a new key pair and an Enroll call to the panel the pin names.
AgentEnrolls(h) ==
    /\ enHost[h].at = "down" /\ enHost[h].crt = 0 /\ enHost[h].token # 0
    /\ enPanel.up /\ enHost[h].pin = enPanel.ca
    /\ \E n \in Unused(enCall) :
        /\ n = Min(Unused(enCall))
        /\ enCall' = [enCall EXCEPT ![n] = [NoEnrolment EXCEPT !.at = "asked",
                                                               !.token = enHost[h].token]]
        /\ enHost' = [enHost EXCEPT ![h].at = "enrolling", ![h].try = n]
    /\ UNCHANGED <<enNode, enToken, enPanel, enBoot, enRows>>

\* Mutant: the certificate is written before its key.
CertBeforeKey(h) ==
    /\ enHost[h].at = "enrolling" /\ enCall[enHost[h].try].at = "recorded"
    /\ enHost' = [enHost EXCEPT ![h].at = "key", ![h].crt = enHost[h].try]
    /\ UNCHANGED <<enNode, enToken, enCall, enPanel, enBoot, enRows>>

\* The answer arrives; node.key is written.
WriteNodeKey(h) ==
    /\ enHost[h].at = "enrolling" /\ enCall[enHost[h].try].at = "recorded"
    /\ enHost' = [enHost EXCEPT ![h].at = "key", ![h].key = enHost[h].try]
    /\ UNCHANGED <<enNode, enToken, enCall, enPanel, enBoot, enRows>>

WriteNodeCert(h) ==
    /\ enHost[h].at = "key"
    /\ enHost' = [enHost EXCEPT ![h].at = "crt", ![h].crt = enHost[h].try]
    /\ UNCHANGED <<enNode, enToken, enCall, enPanel, enBoot, enRows>>

WritePanelCA(h) ==
    /\ enHost[h].at = "crt"
    /\ enHost' = [enHost EXCEPT ![h].at = "ca", ![h].ca = enCall[enHost[h].try].ca]
    /\ UNCHANGED <<enNode, enToken, enCall, enPanel, enBoot, enRows>>

\* cfg.Save: the token is dropped.
SaveConfig(h) ==
    /\ enHost[h].at = "ca"
    /\ enHost' = [enHost EXCEPT ![h].at = "up", ![h].token = 0,
                                ![h].try = 0]
    /\ UNCHANGED <<enNode, enToken, enCall, enPanel, enBoot, enRows>>

\* A refusal, a lost answer, a failed write or a crash: the process ends, and is
\* started again by its unit.
AgentDies(h) ==
    /\ enHost[h].at # "down"
    /\ enHost' = [enHost EXCEPT ![h].at = "down", ![h].try = 0]
    /\ UNCHANGED <<enNode, enToken, enCall, enPanel, enBoot, enRows>>

-----------------------------------------------------------------------------
(* The panel's side of Enroll. *)

\* Mutant: the update does not ask whether the token was used.
RedeemUsedToken(t) ==
    /\ enToken[t].at \in {"live", "used"}
    /\ enToken' = [enToken EXCEPT ![t].at = "used"]

\* One conditional update, in a transaction of its own.
RedeemEnrollToken(t) ==
    /\ enToken[t].at = "live"
    /\ enToken' = [enToken EXCEPT ![t].at = "used"]

EnrollRedeems(n) ==
    /\ enCall[n].at = "asked"
    /\ RedeemEnrollToken(enCall[n].token)
    /\ LET t == enToken[enCall[n].token] IN
        enCall' = [enCall EXCEPT ![n].at = "redeemed", ![n].node = t.node, ![n].row = t.row]
    /\ UNCHANGED <<enNode, enHost, enPanel, enBoot, enRows>>

\* The protocol version differs, or the token is unknown, expired or used.
EnrollDenied(n) ==
    /\ enCall[n].at = "asked"
    /\ enCall' = [enCall EXCEPT ![n].at = "failed"]
    /\ UNCHANGED <<enNode, enToken, enHost, enPanel, enBoot, enRows>>

SignNodeCert(n) ==
    /\ enCall[n].at = "redeemed"
    /\ enCall' = [enCall EXCEPT ![n].at = "signed", ![n].ca = enPanel.ca]
    /\ UNCHANGED <<enNode, enToken, enHost, enPanel, enBoot, enRows>>

\* The update goes by id and does not look at how many rows it met.
RecordFingerprint(n) ==
    /\ enCall[n].at = "signed"
    /\ enCall' = [enCall EXCEPT ![n].at = "recorded"]
    /\ enNode' = [enNode EXCEPT ![enCall[n].node].cert = IF @ = 0 /\ enNode[enCall[n].node].row = 0
                                                         THEN 0 ELSE n]
    /\ UNCHANGED <<enToken, enHost, enPanel, enBoot, enRows>>

\* The CSR is refused or the write fails: the token is spent all the same.
EnrollFails(n) ==
    /\ enCall[n].at \in {"redeemed", "signed"}
    /\ enCall' = [enCall EXCEPT ![n].at = "failed"]
    /\ UNCHANGED <<enNode, enToken, enHost, enPanel, enBoot, enRows>>

-----------------------------------------------------------------------------
EnNext ==
    \/ PanelStart \/ PanelCrash \/ handleCreateNode
    \/ \E i \in NodeIds : handleDeleteNode(i) \/ handleIssueEnrollToken(i) \/ handleSSHBootstrap(i)
    \/ \E t \in Tokens : TokenExpires(t)
    \/ \E h \in Hosts, t \in Tokens : Install(h, t)
    \/ \E h \in Hosts : \/ Reinstall(h) \/ HostKeyPrompt(h) \/ AgentLoads(h) \/ AgentEnrolls(h)
                        \/ WriteNodeKey(h) \/ WriteNodeCert(h) \/ WritePanelCA(h) \/ SaveConfig(h)
                        \/ AgentDies(h)
    \/ \E n \in Enrolments : \/ EnrollRedeems(n) \/ EnrollDenied(n) \/ SignNodeCert(n)
                             \/ RecordFingerprint(n) \/ EnrollFails(n)
    \/ BootstrapOverSSH \/ BootstrapFails

EnSpec == EnInit /\ [][EnNext]_enVars

-----------------------------------------------------------------------------
EnTypeOK ==
    /\ enNode \in [NodeIds -> [row : 0 .. MaxNodeRows, cert : 0 .. MaxEnrolments]]
    /\ enToken \in [Tokens -> [at : {"none", "live", "used", "expired"},
                               node : 0 .. MaxNodeRows, row : 0 .. MaxNodeRows]]
    /\ enCall \in [Enrolments -> [at : {"none", "asked", "redeemed", "signed", "recorded", "failed"},
                                  token : 0 .. MaxTokens,
                                  node : 0 .. MaxNodeRows, row : 0 .. MaxNodeRows, ca : 0 .. 1]]
    /\ \A h \in Hosts : enHost[h].at \in {"down", "enrolling", "key", "crt", "ca", "up"}
    /\ enPanel \in [up : BOOLEAN, ca : 0 .. 1]
    /\ enBoot.at \in {"idle", "shown", "dial", "ran"} /\ enBoot.token \in 0 .. MaxTokens
    /\ enRows \in 0 .. MaxNodeRows

\* A token lets one host in: however its redemptions interleave and whatever fails
\* after them, no two Enroll calls get past it (nodes/enroll.go:63-64 "two
\* concurrent redemptions cannot both win").
TokenEnrolsOnce ==
    \A m, n \in Enrolments :
        enCall[m].row # 0 /\ enCall[n].row # 0 /\ enCall[m].token = enCall[n].token => m = n

\* A host the panel's allow-list names can complete the handshake: across crashes
\* between the agent's four writes, repeated enrolments and restarts of the panel,
\* a certificate on disk has its own key, and one that is recorded was signed by
\* the CA the panel serves and the host trusts.
EnrolledHostCanConnect ==
    \A h \in Hosts :
        LET own == enHost[h] IN
        /\ own.crt # 0 => own.key = own.crt
        /\ own.at = "up" /\ (\E i \in Present : enNode[i].cert = own.crt)
            => own.ca = enPanel.ca /\ enCall[own.crt].ca = enPanel.ca

-----------------------------------------------------------------------------
(* Statements of the sources that the code does not keep. *)

\* nodes/ca.go:156-158: "the panel decides which node an enrolling agent is, based
\* on the token it redeemed".  A node deleted and another created under its id
\* between the two transactions of Enroll is given the first one's host.
EnrolledAsTokenSaid ==
    \A i \in Present : enNode[i].cert # 0 => enCall[enNode[i].cert].row = enNode[i].row

\* cmd/antimage-node/main.go:78-79: "a restart does not consume a new enrollment
\* token".  A process that ends between node.crt and panel-ca.crt never starts
\* again: the certificate is found, the CA is not, and no token is used.
HostCanStart ==
    \A h \in Hosts : enHost[h].at = "down" /\ enHost[h].crt # 0 => enHost[h].ca # 0
=============================================================================
