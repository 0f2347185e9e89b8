------------------------------- MODULE Commands -------------------------------
(***************************************************************************)
(* On-demand commands to the agent of one node: the HTTP handlers that     *)
(* issue them (internal/panel/httpapi/nodes_actions.go, nodes_bulk.go,     *)
(* geo_update.go, core_upgrade.go, xray_logs.go), the hub that correlates  *)
(* a result with the caller waiting for it (internal/panel/control/hub.go, *)
(* control_service.go), the agent that executes them inline in its session *)
(* loop (internal/node/agent/client.go, registry.go), and the two of them  *)
(* that replace files on the node (internal/node/adapter/xray/             *)
(* coreversion.go, geodata.go).                                            *)
(*                                                                         *)
(* A call is one SendCommand; its command id is a fresh UUID, here the     *)
(* call's place in the order of issue, which also names the core binary    *)
(* and the pair of geo files it installs.  Downloads are checked against a *)
(* SHA-256: a download step either yields the file asked for or fails.     *)
(***************************************************************************)
EXTENDS Integers, Sequences, FiniteSets

CONSTANTS
    MaxCalls,       \* bound: commands issued, each by one HTTP request
    Routes,         \* the handlers that issue them
    AgentKnows,     \* command kinds every build of the agent understands
    MaxCmdStreams   \* bound: streams the agent opens, one after the other

CmdKinds == {"RestartAdapters", "UpdateGeoData", "UpgradeCore", "FetchLogs"}

\* The command each handler builds.
KindOf == [handleRestartNode |-> "RestartAdapters",
           executeBulkRestart |-> "RestartAdapters",
           handleUpdateNodeGeoData |-> "UpdateGeoData",
           handleUpgradeNodeCore |-> "UpgradeCore",
           handleGetXrayLogs |-> "FetchLogs"]

ASSUME CommandsAssumption ==
    /\ MaxCalls \in Nat
    /\ Routes \subseteq DOMAIN KindOf
    /\ AgentKnows \subseteq CmdKinds
    /\ MaxCmdStreams \in Nat

Calls == 1 .. MaxCalls
CmdStreams == 1 .. MaxCmdStreams
CmdBodies == {"ok", "failed", "unrecognised"}

\* Core binaries and geo files: what was there before, none, or a call's.
NoFile == -1
Original == 0
Files == {NoFile, Original} \cup Calls

VARIABLES
    route,      \* the handler behind each call
    caller,     \* where each call's handler is
    told,       \* what SendCommand returned to it
    reply,      \* the HTTP reply
    pending,    \* Hub.pending: call ids somebody is waiting on
    slot,       \* each call's result channel, capacity 1
    cmdConn,    \* the stream registered in Hub.cmds, 0 for none
    cmdBuf,     \* each stream's command channel, capacity 1
    cmdClosed,  \* streams whose command channel is closed
    cmdSrv,     \* each stream's handler on the panel
    cmdCut,     \* streams whose transport is gone
    cmdDown,    \* commands on their way to the agent, by stream
    cmdUp,      \* results on their way to the panel, by stream
    cmdSess,    \* the agent's stream, 0 for none
    stage,      \* what the agent's session loop is doing
    current,    \* the command it is executing
    core,       \* the Xray binary: installed, .previous, and running
    geo,        \* geoip.dat, geosite.dat, and the pair Xray has loaded
    registry,   \* adapter_registry: version and geo checksum of the row
    audited,    \* calls with an event and an audit row
    ran,        \* history: what executing each command produced
    before,     \* history: core binary installed when the upgrade began
    stranded    \* history: an upgrade died or could not restore the binary

cmdCallVars == <<route, caller, told, reply>>
cmdHubVars == <<pending, slot, cmdConn, cmdBuf, cmdClosed>>
cmdStreamVars == <<cmdSrv, cmdCut, cmdDown, cmdUp>>
cmdAgentVars == <<cmdSess, stage, current>>
cmdHostVars == <<core, geo>>
cmdStoreVars == <<registry, audited>>
cmdHistoryVars == <<ran, before, stranded>>
cmdVars == <<cmdCallVars, cmdHubVars, cmdStreamVars, cmdAgentVars, cmdHostVars,
             cmdStoreVars, cmdHistoryVars>>

NoReply == [status |-> 0, delivered |-> FALSE, ok |-> FALSE]
NoCall == 0

CmdInit ==
    /\ route = [c \in Calls |-> "none"]
    /\ caller = [c \in Calls |-> "idle"]
    /\ told = [c \in Calls |-> "nothing"]
    /\ reply = [c \in Calls |-> NoReply]
    /\ pending = {}
    /\ slot = [c \in Calls |-> "empty"]
    /\ cmdConn = 0
    /\ cmdBuf = [s \in CmdStreams |-> <<>>]
    /\ cmdClosed = {}
    /\ cmdSrv = [s \in CmdStreams |-> "none"]
    /\ cmdCut = {}
    /\ cmdDown = [s \in CmdStreams |-> <<>>]
    /\ cmdUp = [s \in CmdStreams |-> <<>>]
    /\ cmdSess = 0
    /\ stage = "idle"
    /\ current = NoCall
    /\ core = [installed |-> Original, previous |-> NoFile, running |-> Original]
    /\ geo = [geoip |-> Original, geosite |-> Original,
              loaded |-> <<Original, Original>>]
    /\ registry = [version |-> Original, geo |-> NoFile]
    /\ audited = {}
    /\ ran = [c \in Calls |-> "no"]
    /\ before = Original
    /\ stranded = FALSE

-----------------------------------------------------------------------------
(***************************************************************************)
(* The hub, as the HTTP handlers use it.                                   *)
(***************************************************************************)

\* SendCommand: register the result channel, then offer the command to the
\* stream's buffer.  No stream, or a full buffer, is "not delivered".
SendCommand(c, r) ==
    /\ caller[c] = "idle" /\ \A d \in Calls : d < c => caller[d] # "idle"
    /\ route' = [route EXCEPT ![c] = r]
    /\ IF cmdConn # 0 /\ cmdBuf[cmdConn] = <<>>
       THEN /\ cmdBuf' = [cmdBuf EXCEPT ![cmdConn] = <<c>>]
            /\ pending' = pending \cup {c}
            /\ caller' = [caller EXCEPT ![c] = "waiting"]
            /\ UNCHANGED told
       ELSE /\ caller' = [caller EXCEPT ![c] = "returned"]
            /\ told' = [told EXCEPT ![c] = "not delivered"]
            /\ UNCHANGED <<cmdBuf, pending>>
    /\ UNCHANGED <<reply, slot, cmdConn, cmdClosed, cmdStreamVars,
                   cmdAgentVars, cmdHostVars, cmdStoreVars, cmdHistoryVars>>

\* The three ways out of SendCommand's wait; each deletes the pending entry.
SendCommandReturns(c) ==
    /\ caller[c] = "waiting"
    /\ \E v \in {"timeout", "cancelled", slot[c]} \ {"empty"} :
           told' = [told EXCEPT ![c] = v]
    /\ caller' = [caller EXCEPT ![c] = "returned"]
    /\ pending' = pending \ {c}
    /\ slot' = [slot EXCEPT ![c] = "empty"]
    /\ UNCHANGED <<route, reply, cmdConn, cmdBuf, cmdClosed,
                   cmdStreamVars, cmdAgentVars, cmdHostVars, cmdStoreVars,
                   cmdHistoryVars>>

-----------------------------------------------------------------------------
(***************************************************************************)
(* The tail of each handler, once SendCommand has returned: stamp the      *)
(* registry for a successful geo update or core upgrade, write an event    *)
(* and an audit row, answer.  Every write uses the request's context, so   *)
(* all of them fail when the request was cancelled; any may fail anyway.   *)
(***************************************************************************)

Replies(c, status, delivered, ok) ==
    /\ caller' = [caller EXCEPT ![c] = "replied"]
    /\ reply' = [reply EXCEPT ![c] = [status |-> status, delivered |-> delivered,
                                      ok |-> ok]]
    /\ UNCHANGED <<route, told, cmdHubVars, cmdStreamVars, cmdAgentVars,
                   cmdHostVars, cmdHistoryVars>>

GotResult(c) == told[c] \in CmdBodies

\* RecordNodeEvent and the audit transaction, then the answer.
RecordAndReply(c, delivered, ok) ==
    \/ /\ told[c] # "cancelled"
       /\ audited' = audited \cup {c}
       /\ Replies(c, 200, delivered, ok)
    \/ /\ UNCHANGED audited
       /\ Replies(c, 500, FALSE, FALSE)

\* A result of any body counts as delivered; its outcomes are shown as sent.
handleRestartNode(c) ==
    /\ caller[c] = "returned" /\ route[c] = "handleRestartNode"
    /\ RecordAndReply(c, GotResult(c), told[c] = "ok")
    /\ UNCHANGED registry

\* One node of a bulk request: success unless the command was not delivered,
\* not answered, or answered with a failed adapter.
executeBulkRestart(c) ==
    /\ caller[c] = "returned" /\ route[c] = "executeBulkRestart"
    /\ RecordAndReply(c, GotResult(c), told[c] \in {"ok", "unrecognised"})
    /\ UNCHANGED registry

\* RecordGeoUpdate; failing to stamp is only noted in the audit log.
RecordGeoUpdate(c) == registry' \in {registry, [registry EXCEPT !.geo = c]}

\* RecordCoreUpgrade also overwrites the version column.
RecordCoreUpgrade(c) == registry' \in {registry, [registry EXCEPT !.version = c]}

handleUpdateNodeGeoData(c) ==
    /\ caller[c] = "returned" /\ route[c] = "handleUpdateNodeGeoData"
    /\ IF told[c] = "ok" THEN RecordGeoUpdate(c) ELSE UNCHANGED registry
    /\ RecordAndReply(c, GotResult(c) /\ told[c] # "unrecognised", told[c] = "ok")

\* Mutant of handleUpgradeNodeCore: any result is taken for success.
RecordAnyResult(c) ==
    /\ caller[c] = "returned" /\ route[c] = "handleUpgradeNodeCore"
    /\ IF GotResult(c) THEN RecordCoreUpgrade(c) ELSE UNCHANGED registry
    /\ RecordAndReply(c, GotResult(c), told[c] = "ok")

handleUpgradeNodeCore(c) ==
    /\ caller[c] = "returned" /\ route[c] = "handleUpgradeNodeCore"
    /\ IF told[c] = "ok" THEN RecordCoreUpgrade(c) ELSE UNCHANGED registry
    /\ RecordAndReply(c, GotResult(c) /\ told[c] # "unrecognised", told[c] = "ok")

\* Reading logs is not audited.
handleGetXrayLogs(c) ==
    /\ caller[c] = "returned" /\ route[c] = "handleGetXrayLogs"
    /\ Replies(c, 200, GotResult(c) /\ told[c] # "unrecognised", told[c] = "ok")
    /\ UNCHANGED cmdStoreVars

-----------------------------------------------------------------------------
(***************************************************************************)
(* Streams.                                                                *)
(***************************************************************************)

\* The agent opens a stream: Register supersedes the stream before, Hello
\* replaces the registry row's version by the adapter's own constant "1".
OpenStream(s) ==
    /\ cmdSess = 0 /\ cmdSrv[s] = "none"
    /\ \A t \in CmdStreams : t < s => cmdSrv[t] # "none"
    /\ cmdSess' = s
    /\ cmdSrv' = [cmdSrv EXCEPT ![s] = "running"]
    /\ cmdConn' = s
    /\ cmdClosed' = cmdClosed \cup ({cmdConn} \ {0})
    /\ registry' = [registry EXCEPT !.version = Original]
    /\ UNCHANGED <<cmdCallVars, pending, slot, cmdBuf, cmdCut, cmdDown, cmdUp,
                   stage, current, cmdHostVars, audited, cmdHistoryVars>>

\* The handler takes a command from its channel and sends it; a closed
\* channel still yields the command it holds.
ForwardCommand(s) ==
    /\ cmdSrv[s] = "running" /\ cmdBuf[s] # <<>>
    /\ cmdBuf' = [cmdBuf EXCEPT ![s] = <<>>]
    /\ IF s \in cmdCut THEN UNCHANGED cmdDown
       ELSE cmdDown' = [cmdDown EXCEPT ![s] = @ \o cmdBuf[s]]
    /\ UNCHANGED <<cmdCallVars, pending, slot, cmdConn, cmdClosed, cmdSrv, cmdCut,
                   cmdUp, cmdAgentVars, cmdHostVars, cmdStoreVars, cmdHistoryVars>>

\* Mutant of DeliverResult: whoever waits gets the result.
DeliverResultToAnyone(s) ==
    /\ cmdSrv[s] = "running" /\ cmdUp[s] # <<>>
    /\ \E c \in pending : slot' = [slot EXCEPT ![c] = Head(cmdUp[s]).body]
    /\ cmdUp' = [cmdUp EXCEPT ![s] = Tail(@)]
    /\ UNCHANGED <<cmdCallVars, pending, cmdConn, cmdBuf, cmdClosed, cmdSrv, cmdCut,
                   cmdDown, cmdAgentVars, cmdHostVars, cmdStoreVars, cmdHistoryVars>>

\* DeliverResult: wake the caller waiting on the result's command id, if it
\* still waits and its channel is empty.
DeliverResult(s) ==
    /\ cmdSrv[s] = "running" /\ cmdUp[s] # <<>>
    /\ LET c == Head(cmdUp[s]).call
       IN slot' = IF c \in pending /\ slot[c] = "empty"
                  THEN [slot EXCEPT ![c] = Head(cmdUp[s]).body] ELSE slot
    /\ cmdUp' = [cmdUp EXCEPT ![s] = Tail(@)]
    /\ UNCHANGED <<cmdCallVars, pending, cmdConn, cmdBuf, cmdClosed, cmdSrv, cmdCut,
                   cmdDown, cmdAgentVars, cmdHostVars, cmdStoreVars, cmdHistoryVars>>

\* The stream handler returns (superseded, or its transport is gone) and
\* releases its channels; results it has not received are lost with it.
HandlerReturns(s) ==
    /\ cmdSrv[s] = "running" /\ s \in cmdClosed \cup cmdCut
    /\ cmdSrv' = [cmdSrv EXCEPT ![s] = "done"]
    /\ cmdConn' = IF cmdConn = s THEN 0 ELSE cmdConn
    /\ cmdClosed' = cmdClosed \cup {s}
    /\ cmdCut' = cmdCut \cup {s}
    /\ cmdBuf' = [cmdBuf EXCEPT ![s] = <<>>]
    /\ cmdUp' = [cmdUp EXCEPT ![s] = <<>>]
    /\ UNCHANGED <<cmdCallVars, pending, slot, cmdDown,
                   cmdAgentVars, cmdHostVars, cmdStoreVars, cmdHistoryVars>>

CutStream(s) ==
    /\ cmdSrv[s] = "running" /\ s \notin cmdCut
    /\ cmdCut' = cmdCut \cup {s}
    /\ UNCHANGED <<cmdCallVars, cmdHubVars, cmdSrv, cmdDown, cmdUp, cmdAgentVars,
                   cmdHostVars, cmdStoreVars, cmdHistoryVars>>

-----------------------------------------------------------------------------
(***************************************************************************)
(* The agent: commands run inline in the session loop, one at a time.      *)
(***************************************************************************)

\* handleCommand: a command already received is handled even on a dead stream.
AgentStarts ==
    /\ cmdSess # 0 /\ stage = "idle" /\ cmdDown[cmdSess] # <<>>
    /\ LET c == Head(cmdDown[cmdSess])
           kind == KindOf[route[c]]
       IN /\ current' = c
          /\ ran' = [ran EXCEPT ![c] = "running"]
          /\ stage' \in {kind} \cup (IF kind \in AgentKnows THEN {} ELSE {"unrecognised"})
          /\ before' = IF kind = "UpgradeCore" THEN core.installed ELSE before
    /\ cmdDown' = [cmdDown EXCEPT ![cmdSess] = Tail(@)]
    /\ UNCHANGED <<cmdCallVars, cmdHubVars, cmdSrv, cmdCut, cmdUp, cmdSess,
                   cmdHostVars, cmdStoreVars, stranded>>

\* What the agent leaves alone while it executes a command.
Executing(s) ==
    /\ stage = s
    /\ UNCHANGED <<cmdCallVars, cmdHubVars, cmdStreamVars, cmdSess, current,
                   cmdStoreVars, before>>

Goes(next) == stage' = next /\ UNCHANGED ran
Finishes(body) == stage' = "answer" /\ ran' = [ran EXCEPT ![current] = body]

\* systemctl restart: the unit comes back on the files now installed, or the
\* restart fails with the old process still there or gone.
XrayRestarts ==
    /\ core.installed # NoFile
    /\ core' = [core EXCEPT !.running = core.installed]
    /\ geo' = [geo EXCEPT !.loaded = <<geo.geoip, geo.geosite>>]
XrayRestartFails ==
    /\ \E p \in {core.running, NoFile} : core' = [core EXCEPT !.running = p]
    /\ UNCHANGED geo

UnrecognisedCommand ==
    Executing("unrecognised") /\ Finishes("unrecognised")
        /\ UNCHANGED <<cmdHostVars, stranded>>

\* RestartAll restarts every adapter and reports each outcome.
RestartAll ==
    /\ Executing("RestartAdapters")
    /\ \/ XrayRestarts /\ Finishes("ok")
       \/ XrayRestartFails /\ Finishes("failed")
    /\ UNCHANGED stranded

ReadLogs ==
    /\ Executing("FetchLogs")
    /\ \E body \in {"ok", "failed"} : Finishes(body)
    /\ UNCHANGED <<cmdHostVars, stranded>>

\* UpdateGeoData: both files are fetched and verified before either is
\* renamed into place; Xray is restarted after both renames.
FetchGeoData ==
    /\ Executing("UpdateGeoData")
    /\ Goes("install geoip") \/ Finishes("failed")
    /\ UNCHANGED <<cmdHostVars, stranded>>

InstallGeoIP ==
    /\ Executing("install geoip")
    /\ \/ Goes("install geosite") /\ geo' = [geo EXCEPT !.geoip = current]
       \/ Finishes("failed") /\ UNCHANGED geo
    /\ UNCHANGED <<core, stranded>>

InstallGeoSite ==
    /\ Executing("install geosite")
    /\ \/ Goes("geo restart") /\ geo' = [geo EXCEPT !.geosite = current]
       \/ Finishes("failed") /\ UNCHANGED geo
    /\ UNCHANGED <<core, stranded>>

RestartAfterGeo ==
    /\ Executing("geo restart")
    /\ \/ XrayRestarts /\ Finishes("ok")
       \/ XrayRestartFails /\ Finishes("failed")
    /\ UNCHANGED stranded

\* UpgradeCore up to the last step that costs nothing: resolve the installed
\* binary, download, verify, extract.
DownloadCore ==
    /\ Executing("UpgradeCore")
    /\ \/ core.installed # NoFile /\ Goes("preflight")
       \/ Finishes("failed")
    /\ UNCHANGED <<cmdHostVars, stranded>>

\* The downloaded binary must run and report the expected version.
Preflight ==
    /\ Executing("preflight")
    /\ Goes("backup") \/ Finishes("failed")
    /\ UNCHANGED <<cmdHostVars, stranded>>

BackUpCore ==
    /\ Executing("backup")
    /\ \/ /\ Goes("install")
          /\ core' = [core EXCEPT !.installed = NoFile, !.previous = core.installed]
       \/ Finishes("failed") /\ UNCHANGED core
    /\ UNCHANGED <<geo, stranded>>

RestoredCore == [core EXCEPT !.installed = core.previous, !.previous = NoFile]

\* Mutant of InstallCore: a failed rename leaves the binary in .previous.
InstallWithoutRestore ==
    /\ Executing("install")
    /\ \/ Goes("core restart") /\ core' = [core EXCEPT !.installed = current]
       \/ Finishes("failed") /\ UNCHANGED core
    /\ UNCHANGED <<geo, stranded>>

InstallCore ==
    /\ Executing("install")
    /\ \/ Goes("core restart") /\ core' = [core EXCEPT !.installed = current]
                               /\ UNCHANGED stranded
       \/ Finishes("failed") /\ core' = RestoredCore /\ UNCHANGED stranded
       \/ Finishes("failed") /\ stranded' = TRUE /\ UNCHANGED core
    /\ UNCHANGED geo

RestartCore ==
    /\ Executing("core restart")
    /\ \/ XrayRestarts /\ Goes("health")
       \/ XrayRestartFails /\ Goes("rollback")
    /\ UNCHANGED stranded

\* waitHealthy polls until the unit is active or the window has passed.
waitHealthy ==
    /\ Executing("health")
    /\ Finishes("ok") \/ Goes("rollback")
    /\ UNCHANGED <<cmdHostVars, stranded>>

\* rollback: the new binary aside, the previous one back, restart (best
\* effort), and report the original cause.
rollback ==
    /\ Executing("rollback")
    /\ Finishes("failed")
    /\ \/ /\ core' \in {[RestoredCore EXCEPT !.running = core.previous],
                        RestoredCore, [RestoredCore EXCEPT !.running = NoFile]}
          /\ geo' = IF core'.running = core.previous
                    THEN [geo EXCEPT !.loaded = <<geo.geoip, geo.geosite>>] ELSE geo
          /\ UNCHANGED stranded
       \/ /\ core' = [core EXCEPT !.installed = NoFile]
          /\ stranded' = TRUE
          /\ UNCHANGED geo

\* What the agent had not read from the stream goes with it.
LeaveSession ==
    /\ cmdSess' = 0
    /\ cmdDown' = [cmdDown EXCEPT ![cmdSess] = <<>>]

\* The result carries the command's id; a dead stream ends the session.
AgentAnswers ==
    /\ stage = "answer"
    /\ stage' = "idle"
    /\ current' = NoCall
    /\ IF cmdSess \in cmdCut THEN UNCHANGED cmdUp
       ELSE cmdUp' = [cmdUp EXCEPT ![cmdSess] =
                          Append(@, [call |-> current, body |-> ran[current]])]
    /\ IF cmdSess \in cmdCut THEN LeaveSession ELSE UNCHANGED <<cmdSess, cmdDown>>
    /\ UNCHANGED <<cmdCallVars, cmdHubVars, cmdSrv, cmdCut, cmdHostVars,
                   cmdStoreVars, cmdHistoryVars>>

\* The agent notices that its stream is gone.
SessionEnds ==
    /\ stage = "idle" /\ cmdSess \in cmdCut
    /\ LeaveSession
    /\ UNCHANGED <<cmdCallVars, cmdHubVars, cmdSrv, cmdCut, cmdUp, stage, current,
                   cmdHostVars, cmdStoreVars, cmdHistoryVars>>

UpgradeStages == {"install", "core restart", "health", "rollback"}

\* The agent process dies.  Xray, a unit of its own, keeps running; files stay
\* as the interrupted command left them.  When the agent was asked to stop
\* while waiting for the new core, its cancelled context turns into a rollback
\* whose restart cannot run.
AgentStops ==
    /\ cmdSess # 0
    /\ cmdCut' = cmdCut \cup {cmdSess}
    /\ LeaveSession
    /\ stage' = "idle"
    /\ current' = NoCall
    /\ \/ /\ UNCHANGED core
          /\ stranded' = (stranded \/ stage \in UpgradeStages)
       \/ /\ stage \in {"core restart", "health"}
          /\ core' = RestoredCore
          /\ UNCHANGED stranded
    /\ UNCHANGED <<cmdCallVars, cmdHubVars, cmdSrv, cmdUp, geo, cmdStoreVars, ran,
                   before>>

CmdNext ==
    \/ \E c \in Calls :
           \/ \E r \in Routes : SendCommand(c, r)
           \/ SendCommandReturns(c)
           \/ handleRestartNode(c) \/ executeBulkRestart(c)
           \/ handleUpdateNodeGeoData(c) \/ handleUpgradeNodeCore(c)
           \/ handleGetXrayLogs(c)
    \/ \E s \in CmdStreams :
           \/ OpenStream(s) \/ ForwardCommand(s) \/ DeliverResult(s)
           \/ HandlerReturns(s) \/ CutStream(s)
    \/ AgentStarts \/ UnrecognisedCommand \/ RestartAll \/ ReadLogs
    \/ FetchGeoData \/ InstallGeoIP \/ InstallGeoSite \/ RestartAfterGeo
    \/ DownloadCore \/ Preflight \/ BackUpCore \/ InstallCore \/ RestartCore
    \/ waitHealthy \/ rollback
    \/ AgentAnswers \/ SessionEnds \/ AgentStops

CmdSpec == CmdInit /\ [][CmdNext]_cmdVars
-----------------------------------------------------------------------------

Stages == {"idle", "answer", "unrecognised", "install geoip", "install geosite",
           "geo restart", "preflight", "backup", "install", "core restart",
           "health", "rollback"} \cup CmdKinds

CmdTypeOK ==
    /\ route \in [Calls -> Routes \cup {"none"}]
    /\ caller \in [Calls -> {"idle", "waiting", "returned", "replied"}]
    /\ told \in [Calls -> {"nothing", "not delivered", "timeout", "cancelled"}
                              \cup CmdBodies]
    /\ reply \in [Calls -> [status : {0, 200, 500}, delivered : BOOLEAN, ok : BOOLEAN]]
    /\ pending \subseteq Calls
    /\ slot \in [Calls -> {"empty"} \cup CmdBodies]
    /\ cmdConn \in {0} \cup CmdStreams
    /\ cmdBuf \in [CmdStreams -> {<<>>} \cup {<<c>> : c \in Calls}]
    /\ cmdClosed \subseteq CmdStreams
    /\ cmdSrv \in [CmdStreams -> {"none", "running", "done"}]
    /\ cmdCut \subseteq CmdStreams
    /\ cmdDown \in [CmdStreams -> Seq(Calls)]
    /\ cmdUp \in [CmdStreams -> Seq([call : Calls, body : CmdBodies])]
    /\ cmdSess \in {0} \cup CmdStreams
    /\ stage \in Stages
    /\ current \in Calls \cup {NoCall}
    /\ core \in [installed : Files, previous : Files, running : Files]
    /\ geo \in [geoip : Files, geosite : Files, loaded : Files \X Files]
    /\ registry \in [version : {Original} \cup Calls, geo : {NoFile} \cup Calls]
    /\ audited \subseteq Calls
    /\ ran \in [Calls -> {"no", "running"} \cup CmdBodies]
    /\ before \in Files
    /\ stranded \in BOOLEAN

\* SendCommand is an at-most-once call (module CommandCall): however streams
\* are superseded, cut and reopened and however late a result arrives, no
\* command runs twice, none runs after its caller was told "not delivered",
\* and no caller gets another command's result.
Call == INSTANCE CommandCall WITH ran <- ran, told <- told
CommandAtMostOnce == Call!CallSpec

\* An upgrade is all or nothing.  Once the agent has answered or given up,
\* unless it died half way or restoring the old binary failed, the install
\* path holds a binary; after a failed upgrade it is the one from before, and
\* after a successful one it is the new one, running.
UpgradeAllOrNothing ==
    stage \notin UpgradeStages /\ ~stranded =>
        /\ core.installed # NoFile
        /\ stage = "answer" /\ route[current] = "handleUpgradeNodeCore" =>
               /\ ran[current] = "failed" => core.installed = before
               /\ ran[current] = "ok" => core.installed = current
                                         /\ core.running = current

\* The panel's registry row never names a core version or geo files that the
\* node has not installed and restarted on, whatever the handlers of
\* overlapping requests were told and in whichever order they record it.
RecordedWasInstalled ==
    /\ registry.version # Original => ran[registry.version] = "ok"
    /\ registry.geo # NoFile => ran[registry.geo] = "ok"

\* registry.go:39-41: the version column "reflects reality on the adapter's
\* next Hello regardless".  Refuted: Descriptor() reports the constant "1".
HelloReflectsReality ==
    [][\A s \in CmdStreams : OpenStream(s) => registry'.version = core.running]_cmdVars

\* geodata.go:63-68: Xray "never observes" one new and one old geo file.
\* Refuted: after a failed second rename any later restart loads the mixture.
GeoPairLoadedWhole == geo.loaded[1] = geo.loaded[2]
=============================================================================
