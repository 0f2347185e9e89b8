--------------------------- MODULE NodeCallsProofs ---------------------------
(***************************************************************************)
(* Proofs about the two services a node and the panel share beside the     *)
(* revisions: on-demand commands, for every number of calls and streams,   *)
(* every set of handlers and whatever the agent's build understands;       *)
(* enrolment, for any hosts and any number of nodes, tokens, Enroll calls  *)
(* and reinstalled machines; and both explored side by side.               *)
(***************************************************************************)
EXTENDS MCNodeCalls, SequenceTheorems, TLAPS

-----------------------------------------------------------------------------
(* Commands: type correctness. *)

\* A handler's command is one of the four kinds.
LEMMA KindsOfRoutes == \A r \in Routes : KindOf[r] \in CmdKinds
BY CommandsAssumption DEF KindOf, CmdKinds

\* What the steps of the agent that execute a command have in common: they
\* touch its files and its own state, and move on or finish with a result.
ExecStep ==
    /\ stage \notin {"idle", "answer"}
    /\ UNCHANGED <<cmdCallVars, cmdHubVars, cmdStreamVars, cmdSess, current,
                   cmdStoreVars, before>>
    /\ \/ stage' \in Stages \ ({"idle", "answer"} \cup CmdKinds) /\ ran' = ran
       \/ \E body \in CmdBodies : stage' = "answer" /\ ran' = [ran EXCEPT ![current] = body]

\* The tail of a handler: one call that has returned is answered.
TailStep ==
    /\ \E c \in Calls : /\ caller[c] = "returned"
                        /\ caller' = [caller EXCEPT ![c] = "replied"]
                        /\ UNCHANGED registry \/ told[c] = "ok"
                        /\ registry' \in {registry, [registry EXCEPT !.geo = c],
                                          [registry EXCEPT !.version = c]}
                        /\ audited' \in {audited, audited \cup {c}}
    /\ UNCHANGED <<route, told, cmdHubVars, cmdStreamVars, cmdAgentVars,
                   cmdHostVars, cmdHistoryVars>>

Executions ==
    \/ UnrecognisedCommand \/ RestartAll \/ ReadLogs
    \/ FetchGeoData \/ InstallGeoIP \/ InstallGeoSite \/ RestartAfterGeo
    \/ DownloadCore \/ Preflight \/ BackUpCore \/ InstallCore \/ RestartCore
    \/ waitHealthy \/ rollback

Tails == \E c \in Calls :
    \/ handleRestartNode(c) \/ executeBulkRestart(c) \/ handleUpdateNodeGeoData(c)
    \/ handleUpgradeNodeCore(c) \/ handleGetXrayLogs(c)

\* Every step that executes a command is an ExecStep.
LEMMA ExecutionsAreExecSteps == Executions => ExecStep
<1> USE DEF ExecStep, Executing, Goes, Finishes, Stages, CmdBodies, CmdKinds
<1>1. UnrecognisedCommand => ExecStep
  BY DEF UnrecognisedCommand
<1>2. RestartAll => ExecStep
  BY DEF RestartAll
<1>3. ReadLogs => ExecStep
  BY DEF ReadLogs
<1>4. FetchGeoData => ExecStep
  BY DEF FetchGeoData
<1>5. InstallGeoIP => ExecStep
  BY DEF InstallGeoIP
<1>6. InstallGeoSite => ExecStep
  BY DEF InstallGeoSite
<1>7. RestartAfterGeo => ExecStep
  BY DEF RestartAfterGeo
<1>8. DownloadCore => ExecStep
  BY DEF DownloadCore
<1>9. Preflight => ExecStep
  BY DEF Preflight
<1>10. BackUpCore => ExecStep
  BY DEF BackUpCore
<1>11. InstallCore => ExecStep
  BY DEF InstallCore
<1>12. RestartCore => ExecStep
  BY DEF RestartCore
<1>13. waitHealthy => ExecStep
  BY DEF waitHealthy
<1>14. rollback => ExecStep
  BY DEF rollback
<1> QED
  BY <1>1, <1>2, <1>3, <1>4, <1>5, <1>6, <1>7, <1>8, <1>9, <1>10, <1>11, <1>12, <1>13, <1>14
     DEF Executions

\* Every handler's tail is a TailStep.
LEMMA TailsAreTailSteps == Tails => TailStep
<1> USE DEF TailStep, Replies, RecordAndReply
<1> SUFFICES ASSUME NEW c \in Calls,
                    \/ handleRestartNode(c) \/ executeBulkRestart(c)
                    \/ handleUpdateNodeGeoData(c) \/ handleUpgradeNodeCore(c)
                    \/ handleGetXrayLogs(c)
             PROVE  TailStep
  BY DEF Tails
<1>1. CASE handleRestartNode(c)
  BY <1>1 DEF handleRestartNode
<1>2. CASE executeBulkRestart(c)
  BY <1>2 DEF executeBulkRestart
<1>3. CASE handleUpdateNodeGeoData(c)
  BY <1>3 DEF handleUpdateNodeGeoData, RecordGeoUpdate
<1>4. CASE handleUpgradeNodeCore(c)
  BY <1>4 DEF handleUpgradeNodeCore, RecordCoreUpgrade
<1>5. CASE handleGetXrayLogs(c)
  BY <1>5 DEF handleGetXrayLogs, cmdStoreVars
<1> QED
  BY <1>1, <1>2, <1>3, <1>4, <1>5

\* A step of the specification, by what it does to commands and callers.
LEMMA StepCases ==
    ASSUME [CmdNext]_cmdVars
    PROVE  \/ \E c \in Calls, r \in Routes : SendCommand(c, r)
           \/ \E c \in Calls : SendCommandReturns(c)
           \/ Tails
           \/ \E s \in CmdStreams : \/ OpenStream(s) \/ ForwardCommand(s) \/ DeliverResult(s)
                                    \/ HandlerReturns(s) \/ CutStream(s)
           \/ AgentStarts \/ Executions \/ AgentAnswers \/ SessionEnds \/ AgentStops
           \/ UNCHANGED cmdVars
BY DEF CmdNext, Tails, Executions

\* The type invariant in parts.
Buffers == {<<>>} \cup {<<c>> : c \in Calls}
Results == [call : Calls, body : CmdBodies]
Replied == [status : {0, 200, 500}, delivered : BOOLEAN, ok : BOOLEAN]

CallTypes ==
    /\ route \in [Calls -> Routes \cup {"none"}]
    /\ caller \in [Calls -> {"idle", "waiting", "returned", "replied"}]
    /\ told \in [Calls -> {"nothing", "not delivered", "timeout", "cancelled"}
                              \cup CmdBodies]
    /\ slot \in [Calls -> {"empty"} \cup CmdBodies]
    /\ ran \in [Calls -> {"no", "running"} \cup CmdBodies]

PanelTypes ==
    /\ reply \in [Calls -> Replied]
    /\ pending \subseteq Calls
    /\ cmdClosed \subseteq CmdStreams
    /\ cmdSrv \in [CmdStreams -> {"none", "running", "done"}]
    /\ cmdCut \subseteq CmdStreams
    /\ registry \in [version : {Original} \cup Calls, geo : {NoFile} \cup Calls]
    /\ audited \subseteq Calls

WireTypes ==
    /\ cmdConn \in {0} \cup CmdStreams
    /\ cmdSess \in {0} \cup CmdStreams
    /\ cmdBuf \in [CmdStreams -> Buffers]
    /\ cmdDown \in [CmdStreams -> Seq(Calls)]
    /\ cmdUp \in [CmdStreams -> Seq(Results)]

AgentTypes ==
    /\ stage \in Stages
    /\ current \in Calls \cup {NoCall}
    /\ before \in Files

HostTypes ==
    /\ core \in [installed : Files, previous : Files, running : Files]
    /\ geo \in [geoip : Files, geosite : Files, loaded : Files \X Files]
    /\ stranded \in BOOLEAN

CmdTypes == CallTypes /\ PanelTypes /\ WireTypes /\ AgentTypes /\ HostTypes

\* The parts make up the type invariant.
LEMMA TypesAreTypeOK == CmdTypes => CmdTypeOK
BY DEF CmdTypes, CallTypes, PanelTypes, WireTypes, AgentTypes, HostTypes, Buffers, Results,
       Replied, CmdTypeOK

\* What a command channel may hold.
LEMMA BufferProperties ==
    /\ <<>> \in Buffers
    /\ \A c \in Calls : <<c>> \in Buffers
    /\ \A b \in Buffers : b \in Seq(Calls)
    /\ \A b \in Buffers : b # <<>> => b[1] \in Calls /\ b = <<b[1]>>
<1>1. /\ <<>> \in Buffers /\ \A c \in Calls : <<c>> \in Buffers
  BY DEF Buffers
<1> SUFFICES ASSUME NEW b \in Buffers
             PROVE  b \in Seq(Calls) /\ (b # <<>> => b[1] \in Calls /\ b = <<b[1]>>)
  BY <1>1
<1>2. CASE b = <<>>
  BY <1>2, EmptySeq
<1>3. CASE \E c \in Calls : b = <<c>>
  <2> PICK c \in Calls : b = <<c>>
    BY <1>3
  <2>1. <<c>>[1] = c /\ <<c>> \in Seq(Calls)
    OBVIOUS
  <2> QED
    BY <2>1
<1> QED
  BY <1>2, <1>3 DEF Buffers

\* Executing a command leaves files of the node where there were files.
LEMMA ExecutionsKeepHostTypes == AgentTypes /\ HostTypes /\ Executions => HostTypes'
<1> SUFFICES ASSUME AgentTypes, HostTypes, Executions PROVE HostTypes'
  OBVIOUS
<1>1. HostTypes /\ current \in Files /\ NoFile \in Files
  BY DEF AgentTypes, Files, NoCall, Original
<1> HIDE DEF Files
<1>2. UNCHANGED cmdHostVars => core' = core /\ geo' = geo
  BY DEF cmdHostVars
<1>3. XrayRestarts => core' \in [installed : Files, previous : Files, running : Files]
                      /\ geo' \in [geoip : Files, geosite : Files, loaded : Files \X Files]
  BY <1>1 DEF XrayRestarts, HostTypes
<1>4. XrayRestartFails => core' \in [installed : Files, previous : Files, running : Files]
                          /\ geo' \in [geoip : Files, geosite : Files, loaded : Files \X Files]
  BY <1>1 DEF XrayRestartFails, HostTypes
<1>5. CASE UnrecognisedCommand \/ ReadLogs \/ FetchGeoData \/ DownloadCore \/ Preflight \/ waitHealthy
  BY <1>1, <1>2, <1>5 DEF UnrecognisedCommand, ReadLogs, FetchGeoData, DownloadCore,
                          Preflight, waitHealthy, HostTypes
<1>6. CASE RestartAll \/ RestartAfterGeo \/ RestartCore
  BY <1>1, <1>3, <1>4, <1>6 DEF RestartAll, RestartAfterGeo, RestartCore, HostTypes
<1>7. CASE InstallGeoIP \/ InstallGeoSite
  BY <1>1, <1>7 DEF InstallGeoIP, InstallGeoSite, HostTypes
<1>8. CASE BackUpCore \/ InstallCore
  BY <1>1, <1>8 DEF BackUpCore, InstallCore, RestoredCore, HostTypes
<1>9. CASE rollback
  <2> DEFINE Cores == [installed : Files, previous : Files, running : Files]
  <2>1. RestoredCore \in Cores /\ core.previous \in Files
    BY <1>1 DEF RestoredCore, HostTypes
  <2>2. \A p \in Files : [RestoredCore EXCEPT !.running = p] \in Cores
    BY <2>1
  <2>3. core' \in Cores
    <3>1. [core EXCEPT !.installed = NoFile] \in Cores
      BY <1>1 DEF HostTypes
    <3> QED
      BY <1>1, <1>9, <2>1, <2>2, <3>1 DEF rollback
  <2>4. geo' \in [geoip : Files, geosite : Files, loaded : Files \X Files]
    <3>1. geo' = geo \/ geo' = [geo EXCEPT !.loaded = <<geo.geoip, geo.geosite>>]
      BY <1>9 DEF rollback
    <3> QED
      BY <1>1, <3>1 DEF HostTypes
  <2>5. stranded' \in BOOLEAN
    BY <1>1, <1>9 DEF rollback, HostTypes
  <2> QED
    BY <2>3, <2>4, <2>5 DEF HostTypes
<1> QED
  BY <1>5, <1>6, <1>7, <1>8, <1>9 DEF Executions

-----------------------------------------------------------------------------
(* Commands: the inductive invariant. *)

\* What the agent is doing agrees with what is recorded of the command.
AgentInv ==
    /\ stage # "idle" => current \in Calls
    /\ stage \notin {"idle", "answer"} => ran[current] = "running"
    /\ stage = "answer" => ran[current] \in CmdBodies

\* A call's handler, its result channel and its result.
CallOk(c) ==
    /\ caller[c] = "idle" => told[c] = "nothing" /\ ran[c] = "no"
    /\ caller[c] = "waiting" => told[c] = "nothing"
    /\ caller[c] # "idle" => route[c] \in Routes
    /\ slot[c] # "empty" => slot[c] = ran[c]
    /\ told[c] \in CmdBodies => told[c] = ran[c]
    /\ told[c] = "not delivered" => ran[c] = "no"

CallerInv == \A c \in Calls : CallOk(c)

\* A command still on its way has not run, and its caller was not told that
\* it is not.
OnItsWay == {c \in Calls : ran[c] = "no" /\ caller[c] # "idle" /\ told[c] # "not delivered"}

BufferedInv == \A s \in CmdStreams : cmdBuf[s] # <<>> =>
    /\ cmdBuf[s][1] \in OnItsWay
    /\ \A t \in CmdStreams : cmdBuf[t] # <<>> /\ cmdBuf[t][1] = cmdBuf[s][1] => t = s
    /\ \A t \in CmdStreams : \A i \in 1 .. Len(cmdDown[t]) : cmdDown[t][i] # cmdBuf[s][1]

SentInv == \A s \in CmdStreams : \A i \in 1 .. Len(cmdDown[s]) :
    /\ cmdDown[s][i] \in OnItsWay
    /\ \A t \in CmdStreams : \A j \in 1 .. Len(cmdDown[t]) :
           cmdDown[t][j] = cmdDown[s][i] => t = s /\ j = i

\* A result on its way is what executing its command produced.
ResultInv == \A s \in CmdStreams : \A i \in 1 .. Len(cmdUp[s]) :
    cmdUp[s][i].body = ran[cmdUp[s][i].call]

CmdInv == CmdTypes /\ AgentInv /\ CallerInv /\ BufferedInv /\ SentInv /\ ResultInv

\* The initial states satisfy it.
LEMMA CmdInitInv == CmdInit => CmdInv
<1> SUFFICES ASSUME CmdInit PROVE CmdInv
  OBVIOUS
<1>1. CmdTypes
  <2>1. WireTypes
    BY EmptySeq, BufferProperties DEF CmdInit, WireTypes
  <2>2. HostTypes
    BY DEF CmdInit, HostTypes, Files
  <2>3. PanelTypes
    BY DEF CmdInit, PanelTypes, Replied, NoReply
  <2>4. CallTypes
    BY DEF CmdInit, CallTypes
  <2>5. AgentTypes
    BY DEF CmdInit, AgentTypes, Stages, Files
  <2> QED
    BY <2>1, <2>2, <2>3, <2>4, <2>5 DEF CmdTypes
<1>2. AgentInv /\ CallerInv /\ BufferedInv /\ SentInv /\ ResultInv
  BY DEF CmdInit, AgentInv, CallerInv, BufferedInv, SentInv, ResultInv, CallOk, CmdBodies
<1> QED
  BY <1>1, <1>2 DEF CmdInv

-----------------------------------------------------------------------------
(* Commands: every step preserves it. *)

\* Where the commands and results on their way are.
LEMMA WhatIsOnItsWay ==
    ASSUME WireTypes
    PROVE  /\ \A s \in CmdStreams : cmdBuf[s] # <<>> => cmdBuf[s][1] \in Calls
           /\ \A s \in CmdStreams : \A i \in 1 .. Len(cmdDown[s]) : cmdDown[s][i] \in Calls
           /\ \A s \in CmdStreams : \A i \in 1 .. Len(cmdUp[s]) : cmdUp[s][i] \in Results
<1>1. \A s \in CmdStreams : cmdBuf[s] \in Buffers
  BY DEF WireTypes
<1>2. \A s \in CmdStreams : cmdDown[s] \in Seq(Calls) /\ cmdUp[s] \in Seq(Results)
  BY DEF WireTypes
<1> QED
  BY <1>1, <1>2, BufferProperties, ElementOfSeq

\* A handler sends its command.
LEMMA SendCommandKeepsInv ==
    ASSUME CmdInv, NEW c \in Calls, NEW r \in Routes, SendCommand(c, r)
    PROVE  CmdInv'
<1> USE DEF CmdInv, CmdTypes
<1>0. /\ UNCHANGED <<cmdDown, cmdUp, stage, current, ran, slot>>
      /\ caller[c] = "idle"
      /\ route' = [route EXCEPT ![c] = r]
      /\ \/ /\ UNCHANGED cmdBuf
            /\ caller' = [caller EXCEPT ![c] = "returned"]
            /\ told' = [told EXCEPT ![c] = "not delivered"]
         \/ /\ cmdConn \in CmdStreams /\ cmdBuf' = [cmdBuf EXCEPT ![cmdConn] = <<c>>]
            /\ caller' = [caller EXCEPT ![c] = "waiting"]
            /\ UNCHANGED told
  BY DEF SendCommand, cmdHistoryVars, cmdStreamVars, cmdAgentVars, WireTypes
<1>1. CmdTypes'
  <2>1. CallTypes'
    BY <1>0 DEF CallTypes
  <2>2. PanelTypes'
    BY DEF SendCommand, PanelTypes, cmdStreamVars, cmdStoreVars
  <2>3. WireTypes'
    BY <1>0, BufferProperties DEF SendCommand, WireTypes, cmdAgentVars
  <2>4. AgentTypes' /\ HostTypes'
    BY DEF SendCommand, AgentTypes, HostTypes, cmdAgentVars, cmdHostVars, cmdHistoryVars
  <2> QED
    BY <2>1, <2>2, <2>3, <2>4
<1>2. AgentInv'
  BY <1>0 DEF AgentInv
<1>3. CallerInv'
  <2> SUFFICES ASSUME NEW d \in Calls PROVE CallOk(d)'
    BY DEF CallerInv
  <2>1. CallOk(d)
    BY DEF CallerInv
  <2>2. CASE d = c
    BY <1>0, <2>1, <2>2 DEF CallTypes, CallOk, CmdBodies
  <2>3. CASE d # c
    BY <1>0, <2>1, <2>3 DEF CallTypes, CallOk
  <2> QED
    BY <2>2, <2>3
<1>4. OnItsWay \subseteq OnItsWay'
  BY <1>0 DEF CallTypes, OnItsWay
<1>5. SentInv'
  <2>1. cmdDown' = cmdDown
    BY <1>0
  <2>2. \A s \in CmdStreams : \A i \in 1 .. Len(cmdDown[s]) : cmdDown[s][i] \in OnItsWay'
    BY <1>4 DEF SentInv
  <2> QED
    BY <2>1, <2>2 DEF SentInv
<1>6. BufferedInv'
  <2>2. CASE cmdBuf' = cmdBuf
    BY <1>0, <1>4, <2>2 DEF BufferedInv
  <2>3. CASE /\ cmdConn \in CmdStreams /\ cmdBuf' = [cmdBuf EXCEPT ![cmdConn] = <<c>>]
             /\ caller' = [caller EXCEPT ![c] = "waiting"] /\ told' = told
    <3>1. c \notin OnItsWay
      BY <1>0 DEF OnItsWay
    <3>2. c \in OnItsWay'
      BY <1>0, <2>3 DEF OnItsWay, CallerInv, CallOk, CallTypes
    <3>3. \A s \in CmdStreams : cmdBuf'[s] = IF s = cmdConn THEN <<c>> ELSE cmdBuf[s]
      BY <2>3 DEF WireTypes
    <3>4. <<c>>[1] = c
      OBVIOUS
    <3>5. cmdDown' = cmdDown
      BY <1>0
    <3> SUFFICES ASSUME NEW s \in CmdStreams, cmdBuf'[s] # <<>>
                 PROVE  /\ cmdBuf'[s][1] \in OnItsWay'
                        /\ \A t \in CmdStreams :
                               cmdBuf'[t] # <<>> /\ cmdBuf'[t][1] = cmdBuf'[s][1] => t = s
                        /\ \A t \in CmdStreams : \A i \in 1 .. Len(cmdDown[t]) :
                               cmdDown[t][i] # cmdBuf'[s][1]
      BY <3>5 DEF BufferedInv
    <3>6. CASE s = cmdConn
      BY <2>3, <3>1, <3>2, <3>3, <3>4, <3>6 DEF BufferedInv, SentInv
    <3>7. CASE s # cmdConn
      BY <1>4, <2>3, <3>1, <3>3, <3>4, <3>7 DEF BufferedInv
    <3> QED
      BY <3>6, <3>7
  <2> QED
    BY <1>0, <2>2, <2>3
<1>7. ResultInv'
  BY <1>0 DEF ResultInv
<1> QED
  BY <1>1, <1>2, <1>3, <1>5, <1>6, <1>7

\* Steps that run no command, put none on its way, and tell no caller of one
\* on its way that it is not delivered.
LEMMA QuietStepsKeepInv ==
    ASSUME CmdInv, CmdTypes', CallerInv', ResultInv',
           ran' = ran,
           stage' = "idle" \/ UNCHANGED <<stage, current>>,
           \A s \in CmdStreams : cmdBuf'[s] = cmdBuf[s] \/ cmdBuf'[s] = <<>>,
           \A s \in CmdStreams : cmdDown'[s] = cmdDown[s] \/ cmdDown'[s] = <<>>,
           OnItsWay \subseteq OnItsWay'
    PROVE  CmdInv'
<1> USE DEF CmdInv
<1>1. AgentInv'
  BY DEF AgentInv
<1>2. \A s \in CmdStreams : \A i \in 1 .. Len(cmdDown'[s]) :
          i \in 1 .. Len(cmdDown[s]) /\ cmdDown'[s][i] = cmdDown[s][i]
  BY EmptySeq
<1>3. BufferedInv'
  <2> SUFFICES ASSUME NEW s \in CmdStreams, cmdBuf'[s] # <<>>
               PROVE  /\ cmdBuf'[s][1] \in OnItsWay'
                      /\ \A t \in CmdStreams :
                             cmdBuf'[t] # <<>> /\ cmdBuf'[t][1] = cmdBuf'[s][1] => t = s
                      /\ \A t \in CmdStreams : \A i \in 1 .. Len(cmdDown'[t]) :
                             cmdDown'[t][i] # cmdBuf'[s][1]
    BY DEF BufferedInv
  <2> QED
    BY <1>2 DEF BufferedInv
<1>4. SentInv'
  <2> SUFFICES ASSUME NEW s \in CmdStreams, NEW i \in 1 .. Len(cmdDown'[s])
               PROVE  /\ cmdDown'[s][i] \in OnItsWay'
                      /\ \A t \in CmdStreams : \A j \in 1 .. Len(cmdDown'[t]) :
                             cmdDown'[t][j] = cmdDown'[s][i] => t = s /\ j = i
    BY DEF SentInv
  <2> QED
    BY <1>2 DEF SentInv
<1> QED
  BY <1>1, <1>3, <1>4

\* Results that were already on their way are still those of their commands.
LEMMA FewerResults ==
    ASSUME ResultInv, ran' = ran, WireTypes,
           \A s \in CmdStreams : \/ cmdUp'[s] \in {cmdUp[s], <<>>}
                                 \/ cmdUp[s] # <<>> /\ cmdUp'[s] = Tail(cmdUp[s])
    PROVE  ResultInv'
<1> SUFFICES ASSUME NEW s \in CmdStreams, NEW i \in 1 .. Len(cmdUp'[s])
             PROVE  cmdUp'[s][i].body = ran'[cmdUp'[s][i].call]
  BY DEF ResultInv
<1>1. CASE cmdUp'[s] = cmdUp[s]
  BY <1>1 DEF ResultInv
<1>2. CASE cmdUp'[s] = <<>>
  BY <1>2, EmptySeq
<1>3. CASE cmdUp[s] # <<>> /\ cmdUp'[s] = Tail(cmdUp[s])
  <2>1. cmdUp[s] \in Seq(Results)
    BY DEF WireTypes
  <2>2. Len(cmdUp[s]) \in Nat /\ Len(Tail(cmdUp[s])) = Len(cmdUp[s]) - 1
        /\ Tail(cmdUp[s])[i] = cmdUp[s][i + 1]
    BY <1>3, <2>1, HeadTailProperties, LenProperties
  <2>3. i + 1 \in 1 .. Len(cmdUp[s])
    BY <1>3, <2>2
  <2> QED
    BY <1>3, <2>2, <2>3 DEF ResultInv
<1> QED
  BY <1>1, <1>2, <1>3

\* SendCommand returns, with a result, an error or the deadline.
LEMMA SendCommandReturnsKeepsInv ==
    ASSUME CmdInv, NEW c \in Calls, SendCommandReturns(c)
    PROVE  CmdInv'
<1> USE DEF CmdInv, CmdTypes
<1>0. /\ UNCHANGED <<route, cmdBuf, cmdDown, cmdUp, stage, current, ran>>
      /\ caller[c] = "waiting"
      /\ \E v \in {"timeout", "cancelled", slot[c]} \ {"empty"} : told' = [told EXCEPT ![c] = v]
      /\ caller' = [caller EXCEPT ![c] = "returned"]
      /\ slot' = [slot EXCEPT ![c] = "empty"]
  BY DEF SendCommandReturns, cmdStreamVars, cmdAgentVars, cmdHistoryVars
<1>1. CmdTypes'
  <2>1. CallTypes'
    BY <1>0 DEF CallTypes
  <2>2. PanelTypes' /\ WireTypes'
    BY DEF SendCommandReturns, PanelTypes, WireTypes, cmdStreamVars, cmdAgentVars, cmdStoreVars
  <2>3. AgentTypes' /\ HostTypes'
    BY DEF SendCommandReturns, AgentTypes, HostTypes, cmdAgentVars, cmdHostVars, cmdHistoryVars
  <2> QED
    BY <2>1, <2>2, <2>3
<1>2. CallerInv'
  <2> SUFFICES ASSUME NEW d \in Calls PROVE CallOk(d)'
    BY DEF CallerInv
  <2>1. CallOk(d) /\ CallOk(c)
    BY DEF CallerInv
  <2>2. CASE d = c
    BY <1>0, <2>1, <2>2 DEF CallTypes, CallOk, CmdBodies
  <2>3. CASE d # c
    BY <1>0, <2>1, <2>3 DEF CallTypes, CallOk
  <2> QED
    BY <2>2, <2>3
<1>3. OnItsWay \subseteq OnItsWay'
  BY <1>0 DEF CallTypes, CmdBodies, OnItsWay
<1>4. ResultInv'
  BY <1>0 DEF ResultInv
<1> QED
  BY <1>0, <1>1, <1>2, <1>3, <1>4, QuietStepsKeepInv

\* Handlers finish what follows SendCommand.
LEMMA TailsKeepInv ==
    ASSUME CmdInv, Tails
    PROVE  CmdInv'
<1> USE DEF CmdInv, CmdTypes
<1>0. TailStep
  BY TailsAreTailSteps
<1>1. PICK c \in Calls : /\ caller[c] = "returned"
                         /\ caller' = [caller EXCEPT ![c] = "replied"]
  BY <1>0 DEF TailStep
<1>2. UNCHANGED <<route, told, slot, cmdBuf, cmdDown, cmdUp, stage, current, ran>>
  BY <1>0 DEF TailStep, cmdHubVars, cmdStreamVars, cmdAgentVars, cmdHistoryVars
<1>3. CmdTypes'
  <2>1. CallTypes'
    BY <1>1, <1>2 DEF CallTypes
  <2>2. reply' \in [Calls -> Replied]
    <3> DEFINE Error == [status |-> 500, delivered |-> FALSE, ok |-> FALSE]
    <3>1. Error \in Replied
      BY DEF Replied
    <3>2. PICK d \in Calls : Tails!(d)
      BY DEF Tails
    <3>3. CASE handleRestartNode(d)
      <4> DEFINE r == [status |-> 200, delivered |-> GotResult(d),
                       ok |-> told[d] = "ok"]
      <4>1. r \in Replied
        BY DEF Replied, GotResult
      <4>2. reply' = [reply EXCEPT ![d] = r] \/ reply' = [reply EXCEPT ![d] = Error]
        BY <3>3, Zenon DEF handleRestartNode, RecordAndReply, Replies
      <4> HIDE DEF r
      <4> QED
        BY <3>1, <4>1, <4>2 DEF PanelTypes
    <3>4. CASE executeBulkRestart(d)
      <4> DEFINE r == [status |-> 200, delivered |-> GotResult(d),
                       ok |-> told[d] \in {"ok", "unrecognised"}]
      <4>1. r \in Replied
        BY DEF Replied, GotResult
      <4>2. reply' = [reply EXCEPT ![d] = r] \/ reply' = [reply EXCEPT ![d] = Error]
        BY <3>4, Zenon DEF executeBulkRestart, RecordAndReply, Replies
      <4> HIDE DEF r
      <4> QED
        BY <3>1, <4>1, <4>2 DEF PanelTypes
    <3>5. CASE handleUpdateNodeGeoData(d)
      <4> DEFINE r == [status |-> 200, delivered |-> GotResult(d) /\ told[d] # "unrecognised",
                       ok |-> told[d] = "ok"]
      <4>1. r \in Replied
        BY DEF Replied, GotResult
      <4>2. reply' = [reply EXCEPT ![d] = r] \/ reply' = [reply EXCEPT ![d] = Error]
        BY <3>5, Zenon DEF handleUpdateNodeGeoData, RecordAndReply, Replies
      <4> HIDE DEF r
      <4> QED
        BY <3>1, <4>1, <4>2 DEF PanelTypes
    <3>6. CASE handleUpgradeNodeCore(d)
      <4> DEFINE r == [status |-> 200, delivered |-> GotResult(d) /\ told[d] # "unrecognised",
                       ok |-> told[d] = "ok"]
      <4>1. r \in Replied
        BY DEF Replied, GotResult
      <4>2. reply' = [reply EXCEPT ![d] = r] \/ reply' = [reply EXCEPT ![d] = Error]
        BY <3>6, Zenon DEF handleUpgradeNodeCore, RecordAndReply, Replies
      <4> HIDE DEF r
      <4> QED
        BY <3>1, <4>1, <4>2 DEF PanelTypes
    <3>7. CASE handleGetXrayLogs(d)
      <4> DEFINE r == [status |-> 200, delivered |-> GotResult(d) /\ told[d] # "unrecognised",
                       ok |-> told[d] = "ok"]
      <4>1. r \in Replied
        BY DEF Replied, GotResult
      <4>2. reply' = [reply EXCEPT ![d] = r]
        BY <3>7, Zenon DEF handleGetXrayLogs, Replies
      <4> HIDE DEF r
      <4> QED
        BY <3>1, <4>1, <4>2 DEF PanelTypes
    <3> QED
      BY <3>2, <3>3, <3>4, <3>5, <3>6, <3>7
  <2>3. PanelTypes'
    <3> DEFINE Rows == [version : {Original} \cup Calls, geo : {NoFile} \cup Calls]
    <3>1. registry' \in Rows /\ audited' \subseteq Calls
      <4>1. registry \in Rows /\ audited \subseteq Calls
        BY DEF PanelTypes
      <4>2. \A d \in Calls : /\ [registry EXCEPT !.geo = d] \in Rows
                            /\ [registry EXCEPT !.version = d] \in Rows
        BY <4>1
      <4> HIDE DEF Rows
      <4> QED
        BY <1>0, <4>1, <4>2 DEF TailStep
    <3> QED
      BY <1>0, <2>2, <3>1 DEF TailStep, PanelTypes, cmdHubVars, cmdStreamVars
  <2>4. WireTypes' /\ AgentTypes' /\ HostTypes'
    BY <1>0 DEF TailStep, WireTypes, AgentTypes, HostTypes, cmdHubVars, cmdStreamVars,
                cmdAgentVars, cmdHostVars, cmdHistoryVars
  <2> QED
    BY <2>1, <2>3, <2>4
<1>4. CallerInv'
  BY <1>1, <1>2 DEF CallTypes, CallerInv, CallOk
<1>5. OnItsWay \subseteq OnItsWay'
  BY <1>1, <1>2 DEF CallTypes, OnItsWay
<1>6. ResultInv'
  BY <1>2 DEF ResultInv
<1> QED
  BY <1>2, <1>3, <1>4, <1>5, <1>6, QuietStepsKeepInv

\* Streams open, are cut and end.
LEMMA StreamStepsKeepInv ==
    ASSUME CmdInv, NEW s \in CmdStreams, OpenStream(s) \/ CutStream(s)
    PROVE  CmdInv'
<1> USE DEF CmdInv, CmdTypes
<1>1. UNCHANGED <<route, caller, told, slot, cmdBuf, cmdDown, cmdUp, stage, current, ran>>
  BY DEF OpenStream, CutStream, cmdCallVars, cmdHubVars, cmdAgentVars, cmdHistoryVars
<1>2. CmdTypes'
  <2>1. CallTypes'
    BY <1>1 DEF CallTypes
  <2>2. PanelTypes'
    BY DEF OpenStream, CutStream, PanelTypes, WireTypes, cmdCallVars, cmdHubVars, cmdStoreVars
  <2>3. WireTypes'
    BY <1>1 DEF OpenStream, CutStream, WireTypes, cmdHubVars, cmdAgentVars
  <2>4. AgentTypes' /\ HostTypes'
    BY <1>1 DEF OpenStream, CutStream, AgentTypes, HostTypes, cmdHostVars, cmdHistoryVars
  <2> QED
    BY <2>1, <2>2, <2>3, <2>4
<1>3. CallerInv'
  BY <1>1 DEF CallerInv, CallOk
<1>4. OnItsWay \subseteq OnItsWay'
  BY <1>1 DEF OnItsWay
<1>5. ResultInv'
  BY <1>1 DEF ResultInv
<1> QED
  BY <1>1, <1>2, <1>3, <1>4, <1>5, QuietStepsKeepInv

\* The panel's stream loop hands a result over.
LEMMA DeliverResultKeepsInv ==
    ASSUME CmdInv, NEW s \in CmdStreams, DeliverResult(s)
    PROVE  CmdInv'
<1> USE DEF CmdInv, CmdTypes
<1> DEFINE m == Head(cmdUp[s])
<1>0. /\ UNCHANGED <<route, caller, told, cmdBuf, cmdDown, stage, current, ran>>
      /\ cmdUp[s] # <<>> /\ cmdUp' = [cmdUp EXCEPT ![s] = Tail(cmdUp[s])]
      /\ slot' = slot \/ slot' = [slot EXCEPT ![m.call] = m.body]
  BY DEF DeliverResult, cmdCallVars, cmdAgentVars, cmdHistoryVars
<1>1. m \in Results /\ m.body = ran[m.call] /\ Tail(cmdUp[s]) \in Seq(Results)
  <2>1. cmdUp[s] \in Seq(Results)
    BY DEF WireTypes
  <2>2. 1 \in 1 .. Len(cmdUp[s]) /\ m = cmdUp[s][1]
    BY <1>0, <2>1, EmptySeq
  <2> QED
    BY <1>0, <2>1, <2>2, HeadTailProperties DEF ResultInv
<1>2. m.call \in Calls /\ m.body \in CmdBodies
  BY <1>1 DEF Results
<1> HIDE DEF m
<1>3. CmdTypes'
  <2>1. CallTypes'
    BY <1>0, <1>2 DEF CallTypes
  <2>2. PanelTypes'
    BY DEF DeliverResult, PanelTypes, cmdCallVars, cmdStoreVars
  <2>3. WireTypes'
    BY <1>0, <1>1 DEF DeliverResult, WireTypes, cmdAgentVars
  <2>4. AgentTypes' /\ HostTypes'
    BY DEF DeliverResult, AgentTypes, HostTypes, cmdAgentVars, cmdHostVars, cmdHistoryVars
  <2> QED
    BY <2>1, <2>2, <2>3, <2>4
<1>4. CallerInv'
  BY <1>0, <1>1, <1>2 DEF CallTypes, CallerInv, CallOk
<1>5. OnItsWay \subseteq OnItsWay'
  BY <1>0 DEF OnItsWay
<1>6. ResultInv'
  BY <1>0, FewerResults DEF WireTypes
<1> QED
  BY <1>0, <1>3, <1>4, <1>5, <1>6, QuietStepsKeepInv

\* A stream's handler returns.
LEMMA HandlerReturnsKeepsInv ==
    ASSUME CmdInv, NEW s \in CmdStreams, HandlerReturns(s)
    PROVE  CmdInv'
<1> USE DEF CmdInv, CmdTypes
<1>0. /\ UNCHANGED <<route, caller, told, slot, cmdDown, stage, current, ran>>
      /\ cmdBuf' = [cmdBuf EXCEPT ![s] = <<>>]
      /\ cmdUp' = [cmdUp EXCEPT ![s] = <<>>]
  BY DEF HandlerReturns, cmdCallVars, cmdAgentVars, cmdHistoryVars
<1>1. CmdTypes'
  <2>1. CallTypes'
    BY <1>0 DEF CallTypes
  <2>2. PanelTypes'
    BY DEF HandlerReturns, PanelTypes, cmdCallVars, cmdStoreVars
  <2>3. WireTypes'
    BY <1>0, BufferProperties, EmptySeq DEF HandlerReturns, WireTypes, cmdAgentVars
  <2>4. AgentTypes' /\ HostTypes'
    BY DEF HandlerReturns, AgentTypes, HostTypes, cmdAgentVars, cmdHostVars, cmdHistoryVars
  <2> QED
    BY <2>1, <2>2, <2>3, <2>4
<1>2. CallerInv'
  BY <1>0 DEF CallerInv, CallOk
<1>3. OnItsWay \subseteq OnItsWay'
  BY <1>0 DEF OnItsWay
<1>4. \A t \in CmdStreams : /\ cmdBuf'[t] = cmdBuf[t] \/ cmdBuf'[t] = <<>>
                           /\ cmdUp'[t] \in {cmdUp[t], <<>>}
  BY <1>0 DEF WireTypes
<1>5. ResultInv'
  BY <1>0, <1>4, FewerResults
<1> QED
  BY <1>0, <1>1, <1>2, <1>3, <1>4, <1>5, QuietStepsKeepInv

\* The agent leaves its session, by itself or because it dies.
LEMMA SessionStepsKeepInv ==
    ASSUME CmdInv, SessionEnds \/ AgentStops
    PROVE  CmdInv'
<1> USE DEF CmdInv, CmdTypes
<1>0. /\ UNCHANGED <<route, caller, told, slot, cmdBuf, cmdUp, ran, before>>
      /\ cmdDown' = [cmdDown EXCEPT ![cmdSess] = <<>>]
      /\ cmdSess' = 0
      /\ stage' = "idle" /\ current' \in {current, NoCall}
  BY DEF SessionEnds, AgentStops, LeaveSession, cmdCallVars, cmdHubVars, cmdHistoryVars
<1>1. CmdTypes'
  <2>1. CallTypes'
    BY <1>0 DEF CallTypes
  <2>2. PanelTypes'
    BY DEF SessionEnds, AgentStops, PanelTypes, WireTypes, cmdCallVars, cmdHubVars, cmdStoreVars
  <2>3. WireTypes'
    BY <1>0, EmptySeq DEF SessionEnds, AgentStops, WireTypes, cmdHubVars
  <2>4. AgentTypes'
    BY <1>0 DEF AgentTypes, Stages
  <2>5. HostTypes'
    <3>1. NoFile \in Files
      BY DEF Files
    <3>2. RestoredCore \in [installed : Files, previous : Files, running : Files]
      BY <3>1 DEF RestoredCore, HostTypes
    <3> QED
      BY <3>2 DEF SessionEnds, AgentStops, HostTypes, cmdHostVars, cmdHistoryVars
  <2> QED
    BY <2>1, <2>2, <2>3, <2>4, <2>5
<1>2. CallerInv'
  BY <1>0 DEF CallerInv, CallOk
<1>3. OnItsWay \subseteq OnItsWay'
  BY <1>0 DEF OnItsWay
<1>4. \A t \in CmdStreams : cmdDown'[t] = cmdDown[t] \/ cmdDown'[t] = <<>>
  BY <1>0 DEF WireTypes
<1>5. ResultInv'
  BY <1>0 DEF ResultInv
<1> QED
  BY <1>0, <1>1, <1>2, <1>3, <1>4, <1>5, QuietStepsKeepInv

\* A queued command goes out on the stream.
LEMMA ForwardCommandKeepsInv ==
    ASSUME CmdInv, NEW s \in CmdStreams, ForwardCommand(s)
    PROVE  CmdInv'
<1> USE DEF CmdInv, CmdTypes
<1> DEFINE c == cmdBuf[s][1]
<1>0. /\ UNCHANGED <<route, caller, told, slot, cmdUp, stage, current, ran>>
      /\ cmdBuf[s] # <<>> /\ cmdBuf' = [cmdBuf EXCEPT ![s] = <<>>]
      /\ cmdDown' = cmdDown \/ cmdDown' = [cmdDown EXCEPT ![s] = cmdDown[s] \o cmdBuf[s]]
  BY DEF ForwardCommand, cmdCallVars, cmdAgentVars, cmdHistoryVars
<1>1. /\ cmdDown[s] \in Seq(Calls) /\ cmdBuf[s] \in Seq(Calls)
      /\ cmdBuf[s] = <<c>> /\ c \in Calls
  <2>1. cmdBuf[s] \in Buffers /\ cmdDown[s] \in Seq(Calls)
    BY DEF WireTypes
  <2> QED
    BY <1>0, <2>1, BufferProperties
<1>2. CmdTypes'
  <2>1. CallTypes'
    BY <1>0 DEF CallTypes
  <2>2. PanelTypes'
    BY DEF ForwardCommand, PanelTypes, cmdCallVars, cmdStoreVars
  <2>3. WireTypes'
    <3>1. cmdDown[s] \o cmdBuf[s] \in Seq(Calls)
      BY <1>1, ConcatProperties
    <3> QED
      BY <1>0, <3>1, BufferProperties DEF ForwardCommand, WireTypes, cmdAgentVars
  <2>4. AgentTypes' /\ HostTypes'
    BY DEF ForwardCommand, AgentTypes, HostTypes, cmdAgentVars, cmdHostVars, cmdHistoryVars
  <2> QED
    BY <2>1, <2>2, <2>3, <2>4
<1>3. CallerInv'
  BY <1>0 DEF CallerInv, CallOk
<1>4. OnItsWay' = OnItsWay
  BY <1>0 DEF OnItsWay
<1>5. ResultInv'
  BY <1>0 DEF ResultInv
<1>6. CASE cmdDown' = cmdDown
  <2>1. \A t \in CmdStreams : cmdBuf'[t] = cmdBuf[t] \/ cmdBuf'[t] = <<>>
    BY <1>0 DEF WireTypes
  <2> QED
    BY <1>0, <1>2, <1>3, <1>4, <1>5, <1>6, <2>1, QuietStepsKeepInv
<1>7. CASE cmdDown' = [cmdDown EXCEPT ![s] = cmdDown[s] \o cmdBuf[s]]
  <2> DEFINE n == Len(cmdDown[s])
  <2>1. /\ n \in Nat /\ Len(cmdDown'[s]) = n + 1
        /\ \A i \in 1 .. n : cmdDown'[s][i] = cmdDown[s][i]
        /\ cmdDown'[s][n + 1] = c
    <3>1. cmdDown'[s] = cmdDown[s] \o <<c>>
      BY <1>1, <1>7 DEF WireTypes
    <3>2. Len(<<c>>) = 1 /\ <<c>>[1] = c /\ <<c>> \in Seq(Calls)
      BY <1>1
    <3> HIDE DEF c
    <3> QED
      BY <1>1, <3>1, <3>2, ConcatProperties, LenProperties
  <2>2. \A t \in CmdStreams : t # s => cmdDown'[t] = cmdDown[t]
    BY <1>7 DEF WireTypes
  <2>3. \A t \in CmdStreams : \A i \in 1 .. Len(cmdDown'[t]) :
            \/ t = s /\ i = n + 1 /\ cmdDown'[t][i] = c
            \/ i \in 1 .. Len(cmdDown[t]) /\ cmdDown'[t][i] = cmdDown[t][i]
    <3> SUFFICES ASSUME NEW t \in CmdStreams, NEW i \in 1 .. Len(cmdDown'[t])
                 PROVE  \/ t = s /\ i = n + 1 /\ cmdDown'[t][i] = c
                        \/ i \in 1 .. Len(cmdDown[t]) /\ cmdDown'[t][i] = cmdDown[t][i]
      OBVIOUS
    <3> HIDE DEF c
    <3>1. CASE t = s
      BY <2>1, <3>1
    <3>2. CASE t # s
      BY <2>2, <3>2
    <3> QED
      BY <3>1, <3>2
  <2>4. /\ c \in OnItsWay
        /\ \A t \in CmdStreams : cmdBuf[t] # <<>> /\ cmdBuf[t][1] = c => t = s
        /\ \A t \in CmdStreams : \A i \in 1 .. Len(cmdDown[t]) : cmdDown[t][i] # c
    BY <1>0 DEF BufferedInv
  <2>5. \A t \in CmdStreams : cmdBuf'[t] # <<>> => t # s /\ cmdBuf'[t] = cmdBuf[t]
    BY <1>0 DEF WireTypes
  <2> HIDE DEF c, n
  <2>6. BufferedInv'
    <3> SUFFICES ASSUME NEW t \in CmdStreams, cmdBuf'[t] # <<>>
                 PROVE  /\ cmdBuf'[t][1] \in OnItsWay'
                        /\ \A u \in CmdStreams :
                               cmdBuf'[u] # <<>> /\ cmdBuf'[u][1] = cmdBuf'[t][1] => u = t
                        /\ \A u \in CmdStreams : \A i \in 1 .. Len(cmdDown'[u]) :
                               cmdDown'[u][i] # cmdBuf'[t][1]
      BY DEF BufferedInv
    <3> QED
      BY <1>4, <2>3, <2>4, <2>5 DEF BufferedInv
  <2>7. SentInv'
    <3> SUFFICES ASSUME NEW t \in CmdStreams, NEW i \in 1 .. Len(cmdDown'[t])
                 PROVE  /\ cmdDown'[t][i] \in OnItsWay'
                        /\ \A u \in CmdStreams : \A j \in 1 .. Len(cmdDown'[u]) :
                               cmdDown'[u][j] = cmdDown'[t][i] => u = t /\ j = i
      BY DEF SentInv
    <3> QED
      BY <1>4, <2>3, <2>4 DEF SentInv
  <2>8. AgentInv'
    BY <1>0 DEF AgentInv
  <2> QED
    BY <1>2, <1>3, <1>5, <2>6, <2>7, <2>8
<1> QED
  BY <1>0, <1>6, <1>7

\* The agent takes a command from the stream.
LEMMA AgentStartsKeepsInv ==
    ASSUME CmdInv, AgentStarts
    PROVE  CmdInv'
<1> USE DEF CmdInv, CmdTypes
<1> DEFINE c == Head(cmdDown[cmdSess])
<1>0. /\ UNCHANGED <<route, caller, told, slot, cmdBuf, cmdUp>>
      /\ cmdSess \in CmdStreams /\ cmdDown[cmdSess] # <<>>
      /\ cmdDown' = [cmdDown EXCEPT ![cmdSess] = Tail(cmdDown[cmdSess])]
      /\ current' = c /\ ran' = [ran EXCEPT ![c] = "running"]
      /\ stage' \in {KindOf[route[c]], "unrecognised"}
      /\ before' \in {before, core.installed}
  BY DEF AgentStarts, WireTypes, cmdCallVars, cmdHubVars
<1>1. /\ cmdDown[cmdSess] \in Seq(Calls)
      /\ Tail(cmdDown[cmdSess]) \in Seq(Calls)
      /\ 1 \in 1 .. Len(cmdDown[cmdSess]) /\ c = cmdDown[cmdSess][1] /\ c \in Calls
      /\ \A i \in 1 .. Len(Tail(cmdDown[cmdSess])) :
             /\ i + 1 \in 1 .. Len(cmdDown[cmdSess])
             /\ Tail(cmdDown[cmdSess])[i] = cmdDown[cmdSess][i + 1]
  <2>1. cmdDown[cmdSess] \in Seq(Calls)
    BY <1>0 DEF WireTypes
  <2> QED
    BY <1>0, <2>1, HeadTailProperties, LenProperties, EmptySeq
<1>2. c \in OnItsWay
  BY <1>0, <1>1 DEF SentInv
<1>3. ran[c] = "no" /\ told[c] # "not delivered" /\ route[c] \in Routes
      /\ caller[c] # "idle" /\ slot[c] = "empty" /\ told[c] \notin CmdBodies
  <2>1. CallOk(c) /\ slot[c] \in {"empty"} \cup CmdBodies
    BY <1>1 DEF CallerInv, CallTypes
  <2> HIDE DEF c
  <2> QED
    BY <1>2, <2>1 DEF OnItsWay, CallOk, CmdBodies
<1>4. KindOf[route[c]] \in CmdKinds
  BY <1>3, KindsOfRoutes
<1> HIDE DEF c
<1>5. CmdTypes'
  <2>1. CallTypes'
    BY <1>0, <1>1 DEF CallTypes
  <2>2. PanelTypes'
    BY DEF AgentStarts, PanelTypes, cmdCallVars, cmdHubVars, cmdStoreVars
  <2>3. WireTypes'
    BY <1>0, <1>1 DEF AgentStarts, WireTypes, cmdHubVars
  <2>4. AgentTypes'
    BY <1>0, <1>1, <1>4 DEF AgentTypes, HostTypes, Stages
  <2>5. HostTypes'
    BY DEF AgentStarts, HostTypes, cmdHostVars
  <2> QED
    BY <2>1, <2>2, <2>3, <2>4, <2>5
<1>6. AgentInv'
  <2>1. ran'[c] = "running"
    BY <1>0, <1>1 DEF CallTypes
  <2>2. stage' # "answer"
    BY <1>0, <1>4 DEF CmdKinds
  <2> QED
    BY <1>0, <1>1, <2>1, <2>2 DEF AgentInv
<1>7. CallerInv'
  BY <1>0, <1>3 DEF CallTypes, CallerInv, CallOk
<1>8. OnItsWay' = OnItsWay \ {c}
  BY <1>0, <1>1 DEF CallTypes, OnItsWay
<1>9. \A t \in CmdStreams : \A i \in 1 .. Len(cmdDown'[t]) :
          \E j \in 1 .. Len(cmdDown[t]) : /\ cmdDown'[t][i] = cmdDown[t][j]
                                        /\ j = IF t = cmdSess THEN i + 1 ELSE i
  <2> SUFFICES ASSUME NEW t \in CmdStreams, NEW i \in 1 .. Len(cmdDown'[t])
               PROVE  LET j == IF t = cmdSess THEN i + 1 ELSE i
                      IN j \in 1 .. Len(cmdDown[t]) /\ cmdDown'[t][i] = cmdDown[t][j]
    OBVIOUS
  <2>1. CASE t = cmdSess
    BY <1>0, <1>1, <2>1 DEF WireTypes
  <2>2. CASE t # cmdSess
    BY <1>0, <2>2 DEF WireTypes
  <2> QED
    BY <2>1, <2>2
<1>10. \A t \in CmdStreams : \A i \in 1 .. Len(cmdDown'[t]) : cmdDown'[t][i] # c
  BY <1>0, <1>1, <1>9 DEF SentInv
<1>11. BufferedInv'
  <2>1. cmdBuf' = cmdBuf
    BY <1>0
  <2>2. \A s \in CmdStreams : cmdBuf[s] # <<>> => cmdBuf[s][1] # c
    BY <1>0, <1>1 DEF BufferedInv
  <2>3. \A s \in CmdStreams : cmdBuf[s] # <<>> =>
            \A t \in CmdStreams : \A i \in 1 .. Len(cmdDown'[t]) : cmdDown'[t][i] # cmdBuf[s][1]
    BY <1>9 DEF BufferedInv
  <2> QED
    BY <1>8, <2>1, <2>2, <2>3 DEF BufferedInv
<1>12. SentInv'
  <2> SUFFICES ASSUME NEW t \in CmdStreams, NEW i \in 1 .. Len(cmdDown'[t])
               PROVE  /\ cmdDown'[t][i] \in OnItsWay'
                      /\ \A u \in CmdStreams : \A j \in 1 .. Len(cmdDown'[u]) :
                             cmdDown'[u][j] = cmdDown'[t][i] => u = t /\ j = i
    BY DEF SentInv
  <2>1. cmdDown'[t][i] \in OnItsWay'
    BY <1>8, <1>9, <1>10 DEF SentInv
  <2>2. ASSUME NEW u \in CmdStreams, NEW j \in 1 .. Len(cmdDown'[u]),
               cmdDown'[u][j] = cmdDown'[t][i]
        PROVE  u = t /\ j = i
    <3>1. PICK k \in 1 .. Len(cmdDown[t]) : /\ cmdDown'[t][i] = cmdDown[t][k]
                                            /\ k = IF t = cmdSess THEN i + 1 ELSE i
      BY <1>9
    <3>2. PICK l \in 1 .. Len(cmdDown[u]) : /\ cmdDown'[u][j] = cmdDown[u][l]
                                            /\ l = IF u = cmdSess THEN j + 1 ELSE j
      BY <1>9
    <3>3. u = t /\ l = k
      BY <2>2, <3>1, <3>2 DEF SentInv
    <3> QED
      BY <3>1, <3>2, <3>3
  <2> QED
    BY <2>1, <2>2
<1>13. ResultInv'
  <2> SUFFICES ASSUME NEW s \in CmdStreams, NEW i \in 1 .. Len(cmdUp[s])
               PROVE  cmdUp[s][i].body = ran'[cmdUp[s][i].call]
    BY <1>0 DEF ResultInv
  <2>1. cmdUp[s][i] \in Results /\ cmdUp[s][i].body = ran[cmdUp[s][i].call]
    BY WhatIsOnItsWay DEF ResultInv
  <2>2. cmdUp[s][i].body \in CmdBodies /\ cmdUp[s][i].call \in Calls
    BY <2>1 DEF Results
  <2> QED
    BY <1>0, <1>3, <2>1, <2>2 DEF CallTypes, CmdBodies
<1> QED
  BY <1>5, <1>6, <1>7, <1>11, <1>12, <1>13

\* The agent executes.
LEMMA ExecutionsKeepInv ==
    ASSUME CmdInv, Executions
    PROVE  CmdInv'
<1> USE DEF CmdInv, CmdTypes
<1>0. ExecStep
  BY ExecutionsAreExecSteps
<1>1. /\ UNCHANGED <<route, caller, told, slot, cmdBuf, cmdDown, cmdUp, current, before>>
      /\ stage \notin {"idle", "answer"}
      /\ \/ stage' \in Stages \ ({"idle", "answer"} \cup CmdKinds) /\ ran' = ran
         \/ stage' = "answer" /\ \E body \in CmdBodies : ran' = [ran EXCEPT ![current] = body]
  BY <1>0 DEF ExecStep, cmdCallVars, cmdHubVars, cmdStreamVars
<1>2. current \in Calls /\ ran[current] = "running" /\ told[current] \notin CmdBodies
      /\ slot[current] = "empty" /\ caller[current] # "idle" /\ told[current] # "not delivered"
  <2>1. current \in Calls /\ ran[current] = "running"
    BY <1>1 DEF AgentInv
  <2>2. CallOk(current) /\ slot[current] \in {"empty"} \cup CmdBodies
    BY <2>1 DEF CallerInv, CallTypes
  <2> QED
    BY <2>1, <2>2 DEF CallOk, CmdBodies
<1>3. \A d \in Calls : d # current => ran'[d] = ran[d]
  BY <1>1 DEF CallTypes
<1>4. CmdTypes'
  <2>1. CallTypes'
    BY <1>1, <1>2 DEF CallTypes
  <2>2. PanelTypes' /\ WireTypes'
    BY <1>0, <1>1 DEF ExecStep, PanelTypes, WireTypes, cmdCallVars, cmdHubVars, cmdStreamVars,
                      cmdStoreVars
  <2>3. AgentTypes'
    BY <1>1 DEF AgentTypes, Stages
  <2>4. HostTypes'
    BY ExecutionsKeepHostTypes
  <2> QED
    BY <2>1, <2>2, <2>3, <2>4
<1>5. AgentInv'
  BY <1>1, <1>2 DEF AgentInv, CallTypes
<1>6. CallerInv'
  BY <1>1, <1>2, <1>3 DEF CallerInv, CallOk
<1>7. OnItsWay' = OnItsWay
  <2>1. ran'[current] # "no"
    BY <1>1, <1>2 DEF CallTypes, CmdBodies
  <2> QED
    BY <1>1, <1>2, <1>3, <2>1 DEF OnItsWay
<1>8. BufferedInv' /\ SentInv'
  <2>1. cmdBuf' = cmdBuf /\ cmdDown' = cmdDown
    BY <1>1
  <2> QED
    BY <1>7, <2>1 DEF BufferedInv, SentInv
<1>9. ResultInv'
  <2> SUFFICES ASSUME NEW s \in CmdStreams, NEW i \in 1 .. Len(cmdUp[s])
               PROVE  cmdUp[s][i].body = ran'[cmdUp[s][i].call]
    BY <1>1 DEF ResultInv
  <2>1. cmdUp[s][i] \in Results /\ cmdUp[s][i].body = ran[cmdUp[s][i].call]
    BY WhatIsOnItsWay DEF ResultInv
  <2>2. cmdUp[s][i].body \in CmdBodies /\ cmdUp[s][i].call \in Calls
    BY <2>1 DEF Results
  <2> QED
    BY <1>2, <1>3, <2>1, <2>2 DEF CmdBodies
<1> QED
  BY <1>4, <1>5, <1>6, <1>8, <1>9

\* The agent answers.
LEMMA AgentAnswersKeepsInv ==
    ASSUME CmdInv, AgentAnswers
    PROVE  CmdInv'
<1> USE DEF CmdInv, CmdTypes
<1> DEFINE m == [call |-> current, body |-> ran[current]]
<1>0. /\ UNCHANGED <<route, caller, told, slot, cmdBuf, ran, before>>
      /\ stage = "answer" /\ stage' = "idle" /\ current' = NoCall
      /\ cmdUp' = cmdUp \/ cmdUp' = [cmdUp EXCEPT ![cmdSess] = Append(cmdUp[cmdSess], m)]
      /\ \/ UNCHANGED <<cmdSess, cmdDown>>
         \/ cmdSess' = 0 /\ cmdDown' = [cmdDown EXCEPT ![cmdSess] = <<>>]
  BY DEF AgentAnswers, LeaveSession, cmdCallVars, cmdHubVars, cmdHistoryVars
<1>1. m \in Results /\ m.body = ran[m.call]
  BY <1>0 DEF AgentInv, Results
<1> HIDE DEF m
<1>2. \A s \in CmdStreams : cmdUp[s] \in Seq(Results)
  BY DEF WireTypes
<1>3. \A s \in CmdStreams : Append(cmdUp[s], m) \in Seq(Results)
  BY <1>1, <1>2, AppendProperties
<1>4. CmdTypes'
  <2>1. CallTypes'
    BY <1>0 DEF CallTypes
  <2>2. PanelTypes'
    BY DEF AgentAnswers, PanelTypes, cmdCallVars, cmdHubVars, cmdStoreVars
  <2>3. WireTypes'
    <3>1. cmdUp' \in [CmdStreams -> Seq(Results)]
      BY <1>0, <1>3 DEF WireTypes
    <3>2. cmdDown' \in [CmdStreams -> Seq(Calls)]
      BY <1>0, EmptySeq DEF WireTypes
    <3> QED
      BY <1>0, <3>1, <3>2 DEF AgentAnswers, WireTypes, cmdHubVars
  <2>4. AgentTypes'
    BY <1>0 DEF AgentTypes, Stages
  <2>5. HostTypes'
    BY DEF AgentAnswers, HostTypes, cmdHostVars, cmdHistoryVars
  <2> QED
    BY <2>1, <2>2, <2>3, <2>4, <2>5
<1>5. CallerInv'
  BY <1>0 DEF CallerInv, CallOk
<1>6. OnItsWay \subseteq OnItsWay'
  BY <1>0 DEF OnItsWay
<1>7. \A s \in CmdStreams : cmdUp'[s] = cmdUp[s] \/ cmdUp'[s] = Append(cmdUp[s], m)
  BY <1>0 DEF WireTypes
<1>8. ResultInv'
  <2> SUFFICES ASSUME NEW s \in CmdStreams, NEW i \in 1 .. Len(cmdUp'[s])
               PROVE  cmdUp'[s][i].body = ran[cmdUp'[s][i].call]
    BY <1>0 DEF ResultInv
  <2>1. CASE cmdUp'[s] = cmdUp[s]
    BY <2>1 DEF ResultInv
  <2>2. CASE cmdUp'[s] = Append(cmdUp[s], m)
    <3>1. /\ Len(cmdUp[s]) \in Nat /\ Len(cmdUp'[s]) = Len(cmdUp[s]) + 1
          /\ \A j \in 1 .. Len(cmdUp[s]) : cmdUp'[s][j] = cmdUp[s][j]
          /\ cmdUp'[s][Len(cmdUp[s]) + 1] = m
      BY <1>1, <1>2, <2>2, AppendProperties, LenProperties
    <3>2. CASE i \in 1 .. Len(cmdUp[s])
      BY <3>1, <3>2 DEF ResultInv
    <3>3. CASE i = Len(cmdUp[s]) + 1
      BY <1>1, <3>1, <3>3
    <3> QED
      BY <3>1, <3>2, <3>3
  <2> QED
    BY <1>7, <2>1, <2>2
<1>9. ran' = ran /\ stage' = "idle" /\ cmdBuf' = cmdBuf
  BY <1>0
<1>10. \A s \in CmdStreams : cmdDown'[s] = cmdDown[s] \/ cmdDown'[s] = <<>>
  BY <1>0 DEF WireTypes
<1> QED
  BY <1>4, <1>5, <1>6, <1>8, <1>9, <1>10, QuietStepsKeepInv

\* Every step keeps the invariant.
LEMMA CmdNextKeepsInv == CmdInv /\ [CmdNext]_cmdVars => CmdInv'
<1> SUFFICES ASSUME CmdInv, [CmdNext]_cmdVars PROVE CmdInv'
  OBVIOUS
<1>1. CASE UNCHANGED cmdVars
  <2>1. UNCHANGED <<route, caller, told, slot, cmdBuf, cmdDown, cmdUp, stage, current, ran>>
    BY <1>1 DEF cmdVars, cmdCallVars, cmdHubVars, cmdStreamVars, cmdAgentVars, cmdHistoryVars
  <2>2. CmdTypes'
    BY <1>1 DEF CmdInv, CmdTypes, CallTypes, PanelTypes, WireTypes, AgentTypes, HostTypes,
                cmdVars, cmdCallVars, cmdHubVars, cmdStreamVars, cmdAgentVars, cmdHostVars,
                cmdStoreVars, cmdHistoryVars
  <2>3. CallerInv' /\ ResultInv' /\ OnItsWay' = OnItsWay
    BY <2>1 DEF CmdInv, CallerInv, CallOk, ResultInv, OnItsWay
  <2> QED
    BY <2>1, <2>2, <2>3, QuietStepsKeepInv
<1>2. CASE \E c \in Calls, r \in Routes : SendCommand(c, r)
  BY <1>2, SendCommandKeepsInv
<1>3. CASE \E c \in Calls : SendCommandReturns(c)
  BY <1>3, SendCommandReturnsKeepsInv
<1>4. CASE Tails
  BY <1>4, TailsKeepInv
<1>5. CASE \E s \in CmdStreams : OpenStream(s) \/ CutStream(s)
  BY <1>5, StreamStepsKeepInv
<1>6. CASE \E s \in CmdStreams : ForwardCommand(s)
  BY <1>6, ForwardCommandKeepsInv
<1>7. CASE \E s \in CmdStreams : DeliverResult(s)
  BY <1>7, DeliverResultKeepsInv
<1>8. CASE \E s \in CmdStreams : HandlerReturns(s)
  BY <1>8, HandlerReturnsKeepsInv
<1>9. CASE AgentStarts
  BY <1>9, AgentStartsKeepsInv
<1>10. CASE Executions
  BY <1>10, ExecutionsKeepInv
<1>11. CASE AgentAnswers
  BY <1>11, AgentAnswersKeepsInv
<1>12. CASE SessionEnds \/ AgentStops
  BY <1>12, SessionStepsKeepInv
<1> QED
  BY <1>1, <1>2, <1>3, <1>4, <1>5, <1>6, <1>7, <1>8, <1>9, <1>10, <1>11, <1>12, StepCases

\* The invariant holds throughout.
LEMMA CmdInvariant == CmdSpec => []CmdInv
BY CmdInitInv, CmdNextKeepsInv, PTL DEF CmdSpec

-----------------------------------------------------------------------------
(* Commands: what follows from it. *)

\* Type correctness of the command path: the hub (hub.go), the stream handler
\* (control_service.go), the agent's session loop (client.go) and what it
\* replaces on the node (coreversion.go, geodata.go).
THEOREM CmdTypeCorrect == CmdSpec => []CmdTypeOK
<1>1. CmdInv => CmdTypeOK
  BY TypesAreTypeOK DEF CmdInv
<1> QED
  BY <1>1, CmdInvariant, PTL

\* A step of the command path is a step of the abstract call, or a stutter.
LEMMA CommandStepIsCallStep ==
    ASSUME CmdInv, [CmdNext]_cmdVars
    PROVE  [Call!CallNext]_(Call!callVars)
<1> USE DEF CmdInv, CmdTypes
<1> SUFFICES ASSUME ~ UNCHANGED <<ran, told>>
             PROVE  \E c \in Calls : Call!Start(c) \/ Call!Complete(c) \/ Call!Return(c)
  BY DEF Call!CallNext, Call!callVars
<1>1. ASSUME NEW c \in Calls, NEW r \in Routes, SendCommand(c, r)
      PROVE  Call!Return(c)
  <2>1. CallOk(c)
    BY DEF CallerInv
  <2>2. caller[c] = "idle" /\ ran' = ran /\ told' = [told EXCEPT ![c] = "not delivered"]
    BY <1>1 DEF SendCommand, cmdHistoryVars
  <2> QED
    BY <2>1, <2>2 DEF CallOk, Call!Return
<1>2. ASSUME NEW c \in Calls, SendCommandReturns(c)
      PROVE  Call!Return(c)
  <2>1. CallOk(c) /\ slot[c] \in {"empty"} \cup CmdBodies
    BY DEF CallerInv, CallTypes
  <2>2. caller[c] = "waiting" /\ ran' = ran
    BY <1>2 DEF SendCommandReturns, cmdHistoryVars
  <2>3. PICK v \in {"timeout", "cancelled", slot[c]} \ {"empty"} : told' = [told EXCEPT ![c] = v]
    BY <1>2 DEF SendCommandReturns
  <2>4. v \in {"timeout", "cancelled"} \/ (v = ran[c] /\ v \in CmdBodies)
    BY <2>1, <2>3 DEF CallOk
  <2>5. told[c] = "nothing"
    BY <2>1, <2>2 DEF CallOk
  <2> QED
    BY <2>2, <2>3, <2>4, <2>5 DEF Call!Return, Call!Bodies, CmdBodies
<1>3. ~ Tails
  BY TailsAreTailSteps DEF TailStep, cmdHistoryVars
<1>4. \A s \in CmdStreams : ~ (\/ OpenStream(s) \/ ForwardCommand(s) \/ DeliverResult(s)
                              \/ HandlerReturns(s) \/ CutStream(s))
  BY DEF OpenStream, ForwardCommand, DeliverResult, HandlerReturns, CutStream, cmdCallVars,
         cmdHistoryVars
<1>5. ASSUME AgentStarts
      PROVE  \E c \in Calls : Call!Start(c)
  <2> DEFINE c == Head(cmdDown[cmdSess])
  <2>1. ran' = [ran EXCEPT ![c] = "running"] /\ told' = told
        /\ cmdSess \in CmdStreams /\ cmdDown[cmdSess] # <<>>
    BY <1>5 DEF AgentStarts, WireTypes, cmdCallVars
  <2>2. cmdDown[cmdSess] \in Seq(Calls)
    BY <2>1 DEF WireTypes
  <2>3. c = cmdDown[cmdSess][1] /\ 1 \in 1 .. Len(cmdDown[cmdSess])
    BY <2>1, <2>2, EmptySeq
  <2>4. c \in OnItsWay
    BY <2>1, <2>3 DEF SentInv
  <2> HIDE DEF c
  <2> QED
    BY <2>1, <2>4 DEF OnItsWay, Call!Start
<1>6. ASSUME Executions
      PROVE  \E c \in Calls : Call!Complete(c)
  <2>1. ExecStep
    BY <1>6, ExecutionsAreExecSteps
  <2>2. told' = told /\ stage \notin {"idle", "answer"}
        /\ \E body \in CmdBodies : ran' = [ran EXCEPT ![current] = body]
    BY <2>1 DEF ExecStep, cmdCallVars
  <2>3. current \in Calls /\ ran[current] = "running"
    BY <2>2 DEF AgentInv
  <2>4. Call!Complete(current)
    BY <2>2, <2>3 DEF Call!Complete, Call!Bodies, CmdBodies
  <2> QED
    BY <2>3, <2>4
<1>7. ~ (AgentAnswers \/ SessionEnds \/ AgentStops)
  BY DEF AgentAnswers, SessionEnds, AgentStops, cmdCallVars, cmdHistoryVars
<1>8. ~ UNCHANGED cmdVars
  BY DEF cmdVars, cmdCallVars, cmdHistoryVars
<1> QED
  BY <1>1, <1>2, <1>3, <1>4, <1>5, <1>6, <1>7, <1>8, StepCases

\* SendCommand (hub.go:130) implements the at-most-once call of CommandCall:
\* no command runs twice, none runs after its caller was told "not
\* delivered", and a caller is handed the result of its own command only,
\* through superseded streams, lost and late results and agent restarts.
THEOREM CommandsAreAtMostOnceCalls == CmdSpec => CommandAtMostOnce
<1>1. CmdInit => Call!CallInit
  BY DEF CmdInit, Call!CallInit
<1>2. CmdInv /\ [CmdNext]_cmdVars => [Call!CallNext]_(Call!callVars)
  BY CommandStepIsCallStep
<1> QED
  BY <1>1, <1>2, CmdInvariant, PTL DEF CmdSpec, CommandAtMostOnce, Call!CallSpec

\* A step leaves results that are known as they are.
LEMMA ResultsAreFinal ==
    ASSUME CmdInv, [CmdNext]_cmdVars, NEW c \in Calls, ran[c] \in CmdBodies
    PROVE  ran'[c] = ran[c]
<1>1. /\ [Call!CallNext]_(Call!callVars)
      /\ ran \in [Calls -> {"no", "running"} \cup CmdBodies]
  BY CommandStepIsCallStep DEF CmdInv, CmdTypes, CallTypes
<1>2. CASE \E d \in Calls : Call!Start(d) \/ Call!Complete(d)
  BY <1>1, <1>2 DEF Call!Start, Call!Complete, CmdBodies
<1>3. CASE ran' = ran
  BY <1>3
<1> QED
  BY <1>1, <1>2, <1>3 DEF Call!CallNext, Call!Return, Call!callVars

\* A core version or geo files enter the registry row for a result "ok" only.
LEMMA RegistrySteps ==
    ASSUME CmdInv, [CmdNext]_cmdVars
    PROVE  /\ registry'.version \in {registry.version, Original} \cup {c \in Calls : ran[c] = "ok"}
           /\ registry'.geo \in {registry.geo} \cup {c \in Calls : ran[c] = "ok"}
<1> USE DEF CmdInv, CmdTypes
<1>1. DOMAIN registry = {"version", "geo"}
  BY DEF PanelTypes
<1>2. CASE registry' = registry
  BY <1>2
<1>3. CASE Tails
  <2>1. PICK c \in Calls : \/ UNCHANGED registry
                          \/ /\ told[c] = "ok"
                             /\ registry' \in {registry, [registry EXCEPT !.geo = c],
                                               [registry EXCEPT !.version = c]}
    BY <1>3, TailsAreTailSteps DEF TailStep
  <2>2. told[c] = "ok" => ran[c] = "ok"
    BY DEF CallerInv, CallOk, CmdBodies
  <2> QED
    BY <1>1, <2>1, <2>2
<1>4. CASE \E s \in CmdStreams : OpenStream(s)
  BY <1>1, <1>4 DEF OpenStream
<1>5. registry' = registry \/ Tails \/ \E s \in CmdStreams : OpenStream(s)
  <2>1. Executions => registry' = registry
    BY ExecutionsAreExecSteps DEF ExecStep, cmdStoreVars
  <2>2. \A s \in CmdStreams :
           (ForwardCommand(s) \/ DeliverResult(s) \/ HandlerReturns(s) \/ CutStream(s))
             => registry' = registry
    BY DEF ForwardCommand, DeliverResult, HandlerReturns, CutStream, cmdStoreVars
  <2>3. \A c \in Calls : /\ SendCommandReturns(c) => registry' = registry
                        /\ \A r \in Routes : SendCommand(c, r) => registry' = registry
    BY DEF SendCommand, SendCommandReturns, cmdStoreVars
  <2>4. AgentStarts \/ AgentAnswers \/ SessionEnds \/ AgentStops \/ UNCHANGED cmdVars
            => registry' = registry
    BY DEF AgentStarts, AgentAnswers, SessionEnds, AgentStops, cmdVars, cmdStoreVars
  <2> QED
    BY <2>1, <2>2, <2>3, <2>4, StepCases
<1> QED
  BY <1>2, <1>3, <1>4, <1>5

\* The registry row (RecordCoreUpgrade and RecordGeoUpdate, registry.go) never
\* names a core version or geo files whose command did not end well on the
\* node, however requests overlap and results are lost or late.
THEOREM RegistryNamesInstalledFiles == CmdSpec => []RecordedWasInstalled
<1>1. CmdInit => RecordedWasInstalled
  BY DEF CmdInit, RecordedWasInstalled
<1>2. CmdInv /\ RecordedWasInstalled /\ [CmdNext]_cmdVars => RecordedWasInstalled'
  <2> SUFFICES ASSUME CmdInv, RecordedWasInstalled, [CmdNext]_cmdVars
               PROVE  RecordedWasInstalled'
    OBVIOUS
  <2>1. \A c \in Calls : ran[c] = "ok" => ran'[c] = "ok"
    BY ResultsAreFinal DEF CmdBodies
  <2>2. /\ registry.version \in {Original} \cup Calls
        /\ registry.geo \in {NoFile} \cup Calls
    BY DEF CmdInv, CmdTypes, PanelTypes
  <2> QED
    BY <2>1, <2>2, RegistrySteps DEF RecordedWasInstalled
<1> QED
  BY <1>1, <1>2, CmdInvariant, PTL DEF CmdSpec

-----------------------------------------------------------------------------
(* Core upgrades are all or nothing. *)

\* Where the old and the new core binary are at each stage of an upgrade.
CommandStages == {"RestartAdapters", "FetchLogs", "UpdateGeoData", "install geoip",
                  "install geosite", "geo restart"}

UpgradeInv ==
    /\ stage \in {"UpgradeCore", "preflight", "backup"} => core.installed = before
    /\ stage \in {"preflight", "backup"} \cup UpgradeStages => before # NoFile
    /\ stage \in UpgradeStages => core.previous = before
    /\ stage \in UpgradeStages \ {"install"} => core.installed = current
    /\ stage = "health" => core.running = current
    /\ stage \in CommandStages => route[current] # "handleUpgradeNodeCore"
    /\ UpgradeAllOrNothing

\* Steps that leave the node's files and the agent's progress alone.
LEMMA UpgradeUndisturbed ==
    ASSUME CmdInv, UpgradeInv, UNCHANGED <<stage, current, core, ran, before, stranded>>,
           \A c \in Calls : caller[c] # "idle" => route'[c] = route[c]
    PROVE  UpgradeInv'
<1>1. stage # "idle" => current \in Calls /\ ran[current] # "no"
  BY DEF CmdInv, AgentInv, CmdBodies
<1>2. stage # "idle" => route'[current] = route[current]
  BY <1>1 DEF CmdInv, CallerInv, CallOk
<1> QED
  BY <1>2 DEF UpgradeInv, UpgradeAllOrNothing, CommandStages

\* Every step of the agent's execution keeps the two binaries accounted for.
LEMMA UpgradeExecutions ==
    ASSUME CmdInv, UpgradeInv, Executions
    PROVE  UpgradeInv'
<1> USE DEF CmdInv, CmdTypes, UpgradeStages, CommandStages
<1>0. /\ current \in Calls /\ current # NoFile /\ ran[current] = "running"
      /\ UNCHANGED <<route, current, before>>
      /\ core \in [installed : Files, previous : Files, running : Files]
      /\ ran \in [Calls -> {"no", "running"} \cup CmdBodies]
  <2>1. ExecStep
    BY ExecutionsAreExecSteps
  <2>2. UNCHANGED <<route, current, before>> /\ stage \notin {"idle", "answer"}
    BY <2>1 DEF ExecStep, cmdCallVars
  <2>3. current \in Calls /\ ran[current] = "running"
    BY <2>2 DEF AgentInv
  <2>4. \A c \in Calls : c # NoFile
    BY CommandsAssumption DEF Calls, NoFile
  <2> QED
    BY <2>2, <2>3, <2>4 DEF HostTypes, CallTypes
<1>1. UNCHANGED cmdHostVars => core' = core
  BY DEF cmdHostVars
<1>2. XrayRestarts => core'.installed = core.installed /\ core'.previous = core.previous
                      /\ core'.running = core.installed
  BY <1>0 DEF XrayRestarts
<1>3. XrayRestartFails => core'.installed = core.installed /\ core'.previous = core.previous
  BY <1>0 DEF XrayRestartFails
<1>4. RestoredCore.installed = core.previous
  BY <1>0 DEF RestoredCore
<1> USE DEF Executing, Goes, Finishes, UpgradeInv, UpgradeAllOrNothing
<1>5. CASE UnrecognisedCommand
  BY <1>0, <1>1, <1>5 DEF UnrecognisedCommand
<1>6. CASE RestartAll
  BY <1>0, <1>2, <1>3, <1>6 DEF RestartAll
<1>7. CASE ReadLogs
  BY <1>0, <1>1, <1>7 DEF ReadLogs
<1>8. CASE FetchGeoData
  BY <1>0, <1>1, <1>8 DEF FetchGeoData
<1>9. CASE InstallGeoIP
  BY <1>0, <1>9 DEF InstallGeoIP
<1>10. CASE InstallGeoSite
  BY <1>0, <1>10 DEF InstallGeoSite
<1>11. CASE RestartAfterGeo
  BY <1>0, <1>2, <1>3, <1>11 DEF RestartAfterGeo
<1>12. CASE DownloadCore
  BY <1>0, <1>1, <1>12 DEF DownloadCore
<1>13. CASE Preflight
  BY <1>0, <1>1, <1>13 DEF Preflight
<1>14. CASE BackUpCore
  <2>1. [core EXCEPT !.installed = NoFile, !.previous = core.installed].previous = core.installed
    BY <1>0
  <2> QED
    BY <1>0, <1>14, <2>1 DEF BackUpCore
<1>15. CASE InstallCore
  <2>1. /\ [core EXCEPT !.installed = current].installed = current
        /\ [core EXCEPT !.installed = current].previous = core.previous
    BY <1>0
  <2> QED
    BY <1>0, <1>4, <1>15, <2>1 DEF InstallCore
<1>16. CASE RestartCore
  BY <1>0, <1>2, <1>3, <1>16 DEF RestartCore
<1>17. CASE waitHealthy
  BY <1>0, <1>1, <1>17 DEF waitHealthy
<1>18. CASE rollback
  <2>1. \A p \in {core.previous, NoFile} : [RestoredCore EXCEPT !.running = p].installed = core.previous
    <3>1. RestoredCore \in [installed : Files, previous : Files, running : Files]
      BY <1>0 DEF RestoredCore, Files
    <3> QED
      BY <1>4, <3>1
  <2>2. stranded' \/ core'.installed = core.previous
    BY <1>4, <1>18, <2>1 DEF rollback
  <2> QED
    BY <1>0, <1>18, <2>2 DEF rollback
<1> QED
  BY <1>5, <1>6, <1>7, <1>8, <1>9, <1>10, <1>11, <1>12, <1>13, <1>14, <1>15, <1>16, <1>17, <1>18
     DEF Executions

\* The agent starts on a command.
LEMMA UpgradeStarts ==
    ASSUME CmdInv, UpgradeInv, AgentStarts
    PROVE  UpgradeInv'
<1> USE DEF CmdInv, CmdTypes, UpgradeStages, CommandStages
<1> DEFINE c == Head(cmdDown[cmdSess])
<1>0. /\ UNCHANGED <<route, core, stranded>> /\ stage = "idle" /\ current' = c
      /\ stage' \in {KindOf[route[c]], "unrecognised"}
      /\ before' = IF KindOf[route[c]] = "UpgradeCore" THEN core.installed ELSE before
      /\ cmdSess \in CmdStreams /\ cmdDown[cmdSess] # <<>>
  BY DEF AgentStarts, WireTypes, cmdCallVars, cmdHostVars
<1>1. c \in Calls
  <2>1. cmdDown[cmdSess] \in Seq(Calls)
    BY <1>0 DEF WireTypes
  <2> QED
    BY <1>0, <2>1, HeadTailProperties
<1>2. route[c] \in Routes
  <2>1. c \in OnItsWay
    <3>1. cmdDown[cmdSess] \in Seq(Calls)
      BY <1>0 DEF WireTypes
    <3>2. c = cmdDown[cmdSess][1] /\ 1 \in 1 .. Len(cmdDown[cmdSess])
      BY <1>0, <3>1, EmptySeq
    <3> QED
      BY <1>0, <3>2 DEF SentInv
  <2> HIDE DEF c
  <2> QED
    BY <1>1, <2>1 DEF OnItsWay, CallerInv, CallOk
<1> HIDE DEF c
<1>3. /\ route[c] = "handleUpgradeNodeCore" <=> KindOf[route[c]] = "UpgradeCore"
      /\ KindOf[route[c]] \in CmdKinds
  BY <1>2, CommandsAssumption DEF KindOf, CmdKinds
<1> QED
  BY <1>0, <1>3 DEF UpgradeInv, UpgradeAllOrNothing, CmdKinds

\* The agent answers, loses its session or stops.
LEMMA UpgradeInterrupted ==
    ASSUME CmdInv, UpgradeInv, AgentAnswers \/ SessionEnds \/ AgentStops
    PROVE  UpgradeInv'
<1> USE DEF UpgradeStages, CommandStages
<1>1. stage' = "idle" /\ before' = before
  BY DEF AgentAnswers, SessionEnds, AgentStops, cmdHistoryVars
<1>2. CASE AgentAnswers \/ SessionEnds
  BY <1>1, <1>2 DEF AgentAnswers, SessionEnds, UpgradeInv, UpgradeAllOrNothing, cmdHostVars,
                    cmdHistoryVars
<1>3. CASE AgentStops
  <2>1. RestoredCore.installed = core.previous
    BY DEF CmdInv, CmdTypes, HostTypes, RestoredCore
  <2> QED
    BY <1>1, <1>3, <2>1 DEF AgentStops, UpgradeInv, UpgradeAllOrNothing
<1> QED
  BY <1>2, <1>3

\* UpgradeCore (coreversion.go) is all or nothing: unless the agent died in
\* the middle or the old binary could not be put back, there is a core at the
\* install path, and it is the one the answer says it is.
THEOREM UpgradesAreAllOrNothing == CmdSpec => []UpgradeAllOrNothing
<1>1. CmdInit => UpgradeInv
  BY DEF CmdInit, UpgradeInv, UpgradeAllOrNothing, UpgradeStages, CommandStages, Original, NoFile
<1>2. CmdInv /\ UpgradeInv /\ [CmdNext]_cmdVars => UpgradeInv'
  <2> SUFFICES ASSUME CmdInv, UpgradeInv, [CmdNext]_cmdVars
               PROVE  UpgradeInv'
    OBVIOUS
  <2> DEFINE Undisturbed == /\ UNCHANGED <<stage, current, core, ran, before, stranded>>
                            /\ \A c \in Calls : caller[c] # "idle" => route'[c] = route[c]
  <2>1. ASSUME NEW c \in Calls, NEW r \in Routes, SendCommand(c, r)
        PROVE  Undisturbed
    BY <2>1 DEF SendCommand, CmdInv, CmdTypes, CallTypes, cmdAgentVars, cmdHostVars,
                cmdHistoryVars
  <2>2. ASSUME NEW c \in Calls, SendCommandReturns(c)
        PROVE  Undisturbed
    BY <2>2 DEF SendCommandReturns, cmdAgentVars, cmdHostVars, cmdHistoryVars
  <2>3. Tails => Undisturbed
    BY TailsAreTailSteps DEF TailStep, cmdAgentVars, cmdHostVars, cmdHistoryVars
  <2>4. ASSUME NEW s \in CmdStreams,
               \/ OpenStream(s) \/ ForwardCommand(s) \/ DeliverResult(s)
               \/ HandlerReturns(s) \/ CutStream(s)
        PROVE  Undisturbed
    BY <2>4 DEF OpenStream, ForwardCommand, DeliverResult, HandlerReturns, CutStream,
                cmdCallVars, cmdAgentVars, cmdHostVars, cmdHistoryVars
  <2>5. UNCHANGED cmdVars => Undisturbed
    BY DEF cmdVars, cmdCallVars, cmdAgentVars, cmdHostVars, cmdHistoryVars
  <2>6. Undisturbed => UpgradeInv'
    BY UpgradeUndisturbed
  <2> HIDE DEF Undisturbed
  <2> QED
    BY <2>1, <2>2, <2>3, <2>4, <2>5, <2>6, StepCases, UpgradeExecutions, UpgradeStarts,
       UpgradeInterrupted
<1>3. UpgradeInv => UpgradeAllOrNothing
  BY DEF UpgradeInv
<1> QED
  BY <1>1, <1>2, <1>3, CmdInvariant, PTL DEF CmdSpec

-----------------------------------------------------------------------------
(* Enrolment: the inductive invariant. *)

NodeRows == [row : 0 .. MaxNodeRows, cert : 0 .. MaxEnrolments]
TokenRows == [at : {"none", "live", "used", "expired"},
              node : 0 .. MaxNodeRows, row : 0 .. MaxNodeRows]
CallStates == [at : {"none", "asked", "redeemed", "signed", "recorded", "failed"},
               token : 0 .. MaxTokens,
               node : 0 .. MaxNodeRows, row : 0 .. MaxNodeRows, ca : 0 .. 1]
Machines == [at : {"down", "enrolling", "key", "crt", "ca", "up"}, token : 0 .. MaxTokens,
             pin : 0 .. 1, key : 0 .. MaxEnrolments, crt : 0 .. MaxEnrolments, ca : 0 .. 1,
             try : 0 .. MaxEnrolments, ssh : Nat]
Boots == [at : {"idle", "shown", "dial", "ran"}, host : Hosts \cup {"-"}, key : Nat,
          token : 0 .. MaxTokens]

EnTypes ==
    /\ enNode \in [NodeIds -> NodeRows]
    /\ enToken \in [Tokens -> TokenRows]
    /\ enCall \in [Enrolments -> CallStates]
    /\ enHost \in [Hosts -> Machines]
    /\ enPanel \in [up : BOOLEAN, ca : 0 .. 1]
    /\ enBoot \in Boots
    /\ enRows \in 0 .. MaxNodeRows

\* Bootstrapping dials a host of the operator's choice.
BootInv == enBoot.at \in {"shown", "dial", "ran"} => enBoot.host \in Hosts

\* A redeemed token is never good again, and no two calls redeemed it.
TokenInv ==
    /\ \A n \in Enrolments : enCall[n].at # "none" => enCall[n].token \in Tokens
    /\ \A n \in Enrolments : enCall[n].row # 0 =>
           enCall[n].at # "none" /\ enToken[enCall[n].token].at \in {"used", "expired"}
    /\ TokenEnrolsOnce

\* Whoever asks or has signed found the panel's CA in place.
CAInv ==
    /\ enPanel.up => enPanel.ca = 1
    /\ \A n \in Enrolments : enCall[n].at # "none" => enPanel.ca = 1
    /\ \A n \in Enrolments : enCall[n].at \in {"signed", "recorded"} => enCall[n].ca = 1

\* What is on a host's disk at each of the agent's four writes.
DiskOk(h) ==
    /\ enHost[h].at # "down" /\ enHost[h].at # "up" => enHost[h].try \in Enrolments
    /\ enHost[h].at \in {"enrolling", "key"} => enHost[h].crt = 0
    /\ enHost[h].at \in {"key", "crt", "ca"} =>
           enHost[h].key = enHost[h].try /\ enCall[enHost[h].try].at = "recorded"
    /\ enHost[h].at \in {"crt", "ca"} => enHost[h].crt = enHost[h].try
    /\ enHost[h].at = "up" => enHost[h].crt # 0
    /\ enHost[h].at \in {"ca", "up"} => enHost[h].ca = 1
    /\ enHost[h].crt # 0 => enHost[h].key = enHost[h].crt
                            /\ enCall[enHost[h].crt].at = "recorded"

DiskInv == \A h \in Hosts : DiskOk(h)

EnInv == EnTypes /\ BootInv /\ TokenInv /\ CAInv /\ DiskInv

\* Nobody has enrolled at first.
LEMMA EnInitInv == EnInit => EnInv
<1> SUFFICES ASSUME EnInit PROVE EnInv
  OBVIOUS
<1> USE EnrollmentAssumption
<1>1. EnTypes
  BY DEF EnInit, EnTypes, NodeRows, TokenRows, CallStates, Machines, Boots, NoNode, NoToken,
         NoEnrolment, Machine, NoBoot
<1>2. BootInv /\ TokenInv /\ CAInv /\ DiskInv
  BY DEF EnInit, BootInv, TokenInv, TokenEnrolsOnce, CAInv, DiskInv, DiskOk, NoEnrolment,
         Machine, NoBoot
<1> QED
  BY <1>1, <1>2 DEF EnInv

-----------------------------------------------------------------------------
(* Enrolment: every step preserves it. *)

\* The agent's steps on its own host.
LEMMA HostStepsKeepInv ==
    ASSUME EnInv, NEW h \in Hosts,
           UNCHANGED <<enNode, enToken, enCall, enPanel, enRows>>,
           enHost' \in [Hosts -> Machines],
           enBoot' \in Boots, BootInv',
           \A k \in Hosts : k # h => enHost'[k] = enHost[k],
           DiskOk(h)'
    PROVE  EnInv'
<1> USE DEF EnInv
<1>1. EnTypes'
  BY DEF EnTypes
<1>2. TokenInv' /\ CAInv'
  BY DEF TokenInv, TokenEnrolsOnce, CAInv
<1>3. DiskInv'
  <2> SUFFICES ASSUME NEW k \in Hosts PROVE DiskOk(k)'
    BY DEF DiskInv
  <2>1. CASE k = h
    BY <2>1
  <2>2. CASE k # h
    BY <2>2 DEF DiskInv, DiskOk
  <2> QED
    BY <2>1, <2>2
<1> QED
  BY <1>1, <1>2, <1>3

\* Updates of a host's record.
LEMMA MachineUpdates ==
    ASSUME NEW m \in Machines, NEW t \in 0 .. MaxTokens, NEW e \in 0 .. MaxEnrolments,
           NEW c \in 0 .. 1
    PROVE  /\ [m EXCEPT !.token = t, !.pin = c] \in Machines
           /\ [m EXCEPT !.at = "enrolling", !.try = e] \in Machines
           /\ [m EXCEPT !.at = "ca", !.ca = c] \in Machines
           /\ [m EXCEPT !.at = "up", !.token = t, !.try = e] \in Machines
           /\ [m EXCEPT !.at = "down", !.try = e] \in Machines
BY DEF Machines

\* The node's machine keeps the invariant.
LEMMA AgentStepsKeepInv ==
    ASSUME EnInv, NEW h \in Hosts,
           \/ Reinstall(h) \/ AgentLoads(h) \/ WriteNodeKey(h) \/ WriteNodeCert(h)
           \/ WritePanelCA(h) \/ SaveConfig(h) \/ AgentDies(h)
    PROVE  EnInv'
<1> USE EnrollmentAssumption DEF EnInv
<1>1. DiskOk(h) /\ enHost[h] \in Machines /\ enHost \in [Hosts -> Machines]
  BY DEF DiskInv, EnTypes
<1>2. UNCHANGED <<enNode, enToken, enCall, enPanel, enBoot, enRows>>
  BY DEF Reinstall, AgentLoads, WriteNodeKey, WriteNodeCert, WritePanelCA, SaveConfig, AgentDies
<1>3. enBoot' \in Boots /\ BootInv'
  BY <1>2 DEF EnTypes, BootInv
<1>4. ASSUME NEW m \in Machines, enHost' = [enHost EXCEPT ![h] = m]
      PROVE  /\ enHost' \in [Hosts -> Machines]
             /\ \A k \in Hosts : k # h => enHost'[k] = enHost[k]
             /\ enHost'[h] = m
  BY <1>1, <1>4
<1>5. CASE Reinstall(h)
  <2> DEFINE m == Machine(enHost[h].ssh + 1)
  <2>1. m \in Machines /\ m.at = "down" /\ m.crt = 0
    BY <1>1 DEF Machine, Machines
  <2>2. enHost' = [enHost EXCEPT ![h] = m]
    BY <1>5 DEF Reinstall
  <2> HIDE DEF m
  <2> QED
    BY <1>2, <1>3, <1>4, <2>1, <2>2, HostStepsKeepInv DEF DiskOk
<1>6. CASE AgentLoads(h)
  <2> DEFINE m == [enHost[h] EXCEPT !.at = "up"]
  <2>1. m \in Machines /\ m.at = "up" /\ m.key = enHost[h].key /\ m.crt = enHost[h].crt
        /\ m.ca = enHost[h].ca
    BY <1>1 DEF Machines
  <2>2. enHost' = [enHost EXCEPT ![h] = m] /\ enHost[h].crt # 0 /\ enHost[h].ca = 1
    BY <1>1, <1>6 DEF AgentLoads, Machines
  <2> HIDE DEF m
  <2> QED
    BY <1>1, <1>2, <1>3, <1>4, <2>1, <2>2, HostStepsKeepInv DEF DiskOk
<1>7. CASE WriteNodeKey(h)
  <2> DEFINE m == [enHost[h] EXCEPT !.at = "key", !.key = enHost[h].try]
  <2>1. m \in Machines /\ m.at = "key" /\ m.key = enHost[h].try /\ m.crt = enHost[h].crt
        /\ m.try = enHost[h].try
    BY <1>1 DEF Machines
  <2>2. enHost' = [enHost EXCEPT ![h] = m] /\ enHost[h].at = "enrolling"
        /\ enCall[enHost[h].try].at = "recorded"
    BY <1>1, <1>7 DEF WriteNodeKey, Machines
  <2> HIDE DEF m
  <2> QED
    BY <1>1, <1>2, <1>3, <1>4, <2>1, <2>2, HostStepsKeepInv DEF DiskOk
<1>8. CASE WriteNodeCert(h)
  <2> DEFINE m == [enHost[h] EXCEPT !.at = "crt", !.crt = enHost[h].try]
  <2>1. m \in Machines /\ m.at = "crt" /\ m.key = enHost[h].key /\ m.crt = enHost[h].try
        /\ m.try = enHost[h].try
    BY <1>1 DEF Machines
  <2>2. enHost' = [enHost EXCEPT ![h] = m] /\ enHost[h].at = "key"
    BY <1>1, <1>8 DEF WriteNodeCert, Machines
  <2> HIDE DEF m
  <2> QED
    BY <1>1, <1>2, <1>3, <1>4, <2>1, <2>2, HostStepsKeepInv DEF DiskOk
<1>9. CASE WritePanelCA(h)
  <2> DEFINE one == enCall[enHost[h].try].ca
             m == [enHost[h] EXCEPT !.at = "ca", !.ca = one]
  <2>0. one = 1
    BY <1>1, <1>9 DEF WritePanelCA, DiskOk, CAInv
  <2>1. m \in Machines /\ m.at = "ca" /\ m.key = enHost[h].key /\ m.crt = enHost[h].crt
        /\ m.try = enHost[h].try /\ m.ca = 1
    <3> HIDE DEF one
    <3>1. one \in 0 .. 1 /\ 0 \in 0 .. MaxTokens /\ 0 \in 0 .. MaxEnrolments
      BY <2>0
    <3>2. m \in Machines
      BY <1>1, <3>1, MachineUpdates, Zenon
    <3> QED
      BY <1>1, <2>0, <3>1, <3>2 DEF Machines
  <2>2. enHost' = [enHost EXCEPT ![h] = m] /\ enHost[h].at = "crt"
    BY <1>1, <1>9 DEF WritePanelCA, Machines
  <2> HIDE DEF m
  <2> QED
    BY <1>1, <1>2, <1>3, <1>4, <2>1, <2>2, HostStepsKeepInv DEF DiskOk
<1>10. CASE SaveConfig(h)
  <2> DEFINE m == [enHost[h] EXCEPT !.at = "up", !.token = 0, !.try = 0]
  <2>1. m \in Machines /\ m.at = "up" /\ m.key = enHost[h].key /\ m.crt = enHost[h].crt
        /\ m.ca = enHost[h].ca
    <3>1. 0 \in 0 .. MaxTokens /\ 0 \in 0 .. MaxEnrolments /\ 0 \in 0 .. 1
      OBVIOUS
    <3>2. m \in Machines
      BY <1>1, <3>1, MachineUpdates, Zenon
    <3> QED
      BY <1>1, <3>2 DEF Machines
  <2>2. enHost' = [enHost EXCEPT ![h] = m] /\ enHost[h].at = "ca"
    <3>1. enHost' = [enHost EXCEPT ![h] = m]
      BY <1>10, Zenon DEF SaveConfig
    <3> QED
      BY <1>10, <3>1 DEF SaveConfig
  <2> HIDE DEF m
  <2> QED
    BY <1>1, <1>2, <1>3, <1>4, <2>1, <2>2, HostStepsKeepInv DEF DiskOk, Enrolments
<1>11. CASE AgentDies(h)
  <2> DEFINE m == [enHost[h] EXCEPT !.at = "down", !.try = 0]
  <2>1. m \in Machines /\ m.at = "down" /\ m.key = enHost[h].key /\ m.crt = enHost[h].crt
        /\ m.ca = enHost[h].ca
    <3>1. 0 \in 0 .. MaxTokens /\ 0 \in 0 .. MaxEnrolments /\ 0 \in 0 .. 1
      OBVIOUS
    <3>2. m \in Machines
      BY <1>1, <3>1, MachineUpdates, Zenon
    <3> QED
      BY <1>1, <3>2 DEF Machines
  <2>2. enHost' = [enHost EXCEPT ![h] = m]
    <3>1. enHost' = [enHost EXCEPT ![h] = m]
      BY <1>11, Zenon DEF AgentDies
    <3> QED
      BY <1>11, <3>1 DEF AgentDies
  <2> HIDE DEF m
  <2> QED
    BY <1>1, <1>2, <1>3, <1>4, <2>1, <2>2, HostStepsKeepInv DEF DiskOk
<1> QED
  BY <1>5, <1>6, <1>7, <1>8, <1>9, <1>10, <1>11

\* A token and the CA's fingerprint are put in a host's node.yaml.
LEMMA GivenKeepsInv ==
    ASSUME EnInv, NEW h \in Hosts, NEW t \in 0 .. MaxTokens, Given(h, t), enHost[h].at = "down",
           UNCHANGED <<enNode, enToken, enCall, enPanel, enRows>>,
           enBoot' \in Boots, BootInv'
    PROVE  EnInv'
<1> USE EnrollmentAssumption DEF EnInv
<1>1. DiskOk(h) /\ enHost[h] \in Machines /\ enHost \in [Hosts -> Machines]
      /\ enPanel.ca \in 0 .. 1
  BY DEF DiskInv, EnTypes
<1> DEFINE m == [enHost[h] EXCEPT !.token = t, !.pin = enPanel.ca]
<1>2. enHost' = [enHost EXCEPT ![h] = m]
  BY Zenon DEF Given
<1>3. m \in Machines
  BY <1>1, 0 \in 0 .. MaxEnrolments, MachineUpdates, Zenon
<1>4. m.at = "down" /\ m.key = enHost[h].key /\ m.crt = enHost[h].crt /\ m.ca = enHost[h].ca
  BY <1>1 DEF Machines
<1> HIDE DEF m
<1>5. /\ enHost' \in [Hosts -> Machines]
      /\ \A k \in Hosts : k # h => enHost'[k] = enHost[k]
      /\ enHost'[h] = m
  BY <1>1, <1>2, <1>3
<1>6. DiskOk(h)'
  BY <1>1, <1>4, <1>5 DEF DiskOk
<1> QED
  BY <1>5, <1>6, HostStepsKeepInv

\* So does the operator who installs one over SSH.
LEMMA InstallKeepsInv ==
    ASSUME EnInv, NEW h \in Hosts, NEW t \in Tokens, Install(h, t)
    PROVE  EnInv'
<1>1. t \in 0 .. MaxTokens
  BY EnrollmentAssumption DEF Tokens
<1>2. enBoot' \in Boots /\ BootInv'
  BY DEF EnInv, EnTypes, BootInv, Install
<1> QED
  BY <1>1, <1>2, GivenKeepsInv DEF Install

\* Bootstrapping over SSH.
LEMMA BootstrapKeepsInv ==
    ASSUME EnInv, BootstrapOverSSH
    PROVE  EnInv'
<1>1. enBoot.host \in Hosts /\ enBoot.token \in 0 .. MaxTokens
  BY DEF EnInv, EnTypes, BootInv, BootstrapOverSSH, Boots
<1>2. enBoot' \in Boots /\ BootInv'
  BY DEF EnInv, EnTypes, BootInv, BootstrapOverSSH, Boots
<1> QED
  BY <1>1, <1>2, GivenKeepsInv DEF BootstrapOverSSH

\* The operator is shown a host key, or the bootstrap fails.
LEMMA BootStepsKeepInv ==
    ASSUME EnInv, BootstrapFails \/ \E h \in Hosts : HostKeyPrompt(h)
    PROVE  EnInv'
<1>1. UNCHANGED <<enNode, enToken, enCall, enHost, enPanel, enRows>>
  BY DEF BootstrapFails, HostKeyPrompt
<1>2. enBoot' \in Boots /\ BootInv'
  <2>1. CASE BootstrapFails
    BY <2>1, EnrollmentAssumption DEF BootstrapFails, NoBoot, Boots, BootInv
  <2>2. ASSUME NEW h \in Hosts, HostKeyPrompt(h)
        PROVE  enBoot' \in Boots /\ BootInv'
    <3> DEFINE b == [NoBoot EXCEPT !.at = "shown", !.host = h, !.key = enHost[h].ssh]
    <3>1. enHost[h].ssh \in Nat
      BY DEF EnInv, EnTypes, Machines
    <3>2. NoBoot \in Boots
      BY EnrollmentAssumption DEF NoBoot, Boots
    <3>3. b \in Boots /\ b.host = h
      BY <3>1, <3>2 DEF Boots
    <3>4. enBoot' = b
      BY <2>2 DEF HostKeyPrompt
    <3> HIDE DEF b
    <3> QED
      BY <3>3, <3>4 DEF BootInv
  <2> QED
    BY <2>1, <2>2
<1>3. EnTypes' /\ TokenInv' /\ CAInv' /\ DiskInv'
  BY <1>1, <1>2 DEF EnInv, EnTypes, TokenInv, TokenEnrolsOnce, CAInv, DiskInv, DiskOk
<1> QED
  BY <1>2, <1>3 DEF EnInv

\* The agent asks to be enrolled.
LEMMA AgentEnrollsKeepsInv ==
    ASSUME EnInv, NEW h \in Hosts, AgentEnrolls(h)
    PROVE  EnInv'
<1> USE EnrollmentAssumption DEF EnInv
<1>1. PICK n \in Unused(enCall) :
          /\ enCall' = [enCall EXCEPT ![n] = [NoEnrolment EXCEPT !.at = "asked",
                                                                 !.token = enHost[h].token]]
          /\ enHost' = [enHost EXCEPT ![h].at = "enrolling", ![h].try = n]
  BY DEF AgentEnrolls
<1>2. /\ UNCHANGED <<enNode, enToken, enPanel, enBoot, enRows>>
      /\ enHost[h].at = "down" /\ enHost[h].crt = 0 /\ enHost[h].token # 0 /\ enPanel.up
  BY DEF AgentEnrolls
<1>3. n \in Enrolments /\ enCall[n].at = "none" /\ n \in 0 .. MaxEnrolments
  BY DEF Unused, EnTypes, Enrolments
<1>4. enHost[h] \in Machines /\ enHost[h].token \in 0 .. MaxTokens /\ enHost[h].token \in Tokens
  BY <1>2 DEF EnTypes, Machines, Tokens
<1> DEFINE t == enHost[h].token
           call == [NoEnrolment EXCEPT !.at = "asked", !.token = t]
           m == [enHost[h] EXCEPT !.at = "enrolling", !.try = n]
<1>5. /\ call \in CallStates /\ call.at = "asked" /\ call.token = t /\ call.row = 0
  <2>1. NoEnrolment \in CallStates /\ NoEnrolment.row = 0
    BY DEF NoEnrolment, CallStates
  <2>2. t \in 0 .. MaxTokens
    BY <1>4
  <2> HIDE DEF t
  <2> QED
    BY <2>1, <2>2 DEF CallStates
<1>6. m \in Machines /\ m.at = "enrolling" /\ m.try = n /\ m.crt = 0
  <2>1. m \in Machines
    BY <1>3, <1>4, 0 \in 0 .. MaxTokens, 0 \in 0 .. 1, MachineUpdates, Zenon
  <2> QED
    BY <1>2, <1>4, <2>1 DEF Machines
<1>7. enCall' = [enCall EXCEPT ![n] = call]
  BY <1>1
<1>8. enHost' = [enHost EXCEPT ![h] = m]
  BY <1>1, Zenon
<1> HIDE DEF t, call, m
<1>9. /\ enCall' \in [Enrolments -> CallStates] /\ enHost' \in [Hosts -> Machines]
      /\ enCall'[n] = call /\ \A k \in Enrolments : k # n => enCall'[k] = enCall[k]
      /\ enHost'[h] = m /\ \A k \in Hosts : k # h => enHost'[k] = enHost[k]
  BY <1>3, <1>5, <1>6, <1>7, <1>8 DEF EnTypes
<1>10. EnTypes' /\ BootInv'
  BY <1>2, <1>9 DEF EnTypes, BootInv
<1>11. TokenInv'
  BY <1>2, <1>3, <1>4, <1>5, <1>9 DEF TokenInv, TokenEnrolsOnce, t
<1>12. CAInv'
  BY <1>2, <1>5, <1>9 DEF CAInv
<1>13. DiskInv'
  <2> SUFFICES ASSUME NEW k \in Hosts PROVE DiskOk(k)'
    BY DEF DiskInv
  <2>1. CASE k = h
    BY <1>3, <1>6, <1>9, <2>1 DEF DiskOk
  <2>2. CASE k # h
    <3>1. DiskOk(k) /\ enHost'[k] = enHost[k]
      BY <1>9, <2>2 DEF DiskInv
    <3>2. \A e \in Enrolments : enCall[e].at = "recorded" => enCall'[e] = enCall[e]
      BY <1>3, <1>9
    <3>3. enHost[k].crt # 0 => enHost[k].crt \in Enrolments
      BY DEF EnTypes, Machines, Enrolments
    <3> QED
      BY <3>1, <3>2, <3>3 DEF DiskOk
  <2> QED
    BY <2>1, <2>2
<1> QED
  BY <1>10, <1>11, <1>12, <1>13

\* A step of an Enroll call that is not over leaves every host's disk sound.
LEMMA CallStepsKeepDisks ==
    ASSUME EnTypes, DiskInv, enHost' = enHost,
           \A e \in Enrolments : enCall[e].at = "recorded" => enCall'[e].at = "recorded"
    PROVE  DiskInv'
<1> SUFFICES ASSUME NEW h \in Hosts PROVE DiskOk(h)'
  BY DEF DiskInv
<1>1. DiskOk(h)
  BY DEF DiskInv
<1>2. enHost[h].crt # 0 => enHost[h].crt \in Enrolments
  BY DEF EnTypes, Machines, Enrolments
<1> QED
  BY <1>1, <1>2 DEF DiskOk

\* The first transaction: the token is redeemed.
LEMMA EnrollRedeemsKeepsInv ==
    ASSUME EnInv, NEW n \in Enrolments, EnrollRedeems(n)
    PROVE  EnInv'
<1> USE DEF EnInv
<1> DEFINE t == enCall[n].token
           tok == enToken[t]
<1>1. /\ UNCHANGED <<enNode, enHost, enPanel, enBoot, enRows>>
      /\ enCall[n].at = "asked" /\ tok.at = "live"
      /\ enToken' = [enToken EXCEPT ![t].at = "used"]
      /\ enCall' = [enCall EXCEPT ![n].at = "redeemed", ![n].node = tok.node, ![n].row = tok.row]
  BY DEF EnrollRedeems, RedeemEnrollToken
<1>2. t \in Tokens /\ tok \in TokenRows /\ enCall[n] \in CallStates
  BY <1>1 DEF TokenInv, EnTypes
<1> DEFINE c == [enCall[n] EXCEPT !.at = "redeemed", !.node = tok.node, !.row = tok.row]
<1>3. enCall' = [enCall EXCEPT ![n] = c]
  BY <1>1, Zenon
<1>4. /\ c \in CallStates /\ c.at = "redeemed" /\ c.token = t /\ c.ca = enCall[n].ca
  <2>1. tok.node \in 0 .. MaxNodeRows /\ tok.row \in 0 .. MaxNodeRows
    BY <1>2 DEF TokenRows
  <2> HIDE DEF tok
  <2> QED
    BY <1>2, <2>1 DEF CallStates
<1> HIDE DEF c
<1>5. /\ enCall' \in [Enrolments -> CallStates] /\ enCall'[n] = c
      /\ \A k \in Enrolments : k # n => enCall'[k] = enCall[k]
  BY <1>3, <1>4 DEF EnTypes
<1>6. /\ enToken' \in [Tokens -> TokenRows] /\ enToken'[t].at = "used"
      /\ \A k \in Tokens : k # t => enToken'[k] = enToken[k]
  <2>1. [tok EXCEPT !.at = "used"] \in TokenRows /\ [tok EXCEPT !.at = "used"].at = "used"
    BY <1>2 DEF TokenRows
  <2> QED
    BY <1>1, <1>2, <2>1 DEF EnTypes
<1> HIDE DEF t, tok
<1>7. EnTypes' /\ BootInv'
  BY <1>1, <1>5, <1>6 DEF EnTypes, BootInv
<1>8. TokenInv'
  <2>1. \A k \in Enrolments : enCall[k].row # 0 => enCall[k].token \in Tokens /\ enCall[k].token # t
    BY <1>1 DEF TokenInv, tok
  <2>2. \A k \in Enrolments : k # n /\ enCall'[k].row # 0 => enCall'[k].token # t
    BY <1>5, <2>1
  <2>3. enCall'[n].at # "none" /\ enCall'[n].token = t /\ t \in Tokens
    BY <1>2, <1>4, <1>5
  <2>4. TokenEnrolsOnce'
    BY <1>5, <2>2, <2>3 DEF TokenInv, TokenEnrolsOnce
  <2> QED
    BY <1>5, <1>6, <2>1, <2>3, <2>4 DEF TokenInv
<1>9. CAInv'
  BY <1>1, <1>4, <1>5 DEF CAInv
<1>10. DiskInv'
  BY <1>1, <1>5, CallStepsKeepDisks
<1> QED
  BY <1>7, <1>8, <1>9, <1>10

\* The other steps of an Enroll call leave the tokens alone.
LEMMA EnrollStepsKeepInv ==
    ASSUME EnInv, NEW n \in Enrolments, NEW c \in CallStates,
           enCall' = [enCall EXCEPT ![n] = c],
           enCall[n].at \notin {"none", "recorded"}, c.at # "none",
           c.token = enCall[n].token, c.row = enCall[n].row,
           c.at \in {"signed", "recorded"} => c.ca = 1,
           enNode' \in [NodeIds -> NodeRows],
           UNCHANGED <<enToken, enHost, enPanel, enBoot, enRows>>
    PROVE  EnInv'
<1> USE DEF EnInv
<1>1. /\ enCall' \in [Enrolments -> CallStates] /\ enCall'[n] = c
      /\ \A k \in Enrolments : k # n => enCall'[k] = enCall[k]
  BY DEF EnTypes
<1>2. EnTypes' /\ BootInv'
  BY <1>1 DEF EnTypes, BootInv
<1>3. TokenInv'
  <2>1. \A k \in Enrolments : enCall'[k].token = enCall[k].token /\ enCall'[k].row = enCall[k].row
                              /\ (enCall'[k].at = "none" <=> enCall[k].at = "none")
    BY <1>1
  <2> QED
    BY <2>1 DEF TokenInv, TokenEnrolsOnce
<1>4. CAInv'
  BY <1>1 DEF CAInv
<1>5. DiskInv'
  BY <1>1, CallStepsKeepDisks
<1> QED
  BY <1>2, <1>3, <1>4, <1>5

\* So does an Enroll call on the panel.
LEMMA CallStepsKeepInv ==
    ASSUME EnInv, NEW n \in Enrolments,
           EnrollDenied(n) \/ SignNodeCert(n) \/ RecordFingerprint(n) \/ EnrollFails(n)
    PROVE  EnInv'
<1> DEFINE r == enCall[n]
<1>1. r \in CallStates /\ enNode \in [NodeIds -> NodeRows] /\ enPanel.ca \in 0 .. 1
  BY DEF EnInv, EnTypes
<1>2. UNCHANGED <<enToken, enHost, enPanel, enBoot, enRows>>
  BY DEF EnrollDenied, SignNodeCert, RecordFingerprint, EnrollFails
<1>3. CASE EnrollDenied(n) \/ EnrollFails(n)
  <2> DEFINE c == [r EXCEPT !.at = "failed"]
  <2>1. c \in CallStates /\ c.at = "failed" /\ c.token = r.token /\ c.row = r.row
    BY <1>1 DEF CallStates
  <2>2. enCall' = [enCall EXCEPT ![n] = c] /\ r.at \notin {"none", "recorded"} /\ enNode' = enNode
    BY <1>3 DEF EnrollDenied, EnrollFails
  <2> HIDE DEF c
  <2> QED
    BY <1>1, <1>2, <2>1, <2>2, EnrollStepsKeepInv
<1>4. CASE SignNodeCert(n)
  <2> DEFINE c == [r EXCEPT !.at = "signed", !.ca = enPanel.ca]
  <2>1. c \in CallStates /\ c.at = "signed" /\ c.token = r.token /\ c.row = r.row
        /\ c.ca = enPanel.ca
    BY <1>1 DEF CallStates
  <2>2. enCall' = [enCall EXCEPT ![n] = c] /\ r.at \notin {"none", "recorded"} /\ enNode' = enNode
    BY <1>4, Zenon DEF SignNodeCert
  <2>3. enPanel.ca = 1
    BY <2>2 DEF EnInv, CAInv
  <2> HIDE DEF c
  <2> QED
    BY <1>1, <1>2, <2>1, <2>2, <2>3, EnrollStepsKeepInv
<1>5. CASE RecordFingerprint(n)
  <2> DEFINE c == [r EXCEPT !.at = "recorded"]
  <2>1. c \in CallStates /\ c.at = "recorded" /\ c.token = r.token /\ c.row = r.row
        /\ c.ca = r.ca
    BY <1>1 DEF CallStates
  <2>2. enCall' = [enCall EXCEPT ![n] = c] /\ r.at = "signed"
    BY <1>5 DEF RecordFingerprint
  <2>3. r.ca = 1
    BY <2>2 DEF EnInv, CAInv
  <2>4. enNode' \in [NodeIds -> NodeRows]
    <3>1. 0 \in 0 .. MaxEnrolments /\ n \in 0 .. MaxEnrolments
      BY EnrollmentAssumption DEF Enrolments
    <3>2. \A x \in NodeRows, e \in 0 .. MaxEnrolments : [x EXCEPT !.cert = e] \in NodeRows
      BY DEF NodeRows
    <3> DEFINE e == IF enNode[r.node].cert = 0 /\ enNode[r.node].row = 0 THEN 0 ELSE n
    <3>3. e \in 0 .. MaxEnrolments /\ enNode' = [enNode EXCEPT ![r.node].cert = e]
      BY <1>5, <3>1 DEF RecordFingerprint
    <3> HIDE DEF e
    <3> QED
      BY <1>1, <3>2, <3>3
  <2> HIDE DEF c
  <2> QED
    BY <1>1, <1>2, <2>1, <2>2, <2>3, <2>4, EnrollStepsKeepInv
<1> QED
  BY <1>3, <1>4, <1>5

\* Steps that change tokens: none becomes live but one nobody has redeemed.
LEMMA TokenStepsKeepInv ==
    ASSUME EnInv, UNCHANGED <<enCall, enHost, enPanel>>,
           enNode' \in [NodeIds -> NodeRows], enToken' \in [Tokens -> TokenRows],
           enRows' \in 0 .. MaxNodeRows, enBoot' \in Boots, BootInv',
           \A t \in Tokens : enToken[t].at \in {"used", "expired"} =>
                              enToken'[t].at \in {"used", "expired"}
    PROVE  EnInv'
<1> USE DEF EnInv
<1>1. EnTypes'
  BY DEF EnTypes
<1>2. TokenInv' /\ CAInv' /\ DiskInv'
  BY DEF TokenInv, TokenEnrolsOnce, CAInv, DiskInv, DiskOk
<1> QED
  BY <1>1, <1>2

\* The operator creates and deletes nodes.
LEMMA NodeStepsKeepInv ==
    ASSUME EnInv, handleCreateNode \/ \E i \in NodeIds : handleDeleteNode(i)
    PROVE  EnInv'
<1> USE EnrollmentAssumption DEF EnInv
<1>1. UNCHANGED <<enCall, enHost, enPanel, enBoot>> /\ enRows' \in 0 .. MaxNodeRows
  BY DEF handleCreateNode, handleDeleteNode, EnTypes
<1>2. enBoot' \in Boots /\ BootInv'
  BY <1>1 DEF EnTypes, BootInv
<1>3. CASE handleCreateNode
  <2> DEFINE id == IF Present = {} THEN 1 ELSE Max(Present) + 1
             x == [row |-> enRows + 1, cert |-> 0]
  <2>1. enNode' = [enNode EXCEPT ![id] = x] /\ enToken' = enToken
    BY <1>3 DEF handleCreateNode
  <2>2. x \in NodeRows
    BY <1>3 DEF handleCreateNode, EnTypes, NodeRows
  <2> HIDE DEF id, x
  <2> QED
    BY <1>1, <1>2, <2>1, <2>2, TokenStepsKeepInv DEF EnTypes
<1>4. ASSUME NEW i \in NodeIds, handleDeleteNode(i)
      PROVE  EnInv'
  <2> DEFINE Gone(t) == IF enToken[t].at # "none" /\ enToken[t].node = i
                        THEN [enToken[t] EXCEPT !.at = "expired"] ELSE enToken[t]
  <2>1. enNode' = [enNode EXCEPT ![i] = NoNode] /\ enToken' = [t \in Tokens |-> Gone(t)]
    BY <1>4 DEF handleDeleteNode
  <2>2. NoNode \in NodeRows
    BY DEF NoNode, NodeRows
  <2>3. ASSUME NEW t \in Tokens
        PROVE  /\ Gone(t) \in TokenRows
               /\ enToken[t].at \in {"used", "expired"} => Gone(t).at \in {"used", "expired"}
    BY DEF EnTypes, TokenRows
  <2> HIDE DEF Gone
  <2> QED
    BY <1>1, <1>2, <2>1, <2>2, <2>3, TokenStepsKeepInv DEF EnTypes
<1> QED
  BY <1>3, <1>4

\* The operator issues tokens, for a node.yaml or for a bootstrap, and they expire.
LEMMA IssueStepsKeepInv ==
    ASSUME EnInv, \/ \E i \in NodeIds : handleIssueEnrollToken(i) \/ handleSSHBootstrap(i)
                  \/ \E t \in Tokens : TokenExpires(t)
    PROVE  EnInv'
<1> USE EnrollmentAssumption DEF EnInv
<1>1. UNCHANGED <<enNode, enCall, enHost, enPanel, enRows>>
  BY DEF handleIssueEnrollToken, handleSSHBootstrap, TokenExpires
<1>2. enBoot' \in Boots /\ BootInv'
  <2>1. enBoot' = enBoot \/ \E t \in Tokens : enBoot.at = "shown"
                                            /\ enBoot' = [enBoot EXCEPT !.at = "dial", !.token = t]
    BY DEF handleIssueEnrollToken, handleSSHBootstrap, TokenExpires, Unused, EnTypes
  <2>2. \A t \in Tokens : t \in 0 .. MaxTokens
    BY DEF Tokens
  <2>3. \A b \in Boots, t \in 0 .. MaxTokens : /\ [b EXCEPT !.at = "dial", !.token = t] \in Boots
                                            /\ [b EXCEPT !.at = "dial", !.token = t].host = b.host
    BY DEF Boots
  <2>4. enBoot \in Boots
    BY DEF EnTypes
  <2> QED
    BY <2>1, <2>2, <2>3, <2>4 DEF BootInv
<1>3. \E t \in Tokens, x \in TokenRows : /\ enToken' = [enToken EXCEPT ![t] = x]
                                       /\ enToken[t].at \in {"none", "live"}
  <2>1. ASSUME NEW t \in Unused(enToken), NEW i \in NodeIds, IssueEnrollToken(t, i)
        PROVE  \E x \in TokenRows : enToken' = [enToken EXCEPT ![t] = x]
                                  /\ enToken[t].at = "none" /\ t \in Tokens
    <3>1. enNode[i].row \in 0 .. MaxNodeRows /\ i \in 0 .. MaxNodeRows
      BY DEF EnTypes, NodeRows, NodeIds
    <3>2. [at |-> "live", node |-> i, row |-> enNode[i].row] \in TokenRows
      BY <3>1 DEF TokenRows
    <3> QED
      BY <2>1, <3>2 DEF IssueEnrollToken, Unused, EnTypes
  <2>2. ASSUME NEW t \in Tokens, TokenExpires(t)
        PROVE  \E x \in TokenRows : enToken' = [enToken EXCEPT ![t] = x]
                                  /\ enToken[t].at = "live"
    <3>1. [enToken[t] EXCEPT !.at = "expired"] \in TokenRows
      BY DEF EnTypes, TokenRows
    <3> QED
      BY <2>2, <3>1 DEF TokenExpires
  <2> QED
    BY <2>1, <2>2 DEF handleIssueEnrollToken, handleSSHBootstrap
<1>4. /\ enToken' \in [Tokens -> TokenRows]
      /\ \A t \in Tokens : enToken[t].at \in {"used", "expired"} => enToken'[t] = enToken[t]
  BY <1>3 DEF EnTypes
<1> QED
  BY <1>1, <1>2, <1>4, TokenStepsKeepInv DEF EnTypes

\* So does what operators do on the panel.
LEMMA PanelStepsKeepInv ==
    ASSUME EnInv, PanelStart \/ PanelCrash
    PROVE  EnInv'
<1> USE EnrollmentAssumption DEF EnInv
<1>1. enPanel \in [up : BOOLEAN, ca : 0 .. 1]
  BY DEF EnTypes
<1>2. CASE PanelStart
  <2>1. /\ UNCHANGED <<enNode, enToken, enCall, enHost, enBoot, enRows>>
        /\ enPanel' = [up |-> TRUE, ca |-> 1]
    <3>1. enPanel' = [up |-> TRUE, ca |-> IF enPanel.ca = 0 THEN 1 ELSE enPanel.ca]
      BY <1>2 DEF PanelStart, LoadOrCreateCA
    <3>2. (IF enPanel.ca = 0 THEN 1 ELSE enPanel.ca) = 1
      BY <1>1
    <3> QED
      BY <1>2, <3>1, <3>2 DEF PanelStart
  <2>2. EnTypes' /\ BootInv' /\ TokenInv' /\ CAInv'
    BY <2>1 DEF EnTypes, BootInv, TokenInv, TokenEnrolsOnce, CAInv
  <2>3. DiskInv'
    BY <2>1, CallStepsKeepDisks
  <2> QED
    BY <2>2, <2>3
<1>3. CASE PanelCrash
  <2> DEFINE Lost(n) == IF Open(n) THEN [enCall[n] EXCEPT !.at = "failed"] ELSE enCall[n]
  <2>1. /\ UNCHANGED <<enNode, enToken, enHost, enRows>> /\ enBoot' = NoBoot
        /\ enPanel' = [enPanel EXCEPT !.up = FALSE]
        /\ enCall' = [n \in Enrolments |-> Lost(n)]
    BY <1>3 DEF PanelCrash
  <2>2. ASSUME NEW n \in Enrolments
        PROVE  /\ Lost(n) \in CallStates
               /\ Lost(n).token = enCall[n].token /\ Lost(n).row = enCall[n].row
               /\ Lost(n).ca = enCall[n].ca
               /\ Lost(n).at = "none" <=> enCall[n].at = "none"
               /\ enCall[n].at = "recorded" => Lost(n).at = "recorded"
               /\ Lost(n).at \in {"signed", "recorded"} => enCall[n].at \in {"signed", "recorded"}
    BY DEF EnTypes, CallStates, Open
  <2>3. enPanel' \in [up : BOOLEAN, ca : 0 .. 1] /\ enPanel'.ca = enPanel.ca /\ ~ enPanel'.up
    BY <1>1, <2>1
  <2>4. NoBoot \in Boots /\ NoBoot.at = "idle"
    BY DEF NoBoot, Boots
  <2> HIDE DEF Lost
  <2>5. \A n \in Enrolments : enCall'[n] = Lost(n)
    BY <2>1
  <2>6. EnTypes' /\ BootInv'
    BY <2>1, <2>2, <2>3, <2>4 DEF EnTypes, BootInv
  <2>7. TokenInv'
    BY <2>1, <2>2, <2>5 DEF TokenInv, TokenEnrolsOnce
  <2>8. CAInv'
    BY <2>2, <2>3, <2>5 DEF CAInv
  <2>9. DiskInv'
    BY <2>1, <2>2, <2>5, CallStepsKeepDisks
  <2> QED
    BY <2>6, <2>7, <2>8, <2>9
<1> QED
  BY <1>2, <1>3

\* Every step of enrolment keeps the invariant.
LEMMA EnNextKeepsInv == EnInv /\ [EnNext]_enVars => EnInv'
<1> SUFFICES ASSUME EnInv, [EnNext]_enVars PROVE EnInv'
  OBVIOUS
<1>1. CASE UNCHANGED enVars
  BY <1>1 DEF enVars, EnInv, EnTypes, BootInv, TokenInv, TokenEnrolsOnce, CAInv, DiskInv, DiskOk
<1>2. CASE EnNext
  BY <1>2, PanelStepsKeepInv, NodeStepsKeepInv, IssueStepsKeepInv, InstallKeepsInv,
     BootStepsKeepInv, BootstrapKeepsInv, AgentStepsKeepInv, AgentEnrollsKeepsInv,
     EnrollRedeemsKeepsInv, CallStepsKeepInv DEF EnNext
<1> QED
  BY <1>1, <1>2

\* The invariant of enrolment holds in every state.
LEMMA EnInvariant == EnSpec => []EnInv
BY EnInitInv, EnNextKeepsInv, PTL DEF EnSpec

-----------------------------------------------------------------------------
(* Enrolment: what follows from it. *)

\* Type correctness of enrolment: the panel's tables (enroll.go, ca.go), the
\* Enroll calls (enroll_service.go) and the agent's files (agent/enroll.go).
THEOREM EnTypeCorrect == EnSpec => []EnTypeOK
<1>1. EnInv => EnTypeOK
  BY DEF EnInv, EnTypes, EnTypeOK, NodeRows, TokenRows, CallStates, Machines, Boots
<1> QED
  BY <1>1, EnInvariant, PTL

\* RedeemEnrollToken (nodes/enroll.go) lets one Enroll call past each token,
\* however many redeem it at once and whatever fails afterwards.
THEOREM TokensAreRedeemedOnce == EnSpec => []TokenEnrolsOnce
<1>1. EnInv => TokenEnrolsOnce
  BY DEF EnInv, TokenInv
<1> QED
  BY <1>1, EnInvariant, PTL

\* Whenever the agent or the panel dies between the writes of enrolment
\* (agent/enroll.go, loadOrEnroll in main.go), a host with a certificate the
\* panel lists has its key, and both sides trust the CA that signed it.
THEOREM EnrolledHostsCanConnect == EnSpec => []EnrolledHostCanConnect
<1>1. EnInv => EnrolledHostCanConnect
  <2> SUFFICES ASSUME EnInv, NEW h \in Hosts
               PROVE  /\ enHost[h].crt # 0 => enHost[h].key = enHost[h].crt
                      /\ enHost[h].at = "up" =>
                             enHost[h].ca = enPanel.ca /\ enCall[enHost[h].crt].ca = enPanel.ca
    BY DEF EnrolledHostCanConnect
  <2>1. DiskOk(h)
    BY DEF EnInv, DiskInv
  <2>2. enHost[h].crt # 0 => enHost[h].crt \in Enrolments
    BY DEF EnInv, EnTypes, Machines, Enrolments
  <2> QED
    BY <2>1, <2>2 DEF EnInv, CAInv, DiskOk
<1> QED
  BY <1>1, EnInvariant, PTL

-----------------------------------------------------------------------------
(* Enrolment and commands side by side. *)

\* What is explored of the two is what each does on its own.
LEMMA NodeCallsAreBoth == NodeCallsSpec => CmdSpec /\ EnSpec
<1>1. NodeCallsInit => CmdInit /\ EnInit
  BY DEF NodeCallsInit
<1>2. [NodeCallsNext]_nodeCallVars => [CmdNext]_cmdVars /\ [EnNext]_enVars
  BY DEF NodeCallsNext, nodeCallVars
<1> QED
  BY <1>1, <1>2, PTL DEF NodeCallsSpec, CmdSpec, EnSpec

\* In every state of the composed runs the hub, stream handler and agent of a
\* command (hub.go, client.go) and the tables, calls and files of enrolment (ca.go,
\* enroll_service.go, agent/enroll.go) have their types, and each conversation keeps
\* the promises proved of it alone.
THEOREM NodeCallsCorrect ==
    NodeCallsSpec =>
        /\ CommandAtMostOnce
        /\ [](/\ NodeCallsTypeOK
              /\ UpgradeAllOrNothing
              /\ RecordedWasInstalled
              /\ TokenEnrolsOnce
              /\ EnrolledHostCanConnect)
<1>1. CmdTypeOK /\ EnTypeOK => NodeCallsTypeOK
  BY DEF NodeCallsTypeOK
<1> QED
  BY <1>1, NodeCallsAreBoth, CmdTypeCorrect, EnTypeCorrect, CommandsAreAtMostOnceCalls,
     UpgradesAreAllOrNothing, RegistryNamesInstalledFiles, TokensAreRedeemedOnce,
     EnrolledHostsCanConnect, PTL
==============================================================================
