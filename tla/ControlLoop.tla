----------------------------- MODULE ControlLoop -----------------------------
(***************************************************************************)
(* The control loop between the panel and the agent of ONE node:           *)
(*                                                                         *)
(*   - the panel's store rows of the node (nodes, node_revisions) and the  *)
(*     only transaction that moves desired_revision, CommitNodeChange      *)
(*     (internal/panel/nodes/commit.go, snapshot.go, convergence.go,       *)
(*     sweeper.go);                                                        *)
(*   - the in-memory hub and the gRPC stream handlers                      *)
(*     (internal/panel/control/hub.go, control_service.go, server.go);     *)
(*   - the agent's session loop and its reconcile pass                     *)
(*     (internal/node/agent/client.go).                                    *)
(*                                                                         *)
(* A document is the pair of the revision it embeds and its content;       *)
(* SHA-256 over its canonical bytes is taken to be injective, so a hash is *)
(* the document itself.  Every panel write is one step because the store   *)
(* has a single write connection (internal/panel/store/store.go).          *)
(***************************************************************************)
EXTENDS Integers, Sequences, FiniteSets

CONSTANTS
    Contents,       \* what a desired document can say, its revision apart
    Unknown,        \* host state that matches no content (partly applied)
    MaxRevision,    \* bound: revisions issued
    MaxStreams,     \* bound: streams the agent opens, one after the other
    MaxQueue,       \* bound: messages a stream's receiver may lag behind
    Outcomes,       \* outcomes of a Converge pass the host may produce
    AgentVersions,  \* subset of {"same", "other"}: the agent's protocol
    SubjectWrites,  \* BOOLEAN: subject rows change outside CommitNodeChange
    StoreFaults,    \* BOOLEAN: transactions fail, the panel crashes
    AdminActions,   \* BOOLEAN: maintenance, disable, enable, sync requests
    HealthTraffic   \* BOOLEAN: heartbeats, and the sweeper that misses them

ASSUME ContentsAssumption == Contents # {} /\ Unknown \notin Contents
ASSUME BoundsAssumption ==
    /\ MaxRevision \in Nat \ {0}
    /\ MaxStreams \in Nat \ {0}
    /\ MaxQueue \in Nat \ {0}
ASSUME OutcomesAssumption ==
    Outcomes \subseteq {"converged", "deferred", "failed", "partial"}
ASSUME VersionsAssumption == AgentVersions \subseteq {"same", "other"}
ASSUME SwitchesAssumption ==
    {SubjectWrites, StoreFaults, AdminActions, HealthTraffic} \subseteq BOOLEAN

Streams == 1 .. MaxStreams

\* The canonical document, hence also its hash.
Doc(r, c) == [rev |-> r, content |-> c]
Docs == [rev : Nat, content : Contents]

Statuses == {"pending", "enrolling", "online", "degraded", "offline",
             "maintenance", "error", "disabled", "integrity"}

\* AgentMessage payloads; TargetRevision and DocSha256 of an ApplyReport both
\* come from the fetched snapshot, so the report carries the document.
Hello(v) == [type |-> "Hello", version |-> v]
Heartbeat == [type |-> "Heartbeat"]
Report(d, o) == [type |-> "ApplyReport", doc |-> d, outcome |-> o]
AgentMessages ==
    [type : {"Hello"}, version : {"same", "other"}]
        \cup {Heartbeat}
        \cup [type : {"ApplyReport"}, doc : Docs, outcome : Outcomes]

\* PanelMessage payloads: RevisionBump and FetchNow are handled alike.
PanelMessages == {"RevisionBump", "FetchNow", "UpgradeRequired"}

VARIABLES
    live,       \* content BuildDesiredSnapshot would assemble from the rows
    desired,    \* nodes.desired_revision
    revisions,  \* node_revisions.doc_sha256, by revision
    applied,    \* nodes.applied_revision
    status,     \* nodes.status
    maint,      \* nodes.maintenance_mode
    seen,       \* is last_seen_at within the offline threshold?
    owed,       \* a subject write whose republish has not run yet
    notices,    \* number of commits whose Hub.Notify call has not run yet
    conn,       \* the stream registered in the hub, 0 for none
    closed,     \* streams whose hub channels have been closed
    bump,       \* streams whose bump channel (capacity 1) is full
    srv,        \* state of each stream's handler on the panel
    cut,        \* streams whose transport is gone
    up,         \* agent -> panel messages of each stream
    down,       \* panel -> agent messages of each stream
    sess,       \* the agent's current stream, 0 while it backs off
    pc,         \* where the agent's session loop is
    snap,       \* the snapshot the agent is converging on
    host,       \* what the node's adapters actually enforce
    opened,     \* streams opened so far
    confirmed,  \* history: issued documents a pass confirmed on the host
    unasked,    \* history: told of a revision, no fetch attempted since
    wrote       \* history: subject rows have changed outside a commit

storeVars == <<live, desired, revisions, applied, status, maint, seen>>
pendingVars == <<owed, notices>>
hubVars == <<conn, closed, bump>>
streamVars == <<srv, cut, up, down>>
agentVars == <<sess, pc, snap, host, opened>>
historyVars == <<confirmed, unasked, wrote>>
vars == <<storeVars, pendingVars, hubVars, streamVars, agentVars, historyVars>>

NoSnapshot == [rev |-> -1, content |-> Unknown]

\* An enrolled node: its certificate fingerprint is recorded, its status is
\* 'enrolling', nothing has been committed and no stream is open.
Init ==
    /\ live \in Contents
    /\ desired = 0
    /\ revisions = <<>>
    /\ applied = 0
    /\ status = "enrolling"
    /\ maint = FALSE
    /\ seen = FALSE
    /\ owed = FALSE
    /\ notices = 0
    /\ conn = 0
    /\ closed = {}
    /\ bump = {}
    /\ srv = [s \in Streams |-> "none"]
    /\ cut = {}
    /\ up = [s \in Streams |-> <<>>]
    /\ down = [s \in Streams |-> <<>>]
    /\ sess = 0
    /\ pc = "idle"
    /\ snap = NoSnapshot
    /\ host = Unknown
    /\ opened = 0
    /\ confirmed = {}
    /\ unasked = FALSE
    /\ wrote = FALSE

-----------------------------------------------------------------------------
(***************************************************************************)
(* The panel's write transactions on desired state.                        *)
(***************************************************************************)

\* The documents whose hashes the panel has recorded.
Issued == {revisions[r] : r \in DOMAIN revisions}

BuildDesiredSnapshot(c) == Doc(desired, c)

\* Mutant of CommitNodeChange: no comparison with the last revision.
CommitWithoutNoOpCheck(c, notify) ==
    /\ live' = c
    /\ desired < MaxRevision
    /\ desired' = desired + 1
    /\ revisions' = Append(revisions, Doc(desired + 1, c))
    /\ notices' = IF notify THEN notices + 1 ELSE notices

\* Mutant of CommitNodeChange: the hash recorded is the one computed before
\* the bump, of a document that embeds the previous revision.
CommitWithoutRebuild(c, notify) ==
    /\ live' = c
    /\ desired < MaxRevision
    /\ desired' = desired + 1
    /\ revisions' = Append(revisions, BuildDesiredSnapshot(c))
    /\ notices' = IF notify THEN notices + 1 ELSE notices

\* The body of CommitNodeChange once the mutation left content c: a document
\* equal to the last revision's changes nothing, any other becomes the next
\* revision.  The caller notifies the hub after the transaction.
CommitNodeChange(c, notify) ==
    /\ live' = c
    /\ IF revisions # <<>> /\ revisions[Len(revisions)] = BuildDesiredSnapshot(c)
       THEN UNCHANGED <<desired, revisions, notices>>
       ELSE /\ desired < MaxRevision
            /\ desired' = desired + 1
            /\ revisions' = Append(revisions, Doc(desired + 1, c))
            /\ notices' = IF notify THEN notices + 1 ELSE notices

\* POST/PUT/DELETE of a service: the mutation runs inside the commit and the
\* handler notifies (TRUE).  The egress handlers (outbounds, routing rules,
\* balancers, DNS) and the quota sweepers drop the result and never notify
\* (FALSE); the agent's reconcile timer is what picks those up.
ChangeService ==
    /\ \E c \in Contents, notify \in BOOLEAN : CommitNodeChange(c, notify)
    /\ UNCHANGED <<applied, status, maint, seen, owed, hubVars, streamVars,
                   agentVars, historyVars>>

\* A write of subject rows: its transaction commits on its own, and the
\* republish of the node follows in another (service.Subjects.mutate, the
\* expiry sweeper).  Time passing an expires_at is the same step.
WriteSubject ==
    /\ SubjectWrites /\ desired < MaxRevision
    /\ \E c \in Contents \ {live} : live' = c
    /\ owed' = TRUE
    /\ wrote' = TRUE
    /\ UNCHANGED <<desired, revisions, applied, status, maint, seen, notices,
                   hubVars, streamVars, agentVars, confirmed, unasked>>

Republish ==
    /\ owed
    /\ owed' = FALSE
    /\ CommitNodeChange(live, TRUE)
    /\ UNCHANGED <<applied, status, maint, seen, hubVars, streamVars,
                   agentVars, historyVars>>

\* The republish transaction fails: the sweeper logs it and moves on, the
\* admin request returns the error.  Nothing retries it.
RepublishFails ==
    /\ StoreFaults
    /\ owed
    /\ owed' = FALSE
    /\ UNCHANGED <<storeVars, notices, hubVars, streamVars, agentVars,
                   historyVars>>

-----------------------------------------------------------------------------
(***************************************************************************)
(* The hub.                                                                *)
(***************************************************************************)

\* Deliver a bump to the registered stream; a full buffer drops it.  Which
\* revision it names is immaterial, the agent reads none of it.
HubNotify ==
    /\ bump' = IF conn # 0 THEN bump \cup {conn} ELSE bump
    /\ unasked' = TRUE

Notify ==
    /\ notices > 0
    /\ notices' = notices - 1
    /\ HubNotify
    /\ UNCHANGED <<storeVars, owed, conn, closed, streamVars, agentVars,
                   confirmed, wrote>>

\* A second Register supersedes the first by closing its channels.
HubRegister(s) ==
    /\ conn' = s
    /\ closed' = IF conn # 0 THEN closed \cup {conn} ELSE closed
    /\ UNCHANGED bump

\* Mutant of HubRelease: deletes whatever is registered for the node.
ReleaseAnyStream(s) ==
    /\ conn' = 0
    /\ closed' = closed \cup {s}

\* Mutant of HubRelease: closes the channels but keeps them registered.
ReleaseKeepsEntry(s) ==
    /\ UNCHANGED conn
    /\ closed' = closed \cup {s}

\* The release function of stream s: a superseded stream, whose channels are
\* closed already, leaves the registration of its successor alone.
HubRelease(s) ==
    /\ conn' = IF conn = s THEN 0 ELSE conn
    /\ closed' = closed \cup {s}

-----------------------------------------------------------------------------
(***************************************************************************)
(* The handler of a stream on the panel.                                   *)
(***************************************************************************)

\* VerifyPeer consults the certificate fingerprint alone, then comes Register.
\* Nothing looks at the transport in between: the handler of a stream the agent
\* has long given up may register late, over its successor.  (Within the
\* bound, not over the last stream.)
AcceptStream(s) ==
    /\ srv[s] = "new"
    /\ s \in cut => opened < MaxStreams
    /\ srv' = [srv EXCEPT ![s] = "open"]
    /\ HubRegister(s)
    /\ UNCHANGED <<storeVars, pendingVars, cut, up, down, agentVars,
                   historyVars>>

SendBump(s) ==
    /\ srv[s] = "open" /\ s \in bump /\ Len(down[s]) < MaxQueue
    /\ bump' = bump \ {s}
    /\ down' = [down EXCEPT ![s] = Append(@, "RevisionBump")]
    /\ UNCHANGED <<storeVars, pendingVars, conn, closed, srv, cut, up,
                   agentVars, historyVars>>

\* The handler returns and its deferred release runs.  Whatever the stream
\* still held in either direction is gone with it.
EndHandler(s) ==
    /\ srv' = [srv EXCEPT ![s] = "done"]
    /\ up' = [up EXCEPT ![s] = <<>>]
    /\ bump' = bump \ {s}
    /\ HubRelease(s)
    /\ UNCHANGED <<storeVars, pendingVars, cut, down, agentVars, historyVars>>

\* A superseded handler reads a closed channel and aborts; the select may
\* still serve queued messages or a buffered bump first.
Superseded(s) == srv[s] = "open" /\ s \in closed /\ EndHandler(s)

\* The transport is gone and the handler finds out.
HandlerSeesCut(s) == srv[s] \in {"new", "open"} /\ s \in cut /\ EndHandler(s)

\* A handler's store write fails: the error ends the stream.
HandlerFails(s) ==
    /\ StoreFaults /\ s < MaxStreams
    /\ srv[s] = "open" /\ up[s] # <<>>
    /\ EndHandler(s)

\* Mutant of RecordHello: a node that was offline stays offline.
RecordHelloFirstTimeOnly ==
    /\ status' = IF status \in {"pending", "enrolling"} THEN "online" ELSE status
    /\ seen' = TRUE
    /\ UNCHANGED <<live, desired, revisions, applied, maint>>

\* RecordHello: nodes that were waiting for the agent come online.
RecordHello ==
    /\ status' = IF status \in {"pending", "enrolling", "offline"}
                 THEN "online" ELSE status
    /\ seen' = TRUE
    /\ UNCHANGED <<live, desired, revisions, applied, maint>>

RecordHeartbeat ==
    /\ status' = IF status = "offline" THEN "online" ELSE status
    /\ seen' = TRUE
    /\ UNCHANGED <<live, desired, revisions, applied, maint>>

\* Mutant of RecordApplyRun: the reported hash is not compared.
RecordApplyRunWithoutHash(d, outcome) ==
    /\ status' = IF outcome \in {"deferred", "converged"} THEN "online" ELSE "degraded"
    /\ applied' = IF outcome = "converged" THEN d.rev ELSE applied
    /\ UNCHANGED <<live, desired, revisions, maint, seen>>

\* Mutant of RecordApplyRun: a failed run leaves last_error but no status.
RecordApplyRunClearsStatus(d, outcome) ==
    /\ status' = IF outcome \in {"deferred", "converged"} THEN "online" ELSE ""
    /\ applied' = IF outcome = "converged" THEN d.rev ELSE applied
    /\ UNCHANGED <<live, desired, revisions, maint, seen>>

\* RecordApplyRun: decides the node's state from one report.  Revision 0 has
\* no row and converges on nothing.
RecordApplyRun(d, outcome) ==
    LET known == d.rev \in DOMAIN revisions
        unissued == outcome = "converged" /\ d.rev > 0 /\ ~known
        mismatch == outcome = "converged" /\ known /\ d # revisions[d.rev]
        integrity == unissued \/ mismatch
        advance == outcome = "converged" /\ ~integrity
    IN  /\ status' = IF integrity THEN "integrity"
                     ELSE IF outcome \in {"deferred", "converged"} THEN "online"
                     ELSE "degraded"
        /\ applied' = IF advance THEN d.rev ELSE applied
        /\ UNCHANGED <<live, desired, revisions, maint, seen>>

\* One message of the stream, handled to the end.
Handle(s) ==
    /\ srv[s] = "open" /\ up[s] # <<>>
    /\ up' = [up EXCEPT ![s] = Tail(@)]
    /\ LET m == Head(up[s]) IN
       \/ /\ m.type = "Hello" /\ m.version = "same"
          /\ RecordHello
          /\ down' = [down EXCEPT ![s] = Append(@, "FetchNow")]
       \/ /\ m.type = "Hello" /\ m.version # "same"
          /\ down' = [down EXCEPT ![s] = Append(@, "UpgradeRequired")]
          /\ UNCHANGED storeVars
       \/ m.type = "Heartbeat" /\ RecordHeartbeat /\ UNCHANGED down
       \/ m.type = "ApplyReport" /\ RecordApplyRun(m.doc, m.outcome) /\ UNCHANGED down
    /\ UNCHANGED <<pendingVars, hubVars, srv, cut, agentVars, historyVars>>

-----------------------------------------------------------------------------
(***************************************************************************)
(* Admin requests and the offline sweeper.                                 *)
(***************************************************************************)

SetMaintenance(enable) ==
    /\ AdminActions
    /\ maint' = enable
    /\ status' = IF enable THEN "maintenance" ELSE "online"
    /\ UNCHANGED <<live, desired, revisions, applied, seen, pendingVars,
                   hubVars, streamVars, agentVars, historyVars>>

DisableNode ==
    /\ AdminActions
    /\ status' = "disabled"
    /\ UNCHANGED <<live, desired, revisions, applied, maint, seen,
                   pendingVars, hubVars, streamVars, agentVars, historyVars>>

EnableNode ==
    /\ AdminActions
    /\ status = "disabled"
    /\ status' = "pending"
    /\ UNCHANGED <<live, desired, revisions, applied, maint, seen,
                   pendingVars, hubVars, streamVars, agentVars, historyVars>>

\* POST /nodes/{id}/sync pushes the current revision through the hub.
SyncNode ==
    /\ AdminActions
    /\ HubNotify
    /\ UNCHANGED <<storeVars, pendingVars, conn, closed, streamVars,
                   agentVars, confirmed, wrote>>

\* No message for three heartbeat intervals.
GoStale ==
    /\ HealthTraffic
    /\ seen
    /\ seen' = FALSE
    /\ UNCHANGED <<live, desired, revisions, applied, status, maint,
                   pendingVars, hubVars, streamVars, agentVars, historyVars>>

Sweep ==
    /\ HealthTraffic
    /\ status \in {"online", "degraded"} /\ ~seen
    /\ status' = "offline"
    /\ UNCHANGED <<live, desired, revisions, applied, maint, seen,
                   pendingVars, hubVars, streamVars, agentVars, historyVars>>

-----------------------------------------------------------------------------
(***************************************************************************)
(* The agent's session loop.                                               *)
(***************************************************************************)

\* session: open a stream and send Hello first.  (Within the bound, the last
\* stream is one that neither breaks nor meets a version skew.)
Dial(v) ==
    /\ sess = 0 /\ pc = "idle" /\ opened < MaxStreams
    /\ v = "other" => opened + 1 < MaxStreams
    /\ opened' = opened + 1
    /\ sess' = opened + 1
    /\ srv' = [srv EXCEPT ![opened + 1] = "new"]
    /\ up' = [up EXCEPT ![opened + 1] = <<Hello(v)>>]
    /\ unasked' = TRUE
    /\ UNCHANGED <<storeVars, pendingVars, hubVars, cut, down, pc, snap, host,
                   confirmed, wrote>>

\* What the agent sends reaches the panel unless the stream is dead.
SendUp(m) ==
    up' = IF srv[sess] = "done" \/ sess \in cut
          THEN up ELSE [up EXCEPT ![sess] = Append(@, m)]

\* The loop is at its select.  Sends do not block (the transport's window holds
\* thousands of these messages); the bound is on how far the panel may lag.
AtSelect == sess # 0 /\ pc = "idle" /\ Len(up[sess]) < MaxQueue

\* runSession returns: the stream's context is cancelled and what it had still
\* to deliver to the agent is dropped.
CloseSession ==
    /\ cut' = cut \cup {sess}
    /\ down' = [down EXCEPT ![sess] = <<>>]
    /\ sess' = 0

\* A bump or FetchNow starts a reconcile pass; UpgradeRequired ends the
\* session and the agent reconnects.
Receive ==
    /\ AtSelect /\ down[sess] # <<>>
    /\ IF Head(down[sess]) = "UpgradeRequired"
       THEN CloseSession /\ UNCHANGED pc
       ELSE /\ pc' = "fetch"
            /\ down' = [down EXCEPT ![sess] = Tail(@)]
            /\ UNCHANGED <<cut, sess>>
    /\ UNCHANGED <<storeVars, pendingVars, hubVars, srv, up, snap, host,
                   opened, historyVars>>

\* Mutant of ReconcileTimer: not re-armed once a wake-up has been answered.
TimerFiresBeforeFirstFetchOnly ==
    /\ AtSelect /\ unasked
    /\ pc' = "fetch"
    /\ UNCHANGED <<storeVars, pendingVars, hubVars, streamVars, sess, snap,
                   host, opened, historyVars>>

ReconcileTimer ==
    /\ AtSelect
    /\ pc' = "fetch"
    /\ UNCHANGED <<storeVars, pendingVars, hubVars, streamVars, sess, snap,
                   host, opened, historyVars>>

HeartbeatTimer ==
    /\ HealthTraffic
    /\ AtSelect /\ sess \notin cut /\ srv[sess] # "done"
    /\ SendUp(Heartbeat)
    /\ UNCHANGED <<storeVars, pendingVars, hubVars, srv, cut, down, agentVars,
                   historyVars>>

\* GetDesiredSnapshot builds the document from the rows of this moment and
\* labels it with the desired_revision of this moment.
FetchSnapshot ==
    /\ pc = "fetch"
    /\ snap' = BuildDesiredSnapshot(live)
    /\ unasked' = FALSE
    /\ pc' = "converge"
    /\ UNCHANGED <<storeVars, pendingVars, hubVars, streamVars, sess, host,
                   opened, confirmed, wrote>>

\* The call fails; the pass is logged and given up until the next wake-up.
FetchFails ==
    /\ StoreFaults
    /\ pc = "fetch"
    /\ unasked' = FALSE
    /\ pc' = "idle"
    /\ UNCHANGED <<storeVars, pendingVars, hubVars, streamVars, sess, snap,
                   host, opened, confirmed, wrote>>

\* Converge runs to one of its outcomes and the pass reports it.  Only a
\* confirmed pass is known to have left the host in the document's state.
Converge(outcome) ==
    /\ pc = "converge"
    /\ IF outcome = "converged"
       THEN /\ host' = snap.content
            /\ confirmed' = confirmed \cup ({snap} \cap Issued)
       ELSE host' \in {host, Unknown} /\ UNCHANGED confirmed
    /\ SendUp(Report(snap, outcome))
    /\ pc' = "idle"
    /\ snap' = NoSnapshot
    /\ UNCHANGED <<storeVars, pendingVars, hubVars, srv, cut, down, sess,
                   opened, unasked, wrote>>

\* The receive goroutine's error reaches the loop; the session is over.
SessionError ==
    /\ sess # 0 /\ pc = "idle"
    /\ srv[sess] = "done" \/ sess \in cut
    /\ CloseSession
    /\ UNCHANGED <<storeVars, pendingVars, hubVars, srv, up, pc, snap, host,
                   opened, historyVars>>

\* The connection breaks; each side finds out on its own.
NetworkBreaks ==
    /\ sess # 0 /\ sess < MaxStreams /\ sess \notin cut
    /\ cut' = cut \cup {sess}
    /\ UNCHANGED <<storeVars, pendingVars, hubVars, srv, up, down, agentVars,
                   historyVars>>

\* The agent's process dies and is restarted: it keeps no record of what it
\* applied, so only the host survives.
AgentRestart ==
    /\ sess # 0 /\ sess < MaxStreams
    /\ CloseSession
    /\ pc' = "idle"
    /\ snap' = NoSnapshot
    /\ host' \in IF pc = "converge" THEN {host, Unknown} ELSE {host}
    /\ UNCHANGED <<storeVars, pendingVars, hubVars, srv, up, opened,
                   historyVars>>

\* The panel's process dies and is restarted: the hub and the handlers are
\* gone, and so are calls between a commit and what should follow it.
PanelRestart ==
    /\ StoreFaults /\ opened < MaxStreams
    /\ owed' = FALSE
    /\ notices' = 0
    /\ conn' = 0
    /\ closed' = 1 .. opened
    /\ bump' = {}
    /\ srv' = [s \in Streams |-> IF srv[s] = "none" THEN "none" ELSE "done"]
    /\ cut' = 1 .. opened
    /\ up' = [s \in Streams |-> <<>>]
    /\ UNCHANGED <<storeVars, down, agentVars, historyVars>>

-----------------------------------------------------------------------------
Next ==
    \/ ChangeService \/ WriteSubject \/ Republish \/ RepublishFails
    \/ Notify
    \/ \E s \in Streams :
         \/ AcceptStream(s) \/ SendBump(s) \/ Handle(s)
         \/ Superseded(s) \/ HandlerSeesCut(s) \/ HandlerFails(s)
    \/ \E enable \in BOOLEAN : SetMaintenance(enable)
    \/ DisableNode \/ EnableNode \/ SyncNode
    \/ GoStale \/ Sweep
    \/ \E v \in AgentVersions : Dial(v)
    \/ Receive \/ ReconcileTimer \/ HeartbeatTimer
    \/ FetchSnapshot \/ FetchFails
    \/ \E o \in Outcomes : Converge(o)
    \/ SessionError \/ NetworkBreaks \/ AgentRestart \/ PanelRestart

\* Timers fire, handlers run and calls that can complete do; that a notice is
\* ever delivered is not assumed.  The agent's loop leaves its select for every
\* pass, so its cases need strong fairness, which Go's random choice among
\* ready cases provides; a fetch or an apply attempted for ever succeeds in the
\* end.  Nothing is assumed of admins.
Fairness ==
    /\ WF_vars(Republish)
    /\ \A s \in Streams :
         WF_vars(AcceptStream(s) \/ SendBump(s) \/ Handle(s) \/ Superseded(s)
                    \/ HandlerSeesCut(s))
    /\ WF_vars(\E v \in AgentVersions : Dial(v))
    /\ SF_vars(Receive) /\ SF_vars(SessionError) /\ WF_vars(ReconcileTimer)
    /\ SF_vars(FetchSnapshot)
    /\ SF_vars("converged" \in Outcomes /\ Converge("converged"))

Spec == Init /\ [][Next]_vars
FairSpec == Spec /\ Fairness

-----------------------------------------------------------------------------
(***************************************************************************)
(* Properties.                                                             *)
(***************************************************************************)

\* Every variable has the type its column, channel or message declares.
TypeOK ==
    /\ live \in Contents
    /\ desired \in Nat
    /\ revisions \in Seq(Docs)
    /\ applied \in Nat
    /\ status \in Statuses
    /\ maint \in BOOLEAN
    /\ seen \in BOOLEAN
    /\ owed \in BOOLEAN
    /\ notices \in Nat
    /\ conn \in {0} \cup Streams
    /\ closed \in SUBSET Streams
    /\ bump \in SUBSET Streams
    /\ srv \in [Streams -> {"none", "new", "open", "done"}]
    /\ cut \in SUBSET Streams
    /\ up \in [Streams -> Seq(AgentMessages)]
    /\ down \in [Streams -> Seq(PanelMessages)]
    /\ sess \in {0} \cup Streams
    /\ pc \in IF sess = 0 THEN {"idle"} ELSE {"idle", "fetch", "converge"}
    /\ snap \in IF pc = "converge" THEN Docs ELSE {NoSnapshot}
    /\ host \in Contents \cup {Unknown}
    /\ opened \in 0 .. MaxStreams
    /\ confirmed \in SUBSET Docs
    /\ unasked \in BOOLEAN
    /\ wrote \in BOOLEAN

\* Invariants 1, 2 and 4 of CommitNodeChange: the revision rows are exactly
\* 1 .. desired_revision, each row's hash is that of a document labelled with
\* the row's own revision, and no revision repeats its predecessor's content.
RevisionLog ==
    /\ Len(revisions) = desired
    /\ \A r \in 1 .. desired : revisions[r].rev = r
    /\ \A r \in 1 .. desired - 1 :
         revisions[r].content # revisions[r + 1].content

\* Invariants 6 and 7 (RecordApplyRun): whatever streams are superseded, cut
\* or answered late, applied_revision names a revision the panel issued and
\* whose very document some Converge pass confirmed on the host.
AppliedWasConfirmed ==
    applied > 0 => applied \in DOMAIN revisions /\ revisions[applied] \in confirmed

\* The rows of a node implement DesiredState: however commits, reports, restarts
\* and superseded streams interleave, a revision once issued keeps its content
\* and is followed by a different one (CommitNodeChange), and applied_revision
\* only moves to a revision that a pass has confirmed before (RecordApplyRun).
State == INSTANCE DesiredState
             WITH issued <- [r \in DOMAIN revisions |-> revisions[r].content],
                  confirmed <- {d.rev : d \in confirmed}
ImplementsDesiredState == State!StateSpec

\* As long as every change of the rows has gone through CommitNodeChange, an
\* honest agent never trips the integrity fault of RecordApplyRun, however stale the
\* snapshot it reports on.
NoFalseAlarm == ~wrote => status # "integrity"

\* Notify never sends on a closed channel: the stream registered
\* in the hub has a live handler and open channels.
RegisteredStreamIsLive == conn # 0 => srv[conn] = "open" /\ conn \notin closed

\* Hub.Notify may drop a bump "because the agent will fetch the latest
\* snapshot anyway": while its stream is served, an agent that has not yet
\* asked for a revision the hub was told of has a wake-up on its way.  The one
\* exception is a stream whose channels are closed: a late handler of an older
\* stream has registered over it and takes the bumps, but then this stream's
\* handler has nothing left to do but end, and the agent starts over with Hello.
WakeUpPending(s) ==
    \/ s \in bump
    \/ down[s] # <<>>
    \/ pc = "fetch"
    \/ \E i \in 1 .. Len(up[s]) : up[s][i].type = "Hello"
NoLostWakeUp ==
    (sess # 0 /\ srv[sess] = "open" /\ unasked) =>
        WakeUpPending(sess) \/ sess \in closed

\* Once the rows stop changing, the node converges on them for good, whoever
\* was notified and whichever handler has registered over the agent's stream:
\* the revision applied is the one desired and the host enforces the rows.
EventuallyConverged ==
    (<>[][live' = live]_live) => <>[](applied = desired /\ host = live)

\* A node the panel has heard from within the threshold is not shown offline,
\* whichever of Hello, heartbeat, report, sweep and admin request came last.
OfflineMeansSilent == status = "offline" => ~seen

-----------------------------------------------------------------------------
(***************************************************************************)
(* The strengthenings that make the safety properties inductive.           *)
(***************************************************************************)

\* What is in flight is no newer than the store, and a report of convergence
\* on an issued document stands for a confirmed one.
ReportIsSound(m) ==
    m.type = "ApplyReport" =>
        /\ m.doc.rev <= desired
        /\ (m.outcome = "converged" /\ m.doc \in Issued) => m.doc \in confirmed
InFlightIsSound ==
    /\ snap.rev <= desired
    /\ \A s \in Streams : \A i \in 1 .. Len(up[s]) : ReportIsSound(up[s][i])

\* Without writes outside the commit, the rows, the snapshot being applied and
\* every report still to be handled carry issued documents.
ReportIsIssued(m) == (m.type = "ApplyReport" /\ m.doc.rev > 0) => m.doc \in Issued
OnlyIssuedDocuments ==
    ~wrote =>
        /\ desired > 0 => revisions[desired].content = live
        /\ snap.rev > 0 => snap \in Issued
        /\ \A s \in Streams : \A i \in 1 .. Len(up[s]) : ReportIsIssued(up[s][i])

\* The agent's stream is the last one opened, all others are cut; only an
\* accepted stream has been registered, and the agent's is the one in the hub
\* unless another has been registered over it.
OneStreamCounts ==
    /\ sess # 0 => sess = opened
    /\ \A s \in Streams :
         /\ srv[s] = "none" <=> s > opened
         /\ (s <= opened /\ s # sess) => s \in cut
         /\ srv[s] \in {"none", "new"} => s \notin closed
    /\ (sess # 0 /\ srv[sess] = "open" /\ sess \notin closed) => conn = sess

\* A stream that is not accepted yet still holds its Hello, and until it is
\* superseded or its handler ends a wake-up is pending on it.
HelloComesFirst ==
    \A s \in Streams : srv[s] = "new" => Len(up[s]) > 0 /\ up[s][1].type = "Hello"
WakeUpOnItsWay ==
    (sess # 0 /\ srv[sess] \in {"new", "open"} /\ sess \notin closed /\ unasked) =>
        WakeUpPending(sess)

-----------------------------------------------------------------------------
(***************************************************************************)
(* What the repository says of the program and the program does not do.    *)
(***************************************************************************)

\* BuildDesiredSnapshot: "a document can never be labelled with a revision
\* that does not describe it" (snapshot.go:60): the document the agent got is
\* the one recorded for the revision on its label.
LabelDescribesDocument ==
    (pc = "converge" /\ snap.rev > 0) => snap = revisions[snap.rev]

\* Design 7.5: "Disabled - administratively suspended; the stream is refused".
DisabledStreamIsRefused ==
    [][\A s \in Streams :
         (srv[s] = "new" /\ srv'[s] = "open") => status # "disabled"]_vars

\* The table of ValidateTransition (state_machine.go).
ValidTransitions ==
    [pending     |-> {"enrolling", "disabled"},
     enrolling   |-> {"online", "error", "disabled"},
     online      |-> {"degraded", "offline", "maintenance", "error", "disabled",
                      "integrity"},
     degraded    |-> {"online", "offline", "maintenance", "error", "disabled"},
     offline     |-> {"online", "degraded", "maintenance", "disabled"},
     maintenance |-> {"online", "degraded", "offline", "disabled"},
     error       |-> {"online", "degraded", "offline", "maintenance", "disabled"},
     disabled    |-> {"online", "degraded", "offline", "maintenance"},
     integrity   |-> {"online", "degraded", "offline", "maintenance", "disabled"}]

\* Every change of nodes.status is one the transition table of
\* state_machine.go allows.
TransitionsFollowTable ==
    [][status' \in ValidTransitions[status]]_status

\* The expiry sweeper on a node whose republish failed: "the panel is correct
\* even if this node is briefly stale" (sweeper.go:118): once the rows stop
\* changing, the recorded document becomes the one the rows describe.
StaleOnlyBriefly ==
    (<>[][live' = live]_live) =>
        <>[](desired > 0 => revisions[desired].content = live)
=============================================================================
