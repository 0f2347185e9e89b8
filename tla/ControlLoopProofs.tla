-------------------------- MODULE ControlLoopProofs --------------------------
(***************************************************************************)
(* Proofs about the control loop, for every set of contents and every      *)
(* bound on revisions, streams and queues.                                 *)
(***************************************************************************)
EXTENDS ControlLoop, SequenceTheorems, TLAPS

-----------------------------------------------------------------------------
(* Facts about the constants and the message sets. *)

\* The messages an agent builds are agent messages.
LEMMA MessageFacts ==
    /\ \A v \in {"same", "other"} : Hello(v) \in AgentMessages
    /\ Heartbeat \in AgentMessages
    /\ \A d \in Docs, o \in Outcomes : Report(d, o) \in AgentMessages
BY DEF Hello, Heartbeat, Report, AgentMessages

\* Streams are positive numbers up to the bound.
LEMMA StreamFacts ==
    /\ Streams \subseteq Nat
    /\ 0 \notin Streams
    /\ \A k \in 0 .. MaxStreams : k < MaxStreams => k + 1 \in Streams
    /\ \A k \in 0 .. MaxStreams : 1 .. k \subseteq Streams
BY BoundsAssumption DEF Streams

\* A document with a natural revision and a content is a document.
LEMMA DocFacts ==
    \A n \in Nat, c \in Contents :
        Doc(n, c) \in Docs /\ Doc(n, c).rev = n /\ Doc(n, c).content = c
BY DEF Doc, Docs

-----------------------------------------------------------------------------
(* Type correctness. *)

\* Every step of the specification keeps the types.
LEMMA TypeStep == TypeOK /\ [Next]_vars => TypeOK'
<1> SUFFICES ASSUME TypeOK, [Next]_vars PROVE TypeOK'
  OBVIOUS
<1> USE DEF storeVars, pendingVars, hubVars, streamVars, agentVars, historyVars
<1>com. ASSUME NEW c \in Contents, NEW notify \in BOOLEAN, CommitNodeChange(c, notify)
        PROVE  /\ live' \in Contents /\ desired' \in Nat
               /\ revisions' \in Seq(Docs) /\ notices' \in Nat
  <2>1. Doc(desired + 1, c) \in Docs
    BY DocFacts DEF TypeOK
  <2>2. Append(revisions, Doc(desired + 1, c)) \in Seq(Docs)
    BY <2>1, AppendProperties DEF TypeOK
  <2>3. desired + 1 \in Nat /\ notices + 1 \in Nat
    BY DEF TypeOK
  <2> QED
    BY <1>com, <2>2, <2>3 DEF TypeOK, CommitNodeChange
<1>up. ASSUME NEW m \in AgentMessages, sess # 0, SendUp(m)
       PROVE  up' \in [Streams -> Seq(AgentMessages)]
  <2>1. sess \in Streams
    BY <1>up DEF TypeOK
  <2>2. Append(up[sess], m) \in Seq(AgentMessages)
    BY <2>1, AppendProperties DEF TypeOK
  <2> QED
    BY <1>up, <2>1, <2>2 DEF TypeOK, SendUp
<1>1. CASE ChangeService
  BY <1>1, <1>com DEF TypeOK, ChangeService
<1>2. CASE WriteSubject
  BY <1>2 DEF TypeOK, WriteSubject
<1>3. CASE Republish
  <2>1. live \in Contents /\ CommitNodeChange(live, TRUE)
    BY <1>3 DEF TypeOK, Republish
  <2> QED
    BY <1>3, <2>1, <1>com DEF TypeOK, Republish
<1>4. CASE RepublishFails
  BY <1>4 DEF TypeOK, RepublishFails
<1>5. CASE Notify
  BY <1>5 DEF TypeOK, Notify, HubNotify
<1>6. ASSUME NEW s \in Streams, AcceptStream(s) PROVE TypeOK'
  BY <1>6 DEF TypeOK, AcceptStream, HubRegister
<1>7. ASSUME NEW s \in Streams, SendBump(s) PROVE TypeOK'
  <2>1. Append(down[s], "RevisionBump") \in Seq(PanelMessages)
    BY AppendProperties DEF TypeOK, PanelMessages
  <2> QED
    BY <1>7, <2>1 DEF TypeOK, SendBump
<1>8. ASSUME NEW s \in Streams, EndHandler(s) PROVE TypeOK'
  BY <1>8, EmptySeq DEF TypeOK, EndHandler, HubRelease
<1>9. ASSUME NEW s \in Streams, Handle(s) PROVE TypeOK'
  <2>1. up[s] \in Seq(AgentMessages) /\ up[s] # <<>> /\ down[s] \in Seq(PanelMessages)
    BY <1>9 DEF TypeOK, Handle
  <2>2. Tail(up[s]) \in Seq(AgentMessages) /\ Head(up[s]) \in AgentMessages
    BY <2>1, HeadTailProperties
  <2>3. up' \in [Streams -> Seq(AgentMessages)]
    BY <1>9, <2>2 DEF TypeOK, Handle
  <2>4. /\ Append(down[s], "FetchNow") \in Seq(PanelMessages)
        /\ Append(down[s], "UpgradeRequired") \in Seq(PanelMessages)
    BY <2>1, AppendProperties DEF PanelMessages
  <2>5. down' \in [Streams -> Seq(PanelMessages)]
    BY <1>9, <2>4 DEF TypeOK, Handle
  <2>6. CASE Head(up[s]).type = "ApplyReport"
    <3>1. Head(up[s]).doc \in Docs
      BY <2>2, <2>6 DEF AgentMessages, Heartbeat
    <3>2. Head(up[s]).doc.rev \in Nat
      BY <3>1 DEF Docs
    <3>3. RecordApplyRun(Head(up[s]).doc, Head(up[s]).outcome)
      BY <1>9, <2>6 DEF Handle
    <3>4. /\ status' \in Statuses /\ applied' \in Nat
          /\ UNCHANGED <<live, desired, revisions, maint, seen>>
      BY <3>2, <3>3 DEF RecordApplyRun, TypeOK, Statuses
    <3> QED
      BY <1>9, <2>3, <2>5, <3>4 DEF TypeOK, Handle
  <2>7. CASE Head(up[s]).type # "ApplyReport"
    <3>1. /\ status' \in Statuses /\ seen' \in BOOLEAN
          /\ UNCHANGED <<live, desired, revisions, applied, maint>>
      BY <1>9, <2>7 DEF Handle, RecordHello, RecordHeartbeat, TypeOK, Statuses
    <3> QED
      BY <1>9, <2>3, <2>5, <3>1 DEF TypeOK, Handle
  <2> QED
    BY <2>6, <2>7
<1>10. ASSUME NEW s \in Streams, Superseded(s) \/ HandlerSeesCut(s) \/ HandlerFails(s)
       PROVE TypeOK'
  BY <1>8, <1>10 DEF Superseded, HandlerSeesCut, HandlerFails
<1>11. ASSUME NEW enable \in BOOLEAN, SetMaintenance(enable) PROVE TypeOK'
  BY <1>11 DEF TypeOK, SetMaintenance, Statuses
<1>12. CASE DisableNode
  BY <1>12 DEF TypeOK, DisableNode, Statuses
<1>13. CASE EnableNode
  BY <1>13 DEF TypeOK, EnableNode, Statuses
<1>14. CASE SyncNode
  BY <1>14 DEF TypeOK, SyncNode, HubNotify
<1>15. CASE GoStale \/ Sweep
  BY <1>15 DEF TypeOK, GoStale, Sweep, Statuses
<1>16. ASSUME NEW v \in AgentVersions, Dial(v) PROVE TypeOK'
  <2>1. opened \in 0 .. MaxStreams /\ opened + 1 \in 0 .. MaxStreams /\ opened + 1 \in Streams
    BY <1>16, StreamFacts, BoundsAssumption DEF TypeOK, Dial
  <2>2. <<Hello(v)>> \in Seq(AgentMessages)
    BY MessageFacts, VersionsAssumption
  <2> QED
    BY <1>16, <2>1, <2>2 DEF TypeOK, Dial
<1>17. CASE Receive
  <2>1. sess \in Streams /\ down[sess] \in Seq(PanelMessages) /\ down[sess] # <<>>
    BY <1>17 DEF TypeOK, Receive, AtSelect
  <2>2. Tail(down[sess]) \in Seq(PanelMessages)
    BY <2>1, HeadTailProperties
  <2> QED
    BY <1>17, <2>1, <2>2, EmptySeq DEF TypeOK, Receive, AtSelect, CloseSession
<1>18. CASE ReconcileTimer
  BY <1>18 DEF TypeOK, ReconcileTimer, AtSelect
<1>19. CASE HeartbeatTimer
  BY <1>19, <1>up, MessageFacts DEF TypeOK, HeartbeatTimer, AtSelect
<1>20. CASE FetchSnapshot
  BY <1>20, DocFacts DEF TypeOK, FetchSnapshot, BuildDesiredSnapshot
<1>21. CASE FetchFails
  BY <1>21 DEF TypeOK, FetchFails
<1>22. ASSUME NEW o \in Outcomes, Converge(o) PROVE TypeOK'
  <2>1. snap \in Docs /\ snap.content \in Contents
    BY <1>22 DEF TypeOK, Converge, Docs
  <2>2. Report(snap, o) \in AgentMessages
    BY <2>1, MessageFacts
  <2>3. up' \in [Streams -> Seq(AgentMessages)]
    BY <1>22, <2>2, <1>up DEF TypeOK, Converge
  <2>4. host' \in Contents \cup {Unknown} /\ confirmed' \in SUBSET Docs
    BY <1>22, <2>1 DEF TypeOK, Converge
  <2> QED
    BY <1>22, <2>3, <2>4 DEF TypeOK, Converge
<1>23. CASE SessionError
  BY <1>23, EmptySeq DEF TypeOK, SessionError, CloseSession
<1>24. CASE NetworkBreaks
  BY <1>24 DEF TypeOK, NetworkBreaks
<1>25. CASE AgentRestart
  BY <1>25, EmptySeq DEF TypeOK, AgentRestart, CloseSession
<1>26. CASE PanelRestart
  BY <1>26, EmptySeq, StreamFacts DEF TypeOK, PanelRestart
<1>27. CASE UNCHANGED vars
  BY <1>27 DEF TypeOK, vars
<1> QED
  BY <1>1, <1>2, <1>3, <1>4, <1>5, <1>6, <1>7, <1>9, <1>10, <1>11, <1>12, <1>13,
     <1>14, <1>15, <1>16, <1>17, <1>18, <1>19, <1>20, <1>21, <1>22, <1>23,
     <1>24, <1>25, <1>26, <1>27 DEF Next

-----------------------------------------------------------------------------
(* What a step may change: the shape of the transitions the invariants use. *)

\* Only CommitNodeChange moves desired_revision or the revision rows; without
\* subject writes it is also all that changes what the rows describe.
LEMMA CommitOrNot ==
    TypeOK /\ [Next]_vars =>
        \/ UNCHANGED <<desired, revisions>> /\ (UNCHANGED live \/ wrote')
        \/ \E c \in Contents, notify \in BOOLEAN : CommitNodeChange(c, notify)
<1> SUFFICES ASSUME TypeOK, [Next]_vars,
                    ~(UNCHANGED <<desired, revisions>> /\ (UNCHANGED live \/ wrote'))
             PROVE  \E c \in Contents, notify \in BOOLEAN : CommitNodeChange(c, notify)
  OBVIOUS
<1> USE DEF storeVars, pendingVars, hubVars, streamVars, agentVars, historyVars
<1>1. CASE ChangeService
  BY <1>1 DEF ChangeService
<1>2. CASE Republish
  BY <1>2 DEF Republish, TypeOK
<1>3. ASSUME NEW s \in Streams, Handle(s) PROVE UNCHANGED <<live, desired, revisions>>
  BY <1>3 DEF Handle, RecordHello, RecordHeartbeat, RecordApplyRun
<1>4. ASSUME NEW s \in Streams, \/ AcceptStream(s) \/ SendBump(s) \/ Superseded(s)
                               \/ HandlerSeesCut(s) \/ HandlerFails(s)
      PROVE UNCHANGED <<live, desired, revisions>>
  BY <1>4 DEF AcceptStream, SendBump, Superseded, HandlerSeesCut, HandlerFails, EndHandler
<1> QED
  BY <1>1, <1>2, <1>3, <1>4
  DEF Next, vars, WriteSubject, RepublishFails, Notify, SetMaintenance, DisableNode,
      EnableNode, SyncNode, GoStale, Sweep, Dial, Receive, ReconcileTimer,
      HeartbeatTimer, FetchSnapshot, FetchFails, Converge, SessionError,
      NetworkBreaks, AgentRestart, PanelRestart

\* That rows were written outside a commit is never forgotten.
LEMMA WroteStep == TypeOK /\ [Next]_vars => (wrote => wrote')
<1> SUFFICES ASSUME TypeOK, [Next]_vars, wrote PROVE wrote'
  OBVIOUS
<1> USE DEF historyVars
<1>1. ASSUME NEW s \in Streams, \/ AcceptStream(s) \/ SendBump(s) \/ Superseded(s)
                               \/ HandlerSeesCut(s) \/ HandlerFails(s) \/ Handle(s)
      PROVE wrote' = wrote
  BY <1>1 DEF AcceptStream, SendBump, Superseded, HandlerSeesCut, HandlerFails, EndHandler,
              Handle
<1> QED
  BY <1>1
  DEF Next, vars, ChangeService, WriteSubject, Republish, RepublishFails, Notify,
      SetMaintenance, DisableNode, EnableNode, SyncNode, GoStale, Sweep, Dial,
      Receive, ReconcileTimer, HeartbeatTimer, FetchSnapshot, FetchFails, Converge,
      SessionError, NetworkBreaks, AgentRestart, PanelRestart

\* Confirmations are never forgotten, and the agent's snapshot is the one it
\* had, none, or the document the panel builds at this moment.
LEMMA SnapStep ==
    TypeOK /\ [Next]_vars =>
        /\ confirmed \subseteq confirmed'
        /\ \/ snap' \in {snap, NoSnapshot}
           \/ snap' = BuildDesiredSnapshot(live) /\ UNCHANGED storeVars
<1> SUFFICES ASSUME TypeOK, [Next]_vars
             PROVE  /\ confirmed \subseteq confirmed'
                    /\ \/ snap' \in {snap, NoSnapshot}
                       \/ snap' = BuildDesiredSnapshot(live) /\ UNCHANGED storeVars
  OBVIOUS
<1> USE DEF pendingVars, hubVars, streamVars, agentVars, historyVars
<1>1. CASE FetchSnapshot
  BY <1>1 DEF FetchSnapshot
<1>2. ASSUME NEW s \in Streams, \/ AcceptStream(s) \/ SendBump(s) \/ Superseded(s)
                               \/ HandlerSeesCut(s) \/ HandlerFails(s) \/ Handle(s)
      PROVE UNCHANGED <<confirmed, snap>>
  BY <1>2 DEF AcceptStream, SendBump, Superseded, HandlerSeesCut, HandlerFails, EndHandler,
              Handle
<1>3. ASSUME NEW o \in Outcomes, Converge(o)
      PROVE  snap' = NoSnapshot /\ confirmed \subseteq confirmed'
  BY <1>3 DEF Converge
<1> QED
  BY <1>1, <1>2, <1>3
  DEF Next, vars, ChangeService, WriteSubject, Republish, RepublishFails, Notify,
      SetMaintenance, DisableNode, EnableNode, SyncNode, GoStale, Sweep, Dial,
      Receive, ReconcileTimer, HeartbeatTimer, FetchFails, SessionError,
      NetworkBreaks, AgentRestart, PanelRestart

\* A message in a stream after a step was there before it, or is a Hello or a
\* heartbeat, or is the report of the pass that just ended.
LEMMA QueueStep ==
    TypeOK /\ [Next]_vars =>
        \A s \in Streams : \A i \in 1 .. Len(up'[s]) :
            \/ \E j \in 1 .. Len(up[s]) : up'[s][i] = up[s][j]
            \/ up'[s][i].type \in {"Hello", "Heartbeat"}
            \/ \E o \in Outcomes : Converge(o) /\ up'[s][i] = Report(snap, o)
<1> DEFINE Old(s, i) == \E j \in 1 .. Len(up[s]) : up'[s][i] = up[s][j]
           Fine(s, i) == \/ Old(s, i)
                         \/ up'[s][i].type \in {"Hello", "Heartbeat"}
                         \/ \E o \in Outcomes : Converge(o) /\ up'[s][i] = Report(snap, o)
<1> SUFFICES ASSUME TypeOK, [Next]_vars, NEW s \in Streams, NEW i \in 1 .. Len(up'[s])
             PROVE  Fine(s, i)
  OBVIOUS
<1> USE DEF pendingVars, hubVars, streamVars, agentVars, historyVars
<1>same. ASSUME up'[s] = up[s] PROVE Fine(s, i)
  BY <1>same
<1>typ. up[s] \in Seq(AgentMessages)
  BY DEF TypeOK
<1>send. ASSUME NEW m, SendUp(m), sess # 0, NEW x \in Streams, x = s
         PROVE  Old(s, i) \/ up'[s][i] = m
  <2>1. up' = up \/ up' = [up EXCEPT ![sess] = Append(up[sess], m)]
    BY <1>send DEF SendUp
  <2>2. CASE up'[s] = up[s]
    BY <2>2, <1>same
  <2>3. CASE up'[s] = Append(up[s], m)
    BY <2>3, <1>typ
  <2> QED
    BY <2>1, <2>2, <2>3 DEF TypeOK
<1>1. ASSUME NEW t \in Streams, Handle(t) PROVE Fine(s, i)
  <2>1. CASE t # s
    BY <1>1, <2>1, <1>same DEF Handle, TypeOK
  <2>2. CASE t = s
    <3>1. up'[s] = Tail(up[s]) /\ up[s] # <<>>
      BY <1>1, <2>2 DEF Handle, TypeOK
    <3>2. Len(up'[s]) = Len(up[s]) - 1 /\ up'[s][i] = up[s][i + 1] /\ Len(up[s]) \in Nat
      BY <3>1, <1>typ, HeadTailProperties
    <3>3. i + 1 \in 1 .. Len(up[s])
      BY <3>2
    <3> QED
      BY <3>2, <3>3
  <2> QED
    BY <2>1, <2>2
<1>2. ASSUME NEW t \in Streams, EndHandler(t) PROVE Fine(s, i)
  <2>1. CASE t # s
    BY <1>2, <2>1, <1>same DEF EndHandler, TypeOK
  <2>2. CASE t = s
    BY <1>2, <2>2 DEF EndHandler, TypeOK
  <2> QED
    BY <2>1, <2>2
<1>3. ASSUME NEW t \in Streams, \/ AcceptStream(t) \/ SendBump(t) \/ Superseded(t)
                               \/ HandlerSeesCut(t) \/ HandlerFails(t)
      PROVE  Fine(s, i)
  BY <1>2, <1>3, <1>same DEF AcceptStream, SendBump, Superseded, HandlerSeesCut, HandlerFails
<1>4. ASSUME NEW v \in AgentVersions, Dial(v) PROVE Fine(s, i)
  <2>1. up'[s] \in {up[s], <<Hello(v)>>}
    BY <1>4 DEF Dial, TypeOK
  <2>2. CASE up'[s] = <<Hello(v)>>
    BY <2>2 DEF Hello
  <2> QED
    BY <2>1, <2>2, <1>same
<1>5. CASE HeartbeatTimer
  BY <1>5, <1>send DEF HeartbeatTimer, AtSelect, Heartbeat
<1>6. ASSUME NEW o \in Outcomes, Converge(o) PROVE Fine(s, i)
  <2>1. sess # 0 /\ SendUp(Report(snap, o))
    BY <1>6 DEF Converge, TypeOK
  <2> QED
    BY <2>1, <1>6, <1>send
<1>7. CASE PanelRestart
  BY <1>7 DEF PanelRestart
<1>8. CASE \/ ChangeService \/ WriteSubject \/ Republish \/ RepublishFails
           \/ Notify \/ DisableNode \/ EnableNode \/ SyncNode \/ GoStale \/ Sweep
           \/ Receive \/ ReconcileTimer \/ FetchSnapshot \/ FetchFails
           \/ SessionError \/ NetworkBreaks \/ AgentRestart \/ UNCHANGED vars
           \/ \E enable \in BOOLEAN : SetMaintenance(enable)
  BY <1>8, <1>same
  DEF vars, ChangeService, WriteSubject, Republish, RepublishFails, Notify,
      SetMaintenance, DisableNode, EnableNode, SyncNode, GoStale, Sweep, Receive,
      ReconcileTimer, FetchSnapshot, FetchFails, SessionError, NetworkBreaks,
      AgentRestart
<1> QED
  BY <1>1, <1>3, <1>4, <1>5, <1>6, <1>7, <1>8 DEF Next

-----------------------------------------------------------------------------
(* The revision log. *)

\* What a commit that is not a no-op does to the log.
LEMMA CommitAppends ==
    ASSUME TypeOK, RevisionLog, NEW c \in Contents, NEW notify \in BOOLEAN,
           CommitNodeChange(c, notify), ~ UNCHANGED <<desired, revisions>>
    PROVE  /\ desired' = desired + 1
           /\ Len(revisions') = desired + 1
           /\ revisions'[desired + 1] = Doc(desired + 1, c)
           /\ \A r \in 1 .. desired : revisions'[r] = revisions[r]
           /\ desired > 0 => revisions[desired].content # c
<1>1. /\ desired' = desired + 1
      /\ revisions' = Append(revisions, Doc(desired + 1, c))
      /\ ~(revisions # <<>> /\ revisions[Len(revisions)] = Doc(desired, c))
  BY DEF CommitNodeChange, BuildDesiredSnapshot
<1>2. desired \in Nat /\ revisions \in Seq(Docs) /\ Len(revisions) = desired
  BY DEF TypeOK, RevisionLog
<1>3. Doc(desired + 1, c) \in Docs
  BY <1>2, DocFacts
<1>4. /\ Len(revisions') = desired + 1
      /\ revisions'[desired + 1] = Doc(desired + 1, c)
      /\ \A r \in 1 .. desired : revisions'[r] = revisions[r]
  BY <1>1, <1>2, <1>3, AppendProperties
<1>5. ASSUME desired > 0 PROVE revisions[desired].content # c
  <2>1. revisions[desired] \in Docs /\ revisions[desired].rev = desired /\ revisions # <<>>
    BY <1>2, <1>5, ElementOfSeq DEF RevisionLog
  <2>2. revisions[desired] # Doc(desired, c)
    BY <1>1, <1>2, <2>1
  <2> QED
    BY <2>1, <2>2 DEF Docs, Doc
<1> QED
  BY <1>1, <1>4, <1>5

\* The log stays dense, labelled and free of repetitions.
LEMMA LogStep == TypeOK /\ RevisionLog /\ [Next]_vars => RevisionLog'
<1> SUFFICES ASSUME TypeOK, RevisionLog, [Next]_vars PROVE RevisionLog'
  OBVIOUS
<1>1. CASE UNCHANGED <<desired, revisions>>
  BY <1>1 DEF RevisionLog
<1>2. CASE ~ UNCHANGED <<desired, revisions>>
  <2>1. PICK c \in Contents, notify \in BOOLEAN : CommitNodeChange(c, notify)
    BY <1>2, CommitOrNot
  <2>2. /\ desired' = desired + 1
        /\ Len(revisions') = desired + 1
        /\ revisions'[desired + 1] = Doc(desired + 1, c)
        /\ \A r \in 1 .. desired : revisions'[r] = revisions[r]
        /\ desired > 0 => revisions[desired].content # c
    BY <1>2, <2>1, CommitAppends
  <2>3. desired \in Nat
    BY DEF TypeOK
  <2>4. \A r \in 1 .. desired' : revisions'[r].rev = r
    <3> SUFFICES ASSUME NEW r \in 1 .. desired' PROVE revisions'[r].rev = r
      OBVIOUS
    <3>1. CASE r = desired + 1
      BY <3>1, <2>2, <2>3 DEF Doc
    <3>2. CASE r \in 1 .. desired
      BY <3>2, <2>2 DEF RevisionLog
    <3> QED
      BY <2>2, <2>3, <3>1, <3>2
  <2>5. \A r \in 1 .. desired' - 1 : revisions'[r].content # revisions'[r + 1].content
    <3> SUFFICES ASSUME NEW r \in 1 .. desired
                 PROVE  revisions'[r].content # revisions'[r + 1].content
      BY <2>2, <2>3
    <3>1. CASE r = desired
      BY <3>1, <2>2, <2>3 DEF Doc
    <3>2. CASE r \in 1 .. desired - 1
      BY <3>2, <2>2, <2>3 DEF RevisionLog
    <3> QED
      BY <2>3, <3>1, <3>2
  <2> QED
    BY <2>2, <2>4, <2>5 DEF RevisionLog
<1> QED
  BY <1>1, <1>2

\* No step takes a document out of the log, and one whose revision is not
\* newer than the store's is issued after the step only if it was before.
LEMMA IssuedStep ==
    TypeOK /\ RevisionLog /\ [Next]_vars =>
        /\ desired \in Nat /\ desired' \in Nat /\ desired <= desired'
        /\ \A r \in 1 .. desired : revisions'[r] = revisions[r]
        /\ Issued \subseteq Issued'
        /\ \A d \in Issued' : d \in Issued \/ (d.rev = desired + 1 /\ desired' = desired + 1)
<1> SUFFICES ASSUME TypeOK, RevisionLog, [Next]_vars
             PROVE  /\ desired \in Nat /\ desired' \in Nat /\ desired <= desired'
                    /\ \A r \in 1 .. desired : revisions'[r] = revisions[r]
                    /\ Issued \subseteq Issued'
                    /\ \A d \in Issued' : \/ d \in Issued
                                          \/ d.rev = desired + 1 /\ desired' = desired + 1
  OBVIOUS
<1>0. RevisionLog' /\ TypeOK'
  BY LogStep, TypeStep
<1>1. /\ Issued = {revisions[r] : r \in 1 .. desired}
      /\ Issued' = {revisions'[r] : r \in 1 .. desired'}
  <2>1. /\ revisions \in Seq(Docs) /\ Len(revisions) = desired
        /\ revisions' \in Seq(Docs) /\ Len(revisions') = desired'
    BY <1>0 DEF RevisionLog, TypeOK
  <2>2. DOMAIN revisions = 1 .. desired /\ DOMAIN revisions' = 1 .. desired'
    BY <2>1, LenProperties
  <2> QED
    BY <2>2 DEF Issued
<1>2. CASE UNCHANGED <<desired, revisions>>
  BY <1>1, <1>2 DEF TypeOK
<1>3. CASE ~ UNCHANGED <<desired, revisions>>
  <2>1. PICK c \in Contents, notify \in BOOLEAN : CommitNodeChange(c, notify)
    BY <1>3, CommitOrNot
  <2>2. /\ desired' = desired + 1
        /\ revisions'[desired + 1] = Doc(desired + 1, c)
        /\ \A r \in 1 .. desired : revisions'[r] = revisions[r]
    BY <1>3, <2>1, CommitAppends
  <2>3. desired \in Nat /\ revisions'[desired + 1].rev = desired + 1
    BY <2>2 DEF Doc, TypeOK
  <2> QED
    BY <1>1, <2>2, <2>3
<1> QED
  BY <1>2, <1>3

-----------------------------------------------------------------------------
(* Convergence: what applied_revision vouches for. *)

\* A report was about a document no newer than the store, and a reported
\* convergence on an issued document was confirmed.
LEMMA InFlightStep ==
    TypeOK /\ RevisionLog /\ InFlightIsSound /\ [Next]_vars => InFlightIsSound'
<1> SUFFICES ASSUME TypeOK, RevisionLog, InFlightIsSound, [Next]_vars
             PROVE  InFlightIsSound'
  OBVIOUS
<1>0. TypeOK'
  BY TypeStep
<1>1. /\ desired \in Nat /\ desired' \in Nat /\ desired <= desired'
      /\ \A d \in Issued' : d \in Issued \/ d.rev = desired + 1
  BY IssuedStep
<1>2. confirmed \subseteq confirmed'
  BY SnapStep
<1>3. snap'.rev <= desired'
  <2>1. CASE snap' = snap
    <3>1. snap.rev \in Int
      BY DEF TypeOK, Docs, NoSnapshot
    <3> QED
      BY <2>1, <3>1, <1>1 DEF InFlightIsSound
  <2>2. CASE snap' = NoSnapshot
    BY <2>2, <1>1 DEF NoSnapshot
  <2>3. CASE snap' = BuildDesiredSnapshot(live)
    BY <2>3, <1>1 DEF BuildDesiredSnapshot, Doc
  <2> QED
    BY <2>1, <2>2, <2>3, SnapStep
<1>4. ASSUME NEW s \in Streams, NEW i \in 1 .. Len(up'[s])
      PROVE  ReportIsSound(up[s][i])'
  <2>1. CASE \E j \in 1 .. Len(up[s]) : up'[s][i] = up[s][j]
    <3>1. PICK j \in 1 .. Len(up[s]) : up'[s][i] = up[s][j]
      BY <2>1
    <3> DEFINE m == up[s][j]
    <3>2. m \in AgentMessages /\ ReportIsSound(m)
      <4>1. up[s] \in Seq(AgentMessages)
        BY DEF TypeOK
      <4> QED
        BY <4>1, ElementOfSeq DEF InFlightIsSound
    <3> HIDE DEF m
    <3>3. ASSUME m.type = "ApplyReport" PROVE m.doc.rev \in Nat
      BY <3>2, <3>3 DEF AgentMessages, Heartbeat, Docs
    <3>4. ASSUME m.type = "ApplyReport"
          PROVE  /\ m.doc.rev <= desired'
                 /\ (m.outcome = "converged" /\ m.doc \in Issued') => m.doc \in confirmed'
      <4>1. m.doc.rev <= desired /\ m.doc.rev \in Nat
        BY <3>2, <3>3, <3>4 DEF ReportIsSound
      <4>2. m.doc.rev # desired + 1 /\ m.doc.rev <= desired'
        BY <4>1, <1>1
      <4> QED
        BY <4>2, <3>2, <3>4, <1>1, <1>2 DEF ReportIsSound
    <3> QED
      BY <3>1, <3>4 DEF ReportIsSound, m
  <2>2. CASE up'[s][i].type \in {"Hello", "Heartbeat"}
    BY <2>2 DEF ReportIsSound
  <2>3. CASE \E o \in Outcomes : Converge(o) /\ up'[s][i] = Report(snap, o)
    <3>1. PICK o \in Outcomes : Converge(o) /\ up'[s][i] = Report(snap, o)
      BY <2>3
    <3>2. UNCHANGED <<desired, revisions>>
      BY <3>1 DEF Converge, storeVars
    <3>3. Issued' = Issued
      BY <3>2 DEF Issued
    <3>4. o = "converged" /\ snap \in Issued => snap \in confirmed'
      BY <3>1 DEF Converge
    <3> QED
      BY <3>1, <3>2, <3>3, <3>4 DEF ReportIsSound, Report, InFlightIsSound
  <2> QED
    BY <2>1, <2>2, <2>3, QueueStep
<1> QED
  BY <1>3, <1>4 DEF InFlightIsSound

\* applied_revision only ever moves to a confirmed revision.
LEMMA AppliedStep ==
    TypeOK /\ RevisionLog /\ InFlightIsSound /\ AppliedWasConfirmed /\ [Next]_vars
        => AppliedWasConfirmed'
<1> SUFFICES ASSUME TypeOK, RevisionLog, InFlightIsSound, AppliedWasConfirmed,
                    [Next]_vars
             PROVE  AppliedWasConfirmed'
  OBVIOUS
<1> USE DEF storeVars, pendingVars, hubVars, streamVars, agentVars, historyVars
<1>0. /\ TypeOK' /\ RevisionLog'
      /\ DOMAIN revisions = 1 .. desired
      /\ DOMAIN revisions' = 1 .. desired'
  <2>1. TypeOK' /\ RevisionLog'
    BY TypeStep, LogStep
  <2>2. /\ revisions \in Seq(Docs) /\ Len(revisions) = desired
        /\ revisions' \in Seq(Docs) /\ Len(revisions') = desired'
    BY <2>1 DEF RevisionLog, TypeOK
  <2> QED
    BY <2>1, <2>2, LenProperties
<1>1. /\ desired \in Nat /\ desired' \in Nat /\ desired <= desired'
      /\ \A r \in 1 .. desired : revisions'[r] = revisions[r]
      /\ confirmed \subseteq confirmed'
  BY IssuedStep, SnapStep
<1>2. CASE applied' = applied
  BY <1>0, <1>1, <1>2 DEF AppliedWasConfirmed
<1>3. ASSUME NEW s \in Streams, Handle(s), applied' # applied PROVE AppliedWasConfirmed'
  <2> DEFINE m == Head(up[s])
  <2>1. m.type = "ApplyReport" /\ RecordApplyRun(m.doc, m.outcome)
    BY <1>3 DEF Handle, RecordHello, RecordHeartbeat
  <2>2. /\ m.outcome = "converged" /\ applied' = m.doc.rev
        /\ m.doc.rev > 0 => m.doc.rev \in DOMAIN revisions /\ m.doc = revisions[m.doc.rev]
        /\ UNCHANGED <<desired, revisions, confirmed>>
    BY <1>3, <2>1 DEF RecordApplyRun, Handle
  <2>3. ReportIsSound(m)
    <3>1. up[s] \in Seq(AgentMessages) /\ up[s] # <<>>
      BY <1>3 DEF Handle, TypeOK
    <3>2. m = up[s][1] /\ 1 \in 1 .. Len(up[s])
      BY <3>1
    <3> QED
      BY <3>2 DEF InFlightIsSound
  <2> HIDE DEF m
  <2>4. m.doc.rev > 0 => m.doc \in confirmed
    BY <2>1, <2>2, <2>3 DEF ReportIsSound, Issued
  <2> QED
    BY <2>2, <2>4 DEF AppliedWasConfirmed
<1>4. (\E s \in Streams : Handle(s)) \/ applied' = applied
  <2>1. ASSUME NEW s \in Streams, \/ AcceptStream(s) \/ SendBump(s) \/ Superseded(s)
                                 \/ HandlerSeesCut(s) \/ HandlerFails(s)
        PROVE applied' = applied
    BY <2>1 DEF AcceptStream, SendBump, Superseded, HandlerSeesCut, HandlerFails, EndHandler
  <2> QED
    BY <2>1
    DEF Next, vars, ChangeService, WriteSubject, Republish, RepublishFails, Notify,
        SetMaintenance, DisableNode, EnableNode, SyncNode, GoStale, Sweep, Dial,
        Receive, ReconcileTimer, HeartbeatTimer, FetchSnapshot, FetchFails, Converge,
        SessionError, NetworkBreaks, AgentRestart, PanelRestart
<1> QED
  BY <1>2, <1>3, <1>4

-----------------------------------------------------------------------------
(* The integrity fault. *)

\* Without writes outside the commit only issued documents are ever in flight.
LEMMA OnlyIssuedStep ==
    TypeOK /\ RevisionLog /\ OnlyIssuedDocuments /\ [Next]_vars => OnlyIssuedDocuments'
<1> SUFFICES ASSUME TypeOK, RevisionLog, OnlyIssuedDocuments, [Next]_vars, ~wrote, ~wrote'
             PROVE  OnlyIssuedDocuments'
  BY WroteStep DEF OnlyIssuedDocuments
<1>0. desired \in Nat /\ Issued \subseteq Issued'
  BY IssuedStep
<1>00. desired' > 0 => revisions'[desired'] \in Issued'
  <2>1. TypeOK' /\ RevisionLog'
    BY TypeStep, LogStep
  <2>2. DOMAIN revisions' = 1 .. desired' /\ desired' \in Nat
    BY <2>1, LenProperties DEF TypeOK, RevisionLog
  <2> QED
    BY <2>2 DEF Issued
<1>1. desired' > 0 => revisions'[desired'].content = live'
  <2>1. CASE UNCHANGED <<live, desired, revisions>>
    BY <2>1 DEF OnlyIssuedDocuments
  <2>2. ASSUME NEW c \in Contents, NEW notify \in BOOLEAN, CommitNodeChange(c, notify)
        PROVE  desired' > 0 => revisions'[desired'].content = live'
    <3>1. CASE ~ UNCHANGED <<desired, revisions>>
      <4>1. desired' = desired + 1 /\ revisions'[desired + 1] = Doc(desired + 1, c)
        BY <2>2, <3>1, CommitAppends
      <4> QED
        BY <4>1, <2>2 DEF CommitNodeChange, Doc
    <3>2. CASE UNCHANGED <<desired, revisions>>
      <4>1. desired' # desired + 1
        BY <3>2, <1>0
      <4>2. revisions[Len(revisions)] = Doc(desired, c) /\ live' = c
        BY <4>1, <2>2 DEF CommitNodeChange, BuildDesiredSnapshot
      <4> QED
        BY <3>2, <4>2 DEF Doc, RevisionLog
    <3> QED
      BY <3>1, <3>2
  <2> QED
    BY <2>1, <2>2, CommitOrNot
<1>2. snap'.rev > 0 => snap' \in Issued'
  <2>1. CASE snap' = snap
    BY <2>1, <1>0 DEF OnlyIssuedDocuments
  <2>2. CASE snap' = NoSnapshot
    BY <2>2 DEF NoSnapshot
  <2>3. CASE snap' = BuildDesiredSnapshot(live) /\ UNCHANGED storeVars
    <3>1. snap' = Doc(desired, live) /\ UNCHANGED <<live, desired, revisions>>
      BY <2>3 DEF BuildDesiredSnapshot, storeVars
    <3>2. CASE desired > 0
      <4>1. revisions[desired] \in Docs
        BY <1>0, <3>2, ElementOfSeq DEF TypeOK, RevisionLog
      <4>2. revisions[desired].content = live /\ revisions[desired].rev = desired
        BY <3>2, <1>0 DEF OnlyIssuedDocuments, RevisionLog
      <4>3. revisions[desired] = Doc(desired, live)
        BY <4>1, <4>2 DEF Docs, Doc
      <4> QED
        BY <3>1, <3>2, <4>3, <1>00
    <3>3. CASE ~(desired > 0)
      BY <3>1, <3>3 DEF Doc
    <3> QED
      BY <3>2, <3>3
  <2> QED
    BY <2>1, <2>2, <2>3, SnapStep
<1>3. ASSUME NEW s \in Streams, NEW i \in 1 .. Len(up'[s])
      PROVE  ReportIsIssued(up[s][i])'
  <2>1. CASE \E j \in 1 .. Len(up[s]) : up'[s][i] = up[s][j]
    BY <2>1, <1>0 DEF OnlyIssuedDocuments, ReportIsIssued
  <2>2. CASE up'[s][i].type \in {"Hello", "Heartbeat"}
    BY <2>2 DEF ReportIsIssued
  <2>3. CASE \E o \in Outcomes : Converge(o) /\ up'[s][i] = Report(snap, o)
    BY <2>3, <1>0 DEF OnlyIssuedDocuments, ReportIsIssued, Report
  <2> QED
    BY <2>1, <2>2, <2>3, QueueStep
<1> QED
  BY <1>1, <1>2, <1>3 DEF OnlyIssuedDocuments

\* Hence no report raises the fault.
LEMMA NoFalseAlarmStep ==
    TypeOK /\ RevisionLog /\ OnlyIssuedDocuments /\ NoFalseAlarm /\ [Next]_vars
        => NoFalseAlarm'
<1> SUFFICES ASSUME TypeOK, RevisionLog, OnlyIssuedDocuments, NoFalseAlarm,
                    [Next]_vars, ~wrote, ~wrote'
             PROVE  status' # "integrity"
  BY WroteStep DEF NoFalseAlarm
<1> USE DEF storeVars, pendingVars, hubVars, streamVars, agentVars, historyVars
<1>0. status # "integrity"
  BY DEF NoFalseAlarm
<1>1. ASSUME NEW s \in Streams, Handle(s) PROVE status' # "integrity"
  <2> DEFINE m == Head(up[s])
  <2>1. CASE m.type # "ApplyReport"
    BY <1>0, <1>1, <2>1 DEF Handle, RecordHello, RecordHeartbeat
  <2>2. CASE m.type = "ApplyReport"
    <3>1. up[s] \in Seq(AgentMessages) /\ up[s] # <<>>
      BY <1>1 DEF Handle, TypeOK
    <3>2. m = up[s][1] /\ 1 \in 1 .. Len(up[s]) /\ m \in AgentMessages
      BY <3>1, HeadTailProperties
    <3>3. ReportIsIssued(m) /\ RecordApplyRun(m.doc, m.outcome)
      BY <1>1, <2>2, <3>2 DEF OnlyIssuedDocuments, Handle
    <3>4. m.doc.rev \in Nat
      BY <2>2, <3>2 DEF AgentMessages, Heartbeat, Docs
    <3> HIDE DEF m
    <3>5. DOMAIN revisions = 1 .. desired /\ desired \in Nat
      BY LenProperties DEF TypeOK, RevisionLog
    <3>6. m.doc.rev > 0 => m.doc.rev \in DOMAIN revisions /\ revisions[m.doc.rev] = m.doc
      BY <2>2, <3>3, <3>5 DEF ReportIsIssued, Issued, RevisionLog
    <3>7. m.doc.rev \in DOMAIN revisions => m.doc.rev > 0
      BY <3>5, <3>4
    <3> QED
      BY <3>3, <3>6, <3>7 DEF RecordApplyRun
  <2> QED
    BY <2>1, <2>2
<1>2. ASSUME NEW s \in Streams, \/ AcceptStream(s) \/ SendBump(s) \/ Superseded(s)
                               \/ HandlerSeesCut(s) \/ HandlerFails(s)
      PROVE status' = status
  BY <1>2 DEF AcceptStream, SendBump, Superseded, HandlerSeesCut, HandlerFails, EndHandler
<1> QED
  BY <1>0, <1>1, <1>2
  DEF Next, vars, ChangeService, WriteSubject, Republish, RepublishFails, Notify,
      SetMaintenance, DisableNode, EnableNode, SyncNode, GoStale, Sweep, Dial,
      Receive, ReconcileTimer, HeartbeatTimer, FetchSnapshot, FetchFails, Converge,
      SessionError, NetworkBreaks, AgentRestart, PanelRestart

-----------------------------------------------------------------------------
(* The hub and the streams. *)

\* The agent's stream is the newest, the others are cut, and the hub's entry
\* has a live handler.
LEMMA StreamStep ==
    TypeOK /\ OneStreamCounts /\ RegisteredStreamIsLive /\ [Next]_vars
        => OneStreamCounts' /\ RegisteredStreamIsLive'
<1> SUFFICES ASSUME TypeOK, OneStreamCounts, RegisteredStreamIsLive, [Next]_vars
             PROVE  OneStreamCounts' /\ RegisteredStreamIsLive'
  OBVIOUS
<1> USE DEF OneStreamCounts, RegisteredStreamIsLive
<1>same. ASSUME UNCHANGED <<sess, opened, srv, cut, closed, conn>>
         PROVE  OneStreamCounts' /\ RegisteredStreamIsLive'
  BY <1>same
<1>0. /\ \A s \in Streams : s \in Nat /\ s # 0
      /\ opened \in Nat
  BY StreamFacts DEF TypeOK
<1>1. ASSUME NEW s \in Streams, AcceptStream(s)
      PROVE  OneStreamCounts' /\ RegisteredStreamIsLive'
  <2>1. s <= opened
    BY <1>0, <1>1 DEF AcceptStream
  <2> QED
    BY <1>0, <1>1, <2>1 DEF AcceptStream, HubRegister, agentVars, TypeOK
<1>2. ASSUME NEW s \in Streams, EndHandler(s), srv[s] \in {"new", "open"}
      PROVE  OneStreamCounts' /\ RegisteredStreamIsLive'
  BY <1>0, <1>2 DEF EndHandler, HubRelease, agentVars, TypeOK
<1>3. ASSUME NEW s \in Streams, Superseded(s) \/ HandlerSeesCut(s) \/ HandlerFails(s)
      PROVE  OneStreamCounts' /\ RegisteredStreamIsLive'
  BY <1>2, <1>3 DEF Superseded, HandlerSeesCut, HandlerFails
<1>4. ASSUME NEW v \in AgentVersions, Dial(v)
      PROVE  OneStreamCounts' /\ RegisteredStreamIsLive'
  <2>1. opened + 1 \in Streams /\ opened + 1 > opened
    BY <1>4, <1>0, StreamFacts DEF Dial, TypeOK
  <2>2. srv[opened + 1] = "none"
    BY <2>1
  <2> QED
    BY <1>0, <1>4, <2>1, <2>2 DEF Dial, hubVars, TypeOK
<1>5. ASSUME CloseSession, sess # 0, UNCHANGED <<opened, srv, closed, conn>>
      PROVE  OneStreamCounts' /\ RegisteredStreamIsLive'
  BY <1>5 DEF CloseSession
<1>6. CASE Receive \/ SessionError \/ AgentRestart
  BY <1>5, <1>6, <1>same
  DEF Receive, AtSelect, SessionError, AgentRestart, hubVars, CloseSession
<1>7. CASE NetworkBreaks
  BY <1>7 DEF NetworkBreaks, hubVars, agentVars
<1>8. CASE PanelRestart
  BY <1>0, <1>8 DEF PanelRestart, agentVars, TypeOK
<1>9. ASSUME NEW s \in Streams, SendBump(s) \/ Handle(s)
      PROVE  OneStreamCounts' /\ RegisteredStreamIsLive'
  BY <1>9, <1>same DEF SendBump, Handle, hubVars, agentVars
<1>10. CASE \/ ChangeService \/ WriteSubject \/ Republish \/ RepublishFails
            \/ Notify \/ DisableNode \/ EnableNode \/ SyncNode \/ GoStale \/ Sweep
            \/ ReconcileTimer \/ HeartbeatTimer \/ FetchSnapshot \/ FetchFails
            \/ UNCHANGED vars \/ (\E enable \in BOOLEAN : SetMaintenance(enable))
            \/ \E o \in Outcomes : Converge(o)
  BY <1>10, <1>same
  DEF vars, hubVars, streamVars, agentVars, ChangeService, WriteSubject, Republish,
      RepublishFails, Notify, SetMaintenance, DisableNode, EnableNode, SyncNode,
      GoStale, Sweep, ReconcileTimer, HeartbeatTimer, FetchSnapshot, FetchFails,
      Converge
<1> QED
  BY <1>1, <1>3, <1>4, <1>6, <1>7, <1>8, <1>9, <1>10 DEF Next

\* Channels closed once stay closed.
LEMMA ClosedStaysClosed ==
    TypeOK /\ OneStreamCounts /\ [Next]_vars => closed \subseteq closed'
<1> SUFFICES ASSUME TypeOK, OneStreamCounts, [Next]_vars PROVE closed \subseteq closed'
  OBVIOUS
<1>1. ASSUME NEW s \in Streams,
             \/ AcceptStream(s) \/ SendBump(s) \/ Handle(s) \/ Superseded(s)
             \/ HandlerSeesCut(s) \/ HandlerFails(s)
      PROVE  closed \subseteq closed'
  BY <1>1 DEF AcceptStream, SendBump, Handle, Superseded, HandlerSeesCut, HandlerFails,
              EndHandler, HubRegister, HubRelease, hubVars
<1>2. CASE PanelRestart
  <2>1. ASSUME NEW s \in closed PROVE s \in 1 .. opened
    <3>1. s \in Streams /\ s \in Nat /\ s # 0 /\ opened \in Nat
      BY <2>1, StreamFacts DEF TypeOK
    <3>2. ~(s > opened)
      BY <2>1, <3>1 DEF OneStreamCounts
    <3> QED
      BY <3>1, <3>2
  <2> QED
    BY <1>2, <2>1 DEF PanelRestart
<1>3. CASE \/ ChangeService \/ WriteSubject \/ Republish \/ RepublishFails \/ Notify
           \/ DisableNode \/ EnableNode \/ SyncNode \/ GoStale \/ Sweep \/ Receive
           \/ ReconcileTimer \/ HeartbeatTimer \/ FetchSnapshot \/ FetchFails
           \/ SessionError \/ NetworkBreaks \/ AgentRestart \/ UNCHANGED vars
           \/ (\E enable \in BOOLEAN : SetMaintenance(enable))
           \/ (\E v \in AgentVersions : Dial(v)) \/ \E o \in Outcomes : Converge(o)
  BY <1>3
  DEF vars, hubVars, ChangeService, WriteSubject, Republish, RepublishFails, Notify,
      SetMaintenance, DisableNode, EnableNode, SyncNode, GoStale, Sweep, Dial, Receive,
      ReconcileTimer, HeartbeatTimer, FetchSnapshot, FetchFails, Converge, SessionError,
      NetworkBreaks, AgentRestart
<1> QED
  BY <1>1, <1>2, <1>3 DEF Next

\* Until a stream is accepted its Hello is the first message waiting on it, and
\* while its channels are open no step but the agent's own fetch takes the last
\* wake-up away.
LEMMA WakeUpStep ==
    /\ TypeOK /\ OneStreamCounts /\ HelloComesFirst /\ WakeUpOnItsWay /\ [Next]_vars
    => HelloComesFirst' /\ WakeUpOnItsWay'
<1> DEFINE Goal == HelloComesFirst' /\ WakeUpOnItsWay'
<1> SUFFICES ASSUME TypeOK, OneStreamCounts, HelloComesFirst, WakeUpOnItsWay, [Next]_vars
             PROVE  Goal
  OBVIOUS
<1> USE DEF HelloComesFirst, WakeUpOnItsWay, WakeUpPending
<1>m. closed \subseteq closed'
  BY ClosedStaysClosed
<1>same. ASSUME UNCHANGED <<sess, srv, up, down, bump, unasked, pc>> PROVE Goal
  BY <1>same, <1>m
<1>0. /\ \A s \in Streams : s \in Nat /\ s # 0
      /\ \A s \in Streams : up[s] \in Seq(AgentMessages) /\ Len(up[s]) \in Nat
      /\ sess # 0 => sess \in Streams
  <2>1. \A s \in Streams : s \in Nat /\ s # 0
    BY StreamFacts
  <2>2. up \in [Streams -> Seq(AgentMessages)] /\ (sess # 0 => sess \in Streams)
    BY DEF TypeOK
  <2> QED
    BY <2>1, <2>2
<1>send. ASSUME NEW m, SendUp(m), sess # 0, pc' = "fetch" <=> pc = "fetch",
                UNCHANGED <<sess, srv, down, bump, unasked>>
         PROVE  Goal
  <2>1. \A s \in Streams : up'[s] = up[s] \/ up'[s] = Append(up[s], m)
    BY <1>send, <1>0 DEF SendUp, TypeOK
  <2>2. \A s \in Streams :
          /\ Len(up'[s]) >= Len(up[s])
          /\ \A i \in 1 .. Len(up[s]) : up'[s][i] = up[s][i]
    BY <2>1, <1>0
  <2>3. \A s \in Streams : 1 .. Len(up[s]) \subseteq 1 .. Len(up'[s])
    BY <2>1, <1>0
  <2>4. HelloComesFirst'
    BY <1>send, <1>0, <2>2, <2>1
  <2> QED
    BY <1>send, <1>m, <1>0, <2>2, <2>3, <2>4
<1>notify. ASSUME HubNotify, UNCHANGED <<conn, sess, srv, up, down, pc>> PROVE Goal
  <2>1. ASSUME sess # 0, srv[sess] = "open", sess \notin closed PROVE sess \in bump'
    BY <1>notify, <2>1, <1>0 DEF HubNotify, OneStreamCounts
  <2>2. ASSUME sess # 0, srv[sess] = "new"
        PROVE  1 \in 1 .. Len(up[sess]) /\ up[sess][1].type = "Hello"
    BY <2>2, <1>0
  <2> QED
    BY <1>notify, <1>m, <2>1, <2>2
<1>1. ASSUME NEW s \in Streams, AcceptStream(s) PROVE Goal
  BY <1>1, <1>m DEF AcceptStream, HubRegister, agentVars, historyVars, TypeOK
<1>2. ASSUME NEW s \in Streams, SendBump(s) PROVE Goal
  <2>0. down[s] \in Seq(PanelMessages)
    BY DEF TypeOK
  <2>1. \A x \in PanelMessages : Append(down[s], x) # <<>>
    BY <2>0, AppendProperties
  <2> QED
    BY <1>2, <1>m, <2>1 DEF SendBump, PanelMessages, agentVars, historyVars, TypeOK
<1>3. ASSUME NEW s \in Streams, EndHandler(s), srv[s] \in {"new", "open"} PROVE Goal
  BY <1>3, <1>m DEF EndHandler, agentVars, historyVars, TypeOK
<1>4. ASSUME NEW s \in Streams, Superseded(s) \/ HandlerSeesCut(s) \/ HandlerFails(s)
      PROVE Goal
  BY <1>3, <1>4 DEF Superseded, HandlerSeesCut, HandlerFails
<1>5. ASSUME NEW s \in Streams, Handle(s) PROVE Goal
  <2>1. /\ srv[s] = "open" /\ up[s] # <<>> /\ up' = [up EXCEPT ![s] = Tail(up[s])]
        /\ UNCHANGED <<srv, bump, sess, pc, unasked>>
        /\ \A t \in Streams : t # s => down'[t] = down[t]
    BY <1>5 DEF Handle, hubVars, agentVars, historyVars, TypeOK
  <2>2. Head(up[s]) = up[s][1]
    BY <2>1, <1>0
  <2>3. up[s][1].type = "Hello" => down'[s] # <<>>
    <3>0. down[s] \in Seq(PanelMessages)
      BY DEF TypeOK
    <3>1. \A x \in PanelMessages : Append(down[s], x) # <<>>
      BY <3>0, AppendProperties
    <3> QED
      BY <1>5, <2>2, <3>1 DEF Handle, PanelMessages, TypeOK
  <2>4. up[s][1].type # "Hello" => down'[s] = down[s]
    BY <1>5, <2>2 DEF Handle, TypeOK
  <2>5. ASSUME NEW i \in 1 .. Len(up[s]), up[s][i].type = "Hello"
        PROVE  down'[s] # <<>> \/ \E k \in 1 .. Len(up'[s]) : up'[s][k].type = "Hello"
    <3>1. CASE i = 1
      BY <3>1, <2>3, <2>5
    <3>2. CASE i # 1
      <4>1. Len(up'[s]) = Len(up[s]) - 1 /\ \A k \in 1 .. Len(up'[s]) : up'[s][k] = up[s][k + 1]
        BY <2>1, <1>0, HeadTailProperties DEF TypeOK
      <4>2. i - 1 \in 1 .. Len(up'[s]) /\ up'[s][i - 1] = up[s][i]
        BY <4>1, <3>2, <1>0
      <4> QED
        BY <4>2, <2>5
    <3> QED
      BY <3>1, <3>2
  <2>6. HelloComesFirst'
    BY <2>1 DEF TypeOK
  <2>7. CASE s = sess
    <3>1. down[s] # <<>> => down'[s] # <<>>
      BY <2>3, <2>4
    <3> QED
      BY <2>1, <1>m, <2>5, <2>6, <2>7, <3>1
  <2>8. CASE s # sess
    BY <2>1, <1>m, <2>6, <2>8, <1>0 DEF TypeOK
  <2> QED
    BY <2>7, <2>8
<1>6. CASE Notify \/ SyncNode
  BY <1>6, <1>notify DEF Notify, SyncNode, streamVars, agentVars
<1>7. ASSUME NEW v \in AgentVersions, Dial(v) PROVE Goal
  <2>1. opened + 1 \in Streams
    BY <1>7, StreamFacts DEF Dial, TypeOK
  <2>2. /\ up' = [up EXCEPT ![opened + 1] = <<Hello(v)>>] /\ sess' = opened + 1
        /\ srv' = [srv EXCEPT ![opened + 1] = "new"]
    BY <1>7 DEF Dial
  <2>3. up'[opened + 1] = <<Hello(v)>>
    BY <2>1, <2>2 DEF TypeOK
  <2>4. Len(up'[opened + 1]) = 1 /\ up'[opened + 1][1].type = "Hello"
    BY <2>3 DEF Hello
  <2>5. HelloComesFirst'
    BY <2>1, <2>2, <2>4 DEF TypeOK
  <2> QED
    BY <2>2, <2>4, <2>5
<1>8. CASE Receive \/ SessionError \/ AgentRestart
  BY <1>8, <1>m DEF Receive, SessionError, AgentRestart, CloseSession
<1>9. CASE ReconcileTimer
  BY <1>9, <1>m DEF ReconcileTimer, streamVars
<1>10. CASE HeartbeatTimer
  BY <1>10, <1>send DEF HeartbeatTimer, AtSelect, agentVars, hubVars, historyVars
<1>11. CASE FetchSnapshot \/ FetchFails
  BY <1>11, <1>m DEF FetchSnapshot, FetchFails, streamVars
<1>12. ASSUME NEW o \in Outcomes, Converge(o) PROVE Goal
  <2>1. sess # 0 /\ (pc' = "fetch" <=> pc = "fetch")
    BY <1>12 DEF Converge, TypeOK
  <2> QED
    BY <1>12, <1>send, <2>1 DEF Converge, hubVars
<1>13. CASE PanelRestart
  <2>1. sess # 0 => srv[sess] # "none"
    BY <1>0 DEF OneStreamCounts, TypeOK
  <2> QED
    BY <1>13, <1>m, <1>0, <2>1 DEF PanelRestart, agentVars, TypeOK
<1>14. CASE \/ ChangeService \/ WriteSubject \/ Republish \/ RepublishFails
            \/ DisableNode \/ EnableNode \/ GoStale \/ Sweep \/ NetworkBreaks
            \/ UNCHANGED vars \/ \E enable \in BOOLEAN : SetMaintenance(enable)
  BY <1>14, <1>same
  DEF vars, hubVars, streamVars, agentVars, historyVars, ChangeService, WriteSubject,
      Republish, RepublishFails, SetMaintenance, DisableNode, EnableNode, GoStale,
      Sweep, NetworkBreaks
<1> QED
  BY <1>1, <1>2, <1>4, <1>5, <1>6, <1>7, <1>8, <1>9, <1>10, <1>11, <1>12, <1>13, <1>14
  DEF Next

-----------------------------------------------------------------------------
(* The theorems. *)

\* Everything holds of an enrolled node nothing has been committed for.
LEMMA InitEstablishes ==
    Init => /\ TypeOK /\ RevisionLog /\ InFlightIsSound /\ AppliedWasConfirmed
            /\ OnlyIssuedDocuments /\ NoFalseAlarm /\ OneStreamCounts
            /\ RegisteredStreamIsLive /\ HelloComesFirst /\ WakeUpOnItsWay
<1> SUFFICES ASSUME Init
             PROVE  /\ TypeOK /\ RevisionLog /\ InFlightIsSound /\ AppliedWasConfirmed
                    /\ OnlyIssuedDocuments /\ NoFalseAlarm /\ OneStreamCounts
                    /\ RegisteredStreamIsLive /\ HelloComesFirst /\ WakeUpOnItsWay
  OBVIOUS
<1>1. TypeOK
  <2>1. 0 \in 0 .. MaxStreams /\ <<>> \in Seq(Docs) /\ <<>> \in Seq(AgentMessages)
        /\ <<>> \in Seq(PanelMessages)
    BY BoundsAssumption
  <2> QED
    BY <2>1 DEF Init, TypeOK, Statuses
<1>2. RevisionLog /\ AppliedWasConfirmed /\ NoFalseAlarm
  BY DEF Init, RevisionLog, AppliedWasConfirmed, NoFalseAlarm
<1>3. InFlightIsSound /\ OnlyIssuedDocuments
  BY DEF Init, InFlightIsSound, OnlyIssuedDocuments, NoSnapshot
<1>4. OneStreamCounts /\ RegisteredStreamIsLive /\ HelloComesFirst /\ WakeUpOnItsWay
  BY StreamFacts DEF Init, OneStreamCounts, RegisteredStreamIsLive, HelloComesFirst,
                     WakeUpOnItsWay
<1> QED
  BY <1>1, <1>2, <1>3, <1>4

\* The types hold in every reachable state, whatever the bounds.
THEOREM TypeCorrect == Spec => []TypeOK
<1>1. Init => TypeOK
  BY InitEstablishes
<1>2. TypeOK /\ [Next]_vars => TypeOK'
  BY TypeStep
<1> QED
  BY <1>1, <1>2, PTL DEF Spec

\* CommitNodeChange keeps the revision log dense, correctly labelled and free
\* of repetitions, whatever runs beside it.
THEOREM LogIsSound == Spec => []RevisionLog
<1>1. Init => RevisionLog
  BY InitEstablishes
<1>2. TypeOK /\ RevisionLog /\ [Next]_vars => RevisionLog'
  BY LogStep
<1> QED
  BY <1>1, <1>2, TypeCorrect, PTL DEF Spec

\* RecordApplyRun only lets applied_revision name a document that a Converge
\* pass confirmed, however late or over whichever stream its report arrives.
THEOREM AppliedIsConfirmed == Spec => []AppliedWasConfirmed
<1>1. Init => InFlightIsSound /\ AppliedWasConfirmed
  BY InitEstablishes
<1>2. TypeOK /\ RevisionLog /\ InFlightIsSound /\ AppliedWasConfirmed /\ [Next]_vars
        => InFlightIsSound' /\ AppliedWasConfirmed'
  BY InFlightStep, AppliedStep
<1> QED
  BY <1>1, <1>2, TypeCorrect, LogIsSound, PTL DEF Spec

\* When every change goes through CommitNodeChange, RecordApplyRun never
\* accuses an honest agent.
THEOREM NoFalseAlarms == Spec => []NoFalseAlarm
<1>1. Init => OnlyIssuedDocuments /\ NoFalseAlarm
  BY InitEstablishes
<1>2. TypeOK /\ RevisionLog /\ OnlyIssuedDocuments /\ NoFalseAlarm /\ [Next]_vars
        => OnlyIssuedDocuments' /\ NoFalseAlarm'
  BY OnlyIssuedStep, NoFalseAlarmStep
<1> QED
  BY <1>1, <1>2, TypeCorrect, LogIsSound, PTL DEF Spec

\* The hub's entry always has open channels and a handler that drains them.
THEOREM HubEntryIsLive == Spec => []RegisteredStreamIsLive
<1>1. Init => OneStreamCounts /\ RegisteredStreamIsLive
  BY InitEstablishes
<1>2. TypeOK /\ OneStreamCounts /\ RegisteredStreamIsLive /\ [Next]_vars
        => OneStreamCounts' /\ RegisteredStreamIsLive'
  BY StreamStep
<1> QED
  BY <1>1, <1>2, TypeCorrect, PTL DEF Spec

\* A bump Hub.Notify drops is never the only word the agent would have had.
THEOREM WakeUpsAreNotLost == Spec => []NoLostWakeUp
<1>1. Init => /\ OneStreamCounts /\ RegisteredStreamIsLive
              /\ HelloComesFirst /\ WakeUpOnItsWay
  BY InitEstablishes
<1>2. /\ TypeOK /\ OneStreamCounts /\ RegisteredStreamIsLive
      /\ HelloComesFirst /\ WakeUpOnItsWay /\ [Next]_vars
      => /\ OneStreamCounts' /\ RegisteredStreamIsLive'
         /\ HelloComesFirst' /\ WakeUpOnItsWay'
  BY StreamStep, WakeUpStep
<1>3. WakeUpOnItsWay => NoLostWakeUp
  BY DEF WakeUpOnItsWay, NoLostWakeUp
<1> QED
  BY <1>1, <1>2, <1>3, TypeCorrect, PTL DEF Spec

\* Only the sweep writes offline, and it asks for silence; whoever hears from the node
\* afterwards takes offline away in the same write.
LEMMA OfflineStep == OfflineMeansSilent /\ [Next]_vars => OfflineMeansSilent'
<1> SUFFICES ASSUME OfflineMeansSilent, [Next]_vars PROVE OfflineMeansSilent'
  OBVIOUS
<1> USE DEF storeVars, pendingVars, hubVars, streamVars, agentVars, historyVars,
            OfflineMeansSilent
<1>1. ASSUME UNCHANGED <<status, seen>> PROVE OfflineMeansSilent'
  BY <1>1
<1>2. ASSUME NEW s \in Streams, Handle(s) PROVE OfflineMeansSilent'
  <2>1. CASE RecordHello
    BY <2>1 DEF RecordHello
  <2>2. CASE RecordHeartbeat
    BY <2>2 DEF RecordHeartbeat
  <2>3. ASSUME NEW d, NEW o, RecordApplyRun(d, o) PROVE OfflineMeansSilent'
    BY <2>3 DEF RecordApplyRun
  <2>4. CASE UNCHANGED storeVars
    BY <1>1, <2>4
  <2> QED
    BY <1>2, <2>1, <2>2, <2>3, <2>4 DEF Handle
<1>3. ASSUME NEW enable \in BOOLEAN, SetMaintenance(enable) PROVE OfflineMeansSilent'
  BY <1>3 DEF SetMaintenance
<1>4. CASE DisableNode \/ EnableNode \/ GoStale \/ Sweep
  BY <1>4 DEF DisableNode, EnableNode, GoStale, Sweep
<1>5. CASE ChangeService \/ WriteSubject \/ Republish \/ RepublishFails \/ Notify \/ SyncNode
  BY <1>1, <1>5 DEF ChangeService, WriteSubject, Republish, RepublishFails, Notify, SyncNode
<1>6. ASSUME NEW s \in Streams,
             \/ AcceptStream(s) \/ SendBump(s) \/ Superseded(s) \/ HandlerSeesCut(s)
             \/ HandlerFails(s)
      PROVE  OfflineMeansSilent'
  BY <1>1, <1>6 DEF AcceptStream, SendBump, Superseded, HandlerSeesCut, HandlerFails, EndHandler
<1>7. ASSUME \/ \E v \in AgentVersions : Dial(v)
             \/ Receive \/ ReconcileTimer \/ HeartbeatTimer \/ FetchSnapshot \/ FetchFails
             \/ \E o \in Outcomes : Converge(o)
      PROVE  OfflineMeansSilent'
  BY <1>1, <1>7 DEF Dial, Receive, ReconcileTimer, HeartbeatTimer, FetchSnapshot, FetchFails,
                    Converge
<1>8. CASE SessionError \/ NetworkBreaks \/ AgentRestart \/ PanelRestart
  BY <1>1, <1>8 DEF SessionError, NetworkBreaks, AgentRestart, PanelRestart
<1>9. CASE UNCHANGED vars
  BY <1>1, <1>9 DEF vars
<1> QED
  BY <1>2, <1>3, <1>4, <1>5, <1>6, <1>7, <1>8, <1>9 DEF Next

\* A node the panel has heard from is never shown offline, in whatever order the sweep,
\* the handlers of several streams and the operators' requests write the column.
THEOREM OfflineNodesAreSilent == Spec => []OfflineMeansSilent
<1>1. Init => OfflineMeansSilent
  BY DEF Init, OfflineMeansSilent
<1> QED
  BY <1>1, OfflineStep, PTL DEF Spec

-----------------------------------------------------------------------------
(* The refinement of DesiredState. *)

\* What each step may change of the revision log, the confirmations and
\* applied_revision.
LEMMA DesiredStateSteps ==
    TypeOK /\ [Next]_vars =>
        \/ /\ \E c \in Contents, notify \in BOOLEAN : CommitNodeChange(c, notify)
           /\ UNCHANGED <<applied, confirmed>>
        \/ (\E s \in Streams : Handle(s)) /\ UNCHANGED <<revisions, confirmed>>
        \/ (\E o \in Outcomes : Converge(o)) /\ UNCHANGED <<revisions, applied>>
        \/ UNCHANGED <<revisions, applied, confirmed>>
<1> SUFFICES ASSUME TypeOK, [Next]_vars,
                    ~ UNCHANGED <<revisions, applied, confirmed>>
             PROVE  \/ /\ \E c \in Contents, notify \in BOOLEAN : CommitNodeChange(c, notify)
                       /\ UNCHANGED <<applied, confirmed>>
                    \/ (\E s \in Streams : Handle(s)) /\ UNCHANGED <<revisions, confirmed>>
                    \/ (\E o \in Outcomes : Converge(o)) /\ UNCHANGED <<revisions, applied>>
  OBVIOUS
<1> USE DEF storeVars, pendingVars, hubVars, streamVars, agentVars, historyVars
<1>1. CASE ChangeService
  BY <1>1 DEF ChangeService
<1>2. CASE Republish
  BY <1>2 DEF Republish, TypeOK
<1>3. ASSUME NEW s \in Streams, Handle(s) PROVE UNCHANGED <<revisions, confirmed>>
  BY <1>3 DEF Handle, RecordHello, RecordHeartbeat, RecordApplyRun
<1>4. ASSUME NEW s \in Streams, \/ AcceptStream(s) \/ SendBump(s) \/ Superseded(s)
                               \/ HandlerSeesCut(s) \/ HandlerFails(s)
      PROVE UNCHANGED <<revisions, applied, confirmed>>
  BY <1>4 DEF AcceptStream, SendBump, Superseded, HandlerSeesCut, HandlerFails, EndHandler
<1>5. ASSUME NEW o \in Outcomes, Converge(o) PROVE UNCHANGED <<revisions, applied>>
  BY <1>5 DEF Converge
<1> QED
  BY <1>1, <1>2, <1>3, <1>4, <1>5
  DEF Next, vars, WriteSubject, RepublishFails, Notify, SetMaintenance, DisableNode,
      EnableNode, SyncNode, GoStale, Sweep, Dial, Receive, ReconcileTimer,
      HeartbeatTimer, FetchSnapshot, FetchFails, SessionError, NetworkBreaks,
      AgentRestart, PanelRestart

\* A report that moves applied_revision is of no revision or of a confirmed one.
LEMMA ReportAcknowledges ==
    ASSUME TypeOK, InFlightIsSound, NEW s \in Streams, Handle(s), applied' # applied
    PROVE  applied' = 0 \/ \E d \in confirmed : d.rev = applied'
<1> DEFINE m == Head(up[s])
<1>1. m.type = "ApplyReport" /\ RecordApplyRun(m.doc, m.outcome)
  BY DEF Handle, RecordHello, RecordHeartbeat, storeVars
<1>2. /\ m.outcome = "converged" /\ applied' = m.doc.rev
      /\ m.doc.rev > 0 => m.doc.rev \in DOMAIN revisions /\ m.doc = revisions[m.doc.rev]
  BY <1>1 DEF RecordApplyRun
<1>3. up[s] \in Seq(AgentMessages) /\ up[s] # <<>>
  BY DEF Handle, TypeOK
<1>4. m = up[s][1] /\ 1 \in 1 .. Len(up[s]) /\ m \in AgentMessages
  BY <1>3
<1>5. ReportIsSound(m)
  BY <1>4 DEF InFlightIsSound
<1> HIDE DEF m
<1>6. m.doc.rev \in Nat
  BY <1>1, <1>4 DEF AgentMessages, Heartbeat, Docs
<1>7. m.doc.rev > 0 => m.doc \in confirmed
  BY <1>1, <1>2, <1>5 DEF ReportIsSound, Issued
<1> QED
  BY <1>2, <1>6, <1>7

\* Every step of the control loop issues a revision, confirms one, acknowledges
\* one, or does nothing of the kind.
LEMMA DesiredStateStep ==
    TypeOK /\ RevisionLog /\ InFlightIsSound /\ [Next]_vars
        => [State!StateNext]_(State!stateVars)
<1> SUFFICES ASSUME TypeOK, RevisionLog, InFlightIsSound, [Next]_vars
             PROVE  [State!StateNext]_(State!stateVars)
  OBVIOUS
<1> DEFINE issued == [r \in DOMAIN revisions |-> revisions[r].content]
           reached == {d.rev : d \in confirmed}
<1>0. /\ desired \in Nat /\ revisions \in Seq(Docs) /\ Len(revisions) = desired
      /\ DOMAIN revisions = 1 .. desired
      /\ \A r \in 1 .. desired : revisions[r] \in Docs /\ revisions[r].rev = r
  <2>1. desired \in Nat /\ revisions \in Seq(Docs) /\ Len(revisions) = desired
    BY DEF TypeOK, RevisionLog
  <2> QED
    BY <2>1, LenProperties, ElementOfSeq DEF RevisionLog
<1>1. CASE UNCHANGED <<revisions, applied, confirmed>>
  BY <1>1 DEF State!stateVars
<1>2. CASE /\ \E c \in Contents, notify \in BOOLEAN : CommitNodeChange(c, notify)
           /\ UNCHANGED <<applied, confirmed>>
           /\ ~ UNCHANGED <<desired, revisions>>
  <2>1. PICK c \in Contents, notify \in BOOLEAN : CommitNodeChange(c, notify)
    BY <1>2
  <2>2. /\ desired' = desired + 1
        /\ Len(revisions') = desired + 1
        /\ revisions'[desired + 1] = Doc(desired + 1, c)
        /\ \A r \in 1 .. desired : revisions'[r] = revisions[r]
        /\ desired > 0 => revisions[desired].content # c
    BY <1>2, <2>1, CommitAppends
  <2>3. DOMAIN revisions' = 1 .. desired + 1
    BY <2>2, TypeStep, LenProperties DEF TypeOK
  <2>4. /\ issued \in Seq(Contents) /\ Len(issued) = desired
        /\ \A r \in 1 .. desired : issued[r] = revisions[r].content
    <3>1. \A r \in 1 .. desired : revisions[r].content \in Contents
      BY <1>0 DEF Docs
    <3> QED
      BY <1>0, <3>1
  <2>5. issued' = Append(issued, c)
    <3>1. /\ Len(Append(issued, c)) = desired + 1
          /\ DOMAIN Append(issued, c) = 1 .. desired + 1
          /\ \A r \in 1 .. desired : Append(issued, c)[r] = issued[r]
          /\ Append(issued, c)[desired + 1] = c
      BY <2>4, AppendProperties, LenProperties
    <3>2. \A r \in 1 .. desired + 1 : revisions'[r].content = Append(issued, c)[r]
      <4> SUFFICES ASSUME NEW r \in 1 .. desired + 1
                   PROVE  revisions'[r].content = Append(issued, c)[r]
        OBVIOUS
      <4>1. CASE r = desired + 1
        BY <2>2, <3>1, <4>1 DEF Doc
      <4>2. CASE r \in 1 .. desired
        BY <2>2, <2>4, <3>1, <4>2
      <4> QED
        BY <1>0, <4>1, <4>2
    <3>3. Append(issued, c) = [r \in 1 .. desired + 1 |-> Append(issued, c)[r]]
      BY <2>4, <3>1, AppendProperties
    <3> QED
      BY <2>3, <3>2, <3>3
  <2>6. issued # <<>> => issued[Len(issued)] # c
    BY <1>0, <2>2, <2>4
  <2>7. reached' = reached /\ applied' = applied
    BY <1>2
  <2>8. State!Issue(c)
    BY <2>5, <2>6, <2>7 DEF State!Issue
  <2> QED
    BY <2>8 DEF State!StateNext
<1>3. ASSUME NEW s \in Streams, Handle(s), UNCHANGED <<revisions, confirmed>>,
             applied' # applied
      PROVE  State!StateNext
  <2>1. applied' = 0 \/ applied' \in reached
    BY <1>3, ReportAcknowledges
  <2>2. State!Acknowledge(applied')
    BY <1>3, <2>1 DEF State!Acknowledge
  <2> QED
    BY <2>1, <2>2 DEF State!StateNext
<1>4. ASSUME NEW o \in Outcomes, Converge(o), UNCHANGED <<revisions, applied>>,
             confirmed' # confirmed
      PROVE  State!StateNext
  <2>1. snap \in Issued /\ confirmed' = confirmed \cup {snap}
    BY <1>4 DEF Converge
  <2>2. snap.rev \in DOMAIN revisions
    BY <1>0, <2>1 DEF Issued
  <2>3. PICK r \in DOMAIN issued : r = snap.rev
    BY <2>2
  <2>4. reached' = reached \cup {r}
    BY <2>1, <2>3
  <2>5. State!Confirm(r)
    BY <1>4, <2>4 DEF State!Confirm
  <2> QED
    BY <2>5 DEF State!StateNext
<1>5. CASE UNCHANGED <<desired, revisions, applied, confirmed>>
  BY <1>1, <1>5
<1> QED
  BY <1>1, <1>2, <1>3, <1>4, <1>5, DesiredStateSteps

\* CommitNodeChange, RecordApplyRun and the agent's passes together keep what
\* DesiredState says of revisions: none is changed or repeated once issued, and
\* applied_revision moves to confirmed ones only.
THEOREM LoopImplementsDesiredState == Spec => ImplementsDesiredState
<1>1. Init => State!StateInit
  BY DEF Init, State!StateInit
<1>2. TypeOK /\ RevisionLog /\ InFlightIsSound /\ [Next]_vars
        => [State!StateNext]_(State!stateVars)
  BY DesiredStateStep
<1>3. Init => InFlightIsSound
  BY InitEstablishes
<1>4. TypeOK /\ RevisionLog /\ InFlightIsSound /\ [Next]_vars => InFlightIsSound'
  BY InFlightStep
<1> QED
  BY <1>1, <1>2, <1>3, <1>4, TypeCorrect, LogIsSound, PTL
  DEF Spec, ImplementsDesiredState, State!StateSpec
=============================================================================
