------------------------ MODULE SubjectPublishProofs ------------------------
(***************************************************************************)
(* Proofs about SubjectPublish, for any nodes, requests and sweepers.      *)
(***************************************************************************)
EXTENDS SubjectPublish, TLAPS

\* What Goto leaves behind.
LEMMA GotoFacts ==
    ASSUME TypeOK, NEW a \in Actors, NEW nodes \in SUBSET Nodes,
           NEW step \in {"idle", "update", "delete", "resolve", "publish",
                         "nodes", "retire", "freeze", "reset"},
           Goto(a, step, nodes)
    PROVE  /\ pc' \in [Actors -> {"idle", "update", "delete", "resolve", "publish",
                                  "nodes", "retire", "freeze", "reset"}]
           /\ todo' \in [Actors -> SUBSET Nodes]
           /\ pc'[a] = step \/ (step = "publish" /\ nodes = {} /\ pc'[a] = "idle")
           /\ todo'[a] = nodes
           /\ \A b \in Actors : b # a => pc'[b] = pc[b] /\ todo'[b] = todo[b]
BY DEF Goto, TypeOK

\* The sweepers are actors, and no request is one of them.
LEMMA SweepersAreActors ==
    /\ "expiry" \in Actors /\ "enforce" \in Actors /\ "reset" \in Actors
    /\ \A a \in Callers : a \in Actors /\ a # "expiry"
BY PublishSetsAssumption DEF Actors, SweeperNames

\* The changes an operation of the service makes to the row keep its type.
LEMMA RowChanges ==
    ASSUME row \in Rows
    PROVE  /\ \A on \in BOOLEAN : [row EXCEPT !.enabled = on] \in Rows
           /\ \A f \in {"no", "quota", "operator"} : [row EXCEPT !.frozen = f] \in Rows
           /\ \A on \in BOOLEAN, f \in {"no", "quota", "operator"} :
                [row EXCEPT !.enabled = on, !.frozen = f] \in Rows
           /\ \A e \in {"never", "future", "past"} : [row EXCEPT !.expiry = e] \in Rows
           /\ \A on \in BOOLEAN, e \in {"never", "future", "past"}, g \in SUBSET Nodes :
                [row EXCEPT !.enabled = on, !.expiry = e, !.grants = g] \in Rows
           /\ [row EXCEPT !.cred = @ + 1] \in Rows
           /\ [row EXCEPT !.life = "deleted", !.grants = {}] \in Rows
           /\ \A g \in SUBSET Nodes, e \in {"never", "future"} : NewRow(g, e) \in Rows
           /\ row.grants \in SUBSET Nodes /\ row.cred \in Nat
           /\ \A n \in Nodes : Serving(n) \in Nat
<1>1. /\ \A on \in BOOLEAN : [row EXCEPT !.enabled = on] \in Rows
      /\ \A f \in {"no", "quota", "operator"} : [row EXCEPT !.frozen = f] \in Rows
  BY DEF Rows
<1>2. \A on \in BOOLEAN, f \in {"no", "quota", "operator"} :
        [row EXCEPT !.enabled = on, !.frozen = f] \in Rows
  BY DEF Rows
<1>3. \A e \in {"never", "future", "past"} : [row EXCEPT !.expiry = e] \in Rows
  BY DEF Rows
<1>4. \A on \in BOOLEAN, e \in {"never", "future", "past"}, g \in SUBSET Nodes :
        [row EXCEPT !.enabled = on, !.expiry = e, !.grants = g] \in Rows
  BY DEF Rows
<1>5. row.grants \in SUBSET Nodes /\ row.cred \in Nat
  BY DEF Rows
<1>6. [row EXCEPT !.cred = @ + 1] \in Rows
  BY <1>5 DEF Rows
<1>7. [row EXCEPT !.life = "deleted", !.grants = {}] \in Rows
  BY DEF Rows
<1>8. \A g \in SUBSET Nodes, e \in {"never", "future"} : NewRow(g, e) \in Rows
  BY DEF Rows, NewRow
<1>9. \A n \in Nodes : Serving(n) \in Nat
  BY <1>5 DEF Serving
<1> QED
  BY <1>1, <1>2, <1>3, <1>4, <1>5, <1>6, <1>7, <1>8, <1>9

\* What a call of the service does: it takes one of the calls left, keeps the
\* row's type and goes to its first step.
LEMMA CallFacts ==
    ASSUME TypeOK, NEW a \in Callers, ServiceCall(a)
    PROVE  /\ row' \in Rows /\ off' \in BOOLEAN
           /\ calls' \in 0 .. MaxCalls /\ UNCHANGED World
           /\ \E step \in {"resolve", "publish", "update", "delete"}, nodes \in SUBSET Nodes :
                Goto(a, step, nodes)
<1> DEFINE Facts == /\ row' \in Rows /\ off' \in BOOLEAN
                    /\ Call(a) /\ UNCHANGED World
                    /\ \E step \in {"resolve", "publish", "update", "delete"},
                          nodes \in SUBSET Nodes : Goto(a, step, nodes)
<1>0. row \in Rows /\ off \in BOOLEAN /\ row.grants \in SUBSET Nodes /\ {} \in SUBSET Nodes
  BY RowChanges DEF TypeOK
<1>1. ASSUME NEW g \in SUBSET Nodes, NEW e \in {"never", "future"}, Create(a, g, e)  PROVE  Facts
  <2>1. row' \in Rows
    BY <1>0, <1>1, RowChanges DEF Create
  <2> QED
    BY <1>0, <1>1, <2>1 DEF Create
<1>2. ASSUME NEW g \in SUBSET Nodes, NEW e \in {"never", "future"}, Provision(a, g, e)  PROVE  Facts
  <2>1. row' \in Rows
    BY <1>0, <1>2, RowChanges DEF Provision
  <2> QED
    BY <1>0, <1>2, <2>1 DEF Provision
<1>3. ASSUME Update(a)  PROVE  Facts
  <2>1. Goto(a, "update", row.grants)
    BY <1>3 DEF Update
  <2>2. \E step \in {"resolve", "publish", "update", "delete"}, nodes \in SUBSET Nodes :
          Goto(a, step, nodes)
    BY <1>0, <2>1
  <2>3. row' = row /\ off' = off /\ Call(a) /\ UNCHANGED World
    BY <1>3 DEF Update
  <2>4. row' \in Rows
    BY <1>0, <2>3
  <2>5. off' \in BOOLEAN
    BY <1>0, <2>3
  <2> QED
    BY <2>2, <2>3, <2>4, <2>5
<1>4. ASSUME Delete(a)  PROVE  Facts
  <2>1. Goto(a, "delete", row.grants)
    BY <1>4 DEF Delete
  <2>2. \E step \in {"resolve", "publish", "update", "delete"}, nodes \in SUBSET Nodes :
          Goto(a, step, nodes)
    BY <1>0, <2>1
  <2>3. row' = row /\ off' = off /\ Call(a) /\ UNCHANGED World
    BY <1>4 DEF Delete
  <2>4. row' \in Rows
    BY <1>0, <2>3
  <2>5. off' \in BOOLEAN
    BY <1>0, <2>3
  <2> QED
    BY <2>2, <2>3, <2>4, <2>5
<1>5. ASSUME RotateCredential(a)  PROVE  Facts
  <2>1. row' \in Rows
    BY <1>0, <1>5, RowChanges DEF RotateCredential
  <2>2. Goto(a, "resolve", {}) /\ off' = off /\ Call(a) /\ UNCHANGED World
    BY <1>5 DEF RotateCredential
  <2>3. off' \in BOOLEAN
    BY <1>0, <2>2
  <2>4. \E step \in {"resolve", "publish", "update", "delete"}, nodes \in SUBSET Nodes :
          Goto(a, step, nodes)
    BY <1>0, <2>2
  <2> QED
    BY <2>1, <2>2, <2>3, <2>4
<1>6. ASSUME NEW on \in BOOLEAN, SetEnabled(a, on)  PROVE  Facts
  <2>1. row' \in Rows
    BY <1>0, <1>6, RowChanges DEF SetEnabled
  <2>2. off' \in BOOLEAN
    BY <1>6 DEF SetEnabled
  <2> QED
    BY <1>0, <1>6, <2>1, <2>2 DEF SetEnabled
<1>7. ASSUME NEW on \in BOOLEAN, SetFrozen(a, on)  PROVE  Facts
  <2>1. row' \in Rows
    BY <1>0, <1>7, RowChanges DEF SetFrozen
  <2> QED
    BY <1>0, <1>7, <2>1 DEF SetFrozen
<1> HIDE DEF Facts
<1>8. Facts
  BY <1>1, <1>2, <1>3, <1>4, <1>5, <1>6, <1>7 DEF ServiceCall
<1>9. calls' \in 0 .. MaxCalls
  BY <1>8, PublishBoundsAssumption DEF Facts, Call, TypeOK
<1> QED
  BY <1>8, <1>9 DEF Facts

\* The same for the later steps of a call.
LEMMA StepFacts ==
    ASSUME TypeOK, NEW a \in Callers, ServiceStep(a)
    PROVE  /\ row' \in Rows /\ off' \in BOOLEAN
           /\ calls' = calls /\ UNCHANGED <<overQuota, resetDue, unfreeze, published, lost>>
           /\ overtaken' \subseteq Nodes /\ overtaken \subseteq overtaken'
           /\ \E step \in {"resolve", "publish", "idle"}, nodes \in SUBSET Nodes :
                Goto(a, step, nodes)
<1>0. /\ row \in Rows /\ off \in BOOLEAN /\ row.grants \in SUBSET Nodes /\ {} \in SUBSET Nodes
      /\ todo[a] \in SUBSET Nodes /\ overtaken \subseteq Nodes
  BY RowChanges, SweepersAreActors DEF TypeOK
<1>1. CASE UpdateWrite(a)
  <2>1. CASE Live
    <3>1. PICK on \in BOOLEAN, e \in {"never", "future", "past"}, g \in SUBSET Nodes :
            /\ row' = [row EXCEPT !.enabled = on, !.expiry = e, !.grants = g]
            /\ off' = IF on # row.enabled THEN ~on ELSE off
      BY <1>0, <1>1, <2>1 DEF UpdateWrite
    <3>2. row' \in Rows
      BY <1>0, <3>1, RowChanges
    <3>3. off' \in BOOLEAN
      BY <1>0, <3>1
    <3>4. overtaken' \subseteq Nodes /\ overtaken \subseteq overtaken'
      BY <1>0, <1>1, <2>1 DEF UpdateWrite, Overtake
    <3> QED
      BY <1>0, <1>1, <2>1, <3>2, <3>3, <3>4 DEF UpdateWrite
  <2>2. CASE ~Live
    BY <1>0, <1>1, <2>2 DEF UpdateWrite, Return
  <2> QED
    BY <2>1, <2>2
<1>2. CASE DeleteWrite(a)
  <2>1. row' \in Rows
    BY <1>0, <1>2, RowChanges DEF DeleteWrite
  <2>2. overtaken' \subseteq Nodes /\ overtaken \subseteq overtaken'
    BY <1>0, <1>2 DEF DeleteWrite, Overtake
  <2> QED
    BY <1>0, <1>2, <2>1, <2>2 DEF DeleteWrite, Return
<1>3. CASE Resolve(a)
  BY <1>0, <1>3 DEF Resolve, World
<1> QED
  BY <1>1, <1>2, <1>3 DEF ServiceStep

\* Every step keeps the types.
LEMMA TypeStep ==
    ASSUME TypeOK, [Next]_vars
    PROVE  TypeOK'
<1> USE PublishBoundsAssumption
<1>0. row \in Rows /\ ServingNodes \in SUBSET Nodes /\ row.grants \in SUBSET Nodes
  BY RowChanges, PublishSetsAssumption DEF TypeOK
<1>1. ASSUME NEW a \in Callers, ServiceCall(a)  PROVE  TypeOK'
  <2>1. PICK step \in {"resolve", "publish", "update", "delete"}, nodes \in SUBSET Nodes :
          Goto(a, step, nodes)
    BY <1>1, CallFacts
  <2> QED
    BY <1>1, <2>1, CallFacts, GotoFacts, SweepersAreActors DEF TypeOK, World
<1>2. ASSUME NEW a \in Callers, ServiceStep(a)  PROVE  TypeOK'
  <2>1. PICK step \in {"resolve", "publish", "idle"}, nodes \in SUBSET Nodes :
          Goto(a, step, nodes)
    BY <1>2, StepFacts
  <2> QED
    BY <1>2, <2>1, StepFacts, GotoFacts, SweepersAreActors DEF TypeOK
<1>3. ASSUME NEW a \in Actors, NEW n \in Nodes, CommitNode(a, n)  PROVE  TypeOK'
  <2>1. published' \in [Nodes -> Nat] /\ lost' \subseteq Nodes /\ overtaken' \subseteq Nodes
    BY <1>3, <1>0, RowChanges DEF CommitNode, TypeOK
  <2>2. todo[a] \ {n} \in SUBSET Nodes /\ Goto(a, "publish", todo[a] \ {n})
    BY <1>3 DEF CommitNode, TypeOK
  <2> QED
    BY <1>3, <2>1, <2>2, GotoFacts DEF CommitNode, TypeOK
<1>4. ASSUME NEW a \in Actors, NEW n \in Nodes, CommitFails(a, n)  PROVE  TypeOK'
  <2>1. lost' \subseteq Nodes
    BY <1>4 DEF CommitFails, TypeOK
  <2>2. PICK step \in {"publish", "idle"}, nodes \in SUBSET Nodes : Goto(a, step, nodes)
    BY <1>4 DEF CommitFails, Return, TypeOK
  <2> QED
    BY <1>4, <2>1, <2>2, GotoFacts DEF CommitFails, TypeOK
<1>5. CASE SweeperStep
  <2> USE SweepersAreActors, RowChanges, <1>0
  <2>1. row' \in Rows /\ {overQuota, resetDue, off, unfreeze}' \subseteq BOOLEAN
    BY <1>5 DEF SweeperStep, ExpiryScan, ExpiryNodes, ExpiryRetire, EnforceScan, freezeSubject,
                ResetScan, resetSubject, TypeOK, World
  <2>2. UNCHANGED <<published, calls, lost>> /\ overtaken' \subseteq Nodes
    BY <1>5 DEF SweeperStep, ExpiryScan, ExpiryNodes, ExpiryRetire, EnforceScan, freezeSubject,
                ResetScan, resetSubject, World, Overtake, TypeOK
  <2>3. todo["expiry"] \in SUBSET Nodes
    BY DEF TypeOK
  <2>4. PICK a \in Actors, step \in {"nodes", "retire", "publish", "freeze", "reset", "idle"},
             nodes \in SUBSET Nodes : Goto(a, step, nodes)
    BY <1>5, <2>3 DEF SweeperStep, ExpiryScan, ExpiryNodes, ExpiryRetire, EnforceScan,
                      freezeSubject, ResetScan, resetSubject, Return
  <2> QED
    BY <2>1, <2>2, <2>4, GotoFacts DEF TypeOK
<1>6. CASE TimePasses
  BY <1>6, <1>0, RowChanges DEF TimePasses, TypeOK
<1>7. CASE Restart
  <2>1. lost' \subseteq Nodes
    BY <1>7, <1>0 DEF Restart, TypeOK
  <2> QED
    BY <1>7, <2>1 DEF Restart, TypeOK
<1>8. CASE UNCHANGED vars
  BY <1>8 DEF vars, TypeOK
<1> QED
  BY <1>1, <1>2, <1>3, <1>4, <1>5, <1>6, <1>7, <1>8 DEF Next, PublishStep

\* A step publishes what the tables say, on one node and leaving the row, or nothing.
LEMMA PublishKinds ==
    ASSUME TypeOK, [Next]_vars
    PROVE  \/ published' = published
           \/ row' = row /\ \E m \in Nodes : published' = [published EXCEPT ![m] = Serving(m)]
<1>1. ASSUME NEW a \in Callers, ServiceCall(a) \/ ServiceStep(a)  PROVE  published' = published
  BY <1>1, CallFacts, StepFacts DEF World
<1>2. ASSUME NEW a \in Actors, NEW n \in Nodes, CommitNode(a, n)
      PROVE  row' = row /\ \E m \in Nodes : published' = [published EXCEPT ![m] = Serving(m)]
  BY <1>2 DEF CommitNode
<1>3. ASSUME NEW a \in Actors, NEW n \in Nodes, CommitFails(a, n)  PROVE  published' = published
  BY <1>3 DEF CommitFails
<1>4. ASSUME SweeperStep  PROVE  published' = published
  BY <1>4 DEF SweeperStep, ExpiryScan, ExpiryNodes, ExpiryRetire, EnforceScan, freezeSubject,
              ResetScan, resetSubject, World
<1>5. ASSUME TimePasses \/ Restart \/ UNCHANGED vars  PROVE  published' = published
  BY <1>5 DEF TimePasses, Restart, vars
<1> QED
  BY <1>1, <1>2, <1>3, <1>4, <1>5 DEF Next, PublishStep

\* An actor that goes on to publish or to resolve answers for its node set.
LEMMA NowPending ==
    ASSUME TypeOK, NEW a \in Actors, NEW n \in Nodes, NEW nodes \in SUBSET Nodes,
           \/ Goto(a, "publish", nodes) /\ n \in nodes
           \/ Goto(a, "resolve", nodes) /\ n \in nodes \cup row'.grants
    PROVE  Pending(n)'
<1>1. CASE Goto(a, "publish", nodes) /\ n \in nodes
  <2>1. pc'[a] = "publish" /\ todo'[a] = nodes
    BY <1>1, GotoFacts
  <2> QED
    BY <1>1, <2>1 DEF Pending
<1>2. CASE Goto(a, "resolve", nodes) /\ n \in nodes \cup row'.grants
  <2>1. pc'[a] = "resolve" /\ todo'[a] = nodes
    BY <1>2, GotoFacts
  <2> QED
    BY <1>2, <2>1 DEF Pending
<1> QED
  BY <1>1, <1>2

\* What the other actors answer for stays answered for.
LEMMA StillPending ==
    ASSUME TypeOK, NEW a \in Actors, NEW n \in Nodes, NEW nodes \in SUBSET Nodes,
           NEW step \in {"idle", "update", "delete", "resolve", "publish",
                         "nodes", "retire", "freeze", "reset"},
           Goto(a, step, nodes), row' = row, Pending(n),
           pc[a] \notin {"publish", "resolve"}
    PROVE  Pending(n)'
<1>1. PICK b \in Actors : \/ pc[b] = "publish" /\ n \in todo[b]
                          \/ pc[b] = "resolve" /\ n \in todo[b] \cup row.grants
  BY DEF Pending
<1>2. b # a /\ pc'[b] = pc[b] /\ todo'[b] = todo[b]
  BY <1>1, GotoFacts
<1> QED
  BY <1>1, <1>2 DEF Pending

\* A step of an actor that has nothing to publish yet and writes nothing.
LEMMA QuietStep ==
    ASSUME TypeOK, NEW a \in Actors, NEW n \in ServingNodes, NEW nodes \in SUBSET Nodes,
           NEW step \in {"idle", "update", "delete", "resolve", "publish",
                         "nodes", "retire", "freeze", "reset"},
           Goto(a, step, nodes), UNCHANGED <<row, published, lost, overtaken>>,
           pc[a] \notin {"publish", "resolve"}, AccountedFor(n)
    PROVE  AccountedFor(n)'
<1>0. n \in Nodes
  BY PublishSetsAssumption
<1>1. CASE Pending(n)
  BY <1>0, <1>1, StillPending DEF AccountedFor
<1>2. CASE ~Pending(n)
  BY <1>2 DEF AccountedFor, Serving, Live, Due
<1> QED
  BY <1>1, <1>2

\* Publishing a node fixes its document, failing records it, and the other nodes
\* stay accounted for.
LEMMA PublishAccounts ==
    ASSUME TypeOK, NEW n \in ServingNodes, AccountedFor(n),
           NEW a \in Actors, NEW m \in Nodes, CommitNode(a, m) \/ CommitFails(a, m)
    PROVE  AccountedFor(n)'
<1>0. /\ n \in Nodes /\ row' = row /\ pc[a] = "publish" /\ todo[a] \in SUBSET Nodes
      /\ published \in [Nodes -> Nat]
  BY PublishSetsAssumption DEF TypeOK, CommitNode, CommitFails
<1>1. ASSUME NEW step \in {"publish", "idle"}, NEW nodes \in SUBSET Nodes, Goto(a, step, nodes),
             n \notin todo[a] \/ (step = "publish" /\ n \in nodes), Pending(n)
      PROVE  Pending(n)'
  <2>1. PICK b \in Actors : \/ pc[b] = "publish" /\ n \in todo[b]
                            \/ pc[b] = "resolve" /\ n \in todo[b] \cup row.grants
    BY <1>1 DEF Pending
  <2>2. CASE b = a
    BY <1>0, <1>1, <2>1, <2>2, NowPending
  <2>3. CASE b # a
    <3>1. pc'[b] = pc[b] /\ todo'[b] = todo[b]
      BY <1>1, <2>3, GotoFacts
    <3> QED
      BY <1>0, <2>1, <3>1 DEF Pending
  <2> QED
    BY <2>2, <2>3
<1>2. CASE CommitNode(a, m)
  <2>1. /\ published' = [published EXCEPT ![m] = Serving(m)]
        /\ lost' = lost \ {m} /\ overtaken' = overtaken \ {m}
        /\ Goto(a, "publish", todo[a] \ {m})
    BY <1>2 DEF CommitNode
  <2>2. CASE n = m
    BY <1>0, <2>1, <2>2 DEF AccountedFor, Serving, Live
  <2>3. CASE n # m
    <3>1. /\ published'[n] = published[n] /\ (n \in lost => n \in lost')
          /\ n \in overtaken => n \in overtaken'
      BY <1>0, <2>1, <2>3
    <3>2. Pending(n) => Pending(n)'
      BY <1>0, <1>1, <2>1, <2>3
    <3> QED
      BY <1>0, <3>1, <3>2 DEF AccountedFor, Serving, Live, Due
  <2> QED
    BY <2>2, <2>3
<1>3. CASE CommitFails(a, m)
  <2>1. published' = published /\ overtaken' = overtaken
    BY <1>3 DEF CommitFails
  <2>2. CASE n \in lost'
    BY <2>2 DEF AccountedFor
  <2>3. CASE n \notin lost'
    <3>1. PICK step \in {"publish", "idle"}, nodes \in SUBSET Nodes :
            Goto(a, step, nodes) /\ (n \notin todo[a] \/ (step = "publish" /\ n \in nodes))
      BY <1>0, <1>3, <2>3 DEF CommitFails, Return
    <3>2. Pending(n) => Pending(n)'
      BY <1>1, <3>1
    <3>3. n \notin lost
      BY <1>3, <2>3 DEF CommitFails
    <3> QED
      BY <1>0, <2>1, <3>2, <3>3 DEF AccountedFor, Serving, Live, Due
  <2> QED
    BY <2>2, <2>3
<1> QED
  BY <1>2, <1>3

\* Time makes only an enabled subject's documents wrong, and then it is due; a
\* restart records what it forgets.
LEMMA OtherAccounts ==
    ASSUME TypeOK, NEW n \in ServingNodes, AccountedFor(n),
           TimePasses \/ Restart \/ UNCHANGED vars
    PROVE  AccountedFor(n)'
<1>0. n \in Nodes /\ row \in Rows
  BY PublishSetsAssumption DEF TypeOK
<1>1. CASE TimePasses
  <2>1. UNCHANGED <<published, pc, todo, lost, overtaken>>
    BY <1>1 DEF TimePasses
  <2>2. CASE row' = row
    BY <2>1, <2>2 DEF AccountedFor, Pending, Serving, Live, Due
  <2>3. CASE row.expiry = "future" /\ row' = [row EXCEPT !.expiry = "past"]
    <3>1. /\ row'.expiry = "past" /\ row'.enabled = row.enabled /\ row'.grants = row.grants
          /\ row'.life = row.life
      BY <1>0, <2>3 DEF Rows
    <3>2. Live
      BY <1>1 DEF TimePasses
    <3>3. CASE row.enabled
      BY <3>1, <3>2, <3>3 DEF AccountedFor, Due, Live
    <3>4. CASE ~row.enabled
      <4>1. Serving(n) = 0 /\ Serving(n)' = 0 /\ ~Due
        BY <3>1, <3>4 DEF Serving, Due
      <4>2. Pending(n) => Pending(n)'
        BY <2>1, <3>1 DEF Pending
      <4> QED
        BY <2>1, <4>1, <4>2 DEF AccountedFor
    <3> QED
      BY <3>3, <3>4
  <2> QED
    BY <1>1, <2>2, <2>3 DEF TimePasses
<1>2. CASE Restart
  <2>1. row' = row /\ published' = published /\ overtaken' = overtaken
    BY <1>2 DEF Restart
  <2>2. CASE Pending(n)
    <3>1. PICK b \in Actors : \/ pc[b] = "publish" /\ n \in todo[b]
                              \/ pc[b] = "resolve" /\ n \in todo[b] \cup row.grants
      BY <2>2 DEF Pending
    <3>2. n \in (IF pc[b] = "publish" THEN todo[b]
                 ELSE IF pc[b] = "resolve" THEN todo[b] \cup row.grants ELSE {})
      BY <3>1
    <3>3. n \in lost'
      BY <1>2, <3>2 DEF Restart
    <3> QED
      BY <3>3 DEF AccountedFor
  <2>3. CASE ~Pending(n)
    <3>1. n \in lost => n \in lost'
      BY <1>2 DEF Restart
    <3> QED
      BY <2>1, <2>3, <3>1 DEF AccountedFor, Serving, Live, Due
  <2> QED
    BY <2>2, <2>3
<1>3. CASE UNCHANGED vars
  BY <1>3 DEF vars, AccountedFor, Pending, Serving, Live, Due
<1> QED
  BY <1>1, <1>2, <1>3

-----------------------------------------------------------------------------
(***************************************************************************)
(* What makes NoChangeIsStranded inductive: a document that serves a node  *)
(* without a grant is answered for too, so that what a write has left      *)
(* behind stays known until it is rebuilt.                                 *)
(***************************************************************************)

\* Somebody still has to commit node n, or failed to, or did not know of it.
AnsweredFor(n) == Pending(n) \/ n \in lost \/ n \in overtaken

RevokedIsAnsweredFor ==
    /\ ~Live => row.grants = {}
    /\ \A n \in Nodes :
        /\ row.life = "unborn" => published[n] = 0
        /\ (Live /\ published[n] # 0) => (n \in row.grants \/ AnsweredFor(n))

\* A request's call: it was idle, and either it only read the node set, or it wrote
\* the row and will publish all of its grants.
LEMMA CallKinds ==
    ASSUME TypeOK, NEW a \in Callers, ServiceCall(a)
    PROVE  /\ pc[a] = "idle" /\ UNCHANGED <<published, lost, overtaken>>
           /\ \/ /\ row' = row /\ Live
                 /\ \E step \in {"update", "delete", "publish"} : Goto(a, step, row.grants)
              \/ /\ row.life = "unborn" \/ (Live /\ row'.grants = row.grants)
                 /\ row'.life = "live" /\ row'.grants \in SUBSET Nodes
                 /\ Goto(a, "resolve", {}) \/ Goto(a, "publish", row'.grants)
<1> DEFINE Q == \/ /\ row' = row /\ Live
                   /\ \E step \in {"update", "delete", "publish"} : Goto(a, step, row.grants)
                \/ /\ row.life = "unborn" \/ (Live /\ row'.grants = row.grants)
                   /\ row'.life = "live" /\ row'.grants \in SUBSET Nodes
                   /\ Goto(a, "resolve", {}) \/ Goto(a, "publish", row'.grants)
<1>0. row \in Rows /\ row.grants \in SUBSET Nodes
  BY RowChanges DEF TypeOK
<1>1. pc[a] = "idle" /\ UNCHANGED <<published, lost, overtaken>>
  BY CallFacts DEF ServiceCall, Create, Provision, Update, Delete, RotateCredential, SetEnabled,
                   SetFrozen, Call, World
<1>2. ASSUME NEW g \in SUBSET Nodes, NEW e \in {"never", "future"}, Create(a, g, e)  PROVE  Q
  BY <1>2 DEF Create, NewRow
<1>3. ASSUME NEW g \in SUBSET Nodes, NEW e \in {"never", "future"}, Provision(a, g, e)  PROVE  Q
  BY <1>3 DEF Provision, NewRow
<1>4. ASSUME Update(a) \/ Delete(a)  PROVE  Q
  BY <1>4 DEF Update, Delete
<1>5. ASSUME RotateCredential(a)  PROVE  Q
  BY <1>0, <1>5 DEF RotateCredential, Rows, Live
<1>6. ASSUME NEW on \in BOOLEAN, SetEnabled(a, on) \/ SetFrozen(a, on)  PROVE  Q
  BY <1>0, <1>6 DEF SetEnabled, SetFrozen, Rows, Live
<1> HIDE DEF Q
<1>7. Q
  BY <1>2, <1>3, <1>4, <1>5, <1>6 DEF ServiceCall
<1> QED
  BY <1>1, <1>7 DEF Q

\* A later step of a request's call: its write, which will publish the node set read
\* before it and the grants written, or the resolution of what to publish.  A node the
\* write takes the service away from is in that node set or overtaken.
LEMMA StepKinds ==
    ASSUME TypeOK, NEW a \in Callers, ServiceStep(a)
    PROVE  /\ published' = published /\ lost' = lost /\ todo[a] \in SUBSET Nodes
           /\ \/ /\ pc[a] \in {"update", "delete"} /\ row' = row /\ ~Live
                 /\ overtaken' = overtaken
                 /\ Goto(a, "idle", {})
              \/ /\ pc[a] = "update" /\ Live /\ row'.life = "live"
                 /\ row'.grants \in SUBSET Nodes
                 /\ overtaken' = overtaken \cup ((row.grants \ todo[a]) \ row'.grants)
                 /\ Goto(a, "resolve", todo[a])
              \/ /\ pc[a] = "delete" /\ Live /\ row'.life = "deleted" /\ row'.grants = {}
                 /\ overtaken' = overtaken \cup (row.grants \ todo[a])
                 /\ Goto(a, "publish", todo[a])
              \/ /\ pc[a] = "resolve" /\ row' = row /\ overtaken' = overtaken
                 /\ Goto(a, "publish", todo[a] \cup row.grants)
<1>0. /\ row \in Rows /\ row' \in Rows
      /\ todo[a] \in SUBSET Nodes /\ published' = published /\ lost' = lost
  BY SweepersAreActors, StepFacts DEF TypeOK
<1>1. CASE UpdateWrite(a)
  <2>1. CASE Live
    <3>1. row'.life = row.life /\ row'.grants \in SUBSET Nodes
      BY <1>0, <1>1, <2>1 DEF UpdateWrite, Rows
    <3> QED
      BY <1>0, <1>1, <2>1, <3>1 DEF UpdateWrite, Live, Overtake
  <2>2. CASE ~Live
    BY <1>0, <1>1, <2>2 DEF UpdateWrite, Return
  <2> QED
    BY <2>1, <2>2
<1>2. CASE DeleteWrite(a)
  <2>1. CASE Live
    <3>1. row'.life = "deleted" /\ row'.grants = {}
      BY <1>0, <1>2, <2>1 DEF DeleteWrite, Rows
    <3>2. overtaken' = overtaken \cup (row.grants \ todo[a])
      BY <1>2, <2>1 DEF DeleteWrite, Overtake
    <3> QED
      BY <1>0, <1>2, <2>1, <3>1, <3>2 DEF DeleteWrite
  <2>2. CASE ~Live
    BY <1>0, <1>2, <2>2 DEF DeleteWrite, Return
  <2> QED
    BY <2>1, <2>2
<1>3. CASE Resolve(a)
  BY <1>0, <1>3 DEF Resolve, World
<1> QED
  BY <1>1, <1>2, <1>3 DEF ServiceStep

\* A step of a sweeper: it writes nothing, it publishes every serving node, or it
\* retires an expired subject and publishes the node set it has read.
LEMMA SweepKinds ==
    ASSUME TypeOK, SweeperStep
    PROVE  /\ published' = published /\ lost' = lost
           /\ row'.life = row.life /\ row'.grants = row.grants
           /\ \E a \in {"expiry", "enforce", "reset"} :
                /\ pc[a] \in {"idle", "nodes", "retire", "freeze", "reset"}
                /\ \/ /\ row' = row /\ overtaken' = overtaken
                      /\ \E step \in {"nodes", "retire", "freeze", "publish", "reset", "idle"},
                            nodes \in SUBSET Nodes : Goto(a, step, nodes)
                   \/ Goto(a, "publish", ServingNodes) /\ overtaken' = overtaken
                   \/ /\ Live /\ Goto(a, "publish", todo[a]) /\ todo[a] \in SUBSET Nodes
                      /\ overtaken' = overtaken \cup (row.grants \ todo[a])
<1> DEFINE Q == \E a \in {"expiry", "enforce", "reset"} :
                /\ pc[a] \in {"idle", "nodes", "retire", "freeze", "reset"}
                /\ \/ /\ row' = row /\ overtaken' = overtaken
                      /\ \E step \in {"nodes", "retire", "freeze", "publish", "reset", "idle"},
                            nodes \in SUBSET Nodes : Goto(a, step, nodes)
                   \/ Goto(a, "publish", ServingNodes) /\ overtaken' = overtaken
                   \/ /\ Live /\ Goto(a, "publish", todo[a]) /\ todo[a] \in SUBSET Nodes
                      /\ overtaken' = overtaken \cup (row.grants \ todo[a])
<1>0. /\ row \in Rows /\ row.grants \in SUBSET Nodes /\ {} \in SUBSET Nodes
      /\ todo["expiry"] \in SUBSET Nodes
  BY SweepersAreActors, RowChanges DEF TypeOK
<1>1. published' = published /\ lost' = lost /\ row'.life = row.life /\ row'.grants = row.grants
  BY <1>0 DEF SweeperStep, ExpiryScan, ExpiryNodes, ExpiryRetire, EnforceScan, freezeSubject,
              ResetScan, resetSubject, World, Rows
<1>2. ASSUME ExpiryScan  PROVE  Q
  BY <1>0, <1>2 DEF ExpiryScan, World
<1>3. ASSUME ExpiryNodes  PROVE  Q
  BY <1>0, <1>3 DEF ExpiryNodes, World
<1>4. ASSUME ExpiryRetire  PROVE  Q
  <2>1. pc["expiry"] = "retire" /\ Goto("expiry", "publish", todo["expiry"])
    BY <1>4 DEF ExpiryRetire
  <2>2. CASE Live
    <3>1. overtaken' = overtaken \cup (row.grants \ todo["expiry"])
      BY <1>4, <2>2 DEF ExpiryRetire, Overtake
    <3> QED
      BY <1>0, <2>1, <2>2, <3>1
  <2>3. CASE ~Live
    <3>1. row' = row /\ overtaken' = overtaken
      BY <1>4, <2>3 DEF ExpiryRetire
    <3> QED
      BY <1>0, <2>1, <3>1
  <2> QED
    BY <2>2, <2>3
<1>5. ASSUME EnforceScan  PROVE  Q
  BY <1>0, <1>5 DEF EnforceScan, World
<1>6. ASSUME freezeSubject  PROVE  Q
  BY <1>6 DEF freezeSubject, World
<1>7. ASSUME ResetScan  PROVE  Q
  BY <1>0, <1>7 DEF ResetScan
<1>8. ASSUME resetSubject  PROVE  Q
  BY <1>0, <1>8 DEF resetSubject, Return
<1> HIDE DEF Q
<1>9. Q
  BY <1>2, <1>3, <1>4, <1>5, <1>6, <1>7, <1>8 DEF SweeperStep
<1> QED
  BY <1>1, <1>9 DEF Q

\* A step that takes a grant away is the write of an update or of a delete, and what
\* it takes away it goes on to publish, or has not known of.
LEMMA GrantsStep ==
    ASSUME TypeOK, [Next]_vars
    PROVE  \/ row'.life = row.life /\ row'.grants = row.grants
           \/ row.life = "unborn" /\ row'.life = "live" /\ published' = published
           \/ /\ Live /\ row'.life # "unborn" /\ (row'.life # "live" => row'.grants = {})
              /\ \A n \in row.grants : AnsweredFor(n)'
<1> DEFINE P == \/ row'.life = row.life /\ row'.grants = row.grants
                \/ row.life = "unborn" /\ row'.life = "live" /\ published' = published
                \/ /\ Live /\ row'.life # "unborn" /\ (row'.life # "live" => row'.grants = {})
                   /\ \A n \in row.grants : AnsweredFor(n)'
<1>0. row \in Rows /\ row.grants \in SUBSET Nodes /\ Callers \subseteq Actors
  BY RowChanges, SweepersAreActors DEF TypeOK
<1>1. ASSUME NEW a \in Callers, ServiceCall(a)  PROVE  P
  BY <1>1, CallKinds DEF Live
<1>2. ASSUME NEW a \in Callers, ServiceStep(a)  PROVE  P
  <2>1. CASE row' = row
    BY <2>1
  <2>2. CASE /\ Live /\ row'.life = "live" /\ row'.grants \in SUBSET Nodes
             /\ overtaken' = overtaken \cup ((row.grants \ todo[a]) \ row'.grants)
             /\ Goto(a, "resolve", todo[a]) /\ todo[a] \in SUBSET Nodes
    <3>1. ASSUME NEW n \in row.grants  PROVE  AnsweredFor(n)'
      <4>1. CASE n \in todo[a] \cup row'.grants
        BY <1>0, <2>2, <4>1, NowPending DEF AnsweredFor
      <4>2. CASE n \notin todo[a] \cup row'.grants
        BY <2>2, <4>2 DEF AnsweredFor
      <4> QED
        BY <4>1, <4>2
    <3> QED
      BY <2>2, <3>1
  <2>3. CASE /\ Live /\ row'.life = "deleted" /\ row'.grants = {}
             /\ overtaken' = overtaken \cup (row.grants \ todo[a])
             /\ Goto(a, "publish", todo[a]) /\ todo[a] \in SUBSET Nodes
    <3>1. ASSUME NEW n \in row.grants  PROVE  AnsweredFor(n)'
      <4>1. CASE n \in todo[a]
        BY <1>0, <2>3, <4>1, NowPending DEF AnsweredFor
      <4>2. CASE n \notin todo[a]
        BY <2>3, <4>2 DEF AnsweredFor
      <4> QED
        BY <4>1, <4>2
    <3> QED
      BY <2>3, <3>1
  <2> HIDE DEF P
  <2> QED
    BY <1>2, <2>1, <2>2, <2>3, StepKinds
<1>3. ASSUME NEW a \in Actors, NEW n \in Nodes, CommitNode(a, n) \/ CommitFails(a, n)  PROVE  P
  BY <1>3 DEF CommitNode, CommitFails
<1>4. ASSUME SweeperStep  PROVE  P
  BY <1>4, SweepKinds
<1>5. ASSUME TimePasses \/ Restart \/ UNCHANGED vars  PROVE  P
  BY <1>0, <1>5 DEF TimePasses, Restart, vars, Rows
<1> HIDE DEF P
<1>6. P
  BY <1>1, <1>2, <1>3, <1>4, <1>5 DEF Next, PublishStep
<1> QED
  BY <1>6 DEF P

\* What an actor that is not at a step to publish does leaves every node answered for.
LEMMA StillAnsweredFor ==
    ASSUME TypeOK, NEW n \in Nodes, AnsweredFor(n), [Next]_vars,
           ~Live => row.grants = {}, lost' = lost, overtaken \subseteq overtaken',
           NEW a \in Actors, NEW nodes \in SUBSET Nodes,
           NEW step \in {"idle", "update", "delete", "resolve", "publish",
                         "nodes", "retire", "freeze", "reset"},
           Goto(a, step, nodes), pc[a] \notin {"publish", "resolve"}
    PROVE  AnsweredFor(n)'
<1>1. CASE n \in lost \/ n \in overtaken
  BY <1>1 DEF AnsweredFor
<1>2. CASE Pending(n)
  <2>1. PICK b \in Actors : \/ pc[b] = "publish" /\ n \in todo[b]
                            \/ pc[b] = "resolve" /\ n \in todo[b] \cup row.grants
    BY <1>2 DEF Pending
  <2>2. b # a /\ pc'[b] = pc[b] /\ todo'[b] = todo[b]
    BY <2>1, GotoFacts
  <2>3. CASE n \in todo[b]
    BY <2>1, <2>2, <2>3 DEF Pending, AnsweredFor
  <2>4. CASE n \in row.grants /\ pc[b] = "resolve"
    <3>1. n \in row'.grants \/ AnsweredFor(n)'
      BY <2>4, GrantsStep DEF Live
    <3> QED
      BY <2>2, <2>4, <3>1 DEF Pending, AnsweredFor
  <2> QED
    BY <2>1, <2>3, <2>4
<1> QED
  BY <1>1, <1>2 DEF AnsweredFor

\* A node that is answered for stays so until its document is right.
LEMMA AnsweredStep ==
    ASSUME TypeOK, ~Live => row.grants = {}, NEW n \in Nodes, AnsweredFor(n), [Next]_vars
    PROVE  AnsweredFor(n)' \/ (published'[n] = Serving(n) /\ row' = row)
<1>0. /\ {"expiry", "enforce", "reset"} \subseteq Actors /\ Callers \subseteq Actors
      /\ row \in Rows /\ row.grants \in SUBSET Nodes /\ ServingNodes \in SUBSET Nodes
      /\ {} \in SUBSET Nodes /\ published \in [Nodes -> Nat]
      /\ \A a \in Actors : todo[a] \in SUBSET Nodes
  BY PublishSetsAssumption, RowChanges, SweepersAreActors DEF TypeOK
<1>1. ASSUME NEW a \in Actors, NEW nodes \in SUBSET Nodes, Goto(a, "publish", nodes),
             pc[a] = "publish" \/ pc[a] = "resolve", row' = row,
             NEW b \in Actors, b # a, \/ pc[b] = "publish" /\ n \in todo[b]
                                      \/ pc[b] = "resolve" /\ n \in todo[b] \cup row.grants
      PROVE  AnsweredFor(n)'
  <2>1. pc'[b] = pc[b] /\ todo'[b] = todo[b]
    BY <1>1, GotoFacts
  <2> QED
    BY <1>1, <2>1 DEF Pending, AnsweredFor
<1>2. ASSUME NEW a \in Callers, ServiceCall(a)  PROVE  AnsweredFor(n)'
  <2>1. pc[a] = "idle" /\ lost' = lost /\ overtaken' = overtaken
    BY <1>2, CallKinds
  <2>2. PICK step \in {"resolve", "publish", "update", "delete"}, nodes \in SUBSET Nodes :
          Goto(a, step, nodes)
    BY <1>2, CallFacts
  <2> QED
    BY <1>0, <2>1, <2>2, StillAnsweredFor
<1>3. ASSUME NEW a \in Callers, ServiceStep(a)  PROVE  AnsweredFor(n)'
  <2>1. lost' = lost /\ overtaken \subseteq overtaken'
    BY <1>3, StepFacts
  <2>2. CASE pc[a] \in {"update", "delete"}
    <3>1. PICK step \in {"resolve", "publish", "idle"}, nodes \in SUBSET Nodes :
            Goto(a, step, nodes)
      BY <1>3, StepFacts
    <3> QED
      BY <1>0, <2>1, <2>2, <3>1, StillAnsweredFor
  <2>3. CASE /\ pc[a] = "resolve" /\ row' = row
             /\ Goto(a, "publish", todo[a] \cup row.grants)
    <3>1. todo[a] \cup row.grants \in SUBSET Nodes /\ a \in Actors
      BY <1>0
    <3>2. CASE n \in todo[a] \cup row.grants
      BY <2>3, <3>1, <3>2, NowPending DEF AnsweredFor
    <3>3. CASE n \in lost \/ n \in overtaken
      BY <2>1, <3>3 DEF AnsweredFor
    <3>4. CASE Pending(n) /\ n \notin todo[a] \cup row.grants
      <4>1. PICK b \in Actors : \/ pc[b] = "publish" /\ n \in todo[b]
                                \/ pc[b] = "resolve" /\ n \in todo[b] \cup row.grants
        BY <3>4 DEF Pending
      <4>2. b # a
        BY <2>3, <3>4, <4>1
      <4> QED
        BY <1>1, <2>3, <3>1, <4>1, <4>2
    <3> QED
      BY <3>2, <3>3, <3>4 DEF AnsweredFor
  <2> QED
    BY <1>3, <2>2, <2>3, StepKinds
<1>4. ASSUME NEW a \in Actors, NEW m \in Nodes, CommitNode(a, m) \/ CommitFails(a, m)
      PROVE  AnsweredFor(n)' \/ (published'[n] = Serving(n) /\ row' = row)
  <2>1. row' = row /\ pc[a] = "publish" /\ m \in todo[a]
    BY <1>4 DEF CommitNode, CommitFails
  <2>2. CASE n \in lost' \/ n \in overtaken'
    BY <2>2 DEF AnsweredFor
  <2>3. CASE n = m /\ CommitNode(a, m)
    BY <1>0, <2>1, <2>3 DEF CommitNode
  <2>4. CASE n \notin lost' /\ n \notin overtaken' /\ ~(n = m /\ CommitNode(a, m))
    <3>1. n \notin lost /\ n \notin overtaken
      BY <1>4, <2>4 DEF CommitNode, CommitFails
    <3>2. PICK step \in {"publish", "idle"}, nodes \in SUBSET Nodes :
            Goto(a, step, nodes) /\ (n \notin todo[a] \/ (step = "publish" /\ n \in nodes))
      BY <1>0, <1>4, <2>1, <2>4 DEF CommitNode, CommitFails, Return
    <3>3. PICK b \in Actors : \/ pc[b] = "publish" /\ n \in todo[b]
                              \/ pc[b] = "resolve" /\ n \in todo[b] \cup row.grants
      BY <3>1 DEF AnsweredFor, Pending
    <3>4. CASE b = a
      BY <2>1, <3>2, <3>3, <3>4, NowPending DEF AnsweredFor
    <3>5. CASE b # a
      <4>1. pc'[b] = pc[b] /\ todo'[b] = todo[b]
        BY <3>2, <3>5, GotoFacts
      <4> QED
        BY <2>1, <3>3, <4>1 DEF Pending, AnsweredFor
    <3> QED
      BY <3>4, <3>5
  <2> QED
    BY <1>4, <2>2, <2>3, <2>4
<1>5. ASSUME SweeperStep  PROVE  AnsweredFor(n)'
  <2>1. lost' = lost /\ overtaken \subseteq overtaken'
    BY <1>5, SweepKinds
  <2>2. PICK a \in {"expiry", "enforce", "reset"},
             step \in {"nodes", "retire", "freeze", "publish", "reset", "idle"},
             nodes \in SUBSET Nodes :
          Goto(a, step, nodes) /\ pc[a] \in {"idle", "nodes", "retire", "freeze", "reset"}
    BY <1>0, <1>5, SweepKinds
  <2> QED
    BY <1>0, <2>1, <2>2, StillAnsweredFor
<1>6. ASSUME TimePasses \/ UNCHANGED vars  PROVE  AnsweredFor(n)'
  <2>1. /\ UNCHANGED <<pc, todo, lost, overtaken>> /\ row'.grants = row.grants
    BY <1>0, <1>6 DEF TimePasses, vars, Rows
  <2> QED
    BY <2>1 DEF AnsweredFor, Pending
<1>7. ASSUME Restart  PROVE  AnsweredFor(n)'
  <2>1. CASE n \in lost \/ n \in overtaken
    BY <1>7, <2>1 DEF Restart, AnsweredFor
  <2>2. CASE Pending(n)
    <3>1. PICK b \in Actors : \/ pc[b] = "publish" /\ n \in todo[b]
                              \/ pc[b] = "resolve" /\ n \in todo[b] \cup row.grants
      BY <2>2 DEF Pending
    <3>2. n \in (IF pc[b] = "publish" THEN todo[b]
                 ELSE IF pc[b] = "resolve" THEN todo[b] \cup row.grants ELSE {})
      BY <3>1
    <3>3. n \in lost'
      BY <1>7, <3>2 DEF Restart
    <3> QED
      BY <3>3 DEF AnsweredFor
  <2> QED
    BY <2>1, <2>2 DEF AnsweredFor
<1> QED
  BY <1>2, <1>3, <1>4, <1>5, <1>6, <1>7 DEF Next, PublishStep

\* Every step keeps what is revoked answered for.
LEMMA RevokedStep ==
    ASSUME TypeOK, RevokedIsAnsweredFor, [Next]_vars
    PROVE  RevokedIsAnsweredFor'
<1>0. row \in Rows /\ published \in [Nodes -> Nat] /\ (~Live => row.grants = {})
  BY DEF TypeOK, RevokedIsAnsweredFor
<1>a. row'.life # "live" => row'.grants = {}
  BY <1>0, GrantsStep DEF Live
<1> SUFFICES ASSUME NEW n \in Nodes
             PROVE  /\ row'.life = "unborn" => published'[n] = 0
                    /\ (row'.life = "live" /\ published'[n] # 0)
                          => (n \in row'.grants \/ AnsweredFor(n)')
  BY <1>a DEF RevokedIsAnsweredFor, Live
<1>1. CASE published'[n] = Serving(n) /\ row' = row
  BY <1>1 DEF Serving, Live
<1>2. CASE published'[n] = published[n]
  <2>1. CASE row'.life = "unborn"
    BY <1>2, <2>1, GrantsStep DEF RevokedIsAnsweredFor
  <2>2. CASE row'.life = "live" /\ published[n] # 0
    <3>1. row.life = "live"
      BY <2>2, GrantsStep DEF RevokedIsAnsweredFor, Live
    <3>2. CASE n \in row.grants
      BY <2>2, <3>1, <3>2, GrantsStep
    <3>3. CASE AnsweredFor(n)
      <4>1. CASE AnsweredFor(n)'
        BY <2>2, <4>1
      <4>2. CASE published'[n] = Serving(n) /\ row' = row
        BY <1>1, <4>2
      <4> QED
        BY <1>0, <3>3, <4>1, <4>2, AnsweredStep
    <3> QED
      BY <3>1, <2>2, <3>2, <3>3 DEF RevokedIsAnsweredFor, Live
  <2> QED
    BY <1>2, <2>1, <2>2
<1>3. \/ published'[n] = Serving(n) /\ row' = row
      \/ published'[n] = published[n]
  BY <1>0, PublishKinds
<1> QED
  BY <1>1, <1>2, <1>3

\* Every step keeps every node accounted for.
LEMMA StrandedStep ==
    ASSUME TypeOK, RevokedIsAnsweredFor, NoChangeIsStranded, [Next]_vars
    PROVE  NoChangeIsStranded'
<1> SUFFICES ASSUME NEW n \in ServingNodes  PROVE  AccountedFor(n)'
  BY DEF NoChangeIsStranded
<1>0. /\ n \in Nodes /\ AccountedFor(n) /\ row \in Rows
      /\ {"expiry", "enforce", "reset"} \subseteq Actors /\ Callers \subseteq Actors
      /\ ~Live => row.grants = {}
      /\ row.grants \in SUBSET Nodes /\ ServingNodes \in SUBSET Nodes /\ {} \in SUBSET Nodes
  BY PublishSetsAssumption, RowChanges, SweepersAreActors
  DEF NoChangeIsStranded, TypeOK, RevokedIsAnsweredFor
<1>1. ASSUME AnsweredFor(n)'  PROVE  AccountedFor(n)'
  BY <1>1 DEF AnsweredFor, AccountedFor
<1>2. ASSUME row.life = "unborn" \/ Live, n \notin row'.grants,
             Live => (n \notin row.grants \/ AnsweredFor(n)'), published' = published
      PROVE  AccountedFor(n)'
  <2>1. Serving(n)' = 0
    BY <1>2 DEF Serving
  <2>2. CASE published[n] = 0
    BY <1>2, <2>1, <2>2 DEF AccountedFor
  <2>3. CASE published[n] # 0
    <3>1. Live /\ (n \in row.grants \/ AnsweredFor(n))
      BY <1>0, <1>2, <2>3 DEF RevokedIsAnsweredFor
    <3>2. CASE AnsweredFor(n)'
      BY <1>1, <3>2
    <3>3. CASE AnsweredFor(n) /\ published'[n] = Serving(n) /\ row' = row
      BY <3>3 DEF AccountedFor, Serving, Live
    <3> QED
      BY <1>0, <1>2, <3>1, <3>2, <3>3, AnsweredStep
  <2> QED
    BY <2>2, <2>3
<1>3. ASSUME NEW a \in Callers, ServiceCall(a)  PROVE  AccountedFor(n)'
  <2>0. pc[a] = "idle" /\ UNCHANGED <<published, lost, overtaken>> /\ a \in Actors
    BY <1>0, <1>3, CallKinds
  <2>1. CASE /\ row' = row
             /\ \E step \in {"update", "delete", "publish"} : Goto(a, step, row.grants)
    BY <1>0, <2>0, <2>1, QuietStep
  <2>2. CASE /\ row.life = "unborn" \/ (Live /\ row'.grants = row.grants)
             /\ row'.grants \in SUBSET Nodes
             /\ Goto(a, "resolve", {}) \/ Goto(a, "publish", row'.grants)
    <3>1. CASE n \in row'.grants
      BY <1>0, <2>0, <2>2, <3>1, NowPending DEF AccountedFor
    <3>2. CASE n \notin row'.grants
      <4>1. Live => n \notin row.grants
        BY <2>2, <3>2 DEF Live
      <4> QED
        BY <1>2, <2>0, <2>2, <3>2, <4>1
    <3> QED
      BY <3>1, <3>2
  <2> QED
    BY <1>3, <2>1, <2>2, CallKinds
<1>4. ASSUME NEW a \in Callers, ServiceStep(a)  PROVE  AccountedFor(n)'
  <2>0. published' = published /\ lost' = lost /\ todo[a] \in SUBSET Nodes /\ a \in Actors
    BY <1>0, <1>4, StepKinds
  <2>1. CASE /\ pc[a] \in {"update", "delete"} /\ row' = row /\ overtaken' = overtaken
             /\ Goto(a, "idle", {})
    BY <1>0, <2>0, <2>1, QuietStep
  <2>2. CASE /\ Live /\ row'.grants \in SUBSET Nodes
             /\ \/ Goto(a, "resolve", todo[a])
                \/ row'.grants = {} /\ Goto(a, "publish", todo[a])
    <3>1. CASE n \in row'.grants
      BY <1>0, <1>1, <2>0, <2>2, <3>1, NowPending DEF AnsweredFor
    <3>2. CASE n \in row.grants /\ n \notin row'.grants
      BY <1>1, <2>2, <3>2, GrantsStep DEF Live
    <3>3. CASE n \notin row.grants /\ n \notin row'.grants
      BY <1>2, <2>0, <2>2, <3>3
    <3> QED
      BY <3>1, <3>2, <3>3
  <2>3. CASE pc[a] = "resolve" /\ row' = row /\ overtaken' = overtaken
    <3>1. CASE AnsweredFor(n)
      <4>1. CASE AnsweredFor(n)'
        BY <1>1, <4>1
      <4>2. CASE published'[n] = Serving(n)
        BY <2>3, <4>2 DEF AccountedFor, Serving, Live
      <4> QED
        BY <1>0, <3>1, <4>1, <4>2, AnsweredStep
    <3>2. CASE ~AnsweredFor(n)
      BY <1>0, <2>0, <2>3, <3>2 DEF AccountedFor, AnsweredFor, Serving, Live, Due
    <3> QED
      BY <3>1, <3>2
  <2> QED
    BY <1>4, <2>1, <2>2, <2>3, StepKinds
<1>5. ASSUME NEW a \in Actors, NEW m \in Nodes, CommitNode(a, m) \/ CommitFails(a, m)
      PROVE  AccountedFor(n)'
  BY <1>0, <1>5, PublishAccounts
<1>6. ASSUME SweeperStep  PROVE  AccountedFor(n)'
  <2>1. published' = published /\ lost' = lost /\ row'.grants = row.grants
    BY <1>6, SweepKinds
  <2>2. PICK a \in {"expiry", "enforce", "reset"} :
          /\ pc[a] \in {"idle", "nodes", "retire", "freeze", "reset"}
          /\ \/ /\ row' = row /\ overtaken' = overtaken
                /\ \E step \in {"nodes", "retire", "freeze", "publish", "reset", "idle"},
                      nodes \in SUBSET Nodes : Goto(a, step, nodes)
             \/ Goto(a, "publish", ServingNodes)
             \/ /\ Live /\ Goto(a, "publish", todo[a]) /\ todo[a] \in SUBSET Nodes
                /\ overtaken' = overtaken \cup (row.grants \ todo[a])
    BY <1>6, SweepKinds
  <2>3. CASE Goto(a, "publish", ServingNodes)
    BY <1>0, <2>3, NowPending DEF AccountedFor
  <2>4. CASE /\ row' = row /\ overtaken' = overtaken
             /\ \E step \in {"nodes", "retire", "freeze", "publish", "reset", "idle"},
                   nodes \in SUBSET Nodes : Goto(a, step, nodes)
    BY <1>0, <2>1, <2>2, <2>4, QuietStep
  <2>5. CASE /\ Live /\ Goto(a, "publish", todo[a]) /\ todo[a] \in SUBSET Nodes
             /\ overtaken' = overtaken \cup (row.grants \ todo[a])
    <3>1. CASE n \in todo[a]
      BY <1>0, <2>5, <3>1, NowPending DEF AccountedFor
    <3>2. CASE n \in row.grants \ todo[a]
      BY <2>5, <3>2 DEF AccountedFor
    <3>3. CASE n \notin row.grants
      BY <1>2, <2>1, <2>5, <3>3
    <3> QED
      BY <3>1, <3>2, <3>3
  <2> QED
    BY <2>2, <2>3, <2>4, <2>5
<1>7. CASE TimePasses \/ Restart \/ UNCHANGED vars
  BY <1>0, <1>7, OtherAccounts
<1> QED
  BY <1>3, <1>4, <1>5, <1>6, <1>7 DEF Next, PublishStep

\* Before the subject is created no document holds it and no call is under way.
LEMMA InitEstablishes ==
    Init => TypeOK /\ RevokedIsAnsweredFor /\ NoChangeIsStranded
<1> SUFFICES ASSUME Init
             PROVE  TypeOK /\ RevokedIsAnsweredFor /\ NoChangeIsStranded
  OBVIOUS
<1>1. row \in Rows
  BY DEF Init, Rows
<1>2. TypeOK
  <2>1. {overQuota, resetDue, off, unfreeze} \subseteq BOOLEAN
    BY Zenon DEF Init
  <2>2. /\ published \in [Nodes -> Nat] /\ calls \in 0 .. MaxCalls
        /\ lost \subseteq Nodes /\ overtaken \subseteq Nodes
    BY PublishBoundsAssumption DEF Init
  <2>3. /\ pc \in [Actors -> {"idle", "update", "delete", "resolve", "publish",
                              "nodes", "retire", "freeze", "reset"}]
        /\ todo \in [Actors -> SUBSET Nodes]
    BY DEF Init
  <2> QED
    BY <1>1, <2>1, <2>2, <2>3, Zenon DEF TypeOK
<1>3. RevokedIsAnsweredFor
  BY DEF Init, RevokedIsAnsweredFor, Live
<1>4. NoChangeIsStranded
  BY PublishSetsAssumption DEF Init, NoChangeIsStranded, AccountedFor, Serving, Live
<1> QED
  BY <1>2, <1>3, <1>4

-----------------------------------------------------------------------------
\* The row, the documents and the calls keep their types.
THEOREM TypeCorrect == Spec => []TypeOK
<1>1. Init => TypeOK
  BY InitEstablishes
<1>2. TypeOK /\ [Next]_vars => TypeOK'
  BY TypeStep
<1> QED
  BY <1>1, <1>2, PTL DEF Spec

\* However many requests and sweepers run at once, over however many nodes, whatever
\* grants updates give and take, and wherever commits fail or the panel restarts: no
\* change of the subject is left unpublished without somebody who still has to publish
\* it, but for a failed commit, an expiry nobody has swept yet, and a node granted after
\* the write that took its service away had read its node set.
THEOREM NothingIsStranded == Spec => []NoChangeIsStranded
<1> DEFINE IInv == RevokedIsAnsweredFor /\ NoChangeIsStranded
<1>1. Init => IInv
  BY InitEstablishes
<1>2. TypeOK /\ IInv /\ [Next]_vars => IInv'
  BY RevokedStep, StrandedStep
<1>3. IInv => NoChangeIsStranded
  OBVIOUS
<1> QED
  BY <1>1, <1>2, <1>3, TypeCorrect, PTL DEF Spec

-----------------------------------------------------------------------------
(***************************************************************************)
(* When no write is overtaken: while updates leave the grants alone, or    *)
(* with one request at a time and without the expiry sweeper.  The         *)
(* exception of NoChangeIsStranded is then empty.                          *)
(***************************************************************************)
NoneOvertaken == overtaken = {}

\* The node set a call has read is still the right one when it writes.
NodeSetsAreCurrent ==
    \A a \in Actors :
        /\ pc[a] \in {"update", "delete", "nodes", "retire"} => row.life # "unborn"
        /\ (pc[a] \in {"update", "delete", "retire"} /\ Live) => todo[a] = row.grants

\* A write whose node set is current overtakes nothing.
LEMMA OvertakenStep ==
    ASSUME TypeOK, NoneOvertaken, [Next]_vars,
           \A a \in Callers : (pc[a] \in {"update", "delete"} /\ Live) => todo[a] = row.grants,
           (pc["expiry"] = "retire" /\ Live) => todo["expiry"] = row.grants
    PROVE  NoneOvertaken'
<1> USE DEF NoneOvertaken
<1>1. ASSUME NEW a \in Callers, ServiceCall(a)  PROVE  NoneOvertaken'
  BY <1>1, CallKinds
<1>2. ASSUME NEW a \in Callers, ServiceStep(a)  PROVE  NoneOvertaken'
  BY <1>2, SweepersAreActors DEF ServiceStep, UpdateWrite, DeleteWrite, Resolve, Overtake, World
<1>3. ASSUME NEW a \in Actors, NEW n \in Nodes, CommitNode(a, n) \/ CommitFails(a, n)
      PROVE  NoneOvertaken'
  BY <1>3 DEF CommitNode, CommitFails
<1>4. ASSUME SweeperStep  PROVE  NoneOvertaken'
  BY <1>4, SweepersAreActors DEF SweeperStep, ExpiryScan, ExpiryNodes, ExpiryRetire, EnforceScan,
              freezeSubject, ResetScan, resetSubject, Overtake, World
<1>5. ASSUME TimePasses \/ Restart \/ UNCHANGED vars  PROVE  NoneOvertaken'
  BY <1>5 DEF TimePasses, Restart, vars
<1> QED
  BY <1>1, <1>2, <1>3, <1>4, <1>5 DEF Next, PublishStep

\* What a step can do to the row, if updates leave the grants alone.
LEMMA RowSteps ==
    ASSUME TypeOK, ~Regrants, [Next]_vars
    PROVE  \/ row'.life = row.life /\ row'.grants = row.grants
           \/ row.life = "unborn" /\ row'.life = "live" /\ published' = published
           \/ row.life = "live" /\ row'.life = "deleted"
<1> DEFINE P == \/ row'.life = row.life /\ row'.grants = row.grants
                \/ row.life = "unborn" /\ row'.life = "live" /\ published' = published
                \/ row.life = "live" /\ row'.life = "deleted"
<1>0. row \in Rows
  BY DEF TypeOK
<1>1. ASSUME NEW a \in Callers, ServiceCall(a)  PROVE  P
  BY <1>0, <1>1 DEF ServiceCall, Create, Provision, Update, Delete, RotateCredential, SetEnabled,
                    SetFrozen, NewRow, World, Rows
<1>2. ASSUME NEW a \in Callers, ServiceStep(a)  PROVE  P
  BY <1>0, <1>2 DEF ServiceStep, UpdateWrite, DeleteWrite, Resolve, Live, Rows
<1>3. ASSUME NEW a \in Actors, NEW n \in Nodes, CommitNode(a, n) \/ CommitFails(a, n)  PROVE  P
  BY <1>3 DEF CommitNode, CommitFails
<1>4. ASSUME SweeperStep  PROVE  P
  BY <1>0, <1>4 DEF SweeperStep, ExpiryScan, ExpiryNodes, ExpiryRetire, EnforceScan, freezeSubject,
                    ResetScan, resetSubject, World, Rows
<1>5. ASSUME TimePasses \/ Restart \/ UNCHANGED vars  PROVE  P
  BY <1>0, <1>5 DEF TimePasses, Restart, vars, Rows
<1> HIDE DEF P
<1>6. P
  BY <1>1, <1>2, <1>3, <1>4, <1>5 DEF Next, PublishStep
<1> QED
  BY <1>6 DEF P

\* A step moves at most one actor, or restarts the panel; one that goes on to
\* update, delete or retire has just read the node set.
LEMMA OneActorMoves ==
    ASSUME TypeOK, [Next]_vars
    PROVE  \/ pc' = pc /\ todo' = todo
           \/ \A a \in Actors : pc'[a] = "idle"
           \/ \E a \in Actors, nodes \in SUBSET Nodes :
                \/ \E step \in {"idle", "resolve", "publish", "freeze", "reset"} : Goto(a, step, nodes)
                \/ /\ \E step \in {"update", "delete", "retire", "nodes"} :
                        Goto(a, step, nodes) /\ (step # "nodes" => nodes = row.grants)
                   /\ row' = row
                   /\ row.life # "unborn" \/ pc[a] = "nodes"
<1> DEFINE P == \E a \in Actors, nodes \in SUBSET Nodes :
                  \/ \E step \in {"idle", "resolve", "publish", "freeze", "reset"} :
                       Goto(a, step, nodes)
                  \/ /\ \E step \in {"update", "delete", "retire", "nodes"} :
                          Goto(a, step, nodes) /\ (step # "nodes" => nodes = row.grants)
                     /\ row' = row
                     /\ row.life # "unborn" \/ pc[a] = "nodes"
           Later(a) == \E step \in {"idle", "resolve", "publish", "freeze", "reset"},
                          nodes \in SUBSET Nodes : Goto(a, step, nodes)
<1>0. /\ row.grants \in SUBSET Nodes /\ {} \in SUBSET Nodes /\ ServingNodes \in SUBSET Nodes
      /\ \A a \in Actors : todo[a] \in SUBSET Nodes
      /\ Callers \subseteq Actors /\ {"expiry", "enforce", "reset"} \subseteq Actors
  BY RowChanges, SweepersAreActors, PublishSetsAssumption DEF TypeOK
<1>1. ASSUME NEW a \in Actors, Later(a)  PROVE  P
  BY <1>1
<1>2. ASSUME NEW a \in Callers, ServiceCall(a)  PROVE  P
  <2>1. ASSUME NEW g \in SUBSET Nodes, NEW e \in {"never", "future"}, Create(a, g, e)
        PROVE  Later(a)
    BY <1>0, <2>1 DEF Create
  <2>2. ASSUME NEW g \in SUBSET Nodes, NEW e \in {"never", "future"}, Provision(a, g, e)
        PROVE  Later(a)
    BY <1>0, <2>2 DEF Provision
  <2>3. ASSUME RotateCredential(a)  PROVE  Later(a)
    BY <1>0, <2>3 DEF RotateCredential
  <2>4. ASSUME NEW on \in BOOLEAN, SetEnabled(a, on) \/ SetFrozen(a, on)  PROVE  Later(a)
    BY <1>0, <2>4 DEF SetEnabled, SetFrozen
  <2>5. ASSUME Update(a)  PROVE  P
    <3>1. Goto(a, "update", row.grants) /\ row' = row /\ row.life # "unborn"
      BY <2>5 DEF Update, Live
    <3> QED
      BY <1>0, <3>1
  <2>6. ASSUME Delete(a)  PROVE  P
    <3>1. Goto(a, "delete", row.grants) /\ row' = row /\ row.life # "unborn"
      BY <2>6 DEF Delete, Live
    <3> QED
      BY <1>0, <3>1
  <2> HIDE DEF P, Later
  <2> QED
    BY <1>0, <1>1, <1>2, <2>1, <2>2, <2>3, <2>4, <2>5, <2>6 DEF ServiceCall
<1>3. ASSUME NEW a \in Callers, ServiceStep(a)  PROVE  P
  <2>1. Later(a)
    BY <1>3, StepFacts
  <2> HIDE DEF P, Later
  <2> QED
    BY <1>0, <1>1, <2>1
<1>4. ASSUME NEW a \in Actors, NEW n \in Nodes, CommitNode(a, n) \/ CommitFails(a, n)  PROVE  P
  <2>1. todo[a] \ {n} \in SUBSET Nodes
    BY <1>0
  <2>2. Later(a)
    BY <1>0, <1>4, <2>1 DEF CommitNode, CommitFails, Return
  <2> HIDE DEF P, Later
  <2> QED
    BY <1>1, <2>2
<1>5. ASSUME SweeperStep  PROVE  P
  <2>1. ASSUME ExpiryScan  PROVE  P
    <3>1. Goto("expiry", "nodes", {}) /\ row' = row /\ row.life # "unborn"
      BY <2>1 DEF ExpiryScan, Due, Live
    <3> QED
      BY <1>0, <3>1
  <2>2. ASSUME ExpiryNodes  PROVE  P
    <3>1. Goto("expiry", "retire", row.grants) /\ row' = row /\ pc["expiry"] = "nodes"
      BY <2>2 DEF ExpiryNodes
    <3> QED
      BY <1>0, <3>1
  <2>3. ASSUME ExpiryRetire  PROVE  Later("expiry")
    BY <1>0, <2>3 DEF ExpiryRetire
  <2>4. ASSUME EnforceScan \/ freezeSubject  PROVE  Later("enforce")
    BY <1>0, <2>4 DEF EnforceScan, freezeSubject
  <2>5. ASSUME ResetScan  PROVE  Later("reset")
    BY <1>0, <2>5 DEF ResetScan
  <2>6. ASSUME resetSubject  PROVE  Later("reset")
    BY <1>0, <2>6 DEF resetSubject, Return
  <2> HIDE DEF P, Later
  <2> QED
    BY <1>0, <1>1, <1>5, <2>1, <2>2, <2>3, <2>4, <2>5, <2>6 DEF SweeperStep
<1>6. ASSUME TimePasses \/ UNCHANGED vars  PROVE  pc' = pc /\ todo' = todo
  BY <1>6 DEF TimePasses, vars
<1>7. ASSUME Restart  PROVE  \A a \in Actors : pc'[a] = "idle"
  BY <1>7 DEF Restart
<1> HIDE DEF P
<1>8. P \/ (pc' = pc /\ todo' = todo) \/ (\A a \in Actors : pc'[a] = "idle")
  BY <1>2, <1>3, <1>4, <1>5, <1>6, <1>7 DEF Next, PublishStep
<1> QED
  BY <1>8 DEF P

\* The node sets that calls have read stay current.
LEMMA NodeSetsStep ==
    ASSUME TypeOK, ~Regrants, NodeSetsAreCurrent, [Next]_vars
    PROVE  NodeSetsAreCurrent'
<1> SUFFICES ASSUME NEW b \in Actors
             PROVE  /\ pc'[b] \in {"update", "delete", "nodes", "retire"} => row'.life # "unborn"
                    /\ (pc'[b] \in {"update", "delete", "retire"} /\ row'.life = "live")
                          => todo'[b] = row'.grants
  BY DEF NodeSetsAreCurrent, Live
<1>1. ASSUME pc'[b] = pc[b], todo'[b] = todo[b]
      PROVE  /\ pc'[b] \in {"update", "delete", "nodes", "retire"} => row'.life # "unborn"
             /\ (pc'[b] \in {"update", "delete", "retire"} /\ row'.life = "live")
                   => todo'[b] = row'.grants
  BY <1>1, RowSteps DEF NodeSetsAreCurrent, Live
<1>2. CASE pc' = pc /\ todo' = todo
  BY <1>1, <1>2
<1>3. CASE \A a \in Actors : pc'[a] = "idle"
  BY <1>3
<1>4. ASSUME NEW a \in Actors, NEW nodes \in SUBSET Nodes,
             NEW step \in {"idle", "resolve", "publish", "freeze", "reset"}, Goto(a, step, nodes)
      PROVE  /\ pc'[b] \in {"update", "delete", "nodes", "retire"} => row'.life # "unborn"
             /\ (pc'[b] \in {"update", "delete", "retire"} /\ row'.life = "live")
                   => todo'[b] = row'.grants
  <2>1. pc'[a] \in {step, "idle"} /\ (b # a => pc'[b] = pc[b] /\ todo'[b] = todo[b])
    BY <1>4, GotoFacts
  <2> QED
    BY <1>1, <2>1
<1>5. ASSUME NEW a \in Actors, NEW nodes \in SUBSET Nodes,
             NEW step \in {"update", "delete", "retire", "nodes"}, Goto(a, step, nodes),
             step # "nodes" => nodes = row.grants, row' = row,
             row.life # "unborn" \/ pc[a] = "nodes"
      PROVE  /\ pc'[b] \in {"update", "delete", "nodes", "retire"} => row'.life # "unborn"
             /\ (pc'[b] \in {"update", "delete", "retire"} /\ row'.life = "live")
                   => todo'[b] = row'.grants
  <2>1. pc'[a] = step /\ todo'[a] = nodes /\ (b # a => pc'[b] = pc[b] /\ todo'[b] = todo[b])
    BY <1>5, GotoFacts
  <2>2. row.life # "unborn"
    BY <1>5 DEF NodeSetsAreCurrent
  <2> QED
    BY <1>1, <1>5, <2>1, <2>2
<1> QED
  BY <1>2, <1>3, <1>4, <1>5, OneActorMoves

\* However many requests and sweepers run at once: while updates leave the grants alone,
\* every write knows all the nodes it changes.
THEOREM NothingIsOvertaken ==
    ASSUME ~Regrants
    PROVE  Spec => []NoneOvertaken
<1> DEFINE IInv == NodeSetsAreCurrent /\ NoneOvertaken
<1>1. Init => IInv
  BY DEF Init, NodeSetsAreCurrent, NoneOvertaken
<1>2. TypeOK /\ IInv /\ [Next]_vars => IInv'
  BY NodeSetsStep, OvertakenStep, SweepersAreActors DEF NodeSetsAreCurrent
<1>3. IInv => NoneOvertaken
  OBVIOUS
<1> QED
  BY <1>1, <1>2, <1>3, TypeCorrect, PTL DEF Spec

\* No sweeper holds a node set of its own reading, and the one a request has read
\* is still the right one.
RequestsAreAlone ==
    /\ pc["expiry"] = "idle"
    /\ pc["enforce"] \in {"idle", "freeze", "publish"}
    /\ pc["reset"] \in {"idle", "reset", "publish"}
    /\ \A a \in Callers : (pc[a] \in {"update", "delete"} /\ Live) => todo[a] = row.grants

\* A step of a quota sweeper: it writes nothing, or publishes every serving node.
LEMMA QuotaKinds ==
    ASSUME TypeOK, "expiry" \notin Sweepers, RequestsAreAlone, SweeperStep
    PROVE  /\ published' = published /\ lost' = lost
           /\ row'.life = row.life /\ row'.grants = row.grants
           /\ \E a \in {"enforce", "reset"} :
                /\ pc[a] \in {"idle", "freeze", "reset"}
                /\ \/ row' = row /\ \E step \in {"freeze", "publish", "reset", "idle"} :
                        /\ Goto(a, step, {})
                        /\ step \in (IF a = "enforce" THEN {"freeze"} ELSE {"reset", "publish", "idle"})
                   \/ Goto(a, "publish", ServingNodes)
<1> DEFINE Q == \E a \in {"enforce", "reset"} :
                  /\ pc[a] \in {"idle", "freeze", "reset"}
                  /\ \/ row' = row /\ \E step \in {"freeze", "publish", "reset", "idle"} :
                          /\ Goto(a, step, {})
                          /\ step \in (IF a = "enforce" THEN {"freeze"}
                                       ELSE {"reset", "publish", "idle"})
                     \/ Goto(a, "publish", ServingNodes)
<1>0. row \in Rows
  BY DEF TypeOK
<1>1. published' = published /\ lost' = lost /\ row'.life = row.life /\ row'.grants = row.grants
  BY <1>0 DEF SweeperStep, ExpiryScan, ExpiryNodes, ExpiryRetire, EnforceScan, freezeSubject,
              ResetScan, resetSubject, World, Rows
<1>2. ~ExpiryScan /\ ~ExpiryNodes /\ ~ExpiryRetire
  BY DEF ExpiryScan, ExpiryNodes, ExpiryRetire, RequestsAreAlone
<1>3. ASSUME EnforceScan  PROVE  Q
  BY <1>3 DEF EnforceScan
<1>4. ASSUME freezeSubject  PROVE  Q
  BY <1>4 DEF freezeSubject
<1>5. ASSUME ResetScan  PROVE  Q
  BY <1>5 DEF ResetScan
<1>6. ASSUME resetSubject  PROVE  Q
  BY <1>6 DEF resetSubject, Return
<1> HIDE DEF Q
<1>7. Q
  BY <1>2, <1>3, <1>4, <1>5, <1>6 DEF SweeperStep
<1> QED
  BY <1>1, <1>7 DEF Q

\* With one request, its own steps are the only ones that move it or its grants.
LEMMA AloneStep ==
    ASSUME \A a, b \in Callers : a = b, "expiry" \notin Sweepers,
           TypeOK, RequestsAreAlone, [Next]_vars
    PROVE  RequestsAreAlone'
<1> DEFINE Aside == /\ pc'["expiry"] = pc["expiry"]
                    /\ pc'["enforce"] = pc["enforce"] /\ pc'["reset"] = pc["reset"]
           Current == \A a \in Callers :
                        (pc'[a] \in {"update", "delete"} /\ row'.life = "live")
                           => todo'[a] = row'.grants
<1>0. /\ "expiry" \in Actors /\ "enforce" \in Actors /\ "reset" \in Actors
      /\ \A a \in Callers : a \in Actors /\ a \notin {"expiry", "enforce", "reset"}
      /\ row.grants \in SUBSET Nodes /\ ServingNodes \in SUBSET Nodes /\ {} \in SUBSET Nodes
  BY PublishSetsAssumption, RowChanges DEF Actors, SweeperNames, TypeOK
<1>1. ASSUME Aside, Current  PROVE  RequestsAreAlone'
  BY <1>1 DEF RequestsAreAlone, Live
<1>2. ASSUME NEW a \in Callers, NEW nodes \in SUBSET Nodes, row' = row,
             NEW step \in {"update", "delete", "publish"}, Goto(a, step, nodes), nodes = row.grants
      PROVE  RequestsAreAlone'
  <2>1. todo'[a] = row'.grants /\ Aside
    BY <1>0, <1>2, GotoFacts
  <2> QED
    BY <1>1, <2>1
<1>3. ASSUME NEW a \in Callers, NEW nodes \in SUBSET Nodes,
             NEW step \in {"idle", "resolve", "publish"}, Goto(a, step, nodes)
      PROVE  RequestsAreAlone'
  <2>1. pc'[a] \notin {"update", "delete"} /\ Aside
    BY <1>0, <1>3, GotoFacts
  <2> QED
    BY <1>1, <2>1
<1>4. ASSUME NEW a \in Callers, ServiceCall(a)  PROVE  RequestsAreAlone'
  <2>1. CASE /\ row' = row
             /\ \E step \in {"update", "delete", "publish"} : Goto(a, step, row.grants)
    BY <1>0, <1>2, <2>1
  <2>2. CASE /\ row'.grants \in SUBSET Nodes
             /\ Goto(a, "resolve", {}) \/ Goto(a, "publish", row'.grants)
    BY <1>0, <1>3, <2>2
  <2> QED
    BY <1>4, <2>1, <2>2, CallKinds
<1>5. ASSUME NEW a \in Callers, ServiceStep(a)  PROVE  RequestsAreAlone'
  <2>1. PICK step \in {"resolve", "publish", "idle"}, nodes \in SUBSET Nodes :
          Goto(a, step, nodes)
    BY <1>5, StepFacts
  <2> QED
    BY <1>3, <2>1
<1>6. ASSUME NEW a \in Actors, NEW n \in Nodes, CommitNode(a, n) \/ CommitFails(a, n)
      PROVE  RequestsAreAlone'
  <2>1. todo[a] \ {n} \in SUBSET Nodes /\ row' = row /\ pc[a] = "publish"
    BY <1>6 DEF CommitNode, CommitFails, TypeOK
  <2>2. PICK step \in {"publish", "idle"}, nodes \in SUBSET Nodes : Goto(a, step, nodes)
    BY <1>0, <1>6, <2>1 DEF CommitNode, CommitFails, Return
  <2>3. pc'[a] \in {"publish", "idle"} /\ \A b \in Actors : b # a => pc'[b] = pc[b] /\ todo'[b] = todo[b]
    BY <2>2, GotoFacts
  <2>4. /\ a # "expiry"
        /\ \A b \in Callers : (pc'[b] \in {"update", "delete"} /\ Live) => todo'[b] = row.grants
    BY <1>0, <2>1, <2>3 DEF RequestsAreAlone
  <2> QED
    BY <1>0, <2>1, <2>3, <2>4 DEF RequestsAreAlone, Live
<1>7. ASSUME SweeperStep  PROVE  RequestsAreAlone'
  <2>1. row'.life = row.life /\ row'.grants = row.grants
    BY <1>7, QuotaKinds
  <2>2. PICK a \in {"enforce", "reset"}, step \in {"freeze", "publish", "reset", "idle"},
             nodes \in SUBSET Nodes :
          /\ Goto(a, step, nodes)
          /\ step \in (IF a = "enforce" THEN {"freeze", "publish"} ELSE {"reset", "publish", "idle"})
    <3>1. PICK a \in {"enforce", "reset"} :
            \/ \E step \in {"freeze", "publish", "reset", "idle"} :
                 /\ Goto(a, step, {})
                 /\ step \in (IF a = "enforce" THEN {"freeze"} ELSE {"reset", "publish", "idle"})
            \/ Goto(a, "publish", ServingNodes)
      BY <1>7, QuotaKinds
    <3>2. CASE Goto(a, "publish", ServingNodes)
      BY <1>0, <3>2
    <3>3. CASE \E step \in {"freeze", "publish", "reset", "idle"} :
                 /\ Goto(a, step, {})
                 /\ step \in (IF a = "enforce" THEN {"freeze"} ELSE {"reset", "publish", "idle"})
      BY <1>0, <3>3
    <3> QED
      BY <3>1, <3>2, <3>3
  <2>3. a \in Actors
    BY <1>0
  <2>4. /\ pc'[a] \in {step, "idle"} /\ (step # "publish" => pc'[a] = step)
        /\ \A b \in Actors : b # a => pc'[b] = pc[b] /\ todo'[b] = todo[b]
    BY <2>2, <2>3, GotoFacts
  <2>5. \A b \in Callers : pc'[b] = pc[b] /\ todo'[b] = todo[b]
    BY <1>0, <2>4
  <2>6. Current
    BY <2>1, <2>5 DEF RequestsAreAlone, Live
  <2>7. /\ pc'["expiry"] = "idle"
        /\ pc'["enforce"] \in {"idle", "freeze", "publish"}
        /\ pc'["reset"] \in {"idle", "reset", "publish"}
    BY <1>0, <2>2, <2>4 DEF RequestsAreAlone
  <2> QED
    BY <2>6, <2>7 DEF RequestsAreAlone, Live
<1>8. ASSUME TimePasses \/ UNCHANGED vars  PROVE  RequestsAreAlone'
  <2>1. pc' = pc /\ todo' = todo /\ row'.life = row.life /\ row'.grants = row.grants
    BY <1>8 DEF TimePasses, vars, TypeOK, Rows
  <2> QED
    BY <2>1 DEF RequestsAreAlone, Live
<1>9. ASSUME Restart  PROVE  RequestsAreAlone'
  BY <1>0, <1>9 DEF Restart, RequestsAreAlone
<1> QED
  BY <1>4, <1>5, <1>6, <1>7, <1>8, <1>9 DEF Next, PublishStep

\* Updates may give and take grants as they like: with one request at a time and
\* without the expiry sweeper, every write knows all the nodes it changes.
THEOREM NothingIsOvertakenOneAtATime ==
    ASSUME \A a, b \in Callers : a = b, "expiry" \notin Sweepers
    PROVE  Spec => []NoneOvertaken
<1> DEFINE IInv == RequestsAreAlone /\ NoneOvertaken
<1>1. Init => IInv
  BY SweepersAreActors DEF Init, RequestsAreAlone, NoneOvertaken
<1>2. TypeOK /\ IInv /\ [Next]_vars => IInv'
  BY AloneStep, OvertakenStep DEF RequestsAreAlone
<1>3. IInv => NoneOvertaken
  OBVIOUS
<1> QED
  BY <1>1, <1>2, <1>3, TypeCorrect, PTL DEF Spec
=============================================================================
