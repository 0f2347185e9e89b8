------------------------ MODULE UsageReportingProofs ------------------------
(***************************************************************************)
(* Proofs about usage reporting, for every number of reporters, polls and  *)
(* sessions and every set of subjects.                                     *)
(***************************************************************************)
EXTENDS UsageReporting, SequenceTheorems, FiniteSetTheorems, TLAPS

-----------------------------------------------------------------------------
(* Type correctness. *)

\* A write cut short leaves a state in the file, a discarded stream nothing.
LEMMA CutShortTypes ==
    TypeOK /\ WriteCutShort
        => file' \in States /\ torn' \in BOOLEAN /\ lost' \in SUBSET Samples
<1>1. Fresh \in States
  BY DEF Fresh, States
<1>2. TypeOK => file.pending \in SUBSET Samples
  BY DEF TypeOK, States
<1> QED
  BY <1>1, <1>2 DEF WriteCutShort, TypeOK

LEMMA DiscardTypes ==
    ASSUME TypeOK, NEW s \in Sessions, DiscardWire(s)
    PROVE  wire' \in [Sessions -> Seq(States)] /\ lost' \in SUBSET Samples
<1>1. wire[s] \in Seq(States)
  BY DEF TypeOK
<1>2. \A i \in 1 .. Len(wire[s]) : wire[s][i] \in States
  BY <1>1
<1>3. \A i \in 1 .. Len(wire[s]) : wire[s][i].pending \in SUBSET Samples
  BY <1>2 DEF States
<1> QED
  BY <1>3, EmptySeq DEF TypeOK, DiscardWire

\* Every step keeps the types.
LEMMA TypeStep == TypeOK /\ [Next]_vars => TypeOK'
<1> SUFFICES ASSUME TypeOK, [Next]_vars PROVE TypeOK'
  OBVIOUS
<1> USE DEF agentVars, panelVars, historyVars, lossVars
<1>1. CASE Poll
  <2>1. PICK samples \in SUBSET Samples :
          /\ mem' = [sequence |-> file.sequence + 1, pending |-> file.pending \cup samples]
          /\ measured' = measured \cup samples
    BY <1>1 DEF Poll, Measured
  <2>2. mem' \in States
    BY <2>1 DEF TypeOK, States
  <2>3. polls' \in 0 .. MaxPolls
    BY <1>1, UsageBoundsAssumption DEF TypeOK, Poll
  <2> QED
    BY <1>1, <2>1, <2>2, <2>3 DEF TypeOK, Poll
<1>2. CASE PollFails
  <2>1. measured' \in SUBSET Samples
    BY <1>2 DEF TypeOK, PollFails, Measured
  <2>2. polls' \in 0 .. MaxPolls
    BY <1>2, UsageBoundsAssumption DEF TypeOK, PollFails
  <2> QED
    BY <1>2, <2>1, <2>2 DEF TypeOK, PollFails
<1>3. CASE Save
  BY <1>3 DEF TypeOK, Save, States
<1>4. CASE SaveFails
  BY <1>4, CutShortTypes DEF TypeOK, SaveFails
<1>5. CASE Send
  <2>1. Append(wire[session], mem) \in Seq(States)
    BY AppendProperties DEF TypeOK
  <2> QED
    BY <1>5, <2>1 DEF TypeOK, Send
<1>6. CASE Clear
  <2>1. [mem EXCEPT !.pending = {}] \in States
    BY DEF TypeOK, States
  <2> QED
    BY <1>6, <2>1 DEF TypeOK, Clear
<1>7. CASE ClearFails
  BY <1>7, CutShortTypes DEF TypeOK, ClearFails
<1>8. CASE AgentCrash
  <2>1. Fresh \in States
    BY DEF Fresh, States
  <2>2. file' \in States /\ torn' \in BOOLEAN /\ lost' \in SUBSET Samples
    BY <1>8, CutShortTypes DEF TypeOK, AgentCrash
  <2> QED
    BY <1>8, <2>1, <2>2 DEF TypeOK, AgentCrash
<1>9. CASE StreamDrop
  BY <1>9 DEF TypeOK, StreamDrop
<1>10. CASE Reconnect
  BY <1>10, UsageBoundsAssumption DEF TypeOK, Reconnect, Sessions
<1>11. ASSUME NEW s \in Sessions, LoseReports(s) PROVE TypeOK'
  BY <1>11, DiscardTypes DEF TypeOK, LoseReports
<1>12. ASSUME NEW s \in Sessions, OnUsageReport(s) PROVE TypeOK'
  <2>1. wire[s] \in Seq(States) /\ wire[s] # <<>>
    BY <1>12 DEF TypeOK, OnUsageReport
  <2>2. Head(wire[s]) \in States /\ Tail(wire[s]) \in Seq(States)
    BY <2>1, HeadTailProperties
  <2>3. Head(wire[s]).sequence \in Nat /\ Head(wire[s]).pending \in SUBSET Samples
    BY <2>2 DEF States
  <2> DEFINE r == Head(wire[s])
  <2>4. Ingest(r) /\ r.sequence \in Nat /\ r.pending \in SUBSET Samples
    BY <1>12, <2>3 DEF OnUsageReport
  <2> HIDE DEF r
  <2>5. /\ DOMAIN rows' \subseteq Nat
        /\ \A n \in DOMAIN rows' : rows'[n] \in SUBSET Samples
    <3>1. CASE r.sequence \in DOMAIN rows
      BY <2>4, <3>1 DEF TypeOK, Ingest
    <3>2. CASE r.sequence \notin DOMAIN rows
      <4>1. rows' = [n \in DOMAIN rows \cup {r.sequence} |->
                       IF n = r.sequence THEN r.pending ELSE rows[n]]
        BY <2>4, <3>2 DEF Ingest
      <4> QED
        BY <2>4, <4>1 DEF TypeOK
    <3> QED
      BY <3>1, <3>2
  <2>6. counted' \in [Samples -> Nat]
    <3>1. CASE r.sequence \in DOMAIN rows
      BY <2>4, <3>1 DEF TypeOK, Ingest
    <3>2. CASE r.sequence \notin DOMAIN rows
      <4>1. counted' = [x \in Samples |-> counted[x] + IF x \in r.pending THEN 1 ELSE 0]
        BY <2>4, <3>2 DEF Ingest
      <4>2. \A x \in Samples : counted[x] \in Nat
        BY DEF TypeOK
      <4>3. \A x \in Samples : counted[x] + (IF x \in r.pending THEN 1 ELSE 0) \in Nat
        BY <4>2
      <4> QED
        BY <4>1, <4>3
    <3> QED
      BY <3>1, <3>2
  <2>7. lost' \in SUBSET Samples
    <3>1. lost' \in {lost, lost \cup r.pending}
      BY <1>12 DEF OnUsageReport, r
    <3> QED
      BY <2>4, <3>1 DEF TypeOK
  <2> QED
    BY <1>12, <2>2, <2>5, <2>6, <2>7 DEF TypeOK, OnUsageReport
<1>13. ASSUME NEW s \in Sessions, OnUsageReportFails(s) PROVE TypeOK'
  BY <1>13, DiscardTypes DEF TypeOK, OnUsageReportFails
<1>14. ASSUME NEW u \in Subjects, DeleteSubject(u) PROVE TypeOK'
  <2>1. /\ DOMAIN rows' \subseteq Nat
        /\ \A n \in DOMAIN rows' : rows'[n] \in SUBSET Samples
    BY <1>14 DEF TypeOK, DeleteSubject
  <2> QED
    BY <1>14, <2>1 DEF TypeOK, DeleteSubject
<1>15. CASE UNCHANGED vars
  BY <1>15 DEF TypeOK, vars
<1> QED
  BY <1>1, <1>2, <1>3, <1>4, <1>5, <1>6, <1>7, <1>8, <1>9, <1>10, <1>11, <1>12,
     <1>13, <1>14, <1>15 DEF Next

-----------------------------------------------------------------------------
(* A sample is in one place. *)

\* Taking the head off a stream, or everything, leaves nothing new on it.
LEMMA TailIsOld ==
    ASSUME NEW q \in Seq(States), q # <<>>
    PROVE  /\ Len(Tail(q)) = Len(q) - 1
           /\ Len(q) \in Nat \ {0}
           /\ Head(q) = q[1]
           /\ \A i \in 1 .. Len(Tail(q)) : i + 1 \in 1 .. Len(q) /\ Tail(q)[i] = q[i + 1]
BY HeadTailProperties

\* No step puts a sample in a second place.
LEMMA PlacesStep == TypeOK /\ SamplePlaces /\ [Next]_vars => SamplePlaces'
<1>0. [Next]_vars => (missed => missed')
  BY DEF Next, vars, historyVars, Poll, PollFails, Save, SaveFails, Send, Clear, ClearFails,
         AgentCrash, StreamDrop, Reconnect, LoseReports, OnUsageReport,
         OnUsageReportFails, DeleteSubject
<1> SUFFICES ASSUME TypeOK, SamplePlaces, [Next]_vars, ~missed, ~missed'
             PROVE  SamplePlaces'
  BY <1>0 DEF SamplePlaces
<1> USE DEF agentVars, panelVars, historyVars, lossVars, SamplePlaces
<1>typ. \A s \in Sessions : wire[s] \in Seq(States) /\ Len(wire[s]) \in Nat
  BY DEF TypeOK
<1>1. CASE Poll
  <2>1. PICK samples \in SUBSET Samples :
          /\ mem' = [sequence |-> file.sequence + 1, pending |-> file.pending \cup samples]
          /\ \A x \in samples : x.poll = polls + 1
    BY <1>1 DEF Poll, Measured
  <2>2. /\ mem'.pending = file.pending \cup samples /\ polls' = polls + 1 /\ polls \in Nat
        /\ pc = "idle" /\ pc' = "save" /\ UNCHANGED <<file, wire, counted>>
    BY <1>1, <2>1 DEF Poll, TypeOK
  <2>3. \A x \in Samples : x.poll \in Nat
    BY DEF Samples
  <2>4. FileMatchesMemory'
    BY <2>2 DEF FileMatchesMemory
  <2>5. NothingFromTheFuture'
    BY <2>1, <2>2, <2>3 DEF NothingFromTheFuture
  <2>6. OnePlace'
    <3>1. Held' = file.pending \cup samples /\ Held = file.pending
      BY <2>2 DEF Held
    <3>2. \A x \in samples : x.poll > polls
      BY <2>1, <2>2, <2>3
    <3> QED
      BY <2>2, <3>1, <3>2 DEF OnePlace, NothingFromTheFuture
  <2> QED
    BY <2>2, <2>4, <2>5, <2>6
<1>2. CASE PollFails
  <2>1. /\ polls' = polls + 1 /\ polls \in Nat
        /\ UNCHANGED <<file, mem, pc, wire, counted>>
    BY <1>2 DEF PollFails, TypeOK
  <2>2. \A x \in Samples : x.poll \in Nat
    BY DEF Samples
  <2>3. NothingFromTheFuture'
    BY <2>1, <2>2 DEF NothingFromTheFuture
  <2> QED
    BY <2>1, <2>3 DEF FileMatchesMemory, OnePlace, Held
<1>3. CASE Save
  BY <1>3 DEF Save, FileMatchesMemory, NothingFromTheFuture, OnePlace, Held
<1>4. CASE Send
  <2>1. CASE ~open
    BY <1>4, <2>1 DEF Send, FileMatchesMemory, NothingFromTheFuture, OnePlace, Held
  <2>2. CASE open
    <3>1. /\ pc = "send" /\ pc' = "clear" /\ session \in Sessions
          /\ wire' = [wire EXCEPT ![session] = Append(wire[session], mem)]
          /\ UNCHANGED <<polls, file, mem, counted>>
      BY <1>4, <2>2 DEF Send, TypeOK
    <3>2. Held = mem.pending /\ Held' = {}
      BY <3>1 DEF Held
    <3>3. \A s \in Sessions : \A i \in 1 .. Len(wire'[s]) :
            \/ i \in 1 .. Len(wire[s]) /\ wire'[s][i] = wire[s][i]
            \/ s = session /\ i = Len(wire[s]) + 1 /\ wire'[s][i] = mem
      <4>1. \A s \in Sessions : wire'[s] = IF s = session THEN Append(wire[s], mem) ELSE wire[s]
        BY <3>1 DEF TypeOK
      <4>2. \A s \in Sessions :
              /\ Len(Append(wire[s], mem)) = Len(wire[s]) + 1
              /\ \A i \in 1 .. Len(wire[s]) : Append(wire[s], mem)[i] = wire[s][i]
              /\ Append(wire[s], mem)[Len(wire[s]) + 1] = mem
        BY <1>typ, AppendProperties DEF TypeOK
      <4> SUFFICES ASSUME NEW s \in Sessions, NEW i \in 1 .. Len(wire'[s])
                   PROVE  \/ i \in 1 .. Len(wire[s]) /\ wire'[s][i] = wire[s][i]
                          \/ s = session /\ i = Len(wire[s]) + 1 /\ wire'[s][i] = mem
        OBVIOUS
      <4>3. CASE s # session
        BY <4>1, <4>3
      <4>4. CASE s = session
        <5>1. wire'[s] = Append(wire[s], mem)
          BY <4>1, <4>4
        <5>2. i \in 1 .. Len(wire[s]) + 1 /\ Len(wire[s]) \in Nat
          BY <4>2, <5>1, <1>typ
        <5> QED
          BY <4>2, <4>4, <5>1, <5>2
      <4> QED
        BY <4>3, <4>4
    <3>4. NothingFromTheFuture'
      BY <3>1, <3>3 DEF NothingFromTheFuture
    <3>5. OnePlace'
      BY <3>1, <3>2, <3>3 DEF OnePlace
    <3> QED
      BY <3>1, <3>4, <3>5 DEF FileMatchesMemory
  <2> QED
    BY <2>1, <2>2
<1>5. CASE Clear
  <2>1. file'.pending = {} /\ mem \in States
    BY <1>5 DEF Clear, TypeOK, States
  <2> QED
    BY <1>5, <2>1 DEF Clear, FileMatchesMemory, NothingFromTheFuture, OnePlace, Held
<1>6. CASE StreamDrop \/ Reconnect \/ UNCHANGED vars
  BY <1>6 DEF StreamDrop, Reconnect, vars, FileMatchesMemory, NothingFromTheFuture,
              OnePlace, Held
<1>7. ASSUME NEW s \in Sessions, LoseReports(s) \/ OnUsageReportFails(s)
      PROVE SamplePlaces'
  <2>1. /\ wire' = [wire EXCEPT ![s] = <<>>]
        /\ UNCHANGED <<polls, file, mem, pc, counted>>
    BY <1>7 DEF LoseReports, OnUsageReportFails, DiscardWire
  <2>2. \A t \in Sessions : \A i \in 1 .. Len(wire'[t]) :
          i \in 1 .. Len(wire[t]) /\ wire'[t][i] = wire[t][i]
    BY <2>1 DEF TypeOK
  <2> QED
    BY <2>1, <2>2 DEF FileMatchesMemory, NothingFromTheFuture, OnePlace, Held
<1>8. ASSUME NEW s \in Sessions, OnUsageReport(s) PROVE SamplePlaces'
  <2> DEFINE r == Head(wire[s])
  <2>1. /\ wire[s] # <<>> /\ wire' = [wire EXCEPT ![s] = Tail(wire[s])]
        /\ Ingest(r) /\ UNCHANGED <<polls, file, mem, pc>>
    BY <1>8 DEF OnUsageReport
  <2>2. /\ Len(Tail(wire[s])) = Len(wire[s]) - 1
        /\ Len(wire[s]) \in Nat \ {0} /\ r = wire[s][1]
        /\ \A i \in 1 .. Len(Tail(wire[s])) :
             i + 1 \in 1 .. Len(wire[s]) /\ Tail(wire[s])[i] = wire[s][i + 1]
    BY <2>1, <1>typ, TailIsOld
  <2>3. wire'[s] = Tail(wire[s]) /\ \A t \in Sessions : t # s => wire'[t] = wire[t]
    BY <2>1 DEF TypeOK
  <2>r. r.pending \subseteq Samples
    <3>1. r \in States
      BY <2>1, <1>typ, HeadTailProperties
    <3> HIDE DEF r
    <3> QED
      BY <3>1 DEF States
  <2>4. \A x \in Samples : \/ counted'[x] = counted[x]
                           \/ x \in r.pending /\ counted'[x] = counted[x] + 1
    <3>1. \A x \in Samples : counted[x] \in Nat
      BY DEF TypeOK
    <3> HIDE DEF r
    <3> QED
      BY <2>1, <3>1 DEF Ingest
  <2>5. \A x \in r.pending : \A i \in 1 .. Len(wire'[s]) : x \notin wire'[s][i].pending
    <3> SUFFICES ASSUME NEW x \in r.pending, NEW i \in 1 .. Len(wire'[s]),
                        x \in wire'[s][i].pending
                 PROVE  FALSE
      OBVIOUS
    <3>1. x \in Samples /\ 1 \in 1 .. Len(wire[s]) /\ i + 1 \in 1 .. Len(wire[s])
      BY <2>2, <2>3, <2>r
    <3>2. x \in wire[s][1].pending /\ x \in wire[s][i + 1].pending
      BY <2>2, <2>3
    <3>3. 1 = i + 1
      BY <3>1, <3>2 DEF OnePlace
    <3> QED
      BY <3>3
  <2>6. \A x \in r.pending \cap Samples : counted[x] = 0 /\ x \notin Held
    BY <2>2 DEF OnePlace
  <2>7. \A x \in r.pending \cap Samples : \A t \in Sessions \ {s} :
          \A i \in 1 .. Len(wire[t]) : x \notin wire[t][i].pending
    BY <2>2 DEF OnePlace
  <2>8. \A x \in Samples : x.poll > polls => x \notin r.pending
    BY <2>2 DEF NothingFromTheFuture
  <2> HIDE DEF r
  <2>9. Held' = Held
    BY <2>1 DEF Held
  <2>10. NothingFromTheFuture'
    BY <2>1, <2>2, <2>3, <2>4, <2>8 DEF NothingFromTheFuture
  <2>11. OnePlace'
    <3> SUFFICES ASSUME NEW x \in Samples
                 PROVE  /\ x \in Held => counted'[x] = 0
                        /\ \A t \in Sessions : \A i \in 1 .. Len(wire'[t]) :
                             x \in wire'[t][i].pending =>
                                /\ counted'[x] = 0 /\ x \notin Held
                                /\ \A v \in Sessions : \A j \in 1 .. Len(wire'[v]) :
                                     x \in wire'[v][j].pending => v = t /\ j = i
      BY <2>9 DEF OnePlace
    <3>1. x \in Held => counted'[x] = 0
      BY <2>4, <2>6 DEF OnePlace
    <3>2. ASSUME NEW t \in Sessions, NEW i \in 1 .. Len(wire'[t]), x \in wire'[t][i].pending
          PROVE  counted'[x] = 0 /\ x \notin Held
      <4>1. x \notin r.pending
        BY <2>3, <2>5, <2>7, <3>2
      <4>2. PICK k \in 1 .. Len(wire[t]) : x \in wire[t][k].pending
        BY <2>2, <2>3, <3>2
      <4> QED
        BY <2>4, <4>1, <4>2 DEF OnePlace
    <3>3. ASSUME NEW t \in Sessions, NEW i \in 1 .. Len(wire'[t]), x \in wire'[t][i].pending,
                 NEW v \in Sessions, NEW j \in 1 .. Len(wire'[v]), x \in wire'[v][j].pending
          PROVE  v = t /\ j = i
      <4>1. i \in Nat /\ j \in Nat
        OBVIOUS
      <4>2. PICK k \in 1 .. Len(wire[t]) :
              /\ x \in wire[t][k].pending /\ k = (IF t = s THEN i + 1 ELSE i)
        BY <2>2, <2>3, <3>3
      <4>3. PICK l \in 1 .. Len(wire[v]) :
              /\ x \in wire[v][l].pending /\ l = (IF v = s THEN j + 1 ELSE j)
        BY <2>2, <2>3, <3>3
      <4>4. v = t /\ l = k
        BY <4>2, <4>3 DEF OnePlace
      <4> QED
        BY <4>1, <4>2, <4>3, <4>4
    <3> QED
      BY <3>1, <3>2, <3>3
  <2>12. \A x \in Samples : counted'[x] <= 1
    BY <2>4, <2>6
  <2> QED
    BY <2>1, <2>10, <2>11, <2>12 DEF FileMatchesMemory
<1>9. ASSUME NEW u \in Subjects, DeleteSubject(u) PROVE SamplePlaces'
  BY <1>9 DEF DeleteSubject, FileMatchesMemory, NothingFromTheFuture, OnePlace, Held
<1>cut. ASSUME file' \in {file, Fresh}, pc = "clear" => file' # file, pc' = "idle",
               mem' \in {mem, Fresh}, UNCHANGED <<polls, wire, counted>>
        PROVE  SamplePlaces'
  <2>1. /\ pc' = "idle" /\ UNCHANGED <<polls, wire, counted>>
        /\ file' \in {file, Fresh} /\ mem' \in {mem, Fresh}
    BY <1>cut
  <2>2. Fresh.pending = {}
    BY DEF Fresh
  <2>3. Held' \subseteq Held
    BY <1>cut, <2>2 DEF Held, FileMatchesMemory, TypeOK
  <2>4. FileMatchesMemory'
    BY <2>1 DEF FileMatchesMemory
  <2>5. NothingFromTheFuture'
    BY <2>1, <2>2 DEF NothingFromTheFuture
  <2>6. OnePlace'
    BY <2>1, <2>3 DEF OnePlace
  <2> QED
    BY <2>1, <2>4, <2>5, <2>6
<1>10. CASE SaveFails
  BY <1>10, <1>cut DEF SaveFails, WriteCutShort
<1>11. CASE ClearFails
  BY <1>11, <1>cut DEF ClearFails, WriteCutShort
<1>12. CASE AgentCrash
  BY <1>12, <1>cut DEF AgentCrash, WriteCutShort
<1> QED
  BY <1>1, <1>2, <1>3, <1>4, <1>5, <1>6, <1>7, <1>8, <1>9, <1>10, <1>11, <1>12
  DEF Next

-----------------------------------------------------------------------------
(* The counters follow the log. *)

\* The panel has rows under finitely many sequences.
FiniteLog == IsFiniteSet(DOMAIN rows)

\* A report adds its sequence, and one to the counter, for each of its samples.
LEMMA IngestCounts ==
    ASSUME TypeOK, FiniteLog, NEW r \in States, Ingest(r), NEW x \in Samples,
           counted[x] = Cardinality({n \in DOMAIN rows : x \in rows[n]})
    PROVE  /\ IsFiniteSet(DOMAIN rows')
           /\ counted'[x] = Cardinality({n \in DOMAIN rows' : x \in rows'[n]})
<1> DEFINE q == r.sequence
           before == {n \in DOMAIN rows : x \in rows[n]}
           after == {n \in DOMAIN rows' : x \in rows'[n]}
<1>1. CASE q \in DOMAIN rows
  BY <1>1 DEF Ingest, FiniteLog
<1>2. CASE q \notin DOMAIN rows
  <2>1. /\ rows' = [n \in DOMAIN rows \cup {q} |-> IF n = q THEN r.pending ELSE rows[n]]
        /\ counted' = [y \in Samples |-> counted[y] + IF y \in r.pending THEN 1 ELSE 0]
    BY <1>2 DEF Ingest
  <2>2. DOMAIN rows' = DOMAIN rows \cup {q} /\ IsFiniteSet(DOMAIN rows \cup {q})
    BY <2>1, FS_AddElement DEF FiniteLog
  <2>3. IsFiniteSet(before) /\ q \notin before /\ counted[x] = Cardinality(before)
          /\ Cardinality(before) \in Nat
    BY <1>2, FS_Subset, FS_CardinalityType DEF FiniteLog
  <2>4. CASE x \in r.pending
    <3>1. after = before \cup {q}
      BY <1>2, <2>1, <2>2, <2>4
    <3>2. Cardinality(before \cup {q}) = Cardinality(before) + 1
      BY <2>3, FS_AddElement
    <3>3. counted'[x] = counted[x] + 1
      BY <2>1, <2>4
    <3> QED
      BY <2>2, <2>3, <3>1, <3>2, <3>3
  <2>5. CASE x \notin r.pending
    <3>1. after = before
      BY <1>2, <2>1, <2>2, <2>5
    <3>2. counted'[x] = counted[x]
      BY <2>1, <2>3, <2>5
    <3>3. counted'[x] = Cardinality(after)
      BY <2>3, <3>1, <3>2, Zenon
    <3> QED
      BY <2>2, <3>3, Zenon
  <2> QED
    BY <2>4, <2>5
<1> QED
  BY <1>1, <1>2

\* Only a report changes counters and rows together, and only a deletion takes rows.
LEMMA StoredStep ==
    TypeOK /\ FiniteLog /\ CountedAsStored /\ [Next]_vars => FiniteLog' /\ CountedAsStored'
<1> SUFFICES ASSUME TypeOK, FiniteLog, CountedAsStored, [Next]_vars
             PROVE  FiniteLog' /\ CountedAsStored'
  OBVIOUS
<1> USE DEF agentVars, panelVars, historyVars, lossVars
<1>1. CASE UNCHANGED <<exist, rows, counted>>
  BY <1>1 DEF FiniteLog, CountedAsStored
<1>2. ASSUME NEW s \in Sessions, OnUsageReport(s) PROVE FiniteLog' /\ CountedAsStored'
  <2> DEFINE r == Head(wire[s])
  <2>1. Ingest(r) /\ exist' = exist
    BY <1>2 DEF OnUsageReport
  <2>2. r \in States
    BY <1>2, HeadTailProperties DEF TypeOK, OnUsageReport
  <2> HIDE DEF r
  <2>3. IsFiniteSet(DOMAIN rows')
    <3>1. CASE r.sequence \in DOMAIN rows
      BY <2>1, <3>1 DEF Ingest, FiniteLog
    <3>2. CASE r.sequence \notin DOMAIN rows
      <4>1. DOMAIN rows' = DOMAIN rows \cup {r.sequence}
        BY <2>1, <3>2 DEF Ingest
      <4> QED
        BY <4>1, FS_AddElement DEF FiniteLog
    <3> QED
      BY <3>1, <3>2
  <2>4. ASSUME exist = Subjects, NEW x \in Samples
        PROVE  counted'[x] = Cardinality({n \in DOMAIN rows' : x \in rows'[n]})
    BY <2>1, <2>2, <2>4, IngestCounts DEF CountedAsStored
  <2> QED
    BY <2>1, <2>3, <2>4 DEF FiniteLog, CountedAsStored
<1>3. ASSUME NEW u \in Subjects, DeleteSubject(u) PROVE FiniteLog' /\ CountedAsStored'
  <2>1. exist' # Subjects
    BY <1>3 DEF DeleteSubject
  <2>2. DOMAIN rows' \in SUBSET DOMAIN rows
    BY <1>3 DEF DeleteSubject
  <2>3. IsFiniteSet(DOMAIN rows')
    BY <2>2, FS_Subset DEF FiniteLog
  <2> QED
    BY <2>1, <2>3 DEF FiniteLog, CountedAsStored
<1>4. CASE \/ Poll \/ PollFails \/ Save \/ SaveFails \/ Send \/ Clear \/ ClearFails
           \/ AgentCrash \/ StreamDrop \/ Reconnect
  BY <1>1, <1>4 DEF Poll, PollFails, Save, SaveFails, Send, Clear, ClearFails, AgentCrash,
                    StreamDrop, Reconnect
<1>5. ASSUME NEW s \in Sessions, LoseReports(s) \/ OnUsageReportFails(s)
      PROVE  FiniteLog' /\ CountedAsStored'
  BY <1>1, <1>5 DEF LoseReports, OnUsageReportFails
<1>6. CASE UNCHANGED vars
  BY <1>1, <1>6 DEF vars
<1> QED
  BY <1>2, <1>3, <1>4, <1>5, <1>6 DEF Next

-----------------------------------------------------------------------------
(* The theorems. *)

\* The types hold in every reachable state.
THEOREM TypeCorrect == Spec => []TypeOK
<1>1. Init => TypeOK
  <2>1. /\ Fresh \in States /\ 1 \in Sessions /\ 0 \in 0 .. MaxPolls
        /\ <<>> \in Seq(States)
    BY UsageBoundsAssumption DEF Fresh, States, Sessions
  <2> SUFFICES ASSUME Init PROVE TypeOK
    OBVIOUS
  <2>2. /\ open \in BOOLEAN /\ missed \in BOOLEAN /\ torn \in BOOLEAN
        /\ lost \in SUBSET Samples
    BY DEF Init
  <2>3. /\ polls \in 0 .. MaxPolls /\ file \in States /\ mem \in States
        /\ session \in Sessions /\ wire \in [Sessions -> Seq(States)]
        /\ pc \in {"idle", "save", "send", "clear"}
    BY <2>1 DEF Init
  <2>4. /\ exist \in SUBSET Subjects /\ measured \in SUBSET Samples
        /\ durable \in SUBSET Samples /\ counted \in [Samples -> Nat]
        /\ DOMAIN rows \subseteq Nat /\ \A n \in DOMAIN rows : rows[n] \in SUBSET Samples
    BY DEF Init
  <2> QED
    BY <2>2, <2>3, <2>4 DEF TypeOK
<1>2. TypeOK /\ [Next]_vars => TypeOK'
  BY TypeStep
<1> QED
  BY <1>1, <1>2, PTL DEF Spec

\* Unless a clear is missed, IngestUsageReport counts no sample twice, however
\* streams drop, saves and sends fail, and agents die.
THEOREM AppliedAtMostOnce == Spec => []CountedAtMostOnce
<1>1. Init => SamplePlaces
  BY DEF Init, SamplePlaces, FileMatchesMemory, NothingFromTheFuture, OnePlace, Held,
         Fresh
<1>2. TypeOK /\ SamplePlaces /\ [Next]_vars => SamplePlaces'
  BY PlacesStep
<1>3. SamplePlaces => CountedAtMostOnce
  BY DEF SamplePlaces, CountedAtMostOnce
<1> QED
  BY <1>1, <1>2, <1>3, TypeCorrect, PTL DEF Spec

\* While no subject has been deleted, quota_used_bytes holds a sample exactly as often as
\* usage_deltas does, whatever IngestUsageReport was sent twice, late or not at all.
THEOREM CountersFollowTheLog == Spec => []CountedAsStored
<1>1. Init => FiniteLog /\ CountedAsStored
  <2> SUFFICES ASSUME Init PROVE FiniteLog /\ CountedAsStored
    OBVIOUS
  <2>1. DOMAIN rows = {} /\ \A x \in Samples : counted[x] = 0
    BY DEF Init
  <2>2. \A x \in Samples : {n \in DOMAIN rows : x \in rows[n]} = {}
    BY <2>1
  <2> QED
    BY <2>1, <2>2, FS_EmptySet DEF FiniteLog, CountedAsStored
<1>2. TypeOK /\ FiniteLog /\ CountedAsStored /\ [Next]_vars => FiniteLog' /\ CountedAsStored'
  BY StoredStep
<1> QED
  BY <1>1, <1>2, TypeCorrect, PTL DEF Spec
=============================================================================
