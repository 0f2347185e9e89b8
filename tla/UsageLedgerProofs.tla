-------------------------- MODULE UsageLedgerProofs --------------------------
(***************************************************************************)
(* Proofs about the accounting tables, for every retention, length of hour *)
(* and number of deltas.                                                   *)
(***************************************************************************)
EXTENDS UsageLedger, SequenceTheorems, TLAPS

\* A function on an initial segment of the naturals is a sequence.
LEMMA SeqOfLength ==
    ASSUME NEW S, NEW n \in Nat, NEW f \in [1 .. n -> S]
    PROVE  f \in Seq(S) /\ Len(f) = n
OBVIOUS

\* Padding a table with zeros keeps it a table of naturals.
LEMMA PaddedTable ==
    ASSUME NEW n \in Nat, NEW m \in Nat, NEW f \in [1 .. n -> Nat]
    PROVE  [i \in 1 .. m |-> IF i <= n THEN f[i] ELSE 0] \in [1 .. m -> Nat]
<1>1. \A i \in 1 .. m : i <= n => f[i] \in Nat
  OBVIOUS
<1> QED
  BY <1>1

\* What storing a report of k samples does to the tables.
LEMMA IngestShape ==
    ASSUME TypeOK, NEW k \in Nat, NEW q \in [1 .. k -> Subjects], IngestUsageReport(q)
    PROVE  /\ ledger' \in Seq(Deltas) /\ Len(ledger') = Len(ledger) + k
           /\ Len(ledger) \in Nat
           /\ \A i \in Ids : ledger'[i] = ledger[i] /\ hourly'[i] = hourly[i] /\ daily'[i] = daily[i]
           /\ \A i \in 1 .. Len(ledger') : i \notin Ids =>
                /\ i > Len(ledger) /\ i \in rows'
                /\ ledger'[i].at = now /\ hourly'[i] = 0 /\ daily'[i] = 0
           /\ rows \subseteq rows' /\ rows' \subseteq 1 .. Len(ledger')
           /\ hourly' \in [1 .. Len(ledger') -> Nat] /\ daily' \in [1 .. Len(ledger') -> Nat]
<1>1. Len(q) = k /\ q \in Seq(Subjects) /\ Len(ledger) \in Nat
  BY DEF TypeOK
<1>2. ledger' = [i \in 1 .. Len(ledger) + k |->
                   IF i <= Len(ledger) THEN ledger[i]
                   ELSE [subject |-> q[i - Len(ledger)], at |-> now]]
  BY <1>1 DEF IngestUsageReport
<1>3. \A i \in 1 .. Len(ledger) + k :
        (IF i <= Len(ledger) THEN ledger[i]
         ELSE [subject |-> q[i - Len(ledger)], at |-> now]) \in Deltas
  <2> SUFFICES ASSUME NEW i \in 1 .. Len(ledger) + k
               PROVE  (IF i <= Len(ledger) THEN ledger[i]
                       ELSE [subject |-> q[i - Len(ledger)], at |-> now]) \in Deltas
    OBVIOUS
  <2>1. CASE i <= Len(ledger)
    BY <1>1, <2>1, ElementOfSeq DEF TypeOK
  <2>2. CASE i > Len(ledger)
    <3>1. i - Len(ledger) \in 1 .. k
      BY <1>1, <2>2
    <3> QED
      BY <1>1, <2>2, <3>1 DEF TypeOK, Deltas
  <2> QED
    BY <1>1, <2>1, <2>2
<1>4. ledger' \in Seq(Deltas) /\ Len(ledger') = Len(ledger) + k
  <2>1. Len(ledger) + k \in Nat /\ ledger' \in [1 .. Len(ledger) + k -> Deltas]
    BY <1>1, <1>2, <1>3
  <2> QED
    BY <2>1, SeqOfLength
<1>5. /\ hourly' = [i \in 1 .. Len(ledger) + k |-> IF i <= Len(ledger) THEN hourly[i] ELSE 0]
      /\ daily' = [i \in 1 .. Len(ledger) + k |-> IF i <= Len(ledger) THEN daily[i] ELSE 0]
      /\ rows' = rows \cup (Len(ledger) + 1 .. Len(ledger) + k)
  BY <1>1 DEF IngestUsageReport
<1>6. /\ hourly' \in [1 .. Len(ledger') -> Nat] /\ daily' \in [1 .. Len(ledger') -> Nat]
      /\ rows \subseteq rows' /\ rows' \subseteq 1 .. Len(ledger')
  <2>1. hourly' \in [1 .. Len(ledger) + k -> Nat]
    BY <1>1, <1>5, PaddedTable DEF TypeOK, Ids
  <2>2. daily' \in [1 .. Len(ledger) + k -> Nat]
    BY <1>1, <1>5, PaddedTable DEF TypeOK, Ids
  <2>3. rows \subseteq rows' /\ rows' \subseteq 1 .. Len(ledger) + k
    <3>1. \A i \in rows : i \in 1 .. Len(ledger)
      BY DEF TypeOK, Ids
    <3>2. \A i \in rows : i \in 1 .. Len(ledger) + k
      BY <1>1, <3>1
    <3>3. \A i \in Len(ledger) + 1 .. Len(ledger) + k : i \in 1 .. Len(ledger) + k
      BY <1>1
    <3> QED
      BY <1>5, <3>2, <3>3
  <2> QED
    BY <1>4, <2>1, <2>2, <2>3
<1>7. \A i \in Ids : ledger'[i] = ledger[i] /\ hourly'[i] = hourly[i] /\ daily'[i] = daily[i]
  BY <1>1, <1>2, <1>5 DEF Ids
<1>8. \A i \in 1 .. Len(ledger') : i \notin Ids =>
        /\ i > Len(ledger) /\ i \in rows'
        /\ ledger'[i].at = now /\ hourly'[i] = 0 /\ daily'[i] = 0
  BY <1>1, <1>2, <1>4, <1>5 DEF Ids
<1> QED
  BY <1>1, <1>4, <1>6, <1>7, <1>8

\* What a fold does to the tables: the ceiling is the last id, since no row above
\* the watermark has been pruned.
LEMMA FoldShape ==
    ASSUME TypeOK, UnfoldedSurvive, RollupHourly
    PROVE  /\ watermark' = Len(ledger)
           /\ hourly' = [i \in Ids |-> hourly[i] + IF i > watermark THEN 1 ELSE 0]
           /\ UNCHANGED <<now, ledger, rows, daily, period, repaired>>
<1> DEFINE ceiling == CHOOSE m \in Unfolded : \A i \in Unfolded : i <= m
<1>1. Unfolded # {} /\ Unfolded \subseteq Ids /\ Len(ledger) \in Nat /\ watermark \in Nat
  BY DEF RollupHourly, Unfolded, TypeOK
<1>2. \A i \in Ids : i > watermark <=> i \in Unfolded
  BY DEF Unfolded, UnfoldedSurvive
<1>3. Len(ledger) \in Unfolded /\ \A i \in Unfolded : i <= Len(ledger)
  <2>1. PICK i \in Unfolded : i \in Ids /\ i > watermark
    BY <1>1 DEF Unfolded
  <2>2. Len(ledger) \in Ids /\ Len(ledger) > watermark
    BY <1>1, <2>1 DEF Ids
  <2> QED
    BY <1>1, <1>2, <2>2 DEF Ids
<1>4. ceiling \in Unfolded /\ \A i \in Unfolded : i <= ceiling
  BY <1>3
<1>5. /\ watermark' = ceiling
      /\ hourly' = [i \in Ids |-> hourly[i] + IF i \in rows /\ i > watermark /\ i <= ceiling
                                              THEN 1 ELSE 0]
      /\ UNCHANGED <<now, ledger, rows, daily, period, repaired>>
  BY DEF RollupHourly
<1> HIDE DEF ceiling
<1>6. ceiling = Len(ledger)
  BY <1>1, <1>3, <1>4 DEF Ids
<1>7. \A i \in Ids : (i \in rows /\ i > watermark /\ i <= ceiling) <=> i > watermark
  BY <1>1, <1>2, <1>6 DEF Unfolded, Ids
<1>8. hourly' = [i \in Ids |-> hourly[i] + IF i > watermark THEN 1 ELSE 0]
  BY <1>5, <1>7
<1> QED
  BY <1>5, <1>6, <1>8

\* Every step leaves the tables well typed, and the rows above the watermark in
\* the table.
LEMMA TablesStep ==
    ASSUME TypeOK, UnfoldedSurvive, [Next]_vars
    PROVE  TypeOK' /\ UnfoldedSurvive'
<1> USE LedgerBoundsAssumption
<1>0. /\ Len(ledger) \in Nat /\ watermark \in Nat /\ now \in Nat
      /\ \A i \in Ids : ledger[i].at \in Nat
  <2>1. Len(ledger) \in Nat /\ watermark \in Nat /\ now \in Nat
    BY DEF TypeOK
  <2>2. \A i \in Ids : ledger[i] \in Deltas
    BY <2>1, ElementOfSeq DEF TypeOK, Ids
  <2> QED
    BY <2>1, <2>2 DEF Deltas
<1>1. ASSUME NEW k \in 1 .. MaxDeltas - Len(ledger), NEW q \in [1 .. k -> Subjects],
             IngestUsageReport(q)
      PROVE  TypeOK' /\ UnfoldedSurvive'
  <2>1. k \in Nat
    BY <1>0
  <2>2. UNCHANGED <<now, watermark, period, repaired>>
    BY <1>1 DEF IngestUsageReport
  <2>3. /\ ledger' \in Seq(Deltas) /\ Len(ledger') = Len(ledger) + k
        /\ \A i \in Ids : ledger'[i] = ledger[i]
        /\ \A i \in 1 .. Len(ledger') : i \notin Ids => i \in rows' /\ ledger'[i].at = now
        /\ rows \subseteq rows' /\ rows' \subseteq 1 .. Len(ledger')
        /\ hourly' \in [1 .. Len(ledger') -> Nat] /\ daily' \in [1 .. Len(ledger') -> Nat]
    BY <1>1, <2>1, IngestShape
  <2>4. TypeOK'
    <3>1. watermark \in 0 .. Len(ledger')
      BY <1>0, <2>1, <2>3 DEF TypeOK
    <3> QED
      BY <2>2, <2>3, <3>1 DEF TypeOK, Ids
  <2>5. \A i \in 1 .. Len(ledger') :
          /\ i > watermark => i \in rows' /\ ledger'[i].at >= now - Retention
          /\ ledger'[i].at <= now
    <3> SUFFICES ASSUME NEW i \in 1 .. Len(ledger')
                 PROVE  /\ i > watermark => i \in rows' /\ ledger'[i].at >= now - Retention
                        /\ ledger'[i].at <= now
      OBVIOUS
    <3>1. CASE i \in Ids
      BY <2>3, <3>1 DEF UnfoldedSurvive
    <3>2. CASE i \notin Ids
      BY <1>0, <2>3, <3>2
    <3> QED
      BY <3>1, <3>2
  <2> QED
    BY <2>2, <2>4, <2>5 DEF UnfoldedSurvive, Ids
<1>2. ASSUME NEW s \in Subjects, ResetPeriod(s)  PROVE  TypeOK' /\ UnfoldedSurvive'
  <2>1. PICK resetAt \in period[s] + 1 .. now : period' = [period EXCEPT ![s] = resetAt]
    BY <1>2 DEF ResetPeriod
  <2>2. resetAt \in Nat
    BY <2>1 DEF TypeOK
  <2> QED
    BY <1>2, <2>1, <2>2 DEF ResetPeriod, TypeOK, UnfoldedSurvive, Ids
<1>3. CASE RollupHourly
  <2>1. /\ watermark' = Len(ledger)
        /\ hourly' = [i \in Ids |-> hourly[i] + IF i > watermark THEN 1 ELSE 0]
        /\ UNCHANGED <<now, ledger, rows, daily, period, repaired>>
    BY <1>3, FoldShape
  <2>2. hourly' \in [Ids -> Nat]
    BY <2>1 DEF TypeOK
  <2> QED
    BY <1>0, <2>1, <2>2 DEF TypeOK, UnfoldedSurvive, Ids
<1>4. CASE RollupDaily
  <2>1. daily' \in [Ids -> Nat] /\ UNCHANGED <<now, ledger, rows, watermark, hourly, period, repaired>>
    BY <1>4 DEF RollupDaily, TypeOK
  <2> QED
    BY <2>1 DEF TypeOK, UnfoldedSurvive, Ids
<1>5. CASE PruneUsageDeltas
  <2>1. /\ rows' = {i \in rows : ledger[i].at >= now - Retention}
        /\ UNCHANGED <<now, ledger, watermark, hourly, daily, period, repaired>>
    BY <1>5 DEF PruneUsageDeltas
  <2>2. \A i \in Ids : i > watermark => i \in rows'
    BY <2>1 DEF UnfoldedSurvive
  <2> QED
    BY <2>1, <2>2 DEF TypeOK, UnfoldedSurvive, Ids
<1>6. CASE RepairHourlyRollups
  <2>1. hourly' \in [Ids -> Nat] /\ UNCHANGED <<now, ledger, rows, watermark, daily, period>>
    BY <1>6 DEF RepairHourlyRollups, TypeOK
  <2>2. repaired' \in BOOLEAN
    BY <1>6 DEF RepairHourlyRollups
  <2> QED
    BY <2>1, <2>2 DEF TypeOK, UnfoldedSurvive, Ids
<1>7. CASE Tick
  <2>1. /\ now' = now + 1 /\ UNCHANGED <<ledger, rows, watermark, hourly, daily, period, repaired>>
        /\ \A i \in Unfolded : ledger[i].at >= now + 1 - Retention
    BY <1>7 DEF Tick, FoldKeepsUp
  <2>2. TypeOK'
    BY <2>1 DEF TypeOK, Ids
  <2>3. \A i \in Ids : i > watermark => i \in rows /\ ledger[i].at >= now + 1 - Retention
    BY <2>1 DEF UnfoldedSurvive, Unfolded
  <2>4. \A i \in Ids : ledger[i].at <= now + 1
    BY <1>0 DEF UnfoldedSurvive, TypeOK
  <2>5. Ids' = Ids /\ ledger' = ledger /\ rows' = rows /\ watermark' = watermark
    BY <2>1 DEF Ids
  <2>6. \A i \in Ids' : i > watermark' => i \in rows' /\ ledger'[i].at >= now' - Retention
    BY <1>0, <2>1, <2>3, <2>5
  <2>7. \A i \in Ids' : ledger'[i].at <= now'
    BY <2>1, <2>4, <2>5
  <2> QED
    BY <2>2, <2>6, <2>7 DEF UnfoldedSurvive
<1>8. CASE UNCHANGED vars
  BY <1>8 DEF vars, TypeOK, UnfoldedSurvive, Ids
<1> QED
  BY <1>1, <1>2, <1>3, <1>4, <1>5, <1>6, <1>7, <1>8 DEF Next

\* Initially nothing is stored and every period starts now.
LEMMA InitEstablishes ==
    Init => TypeOK /\ UnfoldedSurvive /\ FoldedExactlyOnce /\ DailyFollowsHourly
<1> SUFFICES ASSUME Init
             PROVE  TypeOK /\ UnfoldedSurvive /\ FoldedExactlyOnce /\ DailyFollowsHourly
  OBVIOUS
<1>1. ledger \in Seq(Deltas) /\ Len(ledger) = 0 /\ Ids = {}
  BY EmptySeq DEF Init, Ids
<1>2. hourly \in [Ids -> Nat] /\ daily \in [Ids -> Nat]
  BY <1>1 DEF Init
<1>3. repaired \in BOOLEAN
  BY DEF Init
<1>3a. now \in Nat
  BY LedgerBoundsAssumption DEF Init
<1>3b. period \in [Subjects -> Nat]
  BY <1>3a DEF Init
<1>4. TypeOK
  BY <1>1, <1>2, <1>3, <1>3a, <1>3b DEF Init, TypeOK
<1> QED
  BY <1>1, <1>4 DEF UnfoldedSurvive, FoldedExactlyOnce, DailyFollowsHourly

\* Until an operator repairs, every step is one of the other operations.
LEMMA NotYetRepaired ==
    ASSUME TypeOK, [Next]_vars, ~repaired'
    PROVE  ~repaired /\ ~RepairHourlyRollups
<1>1. ~RepairHourlyRollups
  BY DEF RepairHourlyRollups
<1>2. repaired' = repaired
  BY <1>1 DEF Next, vars, IngestUsageReport, ResetPeriod, RollupHourly, RollupDaily,
              PruneUsageDeltas, Tick
<1> QED
  BY <1>1, <1>2

\* Every step keeps each delta folded once, up to the watermark.
LEMMA FoldStep ==
    ASSUME TypeOK, UnfoldedSurvive, FoldedExactlyOnce, [Next]_vars
    PROVE  FoldedExactlyOnce'
<1> SUFFICES ASSUME ~repaired'
             PROVE  (\A i \in Ids : hourly[i] = IF i <= watermark THEN 1 ELSE 0)'
  BY DEF FoldedExactlyOnce
<1> ~repaired /\ ~RepairHourlyRollups
  BY NotYetRepaired
<1>0. Len(ledger) \in Nat /\ watermark \in 0 .. Len(ledger)
  BY DEF TypeOK
<1>1. ASSUME NEW k \in 1 .. MaxDeltas - Len(ledger), NEW q \in [1 .. k -> Subjects],
             IngestUsageReport(q)
      PROVE  (\A i \in Ids : hourly[i] = IF i <= watermark THEN 1 ELSE 0)'
  <2>1. k \in Nat /\ watermark' = watermark
    BY <1>0, <1>1, LedgerBoundsAssumption DEF IngestUsageReport
  <2>2. /\ \A i \in Ids : hourly'[i] = hourly[i]
        /\ \A i \in 1 .. Len(ledger') : i \notin Ids => i > Len(ledger) /\ hourly'[i] = 0
    BY <1>1, <2>1, IngestShape
  <2>3. ASSUME NEW i \in 1 .. Len(ledger')
        PROVE  hourly'[i] = IF i <= watermark' THEN 1 ELSE 0
    <3>1. CASE i \in Ids
      BY <2>1, <2>2, <3>1 DEF FoldedExactlyOnce
    <3>2. CASE i \notin Ids
      BY <1>0, <2>1, <2>2, <3>2
    <3> QED
      BY <3>1, <3>2
  <2> QED
    BY <2>3 DEF Ids
<1>2. CASE RollupHourly
  <2>1. /\ watermark' = Len(ledger) /\ ledger' = ledger
        /\ hourly' = [i \in Ids |-> hourly[i] + IF i > watermark THEN 1 ELSE 0]
    BY <1>2, FoldShape
  <2>2. ASSUME NEW i \in Ids
        PROVE  hourly'[i] = 1 /\ i <= watermark'
    <3>1. CASE i <= watermark
      BY <1>0, <2>1, <3>1 DEF FoldedExactlyOnce, Ids
    <3>2. CASE i > watermark
      BY <1>0, <2>1, <3>2 DEF FoldedExactlyOnce, Ids
    <3> QED
      BY <1>0, <3>1, <3>2 DEF Ids
  <2> QED
    BY <2>1, <2>2 DEF Ids
<1>3. CASE UNCHANGED <<ledger, watermark, hourly>>
  BY <1>3 DEF FoldedExactlyOnce, Ids
<1>4. CASE (\E s \in Subjects : ResetPeriod(s)) \/ RollupDaily \/ PruneUsageDeltas \/ Tick
  <2>1. UNCHANGED <<ledger, watermark, hourly>>
    BY <1>4 DEF ResetPeriod, RollupDaily, PruneUsageDeltas, Tick
  <2> QED
    BY <1>3, <2>1
<1> QED
  BY <1>1, <1>2, <1>3, <1>4 DEF Next, vars

\* Every step keeps a day's total within that of its hours.
LEMMA DailyStep ==
    ASSUME TypeOK, UnfoldedSurvive, DailyFollowsHourly, [Next]_vars
    PROVE  DailyFollowsHourly'
<1> SUFFICES ASSUME ~repaired'
             PROVE  (\A i \in Ids : daily[i] <= hourly[i])'
  BY DEF DailyFollowsHourly
<1> ~repaired /\ ~RepairHourlyRollups
  BY NotYetRepaired
<1>0. Len(ledger) \in Nat /\ hourly \in [Ids -> Nat] /\ daily \in [Ids -> Nat]
  BY DEF TypeOK
<1>1. ASSUME NEW k \in 1 .. MaxDeltas - Len(ledger), NEW q \in [1 .. k -> Subjects],
             IngestUsageReport(q)
      PROVE  (\A i \in Ids : daily[i] <= hourly[i])'
  <2>1. k \in Nat
    BY <1>0, LedgerBoundsAssumption
  <2>2. /\ \A i \in Ids : hourly'[i] = hourly[i] /\ daily'[i] = daily[i]
        /\ \A i \in 1 .. Len(ledger') : i \notin Ids => daily'[i] = 0 /\ hourly'[i] = 0
    BY <1>1, <2>1, IngestShape
  <2>3. ASSUME NEW i \in 1 .. Len(ledger')
        PROVE  daily'[i] <= hourly'[i]
    BY <2>2 DEF DailyFollowsHourly
  <2> QED
    BY <2>3 DEF Ids
<1>2. CASE RollupHourly
  <2>1. /\ ledger' = ledger /\ daily' = daily
        /\ hourly' = [i \in Ids |-> hourly[i] + IF i > watermark THEN 1 ELSE 0]
    BY <1>2, FoldShape
  <2>2. \A i \in Ids : hourly'[i] >= hourly[i]
    BY <1>0, <2>1
  <2>3. \A i \in Ids : hourly'[i] \in Nat
    BY <1>0, <2>1
  <2>4. \A i \in Ids : daily'[i] <= hourly'[i]
    BY <1>0, <2>1, <2>2, <2>3 DEF DailyFollowsHourly
  <2> QED
    BY <2>1, <2>4 DEF Ids
<1>3. CASE RollupDaily
  <2>1. ledger' = ledger /\ hourly' = hourly
    BY <1>3 DEF RollupDaily
  <2>2. \A i \in Ids : daily'[i] \in {hourly[i], 0, daily[i]}
    BY <1>3 DEF RollupDaily
  <2>3. \A i \in Ids : daily'[i] <= hourly'[i]
    BY <1>0, <2>1, <2>2 DEF DailyFollowsHourly
  <2> QED
    BY <2>1, <2>3 DEF Ids
<1>4. CASE UNCHANGED <<ledger, daily, hourly>>
  BY <1>4 DEF DailyFollowsHourly, Ids
<1>5. CASE (\E s \in Subjects : ResetPeriod(s)) \/ PruneUsageDeltas \/ Tick
  <2>1. UNCHANGED <<ledger, daily, hourly>>
    BY <1>5 DEF ResetPeriod, PruneUsageDeltas, Tick
  <2> QED
    BY <1>4, <2>1
<1> QED
  BY <1>1, <1>2, <1>3, <1>4, <1>5 DEF Next, vars

\* An hour starts no later than any moment of it.
LEMMA HourStartsFirst ==
    ASSUME NEW t \in Nat
    PROVE  HourStart(t) <= t /\ HourStart(t) \in Nat
<1>1. HourTicks \in Nat \ {0}
  BY LedgerBoundsAssumption
<1> QED
  BY <1>1 DEF HourStart

\* The window is exact wherever the tables are as the invariants say.
LEMMA WindowFollows ==
    ASSUME TypeOK, UnfoldedSurvive, FoldedExactlyOnce
    PROVE  QuotaWindowIsExact
<1> SUFFICES ASSUME ~repaired, NEW i \in Ids, ledger[i].at < now, NEW p,
                    p = period[ledger[i].subject]
             PROVE  /\ Billed(i) <= IF ledger[i].at >= p THEN 1 ELSE 0
                    /\ HourStart(ledger[i].at) >= p => Billed(i) = 1
                    /\ (ledger[i].at >= p /\ i > watermark) => Billed(i) = 1
  BY DEF QuotaWindowIsExact
<1> DEFINE t == ledger[i].at
<1>1. ledger[i] \in Deltas /\ i \in Nat /\ watermark \in Nat /\ now \in Nat
  BY ElementOfSeq DEF TypeOK, Ids
<1>2. t \in Nat /\ p \in Nat
  BY <1>1 DEF TypeOK, Deltas
<1>3. FromRollups(i) = IF HourStart(t) >= p /\ HourStart(t) < now THEN hourly[i] ELSE 0
  BY DEF FromRollups
<1>4. FromDeltas(i) = IF i \in Unfolded /\ t >= p /\ t < now THEN 1 ELSE 0
  BY DEF FromDeltas
<1>5. t < now
  OBVIOUS
<1> HIDE DEF t
<1>6. HourStart(t) <= t /\ HourStart(t) \in Nat
  BY <1>2, HourStartsFirst
<1>7. CASE i <= watermark
  <2>1. hourly[i] = 1 /\ i \notin Unfolded
    BY <1>1, <1>7 DEF FoldedExactlyOnce, Unfolded
  <2>2. Billed(i) = IF HourStart(t) >= p THEN 1 ELSE 0
    BY <1>1, <1>2, <1>3, <1>4, <1>5, <1>6, <2>1 DEF Billed
  <2> QED
    BY <1>1, <1>2, <1>6, <1>7, <2>2 DEF t
<1>8. CASE i > watermark
  <2>1. hourly[i] = 0 /\ i \in Unfolded
    BY <1>1, <1>8 DEF FoldedExactlyOnce, UnfoldedSurvive, Unfolded
  <2>2. Billed(i) = IF t >= p THEN 1 ELSE 0
    BY <1>3, <1>4, <1>5, <2>1 DEF Billed
  <2> QED
    BY <1>1, <1>2, <1>6, <1>8, <2>2 DEF t
<1> QED
  BY <1>1, <1>7, <1>8

\* No step touches the figure of a bucket whose deltas are all folded and pruned.
LEMMA PrunedStep ==
    ASSUME TypeOK, UnfoldedSurvive, [Next]_vars,
           NEW i \in Ids, i <= watermark, \A j \in rows : ~SameBucket(i, j)
    PROVE  hourly'[i] = hourly[i]
<1>0. Len(ledger) \in Nat /\ watermark \in Nat /\ i \in Nat /\ hourly \in [Ids -> Nat]
  BY DEF TypeOK, Ids
<1>1. ASSUME NEW k \in 1 .. MaxDeltas - Len(ledger), NEW q \in [1 .. k -> Subjects],
             IngestUsageReport(q)
      PROVE  hourly'[i] = hourly[i]
  <2>1. k \in Nat
    BY <1>0, LedgerBoundsAssumption
  <2> QED
    BY <1>1, <2>1, IngestShape
<1>2. CASE RollupHourly
  <2>1. hourly' = [n \in Ids |-> hourly[n] + IF n > watermark THEN 1 ELSE 0]
    BY <1>2, FoldShape
  <2> QED
    BY <1>0, <2>1
<1>3. CASE RepairHourlyRollups
  BY <1>3 DEF RepairHourlyRollups
<1>4. CASE hourly' = hourly
  BY <1>4
<1>5. CASE (\E s \in Subjects : ResetPeriod(s)) \/ RollupDaily \/ PruneUsageDeltas \/ Tick
  BY <1>4, <1>5 DEF ResetPeriod, RollupDaily, PruneUsageDeltas, Tick
<1> QED
  BY <1>1, <1>2, <1>3, <1>4, <1>5 DEF Next, vars

-----------------------------------------------------------------------------
\* The accounting tables keep their types, and retention never prunes a delta
\* that has not been folded.
THEOREM TypeCorrect == Spec => [](TypeOK /\ UnfoldedSurvive)
<1>1. Init => TypeOK /\ UnfoldedSurvive
  BY InitEstablishes
<1>2. TypeOK /\ UnfoldedSurvive /\ [Next]_vars => TypeOK' /\ UnfoldedSurvive'
  BY TablesStep
<1> QED
  BY <1>1, <1>2, PTL DEF Spec

\* RollupHourly folds every delta exactly once, for any retention, any number of
\* reports and any schedule of the jobs.
THEOREM FoldedOnce == Spec => []FoldedExactlyOnce
<1>1. Init => FoldedExactlyOnce
  BY InitEstablishes
<1>2. TypeOK /\ UnfoldedSurvive /\ FoldedExactlyOnce /\ [Next]_vars => FoldedExactlyOnce'
  BY FoldStep
<1> QED
  BY <1>1, <1>2, TypeCorrect, PTL DEF Spec

\* RollupDaily never counts more than the hours hold.
THEOREM DailyWithinHourly == Spec => []DailyFollowsHourly
<1>1. Init => DailyFollowsHourly
  BY InitEstablishes
<1>2. TypeOK /\ UnfoldedSurvive /\ DailyFollowsHourly /\ [Next]_vars => DailyFollowsHourly'
  BY DailyStep
<1> QED
  BY <1>1, <1>2, TypeCorrect, PTL DEF Spec

\* findSubjectsOverQuota, wherever in an hour a period starts: no delta is billed
\* twice and none from before the period, every delta of an hour that starts in the
\* period is billed once, and those of the hour the period starts in until they
\* are folded.
THEOREM QuotaWindowExact == Spec => []QuotaWindowIsExact
<1>1. TypeOK /\ UnfoldedSurvive /\ FoldedExactlyOnce => QuotaWindowIsExact
  BY WindowFollows
<1> QED
  BY <1>1, TypeCorrect, FoldedOnce, PTL

\* RepairHourlyRollups, and every other step, leaves the figures of fully pruned
\* buckets alone.
THEOREM PrunedFiguresAreFinal == Spec => PrunedBucketIsFinal
<1>1. TypeOK /\ UnfoldedSurvive /\ [Next]_vars =>
        [\A i \in Ids :
           (i <= watermark /\ \A j \in rows : ~SameBucket(i, j)) => hourly'[i] = hourly[i]]_vars
  BY PrunedStep
<1> QED
  BY <1>1, TypeCorrect, PTL DEF Spec, PrunedBucketIsFinal
=============================================================================
