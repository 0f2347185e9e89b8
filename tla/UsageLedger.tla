---------------------------- MODULE UsageLedger ----------------------------
(***************************************************************************)
(* The panel's accounting tables: the raw deltas, the hourly and daily     *)
(* rollups folded from them, the retention that prunes them, the repair    *)
(* that recomputes them and the window the quota sweeper sums over         *)
(* (internal/panel/nodes/accounting.go, accounting_verify.go,              *)
(* quota_billable.go, quota.go; scheduled in cmd/antimage-panel/main.go).  *)
(*                                                                         *)
(* A delta belongs to one bucket, that of its subject, node, service and   *)
(* hour.  A sum is abstracted to how often it contains each delta, so      *)
(* hourly[i] is the multiplicity of delta i in the total of its bucket.    *)
(* What IngestUsageReport does to subjects.quota_used_bytes is in          *)
(* UsageReporting.                                                         *)
(***************************************************************************)
EXTENDS Integers, Sequences, FiniteSets

CONSTANTS
    Subjects,
    MaxDeltas,      \* bound: deltas ever stored, hence also of one report
    MaxTime,        \* bound: the clock, in ticks
    HourTicks,      \* ticks in an hour
    DayHours,       \* hours in a day
    Retention       \* ticks a raw delta is kept

ASSUME LedgerBoundsAssumption ==
    /\ MaxDeltas \in Nat /\ MaxTime \in Nat
    /\ HourTicks \in Nat \ {0} /\ DayHours \in Nat \ {0}
    /\ Retention \in Nat

VARIABLES
    now,        \* the clock
    ledger,     \* every delta ever stored, by id (AUTOINCREMENT)
    rows,       \* ids of usage_deltas rows that have not been pruned
    watermark,  \* usage_rollup_state.last_delta_id
    hourly,     \* multiplicity of each delta in usage_rollups_hourly
    daily,      \* multiplicity of each delta in usage_rollups_daily
    period,     \* subjects.quota_period_start (created_at at first)
    repaired    \* history: an operator has run the repair

vars == <<now, ledger, rows, watermark, hourly, daily, period, repaired>>

Deltas == [subject : Subjects, at : Nat]
Ids == 1 .. Len(ledger)

HourStart(t) == (t \div HourTicks) * HourTicks
DayStart(t) == (t \div (HourTicks * DayHours)) * (HourTicks * DayHours)
SameBucket(i, j) ==
    /\ ledger[i].subject = ledger[j].subject
    /\ HourStart(ledger[i].at) = HourStart(ledger[j].at)

\* The subjects have just been created, on any tick of an hour.
Init ==
    /\ now \in 0 .. HourTicks - 1
    /\ ledger = <<>>
    /\ rows = {}
    /\ watermark = 0
    /\ hourly = <<>>
    /\ daily = <<>>
    /\ period = [s \in Subjects |-> now]
    /\ repaired = FALSE

-----------------------------------------------------------------------------
\* The rows of the quota window, branch by branch: rollups of hours that start
\* in the period, and deltas not yet folded.
Unfolded == {i \in rows : i > watermark}

\* Mutant of FromRollups: also the hour the period starts in.
FromRollupsCutHour(i) ==
    IF /\ HourStart(ledger[i].at) + HourTicks > period[ledger[i].subject]
       /\ HourStart(ledger[i].at) < now
    THEN hourly[i] ELSE 0

FromRollups(i) ==
    IF /\ HourStart(ledger[i].at) >= period[ledger[i].subject]
       /\ HourStart(ledger[i].at) < now
    THEN hourly[i] ELSE 0
FromDeltas(i) ==
    IF /\ i \in Unfolded
       /\ ledger[i].at >= period[ledger[i].subject]
       /\ ledger[i].at < now
    THEN 1 ELSE 0

\* How often findSubjectsOverQuota adds delta i to its subject's usage.
Billed(i) == FromRollups(i) + FromDeltas(i)

\* A report is stored: a row per sample, of the subjects q names, in one
\* transaction.
IngestUsageReport(q) ==
    /\ ledger' = [i \in 1 .. Len(ledger) + Len(q) |->
                    IF i <= Len(ledger) THEN ledger[i]
                    ELSE [subject |-> q[i - Len(ledger)], at |-> now]]
    /\ rows' = rows \cup (Len(ledger) + 1 .. Len(ledger) + Len(q))
    /\ hourly' = [i \in 1 .. Len(ledger) + Len(q) |->
                    IF i <= Len(ledger) THEN hourly[i] ELSE 0]
    /\ daily' = [i \in 1 .. Len(ledger) + Len(q) |->
                   IF i <= Len(ledger) THEN daily[i] ELSE 0]
    /\ UNCHANGED <<now, watermark, period, repaired>>

\* Mutant of RollupHourly: every row below the cutoff is folded on every run.
FoldEverything ==
    /\ Unfolded # {}
    /\ hourly' = [i \in Ids |-> hourly[i] + IF i \in rows THEN 1 ELSE 0]
    /\ watermark' = CHOOSE m \in Unfolded : \A i \in Unfolded : i <= m
    /\ UNCHANGED <<now, ledger, rows, daily, period, repaired>>

\* Mutant of RollupHourly: the watermark is the next id, not the last one.
WatermarkOffByOne ==
    /\ Unfolded # {}
    /\ LET ceiling == CHOOSE m \in Unfolded : \A i \in Unfolded : i <= m
       IN  hourly' = [i \in Ids |-> hourly[i] + IF i \in Unfolded THEN 1 ELSE 0]
           /\ watermark' = ceiling + 1
    /\ UNCHANGED <<now, ledger, rows, daily, period, repaired>>

\* Fold the rows above the watermark, up to the highest of them, and advance
\* the watermark to it.
RollupHourly ==
    /\ Unfolded # {}
    /\ LET ceiling == CHOOSE m \in Unfolded : \A i \in Unfolded : i <= m
       IN  hourly' = [i \in Ids |->
                        hourly[i] + IF i \in rows /\ i > watermark /\ i <= ceiling
                                    THEN 1 ELSE 0]
           /\ watermark' = ceiling
    /\ UNCHANGED <<now, ledger, rows, daily, period, repaired>>

\* Mutant of RollupDaily: adds instead of overwriting.
RollupDailyAccumulates ==
    /\ daily' = [i \in Ids |-> daily[i] + IF HourStart(ledger[i].at) < now
                                          THEN hourly[i] ELSE 0]
    /\ UNCHANGED <<now, ledger, rows, watermark, hourly, period, repaired>>

\* Recompute each day that has a finished hour from its hours.
RollupDaily ==
    /\ daily' = [i \in Ids |->
                   IF HourStart(ledger[i].at) < now THEN hourly[i]
                   ELSE IF \E j \in Ids :
                             /\ ledger[j].subject = ledger[i].subject
                             /\ DayStart(ledger[j].at) = DayStart(ledger[i].at)
                             /\ HourStart(ledger[j].at) < now
                   THEN 0 ELSE daily[i]]
    /\ UNCHANGED <<now, ledger, rows, watermark, hourly, period, repaired>>

PruneUsageDeltas ==
    /\ rows' = {i \in rows : ledger[i].at >= now - Retention}
    /\ UNCHANGED <<now, ledger, watermark, hourly, daily, period, repaired>>

\* Mutant of RepairHourlyRollups: the update lacks its WHERE EXISTS, so a row
\* none of whose deltas survive becomes an empty sum.
RepairEverything ==
    /\ LET folded(i) == \E j \in Ids : SameBucket(i, j) /\ hourly[j] > 0
       IN  hourly' = [i \in Ids |->
                        IF folded(i) THEN IF i \in rows THEN 1 ELSE 0 ELSE hourly[i]]
    /\ repaired' = TRUE
    /\ UNCHANGED <<now, ledger, rows, watermark, daily, period>>

\* Every rollup row that some surviving delta accounts for becomes the sum of
\* the surviving deltas of its bucket; a bucket never folded has no row.
RepairHourlyRollups ==
    /\ LET folded(i) == \E j \in Ids : SameBucket(i, j) /\ hourly[j] > 0
           recoverable(i) == \E j \in rows : SameBucket(i, j)
       IN  hourly' = [i \in Ids |->
                        IF folded(i) /\ recoverable(i)
                        THEN IF i \in rows THEN 1 ELSE 0
                        ELSE hourly[i]]
    /\ repaired' = TRUE
    /\ UNCHANGED <<now, ledger, rows, watermark, daily, period>>

\* resetSubject: the new period starts at quota_reset_at, on any tick of an
\* hour, whenever the sweeper gets to it.
ResetPeriod(s) ==
    /\ \E resetAt \in period[s] + 1 .. now : period' = [period EXCEPT ![s] = resetAt]
    /\ UNCHANGED <<now, ledger, rows, watermark, hourly, daily, repaired>>

\* Time passes.  The hourly job runs 168 times within the seven days of
\* retention: it is assumed that not all of them fail.
FoldKeepsUp == \A i \in Unfolded : ledger[i].at >= now + 1 - Retention
Tick ==
    /\ now < MaxTime /\ FoldKeepsUp
    /\ now' = now + 1
    /\ UNCHANGED <<ledger, rows, watermark, hourly, daily, period, repaired>>

Next ==
    \/ \E k \in 1 .. MaxDeltas - Len(ledger) : \E q \in [1 .. k -> Subjects] :
         IngestUsageReport(q)
    \/ \E s \in Subjects : ResetPeriod(s)
    \/ RollupHourly \/ RollupDaily \/ PruneUsageDeltas \/ RepairHourlyRollups
    \/ Tick

Spec == Init /\ [][Next]_vars

-----------------------------------------------------------------------------
(***************************************************************************)
(* Properties.                                                             *)
(***************************************************************************)

\* The tables and the clock have their declared types.
TypeOK ==
    /\ now \in Nat
    /\ ledger \in Seq(Deltas)
    /\ rows \in SUBSET Ids
    /\ watermark \in 0 .. Len(ledger)
    /\ hourly \in [Ids -> Nat]
    /\ daily \in [Ids -> Nat]
    /\ period \in [Subjects -> Nat]
    /\ repaired \in BOOLEAN

\* RollupHourly: "Each delta is folded EXACTLY ONCE", whatever is stored, pruned
\* or folded in between, until an operator repairs: those at or below the
\* watermark once, the others not.
FoldedExactlyOnce ==
    ~repaired => \A i \in Ids : hourly[i] = IF i <= watermark THEN 1 ELSE 0

\* RollupDaily never counts a delta more often than the hours it is made of, until
\* an operator repairs those.
DailyFollowsHourly == ~repaired => \A i \in Ids : daily[i] <= hourly[i]

\* findSubjectsOverQuota: "a delta is in exactly one of these two branches".
\* Wherever in an hour a period starts, until an operator repairs, and whether or
\* not a delta has been folded or pruned meanwhile: the quota window holds none
\* twice and none from before the period; it holds every delta of an hour that
\* starts in the period, and those of the hour the period starts in for as long
\* as they are not folded.
QuotaWindowIsExact ==
    ~repaired =>
        \A i \in Ids :
            LET start == period[ledger[i].subject]
            IN  ledger[i].at < now =>
                    /\ Billed(i) <= IF ledger[i].at >= start THEN 1 ELSE 0
                    /\ HourStart(ledger[i].at) >= start => Billed(i) = 1
                    /\ (ledger[i].at >= start /\ i > watermark) => Billed(i) = 1

\* RepairHourlyRollups: where the deltas do not survive "it is not recoverable at
\* all and this leaves the row alone".  The figure of a bucket all of whose
\* deltas were pruned after they had been folded is final: no later fold, repair
\* or report changes it.
PrunedBucketIsFinal ==
    [][\A i \in Ids :
         (i <= watermark /\ \A j \in rows : ~SameBucket(i, j)) => hourly'[i] = hourly[i]]_vars

-----------------------------------------------------------------------------
\* What makes them inductive: pruning never takes a row the fold has not seen,
\* and no delta is from the future.
UnfoldedSurvive ==
    /\ \A i \in Ids : i > watermark => i \in rows /\ ledger[i].at >= now - Retention
    /\ \A i \in Ids : ledger[i].at <= now

-----------------------------------------------------------------------------
(***************************************************************************)
(* What the repository says of the program and the program does not do.    *)
(***************************************************************************)

\* quota_billable.go:71 "a delta is in exactly one of these two branches": not one
\* of the hour the period starts in, once it has been folded.
InExactlyOneBranch ==
    \A i \in Ids :
        (ledger[i].at < now /\ ledger[i].at >= period[ledger[i].subject]) => Billed(i) = 1

\* accounting_verify.go:28 "Where the underlying deltas survive, the correct
\* figure can be recomputed": no total holds a delta twice.
NeverInflated == \A i \in Ids : hourly[i] <= 1

\* accounting_verify.go:172 "RecoverableHours are (subject, hour) buckets whose
\* deltas all survive": what was folded once is not taken out again.
RepairKeepsFolded ==
    [][\A i \in Ids : hourly[i] = 1 => hourly'[i] >= 1]_vars
=============================================================================
