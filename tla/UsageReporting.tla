--------------------------- MODULE UsageReporting ---------------------------
(***************************************************************************)
(* How traffic measured on ONE node reaches the panel's quota counters:    *)
(*                                                                         *)
(*   - the adapters' Usage calls, which advance a persisted cursor         *)
(*     (internal/node/adapter/xray/accounting.go and its siblings);        *)
(*   - the agent's accounting loop and its state file                      *)
(*     (internal/node/agent/accounting.go);                                *)
(*   - the control stream, which may drop what it carries;                 *)
(*   - IngestUsageReport and its (node_id, sequence) idempotency key       *)
(*     (internal/panel/nodes/accounting.go).                               *)
(*                                                                         *)
(* A sample is the traffic one reporter measured for one subject in one    *)
(* poll.  Its bytes are abstracted to its identity: a counter is the bag   *)
(* of the samples that were added to it.                                   *)
(***************************************************************************)
EXTENDS Integers, Sequences, FiniteSets

CONSTANTS
    Subjects,
    Reporters,   \* how many adapters account for their own traffic
    Attributing, \* those of them (1 .. Reporters) whose samples name a service
    MaxPolls,    \* bound: polls that find traffic
    MaxSessions  \* bound: control streams, one after the other

ASSUME SubjectsAssumption == Subjects # {}
ASSUME UsageBoundsAssumption ==
    /\ Reporters \in Nat \ {0}
    /\ Attributing \subseteq 1 .. Reporters
    /\ MaxPolls \in Nat
    /\ MaxSessions \in Nat \ {0}

Sessions == 1 .. MaxSessions
Samples == [poll : 1 .. MaxPolls, reporter : 1 .. Reporters, subject : Subjects]

\* AccountingState and UsageReport carry the same two fields.
States == [sequence : Nat, pending : SUBSET Samples]

VARIABLES
    polls,    \* polls made so far
    file,     \* accounting.json
    mem,      \* the state pollAndReport holds while it runs
    pc,       \* where pollAndReport is
    session,  \* the control stream in use
    open,     \* is it open, for the agent?
    wire,     \* reports in each stream, handled in order by the panel
    exist,    \* subjects the panel still has
    rows,     \* usage_deltas: the samples stored under each sequence
    counted,  \* how often each sample was added to quota_used_bytes
    measured, \* history: samples whose adapter moved its cursor past them
    durable,  \* history: samples that were written to the state file
    missed,   \* history: a report was sent and the file has kept it
    torn,     \* history: a write of the state file was cut short
    lost      \* history: samples lost with a stream or with a torn file

agentVars == <<polls, file, mem, pc, session, open>>
panelVars == <<exist, rows, counted>>
lossVars == <<torn, lost>>
historyVars == <<measured, durable, missed, lossVars>>
vars == <<agentVars, wire, panelVars, historyVars>>

\* Mutant of Fresh: sequences are counted down to zero from an unset -1.
FreshUnset == [sequence |-> -1, pending |-> {}]

\* What loadAccountingState returns without a readable file.
Fresh == [sequence |-> 0, pending |-> {}]

Init ==
    /\ polls = 0
    /\ file = Fresh
    /\ mem = Fresh
    /\ pc = "idle"
    /\ session = 1
    /\ open = TRUE
    /\ wire = [s \in Sessions |-> <<>>]
    /\ exist = Subjects
    /\ rows = [n \in {} |-> {}]
    /\ counted = [x \in Samples |-> 0]
    /\ measured = {}
    /\ durable = {}
    /\ missed = FALSE
    /\ torn = FALSE
    /\ lost = {}

-----------------------------------------------------------------------------
(***************************************************************************)
(* The agent's accounting loop.                                            *)
(***************************************************************************)

\* What poll p measures when reporter r finds traffic for the subjects t[r].
Measured(p, t, upto) ==
    {x \in Samples : x.poll = p /\ x.reporter <= upto /\ x.subject \in t[x.reporter]}

\* Every reporter is polled and moves its cursor; the state file is loaded and
\* the samples are appended under the next sequence.  A poll without traffic
\* does nothing.
Poll ==
    /\ pc = "idle" /\ open /\ polls < MaxPolls
    /\ polls' = polls + 1
    /\ \E t \in [1 .. Reporters -> SUBSET Subjects] :
         LET samples == Measured(polls + 1, t, Reporters) IN
         /\ samples # {}
         /\ mem' = [sequence |-> file.sequence + 1,
                    pending |-> file.pending \cup samples]
         /\ measured' = measured \cup samples
    /\ pc' = "save"
    /\ UNCHANGED <<file, session, open, wire, panelVars, durable, missed, lossVars>>

\* A reporter fails: the poll returns its error at once.  The reporters polled
\* before it have moved their cursors already.
PollFails ==
    /\ pc = "idle" /\ open /\ polls < MaxPolls
    /\ polls' = polls + 1
    /\ \E t \in [1 .. Reporters -> SUBSET Subjects], failing \in 1 .. Reporters :
         measured' = measured \cup Measured(polls + 1, t, failing - 1)
    /\ UNCHANGED <<file, mem, pc, session, open, wire, panelVars, durable, missed, lossVars>>

\* Mutant of Save: the next sequence is not recorded, so it is used again.
SaveWithoutSequence ==
    /\ pc = "save"
    /\ file' = [mem EXCEPT !.sequence = file.sequence]
    /\ durable' = durable \cup mem.pending
    /\ pc' = "send"
    /\ UNCHANGED <<polls, mem, session, open, wire, panelVars, measured, missed,
                   lossVars>>

\* "Persist before sending".
Save ==
    /\ pc = "save"
    /\ file' = mem
    /\ durable' = durable \cup mem.pending
    /\ pc' = "send"
    /\ UNCHANGED <<polls, mem, session, open, wire, panelVars, measured, missed,
                   lossVars>>

\* os.WriteFile truncates before it writes: a write that is cut short leaves the
\* old file or one the next load takes for a fresh state.  What the old file still
\* held for sending is gone with it, unless it has just been sent.
WriteCutShort ==
    /\ file' \in {file, Fresh}
    /\ torn' = (torn \/ file' # file)
    /\ lost' = IF pc = "save" THEN lost \cup (file.pending \ file'.pending) ELSE lost

SaveFails ==
    /\ pc = "save"
    /\ WriteCutShort
    /\ pc' = "idle"
    /\ UNCHANGED <<polls, mem, session, open, wire, panelVars, measured, durable,
                   missed>>

\* Send hands the report to the transport; on a dead stream it fails and the
\* samples stay pending.
Send ==
    /\ pc = "send"
    /\ IF open
       THEN pc' = "clear" /\ wire' = [wire EXCEPT ![session] = Append(@, mem)]
       ELSE pc' = "idle" /\ UNCHANGED wire
    /\ UNCHANGED <<polls, file, mem, session, open, panelVars, historyVars>>

\* Mutant of Clear: the pending samples are kept until the next report.
ClearKeepsPending ==
    /\ pc = "clear"
    /\ file' = mem
    /\ pc' = "idle"
    /\ UNCHANGED <<polls, mem, session, open, wire, panelVars, historyVars>>

\* A successful send counts as the acknowledgement.
Clear ==
    /\ pc = "clear"
    /\ file' = [mem EXCEPT !.pending = {}]
    /\ pc' = "idle"
    /\ UNCHANGED <<polls, mem, session, open, wire, panelVars, historyVars>>

\* The failure to clear is logged; the file may keep the samples just sent.
ClearFails ==
    /\ pc = "clear"
    /\ WriteCutShort
    /\ pc' = "idle"
    /\ missed' = (missed \/ file' = file)
    /\ UNCHANGED <<polls, mem, session, open, wire, panelVars, measured, durable>>

\* The agent dies anywhere, which may cut a write short.
AgentCrash ==
    /\ session < MaxSessions
    /\ pc' = "idle"
    /\ open' = FALSE
    /\ mem' = Fresh
    /\ IF pc \in {"save", "clear"} THEN WriteCutShort ELSE UNCHANGED <<file, lossVars>>
    /\ missed' = (missed \/ (pc = "clear" /\ file' = file))
    /\ UNCHANGED <<polls, session, wire, panelVars, measured, durable>>

-----------------------------------------------------------------------------
(***************************************************************************)
(* The control stream.                                                     *)
(***************************************************************************)

StreamDrop ==
    /\ open /\ session < MaxSessions
    /\ open' = FALSE
    /\ UNCHANGED <<polls, file, mem, pc, session, wire, panelVars, historyVars>>

\* The next session starts a loop of its own; the back-off leaves the old one
\* time to notice its cancelled context (assumed).
Reconnect ==
    /\ ~open /\ pc = "idle" /\ session < MaxSessions
    /\ session' = session + 1
    /\ open' = TRUE
    /\ UNCHANGED <<polls, file, mem, pc, wire, panelVars, historyVars>>

\* Everything stream s still holds is gone.
DiscardWire(s) ==
    /\ wire' = [wire EXCEPT ![s] = <<>>]
    /\ lost' = lost \cup UNION {wire[s][i].pending : i \in 1 .. Len(wire[s])}

\* What a dead stream still holds may never be read.
LoseReports(s) ==
    /\ wire[s] # <<>>
    /\ s < session \/ ~open
    /\ DiscardWire(s)
    /\ UNCHANGED <<agentVars, panelVars, measured, durable, missed, torn>>

-----------------------------------------------------------------------------
(***************************************************************************)
(* The panel.                                                              *)
(***************************************************************************)

\* Mutant of Ingest: the idempotency key is not looked up.
IngestWithoutKey(r) ==
    /\ rows' = [n \in DOMAIN rows \cup {r.sequence} |->
                  IF n = r.sequence THEN r.pending ELSE rows[n]]
    /\ counted' = [x \in Samples |-> counted[x] + IF x \in r.pending THEN 1 ELSE 0]

\* A report that can be stored: a sequence with rows is ignored, any other gets
\* a row per sample and adds each sample to its subject's counter.  No operation
\* sets subjects.on_hold_seconds, so activateIfOnHold finds no row to change.
Ingest(r) ==
    IF r.sequence \in DOMAIN rows
    THEN UNCHANGED <<rows, counted>>
    ELSE /\ rows' = [n \in DOMAIN rows \cup {r.sequence} |->
                       IF n = r.sequence THEN r.pending ELSE rows[n]]
         /\ counted' = [x \in Samples |->
                          counted[x] + IF x \in r.pending THEN 1 ELSE 0]

\* What the schema accepts: usage_deltas.subject_id references subjects, and
\* (node, sequence, subject, service) is unique unless the service is NULL.
Storable(r) ==
    \/ r.sequence \in DOMAIN rows
    \/ /\ \A x \in r.pending : x.subject \in exist
       /\ \A x, y \in r.pending :
            (x.subject = y.subject /\ x.reporter = y.reporter
                /\ x.reporter \in Attributing) => x = y

\* (Once the state file has been torn, sequences start again at 1 and a new
\* report may be ignored for an old one: its samples are lost.)
OnUsageReport(s) ==
    /\ wire[s] # <<>> /\ Storable(Head(wire[s]))
    /\ Ingest(Head(wire[s]))
    /\ wire' = [wire EXCEPT ![s] = Tail(@)]
    /\ lost' = IF torn /\ Head(wire[s]).sequence \in DOMAIN rows
               THEN lost \cup Head(wire[s]).pending ELSE lost
    /\ UNCHANGED <<agentVars, exist, measured, durable, missed, torn>>

\* One sample of a deleted subject, or two of one subject and service, fail the
\* transaction, and the error ends the stream with everything it still held.
OnUsageReportFails(s) ==
    /\ wire[s] # <<>> /\ ~Storable(Head(wire[s]))
    /\ DiscardWire(s)
    /\ open' = (open /\ s # session)
    /\ UNCHANGED <<polls, file, mem, pc, session, panelVars, measured, durable,
                   missed, torn>>

\* Deleting a subject cascades to its rows; a sequence none of whose rows is
\* left is no longer known.
DeleteSubject(u) ==
    /\ u \in exist
    /\ exist' = exist \ {u}
    /\ LET kept == [n \in DOMAIN rows |-> {x \in rows[n] : x.subject # u}]
       IN  rows' = [n \in {k \in DOMAIN rows : kept[k] # {}} |-> kept[n]]
    /\ UNCHANGED <<agentVars, wire, counted, historyVars>>

Next ==
    \/ Poll \/ PollFails \/ Save \/ SaveFails \/ Send \/ Clear \/ ClearFails
    \/ AgentCrash \/ StreamDrop \/ Reconnect
    \/ \E s \in Sessions : LoseReports(s) \/ OnUsageReport(s) \/ OnUsageReportFails(s)
    \/ \E u \in Subjects : DeleteSubject(u)

\* The loop's goroutine and the stream's handler keep running.
Fairness ==
    /\ WF_vars(Save) /\ WF_vars(Send) /\ WF_vars(Clear) /\ WF_vars(Reconnect)
    /\ \A s \in Sessions : WF_vars(OnUsageReport(s) \/ OnUsageReportFails(s))

Spec == Init /\ [][Next]_vars
FairSpec == Spec /\ Fairness

-----------------------------------------------------------------------------
(***************************************************************************)
(* Properties.                                                             *)
(***************************************************************************)

\* The state file, the reports and the panel's rows have their declared types.
TypeOK ==
    /\ polls \in 0 .. MaxPolls
    /\ file \in States
    /\ mem \in States
    /\ pc \in {"idle", "save", "send", "clear"}
    /\ session \in Sessions
    /\ open \in BOOLEAN
    /\ wire \in [Sessions -> Seq(States)]
    /\ exist \in SUBSET Subjects
    /\ DOMAIN rows \subseteq Nat
    /\ \A n \in DOMAIN rows : rows[n] \in SUBSET Samples
    /\ counted \in [Samples -> Nat]
    /\ measured \in SUBSET Samples
    /\ durable \in SUBSET Samples
    /\ missed \in BOOLEAN
    /\ torn \in BOOLEAN
    /\ lost \in SUBSET Samples

\* The reports the panel has still to read.
Queued == UNION {{wire[s][i] : i \in 1 .. Len(wire[s])} : s \in Sessions}

\* Invariant 10, "a usage delta is applied at most once" (IngestUsageReport):
\* unless the state file kept a report that was sent, because clearing it failed
\* or the agent died first, nothing makes a sample count twice: no stream drop,
\* failed save, send or poll, no other crash, no torn state file, no deleted
\* subject.
CountedAtMostOnce == ~missed => \A x \in Samples : counted[x] <= 1

\* The counters and the log agree: while no subject has been deleted, a sample was
\* counted exactly as often as a row says so (IngestUsageReport writes both in
\* one transaction, whatever repeats it ignores).
CountedAsStored ==
    exist = Subjects =>
        \A x \in Samples :
            counted[x] = Cardinality({n \in DOMAIN rows : x \in rows[n]})

\* pollAndReport: every sample that was once written to the state file gets
\* counted, or is still in the file because it could not be sent, through any
\* number of streams, crashes, failed sends and deletions.  Only three things lose
\* it: the report carrying it is discarded with its stream, a torn state file
\* takes it along, and, after a torn file, a sequence the panel has rows for.
EventuallyCounted ==
    (<>[][durable' = durable]_durable) =>
        <>[](\A x \in durable : counted[x] > 0 \/ x \in file.pending \/ x \in lost)

-----------------------------------------------------------------------------
(***************************************************************************)
(* The strengthening that makes CountedAtMostOnce inductive: until a clear *)
(* is missed, a sample is in one place only.                               *)
(***************************************************************************)

\* The samples the agent will still send.
Held == IF pc = "idle" THEN file.pending
        ELSE IF pc = "clear" THEN {} ELSE mem.pending

FileMatchesMemory ==
    /\ pc = "save" => file.pending \subseteq mem.pending
    /\ pc \in {"send", "clear"} => file.pending = mem.pending

\* Samples of polls still to come are nowhere yet.
NothingFromTheFuture ==
    \A x \in Samples : x.poll > polls =>
        /\ counted[x] = 0
        /\ x \notin file.pending /\ x \notin mem.pending
        /\ \A s \in Sessions : \A i \in 1 .. Len(wire[s]) : x \notin wire[s][i].pending

OnePlace ==
    \A x \in Samples :
        /\ x \in Held => counted[x] = 0
        /\ \A s \in Sessions : \A i \in 1 .. Len(wire[s]) :
             x \in wire[s][i].pending =>
                /\ counted[x] = 0 /\ x \notin Held
                /\ \A t \in Sessions : \A j \in 1 .. Len(wire[t]) :
                     x \in wire[t][j].pending => t = s /\ j = i

SamplePlaces ==
    ~missed =>
        /\ FileMatchesMemory /\ NothingFromTheFuture /\ OnePlace
        /\ \A x \in Samples : counted[x] <= 1

-----------------------------------------------------------------------------
(***************************************************************************)
(* What the repository says of the program and the program does not do.    *)
(***************************************************************************)

\* accounting.go:138 "worst case we re-send deltas that the panel already
\* applied, and idempotency rejects them": even then nothing counts twice.
IdempotencyRejectsRepeats == \A x \in Samples : counted[x] <= 1

\* SP3 decision 1: "An agent restart, a stream drop, or a panel outage delays
\* accounting; none of them lose it": a sample once written to the state file
\* is still held somewhere, or counted.
NothingLost ==
    \A x \in durable :
        \/ x \in file.pending
        \/ x \in mem.pending /\ pc # "idle"
        \/ \E r \in Queued : x \in r.pending
        \/ counted[x] > 0

\* accounting.go:134 "A retry after network error will re-send with the same
\* sequence, and the panel's idempotency key deduplicates it": a report whose
\* subjects all exist is one the panel can store or ignore.
RetryIsAccepted ==
    \A r \in Queued : (\A x \in r.pending : x.subject \in exist) => Storable(r)

\* accounting.go:86 "One adapter's failure must not discard the samples already
\* collected from the others".
NoSampleDiscarded ==
    \A x \in measured : x \in durable \/ (x \in mem.pending /\ pc # "idle")
=============================================================================
