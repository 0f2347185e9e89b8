# A verification project for antimage

antimage is a control plane for proxy and VPN nodes: a *panel* (Go, SQLite) that
keeps the desired state of every node and accounts for its customers, and an
*agent* on each node that fetches that state, applies it and reports traffic back.
This directory holds TLA+ models of the parts of it in which steps of several
actors meet, the TLC runs that check them on small instances, and TLAPS proofs of
their safety properties for every size.

`PROJECT.json` maps every definition that models code to the lines it models, and
lists the runs, the mutants that show each property can fail, the hazards and the
theorems. Paths below are relative to the repository.

    tlc -workers 2 -config ControlLoopSafety.cfg MCControlLoop     # a run
    tlapm ControlLoopProofs.tla                                    # the proofs

## 1. Inventory

| component | state | operations | meets |
|---|---|---|---|
| desired state (`panel/nodes/commit.go`, `snapshot.go`, `convergence.go`) | `nodes.desired_revision`, `applied_revision`, `status`; `node_revisions` | `CommitNodeChange`, `BuildDesiredSnapshot`, `RecordApplyRun`, `RecordHello`, `RecordHeartbeat` | every handler and sweeper that changes what a node should run |
| control hub (`panel/control/hub.go`) | per node: the registered stream, a bump channel of one, a command channel, waiting results | `Register`, release, `Notify`, `SendCommand`, `DeliverResult` | stream handlers, HTTP handlers, sweepers |
| stream handler (`panel/control/control_service.go`, `server.go`) | one goroutine pair per stream | `VerifyPeer`, Hello, Heartbeat, ApplyReport, UsageReport, CommandResult | hub, desired state, usage ledger |
| agent session (`node/agent/client.go`) | current stream, timers | dial, Hello, fetch, reconcile, heartbeat, commands | panel, adapters |
| agent reconcile (`node/agent/reconcile.go`) and the seven adapters (`node/adapter/*`) | per adapter: a configuration file, a record of what was applied, the daemon | observe, plan, apply with retry, confirm | agent session, the host, whoever edits its files |
| on-demand commands (`httpapi/core_upgrade.go`, `geo_update.go`, `nodes_actions.go`, `nodes_bulk.go`, `xray_logs.go`; `adapter/xray/coreversion.go`, `geodata.go`) | waiting callers, the command in flight; core binary, geo files, `adapter_registry` | restart, upgrade the core, update geo data, fetch logs | hub, agent session |
| usage reporting (`node/agent/accounting.go`, adapters' `accounting.go`) | `accounting.json`, adapters' cursors | poll, save, send, clear | stream, usage ledger |
| usage ledger (`panel/nodes/accounting.go`, `accounting_verify.go`) | `usage_deltas`, hourly and daily rollups, the watermark, `quota_used_bytes` | ingest, fold, prune, verify, repair | quota sweepers |
| quota (`panel/nodes/quota.go`, `quota_billable.go`) | `quota_period_start`, `quota_reset_at`, frozen and enabled columns | enforce, reset | desired state, subjects |
| billing arithmetic (`panel/nodes/billable.go`) | none | `Billable`, `Threshold`, `mulDiv` | quota |
| subjects (`panel/service/subjects.go`, `panel/subjects`) | the subject's row, grants, credentials | create, provision, update, delete, enable, freeze, rotate, expiry sweep | desired state, hub |
| node status (`panel/nodes/state_machine.go`, `sweeper.go`, `httpapi/nodes_actions.go`) | `nodes.status`, `maintenance_mode`, `last_seen_at` | offline sweep, maintenance, enable, disable, sync | stream handlers |
| enrollment (`panel/control/enroll_service.go`, `panel/nodes/enroll.go`, `ca.go`, `node/agent/enroll.go`, `cmd/antimage-node`) | tokens, `node_certs`, the CA's file; the agent's key, certificate, CA and configuration files | issue, redeem, sign, record, store; bootstrap over SSH | stream handler |
| deployment (`panel/deployment`, `httpapi/deployment.go`) | deployments and their node rows | create, execute by strategy, time out, roll back, recover | desired state (its revisions; nothing is sent) |
| resellers (`panel/resellers`, `service/resellers.go`, `httpapi/subjects_bulk_*.go`, `subjects_import.go`) | terms, an append-only ledger, who owns which subject | credit, provision, bulk enable, disable, extend, quota and delete, import | subjects |
| sign-in (`panel/auth`, `httpapi/auth_handlers.go`, `totp.go`, `admins*.go`, `sessions.go`) | administrators, sessions, recovery codes, failed attempts | log in, enrol, confirm and drop a second factor, change passwords, suspend and delete accounts | every request |
| node enforcement (`node/enforcement`, `node/agent/enforcement.go`, `adapter/xray/enforcement.go`) | policies, connections and their index on the node | sync, register, disconnect, clean up, update policies | agent session, xray |
| alerts (`panel/observability`) | `alerts`, by a key that at most one active row has | eight checks every five minutes | rows of nodes and subjects |
| bulk jobs (`panel/bulk`), devices, notifications, subscriptions, audit, HTTP API, web UI | see PROJECT.json | | |

What is hard in this code, and where the properties are aimed:

* **Every change is published in a second transaction.** A subject's row is
  written in one transaction and the nodes' documents are rebuilt afterwards, one
  transaction each, by whoever made the change. Requests and three sweepers do so
  concurrently, and nothing durable records what is still to be published.
* **Streams overlap.** An agent reconnects before the panel notices that the old
  stream is dead; the old handler's release then runs after the newcomer registered.
  Bumps are dropped when the channel is full. Reports of old revisions arrive late.
* **Usage is shipped without acknowledgement.** The agent clears its state file
  when `Send` returns; retries merge old samples with new ones under a new sequence.
* **Sums are kept twice.** A delta is in a raw row, in an hourly total, or in both;
  four jobs on different timers move it, prune it, recompute it and bill it.
* **Work is done in steps on a host that fails.** An adapter changes a file, its own
  record and a daemon by separate operations, a core upgrade moves the running binary
  away first, enrolment leaves four files behind; each may stop half way and the next
  attempt starts from whatever is there.
* **Requests decide on what they read earlier.** The limiter is asked in one step and
  told in another, recovery codes are compared outside of the transaction that spends
  them, a list of late deployments or of alert rows is stale when it is acted upon.

What makes each component correct is stated in section 4.

## 2. Modules

| module | models | checked by | proved in |
|---|---|---|---|
| `DesiredState` | what the panel promises of one node's desired state: revisions issued, confirmed, applied | as a property of `ControlLoop` | `ControlLoopProofs` |
| `ControlLoop` | the panel's rows of one node, hub, stream handlers, agent session, node status | `MCControlLoop` | `ControlLoopProofs` |
| `UsageReporting` | polls, the agent's state file, the stream, `IngestUsageReport` | `MCUsageReporting` | `UsageReportingProofs` |
| `UsageLedger` | deltas, rollups, retention, repair, the quota window | `MCUsageLedger` | `UsageLedgerProofs` |
| `SubjectPublish` | one subject, its documents, concurrent requests and three sweepers | `MCSubjectPublish` | `SubjectPublishProofs` |
| `CommandCall` | what `Hub.SendCommand` promises: an at-most-once call | as a property of `Commands` | `NodeCallsProofs` |
| `Commands` | the handlers that send commands, hub, streams, the agent executing them, core upgrade and geo data | `MCNodeCalls` | `NodeCallsProofs` |
| `Enrollment` | tokens, CA, the Enroll call, the agent's files, bootstrap over SSH | `MCNodeCalls` | `NodeCallsProofs` |
| `Adapters` | one adapter of any kind under the reconcile loop | `MCSettling` | `AdapterProofs` |
| `Deployment` | deployments of a node, their executor, rollbacks, sweeper and recovery | `MCSettling` | `SettlingProofs` |
| `Alerts` | the alert sweeper over one node and one subject | `MCSettling` | `SettlingProofs` |
| `Resellers` | terms, ledger, customers, bulk jobs and imports | `MCEntitlements` | `EntitlementsProofs` |
| `Auth` | sign-in, second factor, sessions and accounts | `MCEntitlements` | `EntitlementsProofs` |
| `Enforcement` | the enforcer and the sessions' trackers on a node | `MCEntitlements` | `EntitlementsProofs` |
| `SequenceFilter` | the loops of `Auth` and `Enforcement` that filter a list | with them | `EntitlementsProofs` |

Each models a whole component, and meets the others at one abstracted point:
`SubjectPublish` ends where a node's document is committed and `ControlLoop` begins
there (`WriteSubject` and `Republish` stand for all of `SubjectPublish`, seen from
one node); `UsageReporting` ends where a report is stored and `UsageLedger` begins
there; `overQuota` of `SubjectPublish` is the verdict of `UsageLedger`'s window.
`Adapters` is what `ControlLoop` takes as the outcome of a pass; `Commands` runs over the
streams that `ControlLoop` opens, and has the part of them that commands need;
`Resellers` ends where a customer's row is written and `SubjectPublish` begins there.

`MCNodeCalls`, `MCEntitlements` and `MCSettling` put two or three modules that share no
state in one run: the initial state of a behaviour chooses the part it is about
(`focus`) and the others keep their initial values, so the states of the run are the
sum of the parts' states and not their product.

### ControlLoop

One node. `live` is the content `BuildDesiredSnapshot` would assemble from the rows
now; a document is the pair of its embedded revision and its content, and SHA-256
over its canonical bytes is taken to be injective, so a hash is the document itself.
Every panel transaction is one step: the store has a single write connection
(`panel/store/store.go`). `conn`, `closed` and `bump` are the hub's map and
channels; `srv`, `cut`, `up` and `down` are the streams, each with its own handler
that keeps running after the agent has moved to the next stream. Nothing between
`VerifyPeer` and `Register` looks at the transport, so the handler of a stream the agent has
long given up may still register, over its successor (`AcceptStream`); `sess`, `pc`,
`snap` and `host` are the agent. `Hub.Notify` is a step of its own after the commit
it belongs to (`notices`). The outcome of a reconcile pass is a choice from
`Outcomes`, and `host` says what the adapters then enforce. The
switches `SubjectWrites`, `StoreFaults`, `AdminActions` and `HealthTraffic` enable
groups of environment actions, so that a run spends its states on its question; the
proofs hold for every setting. `confirmed`, `unasked` and `wrote` are history
variables: no action reads them.

`DesiredState` keeps of this what the rows of the node say: the contents `issued` so far,
the revisions `confirmed` and the one `applied`. `Issue` is a `CommitNodeChange` that found
something new, `Confirm` a pass that converged, `Acknowledge` a `RecordApplyRun` or a
`RecordHello`; every other step of `ControlLoop` is none of it (`ImplementsDesiredState`).
What an issued revision asks for never changes, two in a row differ, and `applied_revision`
moves to nothing or to a revision confirmed before, be it an older one.

### UsageReporting

One node. A sample is the traffic one reporter measured for one subject in one
poll, and a counter is the bag of samples added to it. `Poll`, `Save`, `Send` and
`Clear` are the steps of `pollAndReport`, each with the failure the code handles;
the agent dies between any two of them. `os.WriteFile` truncates before it writes, so a
write that fails, or a death in the middle of one, may leave a file that the next load
takes for a fresh state (`WriteCutShort`, `torn`); sequences then start again at 1 and the
panel ignores those it has rows for. A dropped stream loses
what the transport still held; the handler of an old stream may still process what
it had received. `lost` records the samples that went in one of these ways. `Ingest` is the transaction of `IngestUsageReport`, with its
idempotency check by (node, sequence). `Storable` is what the schema accepts: a row of a
deleted subject fails the foreign key, and two rows of one subject and service the
UNIQUE constraint of migration 00029; either fails the whole report and ends the stream.
Reporters outside `Attributing` name no service, and NULL services do not collide.
`activateIfOnHold` is left out because nothing in the repository sets
`subjects.on_hold_seconds`. `missed` records that a
report was sent and the file was not cleared of it.

### UsageLedger

All nodes and services of a few subjects. A sum is how often it contains each delta:
`hourly[i]` and `daily[i]` are multiplicities. The clock advances in ticks,
`HourTicks` of them to the hour, and a period starts at any tick. `FoldKeepsUp`, in the guard of `Tick`, is the one
assumption about scheduling: pruning goes by age and not by the watermark, so the
hourly job must succeed at least once in the seven days a delta is kept
(`cmd/antimage-panel/main.go`). `repaired` records that an operator
has run the repair.

### SubjectPublish

One subject, its grants as the set of nodes with a service of it, its credential
as a version. `pc` and `todo` give every request and sweeper its step and the node
set it has read: `Update` reads the set before and after its write, `Delete` only
before, `ProvisionSubject` inside its transaction, the expiry sweeper before its
`UPDATE`, and the quota sweepers take every node with an enabled service. `lost` records
nodes whose commit failed, `overtaken` the nodes a write took service from without knowing
of them, because they were granted after it had read its node set; `off` what the operator
asked for last.

### Commands and CommandCall

One node. A call is one `SendCommand` of one HTTP handler, named by the order of issue,
which also names the binary or the pair of geo files it installs. `pending` and `slot`
are the hub's map and the result channels, `cmdBuf` and `cmdClosed` the command channel of
each stream, `cmdDown` and `cmdUp` what is on the wire; `stage` and `current` are the
agent's session loop, which executes a command inline, one operation to a step. A
download is checked against a SHA-256 and yields the file asked for or fails. `core`
follows the binary at its path, the backup and the running process, `geo` the two
files and what Xray has loaded. The tails of the handlers are actions of their own
under the handlers' names. `stranded` records that an upgrade died between its renames or
that its restore failed, which the code accepts (`coreversion.go:115` ignores the error).

`CommandCall` keeps of all this only what became of a command and what its caller was
told. `Commands` implements it with its own `ran` and `told` (`CommandAtMostOnce`): no
command runs twice, "not delivered" is final, a result is that of the caller's own
command, and a timeout says nothing about whether the command ran. `hub.go:113-121` words
the last point more strongly, that after a timeout "the node had the command"; a command still
in the buffer of a stream that dies ends in a timeout too and never reaches the node.

### Enrollment

`enToken` and `enNode` are the tables, `enCall` an Enroll call with its two transactions
and the signature between them, `enHost` a machine: node.yaml's token and pin, the four
files of the state directory, where the agent is in writing them. The panel's CA is made
at start and read from its file afterwards. `Install` is the operator's way to put an agent on
a machine, the bootstrap over SSH the panel's; `Reinstall` gives the machine an empty
disk and a new host key. A file write is taken to be one step.

### Adapters

One adapter, of any of the seven kinds. A document asks for a service off, on or
absent, in a shape (port, keys, TLS) for a set of credentials. `host` is the file, the
marker or record of the adapter where it keeps one, and what the daemon runs. `steps` is
the plan, `ops` what is left of the current step, one system call or daemon call each;
each operation may fail and the agent may die between or inside two of them. `Publish`
brings the next document, `HandEdit` somebody with an editor. `excused` marks what an
adapter keeps no record of, so that the next plan cannot know; `Blocked` what it has
nothing it may do about. `StopSkipped` is the stop that does not take place because the query
before it failed: `wg show interfaces` failing reads as "no interface"
(`wireguard/runtime.go:67-74`), and hysteria2's remove passes over an error of the status
query (`hysteria2/apply.go:145-151`). A removal then deletes the file, succeeds and converges
with the daemon still serving; `excused` says so.

### Deployment, Alerts

`Deployment` has one row per deployment and its node, the goroutine that executes it, the
rollback requests, the timeout sweeper's list and the recovery at start. Every write of a
status is a step. `Alerts` has one node and one subject with the columns the checks look at,
cut to the values that make a difference, and the eight checks in the order of `sweep`,
each a read and a write with whatever happens in between.

### Resellers, Auth, Enforcement

`Resellers`: a ledger is a set of movements, an idempotency key occurs in it once per
reseller, and ids are handed out as SQLite does without AUTOINCREMENT. A bulk request or
an import is one step per customer. `Auth`: a request is a sequence of steps in `auCall`,
with the password hash between asking the limiter and telling it, and the limiter's reset
after a login or a confirmation a step of its own that may fail; a factor's recovery
codes are one code, unspent or spent, and `auSpent` counts how often each was accepted.
`Enforcement`: a tracker per session with its `Sync` cut between users, because the
enforcer's mutex is released there; the connection of a user is its email.

## 3. Assumptions

* One write connection: a transaction is atomic and sees the latest rows.
* SHA-256 over the canonical document is injective.
* A stream delivers in order until it breaks (gRPC).
* The agent's back-off outlasts the accounting loop of the session before it
  (`Reconnect` of `UsageReporting` waits until that loop has returned).
* `FoldKeepsUp`, above.
* A download that matches its SHA-256 is the file asked for, and a rename is atomic.
* A file the agent writes at enrolment is written whole or not at all.
* The handlers' contexts: a cancelled request's later writes fail.
* A document names finitely many users, a panel has finitely many administrators and
  clients and a node finitely many connections; the proofs need it where they count.

## 4. Runs

Every passing run finishes its whole state space in a few minutes. Each property has
a mutant in PROJECT.json: a plausible slip in the code under which TLC finds it
violated.

| run | bounds | shows |
|---|---|---|
| `loop_safety` | 2 contents, 2 revisions, 3 streams, queues of 1 | `ImplementsDesiredState` (refinement of `DesiredState`), `AppliedWasConfirmed`, `RegisteredStreamIsLive`, `NoLostWakeUp`, `NoFalseAlarm`, with subject writes, failing transactions, handlers that register late, panel and agent restarts |
| `loop_status` | 1 revision, 2 streams, queues of 1, agents of both versions, three outcomes (*failed* is treated as *partial* is) | `OfflineMeansSilent`: among sweeper, heartbeats, reports and admin requests, a node heard from is never left offline |
| `loop_liveness` | 2 revisions, 3 streams, queues of 1, rows that change in a commit | `EventuallyConverged`: once the rows stop changing the node converges on them for good |
| `usage` | 2 subjects, 2 reporters, 2 polls, 2 sessions | `CountedAtMostOnce`, `CountedAsStored`, and `EventuallyCounted`: what was once in the state file is counted or still there, or went with a discarded stream or a torn file |
| `ledger` | 2 subjects, 3 deltas, ticks 0 to 6, hours of 2, days of 4, retention 3, periods from any tick | `FoldedExactlyOnce`, `DailyFollowsHourly`, `QuotaWindowIsExact`, `PrunedBucketIsFinal` |
| `publish_regrant` | 2 nodes, 3 calls by 2 requests at a time, moving the subject, expiry sweeper and quota enforcer, faults; no period ends (`OnePeriod`) | `TypeOK`, and `NoChangeIsStranded` with updates that move the grants |
| `publish_cutoff` | 2 nodes, 2 calls by 1 request, 3 sweepers, grants that stay | `OverQuotaIsCutOff`, `ExpiredIsCutOff` |
| `node_calls` | commands: 2 calls by any of the 5 handlers, 2 streams; enrolment: 1 machine set up twice, 1 node, 2 tokens, 3 Enroll calls | `CommandAtMostOnce` (refinement of `CommandCall`), `UpgradeAllOrNothing`, `RecordedWasInstalled`; `TokenEnrolsOnce`, `EnrolledHostCanConnect` |
| `entitlements` | resellers: 1 reseller and the administrator, 3 requests, 2 customers, 3 kinds of terms; sign-in: 2 administrators, 2 clients, 3 calls, limits 1 and 3; enforcement: 1 subject with 2 users, 2 trackers, a policy change | `CustomersArePaidFor`; `RecoveryCodeUsedOnce`, `GuessesAreLimited`; `ConnectionLimitHolds` |
| `settling` | adapters: 7 kinds, 3 of 7 documents one after the other, 2 faults, 2 attempts; 2 deployments, 2 rollbacks, 1 fault, 4 strategies; alerts: 2 changes, 1 fault | `ConvergedIsServed`, `AdapterSettles`; `StatusMatchesRow`, `DeploymentEnds`; `AlertsSettle` |
| `usage_twice` | | violates `IdempotencyRejectsRepeats` (section 6) |
| `publish_delete` | | violates `DeletedIsRevoked` (section 6) |

Why these bounds are enough for the case to happen. Three streams give a handler that
registers late over the agent's stream, and the stream the agent opens when it has noticed;
within the bound nothing registers late over the last one. A report in the queue of an old
stream lags behind those of the next; two revisions give
a stale report and a no-op; two contents let a change be undone. Two reductions of the
liveness run (`LivenessSpec`), which has three streams without subject writes for its size
(with them and two streams the property holds as well), stand in for the symmetry that TLC may not use there: the
initial content is fixed, and the last stream gets no bump, so that only the timer can
wake it. The mutants that
confuse streams, drop the no-op check or skip the hash check are all caught within
these bounds. Two polls and two sessions give a retry of pending samples with new
ones, on the same and on another stream; the second reporter gives a partial poll.
Six ticks hold three hours and two days, so that a delta can be folded, pruned
and in an old period while another of its bucket is not, three deltas let two
share a bucket, and an hour of two ticks has a place within it for a period to start. In
`publish_regrant` two requests, the expiry sweeper and the enforcer overlap on one row whose
grants move between the two nodes; the reset of a period takes part in `publish_cutoff`, and
the proof of `NoChangeIsStranded` has all the sweepers and any number of requests.
Two commands are what one result channel, one buffered command and one running command
can confuse; the second stream supersedes the first. Three Enroll calls with two tokens
are a redemption, one that races it and one after the machine was set up again. Three
requests are a provisioning, its repetition and something in between. An account
limit of one lets the two clients in flight overshoot it. Three documents take an
adapter there and back, and two faults let one pass fail and the agent die in the next.
Where a run could be symmetric in its model values it is, except where a temporal
property is checked.

Deadlock is checked in `ControlLoop`, whose agent always has something to do. The
others stop when their bounds are used up.

### Fairness

* `ControlLoop`: weak fairness for the republish a change has begun, for each stream's
  handler, which does something while it has something to do, for the agent's dial and for
  its timer. Strong fairness for `Receive`,
  `SessionError`, `FetchSnapshot` and a converging pass: a `select` over several ready
  channels picks among them at random (Go's specification), and a fetch or an
  apply that is tried again and again is assumed to succeed some time. No
  fairness for notices, failures, restarts, broken networks, the offline sweep or admin
  requests. Without the last
  assumption the panel makes no promise, and the code has no other remedy than trying
  again.
* `UsageReporting`: weak fairness for the loop's steps and for the handler, which ends
  in success or failure; none for polls, failures or drops. `EventuallyCounted`
  accordingly leaves a sample in the file that could not be sent again, and speaks of what
  was written once no more traffic is found.
* `SubjectPublish`: weak fairness for a request that has begun, for its commits and for
  each sweeper, which `main.go` starts on tickers; none for new requests.

* `Adapters`: weak fairness of the pass, failing operations included: the agent runs
  `Converge` again until the revision is reached. None for new documents, crashes, hand
  edits or a closed maintenance window; all are bounded, so `AdapterSettles` speaks of what
  happens once they stop.
* `Deployment`: weak fairness for each execution goroutine, each rollback request, the passing of a
  deadline and the sweeper's ticker; none for requests and restarts.
* `Alerts`: weak fairness for the sweep's reads and writes, which `Run`'s ticker repeats.

## 5. Proofs

TLAPS checks the following for all values of the constants that satisfy the named
`ASSUME`s (non-empty sets, natural bounds, Boolean switches), and no others: any number
of contents, revisions, streams, messages in flight, subjects, deltas,
nodes, callers, any retention and length of the hour.

* `ControlLoopProofs`
  * `TypeCorrect` needs no strengthening.
  * `LogIsSound` is inductive with the types: the only writer is `CommitNodeChange`.
  * `LoopImplementsDesiredState` is the refinement, step by step: with `LogIsSound` a step of
    the loop issues, confirms or acknowledges a revision or does none of these, and
    `InFlightIsSound` (next) says that what is acknowledged was confirmed.
  * `AppliedIsConfirmed` needs `InFlightIsSound`: a report may be handled long after
    other revisions were issued, so every message in every queue, and the snapshot in
    the agent's hands, must be known to be no newer than the log and, if it says
    *converged* of an issued document, to be of a confirmed one.
  * `NoFalseAlarms` needs `OnlyIssuedDocuments`: until a subject is written outside a
    commit, the rows, the snapshot and every report in flight carry issued documents.
  * `HubEntryIsLive` needs `OneStreamCounts`: the agent's stream is the last opened, all
    others are cut, and the hub's entry is the agent's if that has been accepted. It
    is what makes the release of an old handler harmless.
  * `WakeUpsAreNotLost` adds `HelloComesFirst` and `WakeUpOnItsWay`: a stream whose
    handler has not registered yet still holds its Hello, whose answer is a bump. A handler
    that registers late takes the bumps of the agent's stream, but closes that stream's
    channels: its handler can then only end (`closed`), and the agent starts over.
  * `OfflineNodesAreSilent` is inductive as it stands: of all the writers of the status,
    only the sweep writes *offline*, and Hello and Heartbeat take it away in the
    transaction that sets `last_seen_at`.
* `UsageReportingProofs`: `AppliedAtMostOnce` rests on `SamplePlaces`: until a clear
  is missed, a sample is at one place only: to be sent, in one report of one
  stream, or counted. `CountersFollowTheLog` needs that the log is finite: a report
  adds one sequence to it and one to the counter of each of its samples.
* `UsageLedgerProofs`: `TypeCorrect` carries `UnfoldedSurvive` (pruning never takes a row
  the fold has not seen), from which the fold's ceiling is the last id; hence `FoldedOnce`
  and `DailyWithinHourly`. `QuotaWindowExact` follows from these with a little arithmetic of
  hours, wherever in an hour a period starts: what is missing from the window is only what
  was folded of the period's first hour, which the query leaves out whole.
  `PrunedFiguresAreFinal` is an action property and holds with repairs too.
* `SubjectPublishProofs`
  * `NothingIsStranded`: `NoChangeIsStranded`, for any number of requests with all three
    sweepers and updates that move the grants. `RevokedIsAnsweredFor` strengthens it: a
    node without a grant that still has the subject in its document is going to be
    committed, or its commit has failed, or it was overtaken.
  * When is nothing overtaken? `NothingIsOvertaken`: while updates leave the grants alone
    (`~Regrants`), as the node set a call has read is still the right one when it writes
    (`NodeSetsAreCurrent`). `NothingIsOvertakenOneAtATime`: with updates that move the
    grants, one request at a time and no expiry sweeper (`RequestsAreAlone`).
* `NodeCallsProofs`
  * `CommandsAreAtMostOnceCalls` is the refinement: every step of `Commands` is a step of
    `CommandCall` or none of it. `CmdInv` follows a call through the command channel, the
    stream, the agent and back: it is at one of these places at a time, what the agent
    works on was sent by a caller, and a result in flight is that of its execution.
  * `RegistryNamesInstalledFiles`: a handler records what it was told, so what it was told
    must be the result of its own command; results never change once they are given.
  * `UpgradesAreAllOrNothing` rests on `UpgradeInv`, which says at each stage of the upgrade
    which of the three paths holds the old binary and which the new one.
  * `TokensAreRedeemedOnce` rests on `TokenInv`, a redeemed token is never good again;
    `EnrolledHostsCanConnect` on `CAInv`, that every certificate was signed by the CA the
    panel created before it first answered, and on `DiskInv`, which says what the four
    files hold before and after each of the agent's writes.
* `EntitlementsProofs`
  * `ConnectionLimitsHold`: `IndexFollows` says of every subject that its index lists exactly
    its connections, each once, and is no longer than its policy allows. The index is
    filtered by a loop; `WithoutProperties` says what the loop returns for lists of any length.
  * `RecoveryCodesAreSpentOnce` rests on `CodesInv`: a code that an account still holds was
    never accepted, no two accounts hold the same, and codes to come are fresh. What a
    handler read earlier does not matter, as the `UPDATE` asks again. `AuTypeCorrect` needs
    `CallInv`: a handler acts for an account, and a login that goes on to a session has
    read a password.
  * `GuessesStayLimited`: `LimiterInv` adds the handlers that have asked the limiter and not
    told it yet to the guesses on record; a handler is let in below the limit, so the sum
    stays below the limit plus the number of clients.
  * `CustomersPaidFor`: `BooksInv` says that every customer who costs something has one
    movement in the ledger, its owner's, and that no movement is about somebody who is not
    there. A new customer's id may be one the table has used before, which is why the second
    part is needed: the deletion of its last holder took the id out of the ledger's rows.
* `AdapterProofs`: `ConvergedMeansServed`, for all seven kinds and any sequence of documents,
  failures, deaths and hand edits. The property alone is far from inductive; `AdInv` has
  four parts. `Planned` says what a plan may look like: on the hot path the users come first,
  a service comes before the egress rules. `Now` says what the step under way has done when
  it is at a given operation, and holds whatever has failed before, as it is about this
  attempt only. `Kept` says what record, files and daemon tell of each other and holds while
  no failure has gone unrecorded (`~excused`): a record that is believed is true, a daemon
  the hot path may be used on serves the record, a service without a file does not run.
  `CleanRecord` keeps the placeholder of an empty file out of the records. The lemmas go
  adapter by adapter: every plan may begin (`...Planned`), every operation leads to the
  next (`...Moves`, `...Stays`), a step ends with what the next one needs (`...Ends`), and
  a plan of nothing means that the document is served (`...Serves`). `Cut` says once for all
  of them what a failed operation or a death in the middle leaves.
* `SettlingProofs`: `StatusAgreesWithRow` rests on `ExecInv` and `UndoInv`: an execution
  and a rollback never hold the same deployment, as a rollback starts from an ended
  one and a deployment past its deadline is no longer executed; two rollbacks of one
  deployment only move its row the same way.
* `NodeCallsCorrect`, `EntitlementsCorrect` and `SettlingCorrect` carry the results over to
  the specifications that `MCNodeCalls`, `MCEntitlements` and `MCSettling` check, in which a
  behaviour may be about any of their parts.

Every invariant and every action property of a passing run is proved. Only model-checked
are the properties about fairness, which is out of the prover's reach:
`EventuallyConverged`, `EventuallyCounted`, `OverQuotaIsCutOff`, `ExpiredIsCutOff`,
`AdapterSettles`, `DeploymentEnds`, `AlertsSettle`. The prover cannot use the library's
induction theorems, which take an operator; where a fact about a recursive function is
needed (`Without`, and the sum of a set of one movement) it is proved from the least number
for which it would fail (`LeastNumber`).

## 6. Where the code and its documents disagree

Each of these is a definition of the module named, with a configuration that makes
TLC print the steps. The first two are runs of PROJECT.json. A configuration named
`...Refuted` lists several; TLC stops at the first it refutes, so leave the one of interest.

| definition | configuration | the repository says | the code does |
|---|---|---|---|
| `IdempotencyRejectsRepeats` | `UsageReportingTwice` | `node/agent/accounting.go:138` "worst case we re-send deltas that the panel already applied, and idempotency rejects them" | the next poll increments the sequence first, so what is re-sent has a new key and is counted again |
| `DeletedIsRevoked` | `SubjectPublishDelete` | `panel/service/subjects.go:295` "Delete removes a subject and deprovisions it everywhere." | the node set is read before the transaction; a grant added in between is published and never withdrawn |
| `LabelDescribesDocument` | `ControlLoopLabel` | `panel/nodes/snapshot.go:60` "a document can never be labelled with a revision that does not describe it" | between a subject write and its republish, new rows are served under the old revision |
| `DisabledStreamIsRefused` | `ControlLoopDisabled` | control-plane design, line 424: "`Disabled` — administratively suspended; the stream is refused" | `VerifyPeer` does not read the status |
| `TransitionsFollowTable` | `ControlLoopTransitions` | `panel/nodes/state_machine.go:76` "ValidateTransition checks if a status transition is valid." | none of the writers of the column asks it |
| `StaleOnlyBriefly` | `ControlLoopStale` | `panel/subjects/sweeper.go:118` "the panel is correct even if this node is briefly stale" | nobody retries the commit; it stays stale until an unrelated change |
| `NothingLost` | `UsageReportingLost` | SP3 decisions, line 66: "An agent restart, a stream drop, or a panel outage delays accounting; none of them lose it." | a report the transport held when the stream broke has been cleared already, and a write of the state file that fails has truncated it |
| `RetryIsAccepted` | `UsageReportingRetry` | `node/agent/accounting.go:134` "A retry after network error will re-send with the same sequence, and the panel's idempotency key deduplicates it" | a retry merges two polls under a new sequence; two samples of one subject and service break the UNIQUE constraint and the report is refused |
| `NoSampleDiscarded` | `UsageReportingDiscard` | `node/agent/accounting.go:86` "One adapter's failure must not discard the samples already collected from the others" | the next line returns; the cursors have moved |
| `InExactlyOneBranch` | `UsageLedgerWindow` | `panel/nodes/quota_billable.go:71` "so a delta is in exactly one of" its branches | once folded, a delta of the hour in which the period began is in neither, when the period began within the hour; `QuotaWindowIsExact` says what is left |
| `NeverInflated` | `UsageLedgerInflate` | `panel/nodes/accounting_verify.go:28` "Where the underlying deltas survive, the correct figure can be recomputed" | the repair includes deltas above the watermark and the next fold adds them again |
| `RepairKeepsFolded` | `UsageLedgerPartial` | `panel/nodes/accounting_verify.go:172` "RecoverableHours are (subject, hour) buckets whose deltas all survive" | one surviving delta is enough; the pruned ones leave the total |
| `SweeperAgreesWithBuilder` | `SubjectPublishRenew` | `panel/subjects/subjects.go:75` builder and sweeper "cannot disagree about who is entitled to service" | a renewal between the sweeper's scan and its UPDATE by id is overwritten |
| `UnfreezeRestoresAccess` | `SubjectPublishUnfreeze` | `panel/subjects/subjects.go:571` "Unfreeze unfreezes a subject, restoring access." | the quota freeze also cleared `enabled`, which stays |
| `ResetSparesTheOperator` | `SubjectPublishReset` | SP3 decisions, line 119: the reset "unfreezes anyone frozen for quota alone" | it also enables a subject the operator has disabled or frozen since |
| `HelloReflectsReality` | `NodeCallsRefuted` | `panel/nodes/registry.go:39-41`: the version column "reflects reality on the adapter's next Hello regardless" | the adapter's `Descriptor` reports the constant "1", which the next Hello writes over the upgraded version |
| `GeoPairLoadedWhole` | `NodeCallsRefuted` | `node/adapter/xray/geodata.go:63-68`: Xray "never observes" one new and one old file | when the second rename fails, any later restart loads the mixture |
| `EnrolledAsTokenSaid` | `NodeCallsRefuted` | `panel/nodes/ca.go:156-158`: the panel decides which node an agent is | the node may be deleted, and its id used again, between Enroll's two transactions |
| `HostCanStart` | `NodeCallsRefuted` | `cmd/antimage-node/main.go:78-79`: an existing certificate is reused, "so a restart does not consume a new enrollment token" | a crash between node.crt and panel-ca.crt leaves an agent that neither enrols nor starts |
| `SuperAdminRemains` | `EntitlementsRefuted` | `panel/httpapi/admins_extended.go:29-31` "the panel's last super-admin has to always exist" | two super admins let in together may each take the other's account away |
| `CodesBelongToAFactor` | `EntitlementsRefuted` | `panel/httpapi/totp.go:218-219` "the codes never outlive the enrolment that minted them" | a confirmation sent twice moves the pending secret twice, the second time NULL |
| `SessionsAreCurrent` | `EntitlementsRefuted` | `admins_extended.go:97` "A suspended admin must not carry live sessions", and 133-134 of a changed password | a login that has read the account opens its session afterwards |
| `IndexesFollow` | `EntitlementsRefuted` | `node/enforcement/enforcement.go:398` "Rebuild indexes for affected subjects" | `CleanupStale` looks the removed connections up after deleting them and rebuilds nothing |
| `SeenIsCounted` | `EntitlementsRefuted` | `node/adapter/xray/enforcement.go:13-14`: it "enforces policies by terminating violating connections" | a user that stays connected is registered once, leaves the books ten minutes later or when a policy shrinks, and is not looked at again |
| `AppliedIsServed` | `SettlingRefuted` | `node/adapter/xray/adapter.go:32-38`: the record "says what is" running | a user that could not be added on the hot path is recorded with the others |
| `OneInProgress` | `SettlingRefuted` | `panel/deployment/orchestrator.go:131` "Atomically check for concurrent deployments" | `RollbackDeployment` puts a deployment in progress unchecked |
| `EndedStays` | `SettlingRefuted` | `panel/deployment/timeout.go:105` "Mark timed-out deployments as failed" | the sweeper's list is stale and its update goes by id |
| `EveryDeploymentEnds` | `SettlingRefuted` | `panel/deployment/timeout.go:38`: it "handles deployments that are stuck" | a deployment turned away stays pending; one whose `started_at` could not be written never times out |
| `SeverityFollows` | `SettlingRefuted` | `panel/observability/node_health.go:57-60` makes a long absence critical | an active alert keeps the severity it was raised with |
| `ExceededIsTrue` | `SettlingRefuted` | `panel/observability/sweeper.go:191-194`: the alert says what "is still true" | nothing resolves it when the quota is reset or the subject deleted |

Deleting is not the only call that can be overtaken. If an update moves the grants and renews
the expiry between the expiry sweeper's read of the node set and its `UPDATE`, the sweeper
disables the subject and rebuilds the old nodes only; and two updates that move the grants
may each miss the node the other has granted. `NoChangeIsStranded` names these nodes
(`overtaken`) next to those whose commit failed; nothing in the code comes back to either.
`ExpiredIsCutOff` fails with such updates, and `publish_cutoff` therefore keeps the
grants as they are.

What the models take from the code although a reader might expect otherwise:

* Commands: the restart handlers count an empty result for success
  (`node/agent/client.go:421-426`); a cancelled request is never audited.
* Adapters: `AddUser` answering "already exists" counts as success, so a rotated credential
  stays live in xray until a restart; wireguard and hysteria2 ignore `Enabled` and leave out
  what they cannot render; openvpn and ocserv take a file they do not manage for
  convergence; ocserv's reload falls back to a restart; hysteria2 falls back to the shared password when no user is left; l2tp never
  confirms, its plan being never empty; singbox refuses for ever after a crash between
  configuration and marker. `excused` and `Blocked` say exactly where `ConvergedIsServed`
  and `AdapterSettles` leave off for these.
* Resellers: a provisioning that costs nothing leaves no movement and its key is not
  remembered; `set-quota` and the import's quota do not look at the reseller's limit;
  `Disabled` is checked before the key; a bulk extension computes from an expiry read
  earlier; an imported row is enabled until its own write disables it.
* Auth: changing one's password does not ask the limiter.
* Enrollment: certificates are not renewed (365 days for a node, 90 for the server's, which
  is issued at start); `install.sh` calls subcommands the agent does not have.
* Enforcement: `UpdatePolicies` drops connections from the books only, and the tag used to
  remove a user, `antimage-inbound`, is no inbound's.
* Alerts: the 80 and 90 per cent warnings insert columns the table does not have and are never
  raised.

## 7. Not modelled

The text of documents and of adapters' configuration files, authorisation beyond the
scope of a reseller, input validation, wire encodings, the web UI and the read-only queries.
Of the modelled components: deleting a node and its cascade in `ControlLoop`, streams of
several nodes at once (they share only the hub's map, entry by entry), two
accounting loops of one agent at once (section 3), the bulk reset of traffic, the
expiry of certificates, and the aggregation of roll-ups (`rollups.go`).

Not modelled at all: the billing arithmetic (`billable.go`, four factors in 64-bit
integers, no state); `panel/bulk`, which only its tests import; the device registry, rows
with single-statement updates; subscriptions and templates, which render; the Telegram
bot, a client of the read side; metrics and dashboards. PROJECT.json gives the reason for every
component that is left out.

## 8. Plan

1. **Billing** - `Billable`, `Threshold` and `mulDiv` as pure operators with 64-bit
   widths, against exact rational arithmetic.
2. Further theorems: what the liveness properties rest on and is safe (that some helpful
   action stays possible until the goal is reached).
