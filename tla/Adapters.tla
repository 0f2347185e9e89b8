------------------------------- MODULE Adapters -------------------------------
(***************************************************************************)
(* One protocol adapter under the agent's reconcile loop: Converge         *)
(* (internal/node/agent/reconcile.go) observes the host, plans steps,      *)
(* applies each with retries, and plans again to confirm.  The seven       *)
(* adapters of internal/node/adapter/ differ in what they can observe, in  *)
(* what a step does and in whether they record what the daemon was last    *)
(* given.  Adapters share no state, so a behaviour is about one of them,   *)
(* chosen in the initial state.                                            *)
(*                                                                         *)
(* A service is a shape (port, keys, TLS: everything but its users) and a  *)
(* set of credentials; a credential is a subject and a rotation number, 0  *)
(* for a subject with none the adapter can use.  Parameters may be invalid *)
(* for the adapter.  A checksum of a file is taken to be its content.      *)
(***************************************************************************)
EXTENDS Integers, Sequences, FiniteSets, SequencesExt

CONSTANTS
    Kinds,        \* the adapters to explore
    Wants,        \* desired states the panel publishes
    MaxRetries,   \* applyWithRetry: attempts per step
    MaxWants,     \* bound: desired states published
    MaxFaults     \* bound: failed operations, crashes, closed windows, edits

AllKinds == {"xray", "singbox", "wireguard", "hysteria2", "openvpn", "ocserv", "l2tp"}
Services == {"none", "off", "on"}

ASSUME AdaptersAssumption ==
    /\ Kinds \subseteq AllKinds
    /\ \A d \in Wants : /\ d.service \in Services /\ d.shape \in Nat \ {0}
                        /\ d.valid \in BOOLEAN
                        /\ d.users \subseteq (Nat \ {0}) \X Nat /\ IsFiniteSet(d.users)
                        /\ d.egress \in Nat
    /\ MaxRetries \in Nat \ {0} /\ MaxWants \in Nat \ {0} /\ MaxFaults \in Nat

VARIABLES
    kind,     \* the adapter
    desired,  \* the document the agent holds
    target,   \* the document the pass in progress was given
    host,     \* files, records and the running daemon
    steps,    \* steps of the plan not finished, the current one first
    ops,      \* operations of the current attempt not yet done
    tries,    \* attempts at the current step, this one included
    failed,   \* some step of this pass has failed
    outcome,  \* how the last finished pass of this adapter ended
    wants, faults,  \* counted against the bounds
    torn,     \* history: a step was cut short since the daemon last restarted
    excused   \* history: ... in a way the adapter has no record of, or a
              \* removal went on without the stop

adVars == <<kind, desired, target, host, steps, ops, tries, failed, outcome,
            wants, faults, torn, excused>>

Subjects(users) == {c[1] : c \in users}
Usable(users) == {c \in users : c[2] # 0}

NoFile == 0
NoPasswd == {<<0, 0>>}
Foreign == -1       \* a file somebody else put at the service's path
Down == [shape |-> NoFile, users |-> {}, egress |-> 0, edited |-> FALSE]
NoRecord == [shape |-> NoFile, users |-> {}]

\* shape and users are the service's file or files; mark is singbox's marker
\* file, openvpn's verify script; edited: changed by hand, marker line kept.
FreshHost == [shape |-> NoFile, users |-> NoPasswd, mark |-> FALSE, edited |-> FALSE,
              egress |-> 0, egmark |-> FALSE, run |-> Down, applied |-> NoRecord]

Content(x) == [shape |-> x.shape, users |-> x.users]
Loaded(h) == [shape |-> h.shape, users |-> h.users \ NoPasswd, egress |-> h.egress,
              edited |-> h.edited]

AdInit ==
    /\ kind \in Kinds
    /\ desired \in Wants /\ target = desired
    /\ host = FreshHost
    /\ steps = <<>> /\ ops = <<>> /\ tries = 0 /\ failed = FALSE
    /\ outcome = "none"
    /\ wants = 1 /\ faults = 0
    /\ torn = FALSE /\ excused = FALSE

-----------------------------------------------------------------------------
(***************************************************************************)
(* Rendering: the content of the service's file or files for a document.   *)
(***************************************************************************)

\* xray and singbox refuse a document with a subject they cannot serve.
XrayRenders(d) == d.valid /\ d.users = Usable(d.users)
SingboxRenders(d) == d.valid /\ d.users = Usable(d.users)

XrayGenerate(d) == [shape |-> d.shape, users |-> d.users]
SingboxGenerate(d) == [shape |-> d.shape, users |-> d.users]

\* buildPeerList: a subject without a key pair is left out.
WireguardGenerate(d) == [shape |-> d.shape, users |-> Usable(d.users)]

\* Without users Hysteria2 falls back to the service's shared password.
SharedPassword == <<0, 1>>
Hysteria2Generate(d) ==
    [shape |-> d.shape, users |-> IF Usable(d.users) = {} THEN {SharedPassword}
                                  ELSE Usable(d.users)]

OpenvpnRender(d) == [shape |-> d.shape, users |-> Usable(d.users)]
OcservRender(d) == [shape |-> d.shape, users |-> Usable(d.users)]
L2tpRender(d) == [shape |-> d.shape, users |-> Usable(d.users)]

Rendered(d) ==
    CASE kind = "xray" -> XrayGenerate(d)
      [] kind = "singbox" -> SingboxGenerate(d)
      [] kind = "wireguard" -> WireguardGenerate(d)
      [] kind = "hysteria2" -> Hysteria2Generate(d)
      [] kind = "openvpn" -> OpenvpnRender(d)
      [] kind = "ocserv" -> OcservRender(d)
      [] kind = "l2tp" -> L2tpRender(d)

-----------------------------------------------------------------------------
(***************************************************************************)
(* Observe and Plan.  A plan is a sequence of steps, <<>> when there is    *)
(* nothing to do; Refused when Plan returns an error.                      *)
(***************************************************************************)

Refused == <<<<"refused">>>>
Step(name, needed) == IF needed THEN <<<<name>>>> ELSE <<>>

\* planEgress of xray and singbox: the rules' own file.  It has no record of
\* what the daemon loaded.
planEgress(d, h) ==
    CASE d.egress = 0 /\ h.egmark -> <<<<"remove_egress">>>>
      [] d.egress = 0 /\ ~h.egmark -> <<>>
      [] d.egress # 0 /\ h.egress # 0 /\ ~h.egmark -> Refused
      [] d.egress # 0 /\ h.egress = d.egress /\ h.egmark -> <<>>
      [] OTHER -> <<<<"write_egress">>>>

WithEgress(plan, d, h) ==
    LET e == planEgress(d, h)
    IN IF plan = Refused \/ e = Refused THEN Refused ELSE plan \o e

\* Managed, by adapter: a file is the adapter's own by its first line (xray),
\* by the marker file beside it (singbox), by its first line and, with a
\* checksum that no longer fits, not (wireguard, hysteria2, openvpn, ocserv).
\* openvpn needs all its files; l2tp counts the files with a marker line.
XrayManaged(h) == h.shape \notin {NoFile, Foreign}
SingboxManaged(h) == h.shape # NoFile /\ h.mark
WireguardSeen(h) == h.shape \notin {NoFile, Foreign}
Hysteria2Seen(h) == h.shape \notin {NoFile, Foreign}
OpenvpnManaged(h) ==
    /\ h.shape \notin {NoFile, Foreign} /\ ~h.edited
    /\ h.mark /\ h.users # NoPasswd
OcservManaged(h) == h.shape \notin {NoFile, Foreign} /\ ~h.edited
L2tpFiles(h) == {f \in {"conf", "secrets"} : IF f = "conf" THEN h.shape \notin {NoFile, Foreign}
                                              ELSE h.users # NoPasswd}

SameFile(d, h) == Content(h) = Rendered(d) /\ ~h.edited

\* The hot path needs an unchanged shape (by the file's marker), nobody gone
\* (by the record), and adds every user through the management API.
additive(d, h) ==
    /\ h.shape = d.shape /\ d.users # {}
    /\ h.applied # NoRecord
    /\ Subjects(h.applied.users) \subseteq Subjects(d.users)

AddAll(users) == LET c == SetToSeq(users) IN [i \in DOMAIN c |-> <<"add_user", c[i]>>]

XrayPlan(d, h) ==
    WithEgress(
        CASE d.users # Usable(d.users) \/ (d.service = "on" /\ ~XrayRenders(d)) -> Refused
          [] d.service # "on" /\ d.users = Usable(d.users) ->
                 Step("remove_service", XrayManaged(h))
          [] d.service = "on" /\ XrayRenders(d) /\ h.shape = NoFile -> <<<<"write_service">>>>
          [] d.service = "on" /\ h.shape = Foreign -> Refused
          [] d.service = "on" /\ XrayRenders(d) /\ SameFile(d, h) ->
                 IF h.applied = Rendered(d) THEN <<>> ELSE <<<<"restart_service">>>>
          [] OTHER -> IF additive(d, h)
                      THEN AddAll(d.users) \o <<<<"write_service_hot">>>>
                      ELSE <<<<"write_service">>>>,
        d, h)

SingboxPlan(d, h) ==
    WithEgress(
        CASE d.users # Usable(d.users) \/ (d.service = "on" /\ ~SingboxRenders(d)) -> Refused
          [] d.service # "on" /\ d.users = Usable(d.users) ->
                 Step("remove_service", SingboxManaged(h))
          [] d.service = "on" /\ h.shape # NoFile /\ ~SingboxManaged(h) -> Refused
          [] d.service = "on" /\ SingboxRenders(d) /\ SameFile(d, h) /\ h.mark ->
                 IF h.applied = Rendered(d) THEN <<>> ELSE <<<<"restart_service">>>>
          [] OTHER -> <<<<"write_service">>>>,
        d, h)

\* Mutant of WireguardPlan: compares the record with the subjects and not with
\* the peers rendered for them.
WireguardPlanBySubjects(d, h) ==
    CASE d.service = "none" -> Step("remove", WireguardSeen(h))
      [] d.service # "none" /\ ~d.valid -> <<>>
      [] d.service # "none" /\ d.valid /\ ~WireguardSeen(h) -> <<<<"install">>>>
      [] OTHER -> Step("restart", h.applied.users # d.users \/ ~SameFile(d, h))

\* A file without the marker line is not seen at all; Enabled is not read; a
\* service that cannot be rendered is skipped.
WireguardPlan(d, h) ==
    CASE d.service = "none" -> Step("remove", WireguardSeen(h))
      [] d.service # "none" /\ ~d.valid -> <<>>
      [] d.service # "none" /\ d.valid /\ ~WireguardSeen(h) -> <<<<"install">>>>
      [] d.service # "none" /\ d.valid /\ WireguardSeen(h) /\ SameFile(d, h) ->
             IF h.applied = Rendered(d) THEN <<>> ELSE <<<<"restart">>>>
      [] OTHER -> IF /\ ~h.edited
                     /\ h.applied.users \subseteq Usable(d.users)
                     /\ h.applied # NoRecord /\ h.applied.shape = d.shape
                  THEN <<<<"reload">>>> ELSE <<<<"restart">>>>

\* Mutant of Hysteria2Plan: trusts the file and not the record.
Hysteria2PlanByFile(d, h) ==
    CASE d.service = "none" -> Step("remove", Hysteria2Seen(h))
      [] d.service # "none" /\ ~d.valid -> <<>>
      [] d.service # "none" /\ d.valid /\ ~Hysteria2Seen(h) -> <<<<"install">>>>
      [] d.service # "none" /\ d.valid /\ SameFile(d, h) -> <<>>
      [] OTHER -> <<<<"restart">>>>

Hysteria2Plan(d, h) ==
    CASE d.service = "none" -> Step("remove", Hysteria2Seen(h))
      [] d.service # "none" /\ ~d.valid -> <<>>
      [] d.service # "none" /\ d.valid /\ ~Hysteria2Seen(h) -> <<<<"install">>>>
      [] d.service # "none" /\ d.valid /\ SameFile(d, h) /\ h.applied = Rendered(d) -> <<>>
      [] OTHER -> <<<<"restart">>>>

\* Present without being managed is left alone.
OpenvpnPlan(d, h) ==
    LET managed == OpenvpnManaged(h)
    IN CASE d.service # "on" -> Step("remove", managed)
         [] d.service = "on" /\ h.shape = NoFile -> IF d.valid THEN <<<<"install">>>> ELSE Refused
         [] OTHER -> IF ~managed THEN <<>>
                     ELSE IF ~d.valid THEN Refused
                     ELSE Step("update_config", h.shape # d.shape)
                              \o Step("sync_users", h.users # Usable(d.users))

\* ocserv's passwd file holds salted hashes: only the names can be compared.
OcservPlan(d, h) ==
    LET managed == OcservManaged(h)
    IN CASE d.service # "on" -> Step("remove", managed)
         [] d.service = "on" /\ h.shape = NoFile -> IF d.valid THEN <<<<"install">>>> ELSE Refused
         [] OTHER -> IF ~managed THEN <<>>
                     ELSE IF ~d.valid THEN Refused
                     ELSE Step("update_config", h.shape # d.shape)
                              \o Step("sync_users", Subjects(h.users \ NoPasswd)
                                                        # Subjects(Usable(d.users)))

\* l2tp compares a checksum of whole files with the checksums their markers
\* hold, which cover the bodies; detectParamsChange is constantly true.
L2tpChecksum(part, x) == <<part, x.shape, x.users>>

L2tpPlan(d, h) ==
    LET present == L2tpFiles(h) # {}
        managed == L2tpFiles(h) = {"conf", "secrets"}
    IN CASE d.service # "on" -> Step("remove_configs", present)
         [] d.service = "on" /\ ~present -> <<<<"install_configs">>>>
         [] OTHER -> IF managed /\ ~d.valid THEN Refused
                     ELSE Step("update_configs", ~managed \/ L2tpChecksum("whole", Rendered(d))
                                                               # L2tpChecksum("body", h))

Plan(d, h) ==
    CASE kind = "xray" -> XrayPlan(d, h)
      [] kind = "singbox" -> SingboxPlan(d, h)
      [] kind = "wireguard" -> WireguardPlan(d, h)
      [] kind = "hysteria2" -> Hysteria2Plan(d, h)
      [] kind = "openvpn" -> OpenvpnPlan(d, h)
      [] kind = "ocserv" -> OcservPlan(d, h)
      [] kind = "l2tp" -> L2tpPlan(d, h)

\* Steps below DisruptRestart.
Gentle == {"add_user", "write_service_hot", "reload", "sync_users"}
              \cup (IF kind = "ocserv" THEN {"update_config"} ELSE {})
MaxDisruption(plan) == IF \A i \in DOMAIN plan : plan[i][1] \in Gentle
                       THEN "none" ELSE "restart"

-----------------------------------------------------------------------------
(***************************************************************************)
(* Apply: the operations of a step, in order.  "try x" is best effort.     *)
(* The stats and policy files xray also writes before a restart hold       *)
(* nothing a service depends on.                                           *)
(***************************************************************************)

XrayApply(step) ==
    CASE step[1] = "write_service" -> {<<"file", "restart", "record">>}
      [] step[1] = "write_service_hot" -> {<<"file", "record">>}
      [] step[1] = "restart_service" -> {<<"restart", "record">>}
      [] step[1] = "remove_service" -> {<<"rm applied", "rm file", "restart">>}
      [] step[1] = "write_egress" -> {<<"egress and marker", "restart">>}
      [] step[1] = "remove_egress" -> {<<"rm egress and marker", "restart">>}
      [] step[1] = "add_user" -> {<<"add user">>}

SingboxApply(step) ==
    CASE step[1] = "write_service" -> {<<"file", "mark", "restart", "record">>}
      [] step[1] = "restart_service" -> {<<"restart", "record">>}
      [] step[1] = "remove_service" -> {<<"rm file", "rm mark", "rm applied", "restart">>}
      [] step[1] = "write_egress" -> {<<"egress", "egress marker", "restart">>}
      [] step[1] = "remove_egress" -> {<<"rm egress", "rm egress marker", "restart">>}

WireguardApply(step) ==
    CASE step[1] \in {"install", "restart"} -> {<<"stop", "file", "start", "record">>}
      [] step[1] = "reload" -> {<<"file", "reload", "record">>}
      [] step[1] = "remove" -> {<<"stop", "rm file", "try rm applied">>}

Hysteria2Apply(step) ==
    CASE step[1] \in {"install", "restart"} -> {<<"file", "restart", "record">>}
      [] step[1] = "remove" -> {<<"stop", "rm file", "try rm applied">>}

OpenvpnApply(step) ==
    CASE step[1] = "install" -> {<<"users", "mark", "shape", "restart">>}
      [] step[1] = "update_config" -> {<<"shape", "restart">>}
      [] step[1] = "sync_users" -> {<<"users", "mark">>}
      [] step[1] = "remove" -> {<<"stop", "rm shape", "rm mark", "rm users">>}

OcservApply(step) ==
    CASE step[1] = "install" -> {<<"shape", "passwd", "restart">>}
      [] step[1] = "update_config" -> {<<"shape", "reload">>}
      [] step[1] = "sync_users" -> {<<"passwd">>}
      [] step[1] = "remove" -> {<<"stop", "rm shape", "rm users">>}

\* The files are written in the order of a Go map; Plan does not validate the
\* parameters of an install.
L2tpApply(step, d) ==
    CASE step[1] # "remove_configs" /\ ~d.valid -> {<<"parse">>}
      [] step[1] = "install_configs" /\ d.valid -> {<<"shape", "users", "start">>,
                                         <<"users", "shape", "start">>}
      [] step[1] = "update_configs" /\ d.valid ->
             {<<"shape", "users", "start", "restart">>,
              <<"users", "shape", "start", "restart">>}
      [] step[1] = "remove_configs" -> {<<"try stop", "try rm file">>}

Apply(step, d) ==
    CASE kind = "xray" -> XrayApply(step)
      [] kind = "singbox" -> SingboxApply(step)
      [] kind = "wireguard" -> WireguardApply(step)
      [] kind = "hysteria2" -> Hysteria2Apply(step)
      [] kind = "openvpn" -> OpenvpnApply(step)
      [] kind = "ocserv" -> OcservApply(step)
      [] kind = "l2tp" -> L2tpApply(step, d)

\* AddUser: a name already there counts as added; its credential stays.
Added(users, c) == IF c[1] \in Subjects(users) THEN users ELSE users \cup {c}

\* Restart or start: the daemon reads the files there are.
DaemonLoads(h) == [h EXCEPT !.run = Loaded(h)]

\* The host once operation o of the current step has been done.
Done(o, h) ==
    CASE o = "file" -> [h EXCEPT !.shape = target.shape,
                                 !.users = Rendered(target).users, !.edited = FALSE]
      [] o = "shape" -> [h EXCEPT !.shape = target.shape, !.edited = FALSE]
      [] o \in {"users", "passwd"} -> [h EXCEPT !.users = Rendered(target).users]
      [] o = "mark" -> [h EXCEPT !.mark = TRUE]
      [] o = "egress" -> [h EXCEPT !.egress = target.egress]
      [] o = "egress marker" -> [h EXCEPT !.egmark = TRUE]
      [] o = "egress and marker" -> [h EXCEPT !.egress = target.egress, !.egmark = TRUE]
      [] o = "rm egress" -> [h EXCEPT !.egress = 0]
      [] o = "rm egress marker" -> [h EXCEPT !.egmark = FALSE]
      [] o = "rm egress and marker" -> [h EXCEPT !.egress = 0, !.egmark = FALSE]
      [] o \in {"rm file", "try rm file"} -> [h EXCEPT !.shape = NoFile, !.users = NoPasswd,
                                                       !.edited = FALSE]
      [] o = "rm shape" -> [h EXCEPT !.shape = NoFile, !.edited = FALSE]
      [] o = "rm users" -> [h EXCEPT !.users = NoPasswd]
      [] o = "rm mark" -> [h EXCEPT !.mark = FALSE]
      [] o \in {"rm applied", "try rm applied"} -> [h EXCEPT !.applied = NoRecord]
      [] o = "record" -> [h EXCEPT !.applied = Rendered(target)]
      [] o = "add user" -> [h EXCEPT !.run.users = Added(@, Head(steps)[2])]
      [] o \in {"restart", "reload"} -> DaemonLoads(h)
      [] o = "start" -> IF h.run = Down THEN DaemonLoads(h) ELSE h
      [] o \in {"stop", "try stop"} -> [h EXCEPT !.run = Down]

\* Only a running daemon can be reloaded or told about a user, but ocserv's
\* reload falls back to a restart; wg-quick does not bring up an interface
\* that is up; parameters that do not parse never will.
CanBeDone(o, h) ==
    /\ o = "add user" \/ (o = "reload" /\ kind # "ocserv") => h.run # Down
    /\ o = "start" /\ kind = "wireguard" => h.run = Down
    /\ o # "parse"

\* What the host may look like when o has failed.  Files are replaced by
\* rename; the record is not, and an unreadable record reads as none; ocserv
\* sets and deletes one password at a time.
Broken(o, h) ==
    CASE o \in {"restart", "start"} \/ (o = "reload" /\ kind = "ocserv") ->
             {h, [h EXCEPT !.run = Down]}
      [] o = "record" -> {h, [h EXCEPT !.applied = NoRecord]}
      [] o = "passwd" ->
             LET have == h.users \ NoPasswd
                 wanted == Rendered(target).users
                 gone == {c \in have : c[1] \notin Subjects(wanted)}
                 With(add) == {c \in have : c[1] \notin Subjects(add)} \cup add
             IN {[h EXCEPT !.users = With(add)] : add \in SUBSET wanted}
                    \cup {[h EXCEPT !.users = With(wanted) \ r] : r \in SUBSET gone}
      [] OTHER -> {h}

-----------------------------------------------------------------------------
(***************************************************************************)
(* Converge.                                                               *)
(***************************************************************************)

Idle == steps = <<>>

Fault == faults < MaxFaults /\ faults' = faults + 1

\* A new document arrives; a pass in progress keeps the one it was given.
Publish ==
    /\ wants < MaxWants
    /\ desired' \in Wants \ {desired}
    /\ wants' = wants + 1
    /\ excused' = (excused \/ torn)
    /\ UNCHANGED <<kind, target, host, steps, ops, tries, failed, outcome, faults, torn>>

\* The first attempt at the first step of a plan for document d.
Begin(plan, d) ==
    /\ steps' = plan
    /\ tries' = 1
    /\ ops' \in Apply(Head(plan), d)

Converge ==
    /\ Idle
    /\ target' = desired
    /\ LET plan == Plan(desired, host)
       IN \/ /\ plan = Refused
             /\ outcome' = "error"
             /\ UNCHANGED <<steps, ops, tries, faults>>
          \/ /\ plan = <<>>
             /\ outcome' = "converged"
             /\ UNCHANGED <<steps, ops, tries, faults>>
          \/ /\ plan \notin {<<>>, Refused}
             /\ Begin(plan, desired)
             /\ outcome' = "running"
             /\ UNCHANGED faults
          \/ /\ MaxDisruption(plan) = "restart" /\ plan \notin {<<>>, Refused}
             /\ Fault
             /\ outcome' = "deferred"
             /\ UNCHANGED <<steps, ops, tries>>
          \/ /\ Fault              \* Observe fails
             /\ outcome' = "error"
             /\ UNCHANGED <<steps, ops, tries>>
    /\ failed' = FALSE
    /\ UNCHANGED <<kind, desired, host, wants, torn, excused>>

\* The end of a restart: of its record, for an adapter that keeps one.
Restarted ==
    \/ Head(ops) = "record" /\ Head(steps)[1] \notin {"write_service_hot", "reload"}
    \/ /\ Head(ops) = "restart"
       /\ kind \in {"openvpn", "ocserv"} \/ Head(steps)[1] = "remove_service"

\* One operation of the current step succeeds.
Operate ==
    /\ ops # <<>> /\ CanBeDone(Head(ops), host)
    /\ host' = Done(Head(ops), host)
    /\ ops' = Tail(ops)
    /\ torn' = (torn /\ ~Restarted)
    /\ excused' = (excused /\ ~Restarted)
    /\ UNCHANGED <<kind, desired, target, steps, tries, failed, outcome, wants, faults>>

\* The query that comes before a stop fails: wireguard reads "no interface",
\* hysteria2 an error it passes over when it removes.  Nothing is stopped and
\* the step goes on; a removal then ends well with the daemon still serving.
StopSkipped ==
    /\ ops # <<>> /\ Head(ops) = "stop" /\ kind \in {"wireguard", "hysteria2"}
    /\ host.run # Down
    /\ Fault
    /\ ops' = Tail(ops)
    /\ excused' = (excused \/ Head(steps)[1] = "remove")
    /\ UNCHANGED <<kind, desired, target, host, steps, tries, failed, outcome, wants, torn>>

\* The step succeeded: on to the next one, or to the confirming plan.
NextStep(bad) ==
    IF Len(steps) > 1
    THEN /\ Begin(Tail(steps), target)
         /\ failed' = bad
         /\ UNCHANGED outcome
    ELSE /\ steps' = <<>> /\ ops' = <<>> /\ tries' = 0 /\ failed' = FALSE
         /\ outcome' = CASE bad -> "failed"
                         [] ~bad /\ Plan(target, host') = <<>> -> "converged"
                         [] ~bad /\ Plan(target, host') = Refused -> "error"
                         [] OTHER -> "outstanding"

FinishStep ==
    /\ ~Idle /\ ops = <<>>
    /\ UNCHANGED host
    /\ NextStep(failed)
    /\ UNCHANGED <<kind, desired, target, wants, faults, torn, excused>>

\* Failures no record tells the next plan about.
Unrecorded(o) ==
    \/ kind \in {"openvpn", "ocserv", "l2tp"}
    \/ o = "add user"
    \/ host.applied = Rendered(target) \/ host.edited
    \/ Head(steps)[1] \in {"write_egress", "remove_egress", "remove_service"}

\* Mutant of MayTryAgain: one attempt too many.
MayTryOnceMore == tries <= MaxRetries

\* The loop of applyWithRetry.
MayTryAgain == tries < MaxRetries

\* An operation fails.  A best effort carries on; otherwise the step is tried
\* again from its start, or is given up: after MaxRetries attempts, or when
\* the session's context is done.
OperationFails ==
    /\ ops # <<>>
    /\ IF CanBeDone(Head(ops), host) THEN Fault ELSE UNCHANGED faults
    /\ host' \in Broken(Head(ops), host)
    /\ torn' = TRUE
    /\ excused' = (excused \/ Unrecorded(Head(ops)) \/ desired # target)
    /\ \/ /\ Head(ops) \in {"try stop", "try rm file", "try rm applied"}
          /\ ops' = Tail(ops)
          /\ UNCHANGED <<steps, tries, failed, outcome>>
       \/ /\ Head(ops) \notin {"try stop", "try rm file", "try rm applied"}
          /\ MayTryAgain
          /\ tries' = tries + 1
          /\ ops' \in Apply(Head(steps), target)
          /\ UNCHANGED <<steps, failed, outcome>>
       \/ /\ Head(ops) \notin {"try stop", "try rm file", "try rm applied"}
          /\ NextStep(TRUE)
    /\ UNCHANGED <<kind, desired, target, wants>>

\* The agent dies during a pass: the operation in progress is done, half
\* done or not begun, and nothing of the pass is remembered.
AgentDies ==
    /\ ops # <<>>
    /\ Fault
    /\ host' \in {host} \cup Broken(Head(ops), host)
                     \cup (IF CanBeDone(Head(ops), host) THEN {Done(Head(ops), host)} ELSE {})
    /\ steps' = <<>> /\ ops' = <<>> /\ tries' = 0 /\ failed' = FALSE
    /\ outcome' = "none"
    /\ torn' = TRUE
    /\ excused' = (excused \/ Unrecorded(Head(ops)) \/ desired # target)
    /\ UNCHANGED <<kind, desired, target, wants>>

\* Somebody edits the service's file between passes, or puts one of their own
\* where there is none.
HandEdit ==
    /\ Idle /\ Fault
    /\ \/ host.shape \notin {NoFile, Foreign} /\ ~host.edited
              /\ host' = [host EXCEPT !.edited = TRUE]
       \/ host.shape = NoFile /\ host' = [host EXCEPT !.shape = Foreign]
    /\ excused' = (excused \/ torn)
    /\ UNCHANGED <<kind, desired, target, steps, ops, tries, failed, outcome, wants, torn>>

AdPass == Converge \/ Operate \/ FinishStep
AdNext == Publish \/ AdPass \/ OperationFails \/ StopSkipped \/ AgentDies \/ HandEdit

\* The agent re-runs Converge until the node has reached its revision.
AdSpec == AdInit /\ [][AdNext]_adVars /\ WF_adVars(AdPass \/ OperationFails)
-----------------------------------------------------------------------------

StepNames == {"write_service", "write_service_hot", "add_user", "restart_service",
              "remove_service", "write_egress", "remove_egress", "install", "restart", "reload",
              "remove", "update_config", "sync_users", "install_configs", "update_configs",
              "remove_configs"}
Operations == {"file", "mark", "shape", "users", "passwd", "restart", "reload", "start", "record",
               "stop", "try stop", "add user", "parse", "egress", "egress marker",
               "egress and marker", "rm egress", "rm egress marker", "rm egress and marker",
               "rm file", "try rm file", "rm shape", "rm users", "rm mark", "rm applied",
               "try rm applied"}
Outcomes == {"none", "running", "converged", "failed", "deferred", "outstanding", "error"}

AdTypeOK ==
    /\ kind \in Kinds
    /\ desired \in Wants /\ target \in Wants
    /\ DOMAIN host = DOMAIN FreshHost
    /\ \A i \in DOMAIN steps : steps[i][1] \in StepNames
    /\ ops \in Seq(Operations)
    /\ tries \in 0 .. MaxRetries
    /\ failed \in BOOLEAN /\ torn \in BOOLEAN /\ excused \in BOOLEAN
    /\ outcome \in Outcomes
    /\ wants \in 0 .. MaxWants /\ faults \in 0 .. MaxFaults

\* What users get: openvpn, ocserv and l2tp read passwords at each login.
Served(h) ==
    [shape |-> h.run.shape, edited |-> h.run.edited,
     users |-> IF h.run.shape = NoFile THEN {}
               ELSE IF kind \in {"openvpn", "ocserv", "l2tp"} THEN h.users \ NoPasswd
               ELSE h.run.users]

\* What the document asks the adapter to serve.
Asked(d) ==
    IF d.service = "on" \/ (d.service = "off" /\ kind \in {"wireguard", "hysteria2"})
    THEN [shape |-> d.shape, edited |-> FALSE, users |-> Rendered(d).users]
    ELSE [shape |-> NoFile, edited |-> FALSE, users |-> {}]

\* xray and ocserv tell subjects apart, not their credentials.
Matches(s, a) ==
    /\ s.shape = a.shape /\ s.edited = a.edited
    /\ IF kind \in {"xray", "ocserv"} THEN Subjects(s.users) = Subjects(a.users)
       ELSE s.users = a.users

\* A file the adapter must not touch, or cannot tell from one, or a document it
\* cannot render.
Blocked == \/ host.shape = Foreign /\ kind \notin {"wireguard", "hysteria2"}
           \/ host.edited /\ kind \in {"openvpn", "ocserv"}
           \/ kind = "openvpn" /\ host.shape # NoFile /\ (~host.mark \/ host.users = NoPasswd)
           \/ kind = "singbox" /\ host.shape # NoFile /\ ~host.mark
           \/ kind = "singbox" /\ host.egress # 0 /\ ~host.egmark
           \/ ~target.valid
           \/ kind \in {"xray", "singbox"} /\ target.users # Usable(target.users)

\* The promise behind applied_revision: a pass that reports convergence leaves
\* the daemon serving what the document asks for, whatever failed or crashed
\* in earlier passes, except where the adapter keeps no record of a failure or
\* removed a service it had not stopped (excused), or has nothing it may do
\* (Blocked).
ConvergedIsServed ==
    outcome = "converged" /\ Idle /\ ~excused /\ ~Blocked =>
        Matches(Served(host), Asked(target))

\* Once failures and new documents stop, the adapter settles on converged, or
\* on a file or a document it can do nothing about.  Not l2tp, which never does.
AdapterSettles == (kind # "l2tp") => <>[](outcome = "converged" \/ Blocked)

\* xray/adapter.go:32-38: "The file says what should be running; this says
\* what is."  Refuted: the hot path records credentials that were not added.
AppliedIsServed ==
    kind = "xray" /\ outcome = "converged" /\ host.run # Down =>
        host.applied.users = host.run.users
=============================================================================
