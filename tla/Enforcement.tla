----------------------------- MODULE Enforcement -----------------------------
(***************************************************************************)
(* Limits enforced on a node: the enforcer (node/enforcement/              *)
(* enforcement.go), the loops of the agent that drive it (agent/           *)
(* enforcement.go) and the tracker that reads the xray daemon's            *)
(* statistics (adapter/xray/enforcement.go).  The enforcer's methods hold  *)
(* its mutex; a tracker's Sync calls them one user at a time, a session's  *)
(* tracker may still be in a Sync when the next session starts its own.    *)
(*                                                                         *)
(* A connection is a user of the daemon: its id is the user's email, its   *)
(* source address a constant and its device the subject, so the sets of    *)
(* addresses and devices of a subject are both empty or both singletons.   *)
(***************************************************************************)
EXTENDS Integers, Sequences, FiniteSets, SequencesExt, SequenceFilter

CONSTANTS
    LimitedSubjects,        \* subjects
    Limits,           \* limits a policy may set
    MaxTrackers,      \* bound: sessions, each with its tracker
    MaxPolicyUpdates  \* bound: UpdatePolicies calls

\* A user per subject and service; a limit that is nil is one no count reaches.
Users == LimitedSubjects \X {1, 2}
Unlimited == Cardinality(Users) + 1

ASSUME EnforcementAssumption ==
    /\ IsFiniteSet(LimitedSubjects) /\ Limits \subseteq Int
    /\ MaxTrackers \in Nat /\ MaxPolicyUpdates \in Nat

VARIABLES
    efPolicy,  \* Enforcer.policies
    efConn,    \* Enforcer.connections: absent, or with a recent or an old LastSeenAt
    efIndex,   \* Enforcer.subjectConns
    efKnown,   \* Enforcer.subjectIPs and subjectDevs: do they hold the one member
    efTracker, \* per session: lastStats and where its Sync is
    efOnline,  \* users the daemon has statistics for
    efUpdates  \* counted against the bound

efVars == <<efPolicy, efConn, efIndex, efKnown, efTracker, efOnline, efUpdates>>

NoPolicy == [set |-> FALSE, conns |-> Unlimited, devices |-> Unlimited]
Policies == {NoPolicy} \cup [set : {TRUE}, conns : Limits \cup {Unlimited},
                             devices : Limits \cup {Unlimited}]
NoTracker == [at |-> "none", last |-> {}, current |-> {}, new |-> {}, gone |-> {}]

EfInit ==
    /\ efPolicy = [s \in LimitedSubjects |-> NoPolicy]
    /\ efConn = [u \in Users |-> "none"]
    /\ efIndex = [s \in LimitedSubjects |-> <<>>]
    /\ efKnown = [s \in LimitedSubjects |-> FALSE]
    /\ efTracker = [t \in 1 .. MaxTrackers |-> NoTracker]
    /\ efOnline = {} /\ efUpdates = 0

-----------------------------------------------------------------------------
(* The enforcer. *)

\* terminateSubjectLocked: the policy is gone, or its limit makes no sense.  The
\* subject's devices and addresses go too, even where no connection is left.
Terminated(s, policy) == (efPolicy[s].set /\ ~policy.set) \/ policy.conns < 0

\* enforceConnectionLimitLocked: which connections of a subject an update keeps.  The oldest go first; ConnectedAt has the index's order.
\* Mutant: a subject one above its limit is left alone.
KeptButOne(s, policy) ==
    IF Terminated(s, policy) THEN <<>>
    ELSE IF Len(efIndex[s]) <= policy.conns + 1 THEN efIndex[s]
    ELSE SubSeq(efIndex[s], Len(efIndex[s]) - policy.conns + 1, Len(efIndex[s]))

Kept(s, policy) ==
    IF Terminated(s, policy) THEN <<>>
    ELSE IF Len(efIndex[s]) <= policy.conns THEN efIndex[s]
    ELSE SubSeq(efIndex[s], Len(efIndex[s]) - policy.conns + 1, Len(efIndex[s]))

\* Drops connections from the enforcer's books; the daemon is not told.
UpdatePolicies ==
    /\ efUpdates < MaxPolicyUpdates
    /\ efUpdates' = efUpdates + 1
    /\ \E new \in [LimitedSubjects -> Policies] :
        /\ efPolicy' = new
        /\ efIndex' = [s \in LimitedSubjects |-> Kept(s, new[s])]
        /\ efConn' = [u \in Users |-> IF u \in ToSet(Kept(u[1], new[u[1]])) THEN efConn[u]
                                      ELSE "none"]
        /\ efKnown' = [s \in LimitedSubjects |->
                          CASE Terminated(s, new[s]) -> FALSE
                            [] Kept(s, new[s]) = efIndex[s] -> efKnown[s]
                            [] OTHER -> Kept(s, new[s]) # <<>>]
    /\ UNCHANGED <<efTracker, efOnline>>

Count(s) == IF efKnown[s] THEN 1 ELSE 0

\* A device or an address already counted is let in whatever the limit.
Admitted(s) ==
    LET p == efPolicy[s] IN
    /\ p.devices >= 0 /\ p.conns >= 0
    /\ Count(s) < p.devices \/ efKnown[s]
    /\ Len(efIndex[s]) < p.conns

CheckAndRegisterConnection(u) ==
    IF efConn[u] # "none"
    THEN /\ efConn' = [efConn EXCEPT ![u] = "recent"]
         /\ UNCHANGED <<efIndex, efKnown>>
    ELSE IF Admitted(u[1])
         THEN /\ efConn' = [efConn EXCEPT ![u] = "recent"]
              /\ efIndex' = [efIndex EXCEPT ![u[1]] = Append(@, u)]
              /\ efKnown' = [efKnown EXCEPT ![u[1]] = TRUE]
         ELSE UNCHANGED <<efConn, efIndex, efKnown>>

UnregisterConnection(u) ==
    IF efConn[u] = "none" THEN UNCHANGED <<efConn, efIndex, efKnown>>
    ELSE /\ efConn' = [efConn EXCEPT ![u] = "none"]
         /\ efIndex' = [efIndex EXCEPT ![u[1]] = Without(@, {u})]
         /\ efKnown' = [efKnown EXCEPT ![u[1]] = Without(efIndex[u[1]], {u}) # <<>>]

\* The subjects whose address and device sets are rebuilt are looked up after their
\* connections are gone: none is.
CleanupStale ==
    /\ \E u \in Users : efConn[u] = "old"
    /\ efConn' = [u \in Users |-> IF efConn[u] = "old" THEN "none" ELSE efConn[u]]
    /\ efIndex' = [s \in LimitedSubjects |-> Without(efIndex[s], {u \in Users : efConn[u] = "old"})]
    /\ UNCHANGED <<efPolicy, efKnown, efTracker, efOnline, efUpdates>>

-----------------------------------------------------------------------------
(* The tracker of a session. *)

SessionOver(at) ==
    CASE at = "waiting" -> "ended"
      [] at = "sync" -> "last sync"
      [] OTHER -> at

StartEnforcement(t) ==
    /\ efTracker[t].at = "none" /\ \A k \in 1 .. t - 1 : efTracker[k].at # "none"
    /\ efTracker' = [k \in 1 .. MaxTrackers |->
                        [efTracker[k] EXCEPT !.at = IF k = t THEN "waiting" ELSE SessionOver(@)]]
    /\ UNCHANGED <<efPolicy, efConn, efIndex, efKnown, efOnline, efUpdates>>

\* QueryStats.
SyncBegins(t) ==
    /\ efTracker[t].at = "waiting"
    /\ efTracker' = [efTracker EXCEPT ![t].at = "sync", ![t].current = efOnline,
                                      ![t].new = efOnline \ efTracker[t].last,
                                      ![t].gone = efTracker[t].last \ efOnline]
    /\ UNCHANGED <<efPolicy, efConn, efIndex, efKnown, efOnline, efUpdates>>

Syncing(t) == efTracker[t].at \in {"sync", "last sync"}

\* A user refused is removed from the daemon if that call succeeds; either way it
\* counts as seen.
handleNewConnection(t, u) ==
    /\ Syncing(t) /\ u \in efTracker[t].new
    /\ CheckAndRegisterConnection(u)
    /\ \/ efOnline' = efOnline
       \/ efConn[u] = "none" /\ ~Admitted(u[1]) /\ efOnline' = efOnline \ {u}
    /\ efTracker' = [efTracker EXCEPT ![t].new = @ \ {u}]
    /\ UNCHANGED <<efPolicy, efUpdates>>

handleDisconnection(t, u) ==
    /\ Syncing(t) /\ efTracker[t].new = {} /\ u \in efTracker[t].gone
    /\ UnregisterConnection(u)
    /\ efTracker' = [efTracker EXCEPT ![t].gone = @ \ {u}]
    /\ UNCHANGED <<efPolicy, efOnline, efUpdates>>

SyncEnds(t) ==
    /\ Syncing(t) /\ efTracker[t].new = {} /\ efTracker[t].gone = {}
    /\ efTracker' = [efTracker EXCEPT ![t].at = IF @ = "sync" THEN "waiting" ELSE "ended",
                                      ![t].last = efTracker[t].current, ![t].current = {}]
    /\ UNCHANGED <<efPolicy, efConn, efIndex, efKnown, efOnline, efUpdates>>

-----------------------------------------------------------------------------
(* Users and time. *)

TrafficChanges(u) ==
    /\ efOnline' = IF u \in efOnline THEN efOnline \ {u} ELSE efOnline \cup {u}
    /\ UNCHANGED <<efPolicy, efConn, efIndex, efKnown, efTracker, efUpdates>>

\* Ten minutes since LastSeenAt, which only a registration sets.
ConnectionAges(u) ==
    /\ efConn[u] = "recent"
    /\ efConn' = [efConn EXCEPT ![u] = "old"]
    /\ UNCHANGED <<efPolicy, efIndex, efKnown, efTracker, efOnline, efUpdates>>

EfNext ==
    \/ UpdatePolicies \/ CleanupStale
    \/ \E t \in 1 .. MaxTrackers :
        \/ StartEnforcement(t) \/ SyncBegins(t) \/ SyncEnds(t)
        \/ \E u \in Users : handleNewConnection(t, u) \/ handleDisconnection(t, u)
    \/ \E u \in Users : TrafficChanges(u) \/ ConnectionAges(u)

EfSpec == EfInit /\ [][EfNext]_efVars

-----------------------------------------------------------------------------
EfTypeOK ==
    /\ efPolicy \in [LimitedSubjects -> Policies]
    /\ efConn \in [Users -> {"none", "recent", "old"}]
    /\ \A s \in LimitedSubjects : ToSet(efIndex[s]) \subseteq Users
    /\ efKnown \in [LimitedSubjects -> BOOLEAN]
    /\ \A t \in 1 .. MaxTrackers :
        efTracker[t].at \in {"none", "waiting", "sync", "last sync", "ended"}
    /\ efOnline \subseteq Users /\ efUpdates \in 0 .. MaxPolicyUpdates

ConnectionsOf(s) == {u \in Users : u[1] = s /\ efConn[u] # "none"}

\* The connections the enforcer holds for a subject never outnumber its policy's
\* limit, whichever of two sessions' trackers registers them and however policies,
\* disconnections and the clean-up come between (enforcement.go:103-104): the
\* limit is checked against an index that has to follow the connections exactly.
ConnectionLimitHolds ==
    \A s \in LimitedSubjects : efPolicy[s].set =>
        \/ Cardinality(ConnectionsOf(s)) <= efPolicy[s].conns
        \/ ConnectionsOf(s) = {}

-----------------------------------------------------------------------------
(* Statements of the sources that the code does not keep. *)

\* enforcement.go:398 "Rebuild indexes for affected subjects": after CleanupStale a
\* subject without a connection still holds its address and its device.
IndexesFollow == \A s \in LimitedSubjects : efKnown[s] <=> ConnectionsOf(s) # {}

\* xray/enforcement.go:13-14 "enforces policies by terminating violating
\* connections": a user that stays is registered once, is dropped from the books
\* ten minutes later or when a policy shrinks, and is not looked at again.
SeenIsCounted ==
    \A t \in 1 .. MaxTrackers : efTracker[t].at = "waiting" =>
        \A u \in efTracker[t].last : efConn[u] # "none" \/ ~Admitted(u[1])
=============================================================================
