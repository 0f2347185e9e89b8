----------------------------- MODULE DesiredState -----------------------------
(***************************************************************************)
(* What the panel promises of one node's desired state, without streams,   *)
(* sessions, hashes or crashes: revisions are issued one after the other   *)
(* and never changed, a new one says something new, and applied_revision   *)
(* names nothing (0) or a revision that the node has confirmed.            *)
(***************************************************************************)
EXTENDS Naturals, Sequences

CONSTANTS Contents     \* what a revision can ask for

VARIABLES
    issued,     \* the contents of the revisions issued, the first one first
    confirmed,  \* revisions the node has confirmed
    applied     \* the revision the panel shows as applied

stateVars == <<issued, confirmed, applied>>

StateInit ==
    /\ issued = <<>>
    /\ confirmed = {}
    /\ applied = 0

\* The next revision is issued; it differs from the last one.
Issue(c) ==
    /\ issued # <<>> => issued[Len(issued)] # c
    /\ issued' = Append(issued, c)
    /\ UNCHANGED <<confirmed, applied>>

\* The node has converged on a revision, not necessarily the latest.
Confirm(r) ==
    /\ r \in DOMAIN issued
    /\ confirmed' = confirmed \cup {r}
    /\ UNCHANGED <<issued, applied>>

\* The panel learns of a confirmation, or of a node that runs on nothing;
\* reports may come late, so it may be of an older revision than the last.
Acknowledge(r) ==
    /\ r = 0 \/ r \in confirmed
    /\ applied' = r
    /\ UNCHANGED <<issued, confirmed>>

StateNext ==
    \/ \E c \in Contents : Issue(c)
    \/ \E r \in DOMAIN issued : Confirm(r)
    \/ \E r \in {0} \cup confirmed : Acknowledge(r)

StateSpec == StateInit /\ [][StateNext]_stateVars
=============================================================================
