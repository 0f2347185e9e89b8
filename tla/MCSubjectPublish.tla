-------------------------- MODULE MCSubjectPublish --------------------------
(* Small instances of SubjectPublish for TLC. *)
EXTENDS SubjectPublish, TLC

\* Requests are interchangeable.
CallerSymmetry == Permutations(Callers)

\* So are nodes, where every node is a serving one.
Symmetry == CallerSymmetry \cup Permutations(Nodes)

\* A bound on the instance with the expiry sweeper and two requests: no period ends.
OnePeriod == ~resetDue
=============================================================================
