-------------------------- MODULE MCUsageReporting --------------------------
(* Small instances of UsageReporting for TLC. *)
EXTENDS UsageReporting, TLC

\* Subjects are interchangeable.
SubjectSymmetry == Permutations(Subjects)
=============================================================================
