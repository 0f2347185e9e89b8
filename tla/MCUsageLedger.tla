--------------------------- MODULE MCUsageLedger ---------------------------
(* Small instances of UsageLedger for TLC. *)
EXTENDS UsageLedger, TLC

\* Subjects are interchangeable.
SubjectSymmetry == Permutations(Subjects)
=============================================================================
