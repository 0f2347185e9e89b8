--------------------------- MODULE SequenceFilter ---------------------------
(***************************************************************************)
(* Removal from the ordered lists that the models keep: connection ids of  *)
(* a subject (node/enforcement/enforcement.go) and rows of a table in the  *)
(* order of their ids (auth/ratelimit.go).  A recursive function, so that  *)
(* what it does can be proved for sequences of any length.                 *)
(***************************************************************************)
EXTENDS Naturals, Sequences

\* The elements of seq that are not in gone, in their order.
Without(seq, gone) ==
    LET keep[i \in 0 .. Len(seq)] ==
            IF i = 0 THEN <<>>
            ELSE IF seq[i] \in gone THEN keep[i - 1]
            ELSE Append(keep[i - 1], seq[i])
    IN keep[Len(seq)]
=============================================================================
