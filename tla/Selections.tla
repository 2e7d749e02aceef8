------------------------------ MODULE Selections ------------------------------
(***************************************************************************)
(* The loop that goes through a list and keeps some of its elements, as    *)
(* the filters of the scans and of the parsed sheets do.                   *)
(***************************************************************************)
EXTENDS Naturals, Sequences

\* The members of a sequence that are in a set, in their order.
Selected(sequence, set) ==
    LET chosen[n \in 0 .. Len(sequence)] ==
            IF n = 0 THEN <<>>
            ELSE IF sequence[n] \in set THEN Append(chosen[n - 1], sequence[n]) ELSE chosen[n - 1]
    IN chosen[Len(sequence)]
=============================================================================
