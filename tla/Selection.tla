------------------------------ MODULE Selection ------------------------------
(***************************************************************************)
(* SelectSeq for the elements of a set, as a recursive function, which the *)
(* provers can expand.                                                     *)
(***************************************************************************)
EXTENDS Integers, Sequences

\* The elements of s that are in S, in their order.
SelectIn(s, S) ==
    LET Selected[n \in 0 .. Len(s)] ==
            IF n = 0 THEN <<>>
            ELSE IF s[n] \in S THEN Append(Selected[n - 1], s[n]) ELSE Selected[n - 1]
    IN  Selected[Len(s)]
=============================================================================
