--------------------------- MODULE MCValueContainer ---------------------------
(***************************************************************************)
(* Two constants, the ids 0 and 1 for the integers 0 and 1, and unknown    *)
(* values above them; three ways of using the container.                   *)
(***************************************************************************)
EXTENDS ValueContainer, TLC

Constants0And1 == 0 :> 0 @@ 1 :> 1
AroundZero == -1 .. 2

\* The analysis itself branches and assumes nothing else.
Branching == [unknowns |-> 2 .. 5, pairs |-> {}, limit |-> 6]
\* Callers that give the smaller value first, as IsCmp asks them to, ...
Sorting == [unknowns |-> {2, 3}, pairs |-> {<<0, 2>>, <<1, 2>>, <<1, 3>>, <<2, 3>>}, limit |-> 4]
\* ... and callers that give two values in either order.
EitherOrder == [unknowns |-> {2, 3}, pairs |-> {<<0, 2>>, <<3, 0>>, <<2, 3>>, <<3, 2>>}, limit |-> 3]

AllCallers == {Branching, Sorting, EitherOrder}
SortingCallers == {Sorting}
=============================================================================
