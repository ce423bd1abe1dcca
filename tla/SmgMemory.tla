------------------------------ MODULE SmgMemory ------------------------------
(***************************************************************************)
(* The symbolic memory graph implements PointerMemory.                     *)
(*                                                                         *)
(* Freeing an object erases which object its pointers were made for, so    *)
(* a history variable remembers it: origin[v] is the target of the first   *)
(* handle edge that v ever had.                                            *)
(***************************************************************************)
EXTENDS SmgGraph

VARIABLE origin

Known == {handles[i].value : i \in DOMAIN handles}
Place(v) == [obj |-> FindByValue(handles, v).obj,
             off |-> FindByValue(handles, v).toff]

HInit == Init /\ origin = [v \in Known |-> Place(v)]
HNext == Next /\ origin' = [v \in Known' |->
                  IF v \in DOMAIN origin THEN origin[v] ELSE Place(v)']
HSpec == HInit /\ [][HNext]_<<vars, origin>>

-----------------------------------------------------------------------------
(* The refinement mapping.                                                 *)

\* A ValueId as an offset, under the constants map c: a number if it is a
\* constant, otherwise itself.
OffsetIn(c, id) == IF id \in DOMAIN c THEN <<"int", c[id]>> ELSE <<"sym", id>>

\* The cells of a vector of edges: offset -> value found there.
VisibleOffsets(edges) == {edges[i].off : i \in DOMAIN edges} \ {Hidden}
Cells(c, edges) ==
    LET Id(a) == CHOOSE off \in VisibleOffsets(edges) : OffsetIn(c, off) = a
    IN  [a \in {OffsetIn(c, off) : off \in VisibleOffsets(edges)} |->
            FindByOffset(edges, Id(a)).value]

AbsTarget == [v \in DOMAIN origin |->
                 [obj |-> origin[v].obj, off |-> OffsetIn(consts, origin[v].off)]]
Live     == DOMAIN objects \ SpecialObjs
Dead     == (1 .. nextObj - 1) \ Live
HeapLive == {o \in Live : objects[o].space = "Heap"}
PtrCells == [o \in Live |-> Cells(consts, objects[o].pt)]
IntCells == [o \in Live |-> Cells(consts, objects[o].hv)]

Memory == INSTANCE PointerMemory WITH
    Values   <- 0 .. MaxVal,
    Objects  <- 1 .. MaxObj,
    Symbols  <- 0 .. MaxVal,
    Deltas   <- GepOffsets,
    Constants <- 0 .. 2 * MaxConst - 1,
    target   <- AbsTarget,
    live     <- Live,
    dead     <- Dead,
    heap     <- HeapLive,
    ptrCell  <- PtrCells,
    intCell  <- IntCells,
    ptrs     <- heldPtrs,
    ints     <- heldInts

\* Every operation of the graph is an operation of the abstract memory: in
\* particular an access through a pointer to a freed object always faults,
\* whatever edges were copied, hidden or redirected since, and a pointer read
\* from memory is the pointer last written there.  (Smg/Graph.hpp, all of it)
ImplementsPointerMemory == Memory!Spec
=============================================================================
