------------------------------ MODULE SmgEdges ------------------------------
(***************************************************************************)
(* The edge vectors of a symbolic memory graph (Smg/Edge.hpp and the       *)
(* finders and creators of Smg/Object.hpp).  A vector is a sequence; every *)
(* search is linear and stops at the first match, so a later duplicate is  *)
(* invisible to it.  A finder that may return nullptr is a pair of         *)
(* operators: Has..., and the edge found when it holds.                    *)
(*                                                                         *)
(* Value types are left out: the code stores them in the edges and never   *)
(* searches by them ("TODO: we should search by type too!",                *)
(* Smg/Graph.hpp:194).                                                     *)
(***************************************************************************)
LOCAL INSTANCE Integers
LOCAL INSTANCE Sequences

\* HvEdge: at offset `off` of the source object lies the value `value`.
\* Offsets are themselves ValueIds.
HvEdge(off, value) == [off |-> off, value |-> value]

\* PtEdge: the value at `off` is a pointer to offset `toff` of object `obj`.
PtEdge(off, value, obj, toff) ==
    [off |-> off, value |-> value, obj |-> obj, toff |-> toff]

\* Mutant: the target offset follows the source offset.
MovedToBoth(edge, off) == [edge EXCEPT !.off = off, !.toff = off]

\* PtEdge(offset, baseEdge): different source, same target.
MovedTo(edge, off) == [edge EXCEPT !.off = off]

\* The first of a non-empty set of positions.
First(I) == CHOOSE i \in I : \A j \in I : i <= j

AtOffset(edges, off) == {i \in DOMAIN edges : edges[i].off = off}
OfValue(edges, v)    == {i \in DOMAIN edges : edges[i].value = v}

\* FindEdgeByOffset
HasOffset(edges, off)  == AtOffset(edges, off) # {}
FindByOffset(edges, off) == edges[First(AtOffset(edges, off))]

\* FindEdgeByValue
HasValue(edges, v)  == OfValue(edges, v) # {}
FindByValue(edges, v) == edges[First(OfValue(edges, v))]

\* CreateOrModifyEdge: the first edge with the offset of `edge` is
\* overwritten in place, otherwise `edge` is appended.
CreateOrModify(edges, edge) ==
    IF HasOffset(edges, edge.off)
    THEN [edges EXCEPT ![First(AtOffset(edges, edge.off))] = edge]
    ELSE Append(edges, edge)

Retarget(edge, obj) == [edge EXCEPT !.obj = obj]

\* Mutant: only the first edge into `from` is redirected.
RedirectFirst(edges, from, to) ==
    LET into == {i \in DOMAIN edges : edges[i].obj = from}
    IN  IF into = {} THEN edges
        ELSE [edges EXCEPT ![First(into)] = Retarget(@, to)]

\* Every edge into object `from` is made to point to object `to`.
Redirect(edges, from, to) ==
    [i \in DOMAIN edges |->
        IF edges[i].obj = from THEN Retarget(edges[i], to) ELSE edges[i]]
=============================================================================
