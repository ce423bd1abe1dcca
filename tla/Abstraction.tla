----------------------------- MODULE Abstraction -----------------------------
(***************************************************************************)
(* Abstraction of a symbolic memory graph (Smg/Abstraction.hpp, over the   *)
(* wrappers of Smg/Wrappers.hpp): two objects that point to each other are *)
(* replaced by one doubly linked list segment.                             *)
(*                                                                         *)
(* The one call, after every store (MemoryGraphAnalysis.hpp:95), is        *)
(* commented out, so a search is an action that may happen at any moment   *)
(* and the program goes on with the graph it leaves.                       *)
(*                                                                         *)
(* Programs allocate one type of node, so all regions have one size; the   *)
(* special objects and the segments have none (ValueId 0).                 *)
(***************************************************************************)
EXTENDS SmgGraph

CONSTANT MaxSegment    \* bound: the ObjectIds of segments are at most this

ASSUME MaxSegmentAssumption == MaxSegment \in Nat

VARIABLE segments      \* the list segments among the objects: their offsets
                       \* of head, next and previous field, and minLength

SameSize(o1, o2) ==
    LET Sized(o) == o \notin SpecialObjs \cup DOMAIN segments
    IN  Sized(o1) <=> Sized(o2)

\* Mutant: the edge back may lead to another object.
LinksForthOnly(o1, n) ==
    LET nf == objects[o1].pt[n]
    IN  {p \in DOMAIN objects[nf.obj].pt :
           LET pf == objects[nf.obj].pt[p]
           IN  /\ SameSize(o1, nf.obj) /\ pf.toff = nf.toff
               /\ HasOffset(objects[nf.obj].pt, nf.off) /\ HasOffset(objects[o1].pt, pf.off)}

\* For the n-th edge of o1: the edges of its target that lead back to o1, to
\* the same offset.  Each object must also have a field where the other has
\* its link.
LinksBack(o1, n) ==
    LET nf == objects[o1].pt[n]
    IN  {p \in DOMAIN objects[nf.obj].pt :
           LET pf == objects[nf.obj].pt[p]
           IN  /\ SameSize(o1, nf.obj) /\ pf.obj = o1 /\ pf.toff = nf.toff
               /\ HasOffset(objects[nf.obj].pt, nf.off) /\ HasOffset(objects[o1].pt, pf.off)}

\* IsCandidateObject: edges of o1 are tried in order, and for each of them
\* the edges of its target.
LinksForth(o1) == {n \in DOMAIN objects[o1].pt : LinksBack(o1, n) # {}}
IsCandidateObject(o1) == LinksForth(o1) # {}
LinkedTo(o1) ==
    LET n  == First(LinksForth(o1))
        nf == objects[o1].pt[n]
        pf == objects[nf.obj].pt[First(LinksBack(o1, n))]
    IN  [second |-> nf.obj, hfo |-> nf.toff, nfo |-> nf.off, pfo |-> pf.off]

\* Mutant: the edges into the second object are forgotten.
RedirectedFirst(edges, o1, o2, dls) == Redirect(edges, o1, dls)
Redirected(edges, o1, o2, dls) == Redirect(Redirect(edges, o1, dls), o2, dls)

\* Mutant: the next field is taken from the first object.
SegmentOfFirst(o1, link, dls) ==
    [NewObject("Heap") EXCEPT !.pt = Redirected(
        << FindByOffset(objects[o1].pt, link.nfo),
           FindByOffset(objects[o1].pt, link.pfo) >>, o1, link.second, dls)]
\* The segment has the next field of the second object and the previous
\* field of the first.  It is in the graph when edges are redirected, so its
\* own are as well.  Everything else the two objects held is lost.
Segment(o1, link, dls) ==
    [NewObject("Heap") EXCEPT !.pt = Redirected(
        << FindByOffset(objects[link.second].pt, link.nfo),
           FindByOffset(objects[o1].pt, link.pfo) >>, o1, link.second, dls)]

\* Mutant: pointers to the joined objects become pointers to freed memory.
HandlesFreed(o1, o2, dls) == Redirected(handles, o1, o2, FreedObj)
HandlesJoined(o1, o2, dls) == Redirected(handles, o1, o2, dls)

JoinTwoRegions(o1, link) ==
    LET o2  == link.second
        dls == nextObj
    IN  /\ handles' = HandlesJoined(o1, o2, dls)
        /\ objects' = [o \in (DOMAIN objects \ {o1, o2}) \cup {dls} |->
                          IF o = dls THEN Segment(o1, link, dls)
                          ELSE [objects[o] EXCEPT !.pt = Redirected(@, o1, o2, dls)]]
        /\ segments' = [d \in (DOMAIN segments \ {o1, o2}) \cup {dls} |->
                           IF d # dls THEN segments[d]
                           ELSE [hfo |-> link.hfo, nfo |-> link.nfo, pfo |-> link.pfo,
                                 minLength |-> 2]]
        /\ nextObj' = dls + 1

\* LookForCandidates joins the first candidate, in the order of ids, and
\* returns; the caller may call again.
Candidates == {o \in DOMAIN objects : IsCandidateObject(o)}
LookForCandidates ==
    /\ Running
    /\ Candidates # {}
    /\ nextObj <= MaxSegment
    /\ LET o1 == First(Candidates) IN JoinTwoRegions(o1, LinkedTo(o1))
    /\ UNCHANGED <<vcVars, heldPtrs, heldInts, status>>

\* The instructions of the program take a segment for a region; freeing one
\* erases it.
Instruction ==
    /\ Next
    /\ segments' = [d \in DOMAIN segments \cap DOMAIN objects' |-> segments[d]]

AInit == Init /\ segments = <<>>
ANext == Instruction \/ LookForCandidates
ASpec == AInit /\ [][ANext]_<<vars, segments>>

-----------------------------------------------------------------------------
(* Properties.  NoDanglingTarget and StoredEdgesAgree are to survive.      *)

\* What a program reads in graph g at an offset of o: the first edge there.
LeadsTo(g, o, off, o2, toff) ==
    /\ HasOffset(g[o].pt, off)
    /\ FindByOffset(g[o].pt, off).obj = o2
    /\ FindByOffset(g[o].pt, off).toff = toff

\* The field of the new segment leads where that of the old object led, or
\* to the segment itself if it led into the pair that was joined.
TakesOver(dls, o, off, pair) ==
    \E x \in DOMAIN objects, toff \in Issued :
        /\ LeadsTo(objects, o, off, x, toff)
        /\ LeadsTo(objects', dls, off, IF x \in pair THEN dls ELSE x, toff)

\* An object with an edge that no search by offset finds: it was disabled, or
\* it is the second of the two that a segment gets when its next and previous
\* field are one.  What it says may be long overwritten, but IsCandidateObject
\* reads it.
HasStaleEdge(o) ==
    LET pt == objects[o].pt
    IN  \E i \in DOMAIN pt : pt[i].off = Hidden \/ i # First(AtOffset(pt, pt[i].off))

\* A segment replaces only two nodes that a program sees linked to each other
\* in both directions, head to head ("PF must point to the previous object
\* with HFO offset", Abstraction.hpp:26), and a walk that comes out of it in
\* either direction goes where it went before, unless stale edges misled it.
SegmentsReplaceLists ==
    [][\A dls \in DOMAIN segments' \ DOMAIN segments :
          LET s == segments'[dls]
          IN  \E o1, o2 \in DOMAIN objects \ DOMAIN objects' :
                 /\ DOMAIN objects \ DOMAIN objects' = {o1, o2}
                 /\ \/ HasStaleEdge(o1) \/ HasStaleEdge(o2)
                    \/ /\ LeadsTo(objects, o1, s.nfo, o2, s.hfo)
                       /\ LeadsTo(objects, o2, s.pfo, o1, s.hfo)
                       /\ TakesOver(dls, o2, s.nfo, {o1, o2})
                       /\ s.pfo # s.nfo => TakesOver(dls, o1, s.pfo, {o1, o2})]_<<vars, segments>>
=============================================================================
