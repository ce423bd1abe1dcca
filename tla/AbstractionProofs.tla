-------------------------- MODULE AbstractionProofs --------------------------
(***************************************************************************)
(* Proofs about Abstraction and SmgCrawler, for every choice of constants, *)
(* bounds and instructions: a search that replaces two regions by a        *)
(* segment at any moment leaves a graph the other operations and the plot  *)
(* can live with, and a plot shows all of the graph that can be reached.   *)
(***************************************************************************)
EXTENDS SmgCrawler, SmgGraphProofs

\* Nothing is ever stored in the special objects, so they are never joined
\* away.
SpecialsEmpty == \A o \in SpecialObjs : objects[o].pt = <<>>

AbstractionInv == GraphInv /\ SpecialsEmpty

-----------------------------------------------------------------------------
(* Instructions of the program.                                            *)

\* An object that is updated is not special: the code checked the access.
LEMMA UpdateSpecials ==
    ASSUME AbstractionInv, NEW p \in heldPtrs, CanAccess(p), NEW object,
           UpdateObject(p, object)
    PROVE  SpecialsEmpty'
<1>1. objects' = [objects EXCEPT ![Target(p)] = object]
  BY DEF UpdateObject
<1>2. Target(p) \notin SpecialObjs
  BY DEF CanAccess
<1>3. SpecialObjs \subseteq DOMAIN objects
  BY DEF AbstractionInv, GraphInv, TypeOK
<1>4. \A o \in SpecialObjs : objects'[o] = objects[o]
  BY <1>1, <1>2, <1>3
<1> QED
  BY <1>4 DEF AbstractionInv, SpecialsEmpty

\* No instruction of the program writes to a special object.
LEMMA NextSpecials ==
    ASSUME AbstractionInv, Next
    PROVE  SpecialsEmpty'
<1>1. /\ SpecialObjs \subseteq DOMAIN objects
      /\ nextObj \in Nat \ {0} /\ nextObj \notin SpecialObjs
      /\ \A o \in SpecialObjs : objects[o].pt = <<>>
  BY DEF AbstractionInv, GraphInv, TypeOK, SpecialsEmpty, SpecialObjs, NullObj,
         UnknownObj, FreedObj
<1>2. ASSUME objects' = objects PROVE SpecialsEmpty'
  BY <1>1, <1>2 DEF SpecialsEmpty
<1>3. CASE Alloca \/ Malloc
  <2>1. PICK space : AllocateRegion(space)
    BY <1>3 DEF Alloca, Malloc
  <2>2. \A o \in SpecialObjs : objects'[o] = objects[o]
    BY <1>1, <2>1 DEF AllocateRegion
  <2> QED
    BY <1>1, <2>2 DEF SpecialsEmpty
<1>4. ASSUME NEW p \in heldPtrs,
             \/ AccessFault(p) \/ FreeFault(p) \/ FreeNull(p) \/ GepUnknown(p)
             \/ BitCast(p) \/ \E off : Gep(p, off) \/ \E q : CmpPtr(p, q)
      PROVE  SpecialsEmpty'
  BY <1>2, <1>4 DEF AccessFault, FreeFault, Fail, FreeNull, GepUnknown, BitCast, Gep,
                    CmpPtr, vars, graphVars
<1>5. ASSUME NEW p \in heldPtrs, LoadInt(p) PROVE SpecialsEmpty'
  BY <1>2, <1>5, UpdateSpecials DEF LoadInt, ReadPlain
<1>6. ASSUME NEW p \in heldPtrs, LoadPtr(p) PROVE SpecialsEmpty'
  BY <1>2, <1>6, UpdateSpecials DEF LoadPtr, ReadPlain
<1>7. ASSUME NEW p \in heldPtrs, \E v : StoreInt(p, v) PROVE SpecialsEmpty'
  BY <1>7, UpdateSpecials DEF StoreInt
<1>8. ASSUME NEW p \in heldPtrs, \E v : StorePtr(p, v) PROVE SpecialsEmpty'
  BY <1>8, UpdateSpecials DEF StorePtr
<1>9. ASSUME NEW p \in heldPtrs, Memclear(p) PROVE SpecialsEmpty'
  BY <1>9, UpdateSpecials DEF Memclear
<1>10. ASSUME NEW p \in heldPtrs, FreeObject(p) PROVE SpecialsEmpty'
  <2>1. /\ Target(p) \notin SpecialObjs
        /\ objects' = [x \in DOMAIN objects \ {Target(p)} |->
               [objects[x] EXCEPT !.pt = Redirect(@, Target(p), FreedObj)]]
    BY <1>10 DEF FreeObject, CanAccess
  <2>2. ASSUME NEW o \in SpecialObjs PROVE objects'[o].pt = <<>>
    <3>1. objects'[o] = [objects[o] EXCEPT !.pt = Redirect(@, Target(p), FreedObj)]
      BY <1>1, <2>1
    <3>2. objects[o] \in Regions
      BY <1>1 DEF AbstractionInv, GraphInv, TypeOK
    <3>3. objects'[o].pt = Redirect(objects[o].pt, Target(p), FreedObj)
      BY <3>1, <3>2 DEF Regions
    <3> QED
      BY <1>1, <3>3 DEF Redirect
  <2> QED
    BY <2>2 DEF SpecialsEmpty
<1> QED
  BY <1>3, <1>4, <1>5, <1>6, <1>7, <1>8, <1>9, <1>10 DEF Next

-----------------------------------------------------------------------------
(* The search.                                                             *)

\* Edges that all lead to objects of S lead, after both objects of a pair
\* were replaced by dls, to dls or to an object of S that stays.
LEMMA RedirectedType ==
    ASSUME NEW T, NEW edges \in Seq(T), NEW o1, NEW o2, NEW dls, NEW S,
           \A e \in T : Retarget(e, dls) \in T /\ Retarget(e, dls).obj = dls,
           \A i \in DOMAIN edges : edges[i].obj \in S
    PROVE  /\ Redirected(edges, o1, o2, dls) \in Seq(T)
           /\ \A i \in DOMAIN Redirected(edges, o1, o2, dls) :
                 Redirected(edges, o1, o2, dls)[i].obj \in (S \ {o1, o2}) \cup {dls}
<1> DEFINE once  == Redirect(edges, o1, dls)
           twice == Redirect(once, o2, dls)
<1>1. /\ once \in Seq(T) /\ DOMAIN once = DOMAIN edges
      /\ \A i \in DOMAIN edges :
            once[i] = IF edges[i].obj = o1 THEN Retarget(edges[i], dls) ELSE edges[i]
  BY RedirectProperties
<1>2. \A i \in DOMAIN edges : edges[i] \in T
  OBVIOUS
<1>3. \A i \in DOMAIN once : once[i] \in T /\ once[i].obj \in (S \ {o1}) \cup {dls}
  BY <1>1, <1>2
<1> HIDE DEF once
<1>4. /\ twice \in Seq(T) /\ DOMAIN twice = DOMAIN once
      /\ \A i \in DOMAIN once :
            twice[i] = IF once[i].obj = o2 THEN Retarget(once[i], dls) ELSE once[i]
  BY <1>1, RedirectProperties
<1>5. \A i \in DOMAIN twice : twice[i].obj \in (S \ {o1, o2}) \cup {dls}
  BY <1>3, <1>4
<1>6. Redirected(edges, o1, o2, dls) = twice
  BY DEF Redirected, once, twice
<1> QED
  BY <1>4, <1>5, <1>6

\* Some edge of o at the offset leads to o2, found by a search or not.
HasLink(o, off, o2, toff) ==
    \E i \in DOMAIN objects[o].pt :
        LET edge == objects[o].pt[i]
        IN  edge.off = off /\ edge.obj = o2 /\ edge.toff = toff

\* The two objects of a candidate are regions the program allocated, an edge of
\* each leads to the other, and each has the two edges the segment is made of.
LEMMA LinkedToType ==
    ASSUME AbstractionInv, NEW o1 \in DOMAIN objects, IsCandidateObject(o1)
    PROVE  LET link == LinkedTo(o1)
           IN  /\ {o1, link.second} \subseteq DOMAIN objects \ SpecialObjs
               /\ HasOffset(objects[link.second].pt, link.nfo)
               /\ HasOffset(objects[o1].pt, link.pfo)
               /\ HasLink(o1, link.nfo, link.second, link.hfo)
               /\ HasLink(link.second, link.pfo, o1, link.hfo)
<1> DEFINE n  == First(LinksForth(o1))
           nf == objects[o1].pt[n]
           m  == First(LinksBack(o1, n))
           pf == objects[nf.obj].pt[m]
<1>1. \A o \in DOMAIN objects :
         objects[o].pt \in Seq(PtEdges(Issued \cup {Hidden})) /\ DOMAIN objects[o].pt \subseteq Nat
  <2>1. ASSUME NEW o \in DOMAIN objects PROVE objects[o].pt \in Seq(PtEdges(Issued \cup {Hidden}))
    BY DEF AbstractionInv, GraphInv, TypeOK, Regions
  <2>2. ASSUME NEW T, NEW s \in Seq(T) PROVE DOMAIN s \subseteq Nat
    BY <2>2
  <2> QED
    BY <2>1, <2>2
<1>2. LinksForth(o1) \in SUBSET Nat /\ LinksForth(o1) # {}
  BY <1>1 DEF LinksForth, IsCandidateObject
<1>3. n \in DOMAIN objects[o1].pt /\ LinksBack(o1, n) # {}
  <2>1. n \in LinksForth(o1)
    BY <1>2, FirstIsLeast
  <2> QED
    BY <2>1 DEF LinksForth
<1>4. nf.obj \in DOMAIN objects
  BY <1>3 DEF AbstractionInv, GraphInv, NoDanglingTarget
<1>5. /\ m \in DOMAIN objects[nf.obj].pt
      /\ HasOffset(objects[nf.obj].pt, nf.off) /\ HasOffset(objects[o1].pt, pf.off)
      /\ pf.obj = o1 /\ pf.toff = nf.toff
  <2>1. LinksBack(o1, n) \in SUBSET Nat
    BY <1>1, <1>4 DEF LinksBack
  <2>2. m \in LinksBack(o1, n)
    BY <1>3, <2>1, FirstIsLeast
  <2> QED
    BY <2>2 DEF LinksBack
<1>6. LinkedTo(o1) = [second |-> nf.obj, hfo |-> nf.toff, nfo |-> nf.off, pfo |-> pf.off]
  BY DEF LinkedTo
<1>7. o1 \notin SpecialObjs /\ nf.obj \notin SpecialObjs
  <2>1. objects[o1].pt # <<>> /\ objects[nf.obj].pt # <<>>
    <3>1. \A s, i : i \in DOMAIN s => s # <<>>
      OBVIOUS
    <3>2. n \in DOMAIN objects[o1].pt /\ m \in DOMAIN objects[nf.obj].pt
      BY <1>3, <1>5
    <3> HIDE DEF n, m, nf
    <3> QED
      BY <3>1, <3>2
  <2> QED
    BY <2>1 DEF AbstractionInv, SpecialsEmpty
<1>8. /\ HasLink(o1, nf.off, nf.obj, nf.toff)
      /\ HasLink(nf.obj, pf.off, o1, nf.toff)
  BY <1>3, <1>5 DEF HasLink
<1> HIDE DEF n, nf, m, pf
<1> QED
  BY <1>4, <1>5, <1>6, <1>7, <1>8

\* The search takes a candidate.
LEMMA FirstCandidate ==
    ASSUME AbstractionInv, LookForCandidates
    PROVE  First(Candidates) \in DOMAIN objects /\ IsCandidateObject(First(Candidates))
<1>1. Candidates \in SUBSET Nat /\ Candidates # {}
  <2>1. \A o \in Candidates : o \in DOMAIN objects \ SpecialObjs
    BY LinkedToType DEF Candidates
  <2>2. ObjectIds \ SpecialObjs \subseteq Nat /\ DOMAIN objects \subseteq ObjectIds
    BY DEF ObjectIds, AbstractionInv, GraphInv, TypeOK
  <2> QED
    BY <2>1, <2>2 DEF LookForCandidates
<1>2. First(Candidates) \in Candidates
  BY <1>1, FirstIsLeast
<1> QED
  BY <1>2 DEF Candidates

\* The join takes every edge into the pair along, and the ids it writes were
\* all given out.
LEMMA LookForCandidatesInv ==
    ASSUME AbstractionInv, LookForCandidates
    PROVE  AbstractionInv'
<1> DEFINE o1  == First(Candidates)
           o2  == LinkedTo(o1).second
           nfo == LinkedTo(o1).nfo
           pfo == LinkedTo(o1).pfo
           dls == nextObj
           T   == PtEdges(Issued \cup {Hidden})
           seg == << FindByOffset(objects[o2].pt, nfo), FindByOffset(objects[o1].pt, pfo) >>
           Left == (DOMAIN objects \ {o1, o2}) \cup {dls}
<1>1. /\ nextVal \in Nat /\ nextObj \in Nat \ {0}
      /\ SpecialObjs \subseteq DOMAIN objects /\ DOMAIN objects \subseteq ObjectIds
      /\ \A o \in DOMAIN objects :
            /\ objects[o] \in Regions
            /\ \A i \in DOMAIN objects[o].pt : objects[o].pt[i].obj \in DOMAIN objects
      /\ \A o \in SpecialObjs : objects[o].pt = <<>>
  BY DEF AbstractionInv, GraphInv, TypeOK, NoDanglingTarget, SpecialsEmpty
<1>2. o1 \in DOMAIN objects /\ IsCandidateObject(o1)
  BY FirstCandidate
<1>3. /\ o1 \in DOMAIN objects \ SpecialObjs /\ o2 \in DOMAIN objects \ SpecialObjs
      /\ HasOffset(objects[o2].pt, nfo) /\ HasOffset(objects[o1].pt, pfo)
  BY <1>2, LinkedToType
<1>4. /\ handles' = Redirected(handles, o1, o2, dls)
      /\ objects' = [o \in Left |->
            IF o = dls THEN [NewObject("Heap") EXCEPT !.pt = Redirected(seg, o1, o2, dls)]
            ELSE [objects[o] EXCEPT !.pt = Redirected(@, o1, o2, dls)]]
      /\ nextObj' = dls + 1
      /\ nextVal' = nextVal /\ consts' = consts
      /\ heldPtrs' = heldPtrs /\ heldInts' = heldInts /\ status' = status
  BY DEF LookForCandidates, JoinTwoRegions, HandlesJoined, Segment, vcVars
<1> HIDE DEF o1, o2, nfo, pfo
<1>5. /\ Issued' = Issued /\ dls \in ObjectIds'
      /\ ObjectIds \subseteq ObjectIds' /\ PtEdges({Zero}) \subseteq PtEdges({Zero})'
      /\ Regions \subseteq Regions' /\ T \subseteq T'
  <2>1. /\ nextVal' \in Nat /\ nextVal <= nextVal'
        /\ nextObj' \in Nat /\ nextObj <= nextObj'
    BY <1>1, <1>4
  <2>2. Issued' = Issued /\ dls \in ObjectIds'
    BY <1>1, <1>4 DEF Issued, ObjectIds
  <2>3. /\ ObjectIds \subseteq ObjectIds' /\ PtEdges({Zero}) \subseteq PtEdges({Zero})'
        /\ Regions \subseteq Regions'
    BY <2>1, TypesGrow DEF AbstractionInv
  <2> QED
    BY <2>2, <2>3 DEF PtEdges
<1>6. /\ DOMAIN objects' = Left /\ Left \subseteq ObjectIds'
      /\ SpecialObjs \subseteq Left /\ dls \notin SpecialObjs
  <2>1. dls \notin SpecialObjs
    BY <1>1 DEF SpecialObjs, NullObj, UnknownObj, FreedObj
  <2> QED
    BY <1>1, <1>3, <1>4, <1>5, <2>1
<1>7. /\ \A e \in T' : Retarget(e, dls) \in T' /\ Retarget(e, dls).obj = dls
      /\ \A e \in PtEdges({Zero})' :
            Retarget(e, dls) \in PtEdges({Zero})' /\ Retarget(e, dls).obj = dls
  BY <1>5 DEF PtEdges, Retarget
<1>8. handles' \in Seq(PtEdges({Zero})') /\ \A i \in DOMAIN handles' : handles'[i].obj \in Left
  <2> DEFINE H == PtEdges({Zero})'
  <2>1. handles \in Seq(H)
    <3>1. handles \in Seq(PtEdges({Zero}))
      BY DEF AbstractionInv, GraphInv, TypeOK
    <3> QED
      BY <1>5, <3>1, SeqMonotonic
  <2>2. \A i \in DOMAIN handles : handles[i].obj \in DOMAIN objects
    BY DEF AbstractionInv, GraphInv, NoDanglingTarget
  <2>3. \A e \in H : Retarget(e, dls) \in H /\ Retarget(e, dls).obj = dls
    BY <1>7
  <2> HIDE DEF H, dls
  <2>4. /\ Redirected(handles, o1, o2, dls) \in Seq(H)
        /\ \A i \in DOMAIN Redirected(handles, o1, o2, dls) :
              Redirected(handles, o1, o2, dls)[i].obj \in (DOMAIN objects \ {o1, o2}) \cup {dls}
    BY <2>1, <2>2, <2>3, RedirectedType
  <2> USE DEF H, dls
  <2> QED
    BY <1>4, <2>4
\* A region of the old graph, with its edges redirected.
<1>9. ASSUME NEW pt \in Seq(T'), \A i \in DOMAIN pt : pt[i].obj \in DOMAIN objects
      PROVE  /\ Redirected(pt, o1, o2, dls) \in Seq(T')
             /\ \A i \in DOMAIN Redirected(pt, o1, o2, dls) :
                   Redirected(pt, o1, o2, dls)[i].obj \in Left
  <2> DEFINE E == T'
             d == dls
  <2>1. pt \in Seq(E) /\ \A e \in E : Retarget(e, d) \in E /\ Retarget(e, d).obj = d
    BY <1>7, <1>9
  <2> HIDE DEF E, d
  <2>2. /\ Redirected(pt, o1, o2, d) \in Seq(E)
        /\ \A i \in DOMAIN Redirected(pt, o1, o2, d) :
              Redirected(pt, o1, o2, d)[i].obj \in (DOMAIN objects \ {o1, o2}) \cup {d}
    BY <1>9, <2>1, RedirectedType
  <2> USE DEF E, d
  <2> QED
    BY <2>2
<1>10. \A o \in DOMAIN objects : objects[o].pt \in Seq(T)
  BY <1>1 DEF Regions
<1>11. Seq(T) \subseteq Seq(T')
  <2> HIDE DEF T
  <2> QED
    BY <1>5, SeqMonotonic
<1>12. /\ objects'[dls] \in Regions'
       /\ \A i \in DOMAIN objects'[dls].pt : objects'[dls].pt[i].obj \in Left
  <2>1. /\ seg \in Seq(T')
        /\ \A i \in DOMAIN seg : seg[i].obj \in DOMAIN objects
    <3> DEFINE nf == FindByOffset(objects[o2].pt, nfo)
               pf == FindByOffset(objects[o1].pt, pfo)
    <3>1. ASSUME NEW o \in DOMAIN objects, NEW off, HasOffset(objects[o].pt, off)
          PROVE  /\ FindByOffset(objects[o].pt, off) \in T'
                 /\ FindByOffset(objects[o].pt, off).obj \in DOMAIN objects
      <4>1. First(AtOffset(objects[o].pt, off)) \in DOMAIN objects[o].pt
        BY <1>10, <3>1, FindByOffsetType
      <4>2. FindByOffset(objects[o].pt, off) \in T
        <5> HIDE DEF T
        <5> QED
          BY <1>10, <3>1, FindByOffsetType
      <4> QED
        BY <1>1, <1>5, <4>1, <4>2 DEF FindByOffset
    <3>2. /\ nf \in T' /\ nf.obj \in DOMAIN objects
          /\ pf \in T' /\ pf.obj \in DOMAIN objects
      BY <1>3, <3>1
    <3> HIDE DEF nf, pf, T
    <3>3. seg = <<nf, pf>>
      BY DEF nf, pf
    <3> QED
      BY <3>2, <3>3
  <2> HIDE DEF seg
  <2> DEFINE pt == Redirected(seg, o1, o2, dls)
  <2>2. pt \in Seq(T') /\ \A i \in DOMAIN pt : pt[i].obj \in Left
    BY <1>9, <2>1
  <2>3. objects'[dls] = [NewObject("Heap") EXCEPT !.pt = pt]
    BY <1>4
  <2> HIDE DEF pt
  <2>4. objects'[dls] = [hv |-> <<>>, pt |-> pt, space |-> "Heap"]
    BY <2>3 DEF NewObject
  <2> QED
    BY <2>2, <2>4 DEF Regions, Spaces
<1>13. ASSUME NEW o \in Left, o # dls
       PROVE  /\ objects'[o] \in Regions' /\ objects'[o].pt = Redirected(objects[o].pt, o1, o2, dls)
              /\ \A i \in DOMAIN objects'[o].pt : objects'[o].pt[i].obj \in Left
  <2> DEFINE pt == Redirected(objects[o].pt, o1, o2, dls)
  <2>1. /\ o \in DOMAIN objects /\ objects[o].pt \in Seq(T') /\ objects[o] \in Regions'
        /\ \A i \in DOMAIN objects[o].pt : objects[o].pt[i].obj \in DOMAIN objects
    BY <1>1, <1>5, <1>10, <1>11, <1>13
  <2>2. pt \in Seq(T') /\ \A i \in DOMAIN pt : pt[i].obj \in Left
    BY <1>9, <2>1
  <2>3. objects'[o] = [objects[o] EXCEPT !.pt = pt]
    BY <1>4, <1>13
  <2> HIDE DEF pt
  <2>4. objects'[o].pt = pt /\ objects'[o] \in Regions'
    BY <2>1, <2>2, <2>3 DEF Regions
  <2> QED
    BY <2>2, <2>4 DEF pt
<1>14. TypeOK'
  <2>1. objects' \in [DOMAIN objects' -> Regions']
    BY <1>4, <1>6, <1>12, <1>13
  <2>2. /\ {Zero, 1} \subseteq DOMAIN consts /\ DOMAIN consts \subseteq Issued
        /\ consts \in [DOMAIN consts -> Int]
        /\ heldPtrs \subseteq Issued /\ heldInts \subseteq Issued /\ status \in Statuses
    BY DEF AbstractionInv, GraphInv, TypeOK
  <2>3. nextVal' \in Nat /\ nextObj' \in Nat \ {0}
    BY <1>1, <1>4
  <2> QED
    BY <1>4, <1>5, <1>6, <1>8, <2>1, <2>2, <2>3 DEF TypeOK
<1>15. NoDanglingTarget'
  BY <1>6, <1>8, <1>12, <1>13 DEF NoDanglingTarget
<1>16. SpecialsEmpty'
  <2>1. \A o \in SpecialObjs : objects'[o].pt = Redirected(<<>>, o1, o2, dls)
    BY <1>1, <1>6, <1>13
  <2>2. Redirected(<<>>, o1, o2, dls) = <<>>
    BY DEF Redirected, Redirect
  <2> QED
    BY <2>1, <2>2 DEF SpecialsEmpty
<1> QED
  BY <1>14, <1>15, <1>16 DEF AbstractionInv, GraphInv

-----------------------------------------------------------------------------

LEMMA ANextInv == AbstractionInv /\ [ANext]_<<vars, segments>> => AbstractionInv'
<1> SUFFICES ASSUME AbstractionInv, [ANext]_<<vars, segments>> PROVE AbstractionInv'
  OBVIOUS
<1>1. CASE UNCHANGED <<vars, segments>>
  BY <1>1, NextInv DEF vars, graphVars, AbstractionInv, SpecialsEmpty
<1>2. CASE Instruction
  BY <1>2, NextInv, NextSpecials DEF Instruction, AbstractionInv
<1>3. CASE LookForCandidates
  BY <1>3, LookForCandidatesInv
<1> QED
  BY <1>1, <1>2, <1>3 DEF ANext

\* However often, and at whatever moments, two regions are replaced by a list
\* segment (Abstraction.hpp), every edge of the handles and of the remaining
\* objects leads to an object that exists, as objects.at in the wrappers and
\* in the plot needs.
THEOREM AbstractionNoDangling == ASpec => []NoDanglingTarget
<1>1. AInit => AbstractionInv
  BY InitInv DEF AInit, AbstractionInv, SpecialsEmpty, Init, NewObject
<1>2. AbstractionInv => NoDanglingTarget
  BY DEF AbstractionInv, GraphInv
<1> QED
  BY <1>1, <1>2, ANextInv, PTL DEF ASpec

-----------------------------------------------------------------------------
(* What pointers denote survives the search.                               *)

AbsAgreeInv == AbstractionInv /\ StoredEdgesAgree

\* A set of edges that holds those of the handles and those of the objects.
AnyEdges == [off : Int, value : Int, obj : Int, toff : Int]

LEMMA AnyEdgesType ==
    ASSUME AbstractionInv
    PROVE  /\ handles \in Seq(AnyEdges)
           /\ \A o \in DOMAIN objects : objects[o].pt \in Seq(AnyEdges)
<1>1. /\ handles \in Seq(PtEdges({Zero}))
      /\ \A o \in DOMAIN objects : objects[o].pt \in Seq(PtEdges(Issued \cup {Hidden}))
  BY DEF AbstractionInv, GraphInv, TypeOK, Regions
<1>2. Issued \subseteq Int /\ ObjectIds \subseteq Int /\ Hidden \in Int /\ Zero \in Int
  BY DEF AbstractionInv, GraphInv, TypeOK, Issued, ObjectIds, SpecialObjs, NullObj,
         UnknownObj, FreedObj, Hidden, Zero
<1>3. /\ PtEdges({Zero}) \subseteq AnyEdges
      /\ PtEdges(Issued \cup {Hidden}) \subseteq AnyEdges
  BY <1>2 DEF PtEdges, AnyEdges
<1> QED
  BY <1>1, <1>3, SeqMonotonic

\* When two objects are replaced by dls, an edge keeps its offsets and its
\* value, and a search finds the edge it found.
LEMMA RedirectedEdges ==
    ASSUME NEW edges \in Seq(AnyEdges), NEW o1, NEW o2, NEW dls \in Int
    PROVE  LET more == Redirected(edges, o1, o2, dls)
               Moved(e, r) == /\ r.off = e.off /\ r.value = e.value /\ r.toff = e.toff
                              /\ r.obj = IF e.obj \in {o1, o2} THEN dls ELSE e.obj
           IN  /\ DOMAIN more = DOMAIN edges
               /\ \A i \in DOMAIN edges : Moved(edges[i], more[i])
               /\ \A v : HasValue(edges, v) =>
                     /\ HasValue(more, v)
                     /\ Moved(FindByValue(edges, v), FindByValue(more, v))
<1> DEFINE once == Redirect(edges, o1, dls)
           more == Redirected(edges, o1, o2, dls)
           Changed(e, o) == IF e.obj = o THEN Retarget(e, dls) ELSE e
<1>1. \A e \in AnyEdges :
         /\ Retarget(e, dls) \in AnyEdges /\ Retarget(e, dls).obj = dls
         /\ Retarget(e, dls).value = e.value /\ Retarget(e, dls).toff = e.toff
         /\ Retarget(e, dls).off = e.off
  BY DEF AnyEdges, Retarget
<1>2. /\ once \in Seq(AnyEdges) /\ DOMAIN once = DOMAIN edges
      /\ \A i \in DOMAIN edges : once[i] = Changed(edges[i], o1)
  BY <1>1, RedirectProperties
<1>3. more = Redirect(once, o2, dls)
  BY DEF Redirected
<1>4. \A v : HasValue(edges, v) =>
         HasValue(once, v) /\ FindByValue(once, v) = Changed(FindByValue(edges, v), o1)
  BY <1>1, FindAfterRedirect
<1> HIDE DEF once, more
<1>5. /\ DOMAIN more = DOMAIN once
      /\ \A i \in DOMAIN once : more[i] = Changed(once[i], o2)
  BY <1>1, <1>2, <1>3, RedirectProperties
<1>6. \A v : HasValue(once, v) =>
         HasValue(more, v) /\ FindByValue(more, v) = Changed(FindByValue(once, v), o2)
  BY <1>1, <1>2, <1>3, FindAfterRedirect
<1>7. \A e \in AnyEdges :
         LET r == Changed(Changed(e, o1), o2)
         IN  /\ r.off = e.off /\ r.value = e.value /\ r.toff = e.toff
             /\ r.obj = IF e.obj \in {o1, o2} THEN dls ELSE e.obj
  BY <1>1
<1>8. \A i \in DOMAIN edges :
         edges[i] \in AnyEdges /\ more[i] = Changed(Changed(edges[i], o1), o2)
  BY <1>2, <1>5
<1>9. \A v : HasValue(edges, v) =>
         /\ HasValue(more, v) /\ FindByValue(edges, v) \in AnyEdges
         /\ FindByValue(more, v) = Changed(Changed(FindByValue(edges, v), o1), o2)
  BY <1>4, <1>6, FindByValueType
<1> HIDE DEF Changed
<1> QED
  BY <1>2, <1>5, <1>7, <1>8, <1>9 DEF more

\* The search redirects the handles and what is kept in memory alike, and
\* makes the fields of the segment from edges kept in memory.
LEMMA LookForCandidatesAgree ==
    ASSUME AbsAgreeInv, LookForCandidates
    PROVE  StoredEdgesAgree'
<1> DEFINE o1  == First(Candidates)
           o2  == LinkedTo(o1).second
           nfo == LinkedTo(o1).nfo
           pfo == LinkedTo(o1).pfo
           dls == nextObj
           seg == << FindByOffset(objects[o2].pt, nfo), FindByOffset(objects[o1].pt, pfo) >>
           Left == (DOMAIN objects \ {o1, o2}) \cup {dls}
<1>0. AbstractionInv /\ StoredEdgesAgree /\ nextObj \in Int
  BY DEF AbsAgreeInv, AbstractionInv, GraphInv, TypeOK
<1>1. /\ handles \in Seq(AnyEdges)
      /\ \A o \in DOMAIN objects :
            objects[o].pt \in Seq(AnyEdges) /\ objects[o] \in Regions
  BY <1>0, AnyEdgesType DEF AbstractionInv, GraphInv, TypeOK
<1>2. o1 \in DOMAIN objects /\ IsCandidateObject(o1)
  BY <1>0, FirstCandidate
<1>3. /\ o1 \in DOMAIN objects /\ o2 \in DOMAIN objects
      /\ HasOffset(objects[o2].pt, nfo) /\ HasOffset(objects[o1].pt, pfo)
  BY <1>0, <1>2, LinkedToType
<1>4. /\ handles' = Redirected(handles, o1, o2, dls)
      /\ objects' = [o \in Left |->
            IF o = dls THEN [NewObject("Heap") EXCEPT !.pt = Redirected(seg, o1, o2, dls)]
            ELSE [objects[o] EXCEPT !.pt = Redirected(@, o1, o2, dls)]]
  BY DEF LookForCandidates, JoinTwoRegions, HandlesJoined, Segment
<1> HIDE DEF o1, o2, nfo, pfo, dls
<1>5. dls \in Int
  BY <1>0 DEF dls
\* The edges of every object are redirected from a vector that was agreed.
<1>6. ASSUME NEW pt \in Seq(AnyEdges), \A i \in DOMAIN pt : Backed(pt[i], handles)
      PROVE  \A i \in DOMAIN Redirected(pt, o1, o2, dls) :
                Backed(Redirected(pt, o1, o2, dls)[i], handles')
  BY <1>1, <1>4, <1>5, <1>6, RedirectedEdges DEF Backed
<1>7. seg \in Seq(AnyEdges) /\ \A i \in DOMAIN seg : Backed(seg[i], handles)
  <2> DEFINE nf == FindByOffset(objects[o2].pt, nfo)
             pf == FindByOffset(objects[o1].pt, pfo)
  <2>1. ASSUME NEW o \in DOMAIN objects, NEW off, HasOffset(objects[o].pt, off)
        PROVE  /\ FindByOffset(objects[o].pt, off) \in AnyEdges
               /\ Backed(FindByOffset(objects[o].pt, off), handles)
    <3>1. /\ First(AtOffset(objects[o].pt, off)) \in DOMAIN objects[o].pt
          /\ FindByOffset(objects[o].pt, off) \in AnyEdges
      BY <1>1, <2>1, FindByOffsetType
    <3> QED
      BY <1>0, <3>1, StoredBacked DEF FindByOffset
  <2>2. /\ nf \in AnyEdges /\ Backed(nf, handles)
        /\ pf \in AnyEdges /\ Backed(pf, handles)
    BY <1>3, <2>1
  <2> HIDE DEF nf, pf
  <2>3. seg = <<nf, pf>>
    BY DEF nf, pf
  <2> QED
    BY <2>2, <2>3
<1> HIDE DEF seg
<1>8. ASSUME NEW o \in DOMAIN objects'
      PROVE  \E pt \in Seq(AnyEdges) :
                /\ \A i \in DOMAIN pt : Backed(pt[i], handles)
                /\ objects'[o].pt = Redirected(pt, o1, o2, dls)
  <2>1. CASE o = dls
    <3> DEFINE pt == Redirected(seg, o1, o2, dls)
    <3>1. objects'[o] = [NewObject("Heap") EXCEPT !.pt = pt]
      BY <1>4, <2>1
    <3> HIDE DEF pt
    <3>2. objects'[o].pt = pt
      BY <3>1 DEF NewObject
    <3> QED
      BY <1>7, <3>2 DEF pt
  <2>2. CASE o # dls
    <3> DEFINE pt == Redirected(objects[o].pt, o1, o2, dls)
    <3>1. o \in DOMAIN objects /\ objects'[o] = [objects[o] EXCEPT !.pt = pt]
      BY <1>4, <2>2
    <3> HIDE DEF pt
    <3>2. objects'[o].pt = pt /\ objects[o].pt \in Seq(AnyEdges)
      BY <1>1, <3>1 DEF Regions
    <3>3. \A i \in DOMAIN objects[o].pt : Backed(objects[o].pt[i], handles)
      BY <1>0, <3>1, StoredBacked
    <3> QED
      BY <3>2, <3>3 DEF pt
  <2> QED
    BY <2>1, <2>2
<1>9. \A o \in DOMAIN objects' : \A i \in DOMAIN objects'[o].pt :
         Backed(objects'[o].pt[i], handles')
  BY <1>6, <1>8
<1> QED
  BY <1>9 DEF StoredEdgesAgree, Backed

\* Joining regions into segments, at any moment, leaves no pointer in memory
\* that says of its target anything but what the handles say.
THEOREM AbstractionStoredEdges == ASpec => []StoredEdgesAgree
<1>1. AInit => AbsAgreeInv
  <2>1. AInit => AbstractionInv
    BY InitInv DEF AInit, AbstractionInv, SpecialsEmpty, Init, NewObject
  <2>2. AInit => StoredEdgesAgree
    BY InitAgree DEF AInit, AgreeInv
  <2> QED
    BY <2>1, <2>2 DEF AbsAgreeInv
<1>2. AbsAgreeInv /\ [ANext]_<<vars, segments>> => AbsAgreeInv'
  <2> SUFFICES ASSUME AbsAgreeInv, [ANext]_<<vars, segments>> PROVE StoredEdgesAgree'
    BY ANextInv DEF AbsAgreeInv
  <2>1. GraphInv /\ StoredEdgesAgree
    BY DEF AbsAgreeInv, AbstractionInv
  <2>2. CASE UNCHANGED <<vars, segments>>
    BY <2>1, <2>2, NextStoredAgree DEF vars
  <2>3. CASE Instruction
    BY <2>1, <2>3, NextStoredAgree DEF Instruction
  <2>4. CASE LookForCandidates
    BY <2>4, LookForCandidatesAgree
  <2> QED
    BY <2>2, <2>3, <2>4 DEF ANext
<1>3. AbsAgreeInv => StoredEdgesAgree
  BY DEF AbsAgreeInv
<1> QED
  BY <1>1, <1>2, <1>3, PTL DEF ASpec

-----------------------------------------------------------------------------
(* What a segment replaces.                                                *)

\* Without stale edges an edge is what a search by its offset finds.
LEMMA LinkFound ==
    ASSUME NEW o, ~HasStaleEdge(o), NEW off, NEW o2, NEW toff, HasLink(o, off, o2, toff)
    PROVE  LeadsTo(objects, o, off, o2, toff)
<1> DEFINE pt == objects[o].pt
<1>1. PICK i \in DOMAIN pt : pt[i].off = off /\ pt[i].obj = o2 /\ pt[i].toff = toff
  BY DEF HasLink
<1>2. i = First(AtOffset(pt, off)) /\ i \in AtOffset(pt, off)
  BY <1>1 DEF HasStaleEdge, AtOffset
<1> QED
  BY <1>1, <1>2 DEF LeadsTo, HasOffset, FindByOffset

\* The edges a segment is made of are where a search finds them, the second if
\* it is not at the offset of the first.
LEMMA PairFound ==
    ASSUME NEW pt, DOMAIN pt = 1 .. 2
    PROVE  /\ HasOffset(pt, pt[1].off) /\ FindByOffset(pt, pt[1].off) = pt[1]
           /\ pt[2].off # pt[1].off =>
                 HasOffset(pt, pt[2].off) /\ FindByOffset(pt, pt[2].off) = pt[2]
<1>1. 1 \in DOMAIN pt /\ 2 \in DOMAIN pt /\ \A i \in DOMAIN pt : i = 1 \/ i = 2
  OBVIOUS
<1>2. 1 \in AtOffset(pt, pt[1].off) /\ \A j \in AtOffset(pt, pt[1].off) : 1 <= j
  BY <1>1 DEF AtOffset
<1>3. First(AtOffset(pt, pt[1].off)) = 1
  <2>1. AtOffset(pt, pt[1].off) \in SUBSET Nat
    BY DEF AtOffset
  <2> QED
    BY <1>2, <2>1, FirstUnique
<1>4. ASSUME pt[2].off # pt[1].off
      PROVE  2 \in AtOffset(pt, pt[2].off) /\ First(AtOffset(pt, pt[2].off)) = 2
  <2>1. 2 \in AtOffset(pt, pt[2].off) /\ \A j \in AtOffset(pt, pt[2].off) : 2 <= j
    BY <1>1, <1>4 DEF AtOffset
  <2>2. AtOffset(pt, pt[2].off) \in SUBSET Nat
    BY DEF AtOffset
  <2> QED
    BY <2>1, <2>2, FirstUnique
<1> QED
  BY <1>2, <1>3, <1>4 DEF HasOffset, FindByOffset

LEMMA LookForCandidatesReplaces ==
    ASSUME AbstractionInv, LookForCandidates, NEW d \in DOMAIN segments' \ DOMAIN segments
    PROVE  LET s == segments'[d]
           IN  \E o1, o2 \in DOMAIN objects \ DOMAIN objects' :
                 /\ DOMAIN objects \ DOMAIN objects' = {o1, o2}
                 /\ \/ HasStaleEdge(o1) \/ HasStaleEdge(o2)
                    \/ /\ LeadsTo(objects, o1, s.nfo, o2, s.hfo)
                       /\ LeadsTo(objects, o2, s.pfo, o1, s.hfo)
                       /\ TakesOver(d, o2, s.nfo, {o1, o2})
                       /\ s.pfo # s.nfo => TakesOver(d, o1, s.pfo, {o1, o2})
<1> DEFINE o1   == First(Candidates)
           link == LinkedTo(o1)
           o2   == link.second
           dls  == nextObj
           nf   == FindByOffset(objects[o2].pt, link.nfo)
           pf   == FindByOffset(objects[o1].pt, link.pfo)
           seg  == <<nf, pf>>
           pt   == Redirected(seg, o1, o2, dls)
<1>1. /\ o1 \in DOMAIN objects \ SpecialObjs /\ o2 \in DOMAIN objects \ SpecialObjs
      /\ HasOffset(objects[o2].pt, link.nfo) /\ HasOffset(objects[o1].pt, link.pfo)
      /\ HasLink(o1, link.nfo, o2, link.hfo) /\ HasLink(o2, link.pfo, o1, link.hfo)
  BY FirstCandidate, LinkedToType
<1>2. dls \in Int /\ dls \notin DOMAIN objects
  <2>1. nextObj \in Nat \ {0} /\ DOMAIN objects \subseteq SpecialObjs \cup 1 .. nextObj - 1
    BY DEF AbstractionInv, GraphInv, TypeOK, ObjectIds
  <2> QED
    BY <2>1 DEF SpecialObjs, NullObj, UnknownObj, FreedObj
<1>3. /\ DOMAIN objects' = (DOMAIN objects \ {o1, o2}) \cup {dls}
      /\ objects'[dls] = [NewObject("Heap") EXCEPT !.pt = pt]
      /\ segments' = [x \in (DOMAIN segments \ {o1, o2}) \cup {dls} |->
            IF x # dls THEN segments[x]
            ELSE [hfo |-> link.hfo, nfo |-> link.nfo, pfo |-> link.pfo, minLength |-> 2]]
  BY DEF LookForCandidates, JoinTwoRegions, Segment
<1>4. d = dls /\ segments'[d].hfo = link.hfo /\ segments'[d].nfo = link.nfo
      /\ segments'[d].pfo = link.pfo
  BY <1>3
\* An edge that was found has its types, and its target exists.
<1>5. ASSUME NEW o \in DOMAIN objects, NEW off, HasOffset(objects[o].pt, off)
      PROVE  LET e == FindByOffset(objects[o].pt, off)
             IN  e \in AnyEdges /\ e.off = off /\ e.obj \in DOMAIN objects /\ e.toff \in Issued
  <2> DEFINE T == PtEdges(Issued \cup {Hidden})
  <2>1. objects[o].pt \in Seq(T) /\ objects[o].pt \in Seq(AnyEdges)
    BY AnyEdgesType DEF AbstractionInv, GraphInv, TypeOK, Regions
  <2>2. First(AtOffset(objects[o].pt, off)) \in DOMAIN objects[o].pt
    BY <1>5, <2>1, FindByOffsetType
  <2>3. /\ FindByOffset(objects[o].pt, off) \in AnyEdges
        /\ FindByOffset(objects[o].pt, off).off = off
    BY <1>5, <2>1, FindByOffsetType
  <2>4. FindByOffset(objects[o].pt, off) \in T
    <3> HIDE DEF T
    <3> QED
      BY <1>5, <2>1, FindByOffsetType
  <2>5. FindByOffset(objects[o].pt, off).obj \in DOMAIN objects
    BY <2>2 DEF FindByOffset, AbstractionInv, GraphInv, NoDanglingTarget
  <2> QED
    BY <2>3, <2>4, <2>5 DEF PtEdges
<1>6. /\ nf \in AnyEdges /\ nf.off = link.nfo /\ nf.obj \in DOMAIN objects /\ nf.toff \in Issued
      /\ pf \in AnyEdges /\ pf.off = link.pfo /\ pf.obj \in DOMAIN objects /\ pf.toff \in Issued
  BY <1>1, <1>5
<1> HIDE DEF o1, link, dls, nf, pf
<1>7. seg \in Seq(AnyEdges) /\ DOMAIN seg = 1 .. 2 /\ seg[1] = nf /\ seg[2] = pf
  BY <1>6
<1> HIDE DEF seg
<1>8. /\ DOMAIN pt = 1 .. 2
      /\ pt[1].off = link.nfo /\ pt[1].toff = nf.toff
      /\ pt[1].obj = IF nf.obj \in {o1, o2} THEN dls ELSE nf.obj
      /\ pt[2].off = link.pfo /\ pt[2].toff = pf.toff
      /\ pt[2].obj = IF pf.obj \in {o1, o2} THEN dls ELSE pf.obj
  <2>1. 1 \in DOMAIN seg /\ 2 \in DOMAIN seg
    BY <1>7
  <2> QED
    BY <1>2, <1>6, <1>7, <2>1, RedirectedEdges
<1> HIDE DEF pt
<1>9. objects'[dls].pt = pt
  BY <1>3 DEF NewObject
<1>10. TakesOver(dls, o2, link.nfo, {o1, o2})
  <2>1. LeadsTo(objects, o2, link.nfo, nf.obj, nf.toff)
    BY <1>1 DEF LeadsTo, nf
  <2>2. LeadsTo(objects', dls, link.nfo, IF nf.obj \in {o1, o2} THEN dls ELSE nf.obj, nf.toff)
    BY <1>8, <1>9, PairFound DEF LeadsTo
  <2> QED
    BY <1>6, <2>1, <2>2 DEF TakesOver
<1>11. ASSUME link.pfo # link.nfo PROVE TakesOver(dls, o1, link.pfo, {o1, o2})
  <2>1. LeadsTo(objects, o1, link.pfo, pf.obj, pf.toff)
    BY <1>1 DEF LeadsTo, pf
  <2>2. LeadsTo(objects', dls, link.pfo, IF pf.obj \in {o1, o2} THEN dls ELSE pf.obj, pf.toff)
    BY <1>8, <1>9, <1>11, PairFound DEF LeadsTo
  <2> QED
    BY <1>6, <2>1, <2>2 DEF TakesOver
<1>12. DOMAIN objects \ DOMAIN objects' = {o1, o2}
  BY <1>1, <1>2, <1>3
<1>13. \/ HasStaleEdge(o1) \/ HasStaleEdge(o2)
       \/ /\ LeadsTo(objects, o1, link.nfo, o2, link.hfo)
          /\ LeadsTo(objects, o2, link.pfo, o1, link.hfo)
  BY <1>1, LinkFound
<1> QED
  BY <1>4, <1>10, <1>11, <1>12, <1>13

\* In any graph and however often, the search replaces two nodes only if each
\* leads to the other, head to head, and the segment leads on to where they
\* led, unless an edge that no lookup finds any more misled it.
THEOREM AbstractionReplacesLists == ASpec => SegmentsReplaceLists
<1> DEFINE Replaces ==
              \A dls \in DOMAIN segments' \ DOMAIN segments :
                 LET s == segments'[dls]
                 IN  \E o1, o2 \in DOMAIN objects \ DOMAIN objects' :
                       /\ DOMAIN objects \ DOMAIN objects' = {o1, o2}
                       /\ \/ HasStaleEdge(o1) \/ HasStaleEdge(o2)
                          \/ /\ LeadsTo(objects, o1, s.nfo, o2, s.hfo)
                             /\ LeadsTo(objects, o2, s.pfo, o1, s.hfo)
                             /\ TakesOver(dls, o2, s.nfo, {o1, o2})
                             /\ s.pfo # s.nfo => TakesOver(dls, o1, s.pfo, {o1, o2})
<1>1. AInit => AbstractionInv
  BY InitInv DEF AInit, AbstractionInv, SpecialsEmpty, Init, NewObject
<1>2. AbstractionInv /\ [ANext]_<<vars, segments>> => [Replaces]_<<vars, segments>>
  <2> SUFFICES ASSUME AbstractionInv, ANext PROVE Replaces
    OBVIOUS
  <2>1. CASE Instruction
    <3>1. DOMAIN segments' \subseteq DOMAIN segments
      BY <2>1 DEF Instruction
    <3> QED
      BY <3>1
  <2>2. CASE LookForCandidates
    BY <2>2, LookForCandidatesReplaces
  <2> QED
    BY <2>1, <2>2 DEF ANext
<1>3. SegmentsReplaceLists <=> [][Replaces]_<<vars, segments>>
  BY DEF SegmentsReplaceLists
<1> HIDE DEF Replaces
<1> QED
  BY <1>1, <1>2, <1>3, ANextInv, PTL DEF ASpec

-----------------------------------------------------------------------------
(* Handles are never given up.                                             *)

\* What can be reached, as the properties of the crawler have it, and every
\* object but two of the special ones is what some handle leads to.
Handled == DOMAIN objects \ {UnknownObj, FreedObj} \subseteq Targets(handles)

\* The objects that edges lead to, when the vector of edges is changed.
LEMMA TargetsAppend ==
    ASSUME NEW T, NEW edges \in Seq(T), NEW e
    PROVE  Targets(Append(edges, e)) = Targets(edges) \cup {e.obj}
<1> DEFINE more == Append(edges, e)
           n == Len(edges)
<1>1. n \in Nat /\ DOMAIN edges = 1 .. n /\ DOMAIN more = 1 .. n + 1
  OBVIOUS
<1>2. (\A i \in 1 .. n : more[i] = edges[i]) /\ more[n + 1] = e
  OBVIOUS
<1>3. 1 .. n + 1 = (1 .. n) \cup {n + 1}
  BY <1>1
<1> HIDE DEF more, n
<1> QED
  BY <1>1, <1>2, <1>3 DEF Targets, more

LEMMA TargetsConcat ==
    ASSUME NEW p, NEW q, NEW r, JoinPlaces(r, p, q)
    PROVE  Targets(r) = Targets(p) \cup Targets(q)
<1>1. ASSUME NEW o \in Targets(r) PROVE o \in Targets(p) \cup Targets(q)
  <2>1. PICK k \in DOMAIN r : o = r[k].obj
    BY DEF Targets
  <2>2. k \in DOMAIN p \/ \E i \in DOMAIN q : k = Len(p) + i
    BY <2>1 DEF JoinPlaces
  <2>3. (k \in DOMAIN p /\ r[k] = p[k]) \/ \E i \in DOMAIN q : r[k] = q[i]
    BY <2>2 DEF JoinPlaces
  <2> QED
    BY <2>1, <2>3 DEF Targets
<1>2. ASSUME NEW o \in Targets(p) PROVE o \in Targets(r)
  <2>1. PICK i \in DOMAIN p : o = p[i].obj
    BY DEF Targets
  <2>2. i \in DOMAIN r /\ r[i] = p[i]
    BY DEF JoinPlaces
  <2> QED
    BY <2>1, <2>2 DEF Targets
<1>3. ASSUME NEW o \in Targets(q) PROVE o \in Targets(r)
  <2>1. PICK i \in DOMAIN q : o = q[i].obj
    BY DEF Targets
  <2>2. Len(p) + i \in DOMAIN r /\ r[Len(p) + i] = q[i]
    BY DEF JoinPlaces
  <2> QED
    BY <2>1, <2>2 DEF Targets
<1> QED
  BY <1>1, <1>2, <1>3

LEMMA TargetsHead ==
    ASSUME NEW T, NEW edges \in Seq(T), edges # <<>>
    PROVE  Targets(edges) = {Head(edges).obj} \cup Targets(Tail(edges))
<1> PICK rest : rest = Tail(edges)
  OBVIOUS
<1> PICK n : n = Len(edges)
  OBVIOUS
<1>1. /\ n \in Nat /\ n # 0 /\ DOMAIN edges = 1 .. n
      /\ DOMAIN rest = 1 .. n - 1 /\ Head(edges) = edges[1]
      /\ \A i \in 1 .. n - 1 : rest[i] = edges[i + 1]
  OBVIOUS
<1>2. ASSUME NEW o \in Targets(edges) PROVE o = edges[1].obj \/ o \in Targets(rest)
  <2>1. PICK i \in 1 .. n : o = edges[i].obj
    BY <1>1 DEF Targets
  <2>2. CASE i # 1
    <3>1. i - 1 \in 1 .. n - 1 /\ (i - 1) + 1 = i
      BY <1>1, <2>2
    <3>2. rest[i - 1] = edges[i]
      BY <1>1, <3>1
    <3> QED
      BY <1>1, <2>1, <3>1, <3>2 DEF Targets
  <2> QED
    BY <2>1, <2>2
<1>3. ASSUME NEW o \in Targets(rest) PROVE o \in Targets(edges)
  <2>1. PICK i \in 1 .. n - 1 : o = rest[i].obj
    BY <1>1 DEF Targets
  <2>2. i + 1 \in 1 .. n
    BY <1>1
  <2>3. rest[i] = edges[i + 1]
    BY <1>1
  <2> QED
    BY <1>1, <2>1, <2>2, <2>3 DEF Targets
<1>4. edges[1].obj \in Targets(edges)
  BY <1>1 DEF Targets
<1> QED
  BY <1>1, <1>2, <1>3, <1>4

LEMMA TargetsRedirect ==
    ASSUME NEW edges \in Seq(AnyEdges), NEW from, NEW to \in Int
    PROVE  /\ Targets(edges) \ {from} \subseteq Targets(Redirect(edges, from, to))
           /\ from \in Targets(edges) => to \in Targets(Redirect(edges, from, to))
<1> DEFINE new == Redirect(edges, from, to)
<1>1. \A e \in AnyEdges : Retarget(e, to) \in AnyEdges /\ Retarget(e, to).obj = to
  BY DEF AnyEdges, Retarget
<1>2. /\ DOMAIN new = DOMAIN edges
      /\ \A i \in DOMAIN edges :
            /\ edges[i] \in AnyEdges
            /\ new[i] = IF edges[i].obj = from THEN Retarget(edges[i], to) ELSE edges[i]
  BY <1>1, RedirectProperties
<1>3. \A i \in DOMAIN edges : new[i].obj = IF edges[i].obj = from THEN to ELSE edges[i].obj
  BY <1>1, <1>2
<1> HIDE DEF new
<1> QED
  BY <1>2, <1>3 DEF Targets, new

\* A pointer derived from another keeps the handles that are there.
LEMMA DeriveHandled ==
    ASSUME GraphInv, NEW base \in Issued, NEW off, NEW next,
           CreateDerivedPointer(base, off, consts, next)
    PROVE  Targets(handles) \subseteq Targets(handles')
<1> DEFINE hs == HandlesAfterFind(base)
<1>1. hs \in Seq(PtEdges({Zero})) /\ handles \in Seq(PtEdges({Zero}))
  BY FindPtEdgeType DEF GraphInv, TypeOK
<1>2. Targets(handles) \subseteq Targets(hs)
  BY <1>1, TargetsAppend DEF HandlesAfterFind
<1>3. handles' = Append(hs, DerivedEdge(base, off, consts, next))
  BY DEF CreateDerivedPointer
<1> HIDE DEF hs
<1> QED
  BY <1>1, <1>2, <1>3, TargetsAppend

LEMMA NextHandled ==
    ASSUME AbstractionInv, Handled, Next
    PROVE  Handled'
<1>1. ASSUME Targets(handles) \subseteq Targets(handles'), DOMAIN objects' = DOMAIN objects
      PROVE  Handled'
  BY <1>1 DEF Handled
<1>2. /\ GraphInv /\ heldPtrs \subseteq Issued /\ handles \in Seq(PtEdges({Zero}))
      /\ SpecialObjs \subseteq DOMAIN objects
  BY DEF AbstractionInv, GraphInv, TypeOK
<1>3. \A p, object : UpdateObject(p, object) => DOMAIN objects' = DOMAIN objects
  BY DEF UpdateObject
<1>4. CASE Alloca \/ Malloc
  <2>1. /\ handles' = Append(handles, PtEdge(Zero, nextVal, nextObj, Zero))
        /\ DOMAIN objects' = DOMAIN objects \cup {nextObj}
    BY <1>4 DEF Alloca, Malloc, AllocateRegion
  <2>2. PtEdge(Zero, nextVal, nextObj, Zero).obj = nextObj
    BY DEF PtEdge
  <2>3. Targets(handles') = Targets(handles) \cup {nextObj}
    BY <1>2, <2>1, <2>2, TargetsAppend
  <2> QED
    BY <2>1, <2>3 DEF Handled
<1>5. ASSUME NEW p \in heldPtrs,
             \/ AccessFault(p) \/ LoadInt(p) \/ \E v : StoreInt(p, v)
             \/ \E v : StorePtr(p, v) \/ \E q : CmpPtr(p, q)
             \/ FreeFault(p) \/ FreeNull(p)
      PROVE  Handled'
  <2>1. handles' = handles
    BY <1>5 DEF AccessFault, LoadInt, StoreInt, StorePtr, CmpPtr, FreeFault, FreeNull,
                Fail, vars, graphVars
  <2>2. DOMAIN objects' = DOMAIN objects
    BY <1>3, <1>5 DEF AccessFault, LoadInt, ReadPlain, StoreInt, StorePtr, CmpPtr, FreeFault,
                FreeNull, Fail, vars, graphVars
  <2> QED
    BY <1>1, <2>1, <2>2
<1>6. ASSUME NEW p \in heldPtrs, LoadPtr(p) PROVE Handled'
  <2>1. handles' = handles \/ \E e : handles' = Append(handles, e)
    BY <1>6 DEF LoadPtr
  <2>2. DOMAIN objects' = DOMAIN objects
    BY <1>3, <1>6 DEF LoadPtr, ReadPlain
  <2>3. Targets(handles) \subseteq Targets(handles')
    BY <1>2, <2>1, TargetsAppend
  <2> QED
    BY <1>1, <2>2, <2>3
<1>7. ASSUME NEW p \in heldPtrs,
             \/ \E off : Gep(p, off)
             \/ GepUnknown(p) \/ BitCast(p) \/ Memclear(p)
      PROVE  Handled'
  <2>1. \E off, next : CreateDerivedPointer(p, off, consts, next)
    BY <1>7 DEF Gep, GepUnknown, BitCast, Memclear
  <2>2. DOMAIN objects' = DOMAIN objects
    BY <1>3, <1>7 DEF Gep, GepUnknown, BitCast, Memclear
  <2> QED
    BY <1>1, <1>2, <2>1, <2>2, DeriveHandled
<1>8. ASSUME NEW p \in heldPtrs, FreeObject(p) PROVE Handled'
  <2>1. /\ handles' = Redirect(handles, Target(p), FreedObj)
        /\ DOMAIN objects' = DOMAIN objects \ {Target(p)}
    BY <1>8 DEF FreeObject
  <2>2. FreedObj \in Int
    BY DEF FreedObj
  <2>3. Targets(handles) \ {Target(p)} \subseteq Targets(handles')
    BY <2>1, <2>2, AnyEdgesType, TargetsRedirect
  <2> QED
    BY <2>1, <2>3 DEF Handled
<1> QED
  BY <1>4, <1>5, <1>6, <1>7, <1>8 DEF Next

\* The pointers to a pair of objects become pointers to their segment.
LEMMA LookForCandidatesHandled ==
    ASSUME AbstractionInv, Handled, LookForCandidates
    PROVE  Handled'
<1> DEFINE o1  == First(Candidates)
           o2  == LinkedTo(o1).second
           dls == nextObj
           once == Redirect(handles, o1, dls)
<1>1. /\ handles' = Redirect(once, o2, dls)
      /\ DOMAIN objects' = (DOMAIN objects \ {o1, o2}) \cup {dls}
  BY DEF LookForCandidates, JoinTwoRegions, HandlesJoined, Redirected
<1>2. o1 \in DOMAIN objects \ SpecialObjs /\ dls \in Int
  BY FirstCandidate, LinkedToType DEF AbstractionInv, GraphInv, TypeOK
<1>3. o1 \in Targets(handles)
  BY <1>2 DEF Handled, SpecialObjs
<1>4. /\ once \in Seq(AnyEdges)
      /\ Targets(handles) \ {o1} \subseteq Targets(once) /\ dls \in Targets(once)
  <2>1. \A e \in AnyEdges : Retarget(e, dls) \in AnyEdges
    BY <1>2 DEF AnyEdges, Retarget
  <2>2. handles \in Seq(AnyEdges)
    BY AnyEdgesType
  <2> HIDE DEF o1, dls
  <2> QED
    BY <1>2, <1>3, <2>1, <2>2, RedirectProperties, TargetsRedirect
<1> HIDE DEF o1, o2, dls, once
<1>5. /\ Targets(once) \ {o2} \subseteq Targets(handles')
      /\ o2 \in Targets(once) => dls \in Targets(handles')
  BY <1>1, <1>2, <1>4, TargetsRedirect
<1>6. dls \in Targets(handles')
  BY <1>4, <1>5
<1> QED
  BY <1>1, <1>4, <1>5, <1>6 DEF Handled

-----------------------------------------------------------------------------
(* The plot.                                                               *)

\* What was visited can be reached and was drawn, and whatever the handles
\* and the visited objects lead to was visited or is still to be.
Crawling ==
    /\ todo \in Seq(AnyEdges)
    /\ alreadyVisited \cup Targets(todo) \subseteq Reachable
    /\ picture = UNION {Drawing(o) : o \in alreadyVisited}
    /\ Targets(handles) \subseteq alreadyVisited \cup Targets(todo)
    /\ \A o \in alreadyVisited : Targets(objects[o].pt) \subseteq alreadyVisited \cup Targets(todo)

CrawlInv == AbstractionInv /\ Handled /\ (plotting => Crawling)

\* No edge leaves the set of the objects that exist.
LEMMA TargetsExist ==
    ASSUME AbstractionInv
    PROVE  /\ Targets(handles) \subseteq DOMAIN objects
           /\ \A o \in DOMAIN objects : Targets(objects[o].pt) \subseteq DOMAIN objects
BY DEF AbstractionInv, GraphInv, NoDanglingTarget, Targets

\* What the handles lead to can be reached, and so can what an object leads
\* to that can be reached itself; no smaller set of objects is like that.
LEMMA ReachableClosed ==
    ASSUME AbstractionInv
    PROVE  /\ Reachable \subseteq DOMAIN objects
           /\ Targets(handles) \subseteq Reachable
           /\ \A o \in Reachable : Targets(objects[o].pt) \subseteq Reachable
           /\ \A S \in SUBSET DOMAIN objects :
                 Targets(handles) \subseteq S /\ Closed(S) => Reachable \subseteq S
BY TargetsExist DEF Reachable, Closed

LEMMA VisitCrawling ==
    ASSUME AbstractionInv, Crawling, VisitPtEdge
    PROVE  Crawling'
<1> DEFINE o == Head(todo).obj
<1>1. /\ handles' = handles /\ objects' = objects /\ todo # <<>>
      /\ todo \in Seq(AnyEdges) /\ Tail(todo) \in Seq(AnyEdges)
  BY DEF VisitPtEdge, Crawling, vars, graphVars
<1>2. Targets(todo) = {o} \cup Targets(Tail(todo))
  BY <1>1, TargetsHead
<1>3. Reachable' = Reachable /\ \A x : Drawing(x)' = Drawing(x)
  BY <1>1 DEF Reachable, Closed, Targets, Drawing
<1>4. o \in Reachable /\ o \in DOMAIN objects /\ Targets(objects[o].pt) \subseteq Reachable
  BY <1>2, ReachableClosed DEF Crawling
<1>5. CASE o \in alreadyVisited
  <2>1. /\ todo' = Tail(todo) /\ alreadyVisited' = alreadyVisited /\ picture' = picture
    BY <1>5 DEF VisitPtEdge
  <2>2. alreadyVisited' \cup Targets(todo') = alreadyVisited \cup Targets(todo)
    BY <1>2, <1>5, <2>1
  <2> HIDE DEF o
  <2>3. todo' \in Seq(AnyEdges) /\ picture' = UNION {Drawing(x) : x \in alreadyVisited'}
    BY <1>1, <2>1 DEF Crawling
  <2>4. /\ alreadyVisited' \cup Targets(todo') \subseteq Reachable
        /\ Targets(handles) \subseteq alreadyVisited' \cup Targets(todo')
        /\ \A x \in alreadyVisited' :
              Targets(objects[x].pt) \subseteq alreadyVisited' \cup Targets(todo')
    BY <2>1, <2>2 DEF Crawling
  <2> QED
    BY <1>1, <1>3, <2>3, <2>4 DEF Crawling
<1>6. CASE o \notin alreadyVisited
  <2>1. /\ todo' = objects[o].pt \o Tail(todo)
        /\ alreadyVisited' = alreadyVisited \cup {o}
        /\ picture' = picture \cup Drawing(o)
    BY <1>6 DEF VisitPtEdge, VisitObject
  <2> HIDE DEF o
  <2>2. objects[o].pt \in Seq(AnyEdges)
    BY <1>4, AnyEdgesType
  <2>3. /\ todo' \in Seq(AnyEdges)
        /\ Targets(todo') = Targets(objects[o].pt) \cup Targets(Tail(todo))
    <3>1. PICK pt, rest, more : pt = objects[o].pt /\ rest = Tail(todo) /\ more = pt \o rest
      OBVIOUS
    <3>2. pt \in Seq(AnyEdges) /\ rest \in Seq(AnyEdges) /\ more = pt \o rest
      BY <1>1, <2>2, <3>1
    <3>3. more \in Seq(AnyEdges) /\ Targets(more) = Targets(pt) \cup Targets(rest)
      BY <3>2, ConcatPlaces, TargetsConcat
    <3> QED
      BY <2>1, <3>1, <3>3
  <2>4. alreadyVisited' \cup Targets(todo') =
           alreadyVisited \cup Targets(todo) \cup Targets(objects[o].pt)
    BY <1>2, <2>1, <2>3
  <2>5. picture' = UNION {Drawing(x) : x \in alreadyVisited'}
    BY <2>1 DEF Crawling
  <2>6. /\ alreadyVisited' \cup Targets(todo') \subseteq Reachable
        /\ Targets(handles) \subseteq alreadyVisited' \cup Targets(todo')
        /\ \A x \in alreadyVisited' :
              Targets(objects[x].pt) \subseteq alreadyVisited' \cup Targets(todo')
    BY <1>4, <2>1, <2>4 DEF Crawling
  <2> QED
    BY <1>1, <1>3, <2>3, <2>5, <2>6 DEF Crawling
<1> QED
  BY <1>5, <1>6

LEMMA CInitInv == CInit => CrawlInv
<1> SUFFICES ASSUME CInit PROVE CrawlInv
  OBVIOUS
<1>1. AbstractionInv
  BY InitInv DEF CInit, AInit, AbstractionInv, SpecialsEmpty, Init, NewObject
<1>2. handles = << PtEdge(Zero, Zero, NullObj, Zero) >> /\ DOMAIN objects = SpecialObjs
  BY DEF CInit, AInit, Init
<1>3. 1 \in DOMAIN handles /\ handles[1].obj = NullObj
  BY <1>2 DEF PtEdge
<1>4. NullObj \in Targets(handles)
  BY <1>3 DEF Targets
<1> QED
  BY <1>1, <1>2, <1>4 DEF CInit, CrawlInv, Handled, SpecialObjs

LEMMA CNextInv == CrawlInv /\ [CNext]_allVars => CrawlInv'
<1> SUFFICES ASSUME CrawlInv, [CNext]_allVars PROVE CrawlInv'
  OBVIOUS
<1>1. AbstractionInv /\ Handled
  BY DEF CrawlInv
<1>2. ASSUME UNCHANGED <<vars, segments>>
      PROVE  AbstractionInv' /\ Handled'
  <2>1. handles' = handles /\ objects' = objects
    BY <1>2 DEF vars, graphVars
  <2> QED
    BY <1>1, <1>2, <2>1, ANextInv DEF Handled, Targets
<1>3. CASE UNCHANGED allVars
  <2>1. /\ UNCHANGED <<vars, segments>> /\ handles' = handles /\ objects' = objects
        /\ UNCHANGED <<plotting, todo, alreadyVisited, picture>>
    BY <1>3 DEF allVars, crawlVars, vars, graphVars
  <2>2. Crawling' <=> Crawling
    BY <2>1 DEF Crawling, Reachable, Closed, Targets, Drawing
  <2> QED
    BY <1>2, <2>1, <2>2 DEF CrawlInv
<1>4. CASE ~plotting /\ ANext /\ UNCHANGED crawlVars
  <2>1. ~plotting'
    BY <1>4 DEF crawlVars
  <2>2. AbstractionInv'
    BY <1>1, <1>4, ANextInv
  <2>3. Handled'
    BY <1>1, <1>4, NextHandled, LookForCandidatesHandled DEF ANext, Instruction
  <2> QED
    BY <2>1, <2>2, <2>3 DEF CrawlInv
<1>5. CASE Plot
  <2>1. /\ UNCHANGED <<vars, segments>> /\ handles' = handles /\ objects' = objects
        /\ todo' = handles /\ alreadyVisited' = {} /\ picture' = {}
    BY <1>5 DEF Plot, vars, graphVars
  <2>2. Reachable' = Reachable
    BY <2>1 DEF Reachable, Closed, Targets
  <2>3. Targets(handles) \subseteq Reachable /\ handles \in Seq(AnyEdges)
    BY <1>1, ReachableClosed, AnyEdgesType
  <2>4. Crawling'
    BY <2>1, <2>2, <2>3 DEF Crawling
  <2> QED
    BY <1>2, <2>1, <2>4 DEF CrawlInv
<1>6. CASE VisitPtEdge
  <2>1. plotting /\ UNCHANGED <<vars, segments>>
    BY <1>6 DEF VisitPtEdge
  <2>2. Crawling'
    BY <1>6, <2>1, VisitCrawling DEF CrawlInv
  <2> QED
    BY <1>2, <2>1, <2>2 DEF CrawlInv
<1>7. CASE WritePlot
  BY <1>2, <1>7 DEF WritePlot, CrawlInv
<1> QED
  BY <1>3, <1>4, <1>5, <1>6, <1>7 DEF CNext

\* When nothing is left to visit, what was visited is closed under edges, so
\* that it is all that can be reached.
LEMMA CrawledAll ==
    ASSUME CrawlInv, plotting, todo = <<>>
    PROVE  alreadyVisited = Reachable /\ picture = UNION {Drawing(o) : o \in Reachable}
<1>1. AbstractionInv /\ Crawling /\ Targets(todo) = {}
  BY DEF CrawlInv, Targets
<1>2. /\ alreadyVisited \subseteq Reachable /\ Targets(handles) \subseteq alreadyVisited
      /\ Closed(alreadyVisited)
  BY <1>1 DEF Crawling, Closed
<1>3. Reachable \subseteq alreadyVisited
  BY <1>1, <1>2, ReachableClosed
<1>4. alreadyVisited = Reachable
  BY <1>2, <1>3
<1> QED
  BY <1>1, <1>4 DEF Crawling

\* A plot, of the graph of any program and after any searches for lists, has
\* a box for every object that was allocated and not freed, all the fields of
\* each and an arrow for each pointer, to a box that is there.
THEOREM PlotComplete == CSpec => []PlotShowsAll
<1>1. CrawlInv => PlotShowsAll
  <2> SUFFICES ASSUME CrawlInv, plotting, todo = <<>>
               PROVE  /\ picture = UNION {Drawing(o) : o \in Reachable}
                      /\ \A item \in picture :
                            item[1] = "arrow" => <<"box", item[3].obj>> \in picture
                      /\ \A o \in DOMAIN objects \ {UnknownObj, FreedObj} :
                            <<"box", o>> \in picture
    BY DEF PlotShowsAll
  <2>1. picture = UNION {Drawing(o) : o \in Reachable}
    BY CrawledAll
  <2>2. \A o \in Reachable : <<"box", o>> \in picture
    BY <2>1 DEF Drawing
  <2>3. AbstractionInv /\ Handled
    BY DEF CrawlInv
  <2>4. ASSUME NEW item \in picture, item[1] = "arrow"
        PROVE  <<"box", item[3].obj>> \in picture
    <3>1. PICK o \in Reachable : item \in Drawing(o)
      BY <2>1
    <3>2. PICK i \in DOMAIN objects[o].pt : item = <<"arrow", o, objects[o].pt[i]>>
      <4>1. \A x : item # <<"box", x>>
        BY <2>4
      <4>2. \A x, y : item # <<"field", x, y>>
        BY <2>4
      <4> QED
        BY <3>1, <4>1, <4>2 DEF Drawing
    <3>3. item[3].obj \in Targets(objects[o].pt)
      BY <3>2 DEF Targets
    <3>4. item[3].obj \in Reachable
      BY <2>3, <3>3, ReachableClosed
    <3> QED
      BY <2>2, <3>4
  <2>5. DOMAIN objects \ {UnknownObj, FreedObj} \subseteq Reachable
    BY <2>3, ReachableClosed DEF Handled
  <2> QED
    BY <2>1, <2>2, <2>4, <2>5
<1> QED
  BY <1>1, CInitInv, CNextInv, PTL DEF CSpec

\* The graph that is plotted between two instructions is no other for it, and
\* what holds without plots holds with them.
LEMMA PlotChangesNothing == CSpec => ASpec
<1>1. CInit => AInit
  BY DEF CInit
<1>2. [CNext]_allVars => [ANext]_<<vars, segments>>
  BY DEF CNext, Plot, VisitPtEdge, WritePlot, allVars
<1> QED
  BY <1>1, <1>2, PTL DEF CSpec, ASpec

\* Plots, searches for lists and instructions may follow each other in any
\* order: no edge is left to an erased object, handles and stored pointers
\* agree, and segments replace nothing but lists.
THEOREM PlottedGraphSound ==
    CSpec => []NoDanglingTarget /\ []StoredEdgesAgree /\ SegmentsReplaceLists
BY PlotChangesNothing, AbstractionNoDangling, AbstractionStoredEdges, AbstractionReplacesLists, PTL
=============================================================================
