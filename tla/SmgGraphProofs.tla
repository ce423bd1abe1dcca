--------------------------- MODULE SmgGraphProofs ---------------------------
(***************************************************************************)
(* Proofs about SmgGraph, for every choice of constants, offsets, bounds   *)
(* and instructions.                                                       *)
(***************************************************************************)
EXTENDS SmgGraph, Induction, Sequences, SequenceTheorems

(***************************************************************************)
(* The edge vectors of SmgEdges, for edges of any type.                    *)
(***************************************************************************)

\* A search has a first match whenever it has one (range-v3 find).
LEMMA FirstIsLeast ==
    ASSUME NEW I \in SUBSET Nat, I # {}
    PROVE  First(I) \in I /\ \A j \in I : First(I) <= j
BY NatHasLeast DEF First

\* Only the least element matters to First.
LEMMA FirstUnique ==
    ASSUME NEW I \in SUBSET Nat, NEW i \in I, \A j \in I : i <= j
    PROVE  First(I) = i
<1>1. First(I) \in I /\ First(I) <= i /\ i <= First(I)
  BY FirstIsLeast
<1>2. First(I) \in Nat /\ i \in Nat
  BY <1>1
<1> QED
  BY <1>1, <1>2

\* What a search by value finds.
LEMMA FindByValueType ==
    ASSUME NEW T, NEW edges \in Seq(T), NEW v, HasValue(edges, v)
    PROVE  /\ First(OfValue(edges, v)) \in DOMAIN edges
           /\ FindByValue(edges, v) \in T
           /\ FindByValue(edges, v).value = v
<1>1. OfValue(edges, v) \in SUBSET Nat
  BY DEF OfValue
<1>2. First(OfValue(edges, v)) \in OfValue(edges, v)
  BY <1>1, FirstIsLeast DEF HasValue
<1> QED
  BY <1>2 DEF FindByValue, OfValue

\* What a search by offset finds.
LEMMA FindByOffsetType ==
    ASSUME NEW T, NEW edges \in Seq(T), NEW off, HasOffset(edges, off)
    PROVE  /\ First(AtOffset(edges, off)) \in DOMAIN edges
           /\ FindByOffset(edges, off) \in T
           /\ FindByOffset(edges, off).off = off
<1>1. AtOffset(edges, off) \in SUBSET Nat
  BY DEF AtOffset
<1>2. First(AtOffset(edges, off)) \in AtOffset(edges, off)
  BY <1>1, FirstIsLeast DEF HasOffset
<1> QED
  BY <1>2 DEF FindByOffset, AtOffset

\* CreateOrModify keeps a vector a vector; its elements are old ones or the
\* new edge.
LEMMA CreateOrModifyType ==
    ASSUME NEW T, NEW edges \in Seq(T), NEW e \in T
    PROVE  CreateOrModify(edges, e) \in Seq(T)
<1>1. CASE HasOffset(edges, e.off)
  <2>1. First(AtOffset(edges, e.off)) \in DOMAIN edges
    BY <1>1, FindByOffsetType
  <2> QED
    BY <1>1, <2>1 DEF CreateOrModify
<1>2. CASE ~HasOffset(edges, e.off)
  BY <1>2 DEF CreateOrModify
<1> QED
  BY <1>1, <1>2

LEMMA CreateOrModifyElements ==
    ASSUME NEW T, NEW edges \in Seq(T), NEW e \in T,
           NEW i \in DOMAIN CreateOrModify(edges, e)
    PROVE  \/ CreateOrModify(edges, e)[i] = e
           \/ \E j \in DOMAIN edges : CreateOrModify(edges, e)[i] = edges[j]
<1>1. CASE HasOffset(edges, e.off)
  <2>1. First(AtOffset(edges, e.off)) \in DOMAIN edges
    BY <1>1, FindByOffsetType
  <2> QED
    BY <1>1, <2>1 DEF CreateOrModify
<1>2. CASE ~HasOffset(edges, e.off)
  BY <1>2 DEF CreateOrModify
<1> QED
  BY <1>1, <1>2

\* Redirect changes targets only.
LEMMA RedirectProperties ==
    ASSUME NEW T, NEW edges \in Seq(T), NEW from, NEW to,
           \A e \in T : Retarget(e, to) \in T
    PROVE  /\ Redirect(edges, from, to) \in Seq(T)
           /\ DOMAIN Redirect(edges, from, to) = DOMAIN edges
           /\ \A i \in DOMAIN edges : Redirect(edges, from, to)[i] =
                 IF edges[i].obj = from THEN Retarget(edges[i], to) ELSE edges[i]
<1>1. DOMAIN edges = 1 .. Len(edges) /\ Len(edges) \in Nat
  OBVIOUS
<1>2. \A i \in 1 .. Len(edges) : edges[i] \in T
  OBVIOUS
<1>3. Redirect(edges, from, to) \in Seq(T)
  BY <1>1, <1>2, IsASeq DEF Redirect
<1> QED
  BY <1>3 DEF Redirect

\* Appending an edge does not change what a successful search finds: this is
\* why the duplicates in the handles are harmless to lookups.
LEMMA FindAfterAppend ==
    ASSUME NEW T, NEW edges \in Seq(T), NEW e \in T, NEW v, HasValue(edges, v)
    PROVE  /\ HasValue(Append(edges, e), v)
           /\ FindByValue(Append(edges, e), v) = FindByValue(edges, v)
<1> DEFINE more == Append(edges, e)
           f    == First(OfValue(edges, v))
<1>1. /\ DOMAIN edges = 1 .. Len(edges) /\ Len(edges) \in Nat
      /\ DOMAIN more = 1 .. Len(edges) + 1
      /\ \A i \in DOMAIN edges : more[i] = edges[i]
  BY AppendProperties
<1>2. OfValue(edges, v) \in SUBSET Nat /\ OfValue(more, v) \in SUBSET Nat
  BY <1>1 DEF OfValue
<1>3. f \in OfValue(edges, v) /\ \A j \in OfValue(edges, v) : f <= j
  BY <1>2, FirstIsLeast DEF HasValue
<1>4. f \in OfValue(more, v)
  BY <1>1, <1>3 DEF OfValue
<1>5. ASSUME NEW j \in OfValue(more, v) PROVE f <= j
  <2>1. CASE j \in DOMAIN edges
    BY <1>1, <1>3, <2>1 DEF OfValue
  <2>2. CASE j \notin DOMAIN edges
    <3>1. j = Len(edges) + 1
      BY <1>1, <2>2 DEF OfValue
    <3>2. f \in 1 .. Len(edges)
      BY <1>1, <1>3 DEF OfValue
    <3> QED
      BY <3>1, <3>2, <1>1
  <2> QED
    BY <2>1, <2>2
<1>6. First(OfValue(more, v)) = f
  BY <1>2, <1>4, <1>5, FirstUnique
<1>7. more[f] = edges[f]
  BY <1>1, <1>3 DEF OfValue
<1> QED
  BY <1>4, <1>6, <1>7 DEF HasValue, FindByValue

\* A value that is only in the new edge is found there.
LEMMA FindAppended ==
    ASSUME NEW T, NEW edges \in Seq(T), NEW e \in T, ~HasValue(edges, e.value)
    PROVE  /\ HasValue(Append(edges, e), e.value)
           /\ FindByValue(Append(edges, e), e.value) = e
<1> DEFINE more == Append(edges, e)
           n    == Len(edges) + 1
<1>1. /\ DOMAIN edges = 1 .. Len(edges) /\ Len(edges) \in Nat
      /\ DOMAIN more = 1 .. n
      /\ \A i \in DOMAIN edges : more[i] = edges[i]
      /\ more[n] = e
  BY AppendProperties
<1>2. OfValue(more, e.value) = {n}
  BY <1>1 DEF HasValue, OfValue
<1>3. First({n}) = n
  BY <1>1, FirstUnique
<1> QED
  BY <1>1, <1>2, <1>3 DEF HasValue, FindByValue

\* After a redirection every search finds the same edge, redirected.
LEMMA FindAfterRedirect ==
    ASSUME NEW T, NEW edges \in Seq(T), NEW from, NEW to, NEW v,
           \A e \in T : Retarget(e, to) \in T,
           \A e \in T : Retarget(e, to).value = e.value,
           HasValue(edges, v)
    PROVE  /\ HasValue(Redirect(edges, from, to), v)
           /\ FindByValue(Redirect(edges, from, to), v) =
                 IF FindByValue(edges, v).obj = from
                 THEN Retarget(FindByValue(edges, v), to)
                 ELSE FindByValue(edges, v)
<1> DEFINE moved == Redirect(edges, from, to)
<1>1. /\ DOMAIN moved = DOMAIN edges
      /\ \A i \in DOMAIN edges : moved[i] =
            IF edges[i].obj = from THEN Retarget(edges[i], to) ELSE edges[i]
  BY RedirectProperties
<1>2. ASSUME NEW i \in DOMAIN edges PROVE moved[i].value = edges[i].value
  <2>1. edges[i] \in T
    OBVIOUS
  <2> QED
    BY <1>1, <2>1
<1>3. OfValue(moved, v) = OfValue(edges, v)
  BY <1>1, <1>2 DEF OfValue
<1>4. First(OfValue(edges, v)) \in DOMAIN edges
  BY FindByValueType
<1> QED
  BY <1>1, <1>3, <1>4 DEF HasValue, FindByValue

\* After CreateOrModify a search at the offset of the new edge finds it, and
\* any other finds what it found.
LEMMA FindAfterModify ==
    ASSUME NEW T, NEW edges \in Seq(T), NEW e \in T, NEW off
    PROVE  /\ HasOffset(CreateOrModify(edges, e), off) <=>
                 HasOffset(edges, off) \/ off = e.off
           /\ HasOffset(CreateOrModify(edges, e), off) =>
                 FindByOffset(CreateOrModify(edges, e), off) =
                    IF off = e.off THEN e ELSE FindByOffset(edges, off)
<1> DEFINE new == CreateOrModify(edges, e)
<1>1. CASE HasOffset(edges, e.off)
  <2> DEFINE n == First(AtOffset(edges, e.off))
  <2>1. n \in DOMAIN edges /\ edges[n].off = e.off
    BY <1>1, FindByOffsetType DEF FindByOffset
  <2>2. new = [edges EXCEPT ![n] = e]
    BY <1>1 DEF CreateOrModify
  <2> HIDE DEF n, new
  <2>3. AtOffset(new, off) = AtOffset(edges, off)
    BY <2>1, <2>2 DEF AtOffset
  <2>4. ASSUME HasOffset(edges, off)
        PROVE  First(AtOffset(edges, off)) \in DOMAIN edges
               /\ edges[First(AtOffset(edges, off))].off = off
    BY <2>4, FindByOffsetType DEF FindByOffset
  <2>5. HasOffset(new, off) <=> HasOffset(edges, off)
    BY <2>3 DEF HasOffset
  <2>6. ASSUME HasOffset(new, off)
        PROVE  FindByOffset(new, off) = IF off = e.off THEN e ELSE FindByOffset(edges, off)
    BY <2>1, <2>2, <2>3, <2>4, <2>5, <2>6 DEF FindByOffset, n
  <2> QED
    BY <1>1, <2>5, <2>6 DEF new
<1>2. CASE ~HasOffset(edges, e.off)
  <2>1. new = Append(edges, e)
    BY <1>2 DEF CreateOrModify
  <2>2. /\ DOMAIN edges = 1 .. Len(edges) /\ Len(edges) \in Nat
        /\ DOMAIN new = 1 .. Len(edges) + 1
        /\ \A i \in DOMAIN edges : new[i] = edges[i]
        /\ new[Len(edges) + 1] = e
    BY <2>1, AppendProperties
  <2> HIDE DEF new
  <2>3. CASE off = e.off
    <3>1. AtOffset(new, off) = {Len(edges) + 1}
      BY <1>2, <2>2, <2>3 DEF HasOffset, AtOffset
    <3>2. First({Len(edges) + 1}) = Len(edges) + 1
      BY <2>2, FirstUnique
    <3> QED
      BY <2>2, <2>3, <3>1, <3>2 DEF HasOffset, FindByOffset, new
  <2>4. CASE off # e.off
    <3>1. AtOffset(new, off) = AtOffset(edges, off)
      BY <2>2, <2>4 DEF AtOffset
    <3>2. HasOffset(edges, off) => First(AtOffset(edges, off)) \in DOMAIN edges
      BY FindByOffsetType
    <3> QED
      BY <2>2, <2>4, <3>1, <3>2 DEF HasOffset, FindByOffset, new
  <2> QED
    BY <2>3, <2>4
<1> QED
  BY <1>1, <1>2

\* A redirection keeps what searches by offset find, but for the targets.
LEMMA OffsetsAfterRedirect ==
    ASSUME NEW T, NEW edges \in Seq(T), NEW from, NEW to, NEW off,
           \A e \in T : /\ Retarget(e, to) \in T /\ Retarget(e, to).off = e.off
                        /\ Retarget(e, to).value = e.value
    PROVE  /\ HasOffset(Redirect(edges, from, to), off) <=> HasOffset(edges, off)
           /\ HasOffset(edges, off) =>
                 FindByOffset(Redirect(edges, from, to), off).value =
                    FindByOffset(edges, off).value
<1> DEFINE new == Redirect(edges, from, to)
<1>1. /\ DOMAIN new = DOMAIN edges
      /\ \A i \in DOMAIN edges : new[i] =
            IF edges[i].obj = from THEN Retarget(edges[i], to) ELSE edges[i]
  BY RedirectProperties
<1>2. \A i \in DOMAIN edges : edges[i] \in T
  OBVIOUS
<1> HIDE DEF new
<1>3. \A i \in DOMAIN edges : new[i].off = edges[i].off /\ new[i].value = edges[i].value
  BY <1>1, <1>2
<1>4. AtOffset(new, off) = AtOffset(edges, off)
  BY <1>1, <1>3 DEF AtOffset
<1>5. HasOffset(edges, off) => First(AtOffset(edges, off)) \in DOMAIN edges
  BY FindByOffsetType
<1> QED
  BY <1>3, <1>4, <1>5 DEF HasOffset, FindByOffset, new

(***************************************************************************)
(* The inductive invariant.                                                *)
(***************************************************************************)

\* The inductive invariant of the first theorems.  Types alone are not
\* inductive: the object a pointer leads to has a type only if it exists.
GraphInv == TypeOK /\ NoDanglingTarget

-----------------------------------------------------------------------------
(* The value container.                                                    *)

\* An addition gives out ids in order and only extends the constants.
LEMMA AddType ==
    ASSUME NEW c, NEW next \in Nat, NEW a, NEW b,
           c \in [DOMAIN c -> Int], DOMAIN c \subseteq 0 .. next - 1
    PROVE  LET r == Add(c, next, a, b)
           IN  /\ r.next \in Nat /\ next <= r.next
               /\ r.id \in 0 .. r.next - 1
               /\ r.consts \in [DOMAIN r.consts -> Int]
               /\ DOMAIN c \subseteq DOMAIN r.consts
               /\ DOMAIN r.consts \subseteq 0 .. r.next - 1
<1> DEFINE sum == c[a] + c[b]
           r   == Add(c, next, a, b)
<1>1. CASE ~({a, b} \subseteq DOMAIN c)
  <2>1. r = [id |-> next, consts |-> c, next |-> next + 1]
    BY <1>1 DEF Add
  <2> QED
    BY <2>1
<1>2. CASE {a, b} \subseteq DOMAIN c /\ ConstIds(c, sum) # {}
  <2>1. r = [id |-> CHOOSE v \in ConstIds(c, sum) : TRUE, consts |-> c, next |-> next]
    BY <1>2 DEF Add
  <2>2. (CHOOSE v \in ConstIds(c, sum) : TRUE) \in DOMAIN c
    BY <1>2 DEF ConstIds
  <2> QED
    BY <2>1, <2>2
<1>3. CASE {a, b} \subseteq DOMAIN c /\ ConstIds(c, sum) = {}
  <2> DEFINE more == [v \in DOMAIN c \cup {next} |-> IF v = next THEN sum ELSE c[v]]
  <2>1. r = [id |-> next, next |-> next + 1, consts |-> more]
    BY <1>3 DEF Add
  <2>2. sum \in Int
    BY <1>3
  <2>3. more \in [DOMAIN c \cup {next} -> Int] /\ DOMAIN more = DOMAIN c \cup {next}
    BY <2>2
  <2> HIDE DEF more
  <2> QED
    BY <2>1, <2>3
<1> QED
  BY <1>1, <1>2, <1>3

-----------------------------------------------------------------------------
(* Types of what the operations look up.                                   *)

\* The counters only grow, and the types with them.
LEMMA TypesGrow ==
    ASSUME GraphInv, nextVal' \in Nat, nextVal <= nextVal',
           nextObj' \in Nat, nextObj <= nextObj'
    PROVE  /\ Issued \subseteq Issued'
           /\ ObjectIds \subseteq ObjectIds'
           /\ HvEdges \subseteq HvEdges'
           /\ PtEdges({Zero}) \subseteq PtEdges({Zero})'
           /\ Regions \subseteq Regions'
<1>1. Issued \subseteq Issued'
  BY DEF GraphInv, TypeOK, Issued
<1>2. ObjectIds \subseteq ObjectIds'
  BY DEF GraphInv, TypeOK, ObjectIds, SpecialObjs
<1>3. HvEdges \subseteq HvEdges'
  BY <1>1 DEF HvEdges
<1>4. PtEdges({Zero}) \subseteq PtEdges({Zero})'
  BY <1>1, <1>2 DEF PtEdges
<1>5. PtEdges(Issued \cup {Hidden}) \subseteq PtEdges(Issued \cup {Hidden})'
  BY <1>1, <1>2 DEF PtEdges
<1>6. Regions \subseteq Regions'
  <2>1. Seq(HvEdges) \subseteq Seq(HvEdges)'
    BY <1>3, SeqMonotonic
  <2>2. Seq(PtEdges(Issued \cup {Hidden})) \subseteq Seq(PtEdges(Issued \cup {Hidden}))'
    BY <1>5, SeqMonotonic
  <2> QED
    BY <2>1, <2>2 DEF Regions
<1> QED
  BY <1>1, <1>2, <1>3, <1>4, <1>6

\* FindPtEdge returns a proper edge, into an object that exists.
LEMMA FindPtEdgeType ==
    ASSUME GraphInv, NEW v \in Issued
    PROVE  /\ FindPtEdge(v) \in PtEdges({Zero})
           /\ FindPtEdge(v).obj \in DOMAIN objects
           /\ HandlesAfterFind(v) \in Seq(PtEdges({Zero}))
           /\ \A i \in DOMAIN HandlesAfterFind(v) :
                 HandlesAfterFind(v)[i].obj \in DOMAIN objects
<1>1. handles \in Seq(PtEdges({Zero})) /\ Zero \in Issued
  BY DEF GraphInv, TypeOK
<1>2. UnknownPtEdge(v) \in PtEdges({Zero}) /\ UnknownPtEdge(v).obj = UnknownObj
  BY <1>1 DEF UnknownPtEdge, PtEdge, PtEdges, ObjectIds, SpecialObjs
<1>3. UnknownObj \in DOMAIN objects
  BY DEF GraphInv, TypeOK, SpecialObjs
<1>4. CASE HasValue(handles, v)
  <2>1. FindPtEdge(v) = handles[First(OfValue(handles, v))] /\ HandlesAfterFind(v) = handles
    BY <1>4 DEF FindPtEdge, FindByValue, HandlesAfterFind
  <2>2. First(OfValue(handles, v)) \in DOMAIN handles
    BY <1>1, <1>4, FindByValueType
  <2> QED
    BY <1>1, <2>1, <2>2 DEF GraphInv, NoDanglingTarget
<1>5. CASE ~HasValue(handles, v)
  <2>1. FindPtEdge(v) = UnknownPtEdge(v)
        /\ HandlesAfterFind(v) = Append(handles, UnknownPtEdge(v))
    BY <1>5 DEF FindPtEdge, HandlesAfterFind
  <2> QED
    BY <1>1, <1>2, <1>3, <2>1, AppendProperties DEF GraphInv, NoDanglingTarget
<1> QED
  BY <1>4, <1>5

\* An accessible pointer leads to a region, at a proper offset.
LEMMA AccessType ==
    ASSUME GraphInv, NEW p \in Issued, CanAccess(p)
    PROVE  /\ Target(p) \in DOMAIN objects \ SpecialObjs
           /\ Object(p) \in Regions
           /\ Offset(p) \in Issued
BY FindPtEdgeType DEF CanAccess, Target, Object, Offset, PtEdges, GraphInv, TypeOK

-----------------------------------------------------------------------------
(* Every operation preserves GraphInv.                                     *)

LEMMA InitInv == Init => GraphInv
<1> SUFFICES ASSUME Init PROVE GraphInv
  OBVIOUS
<1> USE MaxConstAssumption, IntConstantsAssumption
<1>1. nextVal \in Nat /\ nextObj = 1 /\ 0 .. MaxConst \subseteq Issued
  BY DEF Init, Issued
<1>2. DOMAIN objects = SpecialObjs /\ SpecialObjs = ObjectIds
  BY DEF Init, ObjectIds, SpecialObjs, NullObj, UnknownObj, FreedObj
<1>3. objects \in [DOMAIN objects -> Regions]
  <2>1. NewObject("Heap") \in Regions
    BY DEF NewObject, Regions, Spaces
  <2> QED
    BY <2>1 DEF Init
<1>4. handles \in Seq(PtEdges({Zero})) /\ handles[1].obj = NullObj /\ DOMAIN handles = {1}
  <2>1. PtEdge(Zero, Zero, NullObj, Zero) \in PtEdges({Zero})
    BY <1>1 DEF PtEdge, PtEdges, Zero, ObjectIds, SpecialObjs
  <2> QED
    BY <2>1 DEF Init, PtEdge
<1>5. /\ consts \in [DOMAIN consts -> Int]
      /\ DOMAIN consts \subseteq Issued /\ {Zero, 1} \subseteq DOMAIN consts
  BY DEF Init, Issued, Zero
<1>6. heldPtrs \subseteq Issued /\ heldInts \subseteq Issued /\ status \in Statuses
  BY <1>1 DEF Init, Zero, Statuses
<1>7. TypeOK
  BY <1>1, <1>2, <1>3, <1>4, <1>5, <1>6 DEF TypeOK
<1>8. NoDanglingTarget
  BY <1>2, <1>4 DEF NoDanglingTarget, Init, NewObject, SpecialObjs
<1> QED
  BY <1>7, <1>8 DEF GraphInv

\* Writing back a region whose pointers lead to existing objects.
LEMMA UpdateObjectType ==
    ASSUME GraphInv, NEW p \in Issued, CanAccess(p), NEW object, object \in Regions',
           \A i \in DOMAIN object.pt : object.pt[i].obj \in DOMAIN objects,
           Regions \subseteq Regions',
           UpdateObject(p, object)
    PROVE  /\ DOMAIN objects' = DOMAIN objects
           /\ objects' \in [DOMAIN objects' -> Regions']
           /\ \A o \in DOMAIN objects' : \A i \in DOMAIN objects'[o].pt :
                 objects'[o].pt[i].obj \in DOMAIN objects'
<1>1. objects' = [objects EXCEPT ![Target(p)] = object]
  BY DEF UpdateObject
<1>2. objects \in [DOMAIN objects -> Regions] /\ Target(p) \in DOMAIN objects
  BY AccessType DEF GraphInv, TypeOK
<1>3. \A o \in DOMAIN objects : \A i \in DOMAIN objects[o].pt :
         objects[o].pt[i].obj \in DOMAIN objects
  BY DEF GraphInv, NoDanglingTarget
<1>4. /\ DOMAIN objects' = DOMAIN objects
      /\ \A o \in DOMAIN objects :
            objects'[o] = IF o = Target(p) THEN object ELSE objects[o]
  BY <1>1, <1>2
<1>5. objects' \in [DOMAIN objects -> Regions']
  BY <1>1, <1>2
<1> QED
  BY <1>3, <1>4, <1>5

\* A new derived pointer is well typed and into the object of its base.
LEMMA CreateDerivedType ==
    ASSUME GraphInv, NEW base \in Issued, NEW off,
           NEW next \in Nat, nextVal <= next,
           CreateDerivedPointer(base, off, consts, next),
           nextObj' = nextObj
    PROVE  /\ nextVal' \in Nat /\ nextVal <= nextVal'
           /\ DerivedOffset(base, off, consts, next).id \in Issued'
           /\ DerivedValue(base, off, consts, next).id \in Issued'
           /\ {Zero, 1} \subseteq DOMAIN consts' /\ DOMAIN consts' \subseteq Issued'
           /\ consts' \in [DOMAIN consts' -> Int]
           /\ handles' \in Seq(PtEdges({Zero}))'
           /\ \A i \in DOMAIN handles' : handles'[i].obj \in DOMAIN objects
<1> DEFINE o == DerivedOffset(base, off, consts, next)
           d == DerivedValue(base, off, consts, next)
           e == DerivedEdge(base, off, consts, next)
<1>1. /\ consts \in [DOMAIN consts -> Int] /\ {Zero, 1} \subseteq DOMAIN consts
      /\ DOMAIN consts \subseteq 0 .. next - 1
      /\ nextVal \in Nat /\ nextObj \in Nat
  BY DEF GraphInv, TypeOK, Issued
<1>2. /\ o.next \in Nat /\ next <= o.next /\ o.id \in 0 .. o.next - 1
      /\ o.consts \in [DOMAIN o.consts -> Int]
      /\ DOMAIN consts \subseteq DOMAIN o.consts
      /\ DOMAIN o.consts \subseteq 0 .. o.next - 1
  BY <1>1, AddType DEF DerivedOffset
<1>3. d = Add(o.consts, o.next, base, o.id)
  BY DEF DerivedValue
<1>4. /\ d.next \in Nat /\ o.next <= d.next /\ d.id \in 0 .. d.next - 1
      /\ d.consts \in [DOMAIN d.consts -> Int]
      /\ DOMAIN o.consts \subseteq DOMAIN d.consts
      /\ DOMAIN d.consts \subseteq 0 .. d.next - 1
  <2> HIDE DEF o, d
  <2> QED BY <1>2, <1>3, AddType
<1>5. nextVal' = d.next /\ consts' = d.consts /\ handles' = Append(HandlesAfterFind(base), e)
  BY DEF CreateDerivedPointer
<1> HIDE DEF o, d
<1>6. Issued' = 0 .. d.next - 1 /\ nextVal' \in Nat /\ nextVal <= nextVal'
  BY <1>1, <1>2, <1>4, <1>5 DEF Issued
<1>7. /\ FindPtEdge(base) \in PtEdges({Zero})
      /\ FindPtEdge(base).obj \in DOMAIN objects
      /\ HandlesAfterFind(base) \in Seq(PtEdges({Zero}))
      /\ \A i \in DOMAIN HandlesAfterFind(base) :
            HandlesAfterFind(base)[i].obj \in DOMAIN objects
  BY FindPtEdgeType
<1>8. e = [FindPtEdge(base) EXCEPT !.value = d.id, !.toff = o.id]
  BY DEF DerivedEdge, o, d
<1>9. PtEdges({Zero}) \subseteq PtEdges({Zero})'
  <2>1. nextObj' \in Nat /\ nextObj <= nextObj'
    BY <1>1
  <2> QED
    BY <1>6, <2>1, TypesGrow
<1>10. o.id \in Issued' /\ d.id \in Issued'
  BY <1>2, <1>4, <1>6
<1>11. e \in PtEdges({Zero})' /\ e.obj = FindPtEdge(base).obj
  <2> HIDE DEF e
  <2>1. FindPtEdge(base) \in PtEdges({Zero})'
    BY <1>7, <1>9
  <2> QED
    BY <1>8, <1>10, <2>1 DEF PtEdges
<1> HIDE DEF e
<1>12. HandlesAfterFind(base) \in Seq(PtEdges({Zero})')
  BY <1>7, <1>9, SeqMonotonic
<1>13. handles' \in Seq(PtEdges({Zero})')
  BY <1>5, <1>11, <1>12, AppendProperties
<1>14. \A i \in DOMAIN handles' : handles'[i].obj \in DOMAIN objects
  BY <1>5, <1>7, <1>11, <1>12, AppendProperties
<1> QED
  BY <1>1, <1>2, <1>4, <1>5, <1>6, <1>10, <1>13, <1>14 DEF o, d

\* What is left to check of a step that keeps the set of objects.
LEMMA KeepObjectsInv ==
    ASSUME GraphInv, nextVal' \in Nat, nextVal <= nextVal', nextObj' = nextObj,
           handles' \in Seq(PtEdges({Zero}))',
           \A i \in DOMAIN handles' : handles'[i].obj \in DOMAIN objects,
           DOMAIN objects' = DOMAIN objects,
           objects' \in [DOMAIN objects' -> Regions'],
           \A o \in DOMAIN objects' : \A i \in DOMAIN objects'[o].pt :
              objects'[o].pt[i].obj \in DOMAIN objects',
           {Zero, 1} \subseteq DOMAIN consts', DOMAIN consts' \subseteq Issued',
           consts' \in [DOMAIN consts' -> Int],
           heldPtrs' \subseteq Issued', heldInts' \subseteq Issued',
           status' \in Statuses
    PROVE  GraphInv'
<1>1. TypeOK'
  BY DEF GraphInv, TypeOK, ObjectIds
<1>2. NoDanglingTarget'
  BY DEF NoDanglingTarget
<1> QED
  BY <1>1, <1>2 DEF GraphInv

\* What was well typed and is not assigned stays so.
LEMMA KeptTypes ==
    ASSUME GraphInv, nextVal' \in Nat, nextVal <= nextVal', nextObj' = nextObj
    PROVE  /\ Issued \subseteq Issued' /\ Regions \subseteq Regions'
           /\ HvEdges \subseteq HvEdges'
           /\ heldPtrs \subseteq Issued' /\ heldInts \subseteq Issued'
           /\ handles' = handles =>
                 /\ handles' \in Seq(PtEdges({Zero}))'
                 /\ \A i \in DOMAIN handles' : handles'[i].obj \in DOMAIN objects
           /\ consts' = consts =>
                 /\ {Zero, 1} \subseteq DOMAIN consts' /\ DOMAIN consts' \subseteq Issued'
                 /\ consts' \in [DOMAIN consts' -> Int]
           /\ objects' = objects =>
                 /\ DOMAIN objects' = DOMAIN objects
                 /\ objects' \in [DOMAIN objects' -> Regions']
                 /\ \A o \in DOMAIN objects' : \A i \in DOMAIN objects'[o].pt :
                       objects'[o].pt[i].obj \in DOMAIN objects'
           /\ status' = status => status' \in Statuses
<1>1. nextObj' \in Nat /\ nextObj <= nextObj'
  BY DEF GraphInv, TypeOK
<1>2. /\ Issued \subseteq Issued' /\ Regions \subseteq Regions'
      /\ HvEdges \subseteq HvEdges'
      /\ PtEdges({Zero}) \subseteq PtEdges({Zero})'
  BY <1>1, TypesGrow
<1>3. heldPtrs \subseteq Issued' /\ heldInts \subseteq Issued'
  BY <1>2 DEF GraphInv, TypeOK
<1>4. ASSUME handles' = handles
      PROVE  /\ handles' \in Seq(PtEdges({Zero}))'
             /\ \A i \in DOMAIN handles' : handles'[i].obj \in DOMAIN objects
  <2>1. handles \in Seq(PtEdges({Zero}))
    BY DEF GraphInv, TypeOK
  <2>2. handles \in Seq(PtEdges({Zero})')
    BY <1>2, <2>1, SeqMonotonic
  <2> QED
    BY <1>4, <2>2 DEF GraphInv, NoDanglingTarget
<1>5. ASSUME consts' = consts
      PROVE  /\ {Zero, 1} \subseteq DOMAIN consts' /\ DOMAIN consts' \subseteq Issued'
             /\ consts' \in [DOMAIN consts' -> Int]
  BY <1>2, <1>5 DEF GraphInv, TypeOK
<1>6. ASSUME objects' = objects
      PROVE  /\ DOMAIN objects' = DOMAIN objects
             /\ objects' \in [DOMAIN objects' -> Regions']
             /\ \A o \in DOMAIN objects' : \A i \in DOMAIN objects'[o].pt :
                   objects'[o].pt[i].obj \in DOMAIN objects'
  <2>1. objects \in [DOMAIN objects -> Regions']
    BY <1>2 DEF GraphInv, TypeOK
  <2> QED
    BY <1>6, <2>1 DEF GraphInv, NoDanglingTarget
<1>7. status' = status => status' \in Statuses
  BY DEF GraphInv, TypeOK
<1> QED
  BY <1>2, <1>3, <1>4, <1>5, <1>6, <1>7

LEMMA AllocateInv ==
    ASSUME GraphInv, NEW space \in Spaces, AllocateRegion(space)
    PROVE  GraphInv'
<1>1. /\ nextVal \in Nat /\ nextObj \in Nat \ {0}
      /\ nextVal' = nextVal + 1 /\ nextObj' = nextObj + 1
      /\ handles' = Append(handles, PtEdge(Zero, nextVal, nextObj, Zero))
      /\ consts' = consts /\ heldInts' = heldInts /\ status' = status
      /\ heldPtrs' = heldPtrs \cup {nextVal}
  BY DEF AllocateRegion, GraphInv, TypeOK
<1>2. /\ Issued \subseteq Issued' /\ ObjectIds \subseteq ObjectIds'
      /\ Regions \subseteq Regions'
      /\ PtEdges({Zero}) \subseteq PtEdges({Zero})'
  <2>1. /\ nextVal' \in Nat /\ nextVal <= nextVal'
        /\ nextObj' \in Nat /\ nextObj <= nextObj'
    BY <1>1
  <2> QED
    BY <2>1, TypesGrow
<1>3. nextVal \in Issued' /\ nextObj \in ObjectIds' /\ Zero \in Issued'
  BY <1>1 DEF Issued, ObjectIds, Zero
<1>4. PtEdge(Zero, nextVal, nextObj, Zero) \in PtEdges({Zero})'
  BY <1>3 DEF PtEdge, PtEdges
<1>5. handles \in Seq(PtEdges({Zero})')
  <2>1. handles \in Seq(PtEdges({Zero}))
    BY DEF GraphInv, TypeOK
  <2> QED
    BY <1>2, <2>1, SeqMonotonic
<1>6. NewObject(space) \in Regions'
  BY DEF NewObject, Regions
<1>7. /\ DOMAIN objects' = DOMAIN objects \cup {nextObj}
      /\ \A o \in DOMAIN objects' :
            objects'[o] = IF o = nextObj THEN NewObject(space) ELSE objects[o]
      /\ objects' \in [DOMAIN objects' -> Regions']
  <2>1. objects \in [DOMAIN objects -> Regions']
    BY <1>2 DEF GraphInv, TypeOK
  <2> QED
    BY <1>6, <2>1 DEF AllocateRegion
<1>8. TypeOK'
  <2>1. handles' \in Seq(PtEdges({Zero})')
    BY <1>1, <1>4, <1>5, AppendProperties
  <2>2. SpecialObjs \subseteq DOMAIN objects' /\ DOMAIN objects' \subseteq ObjectIds'
    BY <1>2, <1>3, <1>7 DEF GraphInv, TypeOK
  <2> QED
    BY <1>1, <1>2, <1>3, <1>7, <2>1, <2>2 DEF GraphInv, TypeOK
<1>9. NoDanglingTarget'
  <2>1. \A i \in DOMAIN handles' : handles'[i].obj \in DOMAIN objects'
    BY <1>1, <1>4, <1>5, <1>7, AppendProperties DEF PtEdge, GraphInv, NoDanglingTarget
  <2>2. \A o \in DOMAIN objects' : \A i \in DOMAIN objects'[o].pt :
           objects'[o].pt[i].obj \in DOMAIN objects'
    BY <1>7 DEF NewObject, GraphInv, NoDanglingTarget
  <2> QED
    BY <2>1, <2>2 DEF NoDanglingTarget
<1> QED
  BY <1>8, <1>9 DEF GraphInv

LEMMA FailInv ==
    ASSUME GraphInv, NEW error \in Statuses, Fail(error)
    PROVE  GraphInv'
BY DEF Fail, graphVars, vcVars, GraphInv, TypeOK, NoDanglingTarget, Issued,
       ObjectIds, PtEdges, Regions, HvEdges

\* A plain value is written, in place or as a new edge.
LEMMA WritePlainType ==
    ASSUME GraphInv, NEW p \in Issued, CanAccess(p), NEW hv,
           nextVal' \in Nat, nextVal <= nextVal', nextObj' = nextObj,
           hv \in Seq(HvEdges'),
           UpdateObject(p, [Object(p) EXCEPT !.hv = hv])
    PROVE  /\ DOMAIN objects' = DOMAIN objects
           /\ objects' \in [DOMAIN objects' -> Regions']
           /\ \A o \in DOMAIN objects' : \A i \in DOMAIN objects'[o].pt :
                 objects'[o].pt[i].obj \in DOMAIN objects'
<1> DEFINE object == [Object(p) EXCEPT !.hv = hv]
<1>1. Regions \subseteq Regions'
  BY KeptTypes
<1>2. Target(p) \in DOMAIN objects /\ Object(p) \in Regions'
  BY <1>1, AccessType
<1>3. object \in Regions' /\ object.pt = Object(p).pt
  BY <1>2 DEF Regions
<1>4. \A i \in DOMAIN object.pt : object.pt[i].obj \in DOMAIN objects
  BY <1>2, <1>3 DEF Object, GraphInv, NoDanglingTarget
<1> HIDE DEF object
<1>5. UpdateObject(p, object)
  BY DEF object
<1> QED
  BY <1>1, <1>3, <1>4, <1>5, UpdateObjectType

\* The plain edges of an accessible object stay typed when the counter grows.
LEMMA ObjectHvType ==
    ASSUME GraphInv, NEW p \in Issued, CanAccess(p),
           nextVal' \in Nat, nextVal <= nextVal', nextObj' = nextObj
    PROVE  Object(p).hv \in Seq(HvEdges')
<1>1. Object(p).hv \in Seq(HvEdges)
  BY AccessType DEF Regions
<1>2. HvEdges \subseteq HvEdges'
  BY KeptTypes
<1> QED
  BY <1>1, <1>2, SeqMonotonic

LEMMA ReadStoredType ==
    ASSUME GraphInv, NEW p \in Issued, CanAccess(p),
           HasOffset(Object(p).hv, Offset(p))
    PROVE  FindByOffset(Object(p).hv, Offset(p)).value \in Issued
<1>1. Object(p).hv \in Seq(HvEdges)
  BY AccessType DEF Regions
<1>2. FindByOffset(Object(p).hv, Offset(p)) \in HvEdges
  BY <1>1, FindByOffsetType
<1> QED
  BY <1>2 DEF HvEdges

\* A read of a place never written stores a new unknown value there.
LEMMA ReadFreshType ==
    ASSUME GraphInv, NEW p \in Issued, CanAccess(p),
           nextVal' = nextVal + 1, nextObj' = nextObj,
           UpdateObject(p, [Object(p) EXCEPT !.hv =
                               Append(@, HvEdge(Offset(p), nextVal))])
    PROVE  /\ DOMAIN objects' = DOMAIN objects
           /\ objects' \in [DOMAIN objects' -> Regions']
           /\ \A o \in DOMAIN objects' : \A i \in DOMAIN objects'[o].pt :
                 objects'[o].pt[i].obj \in DOMAIN objects'
           /\ nextVal \in Issued' /\ nextVal' \in Nat /\ nextVal <= nextVal'
<1> DEFINE hv == Append(Object(p).hv, HvEdge(Offset(p), nextVal))
<1>1. nextVal' \in Nat /\ nextVal <= nextVal' /\ nextVal \in Issued'
  BY DEF GraphInv, TypeOK, Issued
<1>2. Object(p).hv \in Seq(HvEdges')
  BY <1>1, ObjectHvType
<1>3. Offset(p) \in Issued'
  BY <1>1, KeptTypes, AccessType
<1>4. HvEdge(Offset(p), nextVal) \in HvEdges'
  BY <1>1, <1>3 DEF HvEdge, HvEdges
<1>5. hv \in Seq(HvEdges')
  BY <1>2, <1>4, AppendProperties
<1>6. UpdateObject(p, [Object(p) EXCEPT !.hv = hv])
  OBVIOUS
<1> HIDE DEF hv
<1> QED
  BY <1>1, <1>5, <1>6, WritePlainType

LEMMA LoadIntInv ==
    ASSUME GraphInv, NEW p \in heldPtrs, LoadInt(p)
    PROVE  GraphInv'
<1>1. /\ p \in Issued /\ CanAccess(p) /\ ReadPlain(p, LearnInt)
      /\ handles' = handles /\ consts' = consts /\ nextObj' = nextObj
      /\ status' = status /\ nextVal \in Nat
  BY DEF LoadInt, GraphInv, TypeOK
<1>2. CASE HasOffset(Object(p).hv, Offset(p))
  <2>1. /\ heldInts' = heldInts \cup {FindByOffset(Object(p).hv, Offset(p)).value}
        /\ heldPtrs' = heldPtrs /\ objects' = objects /\ nextVal' = nextVal
    BY <1>1, <1>2 DEF ReadPlain, LearnInt
  <2>2. FindByOffset(Object(p).hv, Offset(p)).value \in Issued
    BY <1>1, <1>2, ReadStoredType
  <2>3. nextVal' \in Nat /\ nextVal <= nextVal'
    BY <1>1, <2>1
  <2> QED
    BY <1>1, <2>1, <2>2, <2>3, KeptTypes, KeepObjectsInv
<1>3. CASE ~HasOffset(Object(p).hv, Offset(p))
  <2>1. /\ heldInts' = heldInts \cup {nextVal} /\ heldPtrs' = heldPtrs
        /\ nextVal' = nextVal + 1
        /\ UpdateObject(p, [Object(p) EXCEPT !.hv =
                               Append(@, HvEdge(Offset(p), nextVal))])
    BY <1>1, <1>3 DEF ReadPlain, LearnInt
  <2>2. nextVal \in Issued' /\ nextVal' \in Nat /\ nextVal <= nextVal'
    BY <1>1, <2>1 DEF Issued
  <2> QED
    BY <1>1, <2>1, <2>2, ReadFreshType, KeptTypes, KeepObjectsInv
<1> QED
  BY <1>2, <1>3

LEMMA LoadPtrInv ==
    ASSUME GraphInv, NEW p \in heldPtrs, LoadPtr(p)
    PROVE  GraphInv'
<1>1. /\ p \in Issued /\ CanAccess(p)
      /\ consts' = consts /\ nextObj' = nextObj
      /\ status' = status /\ nextVal \in Nat
  BY DEF LoadPtr, GraphInv, TypeOK
<1>2. CASE HasOffset(Object(p).pt, Offset(p))
  <2> DEFINE edge == FindByOffset(Object(p).pt, Offset(p))
             T    == PtEdges(Issued \cup {Hidden})
  <2>1. /\ handles' = Append(handles, MovedTo(edge, Zero))
        /\ heldPtrs' = heldPtrs \cup {edge.value} /\ heldInts' = heldInts
        /\ objects' = objects /\ nextVal' = nextVal
    BY <1>2 DEF LoadPtr, LearnPtr
  <2>2. Object(p).pt \in Seq(T)
    BY <1>1, AccessType DEF Regions
  <2>3. edge \in T /\ edge.obj \in DOMAIN objects
    <3>1. edge \in T /\ First(AtOffset(Object(p).pt, Offset(p))) \in DOMAIN Object(p).pt
      BY <1>2, <2>2, FindByOffsetType
    <3>2. Target(p) \in DOMAIN objects
      BY <1>1, AccessType
    <3> QED
      BY <3>1, <3>2 DEF Object, FindByOffset, GraphInv, NoDanglingTarget
  <2> HIDE DEF edge
  <2>4. MovedTo(edge, Zero) \in PtEdges({Zero}) /\ MovedTo(edge, Zero).obj = edge.obj
        /\ edge.value \in Issued
    BY <2>3 DEF MovedTo, PtEdges
  <2>5. handles \in Seq(PtEdges({Zero}))
    BY DEF GraphInv, TypeOK
  <2>6. /\ handles' \in Seq(PtEdges({Zero}))
        /\ \A i \in DOMAIN handles' : handles'[i].obj \in DOMAIN objects
    BY <2>1, <2>3, <2>4, <2>5, AppendProperties DEF GraphInv, NoDanglingTarget
  <2>7. nextVal' \in Nat /\ nextVal <= nextVal'
    BY <1>1, <2>1
  <2>8. PtEdges({Zero})' = PtEdges({Zero}) /\ Issued' = Issued
    BY <1>1, <2>1 DEF PtEdges, Issued, ObjectIds
  <2> QED
    BY <1>1, <2>1, <2>4, <2>6, <2>7, <2>8, KeptTypes, KeepObjectsInv
<1>3. CASE ~HasOffset(Object(p).pt, Offset(p)) /\ HasOffset(Object(p).hv, Offset(p))
  <2>1. /\ heldPtrs' = heldPtrs \cup {FindByOffset(Object(p).hv, Offset(p)).value}
        /\ heldInts' = heldInts /\ objects' = objects /\ nextVal' = nextVal
        /\ handles' = handles
    BY <1>3 DEF LoadPtr, ReadPlain, LearnPtr
  <2>2. FindByOffset(Object(p).hv, Offset(p)).value \in Issued
    BY <1>1, <1>3, ReadStoredType
  <2>3. nextVal' \in Nat /\ nextVal <= nextVal'
    BY <1>1, <2>1
  <2> QED
    BY <1>1, <2>1, <2>2, <2>3, KeptTypes, KeepObjectsInv
<1>4. CASE ~HasOffset(Object(p).pt, Offset(p)) /\ ~HasOffset(Object(p).hv, Offset(p))
  <2>1. /\ heldPtrs' = heldPtrs \cup {nextVal} /\ heldInts' = heldInts
        /\ nextVal' = nextVal + 1 /\ handles' = handles
        /\ UpdateObject(p, [Object(p) EXCEPT !.hv =
                               Append(@, HvEdge(Offset(p), nextVal))])
    BY <1>4 DEF LoadPtr, ReadPlain, LearnPtr
  <2>2. nextVal \in Issued' /\ nextVal' \in Nat /\ nextVal <= nextVal'
    BY <1>1, <2>1 DEF Issued
  <2> QED
    BY <1>1, <2>1, <2>2, ReadFreshType, KeptTypes, KeepObjectsInv
<1> QED
  BY <1>2, <1>3, <1>4

LEMMA StoreIntInv ==
    ASSUME GraphInv, NEW p \in heldPtrs, NEW v \in heldInts, StoreInt(p, v)
    PROVE  GraphInv'
<1> DEFINE hv == CreateOrModify(Object(p).hv, HvEdge(Offset(p), v))
<1>1. /\ p \in Issued /\ v \in Issued /\ CanAccess(p)
      /\ handles' = handles /\ consts' = consts /\ nextVal' = nextVal
      /\ nextObj' = nextObj /\ status' = status
      /\ heldPtrs' = heldPtrs /\ heldInts' = heldInts
      /\ UpdateObject(p, [Object(p) EXCEPT !.hv = hv])
      /\ nextVal \in Nat
  BY DEF StoreInt, vcVars, GraphInv, TypeOK
<1>2. nextVal' \in Nat /\ nextVal <= nextVal'
  BY <1>1
<1>3. Object(p).hv \in Seq(HvEdges')
  BY <1>1, <1>2, ObjectHvType
<1>4. HvEdge(Offset(p), v) \in HvEdges'
  BY <1>1, <1>2, AccessType, KeptTypes DEF HvEdge, HvEdges
<1>5. hv \in Seq(HvEdges')
  BY <1>3, <1>4, CreateOrModifyType
<1> HIDE DEF hv
<1> QED
  BY <1>1, <1>2, <1>5, WritePlainType, KeptTypes, KeepObjectsInv

\* Disabling an edge changes nothing but its offset.
LEMMA DisabledType ==
    ASSUME GraphInv, NEW pt \in Seq(PtEdges(Issued \cup {Hidden})), NEW off
    PROVE  /\ Disabled(pt, off) \in Seq(PtEdges(Issued \cup {Hidden}))
           /\ DOMAIN Disabled(pt, off) = DOMAIN pt
           /\ \A i \in DOMAIN pt :
                 /\ Disabled(pt, off)[i].obj = pt[i].obj
                 /\ Disabled(pt, off)[i].value = pt[i].value
                 /\ Disabled(pt, off)[i].toff = pt[i].toff
<1> DEFINE T == PtEdges(Issued \cup {Hidden})
<1>0. pt \in Seq(T)
  OBVIOUS
<1>1. CASE HasOffset(pt, off)
  <2> DEFINE n == First(AtOffset(pt, off))
  <2>1. n \in DOMAIN pt
    BY <1>1, FindByOffsetType
  <2> HIDE DEF n
  <2> DEFINE e == [pt[n] EXCEPT !.off = Hidden]
  <2>2. /\ e \in T /\ e.obj = pt[n].obj
        /\ e.value = pt[n].value /\ e.toff = pt[n].toff
    <3>1. pt[n] \in T
      BY <1>0, <2>1
    <3> QED
      BY <3>1 DEF PtEdges
  <2> HIDE DEF e
  <2>3. Disabled(pt, off) = [pt EXCEPT ![n] = e]
    BY <1>1 DEF Disabled, n, e
  <2>4. Disabled(pt, off) \in Seq(T) /\ DOMAIN Disabled(pt, off) = DOMAIN pt
    <3> HIDE DEF T
    <3> QED
      BY <1>0, <2>1, <2>2, <2>3
  <2>5. \A i \in DOMAIN pt : Disabled(pt, off)[i] = IF i = n THEN e ELSE pt[i]
    BY <2>3
  <2> QED
    BY <2>2, <2>4, <2>5
<1>2. CASE ~HasOffset(pt, off)
  BY <1>2 DEF Disabled
<1> QED
  BY <1>1, <1>2

LEMMA StorePtrInv ==
    ASSUME GraphInv, NEW p \in heldPtrs, NEW v \in heldPtrs, StorePtr(p, v)
    PROVE  GraphInv'
<1> DEFINE T == PtEdges(Issued \cup {Hidden})
<1>1. /\ p \in Issued /\ v \in Issued /\ CanAccess(p)
      /\ handles' = handles /\ consts' = consts /\ nextVal' = nextVal
      /\ nextObj' = nextObj /\ status' = status
      /\ heldPtrs' = heldPtrs /\ heldInts' = heldInts
      /\ nextVal \in Nat
  BY DEF StorePtr, vcVars, GraphInv, TypeOK
<1>2. nextVal' \in Nat /\ nextVal <= nextVal' /\ Regions' = Regions
  BY <1>1 DEF Regions, HvEdges, PtEdges, Issued, ObjectIds
<1>3. /\ Target(p) \in DOMAIN objects /\ Object(p) \in Regions
      /\ Offset(p) \in Issued
      /\ Object(p).pt \in Seq(T) /\ Object(p).hv \in Seq(HvEdges)
  BY <1>1, AccessType DEF Regions
<1>4. \A i \in DOMAIN Object(p).pt : Object(p).pt[i].obj \in DOMAIN objects
  BY <1>3 DEF Object, GraphInv, NoDanglingTarget
<1>5. CASE HasValue(handles, v)
  <2> DEFINE e  == MovedTo(FindByValue(handles, v), Offset(p))
             pt == CreateOrModify(Object(p).pt, e)
             object == [Object(p) EXCEPT !.pt = pt]
  <2>1. FindPtEdge(v) = FindByValue(handles, v)
    BY <1>5 DEF FindPtEdge
  <2>2. e \in T /\ e.obj \in DOMAIN objects
    BY <1>1, <1>3, <2>1, FindPtEdgeType DEF MovedTo, PtEdges
  <2> HIDE DEF e
  <2>3. pt \in Seq(T)
    BY <1>3, <2>2, CreateOrModifyType
  <2>4. \A i \in DOMAIN pt : pt[i].obj \in DOMAIN objects
    BY <1>3, <1>4, <2>2, CreateOrModifyElements
  <2> HIDE DEF pt
  <2>5. object \in Regions /\ object.pt = pt
    BY <1>3, <2>3 DEF Regions
  <2> HIDE DEF object
  <2>6. UpdateObject(p, object)
    BY <1>5 DEF StorePtr, e, pt, object
  <2> QED
    BY <1>1, <1>2, <2>4, <2>5, <2>6, UpdateObjectType, KeptTypes, KeepObjectsInv
<1>6. CASE ~HasValue(handles, v)
  <2> DEFINE pt == Disabled(Object(p).pt, Offset(p))
             hv == CreateOrModify(Object(p).hv, HvEdge(Offset(p), v))
             object == [Object(p) EXCEPT !.pt = pt, !.hv = hv]
  <2>1. pt \in Seq(T) /\ \A i \in DOMAIN pt : pt[i].obj \in DOMAIN objects
    <3>1. Object(p).pt \in Seq(PtEdges(Issued \cup {Hidden}))
      BY <1>3
    <3>2. /\ pt \in Seq(PtEdges(Issued \cup {Hidden}))
          /\ DOMAIN pt = DOMAIN Object(p).pt
          /\ \A i \in DOMAIN Object(p).pt : pt[i].obj = Object(p).pt[i].obj
      BY <3>1, DisabledType
    <3> HIDE DEF pt
    <3> QED
      BY <1>4, <3>2
  <2>2. HvEdge(Offset(p), v) \in HvEdges
    BY <1>1, <1>3 DEF HvEdge, HvEdges
  <2>3. hv \in Seq(HvEdges)
    BY <1>3, <2>2, CreateOrModifyType
  <2> HIDE DEF pt, hv
  <2>4. object \in Regions /\ object.pt = pt
    BY <1>3, <2>1, <2>3 DEF Regions
  <2> HIDE DEF object
  <2>5. UpdateObject(p, object)
    BY <1>6 DEF StorePtr, pt, hv, object
  <2> QED
    BY <1>1, <1>2, <2>1, <2>4, <2>5, UpdateObjectType, KeptTypes, KeepObjectsInv
<1> QED
  BY <1>5, <1>6

\* Gep, GepUnknown and BitCast: only the handles and the container change.
LEMMA DeriveInv ==
    ASSUME GraphInv, NEW p \in heldPtrs, NEW off, NEW next \in Nat, nextVal <= next,
           CreateDerivedPointer(p, off, consts, next),
           objects' = objects, nextObj' = nextObj, status' = status,
           heldInts' = heldInts,
           \/ heldPtrs' = heldPtrs
           \/ heldPtrs' = heldPtrs \cup {DerivedValue(p, off, consts, next).id}
    PROVE  GraphInv'
<1>1. p \in Issued
  BY DEF GraphInv, TypeOK
<1>2. /\ nextVal' \in Nat /\ nextVal <= nextVal'
      /\ DerivedValue(p, off, consts, next).id \in Issued'
      /\ {Zero, 1} \subseteq DOMAIN consts' /\ DOMAIN consts' \subseteq Issued'
      /\ consts' \in [DOMAIN consts' -> Int]
      /\ handles' \in Seq(PtEdges({Zero}))'
      /\ \A i \in DOMAIN handles' : handles'[i].obj \in DOMAIN objects
  BY <1>1, CreateDerivedType
<1>3. heldPtrs \subseteq Issued'
  BY <1>2, KeptTypes
<1>4. heldPtrs' \subseteq Issued'
  BY <1>2, <1>3
<1> QED
  BY <1>2, <1>4, KeptTypes, KeepObjectsInv

LEMMA MemclearInv ==
    ASSUME GraphInv, NEW p \in heldPtrs, Memclear(p)
    PROVE  GraphInv'
<1> DEFINE off == DerivedOffset(p, Zero, consts, nextVal).id
           hv  == CreateOrModify(Object(p).hv, HvEdge(off, Zero))
<1>1. /\ p \in Issued /\ CanAccess(p) /\ nextVal \in Nat /\ nextVal <= nextVal
      /\ CreateDerivedPointer(p, Zero, consts, nextVal)
      /\ nextObj' = nextObj /\ status' = status
      /\ heldPtrs' = heldPtrs /\ heldInts' = heldInts
      /\ UpdateObject(p, [Object(p) EXCEPT !.hv = hv])
  BY DEF Memclear, GraphInv, TypeOK
<1>2. /\ nextVal' \in Nat /\ nextVal <= nextVal' /\ off \in Issued'
      /\ {Zero, 1} \subseteq DOMAIN consts' /\ DOMAIN consts' \subseteq Issued'
      /\ consts' \in [DOMAIN consts' -> Int]
      /\ handles' \in Seq(PtEdges({Zero}))'
      /\ \A i \in DOMAIN handles' : handles'[i].obj \in DOMAIN objects
  BY <1>1, CreateDerivedType
<1> HIDE DEF off
<1>3. Object(p).hv \in Seq(HvEdges')
  BY <1>1, <1>2, ObjectHvType
<1>4. HvEdge(off, Zero) \in HvEdges'
  BY <1>2 DEF HvEdge, HvEdges
<1>5. hv \in Seq(HvEdges')
  BY <1>3, <1>4, CreateOrModifyType
<1> HIDE DEF hv
<1> QED
  BY <1>1, <1>2, <1>5, WritePlainType, KeptTypes, KeepObjectsInv

LEMMA CmpPtrInv ==
    ASSUME GraphInv, NEW p \in heldPtrs, NEW q \in heldPtrs, CmpPtr(p, q)
    PROVE  GraphInv'
<1>1. /\ handles' = handles /\ objects' = objects /\ consts' = consts
      /\ nextObj' = nextObj /\ status' = status /\ heldPtrs' = heldPtrs
      /\ nextVal \in Nat /\ {Zero, 1} \subseteq Issued
  BY DEF CmpPtr, LearnInt, graphVars, GraphInv, TypeOK
<1>2. \/ nextVal' = nextVal + 1 /\ heldInts' = heldInts \cup {nextVal}
      \/ nextVal' = nextVal /\ heldInts' = heldInts \cup {1}
      \/ nextVal' = nextVal /\ heldInts' = heldInts \cup {Zero}
  BY DEF CmpPtr, LearnInt
<1>3. nextVal' \in Nat /\ nextVal <= nextVal'
  BY <1>1, <1>2
<1>4. nextVal' = nextVal + 1 => nextVal \in Issued'
  BY <1>1 DEF Issued
<1>5. Issued \subseteq Issued' /\ heldInts \subseteq Issued'
  BY <1>1, <1>3, KeptTypes
<1>6. heldInts' \subseteq Issued'
  BY <1>1, <1>2, <1>4, <1>5
<1> QED
  BY <1>1, <1>3, <1>6, KeptTypes, KeepObjectsInv

\* Nothing leads to the object any more when it is erased.
LEMMA FreeObjectInv ==
    ASSUME GraphInv, NEW p \in heldPtrs, FreeObject(p)
    PROVE  GraphInv'
<1> DEFINE o == Target(p)
           T == PtEdges(Issued \cup {Hidden})
<1>1. /\ p \in Issued /\ CanAccess(p)
      /\ handles' = Redirect(handles, o, FreedObj)
      /\ objects' = [x \in DOMAIN objects \ {o} |->
                        [objects[x] EXCEPT !.pt = Redirect(@, o, FreedObj)]]
      /\ consts' = consts /\ nextVal' = nextVal /\ nextObj' = nextObj
      /\ heldPtrs' = heldPtrs /\ heldInts' = heldInts /\ status' = status
  BY DEF FreeObject, vcVars, GraphInv, TypeOK
<1>2. o \in DOMAIN objects \ SpecialObjs /\ FreedObj \in SpecialObjs
  BY <1>1, AccessType DEF SpecialObjs
<1> HIDE DEF o
<1>3. /\ \A e \in PtEdges({Zero}) : Retarget(e, FreedObj) \in PtEdges({Zero})
      /\ \A e \in T : Retarget(e, FreedObj) \in T
  BY DEF PtEdges, Retarget, ObjectIds, SpecialObjs
<1>4. FreedObj \in DOMAIN objects' /\ DOMAIN objects' = DOMAIN objects \ {o}
      /\ SpecialObjs \subseteq DOMAIN objects'
  BY <1>1, <1>2 DEF GraphInv, TypeOK
<1>5. /\ handles' \in Seq(PtEdges({Zero}))
      /\ \A i \in DOMAIN handles' : handles'[i].obj \in DOMAIN objects'
  <2>1. handles \in Seq(PtEdges({Zero}))
        /\ \A i \in DOMAIN handles : handles[i].obj \in DOMAIN objects
    BY DEF GraphInv, TypeOK, NoDanglingTarget
  <2>2. /\ handles' \in Seq(PtEdges({Zero}))
        /\ DOMAIN handles' = DOMAIN handles
        /\ \A i \in DOMAIN handles : handles'[i] =
              IF handles[i].obj = o THEN Retarget(handles[i], FreedObj) ELSE handles[i]
    <3> DEFINE H == PtEdges({Zero})
    <3>1. handles \in Seq(H) /\ \A e \in H : Retarget(e, FreedObj) \in H
      BY <1>3, <2>1
    <3> HIDE DEF H
    <3>2. /\ Redirect(handles, o, FreedObj) \in Seq(H)
          /\ DOMAIN Redirect(handles, o, FreedObj) = DOMAIN handles
          /\ \A i \in DOMAIN handles : Redirect(handles, o, FreedObj)[i] =
                IF handles[i].obj = o THEN Retarget(handles[i], FreedObj) ELSE handles[i]
      BY <3>1, RedirectProperties
    <3> USE DEF H
    <3> QED
      BY <1>1, <3>2
  <2>3. \A i \in DOMAIN handles : handles[i] \in PtEdges({Zero})
    BY <2>1
  <2>4. \A e \in PtEdges({Zero}) : Retarget(e, FreedObj).obj = FreedObj
    BY DEF PtEdges, Retarget
  <2> QED
    BY <1>4, <2>1, <2>2, <2>3, <2>4
<1>6. ASSUME NEW x \in DOMAIN objects'
      PROVE  /\ objects'[x] \in Regions
             /\ \A i \in DOMAIN objects'[x].pt : objects'[x].pt[i].obj \in DOMAIN objects'
  <2> DEFINE pt == objects[x].pt
  <2>1. /\ x \in DOMAIN objects /\ objects[x] \in Regions /\ pt \in Seq(T)
        /\ \A i \in DOMAIN pt : pt[i].obj \in DOMAIN objects
    BY <1>4 DEF GraphInv, TypeOK, NoDanglingTarget, Regions
  <2>2. objects'[x] = [objects[x] EXCEPT !.pt = Redirect(pt, o, FreedObj)]
    BY <1>1, <1>4
  <2> HIDE DEF pt
  <2>3. /\ Redirect(pt, o, FreedObj) \in Seq(T)
        /\ DOMAIN Redirect(pt, o, FreedObj) = DOMAIN pt
        /\ \A i \in DOMAIN pt : Redirect(pt, o, FreedObj)[i] =
              IF pt[i].obj = o THEN Retarget(pt[i], FreedObj) ELSE pt[i]
    <3> HIDE DEF T
    <3> QED
      BY <1>3, <2>1, RedirectProperties
  <2>4. \A e \in T : Retarget(e, FreedObj).obj = FreedObj
    BY DEF PtEdges, Retarget
  <2>5. \A i \in DOMAIN pt : pt[i] \in T
    BY <2>1
  <2> HIDE DEF T
  <2>6. \A i \in DOMAIN pt : Redirect(pt, o, FreedObj)[i].obj \in DOMAIN objects'
    BY <1>4, <2>1, <2>3, <2>4, <2>5
  <2> USE DEF T
  <2>7. objects'[x] \in Regions /\ objects'[x].pt = Redirect(pt, o, FreedObj)
    BY <2>1, <2>2, <2>3 DEF Regions
  <2> QED
    BY <2>3, <2>6, <2>7
<1>7. TypeOK'
  <2>1. /\ Issued' = Issued /\ ObjectIds' = ObjectIds
        /\ PtEdges({Zero})' = PtEdges({Zero}) /\ Regions' = Regions
    BY <1>1 DEF Issued, ObjectIds, PtEdges, Regions, HvEdges
  <2>2. objects' \in [DOMAIN objects' -> Regions']
    BY <1>1, <1>6, <2>1
  <2> QED
    BY <1>1, <1>4, <1>5, <2>1, <2>2 DEF GraphInv, TypeOK
<1>8. NoDanglingTarget'
  BY <1>5, <1>6 DEF NoDanglingTarget
<1> QED
  BY <1>7, <1>8 DEF GraphInv

\* Every step preserves the invariant.
LEMMA NextInv == GraphInv /\ [Next]_vars => GraphInv'
<1> SUFFICES ASSUME GraphInv, [Next]_vars PROVE GraphInv'
  OBVIOUS
<1>1. CASE UNCHANGED vars
  BY <1>1 DEF vars, graphVars, vcVars, GraphInv, TypeOK, NoDanglingTarget, Issued,
              ObjectIds, PtEdges, Regions, HvEdges
<1>2. CASE Alloca \/ Malloc
  BY <1>2, AllocateInv DEF Alloca, Malloc, Spaces
<1>3. ASSUME NEW p \in heldPtrs, AccessFault(p) PROVE GraphInv'
  BY <1>3, FailInv DEF AccessFault, Statuses
<1>4. ASSUME NEW p \in heldPtrs, LoadInt(p) PROVE GraphInv'
  BY <1>4, LoadIntInv
<1>5. ASSUME NEW p \in heldPtrs, LoadPtr(p) PROVE GraphInv'
  BY <1>5, LoadPtrInv
<1>6. ASSUME NEW p \in heldPtrs, NEW v \in heldInts, StoreInt(p, v) PROVE GraphInv'
  BY <1>6, StoreIntInv
<1>7. ASSUME NEW p \in heldPtrs, NEW v \in heldPtrs, StorePtr(p, v) PROVE GraphInv'
  BY <1>7, StorePtrInv
<1>8. nextVal \in Nat /\ nextVal + 1 \in Nat /\ nextVal <= nextVal /\ nextVal <= nextVal + 1
  BY DEF GraphInv, TypeOK
<1>9. ASSUME NEW p \in heldPtrs, NEW off, Gep(p, off) PROVE GraphInv'
  BY <1>8, <1>9, DeriveInv DEF Gep, LearnPtr
<1>10. ASSUME NEW p \in heldPtrs, GepUnknown(p) PROVE GraphInv'
  BY <1>8, <1>10, DeriveInv DEF GepUnknown, LearnPtr
<1>11. ASSUME NEW p \in heldPtrs, BitCast(p) PROVE GraphInv'
  BY <1>8, <1>11, DeriveInv DEF BitCast
<1>12. ASSUME NEW p \in heldPtrs, Memclear(p) PROVE GraphInv'
  BY <1>12, MemclearInv
<1>13. ASSUME NEW p \in heldPtrs, NEW q \in heldPtrs, CmpPtr(p, q) PROVE GraphInv'
  BY <1>13, CmpPtrInv
<1>14. ASSUME NEW p \in heldPtrs, FreeFault(p) PROVE GraphInv'
  BY <1>14, FailInv DEF FreeFault, Statuses
<1>15. ASSUME NEW p \in heldPtrs, FreeObject(p) PROVE GraphInv'
  BY <1>15, FreeObjectInv
<1>16. ASSUME NEW p \in heldPtrs, FreeNull(p) PROVE GraphInv'
  BY <1>1, <1>16 DEF FreeNull
<1> QED
  BY <1>1, <1>2, <1>3, <1>4, <1>5, <1>6, <1>7, <1>9, <1>10, <1>11, <1>12, <1>13,
     <1>14, <1>15, <1>16 DEF Next

-----------------------------------------------------------------------------

\* In every reachable state, every id that appears anywhere was given out
\* before and every object is well formed, whatever the program does.
THEOREM TypeCorrect == Spec => []TypeOK
<1>1. GraphInv => TypeOK
  BY DEF GraphInv
<1> QED
  BY <1>1, InitInv, NextInv, PTL DEF Spec

\* Free (Graph.hpp:352) leaves no pointer edge, first or duplicate, visible
\* or disabled, into the object it erases, and nothing else creates one.
THEOREM NoDanglingCorrect == Spec => []NoDanglingTarget
<1>1. GraphInv => NoDanglingTarget
  BY DEF GraphInv
<1> QED
  BY <1>1, InitInv, NextInv, PTL DEF Spec

-----------------------------------------------------------------------------
(* What pointers denote.                                                   *)

\* The edge says of its value what a lookup in the handles hs says.
Backed(edge, hs) ==
    /\ HasValue(hs, edge.value)
    /\ FindByValue(hs, edge.value).obj = edge.obj
    /\ FindByValue(hs, edge.value).toff = edge.toff

\* A step that lets every lookup find the edge it found before.
SearchesKept ==
    \A v : HasValue(handles, v) =>
        HasValue(handles', v) /\ FindByValue(handles', v) = FindByValue(handles, v)

\* The inductive invariant of this section.
AgreeInv == GraphInv /\ StoredEdgesAgree /\ HandlesAgree

LEMMA StoredBacked ==
    StoredEdgesAgree <=>
        \A o \in DOMAIN objects : \A i \in DOMAIN objects[o].pt :
            Backed(objects[o].pt[i], handles)
BY DEF StoredEdgesAgree, Backed

LEMMA AppendKeepsSearches ==
    ASSUME NEW T, handles \in Seq(T), NEW e, handles' = Append(handles, e)
    PROVE  SearchesKept
<1>1. T \subseteq T \cup {e} /\ e \in T \cup {e}
  OBVIOUS
<1>2. handles \in Seq(T \cup {e})
  BY <1>1, SeqMonotonic
<1>3. ASSUME NEW U, handles \in Seq(U), e \in U PROVE SearchesKept
  BY <1>3, FindAfterAppend DEF SearchesKept
<1> QED
  BY <1>1, <1>2, <1>3

\* The unknown pointer and the derived one are appended behind.
LEMMA DeriveKeepsSearches ==
    ASSUME GraphInv, NEW base \in Issued, NEW off, NEW next,
           CreateDerivedPointer(base, off, consts, next)
    PROVE  SearchesKept
<1> DEFINE hs == HandlesAfterFind(base)
           e  == DerivedEdge(base, off, consts, next)
           T  == PtEdges({Zero})
<1>1. hs \in Seq(T) /\ handles \in Seq(T)
  BY FindPtEdgeType DEF GraphInv, TypeOK
<1>2. hs = handles \/ hs = Append(handles, UnknownPtEdge(base))
  BY DEF HandlesAfterFind
<1>3. handles' = Append(hs, e)
  BY DEF CreateDerivedPointer
<1> HIDE DEF hs, e, T
<1> DEFINE U == T \cup {e, UnknownPtEdge(base)}
<1>4. hs \in Seq(U) /\ handles \in Seq(U) /\ e \in U /\ UnknownPtEdge(base) \in U
  <2>1. T \subseteq U
    OBVIOUS
  <2> QED
    BY <1>1, <2>1, SeqMonotonic
<1> HIDE DEF U
<1>5. ASSUME NEW v, HasValue(handles, v)
      PROVE  HasValue(hs, v) /\ FindByValue(hs, v) = FindByValue(handles, v)
  <2>1. CASE hs = handles
    BY <1>5, <2>1
  <2>2. CASE hs = Append(handles, UnknownPtEdge(base))
    <3>1. /\ HasValue(Append(handles, UnknownPtEdge(base)), v)
          /\ FindByValue(Append(handles, UnknownPtEdge(base)), v) = FindByValue(handles, v)
      BY <1>4, <1>5, FindAfterAppend
    <3> QED
      BY <2>2, <3>1
  <2> QED
    BY <1>2, <2>1, <2>2
<1>6. ASSUME NEW v, HasValue(hs, v)
      PROVE  HasValue(handles', v) /\ FindByValue(handles', v) = FindByValue(hs, v)
  BY <1>3, <1>4, <1>6, FindAfterAppend
<1> QED
  BY <1>5, <1>6 DEF SearchesKept

\* Only an object's release changes what a lookup finds.
LEMMA NextSearches ==
    ASSUME GraphInv, [Next]_vars
    PROVE  SearchesKept \/ \E p \in heldPtrs : FreeObject(p)
<1>1. ASSUME handles' = handles PROVE SearchesKept
  BY <1>1 DEF SearchesKept
<1>2. heldPtrs \subseteq Issued /\ handles \in Seq(PtEdges({Zero}))
  BY DEF GraphInv, TypeOK
<1>3. CASE UNCHANGED vars
  BY <1>1, <1>3 DEF vars, graphVars
<1>4. CASE Alloca \/ Malloc
  BY <1>2, <1>4, AppendKeepsSearches DEF Alloca, Malloc, AllocateRegion
<1>5. ASSUME NEW p \in heldPtrs,
             \/ AccessFault(p) \/ LoadInt(p) \/ \E v : StoreInt(p, v)
             \/ \E v : StorePtr(p, v) \/ \E q : CmpPtr(p, q)
             \/ FreeFault(p) \/ FreeNull(p)
      PROVE  SearchesKept
  BY <1>1, <1>5 DEF AccessFault, LoadInt, StoreInt, StorePtr, CmpPtr, FreeFault,
                    FreeNull, Fail, vars, graphVars
<1>6. ASSUME NEW p \in heldPtrs, LoadPtr(p) PROVE SearchesKept
  <2>1. handles' = handles \/ \E e : handles' = Append(handles, e)
    BY <1>6 DEF LoadPtr
  <2> QED
    BY <1>1, <1>2, <2>1, AppendKeepsSearches
<1>7. ASSUME NEW p \in heldPtrs,
             \/ \E off : Gep(p, off)
             \/ GepUnknown(p) \/ BitCast(p) \/ Memclear(p)
      PROVE  SearchesKept
  <2>1. \E off, next : CreateDerivedPointer(p, off, consts, next)
    BY <1>7 DEF Gep, GepUnknown, BitCast, Memclear
  <2> QED
    BY <1>2, <2>1, DeriveKeepsSearches
<1> QED
  BY <1>3, <1>4, <1>5, <1>6, <1>7 DEF Next

\* A step that writes one object keeps the agreement if what it writes there
\* is agreed.
LEMMA UpdateAgree ==
    ASSUME GraphInv, StoredEdgesAgree, SearchesKept, NEW p \in Issued, CanAccess(p),
           NEW object, UpdateObject(p, object),
           \A i \in DOMAIN object.pt : Backed(object.pt[i], handles)
    PROVE  StoredEdgesAgree'
<1>1. objects' = [objects EXCEPT ![Target(p)] = object]
  BY DEF UpdateObject
<1>2. Target(p) \in DOMAIN objects
  BY AccessType
<1>3. ASSUME NEW o \in DOMAIN objects', NEW i \in DOMAIN objects'[o].pt
      PROVE  Backed(objects'[o].pt[i], handles)
  BY <1>1, <1>2, StoredBacked
<1>4. \A edge : Backed(edge, handles) => Backed(edge, handles')
  BY DEF Backed, SearchesKept
<1>5. \A o \in DOMAIN objects' : \A i \in DOMAIN objects'[o].pt :
         Backed(objects'[o].pt[i], handles')
  BY <1>3, <1>4
<1> QED
  BY <1>5 DEF StoredEdgesAgree, Backed

\* So does one that writes only plain values, and one that writes nothing.
LEMMA WritePlainAgree ==
    ASSUME GraphInv, StoredEdgesAgree, SearchesKept, NEW p \in Issued, CanAccess(p),
           NEW hv, UpdateObject(p, [Object(p) EXCEPT !.hv = hv])
    PROVE  StoredEdgesAgree'
<1> DEFINE object == [Object(p) EXCEPT !.hv = hv]
<1>1. Target(p) \in DOMAIN objects /\ Object(p) \in Regions
  BY AccessType
<1>2. object.pt = objects[Target(p)].pt
  BY <1>1 DEF Regions, Object
<1>3. \A i \in DOMAIN object.pt : Backed(object.pt[i], handles)
  <2> HIDE DEF object
  <2> QED BY <1>1, <1>2, StoredBacked
<1> QED
  BY <1>3, UpdateAgree

LEMMA KeepAgree ==
    ASSUME StoredEdgesAgree, SearchesKept, objects' = objects
    PROVE  StoredEdgesAgree'
BY DEF StoredEdgesAgree, SearchesKept

LEMMA AllocateAgree ==
    ASSUME GraphInv, StoredEdgesAgree, SearchesKept,
           NEW space, AllocateRegion(space)
    PROVE  StoredEdgesAgree'
<1>1. objects' = [o \in DOMAIN objects \cup {nextObj} |->
                     IF o = nextObj THEN NewObject(space) ELSE objects[o]]
  BY DEF AllocateRegion
<1>2. \A edge : Backed(edge, handles) => Backed(edge, handles')
  BY DEF Backed, SearchesKept
<1>3. ASSUME NEW o \in DOMAIN objects', NEW i \in DOMAIN objects'[o].pt
      PROVE  Backed(objects'[o].pt[i], handles)
  <2>1. o # nextObj
    BY <1>1 DEF NewObject
  <2> QED
    BY <1>1, <2>1, StoredBacked
<1> QED
  BY <1>2, <1>3 DEF StoredEdgesAgree, Backed

\* A store copies the edge that a lookup finds, or hides one.
LEMMA StorePtrAgree ==
    ASSUME GraphInv, StoredEdgesAgree, SearchesKept,
           NEW p \in heldPtrs, NEW v \in heldPtrs, StorePtr(p, v)
    PROVE  StoredEdgesAgree'
<1> DEFINE T == PtEdges(Issued \cup {Hidden})
<1>1. p \in Issued /\ v \in Issued /\ CanAccess(p) /\ Offset(p) \in Issued
  BY AccessType DEF StorePtr, GraphInv, TypeOK
<1>2. /\ Target(p) \in DOMAIN objects /\ Object(p) \in Regions
      /\ Object(p).pt \in Seq(T)
  BY <1>1, AccessType DEF Regions
<1>3. \A i \in DOMAIN Object(p).pt : Backed(Object(p).pt[i], handles)
  BY <1>2, StoredBacked DEF Object
<1>4. CASE HasValue(handles, v)
  <2> DEFINE e  == MovedTo(FindByValue(handles, v), Offset(p))
             pt == CreateOrModify(Object(p).pt, e)
             object == [Object(p) EXCEPT !.pt = pt]
  <2>1. FindByValue(handles, v) \in PtEdges({Zero}) /\ FindByValue(handles, v).value = v
    BY <1>4, FindByValueType DEF GraphInv, TypeOK
  <2>2. /\ e \in T /\ e.value = v
        /\ e.obj = FindByValue(handles, v).obj /\ e.toff = FindByValue(handles, v).toff
    BY <1>1, <2>1 DEF MovedTo, PtEdges
  <2> HIDE DEF e
  <2>3. Backed(e, handles)
    BY <1>4, <2>2 DEF Backed
  <2> HIDE DEF T
  <2>4. \A i \in DOMAIN pt : Backed(pt[i], handles)
    BY <1>2, <1>3, <2>2, <2>3, CreateOrModifyElements
  <2> HIDE DEF pt
  <2>5. object.pt = pt
    BY <1>2 DEF Regions
  <2> HIDE DEF object
  <2>6. UpdateObject(p, object)
    BY <1>4 DEF StorePtr, e, pt, object
  <2> QED
    BY <1>1, <2>4, <2>5, <2>6, UpdateAgree
<1>5. CASE ~HasValue(handles, v)
  <2> DEFINE pt == Disabled(Object(p).pt, Offset(p))
             hv == CreateOrModify(Object(p).hv, HvEdge(Offset(p), v))
             object == [Object(p) EXCEPT !.pt = pt, !.hv = hv]
  <2>1. \A i \in DOMAIN pt : Backed(pt[i], handles)
    <3>1. /\ DOMAIN pt = DOMAIN Object(p).pt
          /\ \A i \in DOMAIN Object(p).pt :
                /\ pt[i].obj = Object(p).pt[i].obj
                /\ pt[i].value = Object(p).pt[i].value
                /\ pt[i].toff = Object(p).pt[i].toff
      BY <1>2, DisabledType
    <3> HIDE DEF pt
    <3> QED
      BY <1>3, <3>1 DEF Backed
  <2> HIDE DEF pt, hv
  <2>2. object.pt = pt
    BY <1>2 DEF Regions
  <2> HIDE DEF object
  <2>3. UpdateObject(p, object)
    BY <1>5 DEF StorePtr, pt, hv, object
  <2> QED
    BY <1>1, <2>1, <2>2, <2>3, UpdateAgree
<1> QED
  BY <1>4, <1>5

\* When an object is freed, every edge is kept or leads to the freed object,
\* in the handles as in memory.
LEMMA FreeEdges ==
    ASSUME GraphInv, NEW p \in heldPtrs, FreeObject(p)
    PROVE  LET o == Target(p)
               After(e) == IF e.obj = o THEN Retarget(e, FreedObj) ELSE e
           IN  /\ o \in DOMAIN objects /\ DOMAIN objects' = DOMAIN objects \ {o}
               /\ DOMAIN handles' = DOMAIN handles
               /\ \A i \in DOMAIN handles : handles'[i] = After(handles[i])
               /\ \A v : HasValue(handles, v) =>
                     /\ HasValue(handles', v)
                     /\ FindByValue(handles', v) = After(FindByValue(handles, v))
               /\ \A x \in DOMAIN objects' :
                     /\ DOMAIN objects'[x].pt = DOMAIN objects[x].pt
                     /\ \A i \in DOMAIN objects[x].pt :
                           objects'[x].pt[i] = After(objects[x].pt[i])
<1> DEFINE o == Target(p)
           H == PtEdges({Zero})
           T == PtEdges(Issued \cup {Hidden})
<1>1. /\ p \in Issued /\ CanAccess(p)
      /\ handles' = Redirect(handles, o, FreedObj)
      /\ objects' = [x \in DOMAIN objects \ {o} |->
                        [objects[x] EXCEPT !.pt = Redirect(@, o, FreedObj)]]
  BY DEF FreeObject, GraphInv, TypeOK
<1>2. o \in DOMAIN objects
  BY <1>1, AccessType
<1>3. /\ \A e \in H : Retarget(e, FreedObj) \in H /\ Retarget(e, FreedObj).value = e.value
      /\ \A e \in T : Retarget(e, FreedObj) \in T
  BY DEF PtEdges, Retarget, ObjectIds, SpecialObjs
<1>4. handles \in Seq(H)
  BY DEF GraphInv, TypeOK
<1>5. ASSUME NEW x \in DOMAIN objects'
      PROVE  objects[x].pt \in Seq(T) /\ objects'[x].pt = Redirect(objects[x].pt, o, FreedObj)
  <2>1. objects[x] \in Regions /\ x \in DOMAIN objects \ {o}
    BY <1>1, <1>5 DEF GraphInv, TypeOK
  <2> QED
    BY <1>1, <2>1 DEF Regions
<1> HIDE DEF o, H, T
<1>6. /\ DOMAIN handles' = DOMAIN handles
      /\ \A i \in DOMAIN handles : handles'[i] =
            IF handles[i].obj = o THEN Retarget(handles[i], FreedObj) ELSE handles[i]
  BY <1>1, <1>3, <1>4, RedirectProperties
<1>7. ASSUME NEW v, HasValue(handles, v)
      PROVE  /\ HasValue(handles', v)
             /\ FindByValue(handles', v) =
                   IF FindByValue(handles, v).obj = o
                   THEN Retarget(FindByValue(handles, v), FreedObj)
                   ELSE FindByValue(handles, v)
  BY <1>1, <1>3, <1>4, <1>7, FindAfterRedirect
<1>8. ASSUME NEW x \in DOMAIN objects'
      PROVE  /\ DOMAIN objects'[x].pt = DOMAIN objects[x].pt
             /\ \A i \in DOMAIN objects[x].pt : objects'[x].pt[i] =
                   IF objects[x].pt[i].obj = o
                   THEN Retarget(objects[x].pt[i], FreedObj) ELSE objects[x].pt[i]
  BY <1>3, <1>5, RedirectProperties
<1>9. DOMAIN objects' = DOMAIN objects \ {o}
  BY <1>1
<1> QED
  BY <1>2, <1>6, <1>7, <1>8, <1>9 DEF o

LEMMA FreeObjectAgree ==
    ASSUME GraphInv, StoredEdgesAgree, NEW p \in heldPtrs, FreeObject(p)
    PROVE  StoredEdgesAgree'
<1> DEFINE o == Target(p)
           T == PtEdges(Issued \cup {Hidden})
<1>1. \A e \in T \cup PtEdges({Zero}) :
         /\ Retarget(e, FreedObj).value = e.value
         /\ Retarget(e, FreedObj).toff = e.toff
         /\ Retarget(e, FreedObj).obj = FreedObj
  BY DEF PtEdges, Retarget
<1> SUFFICES ASSUME NEW x \in DOMAIN objects', NEW i \in DOMAIN objects'[x].pt
             PROVE  Backed(objects'[x].pt[i], handles')
  BY DEF StoredEdgesAgree, Backed
<1> DEFINE e == objects[x].pt[i]
<1>2. /\ x \in DOMAIN objects /\ i \in DOMAIN objects[x].pt
      /\ objects'[x].pt[i] = IF e.obj = o THEN Retarget(e, FreedObj) ELSE e
      /\ \A v : HasValue(handles, v) =>
            /\ HasValue(handles', v)
            /\ FindByValue(handles', v) =
                  IF FindByValue(handles, v).obj = o
                  THEN Retarget(FindByValue(handles, v), FreedObj)
                  ELSE FindByValue(handles, v)
  BY FreeEdges
<1>3. e \in T
  <2>1. objects[x].pt \in Seq(T)
    BY <1>2 DEF GraphInv, TypeOK, Regions
  <2> QED
    BY <1>2, <2>1
<1>4. Backed(e, handles)
  BY <1>2, StoredBacked
<1>5. FindByValue(handles, e.value) \in PtEdges({Zero})
  BY <1>4, FindByValueType DEF Backed, GraphInv, TypeOK
<1> HIDE DEF e, o, T
<1> QED
  BY <1>1, <1>2, <1>3, <1>4, <1>5 DEF Backed

LEMMA NextStoredAgree ==
    ASSUME GraphInv, StoredEdgesAgree, [Next]_vars
    PROVE  StoredEdgesAgree'
<1>1. ASSUME NEW p \in heldPtrs, FreeObject(p) PROVE StoredEdgesAgree'
  BY <1>1, FreeObjectAgree
<1> SUFFICES ASSUME SearchesKept PROVE StoredEdgesAgree'
  BY <1>1, NextSearches
<1>2. heldPtrs \subseteq Issued
  BY DEF GraphInv, TypeOK
<1>3. ASSUME objects' = objects PROVE StoredEdgesAgree'
  BY <1>3, KeepAgree
<1>4. CASE UNCHANGED vars
  BY <1>3, <1>4 DEF vars, graphVars
<1>5. CASE Alloca \/ Malloc
  BY <1>5, AllocateAgree DEF Alloca, Malloc
<1>6. ASSUME NEW p \in heldPtrs,
             \/ AccessFault(p) \/ FreeFault(p) \/ FreeNull(p) \/ GepUnknown(p)
             \/ BitCast(p) \/ \E off : Gep(p, off) \/ \E q : CmpPtr(p, q)
      PROVE  StoredEdgesAgree'
  BY <1>3, <1>6 DEF AccessFault, FreeFault, Fail, FreeNull, GepUnknown, BitCast, Gep,
                    CmpPtr, vars, graphVars
<1>7. ASSUME NEW p \in heldPtrs, LoadInt(p) \/ LoadPtr(p) PROVE StoredEdgesAgree'
  <2>1. \/ objects' = objects
        \/ UpdateObject(p, [Object(p) EXCEPT !.hv =
                               Append(@, HvEdge(Offset(p), nextVal))])
    BY <1>7 DEF LoadInt, LoadPtr, ReadPlain
  <2>2. CanAccess(p)
    BY <1>7 DEF LoadInt, LoadPtr
  <2> QED
    BY <1>2, <1>3, <2>1, <2>2, WritePlainAgree
<1>8. ASSUME NEW p \in heldPtrs, NEW v, StoreInt(p, v) PROVE StoredEdgesAgree'
  BY <1>2, <1>8, WritePlainAgree DEF StoreInt
<1>9. ASSUME NEW p \in heldPtrs, NEW v \in heldPtrs, StorePtr(p, v)
      PROVE  StoredEdgesAgree'
  BY <1>9, StorePtrAgree
<1>10. ASSUME NEW p \in heldPtrs, Memclear(p) PROVE StoredEdgesAgree'
  BY <1>2, <1>10, WritePlainAgree DEF Memclear
<1> QED
  BY <1>1, <1>4, <1>5, <1>6, <1>7, <1>8, <1>9, <1>10 DEF Next

\* The result of an addition is a constant or a new value.
LEMMA AddFresh ==
    ASSUME NEW c, NEW next, NEW a, NEW b
    PROVE  LET r == Add(c, next, a, b) IN r.id \in DOMAIN r.consts \/ r.id = next
<1> DEFINE sum == c[a] + c[b]
           r   == Add(c, next, a, b)
<1>1. CASE ~({a, b} \subseteq DOMAIN c)
  BY <1>1 DEF Add
<1>2. CASE {a, b} \subseteq DOMAIN c /\ ConstIds(c, sum) # {}
  <2>1. r = [id |-> CHOOSE v \in ConstIds(c, sum) : TRUE, consts |-> c, next |-> next]
    BY <1>2 DEF Add
  <2>2. (CHOOSE v \in ConstIds(c, sum) : TRUE) \in DOMAIN c
    BY <1>2 DEF ConstIds
  <2> QED
    BY <2>1, <2>2
<1>3. CASE {a, b} \subseteq DOMAIN c /\ ConstIds(c, sum) = {}
  BY <1>3 DEF Add
<1> QED
  BY <1>1, <1>2, <1>3

\* An appended edge that agrees with all edges of its value, or whose value
\* is a constant, keeps the handles in agreement.
LEMMA AppendAgrees ==
    ASSUME HandlesAgree, DOMAIN consts \subseteq DOMAIN consts',
           NEW T, handles \in Seq(T), NEW e, handles' = Append(handles, e),
           \/ e.value \in DOMAIN consts'
           \/ \A i \in DOMAIN handles : handles[i].value = e.value =>
                 handles[i].obj = e.obj /\ handles[i].toff = e.toff
    PROVE  HandlesAgree'
<1>1. /\ DOMAIN handles' = 1 .. Len(handles) + 1
      /\ DOMAIN handles = 1 .. Len(handles) /\ Len(handles) \in Nat
      /\ handles'[Len(handles) + 1] = e
      /\ \A i \in DOMAIN handles : handles'[i] = handles[i]
  BY AppendProperties
<1>2. \A i \in DOMAIN handles' : i \in DOMAIN handles \/ handles'[i] = e
  BY <1>1
<1> QED
  BY <1>1, <1>2 DEF HandlesAgree, IsConstant

LEMMA KeepHandlesAgree ==
    ASSUME HandlesAgree, DOMAIN consts \subseteq DOMAIN consts', handles' = handles
    PROVE  HandlesAgree'
BY DEF HandlesAgree, IsConstant

\* A derived pointer is a new value or a number.
LEMMA DeriveAgree ==
    ASSUME GraphInv, HandlesAgree, NEW base \in Issued, NEW off,
           NEW next \in Nat, nextVal <= next,
           CreateDerivedPointer(base, off, consts, next)
    PROVE  HandlesAgree'
<1> DEFINE o  == DerivedOffset(base, off, consts, next)
           d  == DerivedValue(base, off, consts, next)
           e  == DerivedEdge(base, off, consts, next)
           hs == HandlesAfterFind(base)
           T  == PtEdges({Zero})
<1>1. /\ consts \in [DOMAIN consts -> Int] /\ DOMAIN consts \subseteq 0 .. next - 1
      /\ nextVal \in Nat /\ handles \in Seq(T)
  BY DEF GraphInv, TypeOK, Issued
<1>2. /\ next <= o.next /\ o.next \in Nat /\ DOMAIN consts \subseteq DOMAIN o.consts
      /\ o.consts \in [DOMAIN o.consts -> Int]
      /\ DOMAIN o.consts \subseteq 0 .. o.next - 1
  BY <1>1, AddType DEF DerivedOffset
<1>3. d = Add(o.consts, o.next, base, o.id)
  BY DEF DerivedValue
<1>4. DOMAIN o.consts \subseteq DOMAIN d.consts /\ (d.id \in DOMAIN d.consts \/ d.id = o.next)
  <2> HIDE DEF o, d
  <2> QED BY <1>2, <1>3, AddType, AddFresh
<1>5. consts' = d.consts /\ handles' = Append(hs, e)
  BY DEF CreateDerivedPointer
<1>6. hs \in Seq(T) /\ FindPtEdge(base) \in T
  BY FindPtEdgeType
<1>7. e.value = d.id
  BY <1>6 DEF DerivedEdge, PtEdges
<1>8. hs = handles \/ (~HasValue(handles, base) /\ hs = Append(handles, UnknownPtEdge(base)))
  BY DEF HandlesAfterFind
<1>9. \A i \in DOMAIN hs : hs[i].value \in Issued
  <2>1. \A i \in DOMAIN hs : hs[i] \in T
    BY <1>6
  <2> QED
    BY <2>1 DEF PtEdges
<1>10. e.value \in DOMAIN consts' \/ e.value \notin Issued
  <2> HIDE DEF o, d, e
  <2> QED BY <1>1, <1>2, <1>4, <1>5, <1>7 DEF Issued
<1>11. DOMAIN consts \subseteq DOMAIN consts'
  BY <1>2, <1>4, <1>5
<1> HIDE DEF o, d, e, hs, T
<1>12. \A i, j \in DOMAIN hs :
         hs[i].value = hs[j].value /\ hs[i].value \notin DOMAIN consts =>
            hs[i].obj = hs[j].obj /\ hs[i].toff = hs[j].toff
  <2>1. CASE hs = handles
    BY <2>1 DEF HandlesAgree, IsConstant
  <2>2. CASE ~HasValue(handles, base) /\ hs = Append(handles, UnknownPtEdge(base))
    <3>1. /\ DOMAIN hs = 1 .. Len(handles) + 1
          /\ DOMAIN handles = 1 .. Len(handles) /\ Len(handles) \in Nat
          /\ hs[Len(handles) + 1] = UnknownPtEdge(base)
          /\ \A i \in DOMAIN handles : hs[i] = handles[i]
      BY <1>1, <2>2, AppendProperties
    <3>2. \A i \in DOMAIN hs : i \in DOMAIN handles \/ hs[i] = UnknownPtEdge(base)
      BY <3>1
    <3>3. \A i \in DOMAIN handles : handles[i].value # UnknownPtEdge(base).value
      BY <2>2 DEF HasValue, OfValue, UnknownPtEdge, PtEdge
    <3> QED
      BY <3>1, <3>2, <3>3 DEF HandlesAgree, IsConstant
  <2> QED
    BY <1>8, <2>1, <2>2
<1>13. /\ DOMAIN handles' = 1 .. Len(hs) + 1
       /\ DOMAIN hs = 1 .. Len(hs) /\ Len(hs) \in Nat
       /\ handles'[Len(hs) + 1] = e
       /\ \A i \in DOMAIN hs : handles'[i] = hs[i]
  BY <1>5, <1>6, AppendProperties
<1>14. \A i \in DOMAIN handles' : i \in DOMAIN hs \/ handles'[i] = e
  BY <1>13
<1> QED
  BY <1>9, <1>10, <1>11, <1>12, <1>13, <1>14 DEF HandlesAgree, IsConstant

\* The edge a load finds in memory agrees with the handles already there.
LEMMA LoadPtrAgree ==
    ASSUME AgreeInv, NEW p \in heldPtrs, LoadPtr(p)
    PROVE  HandlesAgree'
<1> DEFINE edge == FindByOffset(Object(p).pt, Offset(p))
           T    == PtEdges(Issued \cup {Hidden})
<1>1. /\ p \in Issued /\ CanAccess(p) /\ consts' = consts
      /\ handles \in Seq(PtEdges({Zero})) /\ GraphInv
  BY DEF AgreeInv, LoadPtr, GraphInv, TypeOK
<1>2. CASE handles' = handles
  BY <1>1, <1>2, KeepHandlesAgree DEF AgreeInv
<1>3. CASE HasOffset(Object(p).pt, Offset(p)) /\ handles' = Append(handles, MovedTo(edge, Zero))
  <2>1. Object(p).pt \in Seq(T) /\ Target(p) \in DOMAIN objects
    BY <1>1, AccessType DEF Regions
  <2>2. edge \in T /\ First(AtOffset(Object(p).pt, Offset(p))) \in DOMAIN Object(p).pt
    BY <1>3, <2>1, FindByOffsetType
  <2>3. Backed(edge, handles)
    BY <2>1, <2>2, StoredBacked DEF AgreeInv, Object, FindByOffset
  <2> HIDE DEF edge
  <2>4. /\ MovedTo(edge, Zero).value = edge.value /\ MovedTo(edge, Zero).obj = edge.obj
        /\ MovedTo(edge, Zero).toff = edge.toff
    BY <2>2 DEF MovedTo, PtEdges
  <2> DEFINE f == First(OfValue(handles, edge.value))
  <2>5. /\ f \in DOMAIN handles /\ handles[f].value = edge.value
        /\ handles[f].obj = edge.obj /\ handles[f].toff = edge.toff
    BY <1>1, <2>3, FindByValueType DEF Backed, FindByValue
  <2> HIDE DEF f
  <2>6. \/ edge.value \in DOMAIN consts
        \/ \A i \in DOMAIN handles : handles[i].value = edge.value =>
              handles[i].obj = edge.obj /\ handles[i].toff = edge.toff
    BY <2>5 DEF AgreeInv, HandlesAgree, IsConstant
  <2> DEFINE e == MovedTo(edge, Zero)
  <2>7. /\ e.value = edge.value /\ e.obj = edge.obj /\ e.toff = edge.toff
        /\ handles' = Append(handles, e)
    BY <1>3, <2>4
  <2> HIDE DEF e
  <2>8. HandlesAgree /\ DOMAIN consts \subseteq DOMAIN consts'
    BY <1>1 DEF AgreeInv
  <2>9. \/ e.value \in DOMAIN consts'
        \/ \A i \in DOMAIN handles : handles[i].value = e.value =>
              handles[i].obj = e.obj /\ handles[i].toff = e.toff
    BY <1>1, <2>6, <2>7
  <2> QED
    BY <1>1, <2>7, <2>8, <2>9, AppendAgrees
<1> QED
  BY <1>2, <1>3 DEF LoadPtr

LEMMA NextHandlesAgree ==
    ASSUME AgreeInv, [Next]_vars
    PROVE  HandlesAgree'
<1>1. /\ heldPtrs \subseteq Issued /\ nextVal \in Nat /\ GraphInv /\ HandlesAgree
      /\ handles \in Seq(PtEdges({Zero}))
  BY DEF AgreeInv, GraphInv, TypeOK
<1>2. ASSUME handles' = handles, consts' = consts PROVE HandlesAgree'
  BY <1>1, <1>2, KeepHandlesAgree
<1>3. CASE UNCHANGED vars
  BY <1>2, <1>3 DEF vars, graphVars, vcVars
<1>4. CASE Alloca \/ Malloc
  <2> DEFINE e == PtEdge(Zero, nextVal, nextObj, Zero)
  <2>1. handles' = Append(handles, e) /\ consts' = consts
    BY <1>4 DEF Alloca, Malloc, AllocateRegion
  <2>2. \A i \in DOMAIN handles : handles[i].value # e.value
    <3>1. \A i \in DOMAIN handles : handles[i] \in PtEdges({Zero})
      BY <1>1
    <3> QED
      BY <1>1, <3>1 DEF PtEdges, PtEdge, Issued
  <2> HIDE DEF e
  <2> QED
    BY <1>1, <2>1, <2>2, AppendAgrees
<1>5. ASSUME NEW p \in heldPtrs,
             \/ AccessFault(p) \/ LoadInt(p) \/ \E v : StoreInt(p, v)
             \/ \E v : StorePtr(p, v) \/ \E q : CmpPtr(p, q)
             \/ FreeFault(p) \/ FreeNull(p)
      PROVE  HandlesAgree'
  BY <1>2, <1>5 DEF AccessFault, LoadInt, StoreInt, StorePtr, CmpPtr, FreeFault,
                    FreeNull, Fail, vars, graphVars, vcVars
<1>6. ASSUME NEW p \in heldPtrs, LoadPtr(p) PROVE HandlesAgree'
  BY <1>6, LoadPtrAgree
<1>7. ASSUME NEW p \in heldPtrs,
             \/ \E off : Gep(p, off)
             \/ GepUnknown(p) \/ BitCast(p) \/ Memclear(p)
      PROVE  HandlesAgree'
  <2>1. \E off : \E next \in Nat :
           nextVal <= next /\ CreateDerivedPointer(p, off, consts, next)
    <3>1. nextVal \in Nat /\ nextVal + 1 \in Nat /\ nextVal <= nextVal /\ nextVal <= nextVal + 1
      BY <1>1
    <3> QED
      BY <1>7, <3>1 DEF Gep, GepUnknown, BitCast, Memclear
  <2> QED
    BY <1>1, <2>1, DeriveAgree
<1>8. ASSUME NEW p \in heldPtrs, FreeObject(p) PROVE HandlesAgree'
  <2>1. consts' = consts
    BY <1>8 DEF FreeObject, vcVars
  <2>2. /\ DOMAIN handles' = DOMAIN handles
        /\ \A i \in DOMAIN handles : handles'[i] =
              IF handles[i].obj = Target(p) THEN Retarget(handles[i], FreedObj)
              ELSE handles[i]
    BY <1>1, <1>8, FreeEdges
  <2>3. \A i \in DOMAIN handles :
           /\ Retarget(handles[i], FreedObj).value = handles[i].value
           /\ Retarget(handles[i], FreedObj).toff = handles[i].toff
           /\ Retarget(handles[i], FreedObj).obj = FreedObj
    <3>1. \A i \in DOMAIN handles : handles[i] \in PtEdges({Zero})
      BY <1>1
    <3> QED
      BY <3>1 DEF PtEdges, Retarget
  <2> QED
    BY <1>1, <2>1, <2>2, <2>3 DEF HandlesAgree, IsConstant
<1> QED
  BY <1>3, <1>4, <1>5, <1>6, <1>7, <1>8 DEF Next

LEMMA InitAgree == Init => AgreeInv
<1> SUFFICES ASSUME Init PROVE AgreeInv
  OBVIOUS
<1>1. GraphInv
  BY InitInv
<1>2. StoredEdgesAgree
  BY DEF Init, NewObject, StoredEdgesAgree
<1>3. HandlesAgree
  BY DEF Init, HandlesAgree
<1> QED
  BY <1>1, <1>2, <1>3 DEF AgreeInv

LEMMA AgreeNext == AgreeInv /\ [Next]_vars => AgreeInv'
BY NextInv, NextStoredAgree, NextHandlesAgree DEF AgreeInv

\* A pointer kept in memory and the handles say the same of its target, so
\* that what a load brings back (Graph::ReadValue) contradicts nothing.
THEOREM StoredEdgesCorrect == Spec => []StoredEdgesAgree
<1>1. AgreeInv => StoredEdgesAgree
  BY DEF AgreeInv
<1> QED
  BY <1>1, InitAgree, AgreeNext, PTL DEF Spec

\* Duplicate handle edges of one unknown value never contradict each other.
THEOREM HandlesCorrect == Spec => []HandlesAgree
<1>1. AgreeInv => HandlesAgree
  BY DEF AgreeInv
<1> QED
  BY <1>1, InitAgree, AgreeNext, PTL DEF Spec

\* What a pointer denotes is settled when it first appears; only the release
\* of its object changes it.
THEOREM DenotationCorrect == Spec => DenotationStable
<1>1. GraphInv /\ [Next]_vars => [DenotationKept]_vars
  <2> SUFFICES ASSUME GraphInv, [Next]_vars PROVE DenotationKept
    OBVIOUS
  <2>1. ASSUME NEW v \in {handles[i].value : i \in DOMAIN handles}
        PROVE  HasValue(handles, v)
    BY DEF HasValue, OfValue
  <2>2. CASE SearchesKept
    BY <2>1, <2>2 DEF SearchesKept, DenotationKept
  <2>3. ASSUME NEW p \in heldPtrs, FreeObject(p) PROVE DenotationKept
    <3> SUFFICES ASSUME NEW v, HasValue(handles, v)
                 PROVE  /\ HasValue(handles', v)
                        /\ FindByValue(handles', v).toff = FindByValue(handles, v).toff
                        /\ \/ FindByValue(handles', v).obj = FindByValue(handles, v).obj
                           \/ /\ FindByValue(handles', v).obj = FreedObj
                              /\ FindByValue(handles, v).obj \in DOMAIN objects \ DOMAIN objects'
      BY <2>1 DEF DenotationKept
    <3>1. FindByValue(handles, v) \in PtEdges({Zero})
      BY FindByValueType DEF GraphInv, TypeOK
    <3>2. /\ Retarget(FindByValue(handles, v), FreedObj).toff = FindByValue(handles, v).toff
          /\ Retarget(FindByValue(handles, v), FreedObj).obj = FreedObj
      BY <3>1 DEF PtEdges, Retarget
    <3> QED
      BY <2>3, <3>2, FreeEdges
  <2> QED
    BY <2>2, <2>3, NextSearches
<1> QED
  BY <1>1, InitInv, NextInv, PTL DEF Spec, DenotationStable
=============================================================================
