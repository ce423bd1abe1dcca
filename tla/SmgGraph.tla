------------------------------ MODULE SmgGraph ------------------------------
(***************************************************************************)
(* The symbolic memory graph of one analysis path (Smg/Graph.hpp) driven   *)
(* by the memory operations of MemoryGraphAnalysis.hpp.                    *)
(*                                                                         *)
(* A path is one chain of states of the analyser, from the entry of the    *)
(* program to an error or an exit; every step of it executes one LLVM      *)
(* instruction on a copy of the previous state.  When an instruction       *)
(* throws an AnalysisErrorException the copy is dropped and the path ends, *)
(* so the graph the copy had reached is never seen: `status` alone changes.*)
(*                                                                         *)
(* The SSA registers of the program are abstracted to the values they      *)
(* hold: heldPtrs for registers of pointer type, heldInts for the others.  *)
(* SSA registers are never overwritten, so both sets only grow.            *)
(***************************************************************************)
EXTENDS Integers, Sequences, FiniteSets, SmgEdges

CONSTANTS
    MaxConst,     \* constants 0..MaxConst and -1..-(MaxConst-1) are created
                  \* before the first state, in this order (1000 in the code)
    Instructions, \* the memory instructions the program contains
    IntConstants, \* the integer constants the program stores
    GepOffsets,   \* the constant byte offsets its getelementptr compute
    MaxVal,       \* bound: ValueIds are 0..MaxVal-1
    MaxObj,       \* bound: allocated ObjectIds are 1..MaxObj
    MaxHandles,   \* bound on the number of handle edges
    MaxEdges      \* bound on the number of edges stored in one object

ASSUME MaxConstAssumption == MaxConst \in Nat \ {0}
ASSUME IntConstantsAssumption == IntConstants \subseteq 0 .. MaxConst
ASSUME GepOffsetsAssumption == GepOffsets \subseteq (1 - MaxConst) .. MaxConst
ASSUME BoundsAssumption ==
    {MaxVal, MaxObj, MaxHandles, MaxEdges} \subseteq Nat /\ 2 * MaxConst <= MaxVal

VARIABLES
    handles,   \* Graph::handles.ptEdges: which pointer value denotes what
    objects,   \* Graph::objects: ObjectId -> object
    consts,    \* ValueContainer::constantContainer: ValueId -> integer
    nextVal,   \* ValueId::nextIdToGive
    nextObj,   \* ObjectId::nextIdToGive
    heldPtrs,  \* values of the pointer-typed registers and constants
    heldInts,  \* values of the integer-typed ones
    status     \* "ok", or the error that ended the path

graphVars == <<handles, objects>>
vcVars    == <<consts, nextVal>>
vars      == <<graphVars, vcVars, nextObj, heldPtrs, heldInts, status>>

NullObj    == 0
UnknownObj == -1
FreedObj   == -2
SpecialObjs == {NullObj, UnknownObj, FreedObj}

Zero   == 0    \* the first ValueId given; also what ValueId{} is
Hidden == -1   \* ValueId{(uint64_t)-1}, the offset of a disabled edge

Spaces   == {"Heap", "Stack"}
Statuses == {"ok", "nullDeref", "invalidDeref",
             "invalidFree", "doubleFree", "nonHeapFree"}

\* Region::Create
NewObject(space) == [hv |-> <<>>, pt |-> <<>>, space |-> space]

-----------------------------------------------------------------------------
(* The value container, as far as pointers need it.                        *)

IsConstant(v) == v \in DOMAIN consts

\* CreateConstIntVal: constants are unique, the id is looked up by value.
ConstIds(c, n) == {v \in DOMAIN c : c[v] = n}

\* The result of BinOp Add with default flags: folded when both operands
\* are constants, otherwise a new unknown value.  c and next are the
\* container's map and id counter before the call.
Add(c, next, a, b) ==
    LET sum == c[a] + c[b]
    IN  IF {a, b} \subseteq DOMAIN c
        THEN IF ConstIds(c, sum) # {}
             THEN [id |-> CHOOSE v \in ConstIds(c, sum) : TRUE,
                   consts |-> c, next |-> next]
             ELSE [id |-> next, next |-> next + 1,
                   consts |-> [v \in DOMAIN c \cup {next} |->
                                  IF v = next THEN sum ELSE c[v]]]
        ELSE [id |-> next, consts |-> c, next |-> next + 1]

-----------------------------------------------------------------------------
(* Pointer lookup.                                                         *)

UnknownPtEdge(v) == PtEdge(Zero, v, UnknownObj, Zero)

\* FindPtEdge: the edge it returns, and the handles it leaves behind (an
\* unknown pointer is registered on the fly).
FindPtEdge(v) ==
    IF HasValue(handles, v) THEN FindByValue(handles, v) ELSE UnknownPtEdge(v)
HandlesAfterFind(v) ==
    IF HasValue(handles, v) THEN handles ELSE Append(handles, UnknownPtEdge(v))

\* The object and offset that the code lets an access go through to.
Target(v)  == FindPtEdge(v).obj
Offset(v)  == FindPtEdge(v).toff
Object(v)  == objects[Target(v)]
\* Mutant: the check for the freed object is forgotten.
CanAccessFreed(v) == Target(v) \notin {NullObj, UnknownObj}
CanAccess(v) == Target(v) \notin SpecialObjs

\* The object that `v` denotes becomes `object`; the edges stay in bounds.
UpdateObject(v, object) ==
    /\ Len(object.hv) + Len(object.pt) <= MaxEdges
    /\ objects' = [objects EXCEPT ![Target(v)] = object]

Init ==
    /\ handles = << PtEdge(Zero, Zero, NullObj, Zero) >>
    /\ objects = [o \in SpecialObjs |-> NewObject("Heap")]
    /\ consts  = [v \in 0 .. 2 * MaxConst - 1 |->
                     IF v <= MaxConst THEN v ELSE MaxConst - v]
    /\ nextVal = 2 * MaxConst
    /\ nextObj = 1
    /\ heldPtrs = {Zero}
    /\ heldInts = IntConstants
    /\ status = "ok"

Running == status = "ok"
Fail(error) == status' = error /\ UNCHANGED <<graphVars, vcVars, nextObj, heldPtrs, heldInts>>

-----------------------------------------------------------------------------
(* Allocation.  It never fails and never returns null.                     *)

\* Mutant: the id of the new object is not used up.
AllocateRegionSameId(space) ==
    /\ Running
    /\ nextVal < MaxVal /\ nextObj <= MaxObj /\ Len(handles) < MaxHandles
    /\ handles' = Append(handles, PtEdge(Zero, nextVal, nextObj, Zero))
    /\ objects' = [o \in DOMAIN objects \cup {nextObj} |->
                      IF o = nextObj THEN NewObject(space) ELSE objects[o]]
    /\ heldPtrs' = heldPtrs \cup {nextVal}
    /\ nextVal' = nextVal + 1
    /\ UNCHANGED <<consts, nextObj, heldInts, status>>

AllocateRegion(space) ==
    /\ Running
    /\ nextVal < MaxVal /\ nextObj <= MaxObj /\ Len(handles) < MaxHandles
    /\ handles' = Append(handles, PtEdge(Zero, nextVal, nextObj, Zero))
    /\ objects' = [o \in DOMAIN objects \cup {nextObj} |->
                      IF o = nextObj THEN NewObject(space) ELSE objects[o]]
    /\ heldPtrs' = heldPtrs \cup {nextVal}
    /\ nextVal' = nextVal + 1
    /\ nextObj' = nextObj + 1
    /\ UNCHANGED <<consts, heldInts, status>>

Alloca == AllocateRegion("Stack")
Malloc == AllocateRegion("Heap")

-----------------------------------------------------------------------------
(* Reading and writing.                                                    *)

\* ReadValue and WriteValue on the null, unknown or freed object.
AccessFault(p) ==
    /\ Running
    /\ ~CanAccess(p)
    /\ Fail(IF Target(p) = NullObj THEN "nullDeref" ELSE "invalidDeref")

\* The plain-value half of ReadValue: the value stored at the offset, or a
\* new unknown one that is stored there.  `learn` binds it to a register.
ReadPlain(p, learn(_)) ==
    IF HasOffset(Object(p).hv, Offset(p))
    THEN /\ learn(FindByOffset(Object(p).hv, Offset(p)).value)
         /\ UNCHANGED <<objects, nextVal>>
    ELSE /\ nextVal < MaxVal
         /\ learn(nextVal)
         /\ UpdateObject(p, [Object(p) EXCEPT !.hv =
                                Append(@, HvEdge(Offset(p), nextVal))])
         /\ nextVal' = nextVal + 1

LearnInt(v) == heldInts' = heldInts \cup {v} /\ UNCHANGED heldPtrs
LearnPtr(v) == heldPtrs' = heldPtrs \cup {v} /\ UNCHANGED heldInts

LoadInt(p) ==
    /\ Running
    /\ CanAccess(p)
    /\ ReadPlain(p, LearnInt)
    /\ UNCHANGED <<handles, consts, nextObj, status>>

\* A stored pointer edge is copied to the handles; without one the read
\* falls back to the plain value.
LoadPtr(p) ==
    /\ Running
    /\ CanAccess(p)
    /\ IF HasOffset(Object(p).pt, Offset(p))
       THEN LET edge == FindByOffset(Object(p).pt, Offset(p))
            IN  /\ Len(handles) < MaxHandles
                /\ handles' = Append(handles, MovedTo(edge, Zero))
                /\ LearnPtr(edge.value)
                /\ UNCHANGED <<objects, nextVal>>
       ELSE ReadPlain(p, LearnPtr) /\ UNCHANGED handles
    /\ UNCHANGED <<consts, nextObj, status>>

StoreInt(p, v) ==
    /\ Running
    /\ CanAccess(p)
    /\ UpdateObject(p, [Object(p) EXCEPT !.hv =
                           CreateOrModify(@, HvEdge(Offset(p), v))])
    /\ UNCHANGED <<handles, vcVars, nextObj, heldPtrs, heldInts, status>>

\* Mutant: the pointer edge under an overwriting plain value stays visible.
DisabledNever(edges, off) == edges

\* The first edge at the offset is kept, but no search will find it again.
Disabled(edges, off) ==
    IF HasOffset(edges, off)
    THEN [edges EXCEPT ![First(AtOffset(edges, off))].off = Hidden]
    ELSE edges

\* A pointer already known to the handles is stored as a pointer edge.  Any
\* other is stored as a plain value, and the pointer edge it replaces is
\* disabled by moving it to an offset no pointer has.
StorePtr(p, v) ==
    /\ Running
    /\ CanAccess(p)
    /\ UpdateObject(p,
          IF HasValue(handles, v)
          THEN [Object(p) EXCEPT !.pt =
                   CreateOrModify(@, MovedTo(FindByValue(handles, v), Offset(p)))]
          ELSE [Object(p) EXCEPT !.pt = Disabled(@, Offset(p)),
                                 !.hv = CreateOrModify(@, HvEdge(Offset(p), v))])
    /\ UNCHANGED <<handles, vcVars, nextObj, heldPtrs, heldInts, status>>

-----------------------------------------------------------------------------
(* Pointer arithmetic.                                                     *)

\* CreateDerivedPointer: the handles, the container, and the derived edge,
\* when it is called with constants map c and id counter next.
DerivedOffset(base, off, c, next) == Add(c, next, FindPtEdge(base).toff, off)
\* Mutant: the derived pointer keeps the value of its base.
DerivedValueOfBase(base, off, c, next) ==
    [DerivedOffset(base, off, c, next) EXCEPT !.id = base]
DerivedValue(base, off, c, next) ==
    LET o == DerivedOffset(base, off, c, next)
    IN  Add(o.consts, o.next, base, o.id)
DerivedEdge(base, off, c, next) ==
    [FindPtEdge(base) EXCEPT
        !.value = DerivedValue(base, off, c, next).id,
        !.toff  = DerivedOffset(base, off, c, next).id]

CreateDerivedPointer(base, off, c, next) ==
    LET derived == DerivedValue(base, off, c, next)
    IN  /\ Len(HandlesAfterFind(base)) < MaxHandles
        /\ derived.next <= MaxVal
        /\ handles' = Append(HandlesAfterFind(base), DerivedEdge(base, off, c, next))
        /\ consts'  = derived.consts
        /\ nextVal' = derived.next

\* getelementptr with a constant byte offset; its ids exist from the start.
Gep(base, off) ==
    /\ Running
    /\ CreateDerivedPointer(base, off, consts, nextVal)
    /\ LearnPtr(DerivedValue(base, off, consts, nextVal).id)
    /\ UNCHANGED <<objects, nextObj, status>>

\* getelementptr with an index that is not a constant: Mul returns a new
\* unknown offset.
GepUnknown(base) ==
    /\ Running
    /\ CreateDerivedPointer(base, nextVal, consts, nextVal + 1)
    /\ LearnPtr(DerivedValue(base, nextVal, consts, nextVal + 1).id)
    /\ UNCHANGED <<objects, nextObj, status>>

\* bitcast: the register is bound to the operand itself; the derived pointer
\* that is created as well is bound to nothing.
BitCast(p) ==
    /\ Running
    /\ CreateDerivedPointer(p, Zero, consts, nextVal)
    /\ UNCHANGED <<objects, nextObj, heldPtrs, heldInts, status>>

\* memset(p, 0, n) with constant n: a zero plain value at a derived pointer.
\* Nothing else inside the cleared range is touched, and no pointer edge.
Memclear(p) ==
    /\ Running
    /\ CanAccess(p)
    /\ CreateDerivedPointer(p, Zero, consts, nextVal)
    /\ LET off == DerivedOffset(p, Zero, consts, nextVal).id
       IN  UpdateObject(p, [Object(p) EXCEPT !.hv =
                                  CreateOrModify(@, HvEdge(off, Zero))])
    /\ UNCHANGED <<nextObj, heldPtrs, heldInts, status>>

-----------------------------------------------------------------------------
(* Comparison of pointers for equality.                                    *)

\* MemGraphOpCmp: the value container answers for two constants, SmgIsCmp
\* for two known pointers, nobody otherwise.
IsEqual(p, q) ==
    CASE IsConstant(p) /\ IsConstant(q) -> IF consts[p] = consts[q] THEN "true" ELSE "false"
      [] ~(IsConstant(p) /\ IsConstant(q)) /\ HasValue(handles, p) /\ HasValue(handles, q)
            -> IF p = q THEN "true" ELSE "false"
      [] OTHER -> "unknown"

CmpPtr(p, q) ==
    /\ Running
    /\ IF IsEqual(p, q) = "unknown"
       THEN /\ nextVal < MaxVal
            /\ LearnInt(nextVal)
            /\ nextVal' = nextVal + 1
       ELSE /\ LearnInt(IF IsEqual(p, q) = "true" THEN 1 ELSE Zero)
            /\ UNCHANGED nextVal
    /\ UNCHANGED <<graphVars, consts, nextObj, status>>

-----------------------------------------------------------------------------
(* Deallocation.                                                           *)

FreeFault(p) ==
    /\ Running
    /\ \/ Target(p) = UnknownObj /\ Fail("invalidFree")
       \/ Target(p) = FreedObj /\ Fail("doubleFree")
       \/ CanAccess(p) /\ Object(p).space # "Heap" /\ Fail("nonHeapFree")

\* Mutant: handles of the freed object are redirected to null.
FreeObjectToNull(p) ==
    /\ Running
    /\ CanAccess(p)
    /\ Object(p).space = "Heap"
    /\ LET o == Target(p)
       IN  /\ handles' = Redirect(handles, o, NullObj)
           /\ objects' = [x \in DOMAIN objects \ {o} |->
                             [objects[x] EXCEPT !.pt = Redirect(@, o, FreedObj)]]
    /\ UNCHANGED <<vcVars, nextObj, heldPtrs, heldInts, status>>

\* The object is erased; every edge into it, stored in an object or in the
\* handles, is redirected to the freed object first.
FreeObject(p) ==
    /\ Running
    /\ CanAccess(p)
    /\ Object(p).space = "Heap"
    /\ LET o == Target(p)
       IN  /\ handles' = Redirect(handles, o, FreedObj)
           /\ objects' = [x \in DOMAIN objects \ {o} |->
                             [objects[x] EXCEPT !.pt = Redirect(@, o, FreedObj)]]
    /\ UNCHANGED <<vcVars, nextObj, heldPtrs, heldInts, status>>

\* free(NULL), and free of a pointer derived from NULL
FreeNull(p) ==
    /\ Running
    /\ Target(p) = NullObj
    /\ UNCHANGED vars

-----------------------------------------------------------------------------
Executes(instruction) == instruction \in Instructions

Next ==
    \/ Executes("alloca") /\ Alloca
    \/ Executes("malloc") /\ Malloc
    \/ \E p \in heldPtrs :
          \/ AccessFault(p)
          \/ Executes("loadInt") /\ LoadInt(p)
          \/ Executes("loadPtr") /\ LoadPtr(p)
          \/ Executes("storeInt") /\ \E v \in heldInts : StoreInt(p, v)
          \/ Executes("storePtr") /\ \E v \in heldPtrs : StorePtr(p, v)
          \/ Executes("gep") /\ \E off \in DOMAIN consts :
                 consts[off] \in GepOffsets /\ Gep(p, off)
          \/ Executes("gepUnknown") /\ GepUnknown(p)
          \/ Executes("bitcast") /\ BitCast(p)
          \/ Executes("memset") /\ Memclear(p)
          \/ Executes("cmp") /\ \E q \in heldPtrs : CmpPtr(p, q)
          \/ Executes("free") /\ (FreeFault(p) \/ FreeObject(p) \/ FreeNull(p))

Spec == Init /\ [][Next]_vars

-----------------------------------------------------------------------------
(* Invariants.                                                             *)

Issued == 0 .. nextVal - 1
HvEdges == [off : Issued, value : Issued]
ObjectIds == SpecialObjs \cup 1 .. nextObj - 1
PtEdges(offs) == [off : offs, value : Issued, obj : ObjectIds, toff : Issued]
Regions == [hv : Seq(HvEdges), pt : Seq(PtEdges(Issued \cup {Hidden})), space : Spaces]

\* Type invariant.  Every ValueId and ObjectId that appears anywhere was
\* given out by its counter before, so a new id is new everywhere.
TypeOK ==
    /\ nextVal \in Nat
    /\ nextObj \in Nat \ {0}
    /\ SpecialObjs \subseteq DOMAIN objects
    /\ DOMAIN objects \subseteq ObjectIds
    /\ objects \in [DOMAIN objects -> Regions]
    /\ handles \in Seq(PtEdges({Zero}))
    /\ {Zero, 1} \subseteq DOMAIN consts /\ DOMAIN consts \subseteq Issued
    /\ consts \in [DOMAIN consts -> Int]
    /\ heldPtrs \subseteq Issued
    /\ heldInts \subseteq Issued
    /\ status \in Statuses

\* Freeing an object leaves no edge into it, neither in the handles, where
\* duplicates of an edge pile up, nor in any other object, visible or
\* disabled (Graph::Free).  The crawler, the printer and the abstraction look
\* the target of an edge up with objects.at (Smg/Wrappers.hpp).
NoDanglingTarget ==
    /\ \A i \in DOMAIN handles : handles[i].obj \in DOMAIN objects
    /\ \A o \in DOMAIN objects : \A i \in DOMAIN objects[o].pt :
          objects[o].pt[i].obj \in DOMAIN objects

\* A pointer kept in memory is known to the handles, and says the same about
\* its target as the handle edge that lookups find, however many frees and
\* overwrites came between (Graph::WriteValue stores a copy of the edge).
StoredEdgesAgree ==
    \A o \in DOMAIN objects : \A i \in DOMAIN objects[o].pt :
        LET edge == objects[o].pt[i]
        IN  /\ HasValue(handles, edge.value)
            /\ FindByValue(handles, edge.value).obj = edge.obj
            /\ FindByValue(handles, edge.value).toff = edge.toff

\* The duplicate handle edges that loads and derived pointers leave behind
\* ("TODO@michkot duplicates edges", Graph.hpp:99) never contradict each
\* other.  Constants are left out: a number can be reached both as an
\* unknown integer and as an offset from null.
HandlesAgree ==
    \A i, j \in DOMAIN handles :
        /\ handles[i].value = handles[j].value
        /\ ~IsConstant(handles[i].value)
        => handles[i].obj = handles[j].obj /\ handles[i].toff = handles[j].toff

\* What a pointer value denotes is settled when it first appears.  No later
\* step changes it, except that freeing its object, and nothing else, turns
\* the target into the freed object; from there it never comes back.
DenotationKept ==
    \A v \in {handles[i].value : i \in DOMAIN handles} :
        /\ HasValue(handles', v)
        /\ FindByValue(handles', v).toff = FindByValue(handles, v).toff
        /\ \/ FindByValue(handles', v).obj = FindByValue(handles, v).obj
           \/ /\ FindByValue(handles', v).obj = FreedObj
              /\ FindByValue(handles, v).obj \in DOMAIN objects \ DOMAIN objects'
DenotationStable == [][DenotationKept]_vars

\* "Returns new pointer to different field [baseOffset + offset, type] of the
\* same object" (Graph.hpp:93).  The address of the null object is 0, so the
\* pointer to its offset n is the number n.
NullDerivedAddress ==
    \A i \in DOMAIN handles :
        LET edge == handles[i]
        IN  edge.obj = NullObj /\ IsConstant(edge.toff)
            => IsConstant(edge.value) /\ consts[edge.value] = consts[edge.toff]
=============================================================================
