---------------------------- MODULE PointerMemory ----------------------------
(***************************************************************************)
(* What the memory of an analysed program promises, without edges: a       *)
(* pointer value denotes one place for ever, a place is an object and an   *)
(* offset, objects are allocated and freed once, and a place holds the     *)
(* value last written to it.  SmgMemory shows that the symbolic memory     *)
(* graph implements this.                                                  *)
(*                                                                         *)
(* A place has two cells, one for pointers and one for plain values: the   *)
(* graph does not reinterpret a value read at another type.  A pointer of  *)
(* unknown origin is kept in the plain cell.                               *)
(***************************************************************************)
EXTENDS Integers

CONSTANTS
    Values,     \* the values registers and cells hold
    Objects,    \* the objects that can be allocated
    Symbols,    \* unknown offsets are <<"sym", x>>, x \in Symbols
    Deltas,     \* the constants added to pointers; known offsets are <<"int", n>>
    Constants   \* constant values: no new unknown is one of them

VARIABLES
    target,    \* pointer value -> [obj, off]: the place it was made for
    live,      \* objects allocated and not freed
    dead,      \* objects freed
    heap,      \* the live objects that free accepts
    ptrCell,   \* live object -> offset -> pointer last written
    intCell,   \* live object -> offset -> plain value last written
    ptrs,      \* values in pointer registers
    ints,      \* values in integer registers
    status

memory == <<live, dead, heap, ptrCell, intCell>>
all    == <<target, memory, ptrs, ints, status>>

Null    == 0
Unknown == -1
Freed   == -2
Start   == <<"int", 0>>
UnknownPlace == [obj |-> Unknown, off |-> Start]

\* The place an access through v reaches now.
Denotes(v) ==
    IF v \notin DOMAIN target THEN UnknownPlace
    ELSE IF target[v].obj \in dead THEN [target[v] EXCEPT !.obj = Freed]
    ELSE target[v]

Valid(p) == Denotes(p).obj \in live
Fresh(v) == v \notin DOMAIN target \cup ptrs \cup ints \cup Constants

\* f with x mapped to y, and f without x.
With(f, x, y)  == [z \in DOMAIN f \cup {x} |-> IF z = x THEN y ELSE f[z]]
Without(f, x) == [z \in DOMAIN f \ {x} |-> f[z]]
Write(cell, p, v) ==
    [cell EXCEPT ![Denotes(p).obj] = With(@, Denotes(p).off, v)]

Init ==
    /\ target = [v \in {Null} |-> [obj |-> Null, off |-> Start]]
    /\ live = {} /\ dead = {} /\ heap = {}
    /\ ptrCell = <<>> /\ intCell = <<>>
    /\ ptrs = {Null} /\ ints \subseteq Constants
    /\ status = "ok"

Allocate ==
    \E v \in Values, o \in Objects :
        /\ Fresh(v) /\ o \notin live \cup dead
        /\ target' = With(target, v, [obj |-> o, off |-> Start])
        /\ live' = live \cup {o}
        /\ heap' \in {heap, heap \cup {o}}
        /\ ptrCell' = With(ptrCell, o, <<>>)
        /\ intCell' = With(intCell, o, <<>>)
        /\ ptrs' = ptrs \cup {v}
        /\ UNCHANGED <<dead, ints, status>>

\* A new pointer into the object of p, where p itself keeps what it denotes.
Derive(p, v, off) ==
    target' = [x \in DOMAIN target \cup {p, v} |->
                  IF x \in DOMAIN target THEN target[x]
                  ELSE IF x = p THEN UnknownPlace
                  ELSE [obj |-> Denotes(p).obj, off |-> off]]

Symbolic(off) == off[1] = "sym"
UnusedOffsets ==
    {<<"sym", x>> : x \in Symbols} \ {target[x].off : x \in DOMAIN target}

\* An offset plus a constant n: exact when the offset is known, otherwise a
\* new unknown offset.
PlusConstant(off, n) ==
    IF Symbolic(off) THEN UnusedOffsets ELSE {<<"int", off[2] + n>>}

Gep(p, n) ==
    \E v \in Values, off \in PlusConstant(Denotes(p).off, n) :
        /\ Valid(p) => Fresh(v)
        /\ Derive(p, v, off)
        /\ ptrs' = ptrs \cup {v}
        /\ UNCHANGED <<memory, ints, status>>

GepUnknown(p) ==
    \E v \in Values, off \in UnusedOffsets :
        /\ Fresh(v)
        /\ Derive(p, v, off)
        /\ ptrs' = ptrs \cup {v}
        /\ UNCHANGED <<memory, ints, status>>

\* A cast makes no register; the pointer it creates is never seen.
BitCast(p) ==
    \E v \in Values, off \in PlusConstant(Denotes(p).off, 0) :
        /\ Derive(p, v, off)
        /\ UNCHANGED <<memory, ptrs, ints, status>>

LoadInt(p) ==
    /\ Valid(p)
    /\ LET cell == intCell[Denotes(p).obj]
           off  == Denotes(p).off
       IN  \/ /\ off \in DOMAIN cell
              /\ ints' = ints \cup {cell[off]}
              /\ UNCHANGED intCell
           \/ \E v \in Values :
              /\ off \notin DOMAIN cell
              /\ Fresh(v)
              /\ ints' = ints \cup {v}
              /\ intCell' = Write(intCell, p, v)
    /\ UNCHANGED <<target, live, dead, heap, ptrCell, ptrs, status>>

LoadPtr(p) ==
    /\ Valid(p)
    /\ LET cell  == ptrCell[Denotes(p).obj]
           plain == intCell[Denotes(p).obj]
           off   == Denotes(p).off
       IN  \/ /\ off \in DOMAIN cell
              /\ ptrs' = ptrs \cup {cell[off]}
              /\ UNCHANGED intCell
           \/ /\ off \in DOMAIN plain \ DOMAIN cell
              /\ ptrs' = ptrs \cup {plain[off]}
              /\ UNCHANGED intCell
           \/ \E v \in Values :
              /\ off \notin DOMAIN plain \cup DOMAIN cell
              /\ Fresh(v)
              /\ ptrs' = ptrs \cup {v}
              /\ intCell' = Write(intCell, p, v)
    /\ UNCHANGED <<target, live, dead, heap, ptrCell, ints, status>>

StoreInt(p, v) ==
    /\ Valid(p)
    /\ intCell' = Write(intCell, p, v)
    /\ UNCHANGED <<target, live, dead, heap, ptrCell, ptrs, ints, status>>

StorePtr(p, v) ==
    /\ Valid(p)
    /\ IF v \in DOMAIN target
       THEN /\ ptrCell' = Write(ptrCell, p, v)
            /\ UNCHANGED intCell
       ELSE /\ ptrCell' = [ptrCell EXCEPT ![Denotes(p).obj] =
                              Without(@, Denotes(p).off)]
            /\ intCell' = Write(intCell, p, v)
    /\ UNCHANGED <<target, live, dead, heap, ptrs, ints, status>>

\* The plain cell at p becomes zero: at the place of p when its offset is
\* known, at a place nobody else denotes otherwise.
Memclear(p, zero) ==
    /\ Valid(p)
    /\ \E v \in Values, off \in PlusConstant(Denotes(p).off, 0) :
        /\ Fresh(v)
        /\ Derive(p, v, off)
        /\ intCell' = [intCell EXCEPT ![Denotes(p).obj] = With(@, off, zero)]
        /\ UNCHANGED <<live, dead, heap, ptrCell, ptrs, ints, status>>

\* The answer of a comparison is left open.
Compare ==
    \E v \in Values :
        /\ ints' = ints \cup {v}
        /\ UNCHANGED <<target, memory, ptrs, status>>

Free(p) ==
    LET o == Denotes(p).obj
    IN  /\ o \in heap
        /\ live' = live \ {o}
        /\ heap' = heap \ {o}
        /\ dead' = dead \cup {o}
        /\ ptrCell' = Without(ptrCell, o)
        /\ intCell' = Without(intCell, o)
        /\ UNCHANGED <<target, ptrs, ints, status>>

\* An error ends the path, and it is the error that p deserves.
Fault(p) ==
    /\ status' \in
          (CASE Denotes(p).obj = Null    -> {"nullDeref"}
             [] Denotes(p).obj = Unknown -> {"invalidDeref", "invalidFree"}
             [] Denotes(p).obj = Freed   -> {"invalidDeref", "doubleFree"}
             [] OTHER -> IF Denotes(p).obj \in heap THEN {} ELSE {"nonHeapFree"})
    /\ UNCHANGED <<target, memory, ptrs, ints>>

Next ==
    /\ status = "ok"
    /\ \/ Allocate
       \/ Compare
       \/ \E p \in ptrs :
             \/ \E n \in Deltas : Gep(p, n)
             \/ GepUnknown(p) \/ BitCast(p) \/ Memclear(p, Null)
             \/ LoadInt(p) \/ LoadPtr(p)
             \/ \E v \in ints : StoreInt(p, v)
             \/ \E v \in ptrs : StorePtr(p, v)
             \/ Free(p) \/ Fault(p)

Spec == Init /\ [][Next]_all
=============================================================================
