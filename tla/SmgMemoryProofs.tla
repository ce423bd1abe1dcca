--------------------------- MODULE SmgMemoryProofs ---------------------------
(***************************************************************************)
(* Proof that the symbolic memory graph implements PointerMemory, for      *)
(* every choice of constants, offsets, bounds and instructions.            *)
(***************************************************************************)
EXTENDS SmgMemory, SmgGraphProofs

-----------------------------------------------------------------------------
(* Offsets and cells.                                                      *)

\* Constants are unique: CreateConstIntVal looks an id up by its number.
Injective(c) == \A a, b \in DOMAIN c : c[a] = c[b] => a = b

LEMMA OffsetInInjective ==
    ASSUME NEW c, Injective(c), NEW x, NEW y, OffsetIn(c, x) = OffsetIn(c, y)
    PROVE  x = y
<1>1. \A m, n : <<"int", m>> # <<"sym", n>> /\ (<<"int", m>> = <<"int", n>> => m = n)
                /\ (<<"sym", m>> = <<"sym", n>> => m = n)
  OBVIOUS
<1>2. CASE x \in DOMAIN c /\ y \in DOMAIN c
  BY <1>1, <1>2 DEF OffsetIn, Injective
<1>3. CASE ~(x \in DOMAIN c /\ y \in DOMAIN c)
  BY <1>1, <1>3 DEF OffsetIn
<1> QED
  BY <1>2, <1>3

\* The offsets of the cells are those a search finds.
LEMMA VisibleHas ==
    ASSUME NEW edges, NEW off
    PROVE  off \in VisibleOffsets(edges) <=> off # Hidden /\ HasOffset(edges, off)
BY DEF VisibleOffsets, HasOffset, AtOffset

\* What a cell holds is what a search by its offset finds.
LEMMA CellsHold ==
    ASSUME NEW c, Injective(c), NEW edges, NEW off, off # Hidden
    PROVE  /\ OffsetIn(c, off) \in DOMAIN Cells(c, edges) <=> HasOffset(edges, off)
           /\ HasOffset(edges, off) =>
                 Cells(c, edges)[OffsetIn(c, off)] = FindByOffset(edges, off).value
<1> DEFINE offs == VisibleOffsets(edges)
           Id(a) == CHOOSE x \in offs : OffsetIn(c, x) = a
<1>1. Cells(c, edges) = [a \in {OffsetIn(c, x) : x \in offs} |-> FindByOffset(edges, Id(a)).value]
  BY DEF Cells
<1>2. off \in offs <=> HasOffset(edges, off)
  BY VisibleHas
<1>3. \A x : OffsetIn(c, x) = OffsetIn(c, off) => x = off
  BY OffsetInInjective
<1>4. off \in offs => Id(OffsetIn(c, off)) = off
  BY <1>3
<1> HIDE DEF offs, Id
<1>5. OffsetIn(c, off) \in {OffsetIn(c, x) : x \in offs} <=> off \in offs
  BY <1>3
<1> QED
  BY <1>1, <1>2, <1>4, <1>5 DEF offs

\* Two vectors in which searches find the same values have the same cells.
LEMMA CellsSame ==
    ASSUME NEW c, Injective(c), NEW edges, NEW d, Injective(d), NEW other,
           VisibleOffsets(other) = VisibleOffsets(edges),
           \A off \in VisibleOffsets(edges) :
              /\ OffsetIn(d, off) = OffsetIn(c, off)
              /\ FindByOffset(other, off).value = FindByOffset(edges, off).value
    PROVE  Cells(d, other) = Cells(c, edges)
<1> DEFINE offs == VisibleOffsets(edges)
           dom  == {OffsetIn(c, x) : x \in offs}
<1>1. {OffsetIn(d, x) : x \in offs} = dom
  OBVIOUS
<1>2. /\ DOMAIN Cells(c, edges) = dom
      /\ DOMAIN Cells(d, other) = dom
  BY <1>1 DEF Cells
<1>3. ASSUME NEW off \in offs
      PROVE  Cells(d, other)[OffsetIn(c, off)] = Cells(c, edges)[OffsetIn(c, off)]
  <2>1. off # Hidden /\ HasOffset(edges, off) /\ HasOffset(other, off)
    BY VisibleHas
  <2>2. Cells(c, edges)[OffsetIn(c, off)] = FindByOffset(edges, off).value
    BY <2>1, CellsHold
  <2>3. Cells(d, other)[OffsetIn(d, off)] = FindByOffset(other, off).value
    BY <2>1, CellsHold
  <2> QED
    BY <2>2, <2>3
<1>4. \A a \in dom : Cells(d, other)[a] = Cells(c, edges)[a]
  BY <1>3
<1>5. /\ Cells(c, edges) = [a \in dom |-> Cells(c, edges)[a]]
      /\ Cells(d, other) = [a \in dom |-> Cells(d, other)[a]]
  <2>1. ASSUME NEW b, NEW es, NEW S, S = {OffsetIn(b, x) : x \in VisibleOffsets(es)}
        PROVE  Cells(b, es) = [a \in S |-> Cells(b, es)[a]]
    BY <2>1 DEF Cells
  <2> QED
    BY <1>1, <2>1
<1> QED
  BY <1>4, <1>5

IsMap(f) == f = [a \in DOMAIN f |-> f[a]]

\* A cell map is determined by what it holds.
LEMMA CellsAre ==
    ASSUME NEW c, Injective(c), NEW edges, NEW f, IsMap(f),
           \A off : off # Hidden =>
              /\ HasOffset(edges, off) => f[OffsetIn(c, off)] = FindByOffset(edges, off).value
              /\ HasOffset(edges, off) <=> OffsetIn(c, off) \in DOMAIN f,
           \A a \in DOMAIN f : \E off : off # Hidden /\ a = OffsetIn(c, off)
    PROVE  Cells(c, edges) = f
<1> DEFINE dom == {OffsetIn(c, x) : x \in VisibleOffsets(edges)}
           S   == DOMAIN f
<1>0. f = [a \in S |-> f[a]]
  BY DEF IsMap
<1>1. Cells(c, edges) = [a \in dom |-> Cells(c, edges)[a]]
  BY DEF Cells
<1>2. dom = S
  BY VisibleHas
<1>3. ASSUME NEW a \in S PROVE Cells(c, edges)[a] = f[a]
  <2>1. PICK off : off # Hidden /\ a = OffsetIn(c, off)
    OBVIOUS
  <2> QED
    BY <2>1, CellsHold
<1> HIDE DEF dom, S
<1> QED
  BY <1>0, <1>1, <1>2, <1>3

LEMMA CellsOffsets ==
    ASSUME NEW c, NEW edges
    PROVE  /\ IsMap(Cells(c, edges))
           /\ \A a \in DOMAIN Cells(c, edges) : \E off : off # Hidden /\ a = OffsetIn(c, off)
<1> DEFINE dom == {OffsetIn(c, x) : x \in VisibleOffsets(edges)}
<1>1. IsMap(Cells(c, edges)) /\ DOMAIN Cells(c, edges) = dom
  BY DEF Cells, IsMap
<1>2. \A a \in dom : \E off : off # Hidden /\ a = OffsetIn(c, off)
  BY VisibleHas
<1> HIDE DEF dom
<1> QED
  BY <1>1, <1>2

\* An object never written has no cells.
LEMMA CellsEmpty == \A c : Cells(c, <<>>) = <<>>
BY DEF Cells, VisibleOffsets

\* Writing an edge writes its cell.
LEMMA CellsWrite ==
    ASSUME NEW c, Injective(c), NEW T, NEW edges \in Seq(T), NEW e \in T, e.off # Hidden
    PROVE  Cells(c, CreateOrModify(edges, e)) =
               Memory!With(Cells(c, edges), OffsetIn(c, e.off), e.value)
<1> DEFINE old == Cells(c, edges)
           x   == OffsetIn(c, e.off)
           S   == DOMAIN old \cup {x}
           f   == [z \in S |-> IF z = x THEN e.value ELSE old[z]]
           new == CreateOrModify(edges, e)
<1>1. Memory!With(Cells(c, edges), OffsetIn(c, e.off), e.value) = f
  BY DEF Memory!With
<1>2. \A a \in S : \E off : off # Hidden /\ a = OffsetIn(c, off)
  <2>1. \A a \in DOMAIN old : \E off : off # Hidden /\ a = OffsetIn(c, off)
    BY CellsOffsets
  <2> HIDE DEF old
  <2> QED
    BY <2>1
<1>3. ASSUME NEW off, off # Hidden
      PROVE  /\ HasOffset(new, off) => f[OffsetIn(c, off)] = FindByOffset(new, off).value
             /\ HasOffset(new, off) <=> OffsetIn(c, off) \in S
  <2>1. OffsetIn(c, off) = x <=> off = e.off
    BY OffsetInInjective
  <2>2. /\ OffsetIn(c, off) \in DOMAIN old <=> HasOffset(edges, off)
        /\ HasOffset(edges, off) => old[OffsetIn(c, off)] = FindByOffset(edges, off).value
    BY <1>3, CellsHold
  <2>3. /\ HasOffset(new, off) <=> HasOffset(edges, off) \/ off = e.off
        /\ HasOffset(new, off) =>
              FindByOffset(new, off) = IF off = e.off THEN e ELSE FindByOffset(edges, off)
    BY FindAfterModify
  <2> HIDE DEF old, x, new
  <2> QED
    BY <2>1, <2>2, <2>3
<1>4. IsMap(f) /\ DOMAIN f = S
  BY DEF IsMap
<1> HIDE DEF f, S, new
<1>5. Cells(c, new) = f
  BY <1>2, <1>3, <1>4, CellsAre
<1> QED
  BY <1>1, <1>5 DEF new

\* A free keeps what memory holds.
LEMMA CellsRedirect ==
    ASSUME NEW c, Injective(c), NEW T, NEW edges \in Seq(T), NEW from, NEW to,
           \A e \in T : /\ Retarget(e, to) \in T /\ Retarget(e, to).off = e.off
                        /\ Retarget(e, to).value = e.value
    PROVE  Cells(c, Redirect(edges, from, to)) = Cells(c, edges)
<1> DEFINE new == Redirect(edges, from, to)
<1>1. \A off : /\ HasOffset(new, off) <=> HasOffset(edges, off)
               /\ HasOffset(edges, off) =>
                     FindByOffset(new, off).value = FindByOffset(edges, off).value
  BY OffsetsAfterRedirect
<1> HIDE DEF new
<1>2. VisibleOffsets(new) = VisibleOffsets(edges)
  BY <1>1, VisibleHas DEF VisibleOffsets
<1>3. \A off \in VisibleOffsets(edges) :
         FindByOffset(new, off).value = FindByOffset(edges, off).value
  BY <1>1, VisibleHas
<1> QED
  BY <1>2, <1>3, CellsSame DEF new

\* A pointer vector has at most one edge that a search can find at an offset,
\* or hiding the first would uncover the next.
UniqueOffsets(edges) ==
    \A i, j \in DOMAIN edges :
        edges[i].off = edges[j].off /\ edges[i].off # Hidden => i = j

LEMMA UniqueModify ==
    ASSUME NEW T, NEW edges \in Seq(T), NEW e \in T, UniqueOffsets(edges)
    PROVE  UniqueOffsets(CreateOrModify(edges, e))
<1>1. CASE HasOffset(edges, e.off)
  <2> DEFINE n == First(AtOffset(edges, e.off))
  <2>1. n \in DOMAIN edges /\ edges[n].off = e.off
    BY <1>1, FindByOffsetType DEF FindByOffset
  <2>2. CreateOrModify(edges, e) = [edges EXCEPT ![n] = e]
    BY <1>1 DEF CreateOrModify
  <2> HIDE DEF n
  <2> QED
    BY <2>1, <2>2 DEF UniqueOffsets
<1>2. CASE ~HasOffset(edges, e.off)
  <2>1. CreateOrModify(edges, e) = Append(edges, e)
    BY <1>2 DEF CreateOrModify
  <2>2. /\ DOMAIN edges = 1 .. Len(edges) /\ Len(edges) \in Nat
        /\ DOMAIN CreateOrModify(edges, e) = 1 .. Len(edges) + 1
        /\ \A i \in DOMAIN edges : CreateOrModify(edges, e)[i] = edges[i]
        /\ CreateOrModify(edges, e)[Len(edges) + 1] = e
    BY <2>1, AppendProperties
  <2>3. \A i \in DOMAIN edges : edges[i].off # e.off
    BY <1>2 DEF HasOffset, AtOffset
  <2> QED
    BY <2>2, <2>3 DEF UniqueOffsets
<1> QED
  BY <1>1, <1>2

\* Hiding the edge at an offset removes its cell.
LEMMA CellsDisabled ==
    ASSUME NEW c, Injective(c), NEW T, NEW edges \in Seq(T), UniqueOffsets(edges),
           \A e \in T : [e EXCEPT !.off = Hidden].off = Hidden,
           NEW off, off # Hidden
    PROVE  /\ Cells(c, Disabled(edges, off)) =
                 Memory!Without(Cells(c, edges), OffsetIn(c, off))
           /\ UniqueOffsets(Disabled(edges, off))
<1> DEFINE old == Cells(c, edges)
           x   == OffsetIn(c, off)
           S   == DOMAIN old \ {x}
           f   == [z \in S |-> old[z]]
           new == Disabled(edges, off)
<1>1. Memory!Without(Cells(c, edges), OffsetIn(c, off)) = f
  BY DEF Memory!Without
<1>2. \A a \in S : \E y : y # Hidden /\ a = OffsetIn(c, y)
  <2>1. \A a \in DOMAIN old : \E y : y # Hidden /\ a = OffsetIn(c, y)
    BY CellsOffsets
  <2> HIDE DEF old
  <2> QED
    BY <2>1
<1>3. /\ UniqueOffsets(new)
      /\ \A y : y # Hidden =>
            /\ HasOffset(new, y) <=> HasOffset(edges, y) /\ y # off
            /\ HasOffset(new, y) => FindByOffset(new, y) = FindByOffset(edges, y)
  <2>1. CASE ~HasOffset(edges, off)
    BY <2>1 DEF Disabled
  <2>2. CASE HasOffset(edges, off)
    <3> DEFINE n == First(AtOffset(edges, off))
    <3>1. n \in DOMAIN edges /\ edges[n].off = off
      BY <2>2, FindByOffsetType DEF FindByOffset
    <3>2. edges[n] \in T
      BY <3>1
    <3>3. new = [edges EXCEPT ![n] = [edges[n] EXCEPT !.off = Hidden]]
      BY <2>2 DEF Disabled
    <3>4. [edges[n] EXCEPT !.off = Hidden].off = Hidden
      BY <3>2
    <3> HIDE DEF n, new
    <3>5. /\ DOMAIN new = DOMAIN edges /\ new[n].off = Hidden
          /\ \A i \in DOMAIN edges : i # n => new[i] = edges[i]
      BY <3>1, <3>3, <3>4
    <3>6. \A i \in DOMAIN edges : edges[i].off = off => i = n
      BY <3>1 DEF UniqueOffsets
    <3>7. UniqueOffsets(new)
      BY <3>5 DEF UniqueOffsets
    <3>8. ASSUME NEW y, y # Hidden
          PROVE  /\ AtOffset(new, y) = IF y = off THEN {} ELSE AtOffset(edges, y)
                 /\ y # off => n \notin AtOffset(edges, y)
      BY <3>1, <3>5, <3>6, <3>8 DEF AtOffset
    <3>9. ASSUME NEW y, HasOffset(edges, y)
          PROVE  /\ First(AtOffset(edges, y)) \in DOMAIN edges
                 /\ First(AtOffset(edges, y)) \in AtOffset(edges, y)
      BY <3>9, FindByOffsetType DEF FindByOffset, AtOffset
    <3>10. ASSUME NEW y, y # Hidden
           PROVE  /\ HasOffset(new, y) <=> HasOffset(edges, y) /\ y # off
                  /\ HasOffset(new, y) => FindByOffset(new, y) = FindByOffset(edges, y)
      <4>1. HasOffset(new, y) <=> HasOffset(edges, y) /\ y # off
        BY <3>8, <3>10 DEF HasOffset
      <4>2. ASSUME HasOffset(new, y) PROVE FindByOffset(new, y) = FindByOffset(edges, y)
        BY <3>5, <3>8, <3>9, <3>10, <4>1, <4>2 DEF FindByOffset
      <4> QED
        BY <4>1, <4>2
    <3> QED
      BY <3>7, <3>10
  <2> QED
    BY <2>1, <2>2
<1>4. ASSUME NEW y, y # Hidden
      PROVE  /\ HasOffset(new, y) => f[OffsetIn(c, y)] = FindByOffset(new, y).value
             /\ HasOffset(new, y) <=> OffsetIn(c, y) \in S
  <2>1. OffsetIn(c, y) = x <=> y = off
    BY OffsetInInjective
  <2>2. /\ OffsetIn(c, y) \in DOMAIN old <=> HasOffset(edges, y)
        /\ HasOffset(edges, y) => old[OffsetIn(c, y)] = FindByOffset(edges, y).value
    BY <1>4, CellsHold
  <2>3. /\ HasOffset(new, y) <=> HasOffset(edges, y) /\ y # off
        /\ HasOffset(new, y) => FindByOffset(new, y) = FindByOffset(edges, y)
    BY <1>3, <1>4
  <2> HIDE DEF old, x, new
  <2> QED
    BY <2>1, <2>2, <2>3
<1>5. IsMap(f) /\ DOMAIN f = S
  BY DEF IsMap
<1> HIDE DEF f, S, new
<1>6. Cells(c, new) = f
  BY <1>2, <1>4, <1>5, CellsAre
<1> QED
  BY <1>1, <1>3, <1>6 DEF new

\* New constants do not move the cells.
LEMMA CellsGrow ==
    ASSUME NEW c, Injective(c), NEW d, Injective(d), NEW edges,
           \A i \in DOMAIN edges :
              edges[i].off # Hidden => OffsetIn(d, edges[i].off) = OffsetIn(c, edges[i].off)
    PROVE  Cells(d, edges) = Cells(c, edges)
<1>1. \A off \in VisibleOffsets(edges) : OffsetIn(d, off) = OffsetIn(c, off)
  BY DEF VisibleOffsets
<1> QED
  BY <1>1, CellsSame

-----------------------------------------------------------------------------
(* The container.                                                          *)

\* An addition keeps the constants it finds and their numbers; what it makes
\* is a constant if both operands are, and new and unknown otherwise.
LEMMA AddKeeps ==
    ASSUME NEW c, c \in [DOMAIN c -> Int], Injective(c),
           NEW next \in Nat, DOMAIN c \subseteq 0 .. next - 1, NEW a, NEW b
    PROVE  LET r == Add(c, next, a, b)
           IN  /\ Injective(r.consts)
               /\ \A v \in DOMAIN c : v \in DOMAIN r.consts /\ r.consts[v] = c[v]
               /\ \A v \in DOMAIN r.consts : v \in DOMAIN c \/ v = next
               /\ {a, b} \subseteq DOMAIN c =>
                     r.id \in DOMAIN r.consts /\ r.consts[r.id] = c[a] + c[b]
               /\ ~({a, b} \subseteq DOMAIN c) =>
                     r.id = next /\ r.consts = c /\ r.next = next + 1
<1> DEFINE sum == c[a] + c[b]
           r   == Add(c, next, a, b)
<1>1. CASE ~({a, b} \subseteq DOMAIN c)
  <2>1. r = [id |-> next, consts |-> c, next |-> next + 1]
    BY <1>1 DEF Add
  <2> QED
    BY <1>1, <2>1
<1>2. CASE {a, b} \subseteq DOMAIN c /\ ConstIds(c, sum) # {}
  <2> DEFINE w == CHOOSE v \in ConstIds(c, sum) : TRUE
  <2>1. r = [id |-> w, consts |-> c, next |-> next]
    BY <1>2 DEF Add
  <2>2. w \in DOMAIN c /\ c[w] = sum
    BY <1>2 DEF ConstIds
  <2> HIDE DEF w
  <2> QED
    BY <1>2, <2>1, <2>2
<1>3. CASE {a, b} \subseteq DOMAIN c /\ ConstIds(c, sum) = {}
  <2> DEFINE more == [v \in DOMAIN c \cup {next} |-> IF v = next THEN sum ELSE c[v]]
  <2>1. r = [id |-> next, next |-> next + 1, consts |-> more]
    BY <1>3 DEF Add
  <2>2. next \notin DOMAIN c
    OBVIOUS
  <2>3. \A v \in DOMAIN c : c[v] # sum
    BY <1>3 DEF ConstIds
  <2>4. /\ DOMAIN more = DOMAIN c \cup {next} /\ more[next] = sum
        /\ \A v \in DOMAIN c : more[v] = c[v]
    BY <2>2
  <2> HIDE DEF more, sum
  <2>5. Injective(more)
    BY <2>3, <2>4 DEF Injective
  <2> QED
    BY <1>3, <2>1, <2>4, <2>5 DEF sum
<1> QED
  BY <1>1, <1>2, <1>3

-----------------------------------------------------------------------------
(* The inductive invariant.                                                *)

\* The constants of the first state stay, and no two ids mean one number.
ConstInv ==
    /\ 0 .. 2 * MaxConst - 1 \subseteq DOMAIN consts
    /\ consts[Zero] = 0
    /\ Injective(consts)

\* A pointer value denotes the place it was made for, or, when the object of
\* that place is gone, the freed object; no number points into an object.
OriginInv ==
    /\ DOMAIN origin = Known
    /\ IsMap(origin)
    /\ \A v \in Known :
          /\ origin[v].off = Place(v).off
          /\ origin[v].obj \in ObjectIds
          /\ Place(v).obj = IF origin[v].obj \in DOMAIN objects
                            THEN origin[v].obj ELSE FreedObj
          /\ origin[v].obj \notin SpecialObjs => ~IsConstant(v)

OffsetsUnique == \A o \in DOMAIN objects : UniqueOffsets(objects[o].pt)

MemInv == GraphInv /\ StoredEdgesAgree /\ ConstInv /\ OriginInv /\ OffsetsUnique

LEMMA KnownHas == \A v : v \in Known <=> HasValue(handles, v)
BY DEF Known, HasValue, OfValue

\* What a lookup returns, seen as a place.
LEMMA PlaceType ==
    ASSUME GraphInv, NEW v \in Known
    PROVE  /\ v \in Issued
           /\ Place(v).obj \in DOMAIN objects /\ Place(v).off \in Issued
           /\ Target(v) = Place(v).obj /\ Offset(v) = Place(v).off
<1>1. HasValue(handles, v) /\ handles \in Seq(PtEdges({Zero}))
  BY KnownHas DEF GraphInv, TypeOK
<1>2. /\ FindByValue(handles, v) \in PtEdges({Zero}) /\ FindByValue(handles, v).value = v
      /\ FindPtEdge(v) = FindByValue(handles, v)
  BY <1>1, FindByValueType DEF FindPtEdge
<1>3. v \in Issued
  BY <1>2 DEF PtEdges
<1>4. FindPtEdge(v).obj \in DOMAIN objects
  BY <1>3, FindPtEdgeType
<1> QED
  BY <1>2, <1>3, <1>4 DEF Place, Target, Offset, PtEdges

\* The constants grow without moving what was there.
ConstsGrow ==
    /\ Injective(consts')
    /\ \A v \in DOMAIN consts : v \in DOMAIN consts' /\ consts'[v] = consts[v]
    /\ \A v \in Issued : v \in DOMAIN consts' => v \in DOMAIN consts

LEMMA OffsetsKept ==
    ASSUME ConstsGrow, NEW v \in Issued
    PROVE  OffsetIn(consts', v) = OffsetIn(consts, v)
BY DEF ConstsGrow, OffsetIn

-----------------------------------------------------------------------------
(* Derived pointers.                                                       *)

\* The offset and the value of a derived pointer: a sum of constants is a
\* constant, everything else is new.
LEMMA DerivedIds ==
    ASSUME MemInv, NEW base \in Issued, NEW off,
           NEW next \in Nat, nextVal <= next,
           CreateDerivedPointer(base, off, consts, next)
    PROVE  LET o == DerivedOffset(base, off, consts, next).id
               d == DerivedValue(base, off, consts, next).id
           IN  /\ ConstsGrow
               /\ {Offset(base), off} \subseteq DOMAIN consts =>
                     OffsetIn(consts', o) = <<"int", consts[Offset(base)] + consts[off]>>
               /\ ~({Offset(base), off} \subseteq DOMAIN consts) =>
                     /\ o = next /\ next \in 0 .. MaxVal
                     /\ OffsetIn(consts', o) = <<"sym", next>>
               /\ d \in 0 .. MaxVal
               /\ (~IsConstant(base) \/ ~({Offset(base), off} \subseteq DOMAIN consts)) =>
                     d >= next /\ d \notin DOMAIN consts'
<1> DEFINE ro == DerivedOffset(base, off, consts, next)
           rd == DerivedValue(base, off, consts, next)
<1>1. /\ consts \in [DOMAIN consts -> Int] /\ Injective(consts)
      /\ DOMAIN consts \subseteq 0 .. nextVal - 1 /\ nextVal \in Nat
      /\ DOMAIN consts \subseteq 0 .. next - 1
      /\ base \in 0 .. nextVal - 1 /\ MaxVal \in Nat
  BY BoundsAssumption DEF MemInv, GraphInv, TypeOK, Issued, ConstInv
<1>2. ro = Add(consts, next, Offset(base), off)
  BY DEF DerivedOffset, Offset
<1>3. /\ next <= ro.next /\ ro.next \in Nat /\ ro.id \in 0 .. ro.next - 1
      /\ ro.consts \in [DOMAIN ro.consts -> Int]
      /\ DOMAIN ro.consts \subseteq 0 .. ro.next - 1
  BY <1>1, AddType DEF DerivedOffset
<1>4. /\ Injective(ro.consts)
      /\ \A v \in DOMAIN consts : v \in DOMAIN ro.consts /\ ro.consts[v] = consts[v]
      /\ \A v \in DOMAIN ro.consts : v \in DOMAIN consts \/ v = next
      /\ {Offset(base), off} \subseteq DOMAIN consts =>
            ro.id \in DOMAIN ro.consts /\ ro.consts[ro.id] = consts[Offset(base)] + consts[off]
      /\ ~({Offset(base), off} \subseteq DOMAIN consts) =>
            ro.id = next /\ ro.consts = consts /\ ro.next = next + 1
  <2> HIDE DEF ro
  <2> QED BY <1>1, <1>2, AddKeeps
<1>5. rd = Add(ro.consts, ro.next, base, ro.id)
  BY DEF DerivedValue
<1>6. consts' = rd.consts /\ rd.next <= MaxVal
  BY DEF CreateDerivedPointer
<1> HIDE DEF ro
<1>7. /\ rd.next \in Nat /\ ro.next <= rd.next /\ rd.id \in 0 .. rd.next - 1
  <2> HIDE DEF rd
  <2> QED BY <1>3, <1>5, AddType
<1>8. /\ Injective(rd.consts)
      /\ \A v \in DOMAIN ro.consts : v \in DOMAIN rd.consts /\ rd.consts[v] = ro.consts[v]
      /\ \A v \in DOMAIN rd.consts : v \in DOMAIN ro.consts \/ v = ro.next
      /\ ~({base, ro.id} \subseteq DOMAIN ro.consts) =>
            rd.id = ro.next /\ rd.consts = ro.consts /\ rd.next = ro.next + 1
  <2> HIDE DEF rd
  <2> QED BY <1>3, <1>4, <1>5, AddKeeps
<1> HIDE DEF rd
<1>9. ConstsGrow
  BY <1>1, <1>3, <1>4, <1>6, <1>8 DEF ConstsGrow, Issued
<1>10. {Offset(base), off} \subseteq DOMAIN consts =>
          OffsetIn(consts', ro.id) = <<"int", consts[Offset(base)] + consts[off]>>
  BY <1>4, <1>6, <1>8 DEF OffsetIn
<1>11. ASSUME ~({Offset(base), off} \subseteq DOMAIN consts)
       PROVE  /\ ro.id = next /\ next \in 0 .. MaxVal
              /\ OffsetIn(consts', ro.id) = <<"sym", next>>
              /\ rd.id >= next /\ rd.id \notin DOMAIN consts'
  <2>1. ro.id = next /\ ro.consts = consts /\ ro.next = next + 1
    BY <1>4, <1>11
  <2>2. next \notin DOMAIN consts
    BY <1>1
  <2>3. rd.id = next + 1 /\ rd.consts = consts
    BY <1>8, <2>1, <2>2
  <2>4. next \in 0 .. MaxVal /\ next + 1 \notin DOMAIN consts
    BY <1>1, <1>6, <1>7, <2>1
  <2> QED
    BY <1>6, <2>1, <2>2, <2>3, <2>4 DEF OffsetIn
<1>12. ASSUME ~IsConstant(base)
       PROVE  rd.id >= next /\ rd.id \notin DOMAIN consts'
  <2>1. base \notin DOMAIN ro.consts
    BY <1>1, <1>4, <1>12 DEF IsConstant
  <2>2. rd.id = ro.next /\ rd.consts = ro.consts
    BY <1>8, <2>1
  <2> QED
    BY <1>3, <1>6, <2>2
<1>13. rd.id \in 0 .. MaxVal
  BY <1>1, <1>6, <1>7
<1> QED
  BY <1>9, <1>10, <1>11, <1>12, <1>13 DEF ro, rd

\* The places of the pointers after one was derived.
LEMMA DerivedPlaces ==
    ASSUME MemInv, NEW base \in Issued, NEW off,
           NEW next \in Nat, nextVal <= next,
           CreateDerivedPointer(base, off, consts, next)
    PROVE  LET o == DerivedOffset(base, off, consts, next).id
               d == DerivedValue(base, off, consts, next).id
           IN  /\ Known' = Known \cup {base, d}
               /\ \A v \in Known : Place(v)' = Place(v)
               /\ base \notin Known => Place(base)' = [obj |-> UnknownObj, off |-> Zero]
               /\ \A v \in {d} \ (Known \cup {base}) :
                     Place(v)' = [obj |-> Target(base), off |-> o]
<1> DEFINE o  == DerivedOffset(base, off, consts, next).id
           d  == DerivedValue(base, off, consts, next).id
           e  == DerivedEdge(base, off, consts, next)
           hs == HandlesAfterFind(base)
           u  == UnknownPtEdge(base)
           T  == PtEdges({Zero})
           U  == T \cup {e, u}
<1>1. hs \in Seq(T) /\ FindPtEdge(base) \in T /\ handles \in Seq(T)
  BY FindPtEdgeType DEF MemInv, GraphInv, TypeOK
<1>2. e.value = d /\ e.toff = o /\ e.obj = Target(base)
  BY <1>1 DEF DerivedEdge, PtEdges, Target
<1>3. u.value = base /\ u.obj = UnknownObj /\ u.toff = Zero
  BY DEF UnknownPtEdge, PtEdge
<1>4. /\ HasValue(handles, base) => hs = handles
      /\ ~HasValue(handles, base) => hs = Append(handles, u)
      /\ handles' = Append(hs, e)
  BY DEF HandlesAfterFind, CreateDerivedPointer
<1> HIDE DEF o, d, e, hs, u, T
<1>5. hs \in Seq(U) /\ handles \in Seq(U) /\ e \in U /\ u \in U
  <2>1. T \subseteq U
    OBVIOUS
  <2> QED
    BY <1>1, <2>1, SeqMonotonic
<1> HIDE DEF U
\* A search in a vector with one more edge.
<1>6. ASSUME NEW s \in Seq(U), NEW x \in U, NEW v
      PROVE  /\ HasValue(Append(s, x), v) <=> HasValue(s, v) \/ v = x.value
             /\ HasValue(s, v) => FindByValue(Append(s, x), v) = FindByValue(s, v)
             /\ ~HasValue(s, v) /\ v = x.value => FindByValue(Append(s, x), v) = x
  <2>1. /\ HasValue(s, v) => HasValue(Append(s, x), v)
                             /\ FindByValue(Append(s, x), v) = FindByValue(s, v)
    BY FindAfterAppend
  <2>2. ~HasValue(s, v) /\ v = x.value =>
           HasValue(Append(s, x), v) /\ FindByValue(Append(s, x), v) = x
    BY FindAppended
  <2>3. HasValue(Append(s, x), v) => HasValue(s, v) \/ v = x.value
    <3>1. /\ DOMAIN s = 1 .. Len(s) /\ Len(s) \in Nat
          /\ DOMAIN Append(s, x) = 1 .. Len(s) + 1
          /\ \A i \in DOMAIN s : Append(s, x)[i] = s[i]
          /\ Append(s, x)[Len(s) + 1] = x
      BY AppendProperties
    <3>2. \A i \in DOMAIN Append(s, x) : i \in DOMAIN s \/ Append(s, x)[i] = x
      BY <3>1
    <3> QED
      BY <3>1, <3>2 DEF HasValue, OfValue
  <2> QED
    BY <2>1, <2>2, <2>3
<1>7. /\ HasValue(hs, base)
      /\ \A v : HasValue(hs, v) <=> HasValue(handles, v) \/ v = base
      /\ \A v : HasValue(handles, v) => FindByValue(hs, v) = FindByValue(handles, v)
      /\ ~HasValue(handles, base) => FindByValue(hs, base) = u
  <2>1. CASE HasValue(handles, base)
    BY <1>4, <2>1
  <2>2. CASE ~HasValue(handles, base)
    <3>1. hs = Append(handles, u)
      BY <1>4, <2>2
    <3>2. \A v : /\ HasValue(Append(handles, u), v) <=> HasValue(handles, v) \/ v = u.value
                 /\ HasValue(handles, v) =>
                       FindByValue(Append(handles, u), v) = FindByValue(handles, v)
                 /\ ~HasValue(handles, v) /\ v = u.value =>
                       FindByValue(Append(handles, u), v) = u
      BY <1>5, <1>6
    <3> QED
      BY <1>3, <2>2, <3>1, <3>2
  <2> QED
    BY <2>1, <2>2
<1>8. /\ \A v : HasValue(handles', v) <=> HasValue(handles, v) \/ v = base \/ v = d
      /\ \A v : HasValue(hs, v) => FindByValue(handles', v) = FindByValue(hs, v)
      /\ ~HasValue(hs, d) => FindByValue(handles', d) = e
  <2>1. /\ \A v : HasValue(handles', v) <=> HasValue(hs, v) \/ v = d
        /\ \A v : HasValue(hs, v) => FindByValue(handles', v) = FindByValue(hs, v)
        /\ ~HasValue(hs, d) => FindByValue(handles', d) = e
    BY <1>2, <1>4, <1>5, <1>6
  <2> QED
    BY <1>7, <2>1
<1>9. \A v : v \in Known' <=> HasValue(handles', v)
  BY DEF Known, HasValue, OfValue
<1>10. Known' = Known \cup {base, d}
  <2>1. \A v : v \in Known' <=> v \in Known \/ v = base \/ v = d
    BY <1>8, <1>9, KnownHas
  <2> QED
    BY <2>1
<1>11. \A v \in Known : Place(v)' = Place(v)
  BY <1>7, <1>8, KnownHas DEF Place
<1>12. base \notin Known => Place(base)' = [obj |-> UnknownObj, off |-> Zero]
  BY <1>3, <1>7, <1>8, KnownHas DEF Place
<1>13. ASSUME NEW v \in {d} \ (Known \cup {base})
       PROVE  Place(v)' = [obj |-> Target(base), off |-> o]
  <2>1. ~HasValue(hs, d) /\ v = d
    BY <1>7, KnownHas
  <2> QED
    BY <1>2, <1>8, <2>1 DEF Place
<1> QED
  BY <1>10, <1>11, <1>12, <1>13 DEF o, d

-----------------------------------------------------------------------------
(* Every step preserves the invariant.                                     *)

OriginStep == origin' = [v \in Known' |-> IF v \in DOMAIN origin THEN origin[v] ELSE Place(v)']

\* A step that keeps the places of the known pointers and erases no object.
LEMMA OriginGrows ==
    ASSUME MemInv, OriginStep, nextObj' \in Nat, nextObj <= nextObj', ConstsGrow,
           DOMAIN objects \subseteq DOMAIN objects',
           \A o \in DOMAIN objects' : o \in DOMAIN objects \/ o \notin ObjectIds,
           \A v \in Known : v \in Known' /\ Place(v)' = Place(v),
           \A v \in Known' \ Known :
              /\ Place(v)'.obj \in ObjectIds' \cap DOMAIN objects'
              /\ Place(v)'.obj \notin SpecialObjs => v \notin DOMAIN consts'
    PROVE  OriginInv'
<1>1. /\ DOMAIN origin' = Known' /\ IsMap(origin')
      /\ \A v \in Known' : origin'[v] = IF v \in Known THEN origin[v] ELSE Place(v)'
  <2>1. DOMAIN origin = Known
    BY DEF MemInv, OriginInv
  <2> QED
    BY <2>1 DEF OriginStep, IsMap
<1>2. ObjectIds \subseteq ObjectIds'
  BY DEF ObjectIds, MemInv, GraphInv, TypeOK
<1>3. ASSUME NEW v \in Known'
      PROVE  /\ origin'[v].off = Place(v)'.off
             /\ origin'[v].obj \in ObjectIds'
             /\ Place(v)'.obj = IF origin'[v].obj \in DOMAIN objects'
                                THEN origin'[v].obj ELSE FreedObj
             /\ origin'[v].obj \notin SpecialObjs => v \notin DOMAIN consts'
  <2>1. CASE v \in Known
    <3>1. /\ origin[v].off = Place(v).off /\ origin[v].obj \in ObjectIds
          /\ Place(v).obj = IF origin[v].obj \in DOMAIN objects
                            THEN origin[v].obj ELSE FreedObj
          /\ origin[v].obj \notin SpecialObjs => v \notin DOMAIN consts
      BY <2>1 DEF MemInv, OriginInv, IsConstant
    <3>2. v \in Issued
      BY <2>1, PlaceType DEF MemInv
    <3>3. v \in DOMAIN consts' => v \in DOMAIN consts
      BY <3>2 DEF ConstsGrow
    <3>4. origin'[v] = origin[v] /\ Place(v)' = Place(v)
      BY <1>1, <2>1
    <3>5. origin[v].obj \in DOMAIN objects' <=> origin[v].obj \in DOMAIN objects
      BY <3>1
    <3> QED
      BY <1>2, <3>1, <3>3, <3>4, <3>5
  <2>2. CASE v \notin Known
    BY <1>1, <2>2
  <2> QED
    BY <2>1, <2>2
<1> QED
  BY <1>1, <1>3 DEF OriginInv, IsConstant

\* Constants that stay or grow.
LEMMA ConstInvKept ==
    ASSUME ConstInv, MaxConst \in Nat \ {0}, ConstsGrow
    PROVE  ConstInv'
<1>1. Zero \in DOMAIN consts
  BY DEF ConstInv, Zero
<1> QED
  BY <1>1 DEF ConstInv, ConstsGrow

LEMMA SameConsts == MemInv /\ consts' = consts => ConstsGrow
BY DEF MemInv, ConstInv, ConstsGrow

\* Places survive whatever keeps searches.
LEMMA PlacesKept ==
    ASSUME SearchesKept
    PROVE  \A v \in Known : v \in Known' /\ Place(v)' = Place(v)
<1>1. \A v : v \in Known' <=> HasValue(handles', v)
  BY DEF Known, HasValue, OfValue
<1> QED
  BY <1>1, KnownHas DEF SearchesKept, Place

\* Steps that do not touch the handles.
LEMMA OriginSame ==
    ASSUME MemInv, OriginStep, handles' = handles, DOMAIN objects' = DOMAIN objects,
           nextObj' = nextObj, ConstsGrow
    PROVE  OriginInv'
<1>1. Known' = Known
  BY DEF Known
<1>2. \A v : Place(v)' = Place(v)
  BY DEF Place
<1>3. nextObj \in Nat
  BY DEF MemInv, GraphInv, TypeOK
<1> QED
  BY <1>1, <1>2, <1>3, OriginGrows

LEMMA OriginAllocate ==
    ASSUME MemInv, OriginStep, NEW space, AllocateRegion(space)
    PROVE  /\ OriginInv' /\ nextVal \notin Known
           /\ Known' = Known \cup {nextVal}
           /\ \A v \in Known : Place(v)' = Place(v)
           /\ \A v \in {nextVal} : Place(v)' = [obj |-> nextObj, off |-> Zero]
<1> DEFINE e == PtEdge(Zero, nextVal, nextObj, Zero)
           T == PtEdges({Zero})
           U == T \cup {e}
<1>1. /\ handles \in Seq(T) /\ nextVal \in Nat /\ nextObj \in Nat \ {0}
      /\ DOMAIN objects \subseteq ObjectIds /\ DOMAIN consts \subseteq Issued
      /\ SpecialObjs \subseteq DOMAIN objects
  BY DEF MemInv, GraphInv, TypeOK
<1>2. /\ handles' = Append(handles, e) /\ nextObj' = nextObj + 1 /\ consts' = consts
      /\ DOMAIN objects' = DOMAIN objects \cup {nextObj}
  BY DEF AllocateRegion
<1>3. /\ ~HasValue(handles, nextVal) /\ nextVal \notin Known
      /\ nextVal \notin DOMAIN consts
  <2>1. nextVal \notin Issued
    BY <1>1 DEF Issued
  <2>2. \A v \in Known : v \in Issued
    BY PlaceType DEF MemInv
  <2> QED
    BY <1>1, <2>1, <2>2, KnownHas
<1>4. e.value = nextVal /\ e.obj = nextObj /\ e.toff = Zero
  BY DEF PtEdge
<1> HIDE DEF e, T
<1>5. SearchesKept
  BY <1>1, <1>2, AppendKeepsSearches
<1>6. handles \in Seq(U) /\ e \in U
  <2>1. T \subseteq U
    OBVIOUS
  <2> QED
    BY <1>1, <2>1, SeqMonotonic
<1> HIDE DEF U
<1>7. HasValue(handles', nextVal) /\ FindByValue(handles', nextVal) = e
  BY <1>2, <1>3, <1>4, <1>6, FindAppended
<1>8. Known' = Known \cup {nextVal}
  <2>1. /\ DOMAIN handles = 1 .. Len(handles) /\ Len(handles) \in Nat
        /\ DOMAIN handles' = 1 .. Len(handles) + 1
        /\ \A i \in DOMAIN handles : handles'[i] = handles[i]
        /\ handles'[Len(handles) + 1] = e
    BY <1>2, <1>6, AppendProperties
  <2>2. \A i \in DOMAIN handles' : i \in DOMAIN handles \/ handles'[i] = e
    BY <2>1
  <2>3. \A v : v \in Known' <=> v \in Known \/ v = nextVal
    BY <1>4, <2>1, <2>2 DEF Known
  <2> QED
    BY <2>3
<1>9. \A v \in {nextVal} : Place(v)' = [obj |-> nextObj, off |-> Zero]
  BY <1>4, <1>7 DEF Place
<1>10. nextObj \notin ObjectIds /\ nextObj \in ObjectIds' /\ nextObj \notin SpecialObjs
  BY <1>1, <1>2 DEF ObjectIds, SpecialObjs, NullObj, UnknownObj, FreedObj
<1>11. /\ nextObj' \in Nat /\ nextObj <= nextObj' /\ ConstsGrow
       /\ \A v \in Known : v \in Known' /\ Place(v)' = Place(v)
  BY <1>1, <1>2, <1>5, PlacesKept, SameConsts
<1>12. \A v \in Known' \ Known :
          /\ Place(v)'.obj = nextObj /\ v \notin DOMAIN consts'
  BY <1>2, <1>3, <1>8, <1>9
<1>13. OriginInv'
  BY <1>2, <1>10, <1>11, <1>12, OriginGrows
<1> QED
  BY <1>3, <1>8, <1>9, <1>11, <1>13

LEMMA OriginDerive ==
    ASSUME MemInv, OriginStep, NEW base \in Issued, NEW off,
           NEW next \in Nat, nextVal <= next,
           CreateDerivedPointer(base, off, consts, next),
           DOMAIN objects' = DOMAIN objects, nextObj' = nextObj
    PROVE  OriginInv' /\ ConstsGrow
<1> DEFINE o == DerivedOffset(base, off, consts, next).id
           d == DerivedValue(base, off, consts, next).id
<1>1. /\ ConstsGrow
      /\ ~IsConstant(base) => d \notin DOMAIN consts'
  BY DerivedIds
<1>2. /\ Known' = Known \cup {base, d}
      /\ \A v \in Known : Place(v)' = Place(v)
      /\ base \notin Known => Place(base)' = [obj |-> UnknownObj, off |-> Zero]
      /\ \A v \in {d} \ (Known \cup {base}) :
            Place(v)' = [obj |-> Target(base), off |-> o]
  BY DerivedPlaces
<1>3. /\ Target(base) \in DOMAIN objects /\ DOMAIN objects \subseteq ObjectIds
      /\ SpecialObjs \subseteq DOMAIN objects /\ nextObj \in Nat
  BY FindPtEdgeType DEF MemInv, GraphInv, TypeOK, Target
<1>4. Target(base) \notin SpecialObjs => ~IsConstant(base)
  <2>1. CASE base \in Known
    <3>1. /\ Target(base) = Place(base).obj
          /\ Place(base).obj = IF origin[base].obj \in DOMAIN objects
                               THEN origin[base].obj ELSE FreedObj
          /\ origin[base].obj \notin SpecialObjs => ~IsConstant(base)
      BY <2>1, PlaceType DEF MemInv, OriginInv
    <3> QED
      BY <3>1 DEF SpecialObjs
  <2>2. CASE base \notin Known
    <3>1. Target(base) = UnknownObj
      BY <2>2, KnownHas DEF Target, FindPtEdge, UnknownPtEdge, PtEdge
    <3> QED
      BY <3>1 DEF SpecialObjs
  <2> QED
    BY <2>1, <2>2
<1> HIDE DEF o, d
<1>5. ASSUME NEW v \in Known' \ Known
      PROVE  /\ Place(v)'.obj \in ObjectIds' \cap DOMAIN objects'
             /\ Place(v)'.obj \notin SpecialObjs => v \notin DOMAIN consts'
  <2>1. ObjectIds' = ObjectIds /\ UnknownObj \in SpecialObjs
    BY DEF ObjectIds, SpecialObjs
  <2>2. CASE v = base
    BY <1>2, <1>3, <2>1, <2>2
  <2>3. CASE v # base
    <3>1. v = d /\ Place(v)'.obj = Target(base)
      BY <1>2, <2>3
    <3> QED
      BY <1>1, <1>3, <1>4, <2>1, <3>1
  <2> QED
    BY <2>2, <2>3
<1> QED
  BY <1>1, <1>2, <1>3, <1>5, OriginGrows

\* A pointer loaded from memory was known.
LEMMA KnownAfterLoad ==
    ASSUME MemInv, NEW p \in Issued, LoadPtr(p)
    PROVE  /\ SearchesKept /\ Known' = Known
           /\ HasOffset(Object(p).pt, Offset(p)) =>
                 FindByOffset(Object(p).pt, Offset(p)).value \in Known
<1> DEFINE edge == FindByOffset(Object(p).pt, Offset(p))
           T == PtEdges(Issued \cup {Hidden})
<1>1. handles \in Seq(PtEdges({Zero})) /\ CanAccess(p) /\ GraphInv /\ StoredEdgesAgree
  BY DEF MemInv, GraphInv, TypeOK, LoadPtr
<1>2. CASE ~HasOffset(Object(p).pt, Offset(p))
  BY <1>2 DEF LoadPtr, SearchesKept, Known
<1>3. CASE HasOffset(Object(p).pt, Offset(p))
  <2>1. handles' = Append(handles, MovedTo(edge, Zero))
    BY <1>3 DEF LoadPtr
  <2>2. Object(p).pt \in Seq(T) /\ Target(p) \in DOMAIN objects
    BY <1>1, AccessType DEF Regions
  <2>3. edge \in T /\ First(AtOffset(Object(p).pt, Offset(p))) \in DOMAIN Object(p).pt
    BY <1>3, <2>2, FindByOffsetType
  <2>4. Backed(edge, handles)
    BY <1>1, <2>2, <2>3, StoredBacked DEF Object, FindByOffset
  <2> HIDE DEF edge
  <2>5. edge.value \in Known
    BY <2>4, KnownHas DEF Backed
  <2>6. MovedTo(edge, Zero).value = edge.value
    BY <2>3 DEF MovedTo, PtEdges
  <2> DEFINE e == MovedTo(edge, Zero)
             U == PtEdges({Zero}) \cup {e}
  <2>7. handles \in Seq(U) /\ e \in U
    <3>1. PtEdges({Zero}) \subseteq U
      OBVIOUS
    <3> QED
      BY <1>1, <3>1, SeqMonotonic
  <2>8. e.value \in Known /\ handles' = Append(handles, e)
    BY <2>1, <2>5, <2>6
  <2> HIDE DEF e, U
  <2>9. /\ DOMAIN handles = 1 .. Len(handles) /\ Len(handles) \in Nat
        /\ DOMAIN handles' = 1 .. Len(handles) + 1
        /\ \A i \in DOMAIN handles : handles'[i] = handles[i]
        /\ handles'[Len(handles) + 1] = e
    BY <2>7, <2>8, AppendProperties
  <2>10. \A i \in DOMAIN handles' : i \in DOMAIN handles \/ handles'[i] = e
    BY <2>9
  <2>11. \A v : v \in Known' <=> v \in Known
    BY <2>8, <2>9, <2>10 DEF Known
  <2>12. SearchesKept
    BY <1>1, <2>8, AppendKeepsSearches
  <2>13. Known' = Known
    BY <2>11
  <2> QED
    BY <2>5, <2>12, <2>13 DEF edge
<1> QED
  BY <1>2, <1>3

\* The release of an object.
LEMMA PlacesFree ==
    ASSUME MemInv, NEW p \in heldPtrs, FreeObject(p)
    PROVE  /\ Known' = Known
           /\ \A v \in Known :
                 /\ Place(v)'.off = Place(v).off
                 /\ Place(v)'.obj = IF Place(v).obj = Target(p) THEN FreedObj ELSE Place(v).obj
<1> DEFINE After(e) == IF e.obj = Target(p) THEN Retarget(e, FreedObj) ELSE e
<1>1. /\ DOMAIN handles' = DOMAIN handles
      /\ \A i \in DOMAIN handles : handles'[i] = After(handles[i])
      /\ \A v : HasValue(handles, v) =>
            FindByValue(handles', v) = After(FindByValue(handles, v))
  BY FreeEdges DEF MemInv
<1>2. \A e \in PtEdges({Zero}) :
         /\ After(e).value = e.value /\ After(e).toff = e.toff
         /\ After(e).obj = IF e.obj = Target(p) THEN FreedObj ELSE e.obj
  BY DEF PtEdges, Retarget
<1>3. handles \in Seq(PtEdges({Zero}))
  BY DEF MemInv, GraphInv, TypeOK
<1>4. \A i \in DOMAIN handles : handles[i] \in PtEdges({Zero})
  BY <1>3
<1> HIDE DEF After
<1>5. Known' = Known
  <2>1. \A i \in DOMAIN handles : handles'[i].value = handles[i].value
    BY <1>1, <1>2, <1>4
  <2> QED
    BY <1>1, <2>1 DEF Known
<1>6. ASSUME NEW v \in Known
      PROVE  /\ Place(v)'.off = Place(v).off
             /\ Place(v)'.obj = IF Place(v).obj = Target(p) THEN FreedObj ELSE Place(v).obj
  <2>1. HasValue(handles, v) /\ FindByValue(handles, v) \in PtEdges({Zero})
    BY <1>3, KnownHas, FindByValueType
  <2> QED
    BY <1>1, <1>2, <2>1 DEF Place
<1> QED
  BY <1>5, <1>6

LEMMA OriginFree ==
    ASSUME MemInv, OriginStep, NEW p \in heldPtrs, FreeObject(p)
    PROVE  OriginInv' /\ origin' = origin
<1>1. /\ Known' = Known /\ nextObj' = nextObj /\ consts' = consts
      /\ DOMAIN objects' = DOMAIN objects \ {Target(p)}
      /\ DOMAIN origin = Known /\ IsMap(origin)
  BY PlacesFree DEF FreeObject, vcVars, MemInv, OriginInv
<1>2. origin' = origin
  BY <1>1 DEF OriginStep, IsMap
<1>3. FreedObj \in DOMAIN objects /\ Target(p) \notin SpecialObjs
  BY DEF MemInv, GraphInv, TypeOK, SpecialObjs, FreeObject, CanAccess
<1>4. ASSUME NEW v \in Known
      PROVE  /\ origin[v].off = Place(v)'.off
             /\ origin[v].obj \in ObjectIds'
             /\ Place(v)'.obj = IF origin[v].obj \in DOMAIN objects'
                                THEN origin[v].obj ELSE FreedObj
             /\ origin[v].obj \notin SpecialObjs => v \notin DOMAIN consts'
  <2>1. /\ origin[v].off = Place(v).off /\ origin[v].obj \in ObjectIds
        /\ Place(v).obj = IF origin[v].obj \in DOMAIN objects
                          THEN origin[v].obj ELSE FreedObj
        /\ origin[v].obj \notin SpecialObjs => v \notin DOMAIN consts
    BY DEF MemInv, OriginInv, IsConstant
  <2>2. /\ Place(v)'.off = Place(v).off
        /\ Place(v)'.obj = IF Place(v).obj = Target(p) THEN FreedObj ELSE Place(v).obj
    BY PlacesFree
  <2>3. FreedObj # Target(p)
    BY <1>3 DEF SpecialObjs
  <2>4. ObjectIds' = ObjectIds
    BY <1>1 DEF ObjectIds
  <2> QED
    BY <1>1, <2>1, <2>2, <2>3, <2>4
<1> QED
  BY <1>1, <1>2, <1>4 DEF OriginInv, IsConstant

\* Vectors of pointers keep their offsets apart.
LEMMA UpdateUnique ==
    ASSUME MemInv, NEW p \in Issued, CanAccess(p), NEW object,
           UpdateObject(p, object), UniqueOffsets(object.pt)
    PROVE  OffsetsUnique' /\ DOMAIN objects' = DOMAIN objects
<1>1. objects' = [objects EXCEPT ![Target(p)] = object] /\ Target(p) \in DOMAIN objects
  BY AccessType DEF UpdateObject, MemInv
<1> QED
  BY <1>1 DEF MemInv, OffsetsUnique

LEMMA UpdatePlainUnique ==
    ASSUME MemInv, NEW p \in Issued, CanAccess(p), NEW hv,
           UpdateObject(p, [Object(p) EXCEPT !.hv = hv])
    PROVE  OffsetsUnique' /\ DOMAIN objects' = DOMAIN objects
<1>1. Object(p) \in Regions /\ Target(p) \in DOMAIN objects
  BY AccessType DEF MemInv
<1>2. [Object(p) EXCEPT !.hv = hv].pt = Object(p).pt
  BY <1>1 DEF Regions
<1>3. UniqueOffsets(Object(p).pt)
  BY <1>1 DEF MemInv, OffsetsUnique, Object
<1> DEFINE object == [Object(p) EXCEPT !.hv = hv]
<1>4. UniqueOffsets(object.pt) /\ UpdateObject(p, object)
  BY <1>2, <1>3
<1> HIDE DEF object
<1> QED
  BY <1>4, UpdateUnique

\* What a store of a pointer writes.
LEMMA StorePtrWrites ==
    ASSUME MemInv, NEW p \in heldPtrs, NEW v \in heldPtrs, StorePtr(p, v)
    PROVE  \E object :
              /\ UpdateObject(p, object) /\ UniqueOffsets(object.pt)
              /\ object.space = Object(p).space
              /\ v \in Known =>
                    /\ object.hv = Object(p).hv
                    /\ Cells(consts, object.pt) = Memory!With(Cells(consts, Object(p).pt),
                                                     OffsetIn(consts, Offset(p)), v)
              /\ v \notin Known =>
                    /\ Cells(consts, object.pt) = Memory!Without(Cells(consts, Object(p).pt),
                                                     OffsetIn(consts, Offset(p)))
                    /\ Cells(consts, object.hv) = Memory!With(Cells(consts, Object(p).hv),
                                                     OffsetIn(consts, Offset(p)), v)
<1> DEFINE T == PtEdges(Issued \cup {Hidden})
<1>1. /\ p \in Issued /\ v \in Issued /\ CanAccess(p) /\ Injective(consts)
      /\ handles \in Seq(PtEdges({Zero}))
  BY DEF MemInv, GraphInv, TypeOK, StorePtr, ConstInv
<1>2. /\ Object(p) \in Regions /\ Object(p).pt \in Seq(T) /\ Object(p).hv \in Seq(HvEdges)
      /\ Offset(p) \in Issued /\ Target(p) \in DOMAIN objects
  BY <1>1, AccessType DEF MemInv, Regions
<1>3. UniqueOffsets(Object(p).pt) /\ Offset(p) # Hidden
  BY <1>2 DEF MemInv, OffsetsUnique, Object, Issued, Hidden
<1>4. CASE v \in Known
  <2> DEFINE e  == MovedTo(FindByValue(handles, v), Offset(p))
             pt == CreateOrModify(Object(p).pt, e)
             object == [Object(p) EXCEPT !.pt = pt]
  <2>1. HasValue(handles, v)
    BY <1>4, KnownHas
  <2>2. FindByValue(handles, v) \in PtEdges({Zero}) /\ FindByValue(handles, v).value = v
    BY <1>1, <2>1, FindByValueType
  <2>3. e \in T /\ e.value = v /\ e.off = Offset(p)
    BY <1>2, <2>2 DEF MovedTo, PtEdges
  <2> HIDE DEF e, T
  <2>4. UniqueOffsets(pt)
    BY <1>2, <1>3, <2>3, UniqueModify
  <2>5. Cells(consts, pt) = Memory!With(Cells(consts, Object(p).pt), OffsetIn(consts, e.off), e.value)
    BY <1>1, <1>2, <1>3, <2>3, CellsWrite
  <2> HIDE DEF pt
  <2>6. object.pt = pt /\ object.hv = Object(p).hv /\ object.space = Object(p).space
    BY <1>2 DEF Regions
  <2>7. UpdateObject(p, object)
    BY <2>1 DEF StorePtr, e, pt
  <2> HIDE DEF object
  <2> QED
    BY <1>4, <2>3, <2>4, <2>5, <2>6, <2>7
<1>5. CASE v \notin Known
  <2> DEFINE pt == Disabled(Object(p).pt, Offset(p))
             e  == HvEdge(Offset(p), v)
             hv == CreateOrModify(Object(p).hv, e)
             object == [Object(p) EXCEPT !.pt = pt, !.hv = hv]
  <2>1. ~HasValue(handles, v)
    BY <1>5, KnownHas
  <2>2. e \in HvEdges /\ e.off = Offset(p) /\ e.value = v
    BY <1>1, <1>2 DEF HvEdge, HvEdges
  <2>3. \A x \in T : [x EXCEPT !.off = Hidden].off = Hidden
    BY DEF PtEdges
  <2> HIDE DEF e, T
  <2>4. /\ Cells(consts, pt) = Memory!Without(Cells(consts, Object(p).pt), OffsetIn(consts, Offset(p)))
        /\ UniqueOffsets(pt)
    BY <1>1, <1>2, <1>3, <2>3, CellsDisabled
  <2>5. Cells(consts, hv) = Memory!With(Cells(consts, Object(p).hv), OffsetIn(consts, e.off), e.value)
    BY <1>1, <1>2, <1>3, <2>2, CellsWrite
  <2> HIDE DEF pt, hv
  <2>6. object.pt = pt /\ object.hv = hv /\ object.space = Object(p).space
    BY <1>2 DEF Regions
  <2>7. UpdateObject(p, object)
    BY <2>1 DEF StorePtr, e, pt, hv
  <2> HIDE DEF object
  <2> QED
    BY <1>5, <2>2, <2>4, <2>5, <2>6, <2>7
<1> QED
  BY <1>4, <1>5

LEMMA UniqueFree ==
    ASSUME MemInv, NEW p \in heldPtrs, FreeObject(p)
    PROVE  OffsetsUnique'
<1> DEFINE T == PtEdges(Issued \cup {Hidden})
           After(e) == IF e.obj = Target(p) THEN Retarget(e, FreedObj) ELSE e
<1>1. \A e \in T : After(e).off = e.off
  BY DEF PtEdges, Retarget
<1>2. /\ DOMAIN objects' \subseteq DOMAIN objects
      /\ \A x \in DOMAIN objects' :
            /\ DOMAIN objects'[x].pt = DOMAIN objects[x].pt
            /\ \A i \in DOMAIN objects[x].pt :
                  objects'[x].pt[i] = After(objects[x].pt[i])
  BY FreeEdges DEF MemInv
<1>3. ASSUME NEW x \in DOMAIN objects' PROVE UniqueOffsets(objects'[x].pt)
  <2>1. x \in DOMAIN objects /\ UniqueOffsets(objects[x].pt)
    BY <1>2 DEF MemInv, OffsetsUnique
  <2>2. objects[x].pt \in Seq(T)
    BY <2>1 DEF MemInv, GraphInv, TypeOK, Regions
  <2>3. \A i \in DOMAIN objects[x].pt : objects[x].pt[i] \in T
    BY <2>2
  <2> HIDE DEF T, After
  <2>4. \A i \in DOMAIN objects[x].pt : objects'[x].pt[i].off = objects[x].pt[i].off
    BY <1>1, <1>2, <2>3
  <2> QED
    BY <1>2, <2>1, <2>4 DEF UniqueOffsets
<1> QED
  BY <1>3 DEF OffsetsUnique

\* The parts of the invariant that are new here.
LEMMA PlacesInv ==
    ASSUME MemInv, Next, OriginStep
    PROVE  OriginInv' /\ ConstsGrow /\ OffsetsUnique'
<1>1. /\ heldPtrs \subseteq Issued /\ nextVal \in Nat /\ GraphInv
      /\ nextObj \notin DOMAIN objects
  BY DEF MemInv, GraphInv, TypeOK, ObjectIds, SpecialObjs, NullObj, UnknownObj, FreedObj
<1>2. objects' = objects => OffsetsUnique' /\ DOMAIN objects' = DOMAIN objects
  BY DEF OffsetsUnique, MemInv
<1>3. consts' = consts => ConstsGrow
  BY SameConsts
<1>4. ASSUME handles' = handles, consts' = consts, DOMAIN objects' = DOMAIN objects,
             nextObj' = nextObj
      PROVE  OriginInv' /\ ConstsGrow
  BY <1>3, <1>4, OriginSame
<1>5. CASE Alloca \/ Malloc
  <2>1. PICK space : AllocateRegion(space)
    BY <1>5 DEF Alloca, Malloc
  <2>2. consts' = consts
    BY <2>1 DEF AllocateRegion
  <2>3. OffsetsUnique'
    <3>1. objects' = [o \in DOMAIN objects \cup {nextObj} |->
                         IF o = nextObj THEN NewObject(space) ELSE objects[o]]
      BY <2>1 DEF AllocateRegion
    <3> QED
      BY <3>1 DEF NewObject, OffsetsUnique, UniqueOffsets, MemInv
  <2> QED
    BY <1>3, <2>1, <2>2, <2>3, OriginAllocate
<1>6. ASSUME NEW p \in heldPtrs,
             \/ AccessFault(p) \/ FreeFault(p) \/ FreeNull(p) \/ \E q : CmpPtr(p, q)
      PROVE  OriginInv' /\ ConstsGrow /\ OffsetsUnique'
  BY <1>2, <1>4, <1>6 DEF AccessFault, FreeFault, Fail, FreeNull, CmpPtr, vars, graphVars, vcVars
<1>7. ASSUME NEW p \in heldPtrs, LoadInt(p)
      PROVE  OriginInv' /\ ConstsGrow /\ OffsetsUnique'
  <2>1. CanAccess(p) /\ handles' = handles /\ consts' = consts /\ nextObj' = nextObj
    BY <1>7 DEF LoadInt
  <2>2. \/ objects' = objects
        \/ UpdateObject(p, [Object(p) EXCEPT !.hv =
                               Append(@, HvEdge(Offset(p), nextVal))])
    BY <1>7 DEF LoadInt, ReadPlain
  <2>3. OffsetsUnique' /\ DOMAIN objects' = DOMAIN objects
    BY <1>1, <1>2, <2>1, <2>2, UpdatePlainUnique
  <2> QED
    BY <1>4, <2>1, <2>3
<1>8. ASSUME NEW p \in heldPtrs, LoadPtr(p)
      PROVE  OriginInv' /\ ConstsGrow /\ OffsetsUnique'
  <2>1. CanAccess(p) /\ consts' = consts /\ nextObj' = nextObj
    BY <1>8 DEF LoadPtr
  <2>2. \/ objects' = objects
        \/ UpdateObject(p, [Object(p) EXCEPT !.hv =
                               Append(@, HvEdge(Offset(p), nextVal))])
    BY <1>8 DEF LoadPtr, ReadPlain
  <2>3. OffsetsUnique' /\ DOMAIN objects' = DOMAIN objects
    BY <1>1, <1>2, <2>1, <2>2, UpdatePlainUnique
  <2>4. Known' = Known /\ \A v \in Known : v \in Known' /\ Place(v)' = Place(v)
    BY <1>1, <1>8, KnownAfterLoad, PlacesKept
  <2>5. nextObj' \in Nat /\ nextObj <= nextObj'
    BY <2>1 DEF MemInv, GraphInv, TypeOK
  <2> QED
    BY <1>3, <2>1, <2>3, <2>4, <2>5, OriginGrows
<1>9. ASSUME NEW p \in heldPtrs, NEW v \in heldInts, StoreInt(p, v)
      PROVE  OriginInv' /\ ConstsGrow /\ OffsetsUnique'
  <2>1. CanAccess(p) /\ handles' = handles /\ consts' = consts /\ nextObj' = nextObj
    BY <1>9 DEF StoreInt, vcVars
  <2>2. OffsetsUnique' /\ DOMAIN objects' = DOMAIN objects
    BY <1>1, <1>9, UpdatePlainUnique DEF StoreInt
  <2> QED
    BY <1>4, <2>1, <2>2
<1>10. ASSUME NEW p \in heldPtrs, NEW v \in heldPtrs, StorePtr(p, v)
       PROVE  OriginInv' /\ ConstsGrow /\ OffsetsUnique'
  <2>1. CanAccess(p) /\ handles' = handles /\ consts' = consts /\ nextObj' = nextObj
    BY <1>10 DEF StorePtr, vcVars
  <2>2. OffsetsUnique' /\ DOMAIN objects' = DOMAIN objects
    <3>1. PICK object : UpdateObject(p, object) /\ UniqueOffsets(object.pt)
      BY <1>10, StorePtrWrites
    <3> QED
      BY <1>1, <2>1, <3>1, UpdateUnique
  <2> QED
    BY <1>4, <2>1, <2>2
<1>11. ASSUME NEW p \in heldPtrs,
              \/ \E off : Gep(p, off)
              \/ GepUnknown(p) \/ BitCast(p) \/ Memclear(p)
       PROVE  OriginInv' /\ ConstsGrow /\ OffsetsUnique'
  <2>1. \E off : \E next \in Nat :
           nextVal <= next /\ CreateDerivedPointer(p, off, consts, next)
    <3>1. nextVal \in Nat /\ nextVal + 1 \in Nat /\ nextVal <= nextVal /\ nextVal <= nextVal + 1
      BY <1>1
    <3> QED
      BY <1>11, <3>1 DEF Gep, GepUnknown, BitCast, Memclear
  <2>2. nextObj' = nextObj
    BY <1>11 DEF Gep, GepUnknown, BitCast, Memclear
  <2>3. OffsetsUnique' /\ DOMAIN objects' = DOMAIN objects
    BY <1>1, <1>2, <1>11, UpdatePlainUnique DEF Gep, GepUnknown, BitCast, Memclear
  <2> QED
    BY <1>1, <2>1, <2>2, <2>3, OriginDerive
<1>12. ASSUME NEW p \in heldPtrs, FreeObject(p)
       PROVE  OriginInv' /\ ConstsGrow /\ OffsetsUnique'
  <2>1. consts' = consts
    BY <1>12 DEF FreeObject, vcVars
  <2> QED
    BY <1>3, <1>12, <2>1, OriginFree, UniqueFree
<1> QED
  BY <1>5, <1>6, <1>7, <1>8, <1>9, <1>10, <1>11, <1>12 DEF Next

LEMMA MemNext == MemInv /\ [HNext]_<<vars, origin>> => MemInv'
<1> SUFFICES ASSUME MemInv, [HNext]_<<vars, origin>> PROVE MemInv'
  OBVIOUS
<1>1. [Next]_vars
  BY DEF HNext, vars
<1>2. GraphInv' /\ StoredEdgesAgree'
  BY <1>1, NextInv, NextStoredAgree DEF MemInv
<1>3. CASE UNCHANGED <<vars, origin>>
  <2>1. /\ handles' = handles /\ objects' = objects /\ consts' = consts
        /\ nextObj' = nextObj /\ origin' = origin
    BY <1>3 DEF vars, graphVars, vcVars
  <2>2. ConstInv' /\ OffsetsUnique' /\ OriginInv'
    BY <2>1 DEF MemInv, ConstInv, OffsetsUnique, OriginInv, Known, Place, ObjectIds, IsConstant
  <2> QED
    BY <1>2, <2>2 DEF MemInv
<1>4. CASE HNext
  <2>1. OriginInv' /\ ConstsGrow /\ OffsetsUnique'
    BY <1>4, PlacesInv DEF HNext, OriginStep
  <2>2. ConstInv'
    BY <2>1, ConstInvKept, MaxConstAssumption DEF MemInv
  <2> QED
    BY <1>2, <2>1, <2>2 DEF MemInv
<1> QED
  BY <1>3, <1>4

-----------------------------------------------------------------------------
(* The refinement mapping.                                                 *)

\* A lookup gives the place that the value denotes.
LEMMA DenotesIs ==
    ASSUME MemInv, NEW p \in Issued
    PROVE  Memory!Denotes(p) = [obj |-> Target(p), off |-> OffsetIn(consts, Offset(p))]
<1>1. /\ DOMAIN AbsTarget = Known
      /\ \A v \in Known : AbsTarget[v] =
            [obj |-> origin[v].obj, off |-> OffsetIn(consts, origin[v].off)]
  BY DEF AbsTarget, MemInv, OriginInv
<1>2. CASE p \in Known
  <2>1. /\ Target(p) = Place(p).obj /\ Offset(p) = Place(p).off
        /\ origin[p].off = Place(p).off /\ origin[p].obj \in ObjectIds
        /\ Place(p).obj = IF origin[p].obj \in DOMAIN objects
                          THEN origin[p].obj ELSE FreedObj
    BY <1>2, PlaceType DEF MemInv, OriginInv
  <2>2. origin[p].obj \in Dead <=> origin[p].obj \notin DOMAIN objects
    <3>1. /\ SpecialObjs \subseteq DOMAIN objects
          /\ (1 .. nextObj - 1) \cap SpecialObjs = {}
      BY DEF MemInv, GraphInv, TypeOK, SpecialObjs, NullObj, UnknownObj, FreedObj
    <3> QED
      BY <2>1, <3>1 DEF Dead, Live, ObjectIds
  <2>3. Memory!Denotes(p) = IF origin[p].obj \in Dead
                            THEN [AbsTarget[p] EXCEPT !.obj = FreedObj] ELSE AbsTarget[p]
    BY <1>1, <1>2 DEF Memory!Denotes, Memory!Freed, FreedObj
  <2> QED
    BY <1>1, <1>2, <2>1, <2>2, <2>3
<1>3. CASE p \notin Known
  <2>1. Target(p) = UnknownObj /\ Offset(p) = Zero
    BY <1>3, KnownHas DEF Target, Offset, FindPtEdge, UnknownPtEdge, PtEdge
  <2>2. OffsetIn(consts, Zero) = <<"int", 0>>
    BY MaxConstAssumption DEF MemInv, ConstInv, OffsetIn, Zero
  <2>3. Memory!Denotes(p) = [obj |-> UnknownObj, off |-> <<"int", 0>>]
    BY <1>1, <1>3 DEF Memory!Denotes, Memory!UnknownPlace, Memory!Unknown, Memory!Start, UnknownObj
  <2> QED
    BY <2>1, <2>2, <2>3
<1> QED
  BY <1>2, <1>3

LEMMA ValidIs ==
    ASSUME MemInv, NEW p \in Issued
    PROVE  /\ Memory!Valid(p) <=> CanAccess(p)
           /\ Target(p) \in Live <=> CanAccess(p)
<1>1. Target(p) \in DOMAIN objects
  BY FindPtEdgeType DEF MemInv, Target
<1>2. Memory!Denotes(p).obj = Target(p)
  BY DenotesIs
<1> QED
  BY <1>1, <1>2 DEF Memory!Valid, Live, CanAccess

\* Values that were not given out are new to the memory.
LEMMA FreshIs ==
    ASSUME MemInv, NEW v \in Nat, nextVal <= v
    PROVE  Memory!Fresh(v)
<1>1. v \notin Issued
  BY DEF Issued, MemInv, GraphInv, TypeOK
<1>2. DOMAIN AbsTarget = Known /\ \A x \in Known : x \in Issued
  BY PlaceType DEF AbsTarget, MemInv, OriginInv
<1>3. /\ heldPtrs \subseteq Issued /\ heldInts \subseteq Issued
      /\ 0 .. 2 * MaxConst - 1 \subseteq Issued
  BY DEF MemInv, GraphInv, TypeOK, ConstInv
<1> QED
  BY <1>1, <1>2, <1>3 DEF Memory!Fresh

\* Steps that make no pointer known leave the targets.
LEMMA TargetsKept ==
    ASSUME MemInv, OriginStep, ConstsGrow, Known' = Known
    PROVE  AbsTarget' = AbsTarget
<1>1. DOMAIN origin = Known /\ IsMap(origin)
  BY DEF MemInv, OriginInv
<1>2. origin' = origin
  BY <1>1 DEF OriginStep, IsMap
<1>3. \A v \in DOMAIN origin : OffsetIn(consts', origin[v].off) = OffsetIn(consts, origin[v].off)
  <2>1. \A v \in Known : origin[v].off \in Issued
    BY PlaceType DEF MemInv, OriginInv
  <2> QED
    BY <1>1, <2>1, OffsetsKept
<1> QED
  BY <1>2, <1>3 DEF AbsTarget

\* What memory holds is seen at the same offsets under more constants.
LEMMA CellsKept ==
    ASSUME MemInv, ConstsGrow, NEW o \in DOMAIN objects
    PROVE  /\ Cells(consts', objects[o].pt) = Cells(consts, objects[o].pt)
           /\ Cells(consts', objects[o].hv) = Cells(consts, objects[o].hv)
<1>1. /\ objects[o].pt \in Seq(PtEdges(Issued \cup {Hidden})) /\ objects[o].hv \in Seq(HvEdges)
      /\ Injective(consts) /\ Injective(consts')
  BY DEF MemInv, GraphInv, TypeOK, Regions, ConstInv, ConstsGrow
<1>2. /\ \A i \in DOMAIN objects[o].pt : objects[o].pt[i] \in PtEdges(Issued \cup {Hidden})
      /\ \A i \in DOMAIN objects[o].hv : objects[o].hv[i] \in HvEdges
  BY <1>1
<1>3. /\ \A i \in DOMAIN objects[o].pt : objects[o].pt[i].off \in Issued \cup {Hidden}
      /\ \A i \in DOMAIN objects[o].hv : objects[o].hv[i].off \in Issued
  BY <1>2 DEF PtEdges, HvEdges
<1> QED
  BY <1>1, <1>3, OffsetsKept, CellsGrow

LEMMA SameMemory ==
    ASSUME MemInv, ConstsGrow, objects' = objects, nextObj' = nextObj
    PROVE  /\ Live' = Live /\ Dead' = Dead /\ HeapLive' = HeapLive
           /\ PtrCells' = PtrCells /\ IntCells' = IntCells
<1>1. Live' = Live
  BY DEF Live
<1>2. Dead' = Dead /\ HeapLive' = HeapLive
  BY <1>1 DEF Dead, HeapLive
<1>3. \A o \in Live : /\ Cells(consts', objects[o].pt) = Cells(consts, objects[o].pt)
                      /\ Cells(consts', objects[o].hv) = Cells(consts, objects[o].hv)
  BY CellsKept DEF Live
<1> QED
  BY <1>1, <1>2, <1>3 DEF PtrCells, IntCells

\* A write to one object.
LEMMA WriteMemory ==
    ASSUME MemInv, ConstsGrow, NEW p \in Issued, CanAccess(p),
           NEW object, UpdateObject(p, object), object.space = Object(p).space,
           nextObj' = nextObj
    PROVE  /\ Live' = Live /\ Dead' = Dead /\ HeapLive' = HeapLive
           /\ Cells(consts', object.pt) = Cells(consts, Object(p).pt) => PtrCells' = PtrCells
           /\ Cells(consts', object.hv) = Cells(consts, Object(p).hv) => IntCells' = IntCells
           /\ PtrCells' = [PtrCells EXCEPT ![Target(p)] = Cells(consts', object.pt)]
           /\ IntCells' = [IntCells EXCEPT ![Target(p)] = Cells(consts', object.hv)]
<1> DEFINE o == Target(p)
<1>1. /\ objects' = [objects EXCEPT ![o] = object] /\ o \in DOMAIN objects
      /\ o \in Live
  BY AccessType, ValidIs DEF UpdateObject, MemInv
<1>2. /\ DOMAIN objects' = DOMAIN objects
      /\ \A x \in DOMAIN objects : objects'[x] = IF x = o THEN object ELSE objects[x]
  BY <1>1
<1>3. Live' = Live
  BY <1>2 DEF Live
<1>4. object.space = objects[o].space
  BY DEF Object
<1> HIDE DEF o
<1>5. Dead' = Dead /\ HeapLive' = HeapLive
  BY <1>2, <1>3, <1>4 DEF Dead, HeapLive, Live
<1>6. \A x \in Live : /\ Cells(consts', objects[x].pt) = Cells(consts, objects[x].pt)
                      /\ Cells(consts', objects[x].hv) = Cells(consts, objects[x].hv)
  BY CellsKept DEF Live
<1>7. /\ PtrCells' = [x \in Live |-> Cells(consts', objects'[x].pt)]
      /\ IntCells' = [x \in Live |-> Cells(consts', objects'[x].hv)]
  BY <1>3 DEF PtrCells, IntCells
<1>8. \A x \in Live : x \in DOMAIN objects
  BY DEF Live
<1>9. /\ PtrCells' = [PtrCells EXCEPT ![o] = Cells(consts', object.pt)]
      /\ IntCells' = [IntCells EXCEPT ![o] = Cells(consts', object.hv)]
  BY <1>1, <1>2, <1>6, <1>7, <1>8 DEF PtrCells, IntCells
<1>10. /\ Cells(consts', object.pt) = Cells(consts, objects[o].pt) => PtrCells' = PtrCells
       /\ Cells(consts', object.hv) = Cells(consts, objects[o].hv) => IntCells' = IntCells
  BY <1>1, <1>2, <1>6, <1>7, <1>8 DEF PtrCells, IntCells
<1> QED
  BY <1>3, <1>5, <1>9, <1>10 DEF o, Object

-----------------------------------------------------------------------------
(* Every operation of the graph is an operation of the memory.             *)

\* The targets after a step: those known before, and the places of the
\* pointers that became known.
LEMMA TargetsGrow ==
    ASSUME MemInv, OriginStep, ConstsGrow, \A v \in Known : v \in Known'
    PROVE  /\ AbsTarget' = [v \in Known' |->
                 IF v \in Known THEN AbsTarget[v]
                 ELSE [obj |-> Place(v)'.obj, off |-> OffsetIn(consts', Place(v)'.off)]]
           /\ DOMAIN AbsTarget = Known
<1>1. DOMAIN origin = Known
  BY DEF MemInv, OriginInv
<1>2. /\ DOMAIN origin' = Known'
      /\ \A v \in Known' : origin'[v] = IF v \in Known THEN origin[v] ELSE Place(v)'
  BY <1>1 DEF OriginStep
<1>3. \A v \in Known : OffsetIn(consts', origin[v].off) = OffsetIn(consts, origin[v].off)
  <2>1. \A v \in Known : origin[v].off \in Issued
    BY PlaceType DEF MemInv, OriginInv
  <2> QED
    BY <2>1, OffsetsKept
<1>4. AbsTarget' = [v \in Known' |->
         [obj |-> origin'[v].obj, off |-> OffsetIn(consts', origin'[v].off)]]
  BY <1>2 DEF AbsTarget
<1>5. \A v \in Known : AbsTarget[v] =
         [obj |-> origin[v].obj, off |-> OffsetIn(consts, origin[v].off)]
  BY <1>1 DEF AbsTarget
<1>6. \A v \in Known' :
         [obj |-> origin'[v].obj, off |-> OffsetIn(consts', origin'[v].off)] =
            IF v \in Known THEN AbsTarget[v]
            ELSE [obj |-> Place(v)'.obj, off |-> OffsetIn(consts', Place(v)'.off)]
  BY <1>2, <1>3, <1>5
<1>7. DOMAIN AbsTarget = Known
  BY <1>1 DEF AbsTarget
<1> QED
  BY <1>4, <1>6, <1>7

LEMMA ZeroOffset == MemInv => OffsetIn(consts, Zero) = Memory!Start
BY MaxConstAssumption DEF MemInv, ConstInv, OffsetIn, Zero, Memory!Start

LEMMA AllocateStep ==
    ASSUME MemInv, OriginStep, NEW space, AllocateRegion(space)
    PROVE  Memory!Allocate
<1>1. /\ nextVal \in Nat /\ nextObj \in Nat \ {0} /\ consts' = consts
      /\ nextVal < MaxVal /\ nextObj <= MaxObj /\ MaxVal \in Nat /\ MaxObj \in Nat
      /\ nextObj' = nextObj + 1 /\ heldPtrs' = heldPtrs \cup {nextVal}
      /\ heldInts' = heldInts /\ status' = status
      /\ objects' = [o \in DOMAIN objects \cup {nextObj} |->
                        IF o = nextObj THEN NewObject(space) ELSE objects[o]]
      /\ DOMAIN objects \subseteq ObjectIds
  BY BoundsAssumption DEF MemInv, GraphInv, TypeOK, AllocateRegion
<1>2. /\ nextVal \in 0 .. MaxVal /\ nextObj \in 1 .. MaxObj /\ ConstsGrow
      /\ Memory!Fresh(nextVal)
  BY <1>1, SameConsts, FreshIs
<1>3. nextObj \notin DOMAIN objects /\ nextObj \notin SpecialObjs
  BY <1>1 DEF ObjectIds, SpecialObjs, NullObj, UnknownObj, FreedObj
<1>4. nextObj \notin Live \cup Dead
  BY <1>1, <1>3 DEF Live, Dead
<1>5. /\ Known' = Known \cup {nextVal} /\ nextVal \notin Known
      /\ \A v \in {nextVal} : Place(v)' = [obj |-> nextObj, off |-> Zero]
  BY OriginAllocate
<1>6. AbsTarget' = Memory!With(AbsTarget, nextVal, [obj |-> nextObj, off |-> Memory!Start])
  <2> DEFINE new == [obj |-> nextObj, off |-> Memory!Start]
  <2>1. /\ AbsTarget' = [v \in Known' |->
              IF v \in Known THEN AbsTarget[v]
              ELSE [obj |-> Place(v)'.obj, off |-> OffsetIn(consts', Place(v)'.off)]]
        /\ DOMAIN AbsTarget = Known
    BY <1>2, <1>5, TargetsGrow
  <2>2. \A v \in {nextVal} :
           [obj |-> Place(v)'.obj, off |-> OffsetIn(consts', Place(v)'.off)] = new
    BY <1>1, <1>5, ZeroOffset
  <2>3. Memory!With(AbsTarget, nextVal, new) =
           [v \in Known \cup {nextVal} |-> IF v = nextVal THEN new ELSE AbsTarget[v]]
    BY <2>1 DEF Memory!With
  <2> HIDE DEF new
  <2>4. \A v \in Known' :
           (IF v = nextVal THEN new ELSE AbsTarget[v]) =
           (IF v \in Known THEN AbsTarget[v]
            ELSE [obj |-> Place(v)'.obj, off |-> OffsetIn(consts', Place(v)'.off)])
    BY <1>5, <2>2
  <2>5. AbsTarget' = Memory!With(AbsTarget, nextVal, new)
    BY <1>5, <2>1, <2>3, <2>4
  <2> QED
    BY <2>5 DEF new
<1>7. Live' = Live \cup {nextObj}
  BY <1>1, <1>3 DEF Live
<1>8. Dead' = Dead
  BY <1>1, <1>4, <1>7 DEF Dead
<1>9. HeapLive' \in {HeapLive, HeapLive \cup {nextObj}}
  <2>1. \A o \in Live : o \in DOMAIN objects /\ o # nextObj
    BY <1>3 DEF Live
  <2>2. \A o \in Live : objects'[o].space = objects[o].space
    BY <1>1, <2>1
  <2> QED
    BY <1>7, <2>2 DEF HeapLive
<1>10. /\ PtrCells' = Memory!With(PtrCells, nextObj, <<>>)
       /\ IntCells' = Memory!With(IntCells, nextObj, <<>>)
  <2>1. \A o \in Live : o \in DOMAIN objects /\ o # nextObj
    BY <1>3 DEF Live
  <2>2. \A o \in Live : objects'[o] = objects[o]
    BY <1>1, <2>1
  <2>3. objects'[nextObj].pt = <<>> /\ objects'[nextObj].hv = <<>>
    BY <1>1 DEF NewObject
  <2>4. /\ PtrCells' = [o \in Live \cup {nextObj} |-> Cells(consts, objects'[o].pt)]
        /\ IntCells' = [o \in Live \cup {nextObj} |-> Cells(consts, objects'[o].hv)]
    BY <1>1, <1>7 DEF PtrCells, IntCells
  <2>5. /\ Memory!With(PtrCells, nextObj, <<>>) = [o \in Live \cup {nextObj} |->
              IF o = nextObj THEN <<>> ELSE Cells(consts, objects[o].pt)]
        /\ Memory!With(IntCells, nextObj, <<>>) = [o \in Live \cup {nextObj} |->
              IF o = nextObj THEN <<>> ELSE Cells(consts, objects[o].hv)]
    BY DEF Memory!With, PtrCells, IntCells
  <2> QED
    BY <2>2, <2>3, <2>4, <2>5, CellsEmpty
<1> QED
  BY <1>1, <1>2, <1>4, <1>6, <1>7, <1>8, <1>9, <1>10 DEF Memory!Allocate

\* No number points into an object.
LEMMA AccessNotConstant ==
    ASSUME MemInv, NEW p \in Issued, CanAccess(p)
    PROVE  ~IsConstant(p)
<1>1. CASE p \in Known
  <2>1. /\ Target(p) = Place(p).obj
        /\ Place(p).obj = IF origin[p].obj \in DOMAIN objects
                          THEN origin[p].obj ELSE FreedObj
        /\ origin[p].obj \notin SpecialObjs => ~IsConstant(p)
    BY <1>1, PlaceType DEF MemInv, OriginInv
  <2> QED
    BY <2>1 DEF CanAccess, SpecialObjs
<1>2. CASE p \notin Known
  <2>1. Target(p) = UnknownObj
    BY <1>2, KnownHas DEF Target, FindPtEdge, UnknownPtEdge, PtEdge
  <2> QED
    BY <2>1 DEF CanAccess, SpecialObjs
<1> QED
  BY <1>1, <1>2

\* A new unknown offset is one no pointer has.
LEMMA UnusedIs ==
    ASSUME MemInv, NEW v \in 0 .. MaxVal, nextVal <= v
    PROVE  <<"sym", v>> \in Memory!UnusedOffsets
<1>1. /\ DOMAIN AbsTarget = Known
      /\ \A x \in Known : AbsTarget[x].off = OffsetIn(consts, origin[x].off)
  BY DEF AbsTarget, MemInv, OriginInv
<1>2. \A x \in Known : origin[x].off \in Issued
  BY PlaceType DEF MemInv, OriginInv
<1>3. nextVal \in Nat /\ MaxVal \in Nat
  BY BoundsAssumption DEF MemInv, GraphInv, TypeOK
<1>4. \A y \in Issued : y # v
  BY <1>3 DEF Issued
<1>5. ASSUME NEW x \in Known PROVE AbsTarget[x].off # <<"sym", v>>
  <2>1. \A m, n : <<"int", m>> # <<"sym", n>> /\ (<<"sym", m>> = <<"sym", n>> => m = n)
    OBVIOUS
  <2> QED
    BY <1>1, <1>2, <1>4, <2>1 DEF OffsetIn
<1> QED
  BY <1>1, <1>5 DEF Memory!UnusedOffsets

LEMMA DeriveStep ==
    ASSUME MemInv, OriginStep, NEW base \in Issued, NEW off,
           NEW next \in Nat, nextVal <= next,
           CreateDerivedPointer(base, off, consts, next)
    PROVE  LET o == DerivedOffset(base, off, consts, next).id
               d == DerivedValue(base, off, consts, next).id
           IN  /\ ConstsGrow /\ d \in 0 .. MaxVal
               /\ Memory!Derive(base, d, OffsetIn(consts', o))
               /\ off \in DOMAIN consts => OffsetIn(consts', o) \in
                     Memory!PlusConstant(Memory!Denotes(base).off, consts[off])
               /\ off \notin DOMAIN consts => OffsetIn(consts', o) \in Memory!UnusedOffsets
               /\ CanAccess(base) \/ off \notin DOMAIN consts => Memory!Fresh(d)
<1> DEFINE o == DerivedOffset(base, off, consts, next).id
           d == DerivedValue(base, off, consts, next).id
<1>1. /\ ConstsGrow
      /\ {Offset(base), off} \subseteq DOMAIN consts =>
            OffsetIn(consts', o) = <<"int", consts[Offset(base)] + consts[off]>>
      /\ ~({Offset(base), off} \subseteq DOMAIN consts) =>
            /\ next \in 0 .. MaxVal /\ OffsetIn(consts', o) = <<"sym", next>>
      /\ d \in 0 .. MaxVal
      /\ (~IsConstant(base) \/ ~({Offset(base), off} \subseteq DOMAIN consts)) => d >= next
  BY DerivedIds
<1>2. /\ Known' = Known \cup {base, d}
      /\ base \notin Known => Place(base)' = [obj |-> UnknownObj, off |-> Zero]
      /\ \A v \in {d} \ (Known \cup {base}) :
            Place(v)' = [obj |-> Target(base), off |-> o]
  BY DerivedPlaces
<1>3. nextVal \in Nat /\ MaxVal \in Nat /\ Zero \in Issued
  BY BoundsAssumption DEF MemInv, GraphInv, TypeOK
<1>4. Memory!Denotes(base) = [obj |-> Target(base), off |-> OffsetIn(consts, Offset(base))]
  BY DenotesIs
<1> HIDE DEF o, d
<1>5. Memory!Derive(base, d, OffsetIn(consts', o))
  <2> DEFINE place == [obj |-> Target(base), off |-> OffsetIn(consts', o)]
  <2>1. /\ AbsTarget' = [v \in Known' |->
              IF v \in Known THEN AbsTarget[v]
              ELSE [obj |-> Place(v)'.obj, off |-> OffsetIn(consts', Place(v)'.off)]]
        /\ DOMAIN AbsTarget = Known
    BY <1>1, <1>2, TargetsGrow
  <2>2. OffsetIn(consts', Zero) = Memory!Start
    BY <1>1, <1>3, OffsetsKept, ZeroOffset
  <2>3. ASSUME base \notin Known
        PROVE  [obj |-> Place(base)'.obj, off |-> OffsetIn(consts', Place(base)'.off)]
                  = Memory!UnknownPlace
    BY <1>2, <2>2, <2>3 DEF Memory!UnknownPlace, Memory!Unknown, UnknownObj
  <2>4. \A v \in {d} \ (Known \cup {base}) :
           [obj |-> Place(v)'.obj, off |-> OffsetIn(consts', Place(v)'.off)] = place
    BY <1>2
  <2>5. Memory!Derive(base, d, OffsetIn(consts', o)) <=>
           AbsTarget' = [v \in Known \cup {base, d} |->
                            IF v \in Known THEN AbsTarget[v]
                            ELSE IF v = base THEN Memory!UnknownPlace ELSE place]
    BY <1>4, <2>1 DEF Memory!Derive
  <2> HIDE DEF place
  <2>6. \A v \in Known' :
           (IF v \in Known THEN AbsTarget[v]
            ELSE [obj |-> Place(v)'.obj, off |-> OffsetIn(consts', Place(v)'.off)]) =
           (IF v \in Known THEN AbsTarget[v]
            ELSE IF v = base THEN Memory!UnknownPlace ELSE place)
    BY <1>2, <2>3, <2>4
  <2> QED
    BY <1>2, <2>1, <2>5, <2>6
<1>6. \A n : <<"int", n>>[1] = "int" /\ <<"int", n>>[2] = n /\ <<"sym", n>>[1] = "sym"
  OBVIOUS
<1>7. ~({Offset(base), off} \subseteq DOMAIN consts) => OffsetIn(consts', o) \in Memory!UnusedOffsets
  BY <1>1, <1>3, UnusedIs
<1>8. ASSUME off \in DOMAIN consts
      PROVE  OffsetIn(consts', o) \in
                Memory!PlusConstant(Memory!Denotes(base).off, consts[off])
  <2>1. CASE Offset(base) \in DOMAIN consts
    BY <1>1, <1>4, <1>6, <1>8, <2>1 DEF Memory!PlusConstant, Memory!Symbolic, OffsetIn
  <2>2. CASE Offset(base) \notin DOMAIN consts
    <3>1. Memory!Denotes(base).off = <<"sym", Offset(base)>>
      BY <1>4, <2>2 DEF OffsetIn
    <3>2. Memory!PlusConstant(Memory!Denotes(base).off, consts[off]) = Memory!UnusedOffsets
      BY <1>6, <3>1 DEF Memory!PlusConstant, Memory!Symbolic
    <3> QED
      BY <1>7, <2>2, <3>2
  <2> QED
    BY <2>1, <2>2
<1>9. CanAccess(base) \/ off \notin DOMAIN consts => Memory!Fresh(d)
  <2>1. CanAccess(base) \/ off \notin DOMAIN consts => d >= next
    BY <1>1, AccessNotConstant
  <2>2. d >= next => nextVal <= d /\ d \in Nat
    BY <1>1, <1>3
  <2> QED
    BY <2>1, <2>2, FreshIs
<1> QED
  BY <1>1, <1>5, <1>7, <1>8, <1>9 DEF o, d

\* A plain value written at offset x of the object that p denotes.
LEMMA WritePlainStep ==
    ASSUME MemInv, ConstsGrow, NEW p \in Issued, CanAccess(p), NEW x \in Nat, NEW v,
           UpdateObject(p, [Object(p) EXCEPT !.hv = CreateOrModify(@, HvEdge(x, v))]),
           nextObj' = nextObj
    PROVE  /\ Live' = Live /\ Dead' = Dead /\ HeapLive' = HeapLive /\ PtrCells' = PtrCells
           /\ IntCells' = [IntCells EXCEPT ![Memory!Denotes(p).obj] =
                              Memory!With(@, OffsetIn(consts', x), v)]
<1> DEFINE e  == HvEdge(x, v)
           hv == CreateOrModify(Object(p).hv, e)
           object == [Object(p) EXCEPT !.hv = hv]
           T  == HvEdges \cup {e}
<1>1. /\ Object(p) \in Regions /\ Target(p) \in DOMAIN objects /\ Target(p) \in Live
      /\ Memory!Denotes(p).obj = Target(p)
  BY AccessType, ValidIs, DenotesIs DEF MemInv
<1>2. object.hv = hv /\ object.pt = Object(p).pt /\ object.space = Object(p).space
  <2> HIDE DEF hv
  <2> QED
    BY <1>1 DEF Regions
<1>3. /\ Cells(consts', Object(p).pt) = Cells(consts, Object(p).pt)
      /\ Cells(consts', Object(p).hv) = Cells(consts, Object(p).hv)
  BY <1>1, CellsKept DEF Object
<1>4. e.off = x /\ e.value = v /\ x # Hidden
  BY DEF HvEdge, Hidden
<1> HIDE DEF e
<1>5. Object(p).hv \in Seq(T) /\ e \in T
  <2>1. Object(p).hv \in Seq(HvEdges) /\ HvEdges \subseteq T
    BY <1>1 DEF Regions
  <2> QED
    BY <2>1, SeqMonotonic
<1> HIDE DEF T
<1>6. Cells(consts', hv) = Memory!With(Cells(consts', Object(p).hv), OffsetIn(consts', e.off), e.value)
  BY <1>4, <1>5, CellsWrite DEF ConstsGrow
<1>7. UpdateObject(p, object)
  BY DEF e
<1> HIDE DEF hv, object
<1>8. /\ Live' = Live /\ Dead' = Dead /\ HeapLive' = HeapLive
      /\ PtrCells' = PtrCells
      /\ IntCells' = [IntCells EXCEPT ![Target(p)] = Cells(consts', object.hv)]
  BY <1>2, <1>3, <1>7, WriteMemory
<1>9. IntCells[Target(p)] = Cells(consts, Object(p).hv)
  BY <1>1 DEF IntCells, Object
<1>10. Cells(consts', object.hv) = Memory!With(IntCells[Target(p)], OffsetIn(consts', x), v)
  BY <1>2, <1>3, <1>4, <1>6, <1>9
<1> QED
  BY <1>1, <1>8, <1>10

\* At the place of p itself.
LEMMA WriteStep ==
    ASSUME MemInv, ConstsGrow, NEW p \in Issued, CanAccess(p), NEW v,
           UpdateObject(p, [Object(p) EXCEPT !.hv = CreateOrModify(@, HvEdge(Offset(p), v))]),
           nextObj' = nextObj
    PROVE  /\ Live' = Live /\ Dead' = Dead /\ HeapLive' = HeapLive /\ PtrCells' = PtrCells
           /\ IntCells' = Memory!Write(IntCells, p, v)
<1>1. Offset(p) \in Issued /\ Offset(p) \in Nat
  BY AccessType DEF MemInv, Issued
<1>2. OffsetIn(consts', Offset(p)) = Memory!Denotes(p).off
  BY <1>1, OffsetsKept, DenotesIs
<1> QED
  BY <1>1, <1>2, WritePlainStep DEF Memory!Write

LEMMA GepStep ==
    ASSUME MemInv, OriginStep, NEW p \in heldPtrs, NEW off \in DOMAIN consts, Gep(p, off)
    PROVE  Memory!Gep(p, consts[off])
<1> DEFINE o == DerivedOffset(p, off, consts, nextVal).id
           d == DerivedValue(p, off, consts, nextVal).id
<1>1. /\ p \in Issued /\ nextVal \in Nat /\ nextVal <= nextVal
      /\ CreateDerivedPointer(p, off, consts, nextVal)
      /\ heldPtrs' = heldPtrs \cup {d} /\ heldInts' = heldInts
      /\ objects' = objects /\ nextObj' = nextObj /\ status' = status
  BY DEF Gep, LearnPtr, MemInv, GraphInv, TypeOK
<1>2. /\ ConstsGrow /\ d \in 0 .. MaxVal /\ Memory!Derive(p, d, OffsetIn(consts', o))
      /\ OffsetIn(consts', o) \in Memory!PlusConstant(Memory!Denotes(p).off, consts[off])
      /\ CanAccess(p) => Memory!Fresh(d)
  BY <1>1, DeriveStep
<1>3. UNCHANGED Memory!memory
  BY <1>1, <1>2, SameMemory DEF Memory!memory
<1> HIDE DEF o, d
<1> QED
  BY <1>1, <1>2, <1>3, ValidIs DEF Memory!Gep

LEMMA GepUnknownStep ==
    ASSUME MemInv, OriginStep, NEW p \in heldPtrs, GepUnknown(p)
    PROVE  Memory!GepUnknown(p)
<1> DEFINE o == DerivedOffset(p, nextVal, consts, nextVal + 1).id
           d == DerivedValue(p, nextVal, consts, nextVal + 1).id
<1>1. /\ p \in Issued /\ nextVal + 1 \in Nat /\ nextVal <= nextVal + 1
      /\ CreateDerivedPointer(p, nextVal, consts, nextVal + 1)
      /\ heldPtrs' = heldPtrs \cup {d} /\ heldInts' = heldInts
      /\ objects' = objects /\ nextObj' = nextObj /\ status' = status
      /\ nextVal \notin DOMAIN consts
  BY DEF GepUnknown, LearnPtr, MemInv, GraphInv, TypeOK, Issued
<1>2. /\ ConstsGrow /\ d \in 0 .. MaxVal /\ Memory!Derive(p, d, OffsetIn(consts', o))
      /\ OffsetIn(consts', o) \in Memory!UnusedOffsets
      /\ Memory!Fresh(d)
  BY <1>1, DeriveStep
<1>3. UNCHANGED Memory!memory
  BY <1>1, <1>2, SameMemory DEF Memory!memory
<1> HIDE DEF o, d
<1> QED
  BY <1>1, <1>2, <1>3 DEF Memory!GepUnknown

LEMMA BitCastStep ==
    ASSUME MemInv, OriginStep, NEW p \in heldPtrs, BitCast(p)
    PROVE  Memory!BitCast(p)
<1> DEFINE o == DerivedOffset(p, Zero, consts, nextVal).id
           d == DerivedValue(p, Zero, consts, nextVal).id
<1>1. /\ p \in Issued /\ nextVal \in Nat /\ nextVal <= nextVal
      /\ CreateDerivedPointer(p, Zero, consts, nextVal)
      /\ heldPtrs' = heldPtrs /\ heldInts' = heldInts
      /\ objects' = objects /\ nextObj' = nextObj /\ status' = status
      /\ Zero \in DOMAIN consts /\ consts[Zero] = 0
  BY DEF BitCast, MemInv, GraphInv, TypeOK, ConstInv
<1>2. /\ ConstsGrow /\ d \in 0 .. MaxVal /\ Memory!Derive(p, d, OffsetIn(consts', o))
      /\ OffsetIn(consts', o) \in Memory!PlusConstant(Memory!Denotes(p).off, 0)
  BY <1>1, DeriveStep
<1>3. UNCHANGED Memory!memory
  BY <1>1, <1>2, SameMemory DEF Memory!memory
<1> HIDE DEF o, d
<1> QED
  BY <1>1, <1>2, <1>3 DEF Memory!BitCast

LEMMA MemclearStep ==
    ASSUME MemInv, OriginStep, NEW p \in heldPtrs, Memclear(p)
    PROVE  Memory!Memclear(p, Memory!Null)
<1> DEFINE o == DerivedOffset(p, Zero, consts, nextVal).id
           d == DerivedValue(p, Zero, consts, nextVal).id
<1>1. /\ p \in Issued /\ nextVal \in Nat /\ nextVal <= nextVal /\ CanAccess(p)
      /\ CreateDerivedPointer(p, Zero, consts, nextVal)
      /\ UpdateObject(p, [Object(p) EXCEPT !.hv = CreateOrModify(@, HvEdge(o, Zero))])
      /\ heldPtrs' = heldPtrs /\ heldInts' = heldInts
      /\ nextObj' = nextObj /\ status' = status
      /\ Zero \in DOMAIN consts /\ consts[Zero] = 0
  BY DEF Memclear, MemInv, GraphInv, TypeOK, ConstInv
<1>2. /\ ConstsGrow /\ d \in 0 .. MaxVal /\ Memory!Derive(p, d, OffsetIn(consts', o))
      /\ OffsetIn(consts', o) \in Memory!PlusConstant(Memory!Denotes(p).off, 0)
      /\ Memory!Fresh(d)
  BY <1>1, DeriveStep
<1>3. o \in Issued' /\ nextVal' \in Nat
  BY <1>1, CreateDerivedType DEF MemInv
<1>4. o \in Nat
  BY <1>3 DEF Issued
<1> HIDE DEF o, d
<1>5. /\ Live' = Live /\ Dead' = Dead /\ HeapLive' = HeapLive /\ PtrCells' = PtrCells
      /\ IntCells' = [IntCells EXCEPT ![Memory!Denotes(p).obj] =
                         Memory!With(@, OffsetIn(consts', o), Zero)]
  BY <1>1, <1>2, <1>4, WritePlainStep
<1>6. Zero = Memory!Null
  BY DEF Zero, Memory!Null
<1>7. Memory!Valid(p)
  BY <1>1, ValidIs
<1> QED
  BY <1>1, <1>2, <1>5, <1>6, <1>7 DEF Memory!Memclear

\* The cells at the place of p are what a read of p finds.
LEMMA ReadCells ==
    ASSUME MemInv, NEW p \in Issued, CanAccess(p)
    PROVE  LET m   == Memory!Denotes(p)
               hv  == Object(p).hv
               pt  == Object(p).pt
               off == Offset(p)
           IN  /\ m.off \in DOMAIN IntCells[m.obj] <=> HasOffset(hv, off)
               /\ HasOffset(hv, off) => IntCells[m.obj][m.off] = FindByOffset(hv, off).value
               /\ m.off \in DOMAIN PtrCells[m.obj] <=> HasOffset(pt, off)
               /\ HasOffset(pt, off) => PtrCells[m.obj][m.off] = FindByOffset(pt, off).value
<1>1. /\ Target(p) \in Live /\ Offset(p) \in Issued /\ Injective(consts)
      /\ Memory!Denotes(p) = [obj |-> Target(p), off |-> OffsetIn(consts, Offset(p))]
  BY AccessType, ValidIs, DenotesIs DEF MemInv, ConstInv
<1>2. Offset(p) # Hidden
  BY <1>1 DEF Issued, Hidden
<1>3. /\ IntCells[Target(p)] = Cells(consts, Object(p).hv)
      /\ PtrCells[Target(p)] = Cells(consts, Object(p).pt)
  BY <1>1 DEF IntCells, PtrCells, Object
<1> QED
  BY <1>1, <1>2, <1>3, CellsHold

\* A read that finds no plain value makes one.
LEMMA FreshReadStep ==
    ASSUME MemInv, consts' = consts, NEW p \in Issued, CanAccess(p),
           ~HasOffset(Object(p).hv, Offset(p)), nextVal < MaxVal,
           UpdateObject(p, [Object(p) EXCEPT !.hv = Append(@, HvEdge(Offset(p), nextVal))]),
           nextObj' = nextObj
    PROVE  /\ Live' = Live /\ Dead' = Dead /\ HeapLive' = HeapLive /\ PtrCells' = PtrCells
           /\ IntCells' = Memory!Write(IntCells, p, nextVal)
           /\ Memory!Fresh(nextVal) /\ nextVal \in 0 .. MaxVal
<1>1. nextVal \in Nat /\ MaxVal \in Nat
  BY BoundsAssumption DEF MemInv, GraphInv, TypeOK
<1> DEFINE e == HvEdge(Offset(p), nextVal)
<1>2. e.off = Offset(p)
  BY DEF HvEdge
<1>3. Append(Object(p).hv, e) = CreateOrModify(Object(p).hv, e)
  BY <1>2 DEF CreateOrModify
<1>4. UpdateObject(p, [Object(p) EXCEPT !.hv = CreateOrModify(@, HvEdge(Offset(p), nextVal))])
  BY <1>3
<1> HIDE DEF e
<1> QED
  BY <1>1, <1>4, SameConsts, WriteStep, FreshIs

LEMMA LoadIntStep ==
    ASSUME MemInv, OriginStep, NEW p \in heldPtrs, LoadInt(p)
    PROVE  Memory!LoadInt(p)
<1>1. /\ p \in Issued /\ CanAccess(p) /\ ReadPlain(p, LearnInt)
      /\ handles' = handles /\ consts' = consts /\ nextObj' = nextObj /\ status' = status
  BY DEF LoadInt, MemInv, GraphInv, TypeOK
<1>2. AbsTarget' = AbsTarget /\ ConstsGrow
  <2>1. Known' = Known
    BY <1>1 DEF Known
  <2> QED
    BY <1>1, <2>1, SameConsts, TargetsKept
<1>3. /\ Memory!Valid(p)
      /\ Memory!Denotes(p).off \in DOMAIN IntCells[Memory!Denotes(p).obj] <=>
            HasOffset(Object(p).hv, Offset(p))
      /\ HasOffset(Object(p).hv, Offset(p)) =>
            IntCells[Memory!Denotes(p).obj][Memory!Denotes(p).off] =
               FindByOffset(Object(p).hv, Offset(p)).value
  BY <1>1, ValidIs, ReadCells
<1>4. CASE HasOffset(Object(p).hv, Offset(p))
  <2>1. /\ heldInts' = heldInts \cup {FindByOffset(Object(p).hv, Offset(p)).value}
        /\ heldPtrs' = heldPtrs /\ objects' = objects
    BY <1>1, <1>4 DEF ReadPlain, LearnInt
  <2>2. /\ Live' = Live /\ Dead' = Dead /\ HeapLive' = HeapLive
        /\ PtrCells' = PtrCells /\ IntCells' = IntCells
    BY <1>1, <1>2, <2>1, SameMemory
  <2> QED
    BY <1>1, <1>2, <1>3, <1>4, <2>1, <2>2 DEF Memory!LoadInt
<1>5. CASE ~HasOffset(Object(p).hv, Offset(p))
  <2>1. /\ heldInts' = heldInts \cup {nextVal} /\ heldPtrs' = heldPtrs /\ nextVal < MaxVal
        /\ UpdateObject(p, [Object(p) EXCEPT !.hv = Append(@, HvEdge(Offset(p), nextVal))])
    BY <1>1, <1>5 DEF ReadPlain, LearnInt
  <2>2. /\ Live' = Live /\ Dead' = Dead /\ HeapLive' = HeapLive /\ PtrCells' = PtrCells
        /\ IntCells' = Memory!Write(IntCells, p, nextVal)
        /\ Memory!Fresh(nextVal) /\ nextVal \in 0 .. MaxVal
    BY <1>1, <1>5, <2>1, FreshReadStep
  <2> QED
    BY <1>1, <1>2, <1>3, <1>5, <2>1, <2>2 DEF Memory!LoadInt
<1> QED
  BY <1>4, <1>5

LEMMA LoadPtrStep ==
    ASSUME MemInv, OriginStep, NEW p \in heldPtrs, LoadPtr(p)
    PROVE  Memory!LoadPtr(p)
<1>1. /\ p \in Issued /\ CanAccess(p)
      /\ consts' = consts /\ nextObj' = nextObj /\ status' = status
  BY DEF LoadPtr, MemInv, GraphInv, TypeOK
<1>2. AbsTarget' = AbsTarget /\ ConstsGrow
  BY <1>1, KnownAfterLoad, SameConsts, TargetsKept
<1>3. /\ Memory!Valid(p)
      /\ Memory!Denotes(p).off \in DOMAIN IntCells[Memory!Denotes(p).obj] <=>
            HasOffset(Object(p).hv, Offset(p))
      /\ HasOffset(Object(p).hv, Offset(p)) =>
            IntCells[Memory!Denotes(p).obj][Memory!Denotes(p).off] =
               FindByOffset(Object(p).hv, Offset(p)).value
      /\ Memory!Denotes(p).off \in DOMAIN PtrCells[Memory!Denotes(p).obj] <=>
            HasOffset(Object(p).pt, Offset(p))
      /\ HasOffset(Object(p).pt, Offset(p)) =>
            PtrCells[Memory!Denotes(p).obj][Memory!Denotes(p).off] =
               FindByOffset(Object(p).pt, Offset(p)).value
  BY <1>1, ValidIs, ReadCells
<1>4. CASE HasOffset(Object(p).pt, Offset(p))
  <2>1. /\ heldPtrs' = heldPtrs \cup {FindByOffset(Object(p).pt, Offset(p)).value}
        /\ heldInts' = heldInts /\ objects' = objects
    BY <1>4 DEF LoadPtr, LearnPtr
  <2>2. /\ Live' = Live /\ Dead' = Dead /\ HeapLive' = HeapLive
        /\ PtrCells' = PtrCells /\ IntCells' = IntCells
    BY <1>1, <1>2, <2>1, SameMemory
  <2> QED
    BY <1>1, <1>2, <1>3, <1>4, <2>1, <2>2 DEF Memory!LoadPtr
<1>5. CASE ~HasOffset(Object(p).pt, Offset(p)) /\ HasOffset(Object(p).hv, Offset(p))
  <2>1. /\ heldPtrs' = heldPtrs \cup {FindByOffset(Object(p).hv, Offset(p)).value}
        /\ heldInts' = heldInts /\ objects' = objects
    BY <1>5 DEF LoadPtr, ReadPlain, LearnPtr
  <2>2. /\ Live' = Live /\ Dead' = Dead /\ HeapLive' = HeapLive
        /\ PtrCells' = PtrCells /\ IntCells' = IntCells
    BY <1>1, <1>2, <2>1, SameMemory
  <2> QED
    BY <1>1, <1>2, <1>3, <1>5, <2>1, <2>2 DEF Memory!LoadPtr
<1>6. CASE ~HasOffset(Object(p).pt, Offset(p)) /\ ~HasOffset(Object(p).hv, Offset(p))
  <2>1. /\ heldPtrs' = heldPtrs \cup {nextVal} /\ heldInts' = heldInts /\ nextVal < MaxVal
        /\ UpdateObject(p, [Object(p) EXCEPT !.hv = Append(@, HvEdge(Offset(p), nextVal))])
    BY <1>6 DEF LoadPtr, ReadPlain, LearnPtr
  <2>2. /\ Live' = Live /\ Dead' = Dead /\ HeapLive' = HeapLive /\ PtrCells' = PtrCells
        /\ IntCells' = Memory!Write(IntCells, p, nextVal)
        /\ Memory!Fresh(nextVal) /\ nextVal \in 0 .. MaxVal
    BY <1>1, <1>6, <2>1, FreshReadStep
  <2> QED
    BY <1>1, <1>2, <1>3, <1>6, <2>1, <2>2 DEF Memory!LoadPtr
<1> QED
  BY <1>4, <1>5, <1>6

LEMMA StoreIntStep ==
    ASSUME MemInv, OriginStep, NEW p \in heldPtrs, NEW v \in heldInts, StoreInt(p, v)
    PROVE  Memory!StoreInt(p, v)
<1>1. /\ p \in Issued /\ CanAccess(p) /\ handles' = handles /\ consts' = consts
      /\ nextObj' = nextObj /\ status' = status /\ heldPtrs' = heldPtrs /\ heldInts' = heldInts
      /\ UpdateObject(p, [Object(p) EXCEPT !.hv = CreateOrModify(@, HvEdge(Offset(p), v))])
  BY DEF StoreInt, vcVars, MemInv, GraphInv, TypeOK
<1>2. AbsTarget' = AbsTarget /\ ConstsGrow
  <2>1. Known' = Known
    BY <1>1 DEF Known
  <2> QED
    BY <1>1, <2>1, SameConsts, TargetsKept
<1>3. /\ Live' = Live /\ Dead' = Dead /\ HeapLive' = HeapLive /\ PtrCells' = PtrCells
      /\ IntCells' = Memory!Write(IntCells, p, v)
  BY <1>1, <1>2, WriteStep
<1> QED
  BY <1>1, <1>2, <1>3, ValidIs DEF Memory!StoreInt

LEMMA StorePtrStep ==
    ASSUME MemInv, OriginStep, NEW p \in heldPtrs, NEW v \in heldPtrs, StorePtr(p, v)
    PROVE  Memory!StorePtr(p, v)
<1>1. /\ p \in Issued /\ CanAccess(p) /\ handles' = handles /\ consts' = consts
      /\ nextObj' = nextObj /\ status' = status /\ heldPtrs' = heldPtrs /\ heldInts' = heldInts
  BY DEF StorePtr, vcVars, MemInv, GraphInv, TypeOK
<1>2. /\ AbsTarget' = AbsTarget /\ ConstsGrow /\ DOMAIN AbsTarget = Known
  <2>1. Known' = Known
    BY <1>1 DEF Known
  <2> QED
    BY <1>1, <2>1, SameConsts, TargetsKept, TargetsGrow
<1>3. PICK object :
         /\ UpdateObject(p, object)
         /\ object.space = Object(p).space
         /\ v \in Known =>
               /\ object.hv = Object(p).hv
               /\ Cells(consts, object.pt) = Memory!With(Cells(consts, Object(p).pt),
                                                OffsetIn(consts, Offset(p)), v)
         /\ v \notin Known =>
               /\ Cells(consts, object.pt) = Memory!Without(Cells(consts, Object(p).pt),
                                                OffsetIn(consts, Offset(p)))
               /\ Cells(consts, object.hv) = Memory!With(Cells(consts, Object(p).hv),
                                                OffsetIn(consts, Offset(p)), v)
  BY StorePtrWrites
<1>4. /\ Live' = Live /\ Dead' = Dead /\ HeapLive' = HeapLive
      /\ Cells(consts, object.hv) = Cells(consts, Object(p).hv) => IntCells' = IntCells
      /\ PtrCells' = [PtrCells EXCEPT ![Target(p)] = Cells(consts, object.pt)]
      /\ IntCells' = [IntCells EXCEPT ![Target(p)] = Cells(consts, object.hv)]
  BY <1>1, <1>2, <1>3, WriteMemory
<1>5. /\ Memory!Valid(p) /\ Target(p) \in Live
      /\ Memory!Denotes(p) = [obj |-> Target(p), off |-> OffsetIn(consts, Offset(p))]
  BY <1>1, ValidIs, DenotesIs
<1>6. /\ IntCells[Target(p)] = Cells(consts, Object(p).hv)
      /\ PtrCells[Target(p)] = Cells(consts, Object(p).pt)
  BY <1>5 DEF IntCells, PtrCells, Object
<1> DEFINE at == Memory!Denotes(p)
<1>7. at.obj = Target(p) /\ at.off = OffsetIn(consts, Offset(p))
  BY <1>5
<1> HIDE DEF at
<1>8. CASE v \in Known
  <2>1. IntCells' = IntCells
    BY <1>3, <1>4, <1>8
  <2>2. Cells(consts, object.pt) = Memory!With(PtrCells[at.obj], at.off, v)
    BY <1>3, <1>6, <1>8, <1>7
  <2>3. PtrCells' = [PtrCells EXCEPT ![at.obj] = Memory!With(PtrCells[at.obj], at.off, v)]
    BY <1>4, <1>7, <2>2
  <2>4. PtrCells' = Memory!Write(PtrCells, p, v)
    BY <2>3 DEF Memory!Write, at
  <2> QED
    BY <1>1, <1>2, <1>4, <1>5, <1>8, <2>1, <2>4 DEF Memory!StorePtr
<1>9. CASE v \notin Known
  <2>1. /\ Cells(consts, object.hv) = Memory!With(IntCells[at.obj], at.off, v)
        /\ Cells(consts, object.pt) = Memory!Without(PtrCells[at.obj], at.off)
    BY <1>3, <1>6, <1>9, <1>7
  <2>2. /\ IntCells' = [IntCells EXCEPT ![at.obj] = Memory!With(IntCells[at.obj], at.off, v)]
        /\ PtrCells' = [PtrCells EXCEPT ![at.obj] = Memory!Without(PtrCells[at.obj], at.off)]
    BY <1>4, <1>7, <2>1
  <2>3. IntCells' = Memory!Write(IntCells, p, v)
    BY <2>2 DEF Memory!Write, at
  <2>4. PtrCells' = [PtrCells EXCEPT ![Memory!Denotes(p).obj] =
                        Memory!Without(@, Memory!Denotes(p).off)]
    BY <2>2 DEF at
  <2> QED
    BY <1>1, <1>2, <1>4, <1>5, <1>9, <2>3, <2>4 DEF Memory!StorePtr
<1> QED
  BY <1>8, <1>9

LEMMA CompareStep ==
    ASSUME MemInv, OriginStep, NEW p \in heldPtrs, NEW q \in heldPtrs, CmpPtr(p, q)
    PROVE  Memory!Compare
<1>1. /\ handles' = handles /\ objects' = objects /\ consts' = consts
      /\ nextObj' = nextObj /\ status' = status /\ heldPtrs' = heldPtrs
      /\ nextVal \in Nat /\ MaxVal \in Nat /\ 1 <= MaxVal
  BY BoundsAssumption, MaxConstAssumption DEF CmpPtr, LearnInt, graphVars, MemInv, GraphInv, TypeOK
<1>2. \E v \in 0 .. MaxVal : heldInts' = heldInts \cup {v}
  <2>1. \/ nextVal < MaxVal /\ heldInts' = heldInts \cup {nextVal}
        \/ heldInts' = heldInts \cup {1}
        \/ heldInts' = heldInts \cup {Zero}
    BY DEF CmpPtr, LearnInt
  <2> QED
    BY <1>1, <2>1 DEF Zero
<1>3. AbsTarget' = AbsTarget /\ ConstsGrow
  <2>1. Known' = Known
    BY <1>1 DEF Known
  <2> QED
    BY <1>1, <2>1, SameConsts, TargetsKept
<1>4. UNCHANGED Memory!memory
  BY <1>1, <1>3, SameMemory DEF Memory!memory
<1> QED
  BY <1>1, <1>2, <1>3, <1>4 DEF Memory!Compare

LEMMA FaultStep ==
    ASSUME MemInv, OriginStep, NEW p \in heldPtrs, AccessFault(p) \/ FreeFault(p)
    PROVE  Memory!Fault(p)
<1>1. /\ handles' = handles /\ objects' = objects /\ consts' = consts
      /\ nextObj' = nextObj /\ heldPtrs' = heldPtrs /\ heldInts' = heldInts /\ p \in Issued
  BY DEF AccessFault, FreeFault, Fail, graphVars, vcVars, MemInv, GraphInv, TypeOK
<1>2. AbsTarget' = AbsTarget /\ ConstsGrow
  <2>1. Known' = Known
    BY <1>1 DEF Known
  <2> QED
    BY <1>1, <2>1, SameConsts, TargetsKept
<1>3. UNCHANGED Memory!memory
  BY <1>1, <1>2, SameMemory DEF Memory!memory
<1>4. Memory!Denotes(p).obj = Target(p)
  BY <1>1, DenotesIs
<1>5. \/ Target(p) = NullObj /\ status' = "nullDeref"
      \/ Target(p) = UnknownObj /\ status' \in {"invalidDeref", "invalidFree"}
      \/ Target(p) = FreedObj /\ status' \in {"invalidDeref", "doubleFree"}
      \/ Target(p) \notin SpecialObjs /\ objects[Target(p)].space # "Heap"
         /\ status' = "nonHeapFree"
  BY DEF AccessFault, FreeFault, Fail, CanAccess, Object, SpecialObjs,
         NullObj, UnknownObj, FreedObj
<1>6. objects[Target(p)].space # "Heap" => Target(p) \notin HeapLive
  BY DEF HeapLive
<1> QED
  BY <1>1, <1>2, <1>3, <1>4, <1>5, <1>6 DEF Memory!Fault, Memory!Null, Memory!Unknown,
     Memory!Freed, NullObj, UnknownObj, FreedObj, SpecialObjs

LEMMA FreeStep ==
    ASSUME MemInv, OriginStep, NEW p \in heldPtrs, FreeObject(p)
    PROVE  Memory!Free(p)
<1> DEFINE o == Target(p)
           T == PtEdges(Issued \cup {Hidden})
<1>1. /\ p \in Issued /\ CanAccess(p) /\ objects[o].space = "Heap"
      /\ objects' = [x \in DOMAIN objects \ {o} |->
                        [objects[x] EXCEPT !.pt = Redirect(@, o, FreedObj)]]
      /\ consts' = consts /\ nextObj' = nextObj /\ status' = status
      /\ heldPtrs' = heldPtrs /\ heldInts' = heldInts
  BY DEF FreeObject, Object, vcVars, MemInv, GraphInv, TypeOK
<1>2. /\ o \in DOMAIN objects /\ o \in Live /\ Memory!Denotes(p).obj = o
      /\ DOMAIN objects \subseteq ObjectIds
      /\ \A x \in DOMAIN objects : objects[x] \in Regions
  BY <1>1, AccessType, ValidIs, DenotesIs DEF MemInv, GraphInv, TypeOK
<1>3. o \in HeapLive /\ o \in 1 .. nextObj - 1
  BY <1>1, <1>2 DEF HeapLive, Live, ObjectIds
<1>4. AbsTarget' = AbsTarget
  BY <1>1, PlacesFree, SameConsts, TargetsKept
<1>5. \A x \in DOMAIN objects \ {o} :
         /\ objects'[x].pt = Redirect(objects[x].pt, o, FreedObj)
         /\ objects'[x].hv = objects[x].hv /\ objects'[x].space = objects[x].space
  BY <1>1, <1>2 DEF Regions
<1>6. DOMAIN objects' = DOMAIN objects \ {o}
  BY <1>1
<1>7. ASSUME NEW x \in DOMAIN objects \ {o}
      PROVE  Cells(consts, objects'[x].pt) = Cells(consts, objects[x].pt)
  <2>1. objects[x].pt \in Seq(T) /\ Injective(consts)
    BY <1>2 DEF Regions, MemInv, ConstInv
  <2>2. FreedObj \in ObjectIds
    BY DEF ObjectIds, SpecialObjs
  <2>3. \A e \in T : /\ Retarget(e, FreedObj) \in T /\ Retarget(e, FreedObj).off = e.off
                     /\ Retarget(e, FreedObj).value = e.value
    BY <2>2 DEF PtEdges, Retarget
  <2> HIDE DEF T
  <2>4. Cells(consts, Redirect(objects[x].pt, o, FreedObj)) = Cells(consts, objects[x].pt)
    BY <2>1, <2>3, CellsRedirect
  <2> QED
    BY <1>5, <2>4
<1> HIDE DEF o
<1>8. Live' = Live \ {o}
  BY <1>6 DEF Live
<1>9. Dead' = Dead \cup {o}
  BY <1>1, <1>2, <1>3, <1>8 DEF Dead
<1>10. \A x \in Live \ {o} : x \in DOMAIN objects \ {o}
  BY DEF Live
<1>11. HeapLive' = HeapLive \ {o}
  BY <1>5, <1>8, <1>10 DEF HeapLive
<1>12. /\ PtrCells' = Memory!Without(PtrCells, o)
       /\ IntCells' = Memory!Without(IntCells, o)
  <2>1. /\ PtrCells' = [x \in Live \ {o} |-> Cells(consts, objects'[x].pt)]
        /\ IntCells' = [x \in Live \ {o} |-> Cells(consts, objects'[x].hv)]
    BY <1>1, <1>8 DEF PtrCells, IntCells
  <2>2. /\ Memory!Without(PtrCells, o) = [x \in Live \ {o} |-> Cells(consts, objects[x].pt)]
        /\ Memory!Without(IntCells, o) = [x \in Live \ {o} |-> Cells(consts, objects[x].hv)]
    BY DEF Memory!Without, PtrCells, IntCells
  <2> QED
    BY <1>5, <1>7, <1>10, <2>1, <2>2
<1> QED
  BY <1>1, <1>2, <1>3, <1>4, <1>8, <1>9, <1>11, <1>12 DEF Memory!Free

-----------------------------------------------------------------------------
(* The theorem.                                                            *)

LEMMA MemInit ==
    ASSUME HInit
    PROVE  /\ MemInv /\ Known = {Zero}
           /\ \A v \in {Zero} : Place(v) = [obj |-> NullObj, off |-> Zero]
<1> DEFINE e == PtEdge(Zero, Zero, NullObj, Zero)
<1>1. /\ handles = <<e>> /\ objects = [o \in SpecialObjs |-> NewObject("Heap")]
      /\ consts  = [v \in 0 .. 2 * MaxConst - 1 |->
                       IF v <= MaxConst THEN v ELSE MaxConst - v]
      /\ nextObj = 1 /\ origin = [v \in Known |-> Place(v)]
  BY DEF HInit, Init
<1>2. GraphInv
  BY InitInv DEF HInit
<1>3. e.value = Zero /\ e.obj = NullObj /\ e.toff = Zero
  BY DEF PtEdge
<1>4. DOMAIN handles = {1} /\ handles[1] = e
  BY <1>1
<1>5. Known = {Zero}
  BY <1>3, <1>4 DEF Known
<1>6. \A v \in {Zero} : Place(v) = [obj |-> NullObj, off |-> Zero]
  <2>1. HasValue(handles, Zero) /\ First(OfValue(handles, Zero)) = 1
    <3>1. OfValue(handles, Zero) = {1}
      BY <1>3, <1>4 DEF OfValue
    <3>2. 1 \in {1} /\ {1} \in SUBSET Nat /\ \A j \in {1} : 1 <= j
      OBVIOUS
    <3> QED
      BY <3>1, <3>2, FirstUnique DEF HasValue
  <2> HIDE DEF e
  <2> QED
    BY <1>3, <1>4, <2>1 DEF Place, FindByValue
<1>7. StoredEdgesAgree /\ OffsetsUnique
  <2>1. \A o \in DOMAIN objects : objects[o].pt = <<>>
    BY <1>1 DEF NewObject
  <2> QED
    BY <2>1 DEF StoredEdgesAgree, OffsetsUnique, UniqueOffsets
<1>8. ConstInv
  BY <1>1, MaxConstAssumption DEF ConstInv, Injective, Zero
<1>9. OriginInv
  <2>1. /\ DOMAIN origin = Known /\ IsMap(origin)
        /\ \A v \in Known : origin[v] = [obj |-> NullObj, off |-> Zero]
    BY <1>1, <1>5, <1>6 DEF IsMap
  <2>2. NullObj \in ObjectIds /\ NullObj \in DOMAIN objects /\ NullObj \in SpecialObjs
    BY <1>1 DEF ObjectIds, SpecialObjs
  <2> QED
    BY <1>5, <1>6, <2>1, <2>2 DEF OriginInv
<1> QED
  BY <1>2, <1>5, <1>6, <1>7, <1>8, <1>9 DEF MemInv

LEMMA InitStep == HInit => Memory!Init
<1> SUFFICES ASSUME HInit PROVE Memory!Init
  OBVIOUS
<1>1. /\ MemInv /\ Known = {Zero}
      /\ \A v \in {Zero} : Place(v) = [obj |-> NullObj, off |-> Zero]
  BY MemInit
<1>2. /\ origin = [v \in Known |-> Place(v)] /\ nextObj = 1
      /\ DOMAIN objects = SpecialObjs
      /\ heldPtrs = {Zero} /\ heldInts = IntConstants /\ status = "ok"
  BY DEF HInit, Init
<1>3. AbsTarget = [v \in {Memory!Null} |-> [obj |-> Memory!Null, off |-> Memory!Start]]
  <2>1. \A v \in {Zero} : origin[v] = [obj |-> NullObj, off |-> Zero]
    BY <1>1, <1>2
  <2>2. OffsetIn(consts, Zero) = Memory!Start
    BY <1>1, ZeroOffset
  <2>3. AbsTarget = [v \in {Zero} |->
           [obj |-> origin[v].obj, off |-> OffsetIn(consts, origin[v].off)]]
    BY <1>1, <1>2 DEF AbsTarget
  <2>4. \A v \in {Zero} : [obj |-> origin[v].obj, off |-> OffsetIn(consts, origin[v].off)]
           = [obj |-> NullObj, off |-> Memory!Start]
    BY <2>1, <2>2
  <2>5. Zero = Memory!Null /\ NullObj = Memory!Null
    BY DEF Zero, NullObj, Memory!Null
  <2> QED
    BY <2>3, <2>4, <2>5
<1>4. Live = {} /\ Dead = {} /\ HeapLive = {}
  BY <1>2 DEF Live, Dead, HeapLive
<1>5. PtrCells = <<>> /\ IntCells = <<>>
  BY <1>4 DEF PtrCells, IntCells
<1>6. IntConstants \subseteq 0 .. 2 * MaxConst - 1
  BY IntConstantsAssumption, MaxConstAssumption
<1> QED
  BY <1>2, <1>3, <1>4, <1>5, <1>6 DEF Memory!Init, Memory!Null, Zero

LEMMA NextStep == MemInv /\ [HNext]_<<vars, origin>> => [Memory!Next]_(Memory!all)
<1> SUFFICES ASSUME MemInv, [HNext]_<<vars, origin>> PROVE [Memory!Next]_(Memory!all)
  OBVIOUS
<1>1. CASE UNCHANGED <<vars, origin>>
  <2>1. /\ handles' = handles /\ objects' = objects /\ consts' = consts
        /\ nextObj' = nextObj /\ origin' = origin /\ heldPtrs' = heldPtrs
        /\ heldInts' = heldInts /\ status' = status
    BY <1>1 DEF vars, graphVars, vcVars
  <2> QED
    BY <2>1 DEF Memory!all, Memory!memory, AbsTarget, Live, Dead, HeapLive, PtrCells, IntCells
<1>2. CASE HNext
  <2> USE <1>2 DEF HNext
  <2>1. OriginStep
    BY DEF OriginStep
  <2>2. CASE Alloca \/ Malloc
    <3>1. PICK space : AllocateRegion(space)
      BY <2>2 DEF Alloca, Malloc
    <3>2. status = "ok"
      BY <3>1 DEF AllocateRegion, Running
    <3> QED
      BY <2>1, <3>1, <3>2, AllocateStep DEF Memory!Next
  <2>3. ASSUME NEW p \in heldPtrs, FreeNull(p)
        PROVE  UNCHANGED Memory!all
    <3>1. /\ objects' = objects /\ consts' = consts /\ nextObj' = nextObj /\ handles' = handles
          /\ heldPtrs' = heldPtrs /\ heldInts' = heldInts /\ status' = status
      BY <2>3 DEF FreeNull, vars, graphVars, vcVars
    <3>2. Known' = Known /\ ConstsGrow
      BY <3>1, SameConsts DEF Known
    <3>3. AbsTarget' = AbsTarget
      BY <2>1, <3>2, TargetsKept
    <3> QED
      BY <3>1, <3>2, <3>3, SameMemory DEF Memory!all, Memory!memory
  <2>4. ASSUME NEW p \in heldPtrs,
               \/ AccessFault(p) \/ FreeFault(p) \/ LoadInt(p) \/ LoadPtr(p)
               \/ GepUnknown(p) \/ BitCast(p) \/ Memclear(p) \/ FreeObject(p)
        PROVE  Memory!Next
    <3>1. status = "ok"
      BY <2>4 DEF AccessFault, FreeFault, LoadInt, LoadPtr, GepUnknown, BitCast,
                  Memclear, FreeObject, Running
    <3>2. \/ Memory!Fault(p) \/ Memory!LoadInt(p) \/ Memory!LoadPtr(p)
          \/ Memory!GepUnknown(p) \/ Memory!BitCast(p) \/ Memory!Memclear(p, Memory!Null)
          \/ Memory!Free(p)
      BY <2>1, <2>4, FaultStep, LoadIntStep, LoadPtrStep, GepUnknownStep, BitCastStep,
         MemclearStep, FreeStep
    <3> QED
      BY <3>1, <3>2 DEF Memory!Next
  <2>5. ASSUME NEW p \in heldPtrs, NEW v \in heldInts, StoreInt(p, v) PROVE Memory!Next
    BY <2>1, <2>5, StoreIntStep DEF Memory!Next, StoreInt, Running
  <2>6. ASSUME NEW p \in heldPtrs, NEW v \in heldPtrs, StorePtr(p, v) PROVE Memory!Next
    BY <2>1, <2>6, StorePtrStep DEF Memory!Next, StorePtr, Running
  <2>7. ASSUME NEW p \in heldPtrs, NEW off \in DOMAIN consts,
               consts[off] \in GepOffsets, Gep(p, off)
        PROVE  Memory!Next
    BY <2>1, <2>7, GepStep DEF Memory!Next, Gep, Running
  <2>8. ASSUME NEW p \in heldPtrs, NEW q \in heldPtrs, CmpPtr(p, q) PROVE Memory!Next
    BY <2>1, <2>8, CompareStep DEF Memory!Next, CmpPtr, Running
  <2> QED
    BY <2>2, <2>3, <2>4, <2>5, <2>6, <2>7, <2>8 DEF Next
<1> QED
  BY <1>1, <1>2

\* The graph of Smg/Graph.hpp, driven by MemoryGraphAnalysis.hpp, implements
\* the abstract memory: whatever frees, overwrites, copies and derived
\* pointers came before, an access goes where its pointer was made for, a
\* pointer into a freed object faults for ever, and a read of a cell finds
\* what was last written there.
THEOREM MemoryImplemented == HSpec => ImplementsPointerMemory
<1>1. HInit => MemInv
  BY MemInit
<1> QED
  BY <1>1, InitStep, MemNext, NextStep, PTL DEF HSpec, ImplementsPointerMemory, Memory!Spec
=============================================================================
