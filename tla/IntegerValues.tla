---------------------------- MODULE IntegerValues ----------------------------
(***************************************************************************)
(* Integer constants of the value container (ValueContainerV1.cpp): how    *)
(* arithmetic, comparisons and width conversions of constants are folded,  *)
(* along one path of an analysed program.                                  *)
(*                                                                         *)
(* A constant is a machine word, whatever the type of the registers that   *)
(* hold it; a register of a narrower type means its low bits.  The path is *)
(* a sequence of LLVM instructions, each of which defines a new register.  *)
(*                                                                         *)
(* Beside the ValueId, each register has a history component: its truth,   *)
(* the value it has in one run of the program along that path.  The        *)
(* analysis does not see it.                                               *)
(*                                                                         *)
(* BinOp and IsCmp are called with the options that the frontend made of   *)
(* the instruction: o is [kind, flags, from, to].                          *)
(***************************************************************************)
EXTENDS InstructionArgs

CONSTANTS
    WordBits,     \* bits of a stored constant (64 in the code)
    Literals,     \* [word, width]: the constants in the program
    Instructions, \* the instructions in the program, see LlvmIntegers
    DirectCalls,  \* negations and extensions that are asked of the container:
                  \* unsigned ones by MemGraphOpAlloca and MemGraphOpMalloc,
                  \* of a size; the others by no operation
    ArgumentWidth,\* width of main's argument and of other unknown values
    MaxVal,       \* bound: ValueIds are 0..MaxVal-1
    MaxResults    \* bound on the number of registers an execution defines

ASSUME WordAssumption == WordBits \in Nat \ {0} /\ ArgumentWidth \in 1 .. WordBits
ASSUME LiteralsAssumption ==
    \A c \in Literals : c.width \in 1 .. WordBits /\ c.word \in 0 .. 2 ^ c.width - 1
ASSUME IntegerBoundsAssumption == MaxVal \in Nat /\ MaxResults \in Nat

VARIABLES
    constantContainer,  \* ValueContainer::constantContainer: ValueId -> word
    nextVal,            \* ValueId::nextIdToGive
    regs,               \* the registers: [id, width, truth]
    threw               \* an exception left the container

vars == <<constantContainer, nextVal, regs, threw>>

IsConstant(v) == v \in DOMAIN constantContainer

-----------------------------------------------------------------------------
(* Words.                                                                  *)

RipBits(w, n) == n % 2 ^ w

\* Mutant: the sign is taken from one bit too far.
SignExtend64OffByOne(w, n) ==
    LET low == RipBits(w, n) IN IF low >= 2 ^ w THEN low - 2 ^ w ELSE low
SignExtend64(w, n) ==
    LET low == RipBits(w, n) IN IF low >= 2 ^ (w - 1) THEN low - 2 ^ w ELSE low

\* What uint64_t and int64_t make of an integer.
Unsigned(n) == RipBits(WordBits, n)
Signed(n)   == SignExtend64(WordBits, n)

\* Bit length, except that 2 counts as one bit.
BSR(n) ==
    IF n = 2 THEN 1 ELSE CHOOSE k \in 0 .. WordBits : n < 2 ^ k /\ (k = 0 \/ n >= 2 ^ (k - 1))

\* Shifts of words; the processor takes the distance modulo the word size.
ShiftLeft(n, d)  == Unsigned(n * 2 ^ (d % WordBits))
ShiftRight(n, d) == n \div 2 ^ (d % WordBits)

-----------------------------------------------------------------------------
(* BinOp.  u1, u2 and s1, s2 are the operands ripped to the type's width,  *)
(* without and with sign.                                                  *)

uMax(w) == 2 ^ w - 1
sMax(w) == 2 ^ (w - 1) - 1
sMin(w) == Signed(2 ^ (w - 1))   \* positive unless the type fills the word

\* Mutant: one overflow is missed.
UnsignedAddOverflowsLate(w, u1, u2) == uMax(w) - u1 < u2 - 1
UnsignedAddOverflows(w, u1, u2) == uMax(w) - u1 < u2

AddOverflows(o, u1, u2, s1, s2) ==
    LET w == o.from
    IN  IF "nuw" \in o.flags THEN UnsignedAddOverflows(w, u1, u2)
        ELSE /\ "nsw" \in o.flags
             /\ Signed(s1 * s2) > 0
             /\ IF s1 >= 0 THEN sMax(w) - s1 < s2 ELSE Signed(sMin(w) - s1) > s2

SubOverflows(o, u1, u2, s1, s2) ==
    LET w == o.from
    IN  IF "nuw" \in o.flags THEN u2 > u1
        ELSE /\ "nsw" \in o.flags
             /\ Signed(s1 * s2) < 0
             /\ IF s1 >= 0 THEN sMax(w) + s2 < s1 ELSE Signed(sMin(w) + s2) > s1

MulOverflows(o, u1, u2, s1, s2) ==
    IF "nuw" \in o.flags THEN BSR(u1) + BSR(u2) > o.from
    ELSE "nsw" \in o.flags /\ BSR(Abs(s1)) + BSR(Abs(s2)) > o.from

\* Sign bits shifted in from the left.
ArithmeticShift(w, u1, u2) ==
    IF u1 < 2 ^ (w - 1) THEN ShiftRight(u1, u2)
    ELSE IF w < u2 THEN Unsigned(-1)
    ELSE FromBits(Bits(WordBits, ShiftRight(u1, u2))
                  \cup Bits(WordBits, Unsigned(-ShiftLeft(1, w - u2))))

IsSigned(o) == o.flags = {"signed"}
HasSign(o)  == o.flags \in {{"signed"}, {"unsigned"}}
Divides(o)  == o.kind \in {"div", "rem"}

\* An unknown value is created although both operands are constants.
Declines(o, u1, u2, s1, s2) ==
    \/ o.kind = "add" /\ AddOverflows(o, u1, u2, s1, s2)
    \/ o.kind = "sub" /\ SubOverflows(o, u1, u2, s1, s2)
    \/ o.kind = "mul" /\ MulOverflows(o, u1, u2, s1, s2)
    \/ Divides(o) /\ u2 = 0

\* "Undefined type of division", also when the flags hold Exact
Throws(o, u2) ==
    /\ o.kind = "shr" \/ (Divides(o) /\ u2 # 0)
    /\ ~HasSign(o)

\* The word that is created.  It is not cut to the width of the type.
Folded(o, u1, u2, s1, s2) ==
    CASE o.kind = "add" -> Unsigned(u1 + u2)
      [] o.kind = "sub" -> Unsigned(u1 - u2)
      [] o.kind = "mul" -> Unsigned(s1 * s2)
      [] o.kind = "div" -> IF IsSigned(o) THEN Unsigned(Quotient(s1, s2)) ELSE u1 \div u2
      [] o.kind = "rem" -> IF IsSigned(o) THEN Unsigned(Remainder(s1, s2)) ELSE u1 % u2
      [] o.kind = "and" -> FromBits(Bits(WordBits, u1) \cap Bits(WordBits, u2))
      [] o.kind = "or"  -> FromBits(Bits(WordBits, u1) \cup Bits(WordBits, u2))
      [] o.kind = "xor" -> FromBits(SymDiff(Bits(WordBits, u1), Bits(WordBits, u2)))
      [] o.kind = "shl" -> ShiftLeft(u1, u2)
      [] o.kind = "shr" -> IF IsSigned(o) THEN ArithmeticShift(o.from, u1, u2)
                           ELSE ShiftRight(u1, u2)

Related(relation, a, b) ==
    CASE relation = {"eq"} -> a = b
      [] relation = {"neq"} -> a # b
      [] relation = {"lt"} -> a < b
      [] relation = {"lt", "eq"} -> a <= b
      [] relation = {"gt"} -> a > b
      [] relation = {"gt", "eq"} -> a >= b

\* IsCmp of two constants
Compared(flags, u1, u2, s1, s2) ==
    IF "unsigned" \in flags \/ flags \in {{"eq"}, {"neq"}}
    THEN Related(flags \ {"unsigned"}, u1, u2)
    ELSE Related(flags, s1, s2)

-----------------------------------------------------------------------------
(* Executing an instruction on a path.                                     *)

Register(v, width, truth) == [id |-> v, width |-> width, truth |-> truth]

\* CreateVal
CreateVal(width, truth) ==
    /\ nextVal < MaxVal
    /\ regs' = regs \cup {Register(nextVal, width, truth)}
    /\ nextVal' = nextVal + 1
    /\ UNCHANGED <<constantContainer, threw>>

\* Mutant: constants are not looked up.
CreateConstIntValAlways(word, width, truth) ==
    /\ nextVal < MaxVal
    /\ constantContainer' = [v \in DOMAIN constantContainer \cup {nextVal} |->
           IF v = nextVal THEN word ELSE constantContainer[v]]
    /\ regs' = regs \cup {Register(nextVal, width, truth)}
    /\ nextVal' = nextVal + 1
    /\ UNCHANGED threw

\* CreateConstIntVal: constants are looked up by their word.
CreateConstIntVal(word, width, truth) ==
    LET ids == {v \in DOMAIN constantContainer : constantContainer[v] = word}
    IN  IF ids # {}
        THEN /\ \E v \in ids : regs' = regs \cup {Register(v, width, truth)}
             /\ UNCHANGED <<constantContainer, nextVal, threw>>
        ELSE /\ nextVal < MaxVal
             /\ constantContainer' = [v \in DOMAIN constantContainer \cup {nextVal} |->
                    IF v = nextVal THEN word ELSE constantContainer[v]]
             /\ regs' = regs \cup {Register(nextVal, width, truth)}
             /\ nextVal' = nextVal + 1
             /\ UNCHANGED threw

Keep(v, width, truth) ==
    /\ regs' = regs \cup {Register(v, width, truth)}
    /\ UNCHANGED <<constantContainer, nextVal, threw>>

\* The program's literals are created before the path starts, then main's
\* argument.
Init ==
    LET words == {0} \cup {c.word : c \in Literals}
        next  == Cardinality(words)
        Id(n) == Cardinality({m \in words : m < n})
    IN  /\ constantContainer = [v \in 0 .. next - 1 |-> CHOOSE n \in words : Id(n) = v]
        /\ nextVal = next + 1
        /\ \E n \in 0 .. 2 ^ ArgumentWidth - 1 :
              regs = {Register(Id(c.word), c.width, c.word) : c \in Literals}
                     \cup {Register(next, ArgumentWidth, n)}
        /\ threw = FALSE

Continues == ~threw /\ Cardinality(regs) <= Cardinality(Literals) + MaxResults

CreateUnknown(width) == \E n \in 0 .. 2 ^ width - 1 : CreateVal(width, n)

Operands(i) == {r \in regs : r.width = i.from}

Options(i) == [kind |-> BinaryOpKind(i), flags |-> ArithFlags(i), from |-> i.from]

\* The processor traps: the smallest word is divided by -1.
Traps(o, s1, s2) ==
    Divides(o) /\ IsSigned(o) /\ s1 = -(2 ^ (WordBits - 1)) /\ s2 = -1

BinOp(i, r1, r2) ==
    LET o == Options(i)
        truth == BinaryResult(i, r1.truth, r2.truth)
        u(r) == RipBits(i.from, constantContainer[r.id])
        s(r) == SignExtend64(i.from, constantContainer[r.id])
    IN  IF ~IsConstant(r1.id) \/ ~IsConstant(r2.id)
        THEN CreateVal(i.to, truth)
        ELSE /\ ~Traps(o, s(r1), s(r2))
             /\ IF Throws(o, u(r2))
                THEN threw' = TRUE /\ UNCHANGED <<constantContainer, nextVal, regs>>
                ELSE IF Declines(o, u(r1), u(r2), s(r1), s(r2))
                THEN CreateVal(i.to, truth)
                ELSE CreateConstIntVal(Folded(o, u(r1), u(r2), s(r1), s(r2)), i.to, truth)

\* The comparison of two constants; of others it is a new unknown value.
Cmp(i, r1, r2) ==
    LET truth == CompareResult(i, r1.truth, r2.truth)
        u(r) == RipBits(i.from, constantContainer[r.id])
        s(r) == SignExtend64(i.from, constantContainer[r.id])
    IN  IF ~IsConstant(r1.id) \/ ~IsConstant(r2.id)
        THEN CreateVal(i.to, truth)
        ELSE CreateConstIntVal(
                IF Compared(CmpFlags(i), u(r1), u(r2), s(r1), s(r2)) THEN 1 ELSE 0,
                i.to, truth)

BitNot(i, r) ==
    LET truth == IF r.truth < 0 THEN Undefined ELSE 2 ^ i.to - 1 - r.truth
    IN  IF ~IsConstant(r.id) THEN CreateVal(i.to, truth)
        ELSE CreateConstIntVal(Unsigned(-1 - constantContainer[r.id]), i.to, truth)

ExtendedWord(i, word) ==
    IF "signed" \in CastFlags(i) THEN Unsigned(SignExtend64(i.from, word))
    ELSE RipBits(i.from, word)

\* Mutant: an unknown value is returned as it is.
ExtendIntKeeps(i, r) ==
    IF ~IsConstant(r.id) THEN Keep(r.id, i.to, CastResult(i, r.truth))
    ELSE CreateConstIntVal(ExtendedWord(i, constantContainer[r.id]),
                           i.to, CastResult(i, r.truth))
ExtendInt(i, r) ==
    IF ~IsConstant(r.id) THEN CreateVal(i.to, CastResult(i, r.truth))
    ELSE CreateConstIntVal(ExtendedWord(i, constantContainer[r.id]),
                           i.to, CastResult(i, r.truth))

\* A constant keeps its bits; those that are cut off are ripped later.
TruncateInt(i, r) ==
    IF IsConstant(r.id) THEN Keep(r.id, i.to, CastResult(i, r.truth))
    ELSE CreateVal(i.to, CastResult(i, r.truth))

\* MemGraphOpCast does not call ExtendInt ("TODO: hack!").
Cast(i, r) ==
    \/ CastOpKind(i) = "Extend" /\ Keep(r.id, i.to, CastResult(i, r.truth))
    \/ CastOpKind(i) = "Truncate" /\ TruncateInt(i, r)

Execute(i) ==
    \E r1, r2 \in Operands(i) :
        \/ OperationFor(i) = "BinOp" /\ BinOp(i, r1, r2)
        \/ OperationFor(i) = "Cmp" /\ Cmp(i, r1, r2)
        \/ OperationFor(i) = "Cast" /\ r1 = r2 /\ Cast(i, r1)

Next ==
    /\ Continues
    /\ \/ CreateUnknown(ArgumentWidth)
       \/ \E i \in Instructions : Execute(i)
       \/ \E i \in DirectCalls : \E r \in Operands(i) :
              IF i.opcode = "not" THEN BitNot(i, r) ELSE ExtendInt(i, r)

Spec == Init /\ [][Next]_vars

-----------------------------------------------------------------------------
(* Properties.                                                             *)

\* Type invariant: ids were given out, constants are words and have one id.
TypeOK ==
    /\ nextVal \in 0 .. MaxVal
    /\ DOMAIN constantContainer \subseteq 0 .. nextVal - 1
    /\ \A v \in DOMAIN constantContainer : constantContainer[v] \in 0 .. 2 ^ WordBits - 1
    /\ \A v, w \in DOMAIN constantContainer :
          constantContainer[v] = constantContainer[w] => v = w
    /\ \A r \in regs : /\ r.id \in 0 .. nextVal - 1
                       /\ r.width \in 1 .. WordBits
                       /\ r.truth \in {Wrapped, Undefined} \cup 0 .. 2 ^ r.width - 1

\* A register that holds a constant has that value, at its own width, in
\* every run: through any sequence of operations that leave bits beyond the
\* width in the word, share one id among types of all widths, truncate
\* without cutting, and extend (BinOp, ExtendInt, TruncateInt, IsCmp).
ConstantsTrue ==
    \A r \in regs : IsConstant(r.id) /\ r.truth >= 0
                    => RipBits(r.width, constantContainer[r.id]) = r.truth

\* Registers of one type with one id have one value: constraints are kept by
\* id, so what is assumed of one is believed of the other (CreateVal,
\* TruncateInt, "the returned value need not be a newly created one",
\* Values.hpp:167).
SameIdSameValue ==
    \A r1, r2 \in regs :
        r1.id = r2.id /\ r1.width = r2.width /\ r1.truth >= 0 /\ r2.truth >= 0
        => r1.truth = r2.truth

\* "Undefined on signed overflow", "Undefined on unsigned overflow"
\* (ArithFlags, General.hpp): no constant is made of a result that wrapped
\* around although its instruction says that it does not (the overflow tests
\* of BinOp).
WrapIsUnknown == \A r \in regs : r.truth = Wrapped => ~IsConstant(r.id)
=============================================================================
