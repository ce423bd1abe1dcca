---------------------------- MODULE LlvmIntegers ----------------------------
(***************************************************************************)
(* What the integer instructions of LLVM compute, by its language          *)
(* reference.  LLVM is outside the repository: this is the semantics the   *)
(* analysis is measured against.                                           *)
(*                                                                         *)
(* An instruction is [opcode, attributes, from, to], with the widths of    *)
(* its operands and of its result; the predicate of a comparison is its    *)
(* opcode.  A value of width w is one of 0 .. 2^w - 1, or a truth that is  *)
(* no number.                                                              *)
(***************************************************************************)
EXTENDS Integers, FiniteSets, FiniteSetsExt

\* The result of an instruction that wrapped although an attribute says it
\* does not, and one that is undefined, or computed from one.
Wrapped   == -1
Undefined == -2

SignedOps  == {"sdiv", "srem", "ashr", "sext", "sgt", "sge", "slt", "sle"}
Divisions  == {"udiv", "sdiv", "urem", "srem"}
Shifts     == {"shl", "lshr", "ashr"}
MayWrap    == {"add", "sub", "mul", "shl"}

SignedValue(w, n) == IF n < 2 ^ (w - 1) THEN n ELSE n - 2 ^ w

\* What an instruction means by an operand.
Meant(i, n) == IF i.opcode \in SignedOps THEN SignedValue(i.from, n) ELSE n

Abs(n) == IF n < 0 THEN -n ELSE n

\* Division truncates, as it does in C++.
Quotient(a, b)  == IF (a < 0) = (b < 0) THEN Abs(a) \div Abs(b) ELSE -(Abs(a) \div Abs(b))
Remainder(a, b) == a - b * Quotient(a, b)

Bits(w, n)  == {k \in 0 .. w - 1 : (n \div 2 ^ k) % 2 = 1}
FromBits(S) == MapThenSumSet(LAMBDA k : 2 ^ k, S)

\* The result before it is cut to the width.
Mathematical(i, a, b) ==
    CASE i.opcode = "add" -> a + b
      [] i.opcode = "sub" -> a - b
      [] i.opcode = "mul" -> a * b
      [] i.opcode \in {"udiv", "sdiv"} -> Quotient(a, b)
      [] i.opcode \in {"urem", "srem"} -> Remainder(a, b)
      [] i.opcode = "shl" -> a * 2 ^ b
      [] i.opcode \in {"lshr", "ashr"} -> a \div 2 ^ b
      [] i.opcode = "and" -> FromBits(Bits(i.from, a) \cap Bits(i.from, b))
      [] i.opcode = "or"  -> FromBits(Bits(i.from, a) \cup Bits(i.from, b))
      [] i.opcode = "xor" -> FromBits(SymDiff(Bits(i.from, a), Bits(i.from, b)))

\* a and b are what is meant by the operands.
IsInexact(i, a, b) ==
    \/ i.opcode \in {"udiv", "sdiv"} /\ Remainder(a, b) # 0
    \/ i.opcode \in {"lshr", "ashr"} /\ a % 2 ^ b # 0

HasNoResult(i, a, b) ==
    \/ i.opcode \in Divisions /\ b = 0
    \/ i.opcode \in {"sdiv", "srem"} /\ a = -(2 ^ (i.from - 1)) /\ b = -1
    \/ i.opcode \in Shifts /\ b >= i.from
    \/ "exact" \in i.attributes /\ IsInexact(i, a, b)

\* a and b are the operands.
Wraps(i, a, b) ==
    /\ i.opcode \in MayWrap
    /\ \/ /\ "nuw" \in i.attributes
          /\ Mathematical(i, a, b) \notin 0 .. 2 ^ i.from - 1
       \/ /\ "nsw" \in i.attributes
          /\ Mathematical(i, SignedValue(i.from, a),
                          IF i.opcode = "shl" THEN b ELSE SignedValue(i.from, b))
                \notin -(2 ^ (i.from - 1)) .. 2 ^ (i.from - 1) - 1

BinaryResult(i, a, b) ==
    LET x == Meant(i, a)
        y == IF i.opcode \in Shifts THEN b ELSE Meant(i, b)
    IN  IF a < 0 \/ b < 0 THEN Undefined
        ELSE IF HasNoResult(i, x, y) THEN Undefined
        ELSE IF Wraps(i, a, b) THEN Wrapped
        ELSE Mathematical(i, x, y) % 2 ^ i.to

Compares(i, a, b) ==
    CASE i.opcode = "eq" -> a = b
      [] i.opcode = "ne" -> a # b
      [] i.opcode \in {"ugt", "sgt"} -> Meant(i, a) > Meant(i, b)
      [] i.opcode \in {"uge", "sge"} -> Meant(i, a) >= Meant(i, b)
      [] i.opcode \in {"ult", "slt"} -> Meant(i, a) < Meant(i, b)
      [] i.opcode \in {"ule", "sle"} -> Meant(i, a) <= Meant(i, b)

CompareResult(i, a, b) ==
    IF a < 0 \/ b < 0 THEN Undefined ELSE IF Compares(i, a, b) THEN 1 ELSE 0

\* Extension and truncation.
CastResult(i, a) == IF a < 0 THEN Undefined ELSE Meant(i, a) % 2 ^ i.to
=============================================================================
