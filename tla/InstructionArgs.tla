-------------------------- MODULE InstructionArgs --------------------------
(***************************************************************************)
(* What the frontend tells the operation of an integer instruction         *)
(* (GetOperArgsForInstr in LlvmFrontend.cpp): the kind and the flags.      *)
(***************************************************************************)
EXTENDS Operations, LlvmIntegers

BinaryOpKind(i) ==
    CASE i.opcode \in {"udiv", "sdiv"} -> "div"
      [] i.opcode \in {"urem", "srem"} -> "rem"
      [] i.opcode \in {"lshr", "ashr"} -> "shr"
      [] OTHER -> i.opcode

\* llvm::OverflowingBinaryOperator
WrapFlags(i) == IF i.opcode \in MayWrap THEN i.attributes \cap {"nsw", "nuw"} ELSE {}

ExactFlag(i) ==
    IF i.opcode \in {"sdiv", "ashr", "udiv", "lshr"} THEN i.attributes \cap {"exact"} ELSE {}

\* The flag of the signed group, reached by the first case too, and of the
\* unsigned one.
SignFlag(i) ==
    CASE i.opcode \in {"sdiv", "ashr", "srem"} -> {"signed"}
      [] i.opcode \in {"udiv", "lshr", "urem"} -> {"unsigned"}
      [] OTHER -> {}

ArithFlags(i) == WrapFlags(i) \cup ExactFlag(i) \cup SignFlag(i)

CastOpKind(i) == IF i.opcode = "trunc" THEN "Truncate" ELSE "Extend"
CastFlags(i) ==
    CASE i.opcode = "zext" -> {"unsigned"}
      [] i.opcode = "sext" -> {"signed"}
      [] OTHER -> {}

IsTrueWhenEqual(i) == i.opcode \in {"eq", "uge", "ule", "sge", "sle"}

CmpFlags(i) ==
    (IF i.opcode \in {"ugt", "uge", "ult", "ule"} THEN {"unsigned"} ELSE {})
    \cup (IF IsTrueWhenEqual(i) THEN {"eq"} ELSE {})
    \cup CASE i.opcode = "ne" -> {"neq"}
           [] i.opcode \in {"ugt", "uge", "sgt", "sge"} -> {"gt"}
           [] i.opcode \in {"ult", "ule", "slt", "sle"} -> {"lt"}
           [] OTHER -> {}
=============================================================================
