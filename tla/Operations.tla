----------------------------- MODULE Operations -----------------------------
(***************************************************************************)
(* Which operation of the analysis executes an LLVM instruction: the       *)
(* frontend asks the factory of operations for it (GetOperationFor in      *)
(* LlvmFrontend.cpp), and the memory analysis has a factory that uses some *)
(* operations for several purposes (MemGraphOpFactory).                    *)
(*                                                                         *)
(* An instruction has an opcode (of an icmp, the predicate); a call has a  *)
(* callee too, which is a name, or "pointer".  Families of names that are  *)
(* recognised by their beginning are represented by it.                    *)
(***************************************************************************)

BinaryOps  == {"add", "sub", "mul", "udiv", "sdiv", "urem", "srem",
               "shl", "lshr", "ashr", "and", "or", "xor"}
FloatOps   == {"fadd", "fsub", "fmul", "fdiv", "frem"}
Predicates == {"eq", "ne", "ugt", "uge", "ult", "ule", "sgt", "sge", "slt", "sle"}
Casts      == {"trunc", "zext", "sext", "bitcast", "ptrtoint", "inttoptr", "addrspacecast",
               "fptrunc", "fpext", "fptoui", "fptosi", "uitofp", "sitofp"}

\* The method of the factory for a call, by the callee.
MethodForCall(callee) ==
    CASE callee = "llvm.dbg" -> "Noop"
      [] callee = "llvm.memset" -> "Memset"
      [] callee = "__ANGIE_DIAGNOSTICS_PLOT_MEMORY" -> "DiagnosticsPlotMem"
      [] callee = "__ANGIE_CREATE_UNKNOWN_" -> "CreateUnknownVal"
      [] callee = "__ANGIE_fin" -> "Terminate"
      [] callee = "abort" -> "Abort"
      [] callee = "exit" -> "Exit"
      [] callee = "malloc" -> "Malloc"
      [] callee = "free" -> "Free"
      [] OTHER -> "Call"

\* GetOperationFor.  (Of an intrinsic function without an operation it
\* throws, so such a program is never analysed.)
MethodFor(i) ==
    CASE i.opcode = "call" -> MethodForCall(i.callee)
      [] i.opcode = "ret" -> "Ret"
      [] i.opcode = "br" -> "Br"
      [] i.opcode = "alloca" -> "Alloca"
      [] i.opcode = "load" -> "Load"
      [] i.opcode = "store" -> "Store"
      [] i.opcode = "getelementptr" -> "GetElementPtr"
      [] i.opcode = "invoke" -> "Invoke"
      [] i.opcode \in Predicates \cup {"fcmp"} -> "Cmp"
      [] i.opcode \in Casts -> "Cast"
      [] i.opcode \in BinaryOps \cup FloatOps -> "BinOp"
      [] OTHER -> "NotSupportedInstr"

\* MemGraphOpFactory
Operation(method) ==
    CASE method = "Terminate" -> "Noop"
      [] method = "Exit" -> "Abort"
      [] method = "Invoke" -> "NotSupportedInstr"
      [] OTHER -> method

OperationFor(i) == Operation(MethodFor(i))
=============================================================================
