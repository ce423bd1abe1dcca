----------------------------- MODULE MCCfgBuilder -----------------------------
(***************************************************************************)
(* Modules of two functions: one with an entry block 1 and blocks 2 and 3, *)
(* one with the single block 4, which returns a constant.                  *)
(***************************************************************************)
EXTENDS CfgBuilder

End(opcode) == [opcode |-> opcode, arg |-> "none", succ |-> <<>>]
Br(arg, succ) == [opcode |-> "br", arg |-> arg, succ |-> succ]
Cast(opcode, arg, target) == [opcode |-> opcode, arg |-> arg, target |-> target]
CallOf(callee, arg, target) ==
    [opcode |-> "call", callee |-> callee, arg |-> arg, target |-> target]

\* LLVM allows no branch to the entry block of a function.
Terminators == {End("ret"), End("switch")} \cup {Br("none", <<a>>) : a \in 2 .. 3}
               \cup {Br("x", <<a, b>>) : a \in 2 .. 3, b \in 2 .. 3}

\* A block is empty but for its terminator, or has one instruction.
Contents == [b \in 1 .. 3 |->
    CASE b = 1 -> CallOf("f", "string", "x")
      [] b = 2 -> Cast("zext", "true", "y")
      [] b = 3 -> Cast("bitcast", "f", "z")]

\* What the frontend refuses; g is declared only.
Refusing == {Cast("fcmp", "x", "y"), CallOf("llvm.other", "none", "none"),
             Cast("zext", "global", "y"), Cast("zext", "undef", "y"), Cast("bitcast", "g", "y")}

Main == [name |-> "main", param |-> "m", entry |-> 1]
F    == [name |-> "f", param |-> "q", entry |-> 4]

ModuleOf(functions, code, term) ==
    [functions |-> functions, declared |-> {"g"},
     code |-> [b \in 1 .. 4 |-> IF b \in DOMAIN code THEN << code[b] >> ELSE <<>>],
     term |-> [b \in 1 .. 4 |-> IF b = 4 THEN [End("ret") EXCEPT !.arg = "null"] ELSE term[b]]]

\* All arrangements of the blocks.
AcceptedModules ==
    {ModuleOf(f, [b \in full |-> Contents[b]], t) :
        f \in {<<Main, F>>, <<F, Main>>}, full \in SUBSET (1 .. 3),
        t \in [1 .. 3 -> Terminators]}

\* One block is refused: the entry of a function, or one that may be reached
\* or not, before or after the other.
RefusedModules ==
    {ModuleOf(<<Main, F>>, [b \in {bad} |-> r], t) :
        bad \in {2, 3, 4}, r \in Refusing,
        t \in {x \in [1 .. 3 -> Terminators] : x[3] = End("ret")}}

\* No function main, only its declaration, or no function at all.
ModulesWithoutMain ==
    {[functions |-> <<F>>, declared |-> d, code |-> (4 :> <<>>), term |-> (4 :> End("ret"))] :
        d \in {{}, {"main"}}}
    \cup {[functions |-> <<>>, declared |-> d, code |-> <<>>, term |-> <<>>] :
        d \in {{}, {"g"}}}

SmallModules == AcceptedModules \cup RefusedModules \cup ModulesWithoutMain
=============================================================================
