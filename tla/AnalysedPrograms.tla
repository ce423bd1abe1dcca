--------------------------- MODULE AnalysedPrograms ---------------------------
(***************************************************************************)
(* Programs for checking VerificationLoop and FollowRun.                   *)
(*                                                                         *)
(* Nodes 1 to 3 are what ParseModule prepends: __entry calls main, then    *)
(* the terminating node; 3 has no instruction.  main starts at 4, a        *)
(* function f that calls itself once at 10.                                *)
(***************************************************************************)
EXTENDS TLC

Instruction(opcode, arg, target, next) ==
    [opcode |-> opcode, arg |-> arg, target |-> target, next |-> next]
If(reg, t, f) == [opcode |-> "br", arg |-> reg, next |-> t, nextFalse |-> f]
Goto(next) == Instruction("br", "none", "none", next)
Return(reg) == Instruction("ret", reg, "none", 3)
Copy(reg, target, next) == Instruction("zext", reg, target, next)
CallTo(callee, reg, target, next) ==
    [opcode |-> "call", callee |-> callee, arg |-> reg, target |-> target, next |-> next]
Unknown(target, next) == CallTo("__ANGIE_CREATE_UNKNOWN_", "none", target, next)

Framework == 1 :> CallTo("main", "argc", "none", 2) @@ 2 :> CallTo("__ANGIE_fin", "none", "none", 3)
    @@ 8 :> Return("none") @@ 9 :> CallTo("abort", "none", "none", 8)
    @@ 10 :> If("q", 11, 12) @@ 11 :> CallTo("f", "false", "r", 12)
    @@ 12 :> Return("q")

Globals == "false" :> 0 @@ "true" :> 1 @@ "main" :> 2 @@ "f" :> 3 @@ "argc" :> 4
Functions == 2 :> [param |-> "m", cfg |-> 4] @@ 3 :> [param |-> "q", cfg |-> 10]

ProgramOf(code) == [entry |-> 1, code |-> code @@ Framework,
                    globals |-> Globals, functions |-> Functions, nextVal |-> 5]

\* main computes b from an unknown a, then takes up to two branches on a, b
\* and its argument, in every arrangement of a return and an abort.
Computing == {Unknown("b", 6), Copy("a", "b", 6),
              CallTo("f", "a", "b", 6), CallTo("f", "true", "b", 6)}
Ending == {CallTo("exit", "none", "b", 6)}
Crashing == {Instruction("select", "a", "b", 6), CallTo("g", "a", "b", 6),
             CallTo("a", "a", "b", 6)}

Branching(instrs) ==
    {ProgramOf(4 :> Unknown("a", 5) @@ 5 :> x
               @@ 6 :> If(r, t[1], t[2]) @@ 7 :> If(q, u[1], u[2])) :
        x \in instrs, r \in {"a", "b", "m"}, q \in {"a", "b", "m"},
        t \in {<<7, 8>>, <<8, 7>>, <<7, 9>>, <<9, 7>>}, u \in {<<8, 9>>, <<9, 8>>}}

\* p = f; b = p(a);
IndirectCall ==
    ProgramOf(4 :> Unknown("a", 5) @@ 5 :> Copy("f", "p", 6)
              @@ 6 :> CallTo("p", "a", "b", 7) @@ 7 :> If("b", 8, 9))

\* for (b = true; b; b = false) if (a) abort();
BoundedLoop ==
    ProgramOf(4 :> Unknown("a", 5) @@ 5 :> Copy("true", "b", 6)
              @@ 6 :> If("b", 7, 8) @@ 7 :> If("a", 9, 13)
              @@ 13 :> CallTo("llvm.dbg", "none", "none", 14)
              @@ 14 :> Copy("false", "b", 15) @@ 15 :> Goto(6))

\* while (unknown()) if (!argc) unsupported();
EndlessLoop ==
    ProgramOf(4 :> Unknown("a", 5) @@ 5 :> If("a", 6, 8)
              @@ 6 :> If("m", 4, 7) @@ 7 :> Instruction("select", "a", "b", 4))

\* void v() {}  and, with another type for it,  b = v(); if (b)
UseOfNoResult ==
    [ProgramOf(4 :> Unknown("a", 5) @@ 5 :> CallTo("v", "a", "b", 6)
               @@ 6 :> If("b", 8, 9) @@ 16 :> Return("none"))
     EXCEPT !.globals = @ @@ "v" :> 5,
            !.functions = @ @@ 5 :> [param |-> "none", cfg |-> 16],
            !.nextVal = 6]

Terminating == Branching(Computing \cup Ending) \cup {BoundedLoop, IndirectCall}
AnyProgram == Terminating \cup Branching(Crashing) \cup {EndlessLoop, UseOfNoResult}
=============================================================================
