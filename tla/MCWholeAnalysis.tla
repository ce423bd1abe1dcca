---------------------------- MODULE MCWholeAnalysis ----------------------------
(***************************************************************************)
(* Modules with a function main of up to four blocks, a function f and     *)
(* sometimes a declared function g.                                        *)
(***************************************************************************)
EXTENDS WholeAnalysis

I(opcode, arg, target) == [opcode |-> opcode, arg |-> arg, target |-> target]
CallOf(callee, arg, target) ==
    [opcode |-> "call", callee |-> callee, arg |-> arg, target |-> target]
Unknown(target) == CallOf("__ANGIE_CREATE_UNKNOWN_", "none", target)
Return(arg) == [opcode |-> "ret", arg |-> arg, succ |-> <<>>]
Goto(b) == [opcode |-> "br", arg |-> "none", succ |-> <<b>>]
If(reg, t, f) == [opcode |-> "br", arg |-> reg, succ |-> <<t, f>>]
Switch == [opcode |-> "switch", arg |-> "none", succ |-> <<>>]

Main(param) == [name |-> "main", param |-> param, entry |-> 1]
F == [name |-> "f", param |-> "q", entry |-> 5]

\* Two instructions of main that make a value b of a value a, with constants
\* of every kind and calls, direct and through a pointer.
Computing ==
    { << I("zext", "true", "b"), I("bitcast", "null", "c") >>,
      << CallOf("f", "a", "b") >>,
      << I("bitcast", "f", "p"), CallOf("p", "a", "b") >>,
      << CallOf("f", "string", "b"), CallOf("f", "string", "d") >> }

\* Those that are refused, by the frontend or by the engine
Refused ==
    { << I("zext", "global", "b") >>, << I("zext", "undef", "b") >>, << I("zext", "g", "b") >>,
      << CallOf("llvm.other", "none", "b") >>, << I("fcmp", "a", "b") >>,
      << CallOf("g", "a", "b") >>, << CallOf("a", "a", "b") >>, << I("select", "a", "b") >> }

\* f returns its argument, or a constant instead of it; it comes after main, or
\* before it.
Functions == { [order |-> <<Main("m"), F>>, ends |-> <<Return("q"), Return("none")>>],
               [order |-> <<F, Main("m")>>, ends |-> <<If("q", 6, 7), Return("true")>>] }

ModuleOf(functions, instrs, term1, term2, term3, fend) ==
    [functions |-> functions, declared |-> {"g"},
     code |-> [b \in 1 .. 7 |->
        CASE b = 1 -> << Unknown("a") >> \o instrs
          [] b = 2 -> << CallOf("llvm.dbg", "none", "none") >>
          [] b = 4 -> << CallOf("abort", "none", "none") >>
          [] OTHER -> <<>>],
     term |-> [b \in 1 .. 7 |->
        CASE b = 1 -> term1 [] b = 2 -> term2 [] b = 3 -> term3
          [] b = 5 -> fend[1] [] b = 6 -> fend[2] [] b = 7 -> Return("false")
          [] OTHER -> Return("none")]]

\* No cycle of blocks and no recursion: all runs end.
EndingModules ==
    {ModuleOf(f.order, c, t1, t2, t3, f.ends) :
        f \in Functions, c \in Computing,
        t1 \in {If("b", 2, 3), If("a", 3, 2), If("m", 2, 4), If("true", 3, 4)},
        t2 \in {Goto(3), If("a", 4, 3)}, t3 \in {Return("b"), Switch}}

RefusedModules ==
    {ModuleOf(<<Main("none"), F>>, c, t1, Goto(3), Return("false"), <<Return("q"), Return("none")>>) :
        c \in Refused, t1 \in {If("a", 3, 4), Goto(3)}}

\* while (b) if (argc) abort(); and a module without main
OtherModules ==
    {ModuleOf(f.order, << CallOf("f", "a", "b") >>, Goto(2), t2, Goto(2), f.ends) :
        t2 \in {If("b", 3, 4), If("m", 2, 3)}, f \in Functions}
    \cup {ModuleOf(<<F>>, <<>>, Return("none"), Goto(2), Goto(2), <<Return("q"), Return("none")>>)}

AnyModule == EndingModules \cup RefusedModules \cup OtherModules
===============================================================================
