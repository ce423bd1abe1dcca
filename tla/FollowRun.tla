------------------------------ MODULE FollowRun ------------------------------
(***************************************************************************)
(* The exploration follows every run of the program.  One run is fixed     *)
(* beforehand by its inputs; the analysis does not see them.               *)
(***************************************************************************)
EXTENDS VerificationLoop

CONSTANT Terminates   \* the programs all of whose runs end

VARIABLE input   \* the truth value behind every unknown ValueId

FInit == Init /\ input \in Inputs
FNext == Next /\ UNCHANGED input
FSpec == FInit /\ [][FNext]_<<vars, input>>
FFairSpec == FSpec /\ WF_<<vars, input>>(FNext)

Leaf == pool[CHOOSE id \in Reached(input) : TRUE]

\* The names of the functions; globals gives no other operand their ValueIds.
FunctionNames == {f \in DOMAIN globalMapping : globalMapping[f] \in DOMAIN funcMapping}
NameOf(v) == CHOOSE f \in FunctionNames : globalMapping[f] = v

Concrete(v) ==
    CASE v \in DOMAIN funcMapping -> NameOf(v)
      [] v = 0 -> "false"
      [] v = 1 -> "true"
      [] OTHER -> IF input[v] THEN "true" ELSE "false"
Registers(locals) == [r \in DOMAIN locals |-> Concrete(locals[r])]

Frames(stack) ==
    [i \in DOMAIN stack |-> [regs    |-> Registers(stack[i].locals),
                             target  |-> stack[i].target,
                             retNode |-> stack[i].retNode]]

Environment ==
    [g \in DOMAIN globalMapping \cap {"argc", "string"} |-> Concrete(globalMapping[g])]

\* What the run is in while the analysis is in its state.
RunProgram ==
    [entry |-> program.entry, code |-> program.code,
     functions |-> [f \in FunctionNames |-> funcMapping[globalMapping[f]]]]
LeafRegs == Registers(Leaf.locals)
LeafFrames == Frames(Leaf.stack)
LeafResult == IF Leaf.new THEN "running" ELSE "stopped"

Run == INSTANCE ConcreteProgram WITH
    program <- RunProgram,
    env     <- Environment,
    pc      <- Leaf.node,
    regs    <- LeafRegs,
    frames  <- LeafFrames,
    result  <- LeafResult

\* On every run of the program, the path that stands for it makes the steps
\* of the run in their order: branches go the way the values say, calls bind
\* the argument, returns restore the caller's registers, and the path ends
\* with an error just where the run does.
FollowsRun == Run!Spec

\* The path that stands for a run never stops before the run does, although
\* all other paths wait on one worklist with it: as long as the run can go
\* on, the path is gone on with.  Only for programs all of whose runs end:
\* depth first, the sibling of an endless path waits for ever.
FollowsToTheEnd == program \in Terminates => Run!GoesOn
=============================================================================
