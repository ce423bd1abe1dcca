----------------------------- MODULE WholeAnalysis -----------------------------
(***************************************************************************)
(* Verify in main.cpp: the frontend (CfgBuilder) parses an LLVM module,    *)
(* the first state is created at its entry point, and the engine           *)
(* (VerificationLoop) explores what the frontend has built: its nodes, its *)
(* global mapping, its functions.  The two share the counter of ValueIds.  *)
(*                                                                         *)
(* The module also says how the program really runs (ConcreteProgram), in  *)
(* terms of its own blocks and names, and the analysis is shown to follow  *)
(* these runs.                                                             *)
(***************************************************************************)
EXTENDS FollowRun

CONSTANT Modules   \* the LLVM modules to be analysed

VARIABLES module, nodes, copyMapping, parseAndLinkTogether, parsed, entryPointCfg,
          constantValuesToBeCreated, mapper, fmap, threw

Frontend == INSTANCE CfgBuilder

\* Of the casts, the modules have those that keep the value.
ASSUME WholeAssumption ==
    \A m \in Modules :
        /\ Frontend!IsModule(m)
        /\ \A f \in DOMAIN m.functions : m.functions[f].name # "undefined"
        /\ \A b \in DOMAIN m.code : \A i \in DOMAIN m.code[b] :
              m.code[b][i].opcode \in Casts => m.code[b][i].opcode \in {"zext", "bitcast"}

engineVars == <<program, pool, worklist, localStates, crashed, input>>
frontendVars == <<module, nodes, copyMapping, parseAndLinkTogether, parsed, entryPointCfg,
                  constantValuesToBeCreated, mapper, fmap, threw>>
wholeVars == <<engineVars, frontendVars, nextVal>>

Started == pool # <<>>

WInit ==
    /\ Frontend!Init
    /\ program = <<>>
    /\ pool = <<>> /\ worklist = <<>> /\ localStates = <<>>
    /\ crashed = FALSE
    /\ input = <<>>

Parse == ~Started /\ Frontend!Next /\ UNCHANGED engineVars

\* The instruction of a node: an instruction of a block or its terminator, with
\* the next nodes.
InstrAt(b, i) ==
    CASE b = 0 -> Frontend!EntryCode(IF "argc" \in DOMAIN mapper THEN "argc" ELSE "none")[i]
      [] b # 0 /\ i <= Len(module.code[b]) -> module.code[b][i]
      [] OTHER -> module.term[b]
WithNext(instr, links) ==
    [x \in DOMAIN instr \cup DOMAIN links |-> IF x \in DOMAIN instr THEN instr[x] ELSE links[x]]
NodeInstr(node) ==
    WithNext(InstrAt(node.instr[1], node.instr[2]), [next |-> node.next, nextFalse |-> node.nextFalse])

ParsedProgram ==
    [entry |-> entryPointCfg,
     code |-> [n \in {m \in DOMAIN nodes : nodes[m].instr # <<>>} |-> NodeInstr(nodes[n])],
     globals |-> mapper, functions |-> fmap, nextVal |-> nextVal]

\* The state's constructor takes the container, the mapper and the functions
\* as the frontend leaves them.  The inputs of a run are fixed here, unseen.
CreateFirstState ==
    /\ ~Started
    /\ Frontend!Done /\ nextVal <= MaxVal
    /\ program' = ParsedProgram
    /\ pool' = << FirstState(entryPointCfg) >>
    /\ worklist' = <<1>>
    /\ localStates' = [n \in DOMAIN program'.code |-> IF n = entryPointCfg THEN <<1>> ELSE <<>>]
    /\ input' \in Inputs'
    /\ UNCHANGED <<nextVal, crashed, frontendVars>>

Explore ==
    /\ Started
    /\ FNext
    /\ UNCHANGED frontendVars

WNext == Parse \/ CreateFirstState \/ Explore

\* One thread does all the work.
WSpec == WInit /\ [][WNext]_wholeVars /\ WF_wholeVars(WNext)

-----------------------------------------------------------------------------
(* How the module runs.  A place in it is <<block, index>>, with block 0   *)
(* for the prepended __entry; terminators that the frontend drops cannot   *)
(* be executed.                                                            *)

Length(b) == IF b = 0 THEN 2 ELSE Frontend!Count(b)
Places == UNION {{b} \X (1 .. Length(b)) : b \in {0} \cup DOMAIN module.term}

Following(b, i) ==
    IF b = 0 \/ i <= Len(module.code[b]) THEN [next |-> <<b, i + 1>>]
    ELSE LET succ == module.term[b].succ
         IN  CASE Len(succ) = 0 -> <<>>
               [] Len(succ) = 1 -> [next |-> <<succ[1], 1>>]
               [] Len(succ) = 2 -> [next |-> <<succ[1], 1>>, nextFalse |-> <<succ[2], 1>>]

ModuleProgram ==
    [entry |-> <<0, 1>>,
     code |-> [place \in Places |->
                  WithNext(InstrAt(place[1], place[2]), Following(place[1], place[2]))],
     functions |->
        [f \in {module.functions[n].name : n \in DOMAIN module.functions} |->
            LET func == CHOOSE x \in ToSet(module.functions) : x.name = f
            IN  [param |-> func.param, cfg |-> <<func.entry, 1>>]]]

\* The place of a node.  A terminal node is one place behind the last node of
\* its block, which starts after the node before it.
Place(n) ==
    IF nodes[n].instr # <<>> THEN nodes[n].instr
    ELSE LET first == nodes[n - 1].next
             b == IF first = entryPointCfg THEN 0
                  ELSE CHOOSE x \in DOMAIN copyMapping : copyMapping[x] = first
         IN  <<b, Length(b) + 1>>

\* The path that stands for the run, in the module's terms; before the first
\* state is created, the run has not begun.
Here == IF Started THEN Leaf ELSE [FirstState(0) EXCEPT !.new = FALSE]
ModuleEnv == IF Started THEN Environment ELSE <<>>
ModulePc == IF Started THEN Place(Leaf.node) ELSE <<0, 1>>
ModuleRegs == Registers(Here.locals)
ModuleFrames ==
    [i \in DOMAIN Here.stack |->
        [regs |-> Registers(Here.stack[i].locals), target |-> Here.stack[i].target,
         retNode |-> Place(Here.stack[i].retNode)]]
ModuleResult == IF Here.new THEN "running" ELSE "stopped"

ModuleRun == INSTANCE ConcreteProgram WITH
    program <- ModuleProgram,
    env     <- ModuleEnv,
    pc      <- ModulePc,
    regs    <- ModuleRegs,
    frames  <- ModuleFrames,
    result  <- ModuleResult

-----------------------------------------------------------------------------
(* Properties.                                                             *)

\* The frontend hands over what the engine relies on: an entry that calls main
\* and then ends, an id of its own for each function, an id for every constant
\* that some instruction uses, in whichever block and order they were met.
HandsOverWellFormed == Started => WellFormed(program)

\* Whatever node the engine comes to, each operand of its instruction has a
\* value: constants got theirs from the frontend, in whichever block and order
\* they were met, the others were assigned on the way in this function, or
\* bound by the call (GetOperArgsForInstr, DealWithConstants; GetValue would
\* throw out_of_range, which nobody catches).
OperandsHaveValues ==
    Iterates /\ Current.new /\ ~AtTerminal(Current) /\ Instr.arg # "none"
        => HasValue(Current, Instr.arg)

\* From the first state on, the path that stands for a run of the program does
\* what the LLVM module says, block by block: all that the frontend made of
\* branches, loops, functions, constants and calls through pointers keeps its
\* meaning in the engine.
FollowsModule ==
    [][IF Started THEN ModuleRun!Next \/ UNCHANGED ModuleRun!run
       ELSE Started' => ModuleRun!Init']_wholeVars

\* A module that the frontend accepts and all of whose runs end is analysed to
\* the end of each of its runs.
AnalysesToTheEnd == module \in Terminates => ModuleRun!GoesOn
===============================================================================
