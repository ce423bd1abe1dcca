--------------------------- MODULE VerificationLoop ---------------------------
(***************************************************************************)
(* The exploration engine: the loop of main.cpp, the worklist and the pool *)
(* of StateStorage.hpp, the states of IState.hpp with their call stacks    *)
(* (MemoryGraphAnalysis.hpp), and the operations that create successors    *)
(* (Operation.hpp).                                                        *)
(*                                                                         *)
(* A state is [node, locals, known, stack, pred, gen, new]: the node to be *)
(* executed on it, the register mapping of the running function, what its  *)
(* value container has assumed about unknown values, the suspended calls,  *)
(* the pool index of its predecessor (0 for none), its generation, and     *)
(* whether its status is New.                                              *)
(*                                                                         *)
(* A program is [entry, code, globals, functions, nextVal].  code maps     *)
(* every node but the terminal ones to an LLVM instruction (see            *)
(* Operations); of those that compute only a value, calls that create an   *)
(* unknown value and casts, which keep the value of their operand, are     *)
(* kept.  globals is the global mapping, functions the FuncMapper, and     *)
(* nextVal the first ValueId that the frontend did not give out.           *)
(***************************************************************************)
EXTENDS Integers, Sequences, FiniteSets, SequencesExt, Operations

CONSTANTS
    Programs,   \* the programs to analyse
    MaxVal,     \* bound: ValueIds are 0..MaxVal-1
    MaxStates   \* bound on the number of states created

ASSUME LoopBoundsAssumption == MaxVal \in Nat \ (0 .. 2) /\ MaxStates \in Nat \ {0}

VARIABLES
    program,      \* the program being analysed
    pool,         \* StatesManager::statePool: every state ever inserted
    worklist,     \* StatesManager::worklist: indices into the pool
    localStates,  \* StatesManager::localStates of each node
    nextVal,      \* ValueId::nextIdToGive
    crashed       \* an exception left VerificationLoop

vars == <<program, pool, worklist, localStates, nextVal, crashed>>

\* The ValueIds of constants; Mapper and FuncMapper, which all states share
Constants == {0, 1}
globalMapping == program.globals
funcMapping == program.functions

\* Mapper::LinkToValueId
LinkToValueId(mapping, reg, v) ==
    [r \in DOMAIN mapping \cup {reg} |-> IF r = reg THEN v ELSE mapping[r]]

\* State::GetValue: the global mapping is asked first.
GetValue(s, reg) ==
    IF reg \in DOMAIN globalMapping THEN globalMapping[reg] ELSE s.locals[reg]
HasValue(s, reg) == reg \in DOMAIN globalMapping \cup DOMAIN s.locals

\* State::AssignValue
AssignValue(s, reg, v) == [s EXCEPT !.locals = LinkToValueId(@, reg, v)]

\* ValueContainer: IsTrue, IsFalse, AssumeTrue and AssumeFalse.
IsTrue(s, v)  == v = 1 \/ (v \in DOMAIN s.known /\ s.known[v])
IsFalse(s, v) == v = 0 \/ (v \in DOMAIN s.known /\ ~s.known[v])
Assume(s, v, b) ==
    IF v \in Constants THEN s ELSE [s EXCEPT !.known = LinkToValueId(@, v, b)]

-----------------------------------------------------------------------------
(* Creating and storing states.                                            *)

\* State's constructor and Verify: the first state.
FirstState(node) ==
    [node |-> node, locals |-> <<>>, known |-> <<>>, stack |-> <<>>,
     pred |-> 0, gen |-> 0, new |-> TRUE]

\* State's clone constructor: everything is copied but the status.
CreateSuccessor(id, node) ==
    [pool[id] EXCEPT !.node = node, !.pred = id, !.gen = @ + 1, !.new = TRUE]

Init ==
    /\ program \in Programs
    /\ pool = << FirstState(program.entry) >>
    /\ worklist = <<1>>
    /\ localStates = [n \in DOMAIN program.code |-> IF n = program.entry THEN <<1>> ELSE <<>>]
    /\ nextVal = program.nextVal
    /\ crashed = FALSE

\* The state that WorklistDequeue returns, and the instruction of its node.
Id      == Head(worklist)
Current == pool[Id]
AtTerminal(s) == s.node \notin DOMAIN program.code
Instr   == program.code[Current.node]

Iterates == worklist # <<>> /\ ~crashed

\* The frontend makes a Noop of an unconditional branch.
Operates(instr) ==
    IF instr.opcode = "br" /\ instr.arg = "none" THEN "Noop" ELSE OperationFor(instr)
Executes(op) == Iterates /\ Current.new /\ ~AtTerminal(Current) /\ Operates(Instr) = op

\* Mutant: the callee is sought among the global names only.
IsKnownFunctionByName ==
    /\ Instr.callee \in DOMAIN globalMapping
    /\ globalMapping[Instr.callee] \in DOMAIN funcMapping
\* The callee is an operand, so a call through a pointer finds the function.
\* The one parameter, if the function has any, stands for all of them.
IsKnownFunction ==
    /\ HasValue(Current, Instr.callee)
    /\ GetValue(Current, Instr.callee) \in DOMAIN funcMapping

\* The operation asks for the value of its operand.
NeedsOperand ==
    \/ Operates(Instr) \in {"Cast", "Br"}
    \/ Operates(Instr) = "Ret" /\ Instr.arg # "none"
    \/ Operates(Instr) = "Call" /\ IsKnownFunction
         /\ funcMapping[GetValue(Current, Instr.callee)].param # "none"
OperandMissing == NeedsOperand /\ ~HasValue(Current, Instr.arg)

\* What the frontend hands over.  ParseModule prepends __entry, which calls
\* main, then terminates the program.
WellFormedEntry(p) ==
    /\ p.entry \in DOMAIN p.code
    /\ LET callMain == p.code[p.entry]
           finish   == p.code[callMain.next]
       IN  /\ Operates(callMain) = "Call"
           /\ callMain.next \in DOMAIN p.code /\ Operates(finish) = "Noop"
           /\ finish.next \notin DOMAIN p.code

\* The global names: the constants that occur as operands (DealWithConstants),
\* the argument of main, and the functions.
ConstantId == [true |-> 1, false |-> 0, null |-> 0]
Unnamed == {"argc", "string"}
FunctionsIn(p) == {f \in DOMAIN p.globals : p.globals[f] \in DOMAIN p.functions}

WellFormedNames(p) ==
    /\ p.nextVal \in 2 .. MaxVal
    /\ \A name \in DOMAIN p.globals : p.globals[name] \in 0 .. p.nextVal - 1
    /\ DOMAIN p.globals \subseteq DOMAIN ConstantId \cup Unnamed \cup FunctionsIn(p)
    /\ \A c \in DOMAIN ConstantId \cap DOMAIN p.globals : p.globals[c] = ConstantId[c]
    /\ \A n \in DOMAIN p.code :
          /\ p.code[n].arg \in DOMAIN ConstantId => p.code[n].arg \in DOMAIN p.globals
          /\ p.code[n].opcode = "call" => p.code[n].callee \notin DOMAIN ConstantId

\* Each function has an id and a name of its own.
WellFormedFunctions(p) ==
    /\ DOMAIN p.functions \subseteq 2 .. p.nextVal - 1
    /\ \A v \in DOMAIN p.functions : \E f \in FunctionsIn(p) : p.globals[f] = v
    /\ \A f, g \in FunctionsIn(p) : p.globals[f] = p.globals[g] => f = g
    /\ FunctionsIn(p) \cap (DOMAIN ConstantId \cup Unnamed \cup {"undefined"}) = {}

WellFormed(p) ==
    /\ WellFormedEntry(p) /\ WellFormedNames(p) /\ WellFormedFunctions(p)
    \* of the casts, the programs keep those that keep the value
    /\ \A n \in DOMAIN p.code :
          Operates(p.code[n]) = "Cast" => p.code[n].opcode \in {"zext", "bitcast"}

ASSUME ProgramsAssumption == \A p \in Programs : WellFormed(p)

\* SetExplored, then InsertAndEnqueue for each successor in turn, all of them
\* with the manager of the executed node.  The last inserted comes first.
SetExplored(states, id) == [states EXCEPT ![id].new = FALSE]
\* Mutant: push_back instead of push_front.
InsertAndEnqueueLast(successors) ==
    LET ids == [i \in DOMAIN successors |-> Len(pool) + i]
    IN  /\ Len(pool) + Len(successors) <= MaxStates
        /\ pool' = SetExplored(pool, Id) \o successors
        /\ worklist' = Tail(worklist) \o ids
        /\ localStates' = [localStates EXCEPT ![Current.node] = @ \o ids]
        /\ UNCHANGED <<program, crashed>>
\* Mutant: the older sibling is not enqueued.
InsertAndEnqueueNewest(successors) ==
    LET ids == [i \in DOMAIN successors |-> Len(pool) + i]
    IN  /\ Len(pool) + Len(successors) <= MaxStates
        /\ pool' = SetExplored(pool, Id) \o successors
        /\ worklist' = IF ids = <<>> THEN Tail(worklist) ELSE << Last(ids) >> \o Tail(worklist)
        /\ localStates' = [localStates EXCEPT ![Current.node] = @ \o ids]
        /\ UNCHANGED <<program, crashed>>
InsertAndEnqueue(successors) ==
    LET ids == [i \in DOMAIN successors |-> Len(pool) + i]
    IN  /\ Len(pool) + Len(successors) <= MaxStates
        /\ pool' = SetExplored(pool, Id) \o successors
        /\ worklist' = Reverse(ids) \o Tail(worklist)
        /\ localStates' = [localStates EXCEPT ![Current.node] = @ \o ids]
        /\ UNCHANGED <<program, crashed>>

-----------------------------------------------------------------------------
(* The operations.                                                         *)

\* The terminal node executes nothing; its states stay New.
ExecuteTerminal ==
    /\ Iterates /\ Current.new /\ AtTerminal(Current)
    /\ worklist' = Tail(worklist)
    /\ UNCHANGED <<program, pool, localStates, nextVal, crashed>>

Noop ==
    /\ Executes("Noop")
    /\ InsertAndEnqueue(<< CreateSuccessor(Id, Instr.next) >>)
    /\ UNCHANGED nextVal

\* Mutant: the new id is not used up.
CreateUnknownSameId ==
    /\ Executes("CreateUnknownVal")
    /\ nextVal < MaxVal
    /\ InsertAndEnqueue(<< AssignValue(CreateSuccessor(Id, Instr.next),
                                       Instr.target, nextVal) >>)
    /\ UNCHANGED nextVal
CreateUnknown ==
    /\ Executes("CreateUnknownVal")
    /\ nextVal < MaxVal
    /\ InsertAndEnqueue(<< AssignValue(CreateSuccessor(Id, Instr.next),
                                       Instr.target, nextVal) >>)
    /\ nextVal' = nextVal + 1

Cast ==
    /\ Executes("Cast")
    /\ ~OperandMissing
    /\ InsertAndEnqueue(<< AssignValue(CreateSuccessor(Id, Instr.next),
                                       Instr.target, GetValue(Current, Instr.arg)) >>)
    /\ UNCHANGED nextVal

\* Mutant: the state is marked only after the operation, which throws.
AbortUnmarked ==
    /\ Executes("Abort")
    /\ worklist' = Tail(worklist)
    /\ UNCHANGED <<program, pool, localStates, nextVal, crashed>>

\* An AnalysisErrorException is reported; the successor is dropped, and the
\* state stays explored.
Abort ==
    /\ Executes("Abort")
    /\ InsertAndEnqueue(<<>>)
    /\ UNCHANGED nextVal

\* Mutant: nothing is assumed on the false side.
BranchSidesTrueOnly(v) ==
    (IF IsTrue(Current, v) THEN <<>>
     ELSE << CreateSuccessor(Id, Instr.nextFalse) >>)
    \o
    (IF IsFalse(Current, v) THEN <<>>
     ELSE << Assume(CreateSuccessor(Id, Instr.next), v, TRUE) >>)

\* Each side is left out when the container refutes it (BranchException).
BranchSides(v) ==
    (IF IsTrue(Current, v) THEN <<>>
     ELSE << Assume(CreateSuccessor(Id, Instr.nextFalse), v, FALSE) >>)
    \o
    (IF IsFalse(Current, v) THEN <<>>
     ELSE << Assume(CreateSuccessor(Id, Instr.next), v, TRUE) >>)

Branch ==
    /\ Executes("Br")
    /\ ~OperandMissing
    /\ InsertAndEnqueue(BranchSides(GetValue(Current, Instr.arg)))
    /\ UNCHANGED nextVal

\* StackPush: the caller's mapping moves to the stack with the register and
\* the node to return to; the callee starts with its parameter alone.
StackPush(s, target, retNode) ==
    [s EXCEPT !.stack = Append(@, [locals |-> s.locals, target |-> target,
                                   retNode |-> retNode]),
              !.locals = <<>>]

Call ==
    /\ Executes("Call")
    /\ IsKnownFunction
    /\ ~OperandMissing
    /\ LET func == funcMapping[GetValue(Current, Instr.callee)]
           callee == StackPush(CreateSuccessor(Id, func.cfg), Instr.target, Instr.next)
       IN  InsertAndEnqueue(<< IF func.param = "none" THEN callee
                               ELSE AssignValue(callee, func.param,
                                                GetValue(Current, Instr.arg)) >>)
    /\ UNCHANGED nextVal

\* Mutant: the callee's mapping stays in place.
StackPopCallee(s, arg) ==
    LET frame == Last(s.stack)
        caller == [s EXCEPT !.stack = Front(@)]
    IN  IF arg = "none" THEN caller
        ELSE AssignValue(caller, frame.target, GetValue(s, arg))

\* StackPop, with and without a returned value
StackPop(s, arg) ==
    LET frame == Last(s.stack)
        caller == [s EXCEPT !.stack = Front(@), !.locals = frame.locals]
    IN  IF arg = "none" THEN caller
        ELSE AssignValue(caller, frame.target, GetValue(s, arg))

Ret ==
    /\ Executes("Ret")
    /\ ~OperandMissing
    /\ InsertAndEnqueue(<< StackPop(CreateSuccessor(Id, Last(Current.stack).retNode),
                                    Instr.arg) >>)
    /\ UNCHANGED nextVal

\* A NotSupportedException, of an instruction or of a call to a function that
\* has no body, and the out_of_range of a call of a value that is no function
\* are caught by nobody: the whole analysis stops.
Crash ==
    /\ \/ Executes("NotSupportedInstr")
       \/ Executes("Call") /\ ~IsKnownFunction
    /\ crashed' = TRUE
    /\ worklist' = Tail(worklist)
    /\ UNCHANGED <<program, pool, localStates, nextVal>>

\* So does the out_of_range of an operand without a value, when the state is
\* already marked.
CrashOnOperand ==
    /\ Iterates /\ Current.new /\ ~AtTerminal(Current)
    /\ OperandMissing
    /\ crashed' = TRUE
    /\ pool' = SetExplored(pool, Id)
    /\ worklist' = Tail(worklist)
    /\ UNCHANGED <<program, localStates, nextVal>>

Next ==
    \/ ExecuteTerminal \/ Noop \/ CreateUnknown \/ Cast \/ Abort
    \/ Branch \/ Call \/ Ret \/ Crash \/ CrashOnOperand

Spec == Init /\ [][Next]_vars

\* The loop is sequential code: it goes on while there is work.
FairSpec == Spec /\ WF_vars(Next)

-----------------------------------------------------------------------------
(* Properties.                                                             *)

Ids == DOMAIN pool

\* Type invariant.  Predecessors are created, and explored, before their
\* successors.
TypeOK ==
    /\ worklist \in Seq(Ids)
    /\ \A id \in Ids :
          /\ pool[id].pred \in 0 .. id - 1
          /\ pool[id].pred # 0 => ~pool[pool[id].pred].new
          /\ \A r \in DOMAIN pool[id].locals : pool[id].locals[r] \in 0 .. nextVal - 1
          /\ DOMAIN pool[id].known \subseteq 2 .. nextVal - 1
    /\ nextVal \in program.nextVal .. MaxVal
    /\ crashed \in BOOLEAN

\* No state is lost and none is processed twice, whichever of its exits the
\* loop body took (SafelyExecuteAndEnque's catch blocks, Operation.hpp:41):
\* the states that wait are New, once each, and a New state that does not
\* wait has reached the end of the program.
NothingLost ==
    /\ IsInjective(worklist)
    /\ \A id \in ToSet(worklist) : pool[id].new
    /\ ~crashed => \A id \in Ids :
          pool[id].new => id \in ToSet(worklist) \/ AtTerminal(pool[id])

\* The states on the path to a state, itself included.
Path[id \in 0 .. Len(pool)] ==
    IF id = 0 THEN {} ELSE {id} \cup Path[pool[id].pred]

\* "now DFS" (StateStorage.hpp:71): every state that waits is a sibling the
\* current path has left behind, so the worklist is never longer than the
\* number of branches on the path.
DepthFirst ==
    \A i, j \in DOMAIN worklist :
        i < j => pool[worklist[j]].pred \in Path[worklist[i]]

-----------------------------------------------------------------------------
(* The runs of the program that a state stands for.                        *)

\* A run is given by the truth values of all values that are not constants;
\* the address of a function is never null.
Inputs == {f \in [2 .. MaxVal - 1 -> BOOLEAN] :
               \A v \in DOMAIN f : v \in DOMAIN funcMapping => f[v]}
Consistent(s, input) == \A v \in DOMAIN s.known : s.known[v] = input[v]

\* The state the analysis has reached on that run.
Reached(input) ==
    {id \in Ids : /\ Consistent(pool[id], input)
                  /\ \A t \in Ids : pool[t].pred = id => ~Consistent(pool[t], input)}

\* Branching splits the runs: however many branches, calls and errors lie
\* behind, each run is followed by exactly one path, so no error is missed
\* and none is reported twice (OperationBranch::Execute, BasicOperationBranch).
OnePathPerRun == \A input \in Inputs : Cardinality(Reached(input)) = 1
=============================================================================
