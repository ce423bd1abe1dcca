------------------------------ MODULE CfgBuilder ------------------------------
(***************************************************************************)
(* The frontend (LlvmFrontend.cpp): basic blocks become chains of nodes,   *)
(* linked by their terminators.  A block that has not been parsed when a   *)
(* branch to it is met is planned, and the branch linked when the queue of *)
(* plans is worked off.  Functions get ValueIds when they are parsed, the  *)
(* constants that are operands of instructions when all blocks are.        *)
(*                                                                         *)
(* An LLVM module is [functions, declared, code, term]: the functions with *)
(* a body, [name, param, entry]; the names of those without; for each      *)
(* block its instructions, [opcode, arg, target] or with a callee, and its *)
(* terminator, [opcode, arg, succ]; succ are the target blocks of a br.    *)
(* Instructions have one operand beside the callee, or "none".             *)
(*                                                                         *)
(* A node is [instr, next, nextFalse]; instr is <<b, i>> for the i-th      *)
(* instruction of block b and <<>> for none; the pointer that is nullptr   *)
(* is 0.  The lists of previous nodes are left out: nothing reads them.    *)
(***************************************************************************)
EXTENDS Integers, Sequences, FiniteSets, SequencesExt, Selection

CONSTANT Modules   \* the LLVM modules to be parsed

\* The constants that have a ValueId before the module is parsed.
KnownConstants == [false |-> 0, true |-> 1, null |-> 0]

\* What LLVM guarantees.  A branch ends a block; it has one target, or two and
\* a condition, and none of them is the entry block of a function.  A block is
\* in one function.
IsInstruction(r) ==
    /\ DOMAIN r = {"opcode", "arg", "target"} \cup IF r.opcode = "call" THEN {"callee"} ELSE {}
    /\ r.opcode \notin {"br", "ret"}
    /\ r.opcode = "call" => r.callee \notin DOMAIN KnownConstants
IsTerminator(t, blocks) ==
    /\ DOMAIN t = {"opcode", "arg", "succ"}
    /\ t.succ \in Seq(blocks)
    /\ Len(t.succ) = IF t.opcode # "br" THEN 0 ELSE IF t.arg = "none" THEN 1 ELSE 2

\* Functions have names of their own, in the set of names that stands for
\* operands of all kinds.
IsModule(m) ==
    LET blocks == DOMAIN m.term
        func   == m.functions
    IN  /\ 0 \notin blocks /\ DOMAIN m.code = blocks
        /\ \A b \in blocks :
              /\ m.code[b] \in Seq(ToSet(m.code[b]))
              /\ \A i \in DOMAIN m.code[b] : IsInstruction(m.code[b][i])
              /\ IsTerminator(m.term[b], blocks)
        /\ func \in Seq(ToSet(func))
        /\ \A f \in DOMAIN func :
              /\ func[f].entry \in blocks
              /\ func[f].name \notin DOMAIN KnownConstants \cup {"string", "argc", "none"}
              /\ \A b \in blocks : func[f].entry \notin ToSet(m.term[b].succ)
              /\ \A g \in DOMAIN func :
                    func[f].entry = func[g].entry \/ func[f].name = func[g].name => f = g

ASSUME ModulesAssumption == \A m \in Modules : IsModule(m)

VARIABLES
    module,
    nodes,                 \* every node created; a pointer is an index
    copyMapping,           \* block -> first node, for the blocks parsed
    parseAndLinkTogether,  \* queue of [block, node, index]
    parsed,                \* number of functions whose entry block is parsed
    entryPointCfg,
    constantValuesToBeCreated, \* the operands that are constants, in order
    mapper,                \* the global mapping: operand -> ValueId
    fmap,                  \* ValueId -> [param, cfg]
    nextVal,               \* ValueId::nextIdToGive
    threw                  \* the exception that left ParseModule, or "none"

graphVars == <<nodes, copyMapping, parseAndLinkTogether, parsed, entryPointCfg>>
valueVars == <<mapper, fmap, nextVal>>
vars == <<module, graphVars, constantValuesToBeCreated, valueVars, threw>>

NULL == 0

StartNode(next)  == [instr |-> <<>>, next |-> next, nextFalse |-> NULL]
TerminalNode     == [instr |-> <<>>, next |-> NULL, nextFalse |-> NULL]

Blocks   == DOMAIN module.term
Succ(b)  == module.term[b].succ
IsMapped(b) == b \in DOMAIN copyMapping

-----------------------------------------------------------------------------
(* ParseBasicBlock.                                                        *)

\* The instructions of a block that get a node; a terminator other than br
\* and ret gets none.
Count(b) == Len(module.code[b]) + IF module.term[b].opcode \in {"br", "ret"} THEN 1 ELSE 0

\* GetOperArgsForInstr: the operands of all its instructions that are
\* constants.  The target of a direct call is not among them.
FunctionNames == module.declared \cup {module.functions[f].name : f \in DOMAIN module.functions}
ConstantOperands ==
    DOMAIN KnownConstants \cup {"string", "global", "undef"} \cup FunctionNames
Operands(b) == [i \in DOMAIN module.code[b] |-> module.code[b][i].arg]
\* Mutant: the operand of the terminator is forgotten.
ConstantsOfBody(b) == SelectIn(Operands(b), ConstantOperands)
ConstantsOf(b) == SelectIn(Operands(b) \o << module.term[b].arg >>, ConstantOperands)

\* What is thrown for the instructions of a block that the frontend cannot
\* translate: a floating-point comparison (GetOperArgsForInstr), an intrinsic
\* function without an operation (GetOperationFor).
Refusal(instr) ==
    CASE instr.opcode = "fcmp" -> "NotImplementedException"
      [] instr.opcode = "call" /\ instr.callee = "llvm.other" -> "NotSupportedException"
      [] OTHER -> "none"
Refusals(b) ==
    SelectIn([i \in DOMAIN module.code[b] |-> Refusal(module.code[b][i])],
             {"NotImplementedException", "NotSupportedException"})
CannotTranslate(b) == Refusals(b) # <<>>

\* Where the nodes of a block come to lie: CreateEmpty's two nodes, one per
\* instruction, and the terminal node a conditional branch gets for its false
\* side (InsertNewBranchAfter).
StartId     == Len(nodes) + 1
TerminalId  == Len(nodes) + 2
NodeId(i)   == Len(nodes) + 2 + i
\* Mutant: an empty block is taken to start at an instruction.
FirstNodeAlways(b) == NodeId(1)
FirstNode(b) == IF Count(b) = 0 THEN TerminalId ELSE NodeId(1)
LastNode(b)  == NodeId(Count(b))

\* LinkWithOrPlanProcessing: a branch to a parsed block is linked at once, to
\* any other it stays on the terminal node and is planned.
SuccessorNode(b, index, terminal) ==
    IF index \in DOMAIN Succ(b) /\ IsMapped(Succ(b)[index])
    THEN copyMapping[Succ(b)[index]] ELSE terminal

PlanSide(b, index) ==
    IF index \in DOMAIN Succ(b) /\ ~IsMapped(Succ(b)[index])
    THEN << [block |-> Succ(b)[index], node |-> LastNode(b), index |-> index] >> ELSE <<>>
\* Mutant: only the true side of a branch is planned.
PlansTrueOnly(b) == PlanSide(b, 1)
Plans(b) == PlanSide(b, 1) \o PlanSide(b, 2)

NodesOf(b) ==
    << StartNode(FirstNode(b)), TerminalNode >>
    \o [i \in 1 .. Count(b) |->
           [instr |-> <<b, i>>,
            next |-> IF i < Count(b) THEN NodeId(i + 1)
                     ELSE SuccessorNode(b, 1, TerminalId),
            nextFalse |-> IF i = Count(b) /\ Len(Succ(b)) = 2
                          THEN SuccessorNode(b, 2, LastNode(b) + 1) ELSE NULL]]
    \o IF Len(Succ(b)) = 2 THEN << TerminalNode >> ELSE <<>>

Map(b, node) ==
    [x \in DOMAIN copyMapping \cup {b} |-> IF x = b THEN node ELSE copyMapping[x]]

\* LinkTogetherTrue (index 1) and LinkTogetherFalse (index 2)
CanLink(graph, prev, index) ==
    graph[IF index = 1 THEN graph[prev].next ELSE graph[prev].nextFalse].next = NULL
\* Mutant: the false side overwrites the true one.
LinkTogetherTrueOnly(graph, prev, next, index) == [graph EXCEPT ![prev].next = next]
LinkTogether(graph, prev, next, index) ==
    IF index = 1 THEN [graph EXCEPT ![prev].next = next]
    ELSE [graph EXCEPT ![prev].nextFalse = next]

\* The outcome of a plan on a graph in which its block starts at `start`.
LinkPlan(graph, plan, start) ==
    IF CanLink(graph, plan.node, plan.index)
    THEN nodes' = LinkTogether(graph, plan.node, start, plan.index) /\ UNCHANGED threw
    ELSE nodes' = graph /\ threw' = "runtime_error"

-----------------------------------------------------------------------------
(* ParseModule.  An exception ends it, and the program.                    *)

Init ==
    /\ module \in Modules
    /\ nodes = <<>>
    /\ copyMapping = <<>>
    /\ parseAndLinkTogether = <<>>
    /\ parsed = 0
    /\ entryPointCfg = NULL
    /\ constantValuesToBeCreated = <<>>
    /\ mapper = <<>>
    /\ fmap = <<>>
    /\ nextVal = 2
    /\ threw = "none"

Parses == threw = "none"
Throw(exception) ==
    /\ threw' = exception
    /\ UNCHANGED <<module, graphVars, constantValuesToBeCreated, valueVars>>

\* Mapper::LinkToValueId
LinkToValueId(operand, id) ==
    [x \in DOMAIN mapper \cup {operand} |-> IF x = operand THEN id ELSE mapper[x]]

\* A function: its entry block, to which no branch leads, so that it has not
\* been parsed yet; then its ValueId and its handle.
Function == module.functions[parsed + 1]
ParseFunction ==
    /\ Parses
    /\ parsed < Len(module.functions)
    /\ LET b == Function.entry
       IN  IF CannotTranslate(b) THEN Throw(Head(Refusals(b)))
           ELSE /\ nodes' = nodes \o NodesOf(b)
                /\ copyMapping' = Map(b, FirstNode(b))
                /\ parseAndLinkTogether' = parseAndLinkTogether \o Plans(b)
                /\ constantValuesToBeCreated' = constantValuesToBeCreated \o ConstantsOf(b)
                /\ mapper' = LinkToValueId(Function.name, nextVal)
                /\ fmap' = [v \in DOMAIN fmap \cup {nextVal} |->
                               IF v \in DOMAIN fmap THEN fmap[v]
                               ELSE [param |-> Function.param, cfg |-> FirstNode(b)]]
                /\ nextVal' = nextVal + 1
                /\ parsed' = parsed + 1
                /\ UNCHANGED <<module, entryPointCfg, threw>>

\* __entry: block 0, a call of main and the terminating instruction.  The
\* arguments of main, if it has any, get ValueIds; "argc" stands for both.
EntryCode(arg) ==
    << [opcode |-> "call", callee |-> "main", arg |-> arg, target |-> "none"],
       [opcode |-> "call", callee |-> "__ANGIE_fin", arg |-> "none", target |-> "none"] >>

\* The exception for a module without main.  One without any function is
\* refused at the start, before there is anything to parse; that is a
\* runtime_error as well, but not the one of LinkTogether.
MissingMain == IF FunctionNames = {} THEN "zero functions" ELSE "out_of_range"

PrependEntry ==
    /\ Parses
    /\ parsed = Len(module.functions)
    /\ entryPointCfg = NULL
    /\ IF "main" \notin DOMAIN mapper THEN Throw(MissingMain)
       ELSE /\ nodes' = nodes \o << StartNode(NodeId(1)), TerminalNode,
                   [instr |-> <<0, 1>>, next |-> NodeId(2), nextFalse |-> NULL],
                   [instr |-> <<0, 2>>, next |-> TerminalId, nextFalse |-> NULL] >>
            /\ entryPointCfg' = NodeId(1)
            /\ IF fmap[mapper["main"]].param = "none" THEN UNCHANGED <<mapper, nextVal>>
               ELSE mapper' = LinkToValueId("argc", nextVal) /\ nextVal' = nextVal + 1
            /\ UNCHANGED <<module, copyMapping, parseAndLinkTogether, parsed,
                           constantValuesToBeCreated, fmap, threw>>

Plan == Head(parseAndLinkTogether)
HasPlan == Parses /\ entryPointCfg # NULL /\ parseAndLinkTogether # <<>>

\* The block of the plan was parsed since it was planned.
LinkKnown ==
    /\ HasPlan
    /\ IsMapped(Plan.block)
    /\ LinkPlan(nodes, Plan, copyMapping[Plan.block])
    /\ parseAndLinkTogether' = Tail(parseAndLinkTogether)
    /\ UNCHANGED <<module, copyMapping, parsed, entryPointCfg, constantValuesToBeCreated, valueVars>>

\* Mutant: the parsed block is not entered into copyMapping.
ParseAndLinkUnmapped ==
    /\ HasPlan
    /\ ~IsMapped(Plan.block)
    /\ LET b == Plan.block
       IN  /\ LinkPlan(nodes \o NodesOf(b), Plan, FirstNode(b))
           /\ parseAndLinkTogether' = Tail(parseAndLinkTogether)
           /\ constantValuesToBeCreated' = constantValuesToBeCreated \o ConstantsOf(b)
    /\ UNCHANGED <<module, copyMapping, parsed, entryPointCfg, valueVars>>

ParseAndLink ==
    /\ HasPlan
    /\ ~IsMapped(Plan.block)
    /\ LET b == Plan.block
       IN  IF CannotTranslate(b) THEN Throw(Head(Refusals(b)))
           ELSE /\ LinkPlan(nodes \o NodesOf(b), Plan, FirstNode(b))
                /\ copyMapping' = Map(b, FirstNode(b))
                /\ parseAndLinkTogether' = Tail(parseAndLinkTogether) \o Plans(b)
                /\ constantValuesToBeCreated' = constantValuesToBeCreated \o ConstantsOf(b)
                /\ UNCHANGED <<module, parsed, entryPointCfg, valueVars>>

Linked == Parses /\ entryPointCfg # NULL /\ parseAndLinkTogether = <<>>

\* Mutant: a function gets a second value.
ConstantIdFresh(c) == IF c \in DOMAIN KnownConstants THEN KnownConstants[c] ELSE nextVal

\* DealWithConstants, one constant at a time (the code walks over the vector).
\* A pointer to the beginning of a constant becomes an unknown value, a new
\* one each time; a function must have a body.
ConstantId(c) ==
    CASE c \in DOMAIN KnownConstants -> KnownConstants[c]
      [] c = "string" -> nextVal
      [] OTHER -> mapper[c]
DealWithConstant ==
    /\ Linked
    /\ constantValuesToBeCreated # <<>>
    /\ LET c == Head(constantValuesToBeCreated)
       IN  CASE c = "global" -> Throw("NotSupportedException")
             [] c = "undef" -> Throw("NotImplementedException")
             [] c \in module.declared -> Throw("out_of_range")
             [] OTHER ->
                  /\ mapper' = LinkToValueId(c, ConstantId(c))
                  /\ nextVal' = IF c = "string" THEN nextVal + 1 ELSE nextVal
                  /\ constantValuesToBeCreated' = Tail(constantValuesToBeCreated)
                  /\ UNCHANGED <<module, graphVars, fmap, threw>>

Next == ParseFunction \/ PrependEntry \/ LinkKnown \/ ParseAndLink \/ DealWithConstant

\* The parser is sequential code: it goes on while there is work.
Spec == Init /\ [][Next]_vars /\ WF_vars(Next)

-----------------------------------------------------------------------------
(* Properties.                                                             *)

Done == Linked /\ constantValuesToBeCreated = <<>>

\* Type invariant.  Only terminal nodes have no next node, so following links
\* from any node never meets a null pointer.
TypeOK ==
    /\ \A n \in DOMAIN nodes :
          /\ nodes[n].next \in 0 .. Len(nodes)
          /\ nodes[n].nextFalse \in 0 .. Len(nodes)
          /\ nodes[n].next = NULL <=> nodes[n] = TerminalNode
    /\ DOMAIN copyMapping \subseteq Blocks
    /\ \A b \in DOMAIN copyMapping : copyMapping[b] \in 1 .. Len(nodes)
    /\ \A p \in DOMAIN parseAndLinkTogether : parseAndLinkTogether[p].node \in 1 .. Len(nodes)
    /\ entryPointCfg \in 0 .. Len(nodes)
    /\ \A c \in DOMAIN mapper : mapper[c] \in 0 .. nextVal - 1
    /\ DOMAIN fmap \subseteq 2 .. nextVal - 1

\* The node of the i-th instruction of a block.
NodesAt(b, i) == {n \in DOMAIN nodes : nodes[n].instr = <<b, i>>}
LinkOf(n, index) == IF index = 1 THEN nodes[n].next ELSE nodes[n].nextFalse
IsTerminal(n) == nodes[n] = TerminalNode

\* A block is parsed once, in its order, and nothing is parsed that is not
\* mapped, however many branches lead to the block and in whichever order
\* they are met (TryGetMappedCfgNode, SetMappedCfgNode).  A second copy of a
\* block would split its states among two state lists.
ParsedOnce ==
    /\ \A b \in Blocks : \A i \in 1 .. Len(module.code[b]) + 1 :
          Cardinality(NodesAt(b, i)) = IF IsMapped(b) /\ i <= Count(b) THEN 1 ELSE 0
    /\ \A b \in DOMAIN copyMapping :
          /\ IF Count(b) = 0 THEN IsTerminal(copyMapping[b])
             ELSE nodes[copyMapping[b]].instr = <<b, 1>>
          /\ \A i \in 1 .. Count(b) - 1 : \A n \in NodesAt(b, i) : nodes[n].next \in NodesAt(b, i + 1)

\* No branch is lost or linked twice: each side of each branch is linked to
\* its block, or waits in the queue, once, on a terminal node of its own
\* (LinkWithOrPlanProcessing, LinkTogetherTrue, LinkTogetherFalse).
NoBranchLost ==
    /\ threw # "runtime_error"
    /\ \A b \in DOMAIN copyMapping : \A i \in DOMAIN Succ(b) : \A n \in NodesAt(b, Count(b)) :
          LET plans == {p \in DOMAIN parseAndLinkTogether :
                           /\ parseAndLinkTogether[p].node = n
                           /\ parseAndLinkTogether[p].index = i}
          IN  \/ /\ plans = {}
                 /\ IsMapped(Succ(b)[i])
                 /\ LinkOf(n, i) = copyMapping[Succ(b)[i]]
              \/ /\ Cardinality(plans) = 1
                 /\ \A p \in plans : parseAndLinkTogether[p].block = Succ(b)[i]
                 /\ IsTerminal(LinkOf(n, i))
                 /\ \A m \in DOMAIN nodes : m # n => LinkOf(n, i) \notin {LinkOf(m, 1), LinkOf(m, 2)}

\* The blocks that control can reach from the entries of the functions.
Reachable ==
    {b \in Blocks : \A S \in SUBSET Blocks :
        /\ \A f \in DOMAIN module.functions : module.functions[f].entry \in S
        /\ \A x \in S : \A i \in DOMAIN Succ(x) : Succ(x)[i] \in S
        => b \in S}

\* What the module has in the reachable blocks that the frontend refuses.
Refused(b) ==
    \/ CannotTranslate(b)
    \/ \E c \in ToSet(ConstantsOf(b)) : c \in {"global", "undef"} \cup module.declared

\* The parser comes to an end, whatever cycles the blocks form, and without an
\* exception exactly if it can deal with all blocks that can be reached, which
\* it has then parsed (ParseModule's loop, DealWithConstants).
ParsesTheModule ==
    <>(IF "main" \notin {module.functions[f].name : f \in DOMAIN module.functions}
          \/ \E b \in Reachable : Refused(b)
       THEN ~Parses
       ELSE Done /\ DOMAIN copyMapping = Reachable)
=============================================================================
