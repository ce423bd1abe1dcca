-------------------------- MODULE WholeAnalysisProofs --------------------------
(***************************************************************************)
(* The frontend and the engine together, for any LLVM modules: what is     *)
(* handed over is what the engine relies on, the engine's guarantees hold  *)
(* of it, and the path that stands for a run does what the module says.    *)
(***************************************************************************)
EXTENDS WholeAnalysis, VerificationLoopProofs

FP == INSTANCE CfgBuilderProofs

(***************************************************************************)
(* The frontend of the whole analysis is the one that CfgBuilderProofs is  *)
(* about: definition by definition, the two say the same.                  *)
(***************************************************************************)

\* The modules are what CfgBuilderProofs asks for.
LEMMA SameAssumption == FP!ModulesAssumption
<1>1. Frontend!KnownConstants = FP!KnownConstants /\ \A s : Frontend!ToSet(s) = FP!ToSet(s)
  BY DEF Frontend!KnownConstants, FP!KnownConstants, Frontend!ToSet, FP!ToSet
<1>2. \A r : Frontend!IsInstruction(r) <=> FP!IsInstruction(r)
  BY <1>1 DEF Frontend!IsInstruction, FP!IsInstruction
<1>3. \A r, blocks : Frontend!IsTerminator(r, blocks) <=> FP!IsTerminator(r, blocks)
  BY DEF Frontend!IsTerminator, FP!IsTerminator
<1>4. \A m : Frontend!IsModule(m) <=> FP!IsModule(m)
  BY <1>1, <1>2, <1>3, Zenon DEF Frontend!IsModule, FP!IsModule
<1> QED
  BY <1>4, WholeAssumption DEF FP!ModulesAssumption

LEMMA SameInit == Frontend!Init <=> FP!Init
BY DEF Frontend!Init, FP!Init, Frontend!NULL, FP!NULL

LEMMA SameDone == Frontend!Done <=> FP!Done
BY DEF Frontend!Done, FP!Done, Frontend!Linked, FP!Linked, Frontend!Parses, FP!Parses,
   Frontend!NULL, FP!NULL

\* What parsing a block makes: nodes, plans of links, constants, refusals.
LEMMA SameNodesOf == ASSUME NEW b PROVE Frontend!NodesOf(b) = FP!NodesOf(b)
BY DEF Frontend!NodesOf, FP!NodesOf, Frontend!NULL, FP!NULL, Frontend!TerminalNode,
   FP!TerminalNode, Frontend!StartNode, FP!StartNode, Frontend!IsMapped, FP!IsMapped,
   Frontend!Succ, FP!Succ, Frontend!Count, FP!Count, Frontend!FirstNode, FP!FirstNode,
   Frontend!LastNode, FP!LastNode, Frontend!NodeId, FP!NodeId, Frontend!TerminalId,
   FP!TerminalId, Frontend!SuccessorNode, FP!SuccessorNode

LEMMA SamePlans == ASSUME NEW b PROVE Frontend!Plans(b) = FP!Plans(b)
BY DEF Frontend!Plans, FP!Plans, Frontend!PlanSide, FP!PlanSide, Frontend!IsMapped,
   FP!IsMapped, Frontend!Succ, FP!Succ, Frontend!Count, FP!Count, Frontend!LastNode,
   FP!LastNode, Frontend!NodeId, FP!NodeId

LEMMA SameFirst == ASSUME NEW b PROVE Frontend!FirstNode(b) = FP!FirstNode(b)
BY DEF Frontend!FirstNode, FP!FirstNode, Frontend!Count, FP!Count, Frontend!TerminalId,
   FP!TerminalId, Frontend!NodeId, FP!NodeId

LEMMA SameMap == ASSUME NEW b, NEW n PROVE Frontend!Map(b, n) = FP!Map(b, n)
BY DEF Frontend!Map, FP!Map

LEMMA SameConstants == ASSUME NEW b PROVE Frontend!ConstantsOf(b) = FP!ConstantsOf(b)
BY DEF Frontend!ConstantsOf, FP!ConstantsOf, Frontend!SelectIn, FP!SelectIn,
   Frontend!Operands, FP!Operands, Frontend!ConstantOperands, FP!ConstantOperands,
   Frontend!FunctionNames, FP!FunctionNames, Frontend!KnownConstants, FP!KnownConstants

LEMMA SameRefusals == ASSUME NEW b PROVE Frontend!Refusals(b) = FP!Refusals(b)
BY DEF Frontend!Refusals, FP!Refusals, Frontend!Refusal, FP!Refusal, Frontend!SelectIn,
   FP!SelectIn

LEMMA SameLinkPlan ==
    ASSUME NEW g, NEW p, NEW s
    PROVE  Frontend!LinkPlan(g, p, s) <=> FP!LinkPlan(g, p, s)
BY DEF Frontend!LinkPlan, FP!LinkPlan, Frontend!CanLink, FP!CanLink, Frontend!LinkTogether,
   FP!LinkTogether, Frontend!NULL, FP!NULL

\* The steps.
LEMMA SameNext == Frontend!Next <=> FP!Next
<1>1. Frontend!ParseFunction <=> FP!ParseFunction
  BY SameNodesOf, SamePlans, SameMap, SameFirst, SameConstants, SameRefusals, Zenon
     DEF Frontend!ParseFunction, FP!ParseFunction, Frontend!CannotTranslate,
         FP!CannotTranslate, Frontend!Parses, FP!Parses, Frontend!Function, FP!Function,
         Frontend!Throw, FP!Throw, Frontend!graphVars, FP!graphVars, Frontend!valueVars,
         FP!valueVars, Frontend!LinkToValueId, FP!LinkToValueId
<1>2. Frontend!PrependEntry <=> FP!PrependEntry
  BY Zenon DEF Frontend!PrependEntry, FP!PrependEntry, Frontend!Parses, FP!Parses,
     Frontend!Throw, FP!Throw, Frontend!graphVars, FP!graphVars, Frontend!valueVars,
     FP!valueVars, Frontend!LinkToValueId, FP!LinkToValueId, Frontend!NodeId, FP!NodeId,
     Frontend!MissingMain, FP!MissingMain, Frontend!FunctionNames, FP!FunctionNames,
     Frontend!TerminalId, FP!TerminalId, Frontend!StartNode, FP!StartNode,
     Frontend!TerminalNode, FP!TerminalNode, Frontend!NULL, FP!NULL
<1>3. Frontend!LinkKnown <=> FP!LinkKnown
  BY SameLinkPlan, Zenon
     DEF Frontend!LinkKnown, FP!LinkKnown, Frontend!HasPlan, FP!HasPlan, Frontend!Plan,
         FP!Plan, Frontend!IsMapped, FP!IsMapped, Frontend!Parses, FP!Parses,
         Frontend!valueVars, FP!valueVars, Frontend!NULL, FP!NULL
<1>4. Frontend!ParseAndLink <=> FP!ParseAndLink
  BY SameNodesOf, SamePlans, SameMap, SameFirst, SameConstants, SameRefusals, SameLinkPlan, Zenon
     DEF Frontend!ParseAndLink, FP!ParseAndLink, Frontend!HasPlan, FP!HasPlan,
         Frontend!Plan, FP!Plan, Frontend!IsMapped, FP!IsMapped, Frontend!graphVars,
         FP!graphVars, Frontend!CannotTranslate, FP!CannotTranslate, Frontend!Throw,
         FP!Throw, Frontend!Parses, FP!Parses, Frontend!valueVars, FP!valueVars,
         Frontend!NULL, FP!NULL
<1>5. Frontend!DealWithConstant <=> FP!DealWithConstant
  BY DEF Frontend!DealWithConstant, FP!DealWithConstant, Frontend!Linked, FP!Linked,
     Frontend!ConstantId, FP!ConstantId, Frontend!KnownConstants, FP!KnownConstants,
     Frontend!graphVars, FP!graphVars, Frontend!Throw, FP!Throw, Frontend!LinkToValueId,
     FP!LinkToValueId, Frontend!Parses, FP!Parses, Frontend!valueVars, FP!valueVars,
     Frontend!NULL, FP!NULL
<1> QED
  BY <1>1, <1>2, <1>3, <1>4, <1>5 DEF Frontend!Next, FP!Next

(***************************************************************************)
(* What is handed over.                                                    *)
(***************************************************************************)

\* The frontend has finished.
Finished == FP!HandInv /\ FP!Done

\* What the engine asks of an instruction.
Proper(instr) ==
    /\ {"opcode", "arg"} \subseteq DOMAIN instr
    /\ {"next", "nextFalse"} \cap DOMAIN instr = {}
    /\ instr.opcode = "call" => "callee" \in DOMAIN instr /\ instr.callee \notin DOMAIN ConstantId
    /\ instr.opcode \notin {"br", "ret"} => "target" \in DOMAIN instr
    /\ instr.opcode \in Casts => instr.opcode \in {"zext", "bitcast"}

\* A place of the module that has an instruction.
InBlock(b, i) == b \in FP!Blocks /\ i \in 1 .. FP!Count(b)

\* The instruction of a block or its terminator is a proper one.
LEMMA InstrProper ==
    ASSUME module \in Modules, NEW b, NEW i, InBlock(b, i)
    PROVE  /\ i <= Len(module.code[b]) =>
                 InstrAt(b, i) = module.code[b][i] /\ InstrAt(b, i).opcode \notin {"br", "ret"}
           /\ ~(i <= Len(module.code[b])) =>
                 /\ i = FP!Count(b) /\ i = Len(module.code[b]) + 1
                 /\ InstrAt(b, i) = module.term[b] /\ module.term[b].opcode \in {"br", "ret"}
           /\ Proper(InstrAt(b, i))
<1>1. /\ b # 0 /\ Len(module.code[b]) \in Nat
      /\ i \in 1 .. FP!Count(b) /\ b \in DOMAIN module.term
  <2>1. 0 \notin FP!Blocks /\ Len(module.code[b]) \in Nat
    BY SameAssumption, FP!ModuleFacts DEF InBlock
  <2> QED
    BY <2>1 DEF InBlock, FP!Blocks
<1>2. /\ module.code[b] \in Seq(FP!ToSet(module.code[b]))
      /\ \A k \in DOMAIN module.code[b] : FP!IsInstruction(module.code[b][k])
      /\ FP!IsTerminator(module.term[b], DOMAIN module.term)
      /\ b \in DOMAIN module.code
  BY <1>1, SameAssumption DEF FP!ModulesAssumption, FP!IsModule
<1>3. DOMAIN module.code[b] = 1 .. Len(module.code[b])
  BY <1>2, LenProperties
<1>4. FP!Count(b) = Len(module.code[b]) + IF module.term[b].opcode \in {"br", "ret"} THEN 1 ELSE 0
  BY DEF FP!Count
<1>5. CASE i <= Len(module.code[b])
  <2>1. InstrAt(b, i) = module.code[b][i]
    BY <1>1, <1>5 DEF InstrAt
  <2>2. i \in DOMAIN module.code[b]
    BY <1>1, <1>3, <1>5
  <2>3. FP!IsInstruction(module.code[b][i])
    BY <1>2, <2>2
  <2>4. module.code[b][i].opcode \in Casts => module.code[b][i].opcode \in {"zext", "bitcast"}
    BY <1>2, <2>2, WholeAssumption
  <2> DEFINE r == module.code[b][i]
  <2> HIDE DEF r
  <2>5. FP!IsInstruction(r) /\ (r.opcode \in Casts => r.opcode \in {"zext", "bitcast"})
    BY <2>3, <2>4 DEF r
  <2>6. Proper(r) /\ r.opcode \notin {"br", "ret"}
    BY <2>5 DEF Proper, FP!IsInstruction, FP!KnownConstants, ConstantId
  <2>7. InstrAt(b, i) = r
    BY <2>1 DEF r
  <2> QED
    BY <1>5, <2>1, <2>6, <2>7
<1>6. CASE ~(i <= Len(module.code[b]))
  <2>1. i = FP!Count(b) /\ i = Len(module.code[b]) + 1 /\ module.term[b].opcode \in {"br", "ret"}
    <3> DEFINE t == IF module.term[b].opcode \in {"br", "ret"} THEN 1 ELSE 0
               n == Len(module.code[b])
               m == FP!Count(b)
    <3>1. t \in 0 .. 1 /\ (t # 0 => module.term[b].opcode \in {"br", "ret"})
      OBVIOUS
    <3>2. m = n + t /\ n \in Nat /\ i \in 1 .. m /\ ~(i <= n)
      BY <1>1, <1>4, <1>6
    <3> HIDE DEF t, n, m
    <3>3. i = m /\ i = n + 1 /\ t # 0
      BY <3>1, <3>2
    <3> QED
      BY <3>1, <3>3 DEF n, m
  <2>2. InstrAt(b, i) = module.term[b]
    BY <1>1, <1>6 DEF InstrAt
  <2>3. Proper(module.term[b])
    BY <1>2, <2>1 DEF Proper, FP!IsTerminator, Casts
  <2> QED
    BY <1>6, <2>1, <2>2, <2>3
<1> QED
  BY <1>5, <1>6

\* The instructions of __entry.
EntryArg == IF "argc" \in DOMAIN mapper THEN "argc" ELSE "none"

\* So are those of __entry.
LEMMA EntryProper ==
    /\ InstrAt(0, 1) = [opcode |-> "call", callee |-> "main", arg |-> EntryArg, target |-> "none"]
    /\ InstrAt(0, 2) = [opcode |-> "call", callee |-> "__ANGIE_fin", arg |-> "none", target |-> "none"]
    /\ Proper(InstrAt(0, 1)) /\ Proper(InstrAt(0, 2))
<1>1. /\ InstrAt(0, 1) = [opcode |-> "call", callee |-> "main", arg |-> EntryArg, target |-> "none"]
      /\ InstrAt(0, 2) = [opcode |-> "call", callee |-> "__ANGIE_fin", arg |-> "none", target |-> "none"]
  BY DEF InstrAt, Frontend!EntryCode, EntryArg
<1>2. "main" \notin DOMAIN ConstantId /\ "__ANGIE_fin" \notin DOMAIN ConstantId
  BY DEF ConstantId
<1> QED
  BY <1>1, <1>2 DEF Proper, Casts

\* An instruction keeps its fields; the links are added.
LEMMA WithNextIs ==
    ASSUME NEW f, NEW g
    PROVE  /\ \A x \in DOMAIN f : WithNext(f, g)[x] = f[x]
           /\ \A x \in DOMAIN g \ DOMAIN f : WithNext(f, g)[x] = g[x]
           /\ DOMAIN WithNext(f, g) = DOMAIN f \cup DOMAIN g
BY DEF WithNext


\* An instruction with the links to what follows it.
LEMMA WithNextFields ==
    ASSUME NEW f, Proper(f), NEW links
    PROVE  LET r == WithNext(f, links)
           IN  /\ r.opcode = f.opcode /\ r.arg = f.arg
               /\ f.opcode = "call" => r.callee = f.callee
               /\ f.opcode \notin {"br", "ret"} => r.target = f.target
               /\ "next" \in DOMAIN links => r.next = links.next
               /\ "nextFalse" \in DOMAIN links => r.nextFalse = links.nextFalse
<1> DEFINE r == WithNext(f, links)
<1>1. /\ {"opcode", "arg"} \subseteq DOMAIN f /\ {"next", "nextFalse"} \cap DOMAIN f = {}
      /\ f.opcode = "call" => "callee" \in DOMAIN f
      /\ f.opcode \notin {"br", "ret"} => "target" \in DOMAIN f
  BY DEF Proper
<1>2. /\ \A x \in DOMAIN f : r[x] = f[x]
      /\ \A x \in DOMAIN links \ DOMAIN f : r[x] = links[x]
  BY WithNextIs
<1> HIDE DEF r
<1>3. /\ r.opcode = f.opcode /\ r.arg = f.arg
      /\ f.opcode = "call" => r.callee = f.callee
      /\ f.opcode \notin {"br", "ret"} => r.target = f.target
  BY <1>1, <1>2
<1>4. /\ "next" \in DOMAIN links => r.next = links.next
      /\ "nextFalse" \in DOMAIN links => r.nextFalse = links.nextFalse
  BY <1>1, <1>2
<1> QED
  BY <1>3, <1>4 DEF r

InstrOf(n) == InstrAt(nodes[n].instr[1], nodes[n].instr[2])

\* What the invariant says of the finished graph.
LEMMA FinishedFacts ==
    ASSUME Finished
    PROVE  /\ module \in Modules /\ entryPointCfg # 0
           /\ DOMAIN nodes = 1 .. Len(nodes) /\ Len(nodes) \in Nat
           /\ DOMAIN copyMapping \subseteq FP!Blocks
           /\ parsed = Len(module.functions) /\ DOMAIN module.functions = 1 .. parsed
           /\ parseAndLinkTogether = <<>> /\ constantValuesToBeCreated = <<>>
           /\ FP!NamesInv /\ FP!OperandsInv /\ FP!ValueInv
<1>1. /\ parseAndLinkTogether = <<>> /\ constantValuesToBeCreated = <<>> /\ entryPointCfg # 0
  BY DEF Finished, FP!Done, FP!Linked, FP!NULL
<1>2. /\ module \in Modules /\ FP!NodesInv(nodes, copyMapping)
      /\ FP!NamesInv /\ FP!OperandsInv /\ FP!ValueInv /\ FP!ParsedInv
  BY DEF Finished, FP!HandInv, FP!CfgInv, FP!LinkingInv, FP!GraphInv
<1>3. nodes \in Seq(FP!ToSet(nodes)) /\ DOMAIN copyMapping \subseteq FP!Blocks
  BY <1>2 DEF FP!NodesInv
<1>4. DOMAIN nodes = 1 .. Len(nodes) /\ Len(nodes) \in Nat
  BY <1>3, LenProperties
<1>5. parsed = Len(module.functions)
  BY <1>1, <1>2 DEF FP!ParsedInv, FP!NULL
<1>6. DOMAIN module.functions = 1 .. Len(module.functions)
  BY <1>2, FP!ModuleFacts, SameAssumption
<1> QED
  BY <1>1, <1>2, <1>3, <1>4, <1>5, <1>6

\* __entry: a call of main, then the end of the program.
LEMMA EntryFacts ==
    ASSUME Finished
    PROVE  LET e == entryPointCfg
           IN  /\ e \in Nat /\ e + 1 \in Nat /\ e - 1 \in Nat
               /\ e \in DOMAIN nodes /\ e + 1 \in DOMAIN nodes
               /\ nodes[e] = [instr |-> <<0, 1>>, next |-> e + 1, nextFalse |-> 0]
               /\ nodes[e + 1] = [instr |-> <<0, 2>>, next |-> e - 1, nextFalse |-> 0]
               /\ nodes[e - 1].instr = <<>> /\ nodes[e - 2].next = e
<1> DEFINE e == entryPointCfg
<1>1. e # 0 /\ DOMAIN nodes = 1 .. Len(nodes) /\ Len(nodes) \in Nat
  BY FinishedFacts
<1>2. FP!EntryLayout(nodes, e)
  BY <1>1 DEF Finished, FP!HandInv, FP!LinkingInv, FP!EntryInv, FP!NULL
<1>3. /\ e \in 3 .. Len(nodes) /\ e + 1 \in 3 .. Len(nodes)
      /\ nodes[e - 2].next = e /\ nodes[e - 1].instr = <<>>
      /\ nodes[e] = [instr |-> <<0, 1>>, next |-> e + 1, nextFalse |-> 0]
      /\ nodes[e + 1] = [instr |-> <<0, 2>>, next |-> e - 1, nextFalse |-> 0]
  BY <1>2 DEF FP!EntryLayout, FP!StartNode, FP!TerminalNode, FP!NULL
<1> HIDE DEF e
<1>4. e \in Nat /\ e + 1 \in Nat /\ e - 1 \in Nat /\ e \in DOMAIN nodes /\ e + 1 \in DOMAIN nodes
  BY ONLY <1>1, <1>3
<1> QED
  BY <1>3, <1>4 DEF e

\* Whose instruction a node has.
LEMMA NodeHas ==
    ASSUME Finished, NEW n \in DOMAIN nodes, nodes[n].instr # <<>>
    PROVE  \/ n = entryPointCfg /\ nodes[n].instr = <<0, 1>>
           \/ n = entryPointCfg + 1 /\ nodes[n].instr = <<0, 2>>
           \/ \E b \in DOMAIN copyMapping : \E i \in 1 .. FP!Count(b) : nodes[n].instr = <<b, i>>
<1>1. n \in 1 .. Len(nodes) /\ entryPointCfg # FP!NULL /\ FP!HandInv
  BY FinishedFacts DEF Finished, FP!NULL
<1>2. \/ n = entryPointCfg \/ n = entryPointCfg + 1
      \/ \E b \in DOMAIN copyMapping : \E i \in 1 .. FP!Count(b) : nodes[n].instr = <<b, i>>
  BY <1>1, FP!NodeOwners, SameAssumption
<1> QED
  BY <1>2, EntryFacts

\* Every node that has an instruction has a proper one.
LEMMA InstrOfProper ==
    ASSUME Finished, NEW n \in DOMAIN nodes, nodes[n].instr # <<>>
    PROVE  Proper(InstrOf(n))
<1>1. CASE n = entryPointCfg /\ nodes[n].instr = <<0, 1>>
  BY <1>1, EntryProper DEF InstrOf
<1>2. CASE n = entryPointCfg + 1 /\ nodes[n].instr = <<0, 2>>
  BY <1>2, EntryProper DEF InstrOf
<1>3. ASSUME NEW b \in DOMAIN copyMapping, NEW i \in 1 .. FP!Count(b), nodes[n].instr = <<b, i>>
      PROVE  Proper(InstrOf(n))
  <2>1. InBlock(b, i)
    BY FinishedFacts DEF InBlock
  <2>2. Proper(InstrAt(b, i))
    BY <2>1, FinishedFacts, InstrProper
  <2> QED
    BY <1>3, <2>2 DEF InstrOf
<1> QED
  BY <1>1, <1>2, <1>3, NodeHas

\* The code that is handed over.
LEMMA ParsedCode ==
    ASSUME Finished
    PROVE  /\ DOMAIN ParsedProgram.code = {n \in DOMAIN nodes : nodes[n].instr # <<>>}
           /\ \A n \in DOMAIN ParsedProgram.code :
                 LET r == ParsedProgram.code[n]
                 IN  /\ Proper(InstrOf(n))
                     /\ r.opcode = InstrOf(n).opcode /\ r.arg = InstrOf(n).arg
                     /\ r.next = nodes[n].next /\ r.nextFalse = nodes[n].nextFalse
                     /\ r.opcode = "call" => r.callee = InstrOf(n).callee
                     /\ r.opcode \notin {"br", "ret"} => r.target = InstrOf(n).target
<1> DEFINE code == [n \in {m \in DOMAIN nodes : nodes[m].instr # <<>>} |-> NodeInstr(nodes[n])]
<1>1. ParsedProgram.code = code
  BY DEF ParsedProgram
<1>2. DOMAIN code = {n \in DOMAIN nodes : nodes[n].instr # <<>>}
  OBVIOUS
<1>3. ASSUME NEW n \in DOMAIN code
      PROVE  LET r == code[n]
             IN  /\ Proper(InstrOf(n))
                 /\ r.opcode = InstrOf(n).opcode /\ r.arg = InstrOf(n).arg
                 /\ r.next = nodes[n].next /\ r.nextFalse = nodes[n].nextFalse
                 /\ r.opcode = "call" => r.callee = InstrOf(n).callee
                 /\ r.opcode \notin {"br", "ret"} => r.target = InstrOf(n).target
  <2>1. n \in DOMAIN nodes /\ nodes[n].instr # <<>>
    BY <1>2
  <2> DEFINE f == InstrOf(n)
  <2>2. Proper(f)
    BY <2>1, InstrOfProper
  <2>3. code[n] = WithNext(f, [next |-> nodes[n].next, nextFalse |-> nodes[n].nextFalse])
    BY <2>1 DEF NodeInstr, InstrOf
  <2> HIDE DEF f, code
  <2>4. LET r == code[n]
        IN  /\ r.opcode = f.opcode /\ r.arg = f.arg
            /\ r.next = nodes[n].next /\ r.nextFalse = nodes[n].nextFalse
            /\ f.opcode = "call" => r.callee = f.callee
            /\ f.opcode \notin {"br", "ret"} => r.target = f.target
    <3> DEFINE links == [next |-> nodes[n].next, nextFalse |-> nodes[n].nextFalse]
    <3>1. /\ "next" \in DOMAIN links /\ links.next = nodes[n].next
          /\ "nextFalse" \in DOMAIN links /\ links.nextFalse = nodes[n].nextFalse
      OBVIOUS
    <3> HIDE DEF links
    <3> QED
      BY <2>2, <2>3, <3>1, WithNextFields DEF links
  <2> QED
    BY <2>2, <2>4 DEF f
<1> HIDE DEF code
<1> QED
  BY <1>1, <1>2, <1>3

\* The callees are no constants, and the casts keep the value.
LEMMA NodeOperates ==
    ASSUME Finished, NEW n \in DOMAIN ParsedProgram.code
    PROVE  LET r == ParsedProgram.code[n]
           IN  /\ r.opcode = "call" => r.callee \notin DOMAIN ConstantId
               /\ Operates(r) = "Cast" => r.opcode \in {"zext", "bitcast"}
<1> DEFINE r == ParsedProgram.code[n]
<1>1. /\ Proper(InstrOf(n)) /\ r.opcode = InstrOf(n).opcode
      /\ r.opcode = "call" => r.callee = InstrOf(n).callee
  BY ParsedCode
<1> HIDE DEF r
<1>2. r.opcode = "call" => r.callee \notin DOMAIN ConstantId
  BY <1>1 DEF Proper
<1>3. r.opcode \in Casts => r.opcode \in {"zext", "bitcast"}
  BY <1>1 DEF Proper
<1>4. Operates(r) = "Cast" <=> r.opcode \in Casts
  BY OperatesOn
<1> QED
  BY <1>2, <1>3, <1>4 DEF r

\* The entry calls main and ends the program.
LEMMA ParsedEntry ==
    ASSUME Finished
    PROVE  WellFormedEntry(ParsedProgram)
<1> DEFINE p == ParsedProgram
           e == entryPointCfg
<1>1. p.entry = e
  BY DEF ParsedProgram
<1>2. /\ e \in DOMAIN nodes /\ e + 1 \in DOMAIN nodes /\ nodes[e].instr = <<0, 1>>
      /\ nodes[e + 1].instr = <<0, 2>> /\ nodes[e].next = e + 1 /\ nodes[e + 1].next = e - 1
      /\ nodes[e - 1].instr = <<>>
  BY EntryFacts
<1>3. /\ e \in DOMAIN p.code /\ e + 1 \in DOMAIN p.code /\ e - 1 \notin DOMAIN p.code
  BY <1>2, ParsedCode
<1>4. /\ p.code[e].opcode = "call" /\ p.code[e].callee = "main" /\ p.code[e].next = e + 1
  BY <1>2, <1>3, ParsedCode, EntryProper DEF InstrOf
<1>5. /\ p.code[e + 1].opcode = "call" /\ p.code[e + 1].callee = "__ANGIE_fin"
      /\ p.code[e + 1].next = e - 1
  BY <1>2, <1>3, ParsedCode, EntryProper DEF InstrOf
<1> DEFINE r == p.code[e]
           s == p.code[e + 1]
<1>6. r.opcode = "call" /\ r.callee = "main" /\ s.opcode = "call" /\ s.callee = "__ANGIE_fin"
  BY <1>4, <1>5
<1>7. r.next = e + 1 /\ s.next = e - 1
  BY <1>4, <1>5
<1> HIDE DEF r, s
<1>8. Operates(r) = "Call" /\ Operates(s) = "Noop"
  <2>1. MethodForCall("main") = "Call" /\ MethodForCall("__ANGIE_fin") = "Terminate"
    BY DEF MethodForCall
  <2>2. MethodFor(r) = "Call" /\ MethodFor(s) = "Terminate"
    BY <1>6, <2>1 DEF MethodFor, Casts, Predicates, BinaryOps, FloatOps
  <2>3. Operation("Call") = "Call" /\ Operation("Terminate") = "Noop"
    BY DEF Operation
  <2> QED
    BY <1>6, <2>2, <2>3 DEF Operates, OperationFor
<1> QED
  BY <1>1, <1>3, <1>7, <1>8 DEF WellFormedEntry, r, s

\* Every function of the module, and no other, is known by its name, with an id
\* and the first node of its entry block.
LEMMA ParsedFunctions ==
    ASSUME Finished
    PROVE  /\ WellFormedFunctions(ParsedProgram)
           /\ FunctionsIn(ParsedProgram) = {module.functions[f].name : f \in DOMAIN module.functions}
           /\ \A x \in DOMAIN mapper :
                 \/ x \in DOMAIN ConstantId /\ mapper[x] = ConstantId[x]
                 \/ x \in Unnamed \/ x \in FunctionsIn(ParsedProgram)
           /\ \A f \in DOMAIN module.functions :
                 /\ module.functions[f].name \notin DOMAIN ConstantId \cup Unnamed
                 /\ module.functions[f].entry \in DOMAIN copyMapping
                 /\ fmap[mapper[module.functions[f].name]]
                       = [param |-> module.functions[f].param,
                          cfg |-> copyMapping[module.functions[f].entry]]
<1> DEFINE p == ParsedProgram
           Names == {module.functions[f].name : f \in DOMAIN module.functions}
           F == FunctionsIn(p)
<1>1. p.globals = mapper /\ p.functions = fmap /\ p.nextVal = nextVal
  BY DEF ParsedProgram
<1>2. /\ module \in Modules /\ DOMAIN module.functions = 1 .. parsed
      /\ FP!NamesInv /\ FP!ValueInv
  BY FinishedFacts
<1>3. \A f \in DOMAIN module.functions :
         module.functions[f].name \notin DOMAIN ConstantId \cup Unnamed \cup {"undefined"}
  <2>1. \A f \in DOMAIN module.functions :
           module.functions[f].name \notin DOMAIN FP!KnownConstants \cup {"string", "argc", "none"}
    BY <1>2, SameAssumption DEF FP!ModulesAssumption, FP!IsModule
  <2>2. \A f \in DOMAIN module.functions : module.functions[f].name # "undefined"
    BY <1>2, WholeAssumption
  <2> QED
    BY <2>1, <2>2 DEF FP!KnownConstants, ConstantId, Unnamed
<1>4. /\ \A x \in DOMAIN mapper :
            \/ x \in DOMAIN ConstantId /\ mapper[x] = ConstantId[x]
            \/ x \in Unnamed /\ mapper[x] \notin DOMAIN fmap
            \/ \E f \in DOMAIN module.functions : module.functions[f].name = x
      /\ \A f \in DOMAIN module.functions :
            LET func == module.functions[f]
            IN  /\ func.entry \in DOMAIN copyMapping
                /\ func.name \in DOMAIN mapper /\ mapper[func.name] \in DOMAIN fmap
                /\ fmap[mapper[func.name]] = [param |-> func.param, cfg |-> copyMapping[func.entry]]
      /\ \A v \in DOMAIN fmap :
            \E f \in DOMAIN module.functions : mapper[module.functions[f].name] = v
      /\ \A f, g \in DOMAIN module.functions :
            mapper[module.functions[f].name] = mapper[module.functions[g].name] => f = g
  BY <1>2 DEF FP!NamesInv, FP!KnownConstants, ConstantId, Unnamed
<1>5. DOMAIN fmap \subseteq 2 .. nextVal - 1 /\ nextVal \in Nat
  BY <1>2 DEF FP!ValueInv
<1>6. \A x \in DOMAIN ConstantId : ConstantId[x] \in 0 .. 1
  BY DEF ConstantId
<1>7. F = {x \in DOMAIN mapper : mapper[x] \in DOMAIN fmap}
  BY <1>1 DEF FunctionsIn
<1> HIDE DEF p, F
<1>8. F = Names
  <2>1. ASSUME NEW x \in F
        PROVE  x \in Names
    <3>1. mapper[x] \notin 0 .. 1
      BY <1>5, <1>7
    <3> QED
      BY <1>4, <1>6, <1>7, <3>1
  <2>2. ASSUME NEW f \in DOMAIN module.functions
        PROVE  module.functions[f].name \in F
    BY <1>4, <1>7
  <2> QED
    BY <2>1, <2>2
<1>9. WellFormedFunctions(p)
  <2>1. \A v \in DOMAIN fmap : \E f \in F : mapper[f] = v
    BY <1>4, <1>8
  <2>2. \A f, g \in F : mapper[f] = mapper[g] => f = g
    BY <1>4, <1>8
  <2>3. F \cap (DOMAIN ConstantId \cup Unnamed \cup {"undefined"}) = {}
    BY <1>3, <1>8
  <2> QED
    BY <1>1, <1>5, <2>1, <2>2, <2>3 DEF WellFormedFunctions, F
<1> QED
  BY <1>3, <1>4, <1>8, <1>9 DEF p, F

\* The constants among the operands have ids.
LEMMA ConstantOperand ==
    ASSUME Finished, NEW b \in DOMAIN copyMapping, NEW i \in 1 .. FP!Count(b),
           InstrAt(b, i).arg \in DOMAIN ConstantId
    PROVE  InstrAt(b, i).arg \in DOMAIN mapper
<1> DEFINE s == FP!Operands(b)
           a == module.term[b].arg
           A == {module.code[b][k].arg : k \in 1 .. Len(module.code[b])}
           T == A \cup {a}
           all == s \o << a >>
           x == InstrAt(b, i).arg
<1>1. module \in Modules /\ b \in FP!Blocks /\ InBlock(b, i)
  BY FinishedFacts DEF InBlock
<1>2. s \in Seq(A) /\ Len(module.code[b]) \in Nat
  BY <1>1, FP!ModuleFacts, SameAssumption
<1>3. DOMAIN s = DOMAIN module.code[b] /\ \A k \in DOMAIN module.code[b] : s[k] = module.code[b][k].arg
  BY DEF FP!Operands
<1>4. DOMAIN module.code[b] = 1 .. Len(module.code[b])
  <2>1. module.code[b] \in Seq(FP!ToSet(module.code[b]))
    BY <1>1, SameAssumption DEF FP!ModulesAssumption, FP!IsModule, FP!Blocks
  <2> QED
    BY <2>1, LenProperties
<1>5. x \in FP!ToSet(s) \cup {a}
  <2>1. CASE i <= Len(module.code[b])
    <3>1. InstrAt(b, i) = module.code[b][i]
      BY <1>1, <2>1, InstrProper
    <3>2. i \in DOMAIN module.code[b]
      <4>1. i \in 1 .. Len(module.code[b])
        <5>1. i \in Nat /\ i >= 1
          BY <1>1, FP!ModuleFacts, SameAssumption
        <5> QED
          BY <1>2, <2>1, <5>1
      <4> QED
        BY <1>4, <4>1
    <3> QED
      BY <1>3, <3>1, <3>2 DEF FP!ToSet
  <2>2. CASE ~(i <= Len(module.code[b]))
    BY <1>1, <2>2, InstrProper
  <2> QED
    BY <2>1, <2>2
<1> HIDE DEF s, a, A, x
<1>6. s \in Seq(T) /\ << a >> \in Seq(T)
  BY <1>2
<1> HIDE DEF T
<1>7. all \in Seq(T) /\ ToSet(all) = ToSet(s) \cup ToSet(<< a >>)
  <2>1. s \o << a >> \in Seq(T)
    BY ONLY <1>6
  <2>2. ToSet(s \o << a >>) = ToSet(s) \cup ToSet(<< a >>)
    BY ONLY <1>6, ConcatSet
  <2> QED
    BY <2>1, <2>2
<1>8. ToSet(<< a >>) = {a}
  BY DEF ToSet
<1>9. FP!ConstantsOf(b) = FP!SelectIn(all, FP!ConstantOperands)
  BY DEF FP!ConstantsOf, s, a, all
<1> HIDE DEF all
<1>10. \A y : FP!ToSet(y) = ToSet(y)
  BY DEF FP!ToSet, ToSet
<1>11. FP!ToSet(FP!ConstantsOf(b)) = ToSet(all) \cap FP!ConstantOperands
  <2>1. FP!SelectIn(all, FP!ConstantOperands) = SelectIn(all, FP!ConstantOperands)
    BY DEF FP!SelectIn, SelectIn
  <2>2. ToSet(SelectIn(all, FP!ConstantOperands)) = ToSet(all) \cap FP!ConstantOperands
    BY <1>7, SelectInFacts
  <2> QED
    BY <1>9, <1>10, <2>1, <2>2
<1>12. x \in FP!ConstantOperands
  BY DEF FP!ConstantOperands, FP!KnownConstants, ConstantId, x
<1>13. x \in FP!ToSet(FP!ConstantsOf(b))
  BY <1>5, <1>7, <1>8, <1>10, <1>11, <1>12
<1>14. FP!ToSet(<<>>) = {}
  BY DEF FP!ToSet
<1> QED
  BY <1>13, <1>14, FinishedFacts DEF FP!OperandsInv, x

\* The global names have ids, and no name is missing.
LEMMA ParsedNames ==
    ASSUME Finished, nextVal <= MaxVal
    PROVE  WellFormedNames(ParsedProgram)
<1> DEFINE p == ParsedProgram
<1>1. p.globals = mapper /\ p.functions = fmap /\ p.nextVal = nextVal
  BY DEF ParsedProgram
<1>2. FP!ValueInv
  BY FinishedFacts
<1>3. /\ nextVal \in 2 .. MaxVal /\ \A x \in DOMAIN mapper : mapper[x] \in 0 .. nextVal - 1
  BY <1>2, LoopBoundsAssumption DEF FP!ValueInv
<1>4. /\ DOMAIN mapper \subseteq DOMAIN ConstantId \cup Unnamed \cup FunctionsIn(p)
      /\ \A c \in DOMAIN ConstantId \cap DOMAIN mapper : mapper[c] = ConstantId[c]
  <2>1. \A x \in DOMAIN mapper :
           \/ x \in DOMAIN ConstantId /\ mapper[x] = ConstantId[x]
           \/ x \in Unnamed \/ x \in FunctionsIn(p)
    BY ParsedFunctions
  <2>2. \A x \in FunctionsIn(p) : x \notin DOMAIN ConstantId
    BY ParsedFunctions DEF WellFormedFunctions
  <2>3. \A x \in Unnamed : x \notin DOMAIN ConstantId
    BY DEF Unnamed, ConstantId
  <2> HIDE DEF p
  <2> QED
    BY <2>1, <2>2, <2>3
<1>5. ASSUME NEW n \in DOMAIN p.code, p.code[n].arg \in DOMAIN ConstantId
      PROVE  p.code[n].arg \in DOMAIN mapper
  <2>1. n \in DOMAIN nodes /\ nodes[n].instr # <<>> /\ p.code[n].arg = InstrOf(n).arg
    BY ParsedCode
  <2>2. CASE nodes[n].instr = <<0, 1>> \/ nodes[n].instr = <<0, 2>>
    BY <1>5, <2>1, <2>2, EntryProper DEF InstrOf, EntryArg, ConstantId
  <2>3. ASSUME NEW b \in DOMAIN copyMapping, NEW i \in 1 .. FP!Count(b), nodes[n].instr = <<b, i>>
        PROVE  p.code[n].arg \in DOMAIN mapper
    <3>1. InstrOf(n) = InstrAt(b, i)
      BY <2>3 DEF InstrOf
    <3> HIDE DEF p
    <3> QED
      BY <1>5, <2>1, <3>1, ConstantOperand
  <2> QED
    BY <2>1, <2>2, <2>3, NodeHas
<1>6. ASSUME NEW n \in DOMAIN p.code, p.code[n].opcode = "call"
      PROVE  p.code[n].callee \notin DOMAIN ConstantId
  BY <1>6, NodeOperates
<1> HIDE DEF p
<1> QED
  BY <1>1, <1>3, <1>4, <1>5, <1>6 DEF WellFormedNames, p

\* What the frontend hands over is what the engine relies on.
LEMMA ParsedWellFormed ==
    ASSUME Finished, nextVal <= MaxVal
    PROVE  WellFormed(ParsedProgram)
BY ParsedEntry, ParsedNames, ParsedFunctions, NodeOperates DEF WellFormed

(***************************************************************************)
(* The places of the module and the nodes of the graph.                    *)
(***************************************************************************)

\* The lengths of the blocks.
LEMMA SameCount == \A b : Frontend!Count(b) = FP!Count(b) /\ Frontend!Succ(b) = FP!Succ(b)
BY DEF Frontend!Count, FP!Count, Frontend!Succ, FP!Succ

\* Blocks start at nodes of their own, none of which is that of __entry.
LEMMA StartsApart ==
    ASSUME Finished, NEW b \in DOMAIN copyMapping
    PROVE  /\ copyMapping[b] # entryPointCfg /\ b # 0
           /\ \A c \in DOMAIN copyMapping : copyMapping[c] = copyMapping[b] => c = b
           /\ FP!BlockStarts(b)
<1>1. \A c \in DOMAIN copyMapping : copyMapping[c] = copyMapping[b] => c = b
  BY DEF Finished, FP!HandInv, FP!LinkingInv, FP!LayoutInv
<1>2. b # 0
  BY FinishedFacts, FP!ModuleFacts, SameAssumption
<1>3. FP!BlockStarts(b)
  BY FP!BlockStartsAt, SameAssumption DEF Finished
<1>4. nodes[copyMapping[b]].instr \in {<<>>, <<b, 1>>}
  BY <1>3 DEF FP!BlockStarts, FP!Ends
<1>5. nodes[entryPointCfg].instr = <<0, 1>>
  BY EntryFacts
<1> QED
  BY <1>1, <1>2, <1>3, <1>4, <1>5

\* A terminal node is the place behind the last instruction of its block.
LEMMA PlaceOfEnd ==
    ASSUME Finished, NEW b \in DOMAIN copyMapping, NEW n, FP!Ends(b, n)
    PROVE  Place(n) = <<b, FP!Count(b) + 1>>
<1>1. nodes[n].instr = <<>> /\ nodes[n - 1].next = copyMapping[b]
  BY DEF FP!Ends
<1>2. copyMapping[b] # entryPointCfg /\ b # 0
      /\ \A c \in DOMAIN copyMapping : copyMapping[c] = copyMapping[b] => c = b
  BY StartsApart
<1>3. (CHOOSE x \in DOMAIN copyMapping : copyMapping[x] = copyMapping[b]) = b
  BY <1>2
<1>4. Length(b) = FP!Count(b)
  BY <1>2, SameCount DEF Length
<1> QED
  BY <1>1, <1>2, <1>3, <1>4 DEF Place

\* The first node of a block, its terminal node if it is empty, is at its start.
LEMMA PlaceOfStart ==
    ASSUME Finished, NEW b \in DOMAIN copyMapping
    PROVE  Place(copyMapping[b]) = <<b, 1>>
<1>1. FP!BlockStarts(b)
  BY StartsApart
<1>2. CASE FP!Count(b) = 0
  <2>1. FP!Ends(b, copyMapping[b])
    BY <1>1, <1>2 DEF FP!BlockStarts
  <2> QED
    BY <1>2, <2>1, PlaceOfEnd
<1>3. CASE FP!Count(b) # 0
  <2>1. nodes[copyMapping[b]].instr = <<b, 1>>
    BY <1>1, <1>3 DEF FP!BlockStarts
  <2> QED
    BY <2>1 DEF Place
<1> QED
  BY <1>2, <1>3

\* The nodes of __entry.
LEMMA PlaceOfEntry ==
    ASSUME Finished
    PROVE  /\ Place(entryPointCfg) = <<0, 1>> /\ Place(entryPointCfg + 1) = <<0, 2>>
           /\ Place(entryPointCfg - 1) = <<0, 3>>
<1> DEFINE e == entryPointCfg
<1>1. /\ e \in Nat /\ nodes[e].instr = <<0, 1>> /\ nodes[e + 1].instr = <<0, 2>>
      /\ nodes[e - 1].instr = <<>> /\ nodes[e - 2].next = e
  BY EntryFacts
<1>2. (e - 1) - 1 = e - 2
  BY <1>1
<1>3. Length(0) = 2
  BY DEF Length
<1> QED
  BY <1>1, <1>2, <1>3 DEF Place

\* The code of the module.
LEMMA ModuleCode ==
    /\ DOMAIN ModuleProgram.code = Places
    /\ \A p \in Places :
          ModuleProgram.code[p] = WithNext(InstrAt(p[1], p[2]), Following(p[1], p[2]))
BY DEF ModuleProgram

\* The module's instruction at the place of node n is that of the node, and the
\* next places are those of the next nodes.
SameInstr(n) ==
    LET r == ModuleProgram.code[Place(n)]
        s == ParsedProgram.code[n]
    IN  /\ Place(n) \in DOMAIN ModuleProgram.code
        /\ r.opcode = s.opcode /\ r.arg = s.arg
        /\ s.opcode = "call" => r.callee = s.callee
        /\ s.opcode \notin {"br", "ret"} => r.target = s.target
        /\ s.opcode # "ret" => r.next = Place(s.next)
        /\ s.opcode = "br" /\ s.arg # "none" => r.nextFalse = Place(s.nextFalse)

\* It is enough to show where it leads.
LEMMA SameInstrIf ==
    ASSUME Finished, NEW n \in DOMAIN ParsedProgram.code, NEW b, NEW i, nodes[n].instr = <<b, i>>,
           <<b, i>> \in Places,
           LET s == InstrAt(b, i)
               l == Following(b, i)
           IN  /\ s.opcode # "ret" => "next" \in DOMAIN l /\ l.next = Place(nodes[n].next)
               /\ s.opcode = "br" /\ s.arg # "none" =>
                     "nextFalse" \in DOMAIN l /\ l.nextFalse = Place(nodes[n].nextFalse)
    PROVE  SameInstr(n)
<1> DEFINE f == InstrAt(b, i)
           l == Following(b, i)
           s == ParsedProgram.code[n]
           r == ModuleProgram.code[<<b, i>>]
<1>1. Place(n) = <<b, i>> /\ InstrOf(n) = f
  BY DEF Place, InstrOf
<1>2. /\ Proper(f) /\ s.opcode = f.opcode /\ s.arg = f.arg
      /\ s.next = nodes[n].next /\ s.nextFalse = nodes[n].nextFalse
      /\ s.opcode = "call" => s.callee = f.callee
      /\ s.opcode \notin {"br", "ret"} => s.target = f.target
  BY <1>1, ParsedCode
<1>3. /\ <<b, i>> \in DOMAIN ModuleProgram.code /\ r = WithNext(f, l)
  BY ModuleCode
<1>4. /\ f.opcode # "ret" => "next" \in DOMAIN l /\ l.next = Place(nodes[n].next)
      /\ f.opcode = "br" /\ f.arg # "none" =>
            "nextFalse" \in DOMAIN l /\ l.nextFalse = Place(nodes[n].nextFalse)
  OBVIOUS
<1> HIDE DEF f, l, s, r
<1>5. /\ r.opcode = f.opcode /\ r.arg = f.arg
      /\ f.opcode = "call" => r.callee = f.callee
      /\ f.opcode \notin {"br", "ret"} => r.target = f.target
      /\ "next" \in DOMAIN l => r.next = l.next
      /\ "nextFalse" \in DOMAIN l => r.nextFalse = l.nextFalse
  BY <1>2, <1>3, WithNextFields
<1>6. /\ <<b, i>> \in DOMAIN ModuleProgram.code
      /\ r.opcode = s.opcode /\ r.arg = s.arg
      /\ s.opcode = "call" => r.callee = s.callee
      /\ s.opcode \notin {"br", "ret"} => r.target = s.target
      /\ s.opcode # "ret" => r.next = Place(s.next)
      /\ s.opcode = "br" /\ s.arg # "none" => r.nextFalse = Place(s.nextFalse)
  BY <1>2, <1>3, <1>4, <1>5
<1> QED
  BY <1>1, <1>6 DEF SameInstr, r, s

\* In a block, and from block to block: a terminator's links are to the starts of
\* the successors, in their order; a block that ends in no branch runs out.
LEMMA SameInstrInBlock ==
    ASSUME Finished, NEW n \in DOMAIN ParsedProgram.code, NEW b \in DOMAIN copyMapping,
           NEW i \in 1 .. FP!Count(b), nodes[n].instr = <<b, i>>
    PROVE  SameInstr(n)
<1> DEFINE s == InstrAt(b, i)
           l == Following(b, i)
           t == module.term[b]
           code == module.code[b]
<1>1. /\ module \in Modules /\ InBlock(b, i) /\ b # 0 /\ b \in DOMAIN module.term
  BY FinishedFacts, StartsApart DEF InBlock, FP!Blocks
<1>2. <<b, i>> \in Places
  <2>1. Length(b) = FP!Count(b)
    BY <1>1, SameCount DEF Length
  <2>2. <<b, i>> \in {b} \X (1 .. Length(b))
    BY <2>1
  <2> QED
    BY <1>1, <2>2 DEF Places
<1>3. /\ FP!NodeLeads(b, i, n) /\ n \in DOMAIN nodes
  <2>1. n \in 1 .. Len(nodes) /\ parseAndLinkTogether = <<>> /\ FP!HandInv
    BY ParsedCode, FinishedFacts DEF Finished
  <2> QED
    BY <2>1, FP!NodeLeadsTo, SameAssumption, FinishedFacts
<1>4. /\ FP!Count(b) \in Nat /\ Len(code) \in Nat
      /\ DOMAIN FP!Succ(b) = 1 .. Len(FP!Succ(b)) /\ Len(FP!Succ(b)) \in Nat
      /\ FP!Succ(b) \in Seq(FP!Blocks)
  <2>1. b \in FP!Blocks
    BY <1>1 DEF InBlock
  <2>2. Len(FP!Succ(b)) \in 0 .. 2
    BY <1>1, <2>1, FP!ModuleFacts, SameAssumption
  <2>3. Len(FP!Succ(b)) \in Nat
    BY <2>2
  <2> QED
    BY <1>1, <2>1, <2>3, FP!ModuleFacts, SameAssumption
<1>5. /\ t.opcode # "br" => Len(t.succ) = 0
      /\ t.opcode = "br" /\ t.arg = "none" => Len(t.succ) = 1
      /\ t.opcode = "br" /\ t.arg # "none" => Len(t.succ) = 2
      /\ FP!Succ(b) = t.succ
  BY <1>1, SameAssumption DEF FP!ModulesAssumption, FP!IsModule, FP!IsTerminator, FP!Succ
<1>6. CASE i <= Len(code)
  <2>1. l = [next |-> <<b, i + 1>>] /\ s.opcode \notin {"br", "ret"}
    BY <1>1, <1>6, InstrProper DEF Following
  <2>2. CASE i < FP!Count(b)
    <3>1. nodes[nodes[n].next].instr = <<b, i + 1>>
      BY <1>3, <2>2 DEF FP!NodeLeads
    <3>2. Place(nodes[n].next) = <<b, i + 1>>
      BY <3>1 DEF Place
    <3> QED
      BY <1>2, <2>1, <3>2, SameInstrIf
  <2>3. CASE i = FP!Count(b)
    <3>1. t.opcode # "br"
      <4> SUFFICES ASSUME t.opcode = "br" PROVE FALSE
        OBVIOUS
      <4>1. FP!Count(b) = Len(code) + 1
        BY DEF FP!Count
      <4> HIDE DEF code, t
      <4> QED
        BY <1>4, <1>6, <2>3, <4>1
    <3>2. FP!Succ(b) = <<>>
      BY <1>4, <1>5, <3>1, EmptySeq
    <3>3. FP!Ends(b, nodes[n].next)
      BY <1>3, <2>3, <3>2 DEF FP!NodeLeads
    <3>4. Place(nodes[n].next) = <<b, i + 1>>
      BY <2>3, <3>3, PlaceOfEnd
    <3> QED
      BY <1>2, <2>1, <3>4, SameInstrIf
  <2>4. i < FP!Count(b) \/ i = FP!Count(b)
    BY <1>4
  <2> QED
    BY <2>2, <2>3, <2>4
<1>7. CASE ~(i <= Len(code))
  <2>1. i = FP!Count(b) /\ s = t /\ t.opcode \in {"br", "ret"}
    BY <1>1, <1>7, InstrProper
  <2>2. \A k \in DOMAIN FP!Succ(b) :
           FP!Succ(b)[k] \in DOMAIN copyMapping /\ FP!LinkOf(n, k) = copyMapping[FP!Succ(b)[k]]
    BY <1>3, <2>1 DEF FP!NodeLeads
  <2>3. \A k \in DOMAIN FP!Succ(b) : Place(FP!LinkOf(n, k)) = <<FP!Succ(b)[k], 1>>
    BY <2>2, PlaceOfStart
  <2>4. FP!LinkOf(n, 1) = nodes[n].next /\ FP!LinkOf(n, 2) = nodes[n].nextFalse
    BY DEF FP!LinkOf
  <2>5. CASE t.opcode = "ret"
    BY <1>2, <2>1, <2>5, SameInstrIf
  <2>6. CASE t.opcode = "br" /\ t.arg = "none"
    <3>1. Len(t.succ) = 1 /\ 1 \in DOMAIN FP!Succ(b)
      <4>1. Len(t.succ) = 1 /\ DOMAIN FP!Succ(b) = 1 .. 1
        BY <1>4, <1>5, <2>6
      <4> QED
        BY <4>1
    <3>2. l = [next |-> <<t.succ[1], 1>>]
      BY <1>1, <1>7, <3>1 DEF Following
    <3>3. Place(nodes[n].next) = <<t.succ[1], 1>>
      BY <1>5, <2>3, <2>4, <3>1
    <3> QED
      BY <1>2, <2>1, <2>6, <3>2, <3>3, SameInstrIf
  <2>7. CASE t.opcode = "br" /\ t.arg # "none"
    <3>1. Len(t.succ) = 2 /\ 1 \in DOMAIN FP!Succ(b) /\ 2 \in DOMAIN FP!Succ(b)
      <4>1. Len(t.succ) = 2 /\ DOMAIN FP!Succ(b) = 1 .. 2
        BY <1>4, <1>5, <2>7
      <4> QED
        BY <4>1
    <3>2. l = [next |-> <<t.succ[1], 1>>, nextFalse |-> <<t.succ[2], 1>>]
      BY <1>1, <1>7, <3>1 DEF Following
    <3>3. Place(nodes[n].next) = <<t.succ[1], 1>> /\ Place(nodes[n].nextFalse) = <<t.succ[2], 1>>
      BY <1>5, <2>3, <2>4, <3>1
    <3> QED
      BY <1>2, <2>1, <2>7, <3>2, <3>3, SameInstrIf
  <2> QED
    BY <2>1, <2>5, <2>6, <2>7
<1> QED
  BY <1>6, <1>7

\* In every block and in __entry.
LEMMA SameInstrOf ==
    ASSUME Finished, NEW n \in DOMAIN ParsedProgram.code
    PROVE  SameInstr(n)
<1>1. n \in DOMAIN nodes /\ nodes[n].instr # <<>>
  BY ParsedCode
<1>2. <<0, 1>> \in Places /\ <<0, 2>> \in Places
  <2>1. Length(0) = 2
    BY DEF Length
  <2>2. <<0, 1>> \in {0} \X (1 .. Length(0)) /\ <<0, 2>> \in {0} \X (1 .. Length(0))
    BY <2>1
  <2> QED
    BY <2>2 DEF Places
<1>3. Following(0, 1) = [next |-> <<0, 2>>] /\ Following(0, 2) = [next |-> <<0, 3>>]
  BY DEF Following
<1>4. InstrAt(0, 1).opcode = "call" /\ InstrAt(0, 2).opcode = "call"
  BY EntryProper
<1>5. CASE n = entryPointCfg /\ nodes[n].instr = <<0, 1>>
  <2>1. Place(nodes[n].next) = <<0, 2>>
    BY <1>5, EntryFacts, PlaceOfEntry
  <2> QED
    BY <1>2, <1>3, <1>4, <1>5, <2>1, SameInstrIf
<1>6. CASE n = entryPointCfg + 1 /\ nodes[n].instr = <<0, 2>>
  <2>1. Place(nodes[n].next) = <<0, 3>>
    BY <1>6, EntryFacts, PlaceOfEntry
  <2> QED
    BY <1>2, <1>3, <1>4, <1>6, <2>1, SameInstrIf
<1> QED
  BY <1>1, <1>5, <1>6, NodeHas, SameInstrInBlock

(***************************************************************************)
(* The run of the module and the run of the program.                       *)
(***************************************************************************)

\* The program that is explored is the one that was parsed.
Handed ==
    /\ program.entry = entryPointCfg /\ program.code = ParsedProgram.code
    /\ program.globals = mapper /\ program.functions = fmap

PlaceFrames(fs) ==
    [i \in DOMAIN fs |-> [regs |-> fs[i].regs, target |-> fs[i].target,
                          retNode |-> Place(fs[i].retNode)]]

\* The run of the module is that of the program, at the places of its nodes.
LEMMA ModuleState ==
    ASSUME Started
    PROVE  /\ ModuleEnv = Environment /\ ModulePc = Place(Leaf.node)
           /\ ModuleRegs = LeafRegs /\ ModuleResult = LeafResult
           /\ ModuleFrames = PlaceFrames(LeafFrames)
<1>1. Here = Leaf
  BY DEF Here
<1>2. ModuleFrames = PlaceFrames(LeafFrames)
  <2>1. ModuleFrames =
            [i \in DOMAIN Leaf.stack |->
                [regs |-> Registers(Leaf.stack[i].locals), target |-> Leaf.stack[i].target,
                 retNode |-> Place(Leaf.stack[i].retNode)]]
    BY <1>1 DEF ModuleFrames
  <2> DEFINE fs == LeafFrames
  <2>2. /\ DOMAIN fs = DOMAIN Leaf.stack
        /\ \A i \in DOMAIN fs :
              /\ fs[i].regs = Registers(Leaf.stack[i].locals)
              /\ fs[i].target = Leaf.stack[i].target
              /\ fs[i].retNode = Leaf.stack[i].retNode
    BY DEF LeafFrames, Frames
  <2> HIDE DEF fs
  <2> QED
    BY <2>1, <2>2 DEF PlaceFrames, fs
<1> QED
  BY <1>1, <1>2 DEF ModuleEnv, ModulePc, ModuleRegs, ModuleResult, LeafRegs, LeafResult

\* The functions are those of the module, and start at the start of a block.
LEMMA SameFunctions ==
    ASSUME Finished, Handed
    PROVE  /\ DOMAIN RunProgram.functions = DOMAIN ModuleProgram.functions
           /\ \A f \in DOMAIN RunProgram.functions :
                 /\ ModuleProgram.functions[f].param = RunProgram.functions[f].param
                 /\ ModuleProgram.functions[f].cfg = Place(RunProgram.functions[f].cfg)
<1> DEFINE Names == {module.functions[n].name : n \in DOMAIN module.functions}
<1>1. FunctionNames = Names
  <2>1. FunctionNames = FunctionsIn(ParsedProgram)
    BY DEF FunctionNames, FunctionsIn, ParsedProgram, Handed, globalMapping, funcMapping
  <2> QED
    BY <2>1, ParsedFunctions
<1>2. /\ DOMAIN RunProgram.functions = FunctionNames
      /\ \A f \in FunctionNames : RunProgram.functions[f] = fmap[mapper[f]]
  BY DEF RunProgram, Handed, globalMapping, funcMapping
<1>3. DOMAIN ModuleProgram.functions = Names
  BY DEF ModuleProgram
<1>4. ASSUME NEW k \in DOMAIN module.functions
      PROVE  LET func == module.functions[k]
                 m == ModuleProgram.functions[func.name]
                 r == fmap[mapper[func.name]]
             IN  m.param = r.param /\ m.cfg = Place(r.cfg)
  <2> DEFINE func == module.functions[k]
  <2>1. \A x \in ToSet(module.functions) : x.name = func.name => x = func
    <3>1. \A j \in DOMAIN module.functions : module.functions[j].name = func.name => j = k
      BY FinishedFacts, SameAssumption DEF FP!ModulesAssumption, FP!IsModule
    <3> QED
      BY <3>1 DEF ToSet
  <2>2. func \in ToSet(module.functions)
    BY DEF ToSet
  <2>3. (CHOOSE x \in ToSet(module.functions) : x.name = func.name) = func
    BY <2>1, <2>2
  <2>4. ModuleProgram.functions[func.name] = [param |-> func.param, cfg |-> <<func.entry, 1>>]
    BY <2>3 DEF ModuleProgram
  <2>5. /\ func.entry \in DOMAIN copyMapping
        /\ fmap[mapper[func.name]] = [param |-> func.param, cfg |-> copyMapping[func.entry]]
    BY ParsedFunctions
  <2>6. Place(copyMapping[func.entry]) = <<func.entry, 1>>
    BY <2>5, PlaceOfStart
  <2> QED
    BY <2>4, <2>5, <2>6
<1> QED
  BY <1>1, <1>2, <1>3, <1>4

\* The run of the module starts when that of the program does.
LEMMA InitMapped ==
    ASSUME Started, Finished, Handed, Run!Init
    PROVE  ModuleRun!Init
<1>1. /\ Leaf.node = entryPointCfg /\ LeafRegs = <<>> /\ LeafFrames = <<>>
      /\ LeafResult = "running" /\ Environment \in [DOMAIN Environment -> {"true", "false"}]
  BY DEF Run!Init, RunProgram, Handed, Run!Truths
<1>2. PlaceFrames(<<>>) = <<>>
  BY DEF PlaceFrames
<1>3. /\ ModulePc = <<0, 1>> /\ ModuleRegs = <<>> /\ ModuleFrames = <<>>
      /\ ModuleResult = "running" /\ ModuleEnv = Environment
  BY <1>1, <1>2, ModuleState, PlaceOfEntry
<1> QED
  BY <1>1, <1>3 DEF ModuleRun!Init, ModuleRun!Truths, ModuleProgram

\* A step of the engine after which the run of the module is that of the
\* program still.
Follows ==
    /\ Finished /\ Handed /\ Started
    /\ ModuleProgram' = ModuleProgram
    /\ ModuleEnv' = Environment' /\ ModuleRegs' = LeafRegs' /\ ModuleResult' = LeafResult'
    /\ \A n : Leaf'.node = n => ModulePc' = Place(n)
    /\ \A fs : LeafFrames' = fs => ModuleFrames' = PlaceFrames(fs)

\* Names have the same values.
LEMMA SameValues ==
    ASSUME Finished, Handed, Started
    PROVE  \A x : ModuleRun!Value(x) = Run!Value(x)
BY ModuleState, SameFunctions DEF ModuleRun!Value, Run!Value

\* The next instruction of the module is that of the program.
LEMMA SameAsks ==
    ASSUME Finished, Handed, Started, Leaf.node \in DOMAIN RunProgram.code
    PROVE  LET r == ModuleProgram.code[ModulePc]
               s == RunProgram.code[Leaf.node]
           IN  /\ ModuleRun!Instr = r /\ Run!Instr = s
               /\ ModulePc \in DOMAIN ModuleProgram.code
               /\ r.opcode = s.opcode /\ r.arg = s.arg
               /\ s.opcode = "call" => r.callee = s.callee /\ ModuleRun!Callee = Run!Callee
               /\ s.opcode \notin {"br", "ret"} => r.target = s.target
               /\ s.opcode # "ret" => r.next = Place(s.next)
               /\ s.opcode = "br" /\ s.arg # "none" => r.nextFalse = Place(s.nextFalse)
               /\ \A c : ModuleRun!CallOf(c) <=> Run!CallOf(c)
               /\ ModuleRun!UsesUndefined <=> Run!UsesUndefined
<1> DEFINE n == Leaf.node
           r == ModuleProgram.code[ModulePc]
           s == RunProgram.code[n]
<1>1. ModulePc = Place(n)
  BY ModuleState
<1>2. s = ParsedProgram.code[n] /\ n \in DOMAIN ParsedProgram.code
  BY DEF RunProgram, Handed
<1>3. /\ Place(n) \in DOMAIN ModuleProgram.code
      /\ r.opcode = s.opcode /\ r.arg = s.arg
      /\ s.opcode = "call" => r.callee = s.callee
      /\ s.opcode \notin {"br", "ret"} => r.target = s.target
      /\ s.opcode # "ret" => r.next = Place(s.next)
      /\ s.opcode = "br" /\ s.arg # "none" => r.nextFalse = Place(s.nextFalse)
  BY <1>1, <1>2, SameInstrOf DEF SameInstr
<1>4. ModuleRun!Instr = r /\ Run!Instr = s
  BY DEF ModuleRun!Instr, Run!Instr
<1> HIDE DEF r, s, n
<1>5. s.opcode = "call" => ModuleRun!Callee = Run!Callee
  BY <1>3, <1>4, SameValues DEF ModuleRun!Callee, Run!Callee
<1>6. \A c : ModuleRun!CallOf(c) <=> Run!CallOf(c)
  BY <1>3, <1>4 DEF ModuleRun!CallOf, Run!CallOf
<1>7. ModuleRun!UsesUndefined <=> Run!UsesUndefined
  BY <1>3, <1>4, <1>5, SameValues, SameFunctions DEF ModuleRun!UsesUndefined, Run!UsesUndefined
<1> QED
  BY <1>1, <1>3, <1>4, <1>5, <1>6, <1>7 DEF r, s, n

\* A step from a place that has an instruction.
AtCode == Follows /\ Leaf.node \in DOMAIN RunProgram.code

\* Before the step, the runs agree.
LEMMA FollowsState ==
    ASSUME Follows
    PROVE  /\ ModuleEnv = Environment /\ ModulePc = Place(Leaf.node)
           /\ ModuleRegs = LeafRegs /\ ModuleResult = LeafResult
           /\ ModuleFrames = PlaceFrames(LeafFrames)
BY ModuleState DEF Follows

\* They go to the same place.
LEMMA GotoMapped ==
    ASSUME Follows, NEW m, NEW n, m = Place(n), Run!Goto(n)
    PROVE  ModuleRun!Goto(m)
<1>1. /\ Leaf.node' = n /\ Environment' = Environment /\ LeafResult' = LeafResult
  BY DEF Run!Goto
<1>2. Leaf'.node = n
  BY <1>1
<1>3. ModulePc' = m
  BY <1>2 DEF Follows
<1>4. UNCHANGED <<ModuleProgram, ModuleEnv, ModuleResult>>
  BY <1>1, FollowsState DEF Follows
<1> QED
  BY <1>3, <1>4 DEF ModuleRun!Goto

\* Calls that are left alone stay alike.
LEMMA SameFramesKept ==
    ASSUME Follows, LeafFrames' = LeafFrames
    PROVE  ModuleFrames' = ModuleFrames
BY FollowsState DEF Follows

\* The steps of the program are those of the module.
LEMMA JumpMapped ==
    ASSUME AtCode, Run!Jump
    PROVE  ModuleRun!Jump
<1>1. Follows
  BY DEF AtCode
<1>2. Run!Goto(Run!Instr.next) /\ UNCHANGED <<LeafRegs, LeafFrames>>
  BY DEF Run!Jump
<1>3. /\ Run!Instr.opcode # "ret"
      /\ \/ ModuleRun!Instr.opcode = "br" /\ ModuleRun!Instr.arg = "none"
         \/ ModuleRun!CallOf("llvm.dbg")
         \/ ModuleRun!CallOf("__ANGIE_fin")
  BY SameAsks DEF Run!Jump, Run!CallOf, AtCode, Follows
<1>4. ModuleRun!Goto(ModuleRun!Instr.next)
  BY <1>1, <1>2, <1>3, SameAsks, GotoMapped DEF AtCode, Follows
<1>5. UNCHANGED <<ModuleRegs, ModuleFrames>>
  BY <1>1, <1>2, FollowsState, SameFramesKept DEF Follows
<1> QED
  BY <1>3, <1>4, <1>5 DEF ModuleRun!Jump

LEMMA UnknownMapped ==
    ASSUME AtCode, Run!Unknown
    PROVE  ModuleRun!Unknown
<1>1. Follows
  BY DEF AtCode
<1>2. /\ Run!CallOf("__ANGIE_CREATE_UNKNOWN_")
      /\ \E b \in Run!Truths : LeafRegs' = Run!Assigned(LeafRegs, Run!Instr.target, b)
      /\ Run!Goto(Run!Instr.next) /\ UNCHANGED LeafFrames
  BY DEF Run!Unknown
<1>3. Run!Instr.opcode \notin {"br", "ret"}
  BY <1>2 DEF Run!CallOf
<1>4. /\ ModuleRun!CallOf("__ANGIE_CREATE_UNKNOWN_")
      /\ ModuleRun!Instr.target = Run!Instr.target
      /\ ModuleRun!Instr.next = Place(Run!Instr.next)
  BY <1>2, <1>3, SameAsks DEF AtCode, Follows
<1>5. ModuleRun!Goto(ModuleRun!Instr.next)
  BY <1>1, <1>2, <1>4, GotoMapped
<1>6. UNCHANGED ModuleFrames
  BY <1>1, <1>2, SameFramesKept
<1>7. \E b \in ModuleRun!Truths : ModuleRegs' = ModuleRun!Assigned(ModuleRegs, ModuleRun!Instr.target, b)
  BY <1>1, <1>2, <1>4, FollowsState
     DEF Follows, Run!Truths, ModuleRun!Truths, Run!Assigned, ModuleRun!Assigned
<1> QED
  BY <1>4, <1>5, <1>6, <1>7 DEF ModuleRun!Unknown

LEMMA CopyMapped ==
    ASSUME AtCode, Run!Copy
    PROVE  ModuleRun!Copy
<1>1. Follows
  BY DEF AtCode
<1>2. /\ Run!Instr.opcode \in {"zext", "bitcast"} /\ ~Run!UsesUndefined
      /\ LeafRegs' = Run!Assigned(LeafRegs, Run!Instr.target, Run!Value(Run!Instr.arg))
      /\ Run!Goto(Run!Instr.next) /\ UNCHANGED LeafFrames
  BY DEF Run!Copy
<1>3. Run!Instr.opcode \notin {"br", "ret"}
  BY <1>2
<1>4. /\ ModuleRun!Instr.opcode \in {"zext", "bitcast"} /\ ~ModuleRun!UsesUndefined
      /\ ModuleRun!Instr.target = Run!Instr.target /\ ModuleRun!Instr.arg = Run!Instr.arg
      /\ ModuleRun!Instr.next = Place(Run!Instr.next)
  BY <1>2, <1>3, SameAsks DEF AtCode, Follows
<1>5. ModuleRun!Goto(ModuleRun!Instr.next)
  BY <1>1, <1>2, <1>4, GotoMapped
<1>6. UNCHANGED ModuleFrames
  BY <1>1, <1>2, SameFramesKept
<1>7. ModuleRun!Value(ModuleRun!Instr.arg) = Run!Value(Run!Instr.arg)
  BY <1>1, <1>4, SameValues DEF Follows
<1>8. ModuleRegs' = ModuleRun!Assigned(ModuleRegs, ModuleRun!Instr.target,
                                       ModuleRun!Value(ModuleRun!Instr.arg))
  BY <1>1, <1>2, <1>4, <1>7, FollowsState DEF Follows, Run!Assigned, ModuleRun!Assigned
<1> QED
  BY <1>4, <1>5, <1>6, <1>8 DEF ModuleRun!Copy

LEMMA BranchMapped ==
    ASSUME AtCode, Run!Branch
    PROVE  ModuleRun!Branch
<1>1. Follows
  BY DEF AtCode
<1>2. /\ Run!Instr.opcode = "br" /\ Run!Instr.arg # "none" /\ ~Run!UsesUndefined
      /\ Run!Goto(IF Run!Value(Run!Instr.arg) = "false" THEN Run!Instr.nextFalse ELSE Run!Instr.next)
      /\ UNCHANGED <<LeafRegs, LeafFrames>>
  BY DEF Run!Branch
<1>3. Run!Instr.opcode # "ret"
  BY <1>2
<1>4. /\ ModuleRun!Instr.opcode = "br" /\ ModuleRun!Instr.arg # "none" /\ ~ModuleRun!UsesUndefined
      /\ ModuleRun!Instr.arg = Run!Instr.arg
      /\ ModuleRun!Instr.next = Place(Run!Instr.next)
      /\ ModuleRun!Instr.nextFalse = Place(Run!Instr.nextFalse)
  BY <1>2, <1>3, SameAsks DEF AtCode, Follows
<1>5. ModuleRun!Value(ModuleRun!Instr.arg) = Run!Value(Run!Instr.arg)
  BY <1>1, <1>4, SameValues DEF Follows
<1> DEFINE m == IF ModuleRun!Value(ModuleRun!Instr.arg) = "false"
                THEN ModuleRun!Instr.nextFalse ELSE ModuleRun!Instr.next
           n == IF Run!Value(Run!Instr.arg) = "false" THEN Run!Instr.nextFalse ELSE Run!Instr.next
<1>6. m = Place(n)
  BY <1>4, <1>5
<1>7. Run!Goto(n)
  BY <1>2
<1> HIDE DEF m, n
<1>8. ModuleRun!Goto(m)
  BY <1>1, <1>6, <1>7, GotoMapped
<1>9. UNCHANGED <<ModuleRegs, ModuleFrames>>
  BY <1>1, <1>2, FollowsState, SameFramesKept DEF Follows
<1> QED
  BY <1>4, <1>8, <1>9 DEF ModuleRun!Branch, m

LEMMA StopMapped ==
    ASSUME AtCode, Run!Stop
    PROVE  ModuleRun!Stop
<1>1. Follows
  BY DEF AtCode
<1>2. /\ Run!CallOf("abort") \/ Run!CallOf("exit") \/ Run!UsesUndefined
      /\ LeafResult' = "stopped"
      /\ Leaf.node' = Leaf.node /\ UNCHANGED <<Environment, LeafRegs, LeafFrames>>
  BY DEF Run!Stop
<1>3. ModuleRun!CallOf("abort") \/ ModuleRun!CallOf("exit") \/ ModuleRun!UsesUndefined
  BY <1>2, SameAsks DEF AtCode, Follows
<1>4. ModulePc' = ModulePc
  <2>1. Leaf'.node = Leaf.node
    BY <1>2
  <2> QED
    BY <1>1, <2>1, FollowsState DEF Follows
<1>5. ModuleResult' = "stopped" /\ UNCHANGED <<ModuleProgram, ModuleEnv, ModuleRegs, ModuleFrames>>
  BY <1>1, <1>2, FollowsState, SameFramesKept DEF Follows
<1> QED
  BY <1>3, <1>4, <1>5 DEF ModuleRun!Stop

\* The suspended calls of the run, at the places of their nodes.
PlaceFrame(f) == [regs |-> f.regs, target |-> f.target, retNode |-> Place(f.retNode)]

\* How the suspended calls are pushed and popped.
LEMMA PlaceFramesSeq ==
    ASSUME NEW T, NEW fs \in Seq(T)
    PROVE  /\ PlaceFrames(fs) \in Seq({PlaceFrame(f) : f \in T})
           /\ Len(PlaceFrames(fs)) = Len(fs) /\ Len(fs) \in Nat
           /\ \A i \in 1 .. Len(fs) : PlaceFrames(fs)[i] = PlaceFrame(fs[i])
<1>1. fs \in [1 .. Len(fs) -> T] /\ Len(fs) \in Nat /\ DOMAIN fs = 1 .. Len(fs)
  BY LenProperties
<1>2. PlaceFrames(fs) = [i \in 1 .. Len(fs) |-> PlaceFrame(fs[i])]
  BY <1>1 DEF PlaceFrames, PlaceFrame
<1> DEFINE S == {PlaceFrame(f) : f \in T}
           n == Len(fs)
           frames == PlaceFrames(fs)
<1>3. \A i \in 1 .. n : fs[i] \in T
  BY <1>1
<1>4. \A i \in 1 .. n : PlaceFrame(fs[i]) \in S
  BY <1>3
<1>5. frames \in [1 .. n -> S] /\ n \in Nat /\ \A i \in 1 .. n : frames[i] = PlaceFrame(fs[i])
  BY <1>1, <1>2, <1>4
<1> HIDE DEF S, n, frames
<1>6. frames \in Seq(S) /\ DOMAIN frames = 1 .. n
  BY <1>5, SeqDef
<1>7. Len(frames) = n
  BY <1>5, <1>6, LenProperties
<1> QED
  BY <1>1, <1>5, <1>6, <1>7 DEF S, n, frames

LEMMA PlaceFramesAppend ==
    ASSUME NEW T, NEW fs \in Seq(T), NEW call
    PROVE  PlaceFrames(Append(fs, call)) = Append(PlaceFrames(fs), PlaceFrame(call))
<1> DEFINE n == Len(fs)
           U == T \cup {call}
           S == {PlaceFrame(c) : c \in U}
           pushed == Append(fs, call)
           f == PlaceFrames(fs)
           g == PlaceFrames(pushed)
           h == Append(f, PlaceFrame(call))
<1>1. fs \in Seq(U) /\ call \in U
  BY SeqMonotonic
<1>2. PlaceFrame(call) \in S
  BY <1>1
<1> HIDE DEF U
<1>3. /\ pushed \in Seq(U) /\ Len(pushed) = n + 1
      /\ \A i \in 1 .. n : pushed[i] = fs[i]
      /\ pushed[n + 1] = call
  BY <1>1, AppendProperties
<1> HIDE DEF pushed
<1>4. /\ f \in Seq(S) /\ Len(f) = n /\ n \in Nat
      /\ \A i \in 1 .. n : f[i] = PlaceFrame(fs[i])
  BY <1>1, PlaceFramesSeq
<1>5. /\ g \in Seq(S) /\ Len(g) = n + 1
      /\ \A i \in 1 .. n + 1 : g[i] = PlaceFrame(pushed[i])
  BY <1>3, PlaceFramesSeq
<1> DEFINE last == PlaceFrame(call)
<1> HIDE DEF S, f, g, n, last
<1>6. /\ h \in Seq(S) /\ Len(h) = n + 1
      /\ \A i \in 1 .. n : h[i] = f[i]
      /\ h[n + 1] = last
  BY <1>2, <1>4, AppendProperties DEF last
<1> HIDE DEF h
<1>7. \A i \in 1 .. n + 1 : g[i] = h[i]
  <2> SUFFICES ASSUME NEW i \in 1 .. n + 1 PROVE g[i] = h[i]
    OBVIOUS
  <2>1. i \in 1 .. n \/ i = n + 1
    BY <1>4
  <2>2. CASE i \in 1 .. n
    BY <2>2, <1>3, <1>4, <1>5, <1>6
  <2>3. CASE i = n + 1
    BY <2>3, <1>3, <1>5, <1>6 DEF last
  <2> QED
    BY <2>1, <2>2, <2>3
<1>8. g = h
  BY <1>5, <1>6, <1>7, SeqEqual
<1> QED
  BY <1>8 DEF g, h, f, pushed, last

LEMMA PlaceFramesFront ==
    ASSUME NEW T, NEW fs \in Seq(T), fs # <<>>
    PROVE  /\ PlaceFrames(fs) # <<>>
           /\ PlaceFrames(fs)[Len(PlaceFrames(fs))] = PlaceFrame(fs[Len(fs)])
           /\ PlaceFrames(SubSeq(fs, 1, Len(fs) - 1)) =
                 SubSeq(PlaceFrames(fs), 1, Len(PlaceFrames(fs)) - 1)
<1> DEFINE n == Len(fs)
           S == {PlaceFrame(c) : c \in T}
           popped == SubSeq(fs, 1, n - 1)
           f == PlaceFrames(fs)
           g == PlaceFrames(popped)
           h == SubSeq(f, 1, n - 1)
<1>1. /\ f \in Seq(S) /\ Len(f) = n /\ n \in Nat
      /\ \A i \in 1 .. n : f[i] = PlaceFrame(fs[i])
  BY PlaceFramesSeq
<1>2. n # 0
  BY EmptySeq
<1>4. 1 \in 1 .. n + 1 /\ n - 1 \in 1 - 1 .. n /\ n - 1 - 1 + 1 = n - 1 /\ n - 1 \in Nat
      /\ 1 .. n - 1 \subseteq 1 .. n /\ \A i \in 1 .. n - 1 : 1 + i - 1 = i
  BY <1>1, <1>2
<1>5. popped \in Seq(T) /\ Len(popped) = n - 1 /\ \A i \in 1 .. n - 1 : popped[i] = fs[i]
  <2> HIDE DEF n
  <2> QED
    BY <1>4, SubSeqProperties DEF n
<1> HIDE DEF popped
<1>6. /\ g \in Seq(S) /\ Len(g) = n - 1
      /\ \A i \in 1 .. n - 1 : g[i] = PlaceFrame(popped[i])
  BY <1>5, PlaceFramesSeq
<1> HIDE DEF f, g, n, S
<1>7. h \in Seq(S) /\ Len(h) = n - 1 /\ \A i \in 1 .. n - 1 : h[i] = f[i]
  BY <1>1, <1>4, SubSeqProperties
<1> HIDE DEF h
<1>8. \A i \in 1 .. n - 1 : g[i] = h[i]
  BY <1>1, <1>4, <1>5, <1>6, <1>7
<1>9. g = h
  BY <1>6, <1>7, <1>8, SeqEqual
<1>10. f # <<>> /\ f[n] = PlaceFrame(fs[n])
  <2>1. n \in 1 .. n
    BY <1>1, <1>2
  <2> QED
    BY <2>1, <1>1, <1>2, EmptySeq
<1> QED
  BY <1>1, <1>9, <1>10 DEF f, g, h, n, popped

\* The suspended calls are a sequence.
LEMMA LeafFramesSeq ==
    ASSUME FollowInv
    PROVE  LeafFrames \in Seq({FrameOf(call) : call \in ToSet(Leaf.stack)})
<1>1. PICK r \in Ids : Leaf = pool[r]
  BY LeafFacts
<1>2. Leaf.stack \in Seq(ToSet(Leaf.stack))
  BY <1>1 DEF FollowInv, EngineInv, PoolInv, StateOK
<1> QED
  BY <1>2, FramesSeq DEF LeafFrames

\* A call enters the block that the function starts with.
LEMMA CallMapped ==
    ASSUME FollowInv, AtCode, Run!Call
    PROVE  ModuleRun!Call
<1>1. Follows
  BY DEF AtCode
<1> DEFINE f == RunProgram.functions[Run!Callee]
           g == ModuleProgram.functions[Run!Callee]
           call == [regs |-> LeafRegs, target |-> Run!Instr.target, retNode |-> Run!Instr.next]
           pushed == [regs |-> ModuleRegs, target |-> ModuleRun!Instr.target,
                      retNode |-> ModuleRun!Instr.next]
<1>2. /\ Run!Instr.opcode = "call" /\ ~Run!UsesUndefined
      /\ Run!Callee \in DOMAIN RunProgram.functions
      /\ LeafRegs' = [r \in {f.param} \ {"none"} |-> Run!Value(Run!Instr.arg)]
      /\ Run!Goto(f.cfg)
      /\ LeafFrames' = Append(LeafFrames, call)
  BY DEF Run!Call
<1>3. Run!Instr.opcode \notin {"br", "ret"}
  BY <1>2
<1>4. /\ ModuleRun!Instr.opcode = "call" /\ ~ModuleRun!UsesUndefined
      /\ ModuleRun!Callee = Run!Callee
      /\ ModuleRun!Instr.target = Run!Instr.target /\ ModuleRun!Instr.arg = Run!Instr.arg
      /\ ModuleRun!Instr.next = Place(Run!Instr.next)
  BY <1>2, <1>3, SameAsks DEF AtCode, Follows
<1>5. /\ Run!Callee \in DOMAIN ModuleProgram.functions
      /\ g.param = f.param /\ g.cfg = Place(f.cfg)
  BY <1>1, <1>2, SameFunctions DEF Follows
<1>6. ModuleRun!Value(ModuleRun!Instr.arg) = Run!Value(Run!Instr.arg)
  BY <1>1, <1>4, SameValues DEF Follows
<1>7. ModuleRegs' = [r \in {g.param} \ {"none"} |-> ModuleRun!Value(ModuleRun!Instr.arg)]
  BY <1>1, <1>2, <1>5, <1>6 DEF Follows
<1>8. ModuleFrames' = Append(ModuleFrames, pushed)
  <2>1. ModuleFrames' = PlaceFrames(Append(LeafFrames, call))
    BY <1>1, <1>2 DEF Follows
  <2>2. PlaceFrames(Append(LeafFrames, call)) = Append(PlaceFrames(LeafFrames), PlaceFrame(call))
    <3> HIDE DEF call
    <3> QED
      BY LeafFramesSeq, PlaceFramesAppend
  <2>3. PlaceFrame(call) = pushed
    BY <1>1, <1>4, FollowsState DEF PlaceFrame
  <2>4. ModuleFrames = PlaceFrames(LeafFrames)
    BY <1>1, FollowsState
  <2> QED
    BY <2>1, <2>2, <2>3, <2>4
<1> HIDE DEF f, g, pushed
<1>9. ModuleRun!Goto(g.cfg)
  BY <1>1, <1>2, <1>5, GotoMapped
<1> QED
  BY <1>4, <1>5, <1>7, <1>8, <1>9 DEF ModuleRun!Call, g, pushed

\* A return goes to the place behind the call.
LEMMA RetMapped ==
    ASSUME FollowInv, AtCode, Run!Ret
    PROVE  ModuleRun!Ret
<1>1. Follows
  BY DEF AtCode
<1> DEFINE c == LeafFrames[Len(LeafFrames)]
           d == ModuleFrames[Len(ModuleFrames)]
<1>2. /\ Run!Instr.opcode = "ret" /\ LeafFrames # <<>> /\ ~Run!UsesUndefined
      /\ LeafRegs' = IF Run!Instr.arg = "none" THEN c.regs
                     ELSE Run!Assigned(c.regs, c.target, Run!Value(Run!Instr.arg))
      /\ Run!Goto(c.retNode)
      /\ LeafFrames' = SubSeq(LeafFrames, 1, Len(LeafFrames) - 1)
  BY DEF Run!Ret
<1>3. /\ ModuleRun!Instr.opcode = "ret" /\ ~ModuleRun!UsesUndefined
      /\ ModuleRun!Instr.arg = Run!Instr.arg
  BY <1>2, SameAsks DEF AtCode, Follows
<1>4. ModuleFrames = PlaceFrames(LeafFrames)
  BY <1>1, FollowsState
<1>5. /\ PlaceFrames(LeafFrames) # <<>>
      /\ PlaceFrames(LeafFrames)[Len(PlaceFrames(LeafFrames))] = PlaceFrame(LeafFrames[Len(LeafFrames)])
      /\ PlaceFrames(SubSeq(LeafFrames, 1, Len(LeafFrames) - 1)) =
            SubSeq(PlaceFrames(LeafFrames), 1, Len(PlaceFrames(LeafFrames)) - 1)
  BY <1>2, LeafFramesSeq, PlaceFramesFront
<1>6. d.regs = c.regs /\ d.target = c.target /\ d.retNode = Place(c.retNode)
  BY <1>4, <1>5 DEF PlaceFrame
<1>7. ModuleFrames # <<>> /\ ModuleFrames' = SubSeq(ModuleFrames, 1, Len(ModuleFrames) - 1)
  BY <1>1, <1>2, <1>4, <1>5 DEF Follows
<1>8. ModuleRun!Value(ModuleRun!Instr.arg) = Run!Value(Run!Instr.arg)
  BY <1>1, <1>3, SameValues DEF Follows
<1>9. ModuleRegs' = LeafRegs'
  BY <1>1 DEF Follows
<1> HIDE DEF c, d
<1>10. ModuleRegs' = IF ModuleRun!Instr.arg = "none" THEN d.regs
                     ELSE ModuleRun!Assigned(d.regs, d.target, ModuleRun!Value(ModuleRun!Instr.arg))
  BY <1>2, <1>3, <1>6, <1>8, <1>9 DEF Run!Assigned, ModuleRun!Assigned
<1>11. ModuleRun!Goto(d.retNode)
  BY <1>1, <1>2, <1>6, GotoMapped
<1> QED
  BY <1>3, <1>7, <1>10, <1>11 DEF ModuleRun!Ret, d

\* Every step of the program's run is a step of the module's.
LEMMA StepMapped ==
    ASSUME FollowInv, Follows, Run!Next
    PROVE  ModuleRun!Next
<1>1. AtCode /\ LeafResult = "running"
  BY DEF Run!Next, AtCode
<1>2. ModuleResult = "running"
  BY <1>1, FollowsState
<1>3. ModulePc \in DOMAIN ModuleProgram.code
  BY <1>1, SameAsks DEF AtCode, Follows
<1>4. CASE Run!Jump
  BY <1>1, <1>2, <1>3, <1>4, JumpMapped DEF ModuleRun!Next
<1>5. CASE Run!Unknown
  BY <1>1, <1>2, <1>3, <1>5, UnknownMapped DEF ModuleRun!Next
<1>6. CASE Run!Copy
  BY <1>1, <1>2, <1>3, <1>6, CopyMapped DEF ModuleRun!Next
<1>7. CASE Run!Branch
  BY <1>1, <1>2, <1>3, <1>7, BranchMapped DEF ModuleRun!Next
<1>8. CASE Run!Call
  BY <1>1, <1>2, <1>3, <1>8, CallMapped DEF ModuleRun!Next
<1>9. CASE Run!Ret
  BY <1>1, <1>2, <1>3, <1>9, RetMapped DEF ModuleRun!Next
<1>10. CASE Run!Stop
  BY <1>1, <1>2, <1>3, <1>10, StopMapped DEF ModuleRun!Next
<1> QED
  BY <1>4, <1>5, <1>6, <1>7, <1>8, <1>9, <1>10 DEF Run!Next

\* What leaves the program's run alone leaves the module's alone.
LEMMA StutterMapped ==
    ASSUME Follows, UNCHANGED Run!run
    PROVE  UNCHANGED ModuleRun!run
<1>1. /\ Environment' = Environment /\ Leaf.node' = Leaf.node /\ LeafRegs' = LeafRegs
      /\ LeafFrames' = LeafFrames /\ LeafResult' = LeafResult
  BY DEF Run!run
<1>2. Leaf'.node = Leaf.node
  BY <1>1
<1>3. ModulePc' = Place(Leaf.node)
  BY <1>2 DEF Follows
<1> QED
  BY <1>1, <1>3, FollowsState, SameFramesKept DEF ModuleRun!run, Follows

\* The frontend is left alone by the engine, but for the counter of ids.
LEMMA ExploreFollows ==
    ASSUME Finished, Handed, Started, Started', UNCHANGED frontendVars
    PROVE  Follows
<1>1. /\ module' = module /\ nodes' = nodes /\ copyMapping' = copyMapping
      /\ entryPointCfg' = entryPointCfg /\ mapper' = mapper
  BY DEF frontendVars
<1>2. \A b : Length(b)' = Length(b)
  BY <1>1 DEF Length, Frontend!Count
<1>3. \A n : Place(n)' = Place(n)
  <2> SUFFICES ASSUME NEW n PROVE Place(n)' = Place(n)
    OBVIOUS
  <2> DEFINE first == nodes[n - 1].next
             b == IF first = entryPointCfg THEN 0
                  ELSE CHOOSE x \in DOMAIN copyMapping : copyMapping[x] = first
  <2>1. PICK c : c = b
    OBVIOUS
  <2>2. b' = c
    BY <1>1, <2>1
  <2>3. Place(n) = IF nodes[n].instr # <<>> THEN nodes[n].instr ELSE <<c, Length(c) + 1>>
    BY <2>1 DEF Place
  <2>4. Place(n)' = IF nodes'[n].instr # <<>> THEN nodes'[n].instr ELSE <<c, Length(c)' + 1>>
    <3> DEFINE size == Length(b)
    <3>1. Place(n)' = IF nodes'[n].instr # <<>> THEN nodes'[n].instr ELSE <<b', size' + 1>>
      BY DEF Place, Length, Frontend!Count
    <3> HIDE DEF b
    <3>2. size' = Length(c)'
      BY <2>2 DEF Length, Frontend!Count
    <3> HIDE DEF size
    <3> QED
      BY <2>2, <3>1, <3>2
  <2> QED
    BY <1>1, <1>2, <2>3, <2>4
<1>4. ModuleProgram' = ModuleProgram
  <2>1. Places' = Places
    BY <1>1, <1>2 DEF Places
  <2>2. \A b, i : InstrAt(b, i)' = InstrAt(b, i)
    BY <1>1 DEF InstrAt, Frontend!EntryCode
  <2>3. \A b, i : Following(b, i)' = Following(b, i)
    BY <1>1 DEF Following
  <2> QED
    BY <1>1, <2>1, <2>2, <2>3 DEF ModuleProgram, WithNext
<1>5. ModuleEnv' = Environment' /\ ModuleRegs' = LeafRegs' /\ ModuleResult' = LeafResult'
  BY DEF ModuleEnv, ModuleRegs, ModuleResult, Here, LeafRegs, LeafResult
<1>6. \A n : Leaf'.node = n => ModulePc' = Place(n)
  BY <1>3 DEF ModulePc
<1>7. \A fs : LeafFrames' = fs => ModuleFrames' = PlaceFrames(fs)
  <2> DEFINE stack == Leaf.stack
  <2>1. Here' = Leaf'
    BY DEF Here
  <2>2. ModuleFrames' =
            [i \in DOMAIN stack' |->
                [regs |-> Registers(stack[i].locals)', target |-> stack'[i].target,
                 retNode |-> Place(stack'[i].retNode)]]
    BY <1>3, <2>1 DEF ModuleFrames
  <2>3. LeafFrames' =
            [i \in DOMAIN stack' |->
                [regs |-> Registers(stack[i].locals)', target |-> stack'[i].target,
                 retNode |-> stack'[i].retNode]]
    BY DEF LeafFrames, Frames
  <2> QED
    BY <2>2, <2>3 DEF PlaceFrames
<1> QED
  BY <1>4, <1>5, <1>6, <1>7 DEF Follows

(***************************************************************************)
(* The inductive invariant.                                                *)
(***************************************************************************)

\* Before the first state there is no program; from then on, the program is the
\* one that was parsed, and the engine's invariant holds.
WholeInv ==
    /\ FP!HandInv
    /\ Started => FP!Done /\ Handed /\ FollowInv
    /\ ~Started => crashed = FALSE

\* It holds at the beginning.
LEMMA WholeInit == WInit => WholeInv
<1> SUFFICES ASSUME WInit PROVE WholeInv
  OBVIOUS
<1>1. FP!HandInv
  BY SameInit, SameAssumption, FP!HandInit DEF WInit
<1>2. ~Started /\ crashed = FALSE
  BY DEF WInit, Started
<1> QED
  BY <1>1, <1>2 DEF WholeInv

\* The engine leaves the frontend's invariant alone.
LEMMA FrontendKept ==
    ASSUME FP!HandInv, UNCHANGED frontendVars, nextVal' \in Nat, nextVal' >= nextVal
    PROVE  FP!HandInv' /\ (FP!Done => FP!Done')
<1>1. UNCHANGED <<module, FP!graphVars, constantValuesToBeCreated, mapper, fmap, threw>>
  BY DEF frontendVars, FP!graphVars
<1> QED
  BY <1>1, FP!HandKept, SameAssumption

\* And its nodes.
LEMMA ParsedKept ==
    ASSUME UNCHANGED frontendVars
    PROVE  ParsedProgram'.code = ParsedProgram.code
<1>1. /\ module' = module /\ nodes' = nodes /\ mapper' = mapper
  BY DEF frontendVars
<1>2. \A b, i : InstrAt(b, i)' = InstrAt(b, i)
  BY <1>1 DEF InstrAt, Frontend!EntryCode
<1> QED
  BY <1>1, <1>2 DEF ParsedProgram, NodeInstr, WithNext

\* The counter is a number.
LEMMA HandValues ==
    ASSUME FP!HandInv
    PROVE  nextVal \in Nat
BY DEF FP!HandInv, FP!CfgInv, FP!ValueInv

\* While the frontend works, there is no state.
LEMMA ParseStep ==
    ASSUME WholeInv, Parse
    PROVE  WholeInv' /\ ~Started'
<1>1. ~Started /\ FP!Next /\ pool' = pool /\ crashed' = crashed
  BY SameNext DEF Parse, engineVars
<1>2. ~Started'
  BY <1>1 DEF Started
<1>3. FP!HandInv'
  BY <1>1, SameAssumption, FP!HandNext DEF WholeInv
<1> QED
  BY <1>1, <1>2, <1>3 DEF WholeInv

\* Facts of a state, and of the next state.
LEMMA StartsFollow == Starts /\ input \in Inputs => FollowInv /\ Run!Init
BY FollowStarts

LEMMA StartsFollowThen == Starts' /\ (input \in Inputs)' => FollowInv' /\ Run!Init'
BY StartsFollow, PTL

LEMMA InitIsMapped == Started /\ Finished /\ Handed /\ Run!Init => ModuleRun!Init
BY InitMapped

LEMMA InitIsMappedThen == Started' /\ Finished' /\ Handed' /\ Run!Init' => ModuleRun!Init'
BY InitIsMapped, PTL

\* The first state starts the run of the module.
LEMMA CreateStep ==
    ASSUME WholeInv, CreateFirstState
    PROVE  WholeInv' /\ ModuleRun!Init' /\ Started'
<1>1. /\ ~Started /\ FP!Done /\ nextVal <= MaxVal
      /\ program' = ParsedProgram /\ pool' = << FirstState(entryPointCfg) >>
      /\ worklist' = <<1>> /\ input' \in Inputs' /\ nextVal' = nextVal /\ crashed' = crashed
      /\ UNCHANGED frontendVars
  BY SameDone DEF CreateFirstState
<1>2. FP!HandInv' /\ FP!Done'
  <2>1. nextVal \in Nat
    BY HandValues DEF WholeInv
  <2>2. nextVal' \in Nat /\ nextVal' >= nextVal
    BY <1>1, <2>1
  <2> QED
    BY <1>1, <2>2, FrontendKept DEF WholeInv
<1>3. /\ program'.entry = entryPointCfg /\ program'.code = ParsedProgram.code
      /\ program'.globals = mapper /\ program'.functions = fmap /\ program'.nextVal = nextVal
  BY <1>1 DEF ParsedProgram
<1>4. Handed'
  BY <1>1, <1>3, ParsedKept DEF Handed, frontendVars
<1>5. Starts'
  <2>1. WellFormed(ParsedProgram)
    BY <1>1, ParsedWellFormed DEF Finished, WholeInv
  <2>2. WellFormed(program)'
    BY <1>1, <2>1
  <2>3. crashed' = FALSE
    BY <1>1 DEF WholeInv
  <2> QED
    BY <1>1, <1>3, <2>2, <2>3 DEF Starts, FirstState
<1>6. FollowInv' /\ Run!Init'
  BY <1>1, <1>5, StartsFollowThen
<1>7. Started'
  BY <1>1 DEF Started
<1>8. ModuleRun!Init'
  BY <1>2, <1>4, <1>6, <1>7, InitIsMappedThen DEF Finished
<1> QED
  BY <1>2, <1>4, <1>6, <1>7, <1>8 DEF WholeInv

\* The engine never has no state.
LEMMA FollowStarted ==
    FollowInv => Started
<1> SUFFICES ASSUME FollowInv PROVE Started
  OBVIOUS
<1>1. PICK r \in Ids : Leaf = pool[r]
  BY LeafFacts
<1> QED
  BY <1>1 DEF Started, Ids
LEMMA FollowStartedThen == FollowInv' => Started'
BY FollowStarted, PTL

\* The engine explores one program, and only adds to the ids.
LEMMA EngineKeeps ==
    ASSUME FollowInv, [FNext]_<<vars, input>>
    PROVE  program' = program /\ nextVal \in Nat /\ nextVal' \in Nat /\ nextVal' >= nextVal
<1>1. EngineInv /\ [Next]_vars
  BY DEF FollowInv, FNext
<1>2. program' = program
  BY <1>1, NoopStep, CreateUnknownStep, CastStep, AbortStep, BranchStep, CallStep, RetStep,
     CrashOnOperandStep DEF Next, vars, Explores, ExecuteTerminal, Crash
<1>3. nextVal \in Nat
  BY <1>1, NextValNat DEF EngineInv
<1>4. nextVal' = nextVal \/ nextVal' = nextVal + 1
  BY <1>1 DEF Next, vars, ExecuteTerminal, Noop, CreateUnknown, Cast, Abort, Branch, Call, Ret,
     Crash, CrashOnOperand
<1> QED
  BY <1>2, <1>3, <1>4

\* What the engine does is what the module does.
LEMMA ExploreStep ==
    ASSUME WholeInv, Started, [FNext]_<<vars, input>>, UNCHANGED frontendVars
    PROVE  WholeInv' /\ (ModuleRun!Next \/ UNCHANGED ModuleRun!run)
<1>1. FP!HandInv /\ FP!Done /\ Handed /\ FollowInv
  BY DEF WholeInv
<1>2. /\ program' = program /\ nextVal' \in Nat /\ nextVal' >= nextVal
  BY <1>1, EngineKeeps
<1>3. FP!HandInv' /\ FP!Done'
  BY <1>1, <1>2, FrontendKept
<1>4. Handed'
  BY <1>1, <1>2, ParsedKept DEF Handed, frontendVars
<1>5. FollowInv' /\ (Run!Next \/ UNCHANGED Run!run)
  BY <1>1, FollowNext
<1>6. Started'
  BY <1>5, FollowStartedThen
<1>7. Follows
  BY <1>1, <1>6, ExploreFollows DEF Finished
<1>8. ModuleRun!Next \/ UNCHANGED ModuleRun!run
  BY <1>1, <1>5, <1>7, StepMapped, StutterMapped
<1> QED
  BY <1>3, <1>4, <1>5, <1>6, <1>8 DEF WholeInv

\* What FollowsModule asks of a step.
FollowsStep ==
    IF Started THEN ModuleRun!Next \/ UNCHANGED ModuleRun!run ELSE Started' => ModuleRun!Init'

\* Every step of the whole.
LEMMA WholeNext ==
    ASSUME WholeInv, [WNext]_wholeVars
    PROVE  WholeInv' /\ FollowsStep
<1>1. CASE Parse
  BY <1>1, ParseStep DEF Parse, FollowsStep
<1>2. CASE CreateFirstState
  BY <1>2, CreateStep DEF CreateFirstState, FollowsStep
<1>3. CASE Explore
  BY <1>3, ExploreStep DEF Explore, FollowsStep
<1>4. CASE UNCHANGED wholeVars
  <2>1. UNCHANGED <<program, pool, worklist, localStates, crashed, input, nextVal>>
        /\ UNCHANGED frontendVars
    BY <1>4 DEF wholeVars, engineVars
  <2>2. [FNext]_<<vars, input>>
    BY <2>1 DEF vars
  <2>3. CASE Started
    BY <2>1, <2>2, <2>3, ExploreStep DEF FollowsStep
  <2>4. CASE ~Started
    <3>1. ~Started'
      BY <2>1, <2>4 DEF Started
    <3>2. nextVal \in Nat
      BY HandValues DEF WholeInv
    <3>3. nextVal' \in Nat /\ nextVal' >= nextVal
      BY <2>1, <3>2
    <3>4. FP!HandInv'
      BY <2>1, <3>3, FrontendKept DEF WholeInv
    <3> QED
      BY <2>1, <2>4, <3>1, <3>4 DEF WholeInv, FollowsStep
  <2> QED
    BY <2>3, <2>4
<1> QED
  BY <1>1, <1>2, <1>3, <1>4 DEF WNext

\* The invariant, whatever the module.
LEMMA WholeInvariant == WSpec => []WholeInv
<1>1. WholeInv /\ [WNext]_wholeVars => WholeInv'
  BY WholeNext
<1> QED
  BY WholeInit, <1>1, PTL DEF WSpec

\* The frontend hands over what the engine relies on, of any module it accepts:
\* the assumption that the proofs of the engine make on its programs.
THEOREM ProgramsWellFormed == WSpec => []HandsOverWellFormed
<1>1. WholeInv => HandsOverWellFormed
  BY DEF WholeInv, FollowInv, EngineInv, PoolInv, HandsOverWellFormed
<1> QED
  BY WholeInvariant, <1>1, PTL

\* So the engine's guarantees hold of every module: no state is lost, the
\* exploration is depth first, and each run is followed by exactly one path.
THEOREM ModuleExplored == WSpec => [](Started => NothingLost /\ DepthFirst /\ OnePathPerRun)
<1>1. WholeInv => (Started => NothingLost /\ DepthFirst /\ OnePathPerRun)
  BY DEF WholeInv, FollowInv, EngineInv
<1> QED
  BY WholeInvariant, <1>1, PTL

\* The path that stands for a run of the module does what the module says, from
\* block to block, through branches, loops, calls by name and through pointers,
\* and returns: the frontend's graph has the module's meaning in the engine.
THEOREM ModuleFollowed == WSpec => FollowsModule
<1>1. WholeInv /\ [WNext]_wholeVars =>
         [IF Started THEN ModuleRun!Next \/ UNCHANGED ModuleRun!run
          ELSE Started' => ModuleRun!Init']_wholeVars
  BY WholeNext DEF FollowsStep
<1> QED
  BY WholeInvariant, <1>1, PTL DEF WSpec, FollowsModule
================================================================================
