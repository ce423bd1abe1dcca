# A verification of Angie in TLA+

Angie is a static analyser of C programs. It takes LLVM bitcode, turns every
function into a control-flow graph of operations, and executes them abstractly:
memory is a *symbolic memory graph* (SMG), numbers are ids in a container of
constraints, and a branch whose condition is not known is followed on both sides.
It reports invalid dereferences and wrong frees.

This directory models the parts of Angie that decide what is reported. All paths
below are relative to the repository; the C++ code is in `src/`. Line numbers in the
table of definitions (`PROJECT.json`, "map") are those of the modelled commit.

## 1. Inventory

| component | state | operations |
|---|---|---|
| Control-flow graph construction (`LlvmFrontend.cpp`, `CfgNodeBase.hpp`) | `copyMapping` (block to node), `parseAndLinkTogether` (queue of planned blocks), `constantValuesToBeCreated`, the nodes and their `next`/`nextFalse`, the global mapping and the functions | `ParseModule`, `ParseFunction`, `ParseBasicBlock`, `LinkWithOrPlanProcessing`, `CreateEmpty`, `Insert*`, `LinkTogether*`, `DealWithConstants` |
| Exploration engine (`main.cpp`, `StateStorage.hpp`, `IState.hpp`, `Operation.hpp`) | pool of all states, worklist, list of states per node; per state: node, mapping, stack, container, graph | `VerificationLoop`, `WorklistDequeue`, `InsertAndEnqueue`, `SafelyExecuteAndEnque`, the operation classes |
| Memory operations (`MemoryGraphAnalysis.hpp`) | the state they are given | load, store, alloca, malloc, memset, free, getelementptr, bitcast, compare, call, return |
| Symbolic memory graph (`Smg/Graph.hpp`, `Object.hpp`, `Edge.hpp`) | `handles`, `objects`, two vectors of edges in every object | `AllocateRegion`, `FindPtEdge`, `CreateDerivedPointer`, `ReadValue`, `WriteValue`, `Memclear`, `Free` |
| Value container (`ValueContainerV1.cpp`, `Values.hpp`) | constants, constraints by id, per value the ids of its constraints | `Assume*`, `IsCmp`, `IsZero`, `IsTrue`, `IsFalse`, `IsInternalRepEq`, `BinOp`, `ExtendInt`, `TruncateInt`, `BitNot`, `CreateVal*`, `CreateConst*` |
| Abstraction (`Smg/Abstraction.hpp`) | the segments it adds to a graph | `LookForCandidates`, `IsCandidateObject`, `JoinTwoRegions` (the one call, `MemoryGraphAnalysis.hpp:95`, is commented out) |
| Crawler, printer, wrappers (`SmgCrawler.cpp`, `SmgPrinter.cpp`, `SmgUtils.hpp`, `Smg/Wrappers.hpp`) | a set of visited objects, the drawing | traversal and plotting of a graph, on `__ANGIE_DIAGNOSTICS_PLOT_MEMORY` |
| Z3 container (`ValuesZ3.cpp`), forward null analysis, types, command line, vendored helpers | | built out, dead, or queries without state |

**How they interact.** Everything runs in one thread. The frontend is called once
and hands over the entry node. `VerificationLoop` takes a state from the head of the
worklist, asks the state's node for its operation and calls it. The operation makes
a successor state by copying the whole state (container, graph, stack and mapping are
copied by value; ids come from global counters), changes the copy, and inserts it in
the pool, in the worklist and in the list of the node. Errors travel as exceptions:
`AnalysisErrorException` ends the path, `BranchException` drops one side of a branch,
and `NotSupportedException` is caught by nobody and ends the analysis.

**What is hard.** There are no threads, messages or crashes to recover from. What is
hard here is *long histories*: an SMG keeps redundant, duplicated and disabled edges
and always believes the first it finds; constraints are replaced by others and looked
up in an index that deletion has to keep in step; the frontend links blocks that do
not exist yet; the engine throws from many places while a state is half processed; and
a path is correct only in relation to a run of the program that nobody executes. The
list of hazards, each at its line and with the properties that cover it, is in
`PROJECT.json`.

**What makes each component correct.**

- Frontend: a block is parsed once however many branches lead to it; every branch is
  linked to its block, once; the queue runs empty; what can be reached is parsed; every
  operand has a value when the engine comes to it; a module is refused only for what it
  cannot deal with; what the engine does with the nodes is what the module says.
- Engine: no state is lost or processed twice on any exit of the loop body; the order
  is depth first; each run of the program is followed by exactly one path, step by
  step; when all runs end, all are followed to their ends.
- SMG: an edge never leads to an erased object; a value denotes one place until that
  place is freed; a stored pointer and its handle agree; what is read is what was last
  written; every misuse is reported as what it is, and nothing else is.
- Abstraction: a segment stands for nodes that really are linked; a walk out of it goes
  where it went before; nothing is left pointing to the nodes it replaced.
- Crawler, printer: a plot ends, on cyclic graphs too, and shows all that can be reached.
- Container, arithmetic: a constant is the value that the register has in every run, at
  the register's own width; a result that wrapped although it must not is unknown.
- Container, constraints: the index and the constraints agree; an answer follows from what was
  assumed; a branch is taken exactly when some values allow it.

## 2. The modules

```
SmgEdges ── SmgGraph ─┬─ SmgMemory ── MCSmgMemory       PointerMemory (promise of SmgMemory)
   │           │      └─ Abstraction ── SmgCrawler ── MCSmgCrawler
   └───────────┴─ SmgGraphProofs ─┬─ SmgMemoryProofs    (proofs)
                                  └─ AbstractionProofs  (of Abstraction and SmgCrawler)

Operations ── VerificationLoop ── FollowRun ── MCFollowRun   ConcreteProgram (promise of FollowRun)
   │                                  │    └─ AnalysedPrograms
   │              CfgBuilder ── WholeAnalysis ── MCWholeAnalysis
   │                   ├─ MCCfgBuilder
VerificationLoopProofs └─ CfgBuilderProofs              (proofs)
   └───────────────────────────┴─ WholeAnalysisProofs

InstructionArgs ── IntegerValues ── MCIntegerValues     LlvmIntegers (promise of IntegerValues)

Selection ── ValueContainer ── MCValueContainer         (constraints)
                   └─ ContainerProofs                   (proofs)
```

`Induction` has the one principle of induction the proofs need (`NatHasLeast`), what it
gives for a selection from a sequence, and facts about concatenations; `SmgGraphProofs`,
`VerificationLoopProofs`, `ContainerProofs` and `CfgBuilderProofs` extend it. `Selection`
is `SelectIn`, the subsequence of the elements in a set, as a recursive function; the
container and the frontend use it.

`WholeAnalysis` is the composition: it extends the engine with the run it follows, and
has the frontend and the semantics of programs as instances.

### SmgEdges, SmgGraph: the symbolic memory graph of one path

`SmgEdges` has the linear searches over a vector of edges (`FindByOffset`,
`FindByValue`: the first match counts) and `Redirect`, the loop of `Graph::Free`.
`SmgGraph` has one action for each memory instruction:

| action | code |
|---|---|
| `Alloca`, `Malloc` | `AllocateRegion` as called by `MemGraphOpAlloca` and `MemGraphOpMalloc` |
| `LoadInt`, `LoadPtr` | `MemGraphOpLoad`, with `ReadValue` and the value made up for an uninitialised cell |
| `StoreInt`, `StorePtr` | `MemGraphOpStore`, `WriteValue`; a pointer of unknown origin goes to the plain cell and disables the old edge |
| `Gep`, `GepUnknown`, `BitCast` | `MemGraphOpGetElementPtr`, `MemGraphOpCast`, `CreateDerivedPointer` |
| `Memclear`, `CmpPtr` | `MemGraphOpMemset` with zero, `MemGraphOpCmp` on pointers |
| `FreeObject`, `FreeNull`, `FreeFault`, `AccessFault` | `Graph::Free`, and every `AnalysisErrorException` of an access |

The graph of a path is what its last state holds: a failing instruction works on a
copy that is thrown away, so `status` alone records it. `heldPtrs` and `heldInts` stand
for the registers: an instruction may use any value a register of that type can hold.
`handles`, `objects`, `consts`, `nextVal` and `nextObj` are the fields of the same
meaning in the code; `hv` and `pt` of an object are its `hvEdges` and
`ptEdges`.

### PointerMemory, SmgMemory: what the graph promises

`PointerMemory` has no edges. A pointer value denotes one *place* (object and offset)
for ever; objects are live, then dead; each place holds the value last written. Each
operation says which place is read or written, and `Fault` which error a pointer
deserves. `SmgMemory` maps the graph to it. Which object a freed pointer was made for
cannot be seen in the graph, so a history variable `origin` remembers it; it is only
written, and does not restrict the graph's steps. `PointerMemory` has separate cells
for pointers and for plain values, as has the graph: a value stored at one type and
read at the other is not reinterpreted (`Graph.hpp:259` has it as a TODO), and stating
it as separate cells says exactly which reads are affected.

### Abstraction, SmgCrawler: list segments and plots

`Abstraction` extends the graph with `LookForCandidates`: the first object, in the order
of ids, with an edge to an object of its size that has an edge back to the same offset
(`LinksBack`) is joined with it. `JoinTwoRegions` makes the segment from the next field
of the one and the previous field of the other and redirects every edge into them. The
call after every store is commented out in the code, so the model lets a search happen
at any moment, and the program goes on with what it left: instructions take a segment
for a region, as `Graph.hpp` does.

`SmgCrawler` is the instruction `__ANGIE_DIAGNOSTICS_PLOT_MEMORY`. The visitors call
each other recursively; the calls still to be made are the sequence `todo`, one
`VisitPtEdge` is one call of `Visit(PtEdge)`, and `picture` is what the printer has
drawn: boxes, fields and arrows. The text is left out.

### Operations, InstructionArgs: the instructions of a program

Programs are given as LLVM instructions, and what the analysis makes of them is part of
the model. `Operations` is the frontend's `GetOperationFor` followed by the
`MemGraphOpFactory`, which lets one operation serve several methods: `exit` ends a path
as `abort` does, the `__ANGIE_fin` at the end of every program is a no-op, `invoke` is
not supported. `InstructionArgs` is the part of `GetOperArgsForInstr` that gives integer
instructions their kind and their flags. `VerificationLoop` dispatches on the first,
`IntegerValues` on both.

### VerificationLoop: the engine

The state of the engine is the pool, the worklist (indices into the pool), the lists
per node and the id counter. Each action is one iteration of the loop: dequeue, mark
explored, run the operation of the node, insert all its successors; the exceptions are
the exits `Abort` (analysis error), the missing sides of `BranchSides` (branch
exception) and `Crash` (not supported). A state carries the node, the mapping of the
running function, the call stack and what was assumed of unknown truth values; its
memory graph is the subject of `SmgGraph`. Constants and functions have their ValueIds in
the global mapping, which the frontend made, and a call is by the value of its callee: a
name, or a register that holds a pointer to a function. An operand without a value
(`Mapper::GetValueId` throws `out_of_range`, which nobody catches) ends the analysis when
the state is already marked (`CrashOnOperand`). A return with no caller, or a branch from
`__entry`, cannot be met: `WellFormed` says what `ParseModule` hands over, an entry node
that calls main and a second one that ends the program, and `ProgramsAssumption` asks it
of every program analysed. The container of a state is reduced to
`known`, which `BranchesExact` of `ValueContainer` shows to be right for branches.

### ConcreteProgram, FollowRun, AnalysedPrograms

`ConcreteProgram` is the semantics of the analysed programs, reduced to control:
registers, calls, branches, and values the environment chooses; instructions and library
functions mean what LLVM and C say. A run that calls `exit` or `abort` has stopped; the
analysis reports both as an error (`MemGraphOpFactory::Exit`), and so the model tells
them apart from a run that goes on, not from each other. `FollowRun` fixes one
run beforehand (`input`, which the engine does not see), and maps the engine to that
run: the state that no consistent successor continues is where the run has come to.
`AnalysedPrograms` are the programs TLC analyses.

### ValueContainer

Constraints by id, the ordered vectors of ids per value, deletion of obsolete
constraints on insertion, the queries with their first-answer-wins loops, and the
branch operation's use of them. `models` is a history variable: the assignments of
integers that satisfy all that was assumed; soundness of an answer is stated against
it. Values have one signed type. The assumptions on the constants: two constants differ
(`CreateConstIntVal` gives an integer that exists its old id), zero is one of them, and a
value may be something other than zero.

### IntegerValues

A constant of the container is a 64-bit word whatever its type. Operations leave bits
beyond the width in it (`7 + 1` in three bits is the word 8), truncation cuts nothing,
and registers of all widths with one word share one id: the container relies on every
later operation ripping the word to its own width. The module follows one path: each
step is one LLVM instruction on any registers of its operand type. `Execute` takes it
through `OperationFor` and `InstructionArgs` to `BinOp`, `Cmp` or the analysis' `Cast`
with `TruncateInt`; `CreateUnknown` is a call of an unknown function. `BitNot` and
`ExtendInt` are steps of their own (`DirectCalls`): no instruction of integers reaches
them. Unsigned `ExtendInt` is what `MemGraphOpAlloca` and `MemGraphOpMalloc` make of the
size they are given (`MemoryGraphAnalysis.hpp:275`, `:287`); signed `ExtendInt` and
`BitNot` belong to the container's interface and have no caller today. Every register carries its
`truth`, the value it has in one run of the program by the rules of LLVM
(`LlvmIntegers`), which the container does not see; the value of an unknown register is
any, once for all. `WordBits` stands for 64. `int64_t` arithmetic of the
code that can overflow is taken to wrap, as it does in the builds of the repository.

### CfgBuilder

An LLVM module is its functions, with or without a body, and for each block its
instructions and its terminator. `ModulesAssumption` (`IsModule`) has what LLVM's verifier
guarantees of it and the parser relies on. `ParseFunction` and `PrependEntry` are the parts of
`ParseModule` before its loop, `LinkKnown` and `ParseAndLink` the two cases of the
loop's body, `DealWithConstant` one turn of the walk over the constants, which give
operands their ValueIds: 0, 1 and null an id that exists, a string a new unknown value, a
function the id it has. What cannot be translated (a floating-point comparison, an
unknown intrinsic, a global variable, `undef`, a function without a body as an operand,
a module without `main` or without any function) throws (`Throw`), and nobody catches. `nodes` are the nodes in
the order of their creation; a terminal node is one that was created by `CreateEmpty`
and not used yet; node 0 is the null pointer.

### WholeAnalysis

`Verify` of `main.cpp`: `Parse` is a step of the frontend, `CreateFirstState` builds the
engine's program from what the frontend left (the nodes with the instructions they stand
for, the mapping, the functions, the next free id), `Explore` is a step of the engine.
`ModuleProgram` is the same LLVM module read directly, as blocks and names, and
`ModuleRun` is `ConcreteProgram` on it: the path that `FollowRun` follows is mapped back
from nodes to places in blocks (`Place`), so that nothing of the frontend is in the
abstract run. `WholeAssumption` adds to `IsModule` that the casts of a module are those
that keep the value (`zext`, `bitcast`): the control model has truth values only, and
truncations and sign extensions are the subject of `IntegerValues`.

## 3. The runs

| run | what TLC explores | what it shows |
|---|---|---|
| `memory_all` | all memory instructions, 2 objects, 5 ids (0 to 4), 4 handles, 1 edge per object: 144 032 states | `TypeOK`, `HandlesAgree` (duplicates agree), `DenotationStable` (only free changes what a value denotes), `ImplementsPointerMemory` |
| `memory_links` | allocation, pointer loads and stores, derived pointers and free, 2 edges per object: 54 854 states | `NoDanglingTarget`, `StoredEdgesAgree`, `ImplementsPointerMemory` with objects that point to each other |
| `null_derived` | address computations | finding, see below |
| `exploration` | 580 programs and every run of each, with fairness: 41 904 states | `TypeOK`, `NothingLost`, `DepthFirst`, `OnePathPerRun`, `FollowsRun`, and for the programs all of whose runs end `FollowsToTheEnd` |
| `container` | three kinds of callers: branches on 4 unknown values and 2 constants in any order; four assumptions about pairs of which the first has the smaller id; three assumptions about pairs in either order: 113 843 states | `BranchesExact` (a side is taken exactly when some values allow it), `SortedAnswersSound` (answers follow from the assumptions), `IndexConsistent`, `OneConstraintPerPair` |
| `container_zero` | | finding, see below |
| `cfg_building` | all 3-block functions before or after a second function, with and without instructions before the terminator, and constants of three kinds; modules with one block that is refused, with and without a way to it, without `main` and without any function: 76 605 states | `TypeOK`, `ParsedOnce`, `NoBranchLost`, `ParsesTheModule` |
| `whole` | frontend and engine together on 149 modules, every run of each, with fairness: 32 189 states | `HandsOverWellFormed` (what the engine assumes of a program is what the frontend hands over), `OperandsHaveValues`, `FollowsModule` (refinement of the module's own semantics), `AnalysesToTheEnd` |
| `lists` | malloc, getelementptr, pointer stores and free on 2 nodes, with searches and plots at any moment, with fairness: 490 364 states | `NoDanglingTarget`, `StoredEdgesAgree` (survive the joins), `SegmentsReplaceLists`, `PlotShowsAll`, `PlotEnds` |
| `integers` | two instructions in a row on all constants of 3 bits, the limits of 6 bits and an unknown argument, words of 6 bits: 81 594 states | `TypeOK`, `ConstantsTrue`, `SameIdSameValue`, `WrapIsUnknown` |
| `integers_wrap`, `integers_sext` | one multiplication, one extension | findings, see below |

**Bounds, and why they are enough.**

- `MaxObj = 2`: two objects that point to each other, or one that outlives another,
  are the most that a redirect or a stored pointer can tell apart. `MaxHandles = 4` has
  room for null, two objects and one duplicate or derived edge; `MaxEdges` per object is
  1 where all instructions are allowed and 2 where overwritten (disabled) edges matter.
  `MaxConst = 1` gives the constants 0 and 1 in place of the thousand of the code: null,
  and one offset. When a bound is reached the action is disabled, so a run may stop
  there; these runs therefore do not check deadlock.
- Engine: `MaxVal` and `MaxStates` bound what an endless program produces; the other
  programs stay below them. Two branches behind a call or a copy give
  all combinations of correlated, independent and known conditions; `BoundedLoop` and
  `EndlessLoop` add loops, the function `f` a recursive call on interleaved paths.
- Container: four values around zero separate all six relations to the constants 0 and
  1, and three or four assumptions build a constraint, replace it, and ask again.
- Arithmetic: words of six bits. Products of 3-bit numbers fit in a word, as those of
  C's `int` do, and 6-bit numbers fill it, as `long` does. One instruction produces a
  word with bits beyond its width, an id shared by two types or an unknown value; the
  second one has to cope with it. `Correct` in `MCIntegerValues` leaves out what is known
  not to hold (see the hazards): the test of signed overflow except for 3-bit addition,
  the arithmetic shift of a whole word, and extensions by `MemGraphOpCast` except from
  one bit, where a comparison leaves nothing beyond the width.
- Lists: two nodes, of two fields, are the smallest list and one segment
  (`MaxSegment = 3`) the first that is made; the segment that results has itself as its
  neighbour, which is the cyclic case. `MaxEdges = 2` has one edge for each field, or an
  overwritten one beside the new; `MaxHandles = 5` has null, the nodes and a pointer
  into each. Pointer loads would multiply the states by eight without a new kind of
  graph and are left out.
- The whole analysis: up to seven blocks, with `MaxVal = 8` and `MaxStates = 30`. A main
  with a branch over blocks that are shared, planned twice, in a loop or not reached, a
  function before or behind it that branches too, operands of every kind of constant,
  calls by name and through a pointer, and one of each kind of refusal, by the frontend
  and by the engine. Only the endless programs meet the bounds.
- Frontend: three blocks give every shape of one branch, a loop, a branch to a block
  that is planned twice, and both sides of a branch to one block; the second function
  shows that the queue is shared. Each kind of refusal is put into a block that some of
  the modules reach and some do not, so that both halves of `ParsesTheModule` are met.

**Deadlock** is not checked where the program stops by design: an analysis ends with an
empty worklist, a parser with an empty queue, a path at its error.

**Fairness.** `FFairSpec`, `WSpec` and the specification of `CfgBuilder` assume weak
fairness of the whole next-state relation and nothing finer. In the code each is a
`while` loop of a single thread with no wait in it: as long as there is work it takes the
next step. No scheduler choice is assumed fair: which state comes next is the worklist's
order, which is part of the model. `FollowsToTheEnd` and `AnalysesToTheEnd` are stated
for the programs all of whose runs end (`Terminates`), because depth first order starves
the sibling of an endless path in the code as in the model; endless loops are explored,
but not among them. `CSpec` is fair to the steps of a crawl alone: a crawl is a recursion
that runs to its end before the next instruction, while the program and the searches for
lists need not go on.

## 4. What disagrees

- `null_derived`: `CreateDerivedPointer` says it "returns new pointer to different field
  [baseOffset + offset, type] of the same object" (`Graph.hpp:93`), but adds the base
  offset to the base *pointer* again (`Graph.hpp:98`). Null has a number as its value,
  and so have pointers derived from it; deriving 1 twice gives offset 2 and value 3.
- `container_zero`: `IsZero` reads every constraint of a value as "value relation
  constant" (`ValueContainerV1.cpp:471`), also those stored the other way round. After
  `Assume(1, v, Gt)`, which allows v = 0, it answers that v is not zero, against the
  contract in `Values.hpp:95`. `Assume` is public, but the analysis itself only assumes
  `Neq` and `Eq` with zero, whose order does not matter, so no path of it is wrong today.
- `integers_wrap`: the overflow test of a multiplication with `nsw` compares the bits of
  the magnitudes with the whole width, which leaves none for the sign
  (`ValueContainerV1.cpp:622`). 2 * 2 in three bits, or 2 * 1073741824 in 32, becomes a
  constant, although the flag says "Undefined on signed overflow" (`General.hpp:95`) and
  the test is there to return an unknown value then.
- `integers_sext`: `MemGraphOpCast` keeps the id of what it extends ("TODO: hack!",
  `MemoryGraphAnalysis.hpp:406`) and does not call `ExtendInt`, so a negative constant
  becomes a large positive one; by `Values.hpp:165` only unsigned extensions are no-ops.

Seen while modelling, and not made into runs, since nothing in the repository promises
otherwise or nothing depends on it: pointers are compared by id although one place can
have several ids (`MemoryGraphAnalysis.hpp:218`, the comment there says so);
`LinkTogetherTrue` and `LinkTogetherFalse` push the target into its own list of
predecessors (`LlvmFrontend.cpp:151`), which nothing reads; a constraint of a value with
itself is listed twice and its deletion throws (`ValueContainerV1.cpp:193`, `:201`);
successors are filed with the node of their predecessor (`Operation.hpp:54`), which will
matter once states of a node are compared; and further boundaries of `BinOp` (signed
subtraction from zero, both no-wrap flags at once, exact divisions, a 64-bit arithmetic
shift by zero), which are in the list of hazards at their lines.

Of the abstraction, which is unfinished and switched off: disabled edges, and edges that
a lookup by offset no longer finds, count as links (`Abstraction.hpp:75`), so objects
that are no longer linked may be joined; if the next and the previous field are one, the
segment has that field twice and a later overwrite changes only the first
(`Abstraction.hpp:168`); what else the joined nodes held is lost, with their memory space;
a node or segment that is linked to itself remains a candidate for ever; `minLength` is
always 2. `SegmentsReplaceLists` states what holds beside these. Of the printer: names of
fields are made from ids without a separator and can coincide (`SmgPrinter.cpp:98`), and
`tests/SmgPrinterUnitTest.cpp:72` expects one object in a new graph where the constructor
makes three.

## 5. What is proved

TLAPS proves each theorem below for every value of the constants: any number of
objects, values, edges and handles, any constants and offsets, any program. The
assumptions are those that the modules state about their constants, by name, and that
TLC evaluates in the runs.

### The graph (`SmgGraphProofs`)

- `TypeCorrect`: `Spec => []TypeOK`. Every id that occurs anywhere was given out before,
  so a new id is new everywhere. This is what makes first-match lookup by value
  meaningful.
- `NoDanglingCorrect`: `Spec => []NoDanglingTarget`. After any history no edge, whether
  in the handles or in an object, visible, duplicated or disabled, leads to an erased
  object; the code looks objects up with `objects.at`, which would throw.
- `StoredEdgesCorrect`: `Spec => []StoredEdgesAgree`. What is stored in an object, also
  under an offset that has been overwritten, is known to the handles and has the target
  that they give it.
- `HandlesCorrect`: `Spec => []HandlesAgree`. The duplicates that loads and derived
  pointers leave in the handles never contradict each other.
- `DenotationCorrect`: `Spec => DenotationStable`. No step changes what a value denotes
  but the free of its object.

For the first two the inductive invariant is `GraphInv == TypeOK /\ NoDanglingTarget`.
Neither half stands
alone: to see that a step keeps ids in range one must know that the object an edge leads
to exists (its vectors are read and copied), and to see that a redirect removes *all*
edges into an object one must know that the special objects, to which it redirects, are
never erased, which is part of `TypeOK`. `TypesGrow` says that types only grow with the
counters; `FindPtEdgeType` and `AccessType` what a lookup returns; then there is one
lemma for each action (`AllocateInv`, `LoadIntInv`, …, `FreeObjectInv`), over
`KeepObjectsInv` for those that leave the objects alone and `UpdateObjectType` for those
that change one. The module starts with the facts about vectors of edges: what the first
match is after an append, an overwrite or a redirect, and that a redirect removes every
edge into its object.

The other three rest on `AgreeInv == GraphInv /\ StoredEdgesAgree /\ HandlesAgree`. A load
copies a stored edge to the handles, beside the one that is there for the same value, so
`HandlesAgree` is kept only because the stored edges agreed with the handles before
(`LoadPtrAgree`). The stored edges in turn rely on the first match of a value in the
handles: no instruction but the free changes it (`NextSearches`), and the free, which
visits the handles and the objects one after the other, redirects all of them by the same
rule (`FreeEdges`).

### The refinement of the abstract memory (`SmgMemoryProofs`)

- `MemoryImplemented`: `HSpec => ImplementsPointerMemory`, that is, `HSpec => Memory!Spec`.
  The initial graph maps to an initial memory, and each instruction on the vectors of
  edges is the one operation of `PointerMemory` that it should be, on the place that its
  pointer denotes, or the fault that the pointer deserves (`AllocateStep`, `GepStep`, …,
  `FreeStep`, one lemma for each action).

The inductive invariant `MemInv` adds to `GraphInv` and `StoredEdgesAgree` three things that the
mapping needs. `ConstInv`: the small constants exist and no two ids have one number, for
otherwise two cells of the graph would be one cell of the memory. `OriginInv`: the place
that a value denotes is the one it was made for, or the freed object when that one is
gone; this links the history variable to the handles. `OffsetsUnique`: an object has at
most one edge that is not disabled at an offset, so that "the first" is "the last
written"; it holds because a write disables or replaces what it finds, and is kept by
`Free` because a redirect does not touch offsets (`OffsetsAfterRedirect`). TLC found no
violation of the three on the small instance before they were proved.

### The graph with list segments, and its plots (`AbstractionProofs`)

- `AbstractionNoDangling`: `ASpec => []NoDanglingTarget`. At whatever moments and however
  often two regions are replaced by a segment, every edge that is left leads to an object
  that exists. The call is commented out in `MemoryGraphAnalysis.hpp:95`; this is what
  must hold before it is switched on.
- `AbstractionStoredEdges`: `ASpec => []StoredEdgesAgree`, over the same steps.
- `AbstractionReplacesLists`: `ASpec => SegmentsReplaceLists`. Two regions are replaced only
  if each leads to the other, head to head, and the segment leads on to where they led;
  the exception, an edge that no lookup finds any more, is part of the property, because
  the code really is misled by it.
- `PlotComplete`: `CSpec => []PlotShowsAll`. When a plot ends it has shown every object
  that can be reached, with all its fields and an arrow for each pointer.
- `PlottedGraphSound`: the first three of `CSpec`: plots change nothing.

`GraphInv` alone is not inductive here: the join erases two objects, and nothing in it
says that these are not the null, the unknown or the freed object. `SpecialsEmpty` adds
that no edge is ever stored in a special object, so that none can be half of a pair.
`NextSpecials` shows that no instruction breaks it (an access to a special object fails
first), `LinkedToType` that a candidate and its partner are allocated regions with the
fields the segment takes over, and `RedirectedType` that after the two redirections of a
join no edge leads into the pair. `AbsAgreeInv` adds `StoredEdgesAgree`. The join gives
the segment the links of the pair and forgets the rest; both redirections treat stored and
handle edges alike. `DenotationStable` is not a property of `ASpec`: a join moves what its
two nodes' pointers denote to the segment, and `SegmentsReplaceLists` says where to. That
it replaces lists only is shown per step (`LookForCandidatesReplaces`): what `LinksBack`
found in the vectors is what a lookup by offset finds, if no stale edge is in the way
(`LinkFound`), and `RedirectedEdges` follows the two edges that are copied to the segment
through both redirections.

The plot's invariant is `CrawlInv == AbstractionInv /\ Handled /\ (plotting => Crawling)`.
`Crawling` is the loop invariant of the recursion: what was visited has been drawn and can
be reached, and whatever the handles or a visited object lead to was visited or is still to
be, so that at the end `alreadyVisited` is closed under edges and contains `Reachable`, the
least such set (`ReachableClosed`, `CrawledAll`). `Handled`, that every object which was
allocated and not freed is led to by some handle, is what makes "all that can be reached"
mean "all": a new object comes with a handle, and frees and joins take handles only from the
objects that they erase.

### The engine (`VerificationLoopProofs`)

For any set of programs that are `WellFormed` and any bounds:

- `EngineTypeCorrect`: `Spec => []TypeOK`. A state is created, and explored, before its
  successors; values stay below the counter.
- `NothingLostCorrect`: `Spec => []NothingLost`. Through every exit of the loop body, the
  errors of the analysis among them, the states still to be explored are exactly those
  that wait, once each.
- `DepthFirstCorrect`: `Spec => []DepthFirst`. What waits behind a state was left behind
  on the path to it.
- `OnePathCorrect`: `Spec => []OnePathPerRun`. Every run of a program, that is every
  choice of its unknown values, is followed by exactly one path.
- `RunsFollowed`: `FSpec => FollowsRun`, that is, `FSpec => Run!Spec`. What happens on this
  path is what the program does (`ConcreteProgram`): every iteration of the loop is one step
  of the run that was fixed beforehand, or none.

The invariant is `EngineInv == PoolInv /\ NothingLost /\ DepthFirst /\ OnePathPerRun`.
`TypeOK` is not inductive: a return takes the last frame of a stack, which must be there.
`PoolInv` therefore says of each state (`StateOK`) that outside of any call it is at one of
the three nodes of `__entry` (`EntryNodes`), where no return is met, and that the
outermost frame returns to one of these. The other parts need each other: that a new
state is the only one that its runs have reached uses that the state which was executed
had no successors, which is the clause of `PoolInv` that a predecessor is never `New`,
and that the dequeued state is `New`, which is `NothingLost`. An iteration is treated
once, for any list of successors (`InsertPoolInv`, `InsertNothingLost`, `StepDepthFirst`,
`InsertOnePath`); each action then only shows that its successors are good ones and share
out the runs of the state (`NoopStep` to `CrashOnOperandStep`). `BranchStep` is the one
where the runs part. `Path` is a recursive function: `PathsDefined` shows that it exists,
by the least id for which it would not, since predecessors come first.

For the refinement, `Leaf` is the state that the run has reached: `OnePathPerRun` is what
makes it one state (`LeafFacts`). `LeafMoves` says once for all operations what an iteration
does to it: another state was executed and the leaf stays; or it was the leaf, and the leaf
is now the one successor that agrees with the run; or there is no successor, and the run has
stopped. Each operation then shows that this successor is what the program's step makes of
the leaf (`FollowBranch`, `FollowCall`, `FollowRet`, …). Two facts carry most of it:
`SameMeaning`, that an iteration does not change what ids mean in the run (an id once given
to an unknown value keeps its truth value), and `BranchTaken`, that the side on which the
leaf goes on is the one the run's value chooses. `WellFormed` is used where a name is looked
up: a function's address must be neither the id of a constant nor one of an unknown value.

### The container (`ContainerProofs`)

For any constants, integers and callers:

- `IndexCorrect`: `Spec => []IndexConsistent`, if no caller relates a value to itself. The
  vectors of a value list its constraints and no deleted one, each once, so that no lookup
  and no deletion throws. The hypothesis is needed: see the hazard at
  `ValueContainerV1.cpp:193`.
- `OnePerPairCorrect`: `Spec => []OneConstraintPerPair`, for all callers.
- `SortedAnswersCorrect`: `Spec => []SortedAnswersSound`. After any number of assumptions
  `IsCmp` and `IsInternalRepEq` tell callers that sort nothing but what follows.
- `BranchesCorrect`: `Spec => []BranchesExact`. While there are only branches, the
  container decides a branch exactly when the branches before it do. This is what allows
  `VerificationLoop` to keep, in place of the container, the truth values that were assumed.

The invariant is `ContainerInv == IndexInv /\ OneConstraintPerPair /\ ModelsInv`, where
`IndexInv` adds to the index that the vectors have no id twice (or `DeleteConstraint`
would be called twice for it) and that ids are below the counter, and `ModelsInv` says
that what is stored is true under all that was assumed: a deletion forgets facts, and never
makes one up. `FirstAnswerFrom` is the loop over a vector, `WithConstantSound` and
`BetweenSound` the two kinds of answers; the second needs the order of the callers, the
first does not. For the exactness of branches `BranchInv` adds that there is at most one
constraint for a value, with zero, and that together they say *all* that was assumed: the
first branch deletes nothing (`FreshInsertion`), and a later one on the same value is
already decided (`UnknownBranch`). `ModelExists` gives the integers that show that a path
never contradicts itself and that an undecided value can be either.

### The frontend (`CfgBuilderProofs`)

For any set of modules that are as LLVM makes them (`ModulesAssumption`: a `br` has one
target, or two and a condition, none of which is the entry block of a function, and no two
functions have one entry block or one name):

- `CfgTypeCorrect`: `Spec => []TypeOK`. At every moment of the parse only terminal nodes
  have no next node, and all links, plans and ids are in range.
- `ParsedOnceCorrect`: `Spec => []ParsedOnce`. However many branches lead to a block and in
  whichever order they are met, its instructions have one node each, chained in order.
- `NoBranchLostCorrect`: `Spec => []NoBranchLost`. Each side of each branch is linked to its
  block or waits in the queue once, and `LinkTogether` never throws its `runtime_error`.

The invariant is `CfgInv`. Its core is `GraphInv(g, f, q)`, stated for any graph, mapping
and queue rather than for the variables, since working off a plan first adds the nodes of a
block (`AddBlock`) and then links the plan (`LinkGraph`), and the invariant has to be known
of the graph in between. `NodesInv` says whose each node is, and that no two nodes are the
same instruction; `BlockInv` where the nodes of a block lie and that the sides of its branch
are linked or planned (`SideInv`); `QueueInv` that each plan is for one side of one branch
and is there once. `NoBranchLost` alone is not inductive. That the new links of one branch do
not touch the side of another that still waits is what `OwnTerminal` adds: the terminal node
of a waiting side is no other node's successor and not the first node of a block, although an
empty block does start at a terminal node. That the entry block of a function cannot have
been parsed already, which the code does not check where it parses a function, is
`ParsedInv` with the assumption on entry blocks: a block is parsed as an entry or because a
branch leads to it.

What the finished graph is like is a second layer of the invariant, `LinkingInv`, and
`HandInv == CfgInv /\ LinkingInv`. `LayoutInv` says where in the vector a block lies:
start node, terminal node, then one node for each instruction; `EntryInv` the same of
`__entry`. `NamesInv` says that the names with ids are constants, the unknown values and the
functions that are parsed, each function with an id of its own; `OperandsInv` that a constant
operand of a parsed block has an id or is queued for one. `Grows` is what a step does to the
graph, nodes added and open branches linked, and layouts survive it (`GrowsLayout`). From
these, `BlockStartsAt` and `NodeLeadsTo` give what a reader of the graph sees: where a block
starts, and where each node leads.

### Frontend and engine together (`WholeAnalysisProofs`)

For any set of modules that satisfy `WholeAssumption`:

- `ProgramsWellFormed`: `WSpec => []HandsOverWellFormed`. What the proofs of the engine
  assume of a program, the frontend provides: `ProgramsAssumption` is not an assumption
  about the analysis any more.
- `ModuleExplored`: hence no state is lost, the exploration is depth first and every run is
  followed by one path, of every module.
- `ModuleFollowed`: `WSpec => FollowsModule`. The path that stands for a run does what the
  LLVM module says, block by block. This is the statement that no step of the pipeline, from
  the blocks of the source to the states of the engine, changes what the program does.

The invariant is `WholeInv`: `FP!HandInv` of the frontend, and once there is a state,
`FollowInv` of the engine, for a program that is the one parsed (`Handed`). The engine's
proofs enter by `FollowStarts` and `FollowNext`, which ask only that the first state is
created as `Starts` says; the frontend's by `HandInit`, `HandNext` and `HandKept`, the last
of which says that the engine's use of the shared counter of ids disturbs nothing.
`ParsedWellFormed` is the hand-over. The refinement composes: a step of the engine is a step
of the program in terms of nodes (`FollowNext`), and each of these is the step of the module
in terms of blocks (`JumpMapped`, `CallMapped`, …, `StepMapped`). `Place` takes a node back
to its place; `SameInstrOf` says that the instruction there is the node's and that the places
that follow are the places of its next nodes. It has a case for each way a block can end: at
the next node of the block, at a block that was parsed before or after, at the terminal node
of a block whose terminator is dropped, and at an empty block, which begins where it ends.
`SameAssumption` to `SameNext` only say that the instance of the frontend in `WholeAnalysis`
and the one that `CfgBuilderProofs` speaks of are the same.

**Only model-checked:** `OperandsHaveValues`, which needs of a module that definitions
dominate uses; without a definition of dominance it could be proved only from an assumption
that says nearly the same. The invariants of `IntegerValues` (`ConstantsTrue`,
`SameIdSameValue`, `WrapIsUnknown` and `TypeOK`), which multiply and divide by powers of two,
for which the solver has no theory, and hold for the instructions that `Correct` leaves.
Liveness (`FollowsToTheEnd`, `AnalysesToTheEnd`, `ParsesTheModule`, `PlotEnds`) and anything
with `ENABLED` is out of the prover's reach and stays with TLC.

## 6. What is not modelled

- Types, widths and sizes, and the id that `ExtendInt` gives to the size of an
  allocation: no decision of the graph depends on them. In particular no
  access is checked against the size of its object, in the code or in the model.
- In `IntegerValues`: constraints (a comparison of an unknown value is a new unknown
  value; what constraints answer is the subject of `ValueContainer`), and floating-point
  values, which the code does not implement.
- Of the abstraction: `SubGraph`, which has only a private constructor, and the join of
  sub-graphs, which is empty (`JoinTwoSubSmgs`). Of the crawler and printer: the text of
  the drawing, the viewer (`ShowSmg`), and the mode that starts at the handles object,
  which has no caller.
- The Z3 container: neither build compiles it (`USE_Z3` is commented out at `main.cpp:52`,
  `CMakeLists.txt:63` defines `NOT_COMPILE_Z3`), and it is unfinished: `BinOp` and
  `GetConstantIntInnerVal`, which every program needs, throw (`ValuesZ3.hpp:61`, `:99`).
- The forward null analysis: its instantiation is commented out (`main.cpp:133`), and its
  factory lacks five of the operations that
  `IOperationFactory` has since required (`Abort`, `Exit`, `Terminate`,
  `CreateUnknownVal`, `DiagnosticsPlotMem`), so that it cannot be instantiated.
- Types (`Type.hpp`, `LlvmType.cpp`, `AngieType.cpp`): each operation is a query of LLVM's
  data layout. `laboratory.cpp` is scratch code; `console.cpp` and `OsUtils` are input and
  output; `debugbreak.h` and `enum_flags.h` are vendored.
- The analysed examples. They are inputs, not parts of Angie; `examples/harness.h`, 7211
  lines of a third-party driver harness that is used by one example that is switched off,
  is nearly half of the C and C++ lines of the repository.
- Of the frontend: the arguments of instructions other than integer ones (`Operations`
  and `InstructionArgs` have the rest), floating-point constants, instructions of more
  than one operand beside the callee, a `main` with three parameters, for which
  `LlvmFrontend.cpp:1003` has no defined behaviour, and lists of predecessors. A
  terminator other than `br` and `ret` is dropped as the code drops it (`"switch"`).
- The loop over the files of the command line (`main_verify_files`): each file is parsed
  and explored as in `WholeAnalysis`, one after the other.
- In `VerificationLoop`: all instructions that compute a value but two, the memory graph,
  and the statistics and plots of the loop.

## 7. Plan

All components that take part in an analysis are modelled, and their compositions that
decide something: the graph with abstraction and crawler, the instructions with the
container, the frontend with the engine. The graph, its refinement, the abstraction, the
engine, the constraints, the frontend and the composition of frontend and engine are proved
for every value of their constants.
What is left:

1. A definition of dominance for modules, and `OperandsHaveValues` from it.
2. `TypeOK` and `SameIdSameValue` of the arithmetic, as far as they do not depend on powers
   of two.
3. When the abstraction is switched on in the code: what it preserves of a list of any
   length, as a refinement of a memory that has segments.
