--------------------------- MODULE CfgBuilderProofs ---------------------------
(***************************************************************************)
(* The frontend, for any LLVM modules: the nodes are well formed, a block  *)
(* is parsed once, no branch is lost, and in the end the nodes lead where  *)
(* the blocks do, and all names have ids.                                  *)
(***************************************************************************)
EXTENDS CfgBuilder, Induction

(***************************************************************************)
(* The inductive invariant.  It is stated for a graph g, the first nodes f *)
(* of the blocks and a queue q, since a step adds a block and links a plan *)
(* one after the other.                                                    *)
(***************************************************************************)

Side(g, n, i) == IF i = 1 THEN g[n].next ELSE g[n].nextFalse
PlanFor(b, n, i) == [block |-> Succ(b)[i], node |-> n, index |-> i]

\* Every node, and whose it is: of __entry (block 0) or of a parsed block.
NodesInv(g, f) ==
    /\ g \in Seq(ToSet(g))
    /\ \A n \in 1 .. Len(g) :
          /\ g[n] = [instr |-> g[n].instr, next |-> g[n].next, nextFalse |-> g[n].nextFalse]
          /\ g[n].next \in 0 .. Len(g) /\ g[n].nextFalse \in 0 .. Len(g)
          /\ g[n].next = NULL <=> g[n] = TerminalNode
          /\ \/ g[n].instr = <<>>
             \/ \E i \in 1 .. 2 : g[n].instr = <<0, i>>
             \/ \E b \in DOMAIN f : \E i \in 1 .. Count(b) : g[n].instr = <<b, i>>
    /\ \A m, n \in 1 .. Len(g) : g[m].instr = g[n].instr /\ g[m].instr # <<>> => m = n
    /\ DOMAIN f \subseteq Blocks
    /\ \A b \in DOMAIN f : f[b] \in 1 .. Len(g)

\* A terminal node that only one side of one branch leads to.
OwnTerminal(g, f, n, i) ==
    /\ Side(g, n, i) \in 1 .. Len(g) /\ g[Side(g, n, i)] = TerminalNode
    /\ \A m \in 1 .. Len(g) : m # n => Side(g, n, i) \notin {g[m].next, g[m].nextFalse}
    /\ \A b \in DOMAIN f : f[b] # Side(g, n, i)

\* Side i of the branch of block b at node n is linked, or it waits.
SideInv(g, f, q, b, n, i) ==
    IF PlanFor(b, n, i) \in ToSet(q) THEN OwnTerminal(g, f, n, i)
    ELSE Succ(b)[i] \in DOMAIN f /\ Side(g, n, i) = f[Succ(b)[i]]

\* The nodes of block b come after the node at base, one after the other.
BlockInv(g, f, q, b, base) ==
    /\ base + Count(b) <= Len(g)
    /\ \A i \in 1 .. Count(b) : g[base + i].instr = <<b, i>>
    /\ \A i \in 1 .. Count(b) - 1 : g[base + i].next = base + i + 1
    /\ IF Count(b) = 0 THEN g[f[b]] = TerminalNode ELSE f[b] = base + 1
    /\ \A i \in DOMAIN Succ(b) : SideInv(g, f, q, b, base + Count(b), i)

\* Every plan is for one side of one branch, and is there once.
QueueInv(g, f, q) ==
    /\ q \in Seq(ToSet(q)) /\ IsInjective(q)
    /\ \A p \in ToSet(q) : \E b \in DOMAIN f : \E i \in DOMAIN Succ(b) : \E n \in 1 .. Len(g) :
          p = PlanFor(b, n, i) /\ g[n].instr = <<b, Count(b)>>

GraphInv(g, f, q) ==
    /\ NodesInv(g, f)
    /\ \A b \in DOMAIN f : \E base \in Nat : BlockInv(g, f, q, b, base)
    /\ QueueInv(g, f, q)

\* A block is parsed as the entry of a function or as the target of a branch.
ParsedInv ==
    /\ parsed \in 0 .. Len(module.functions)
    /\ \A b \in DOMAIN copyMapping :
          \/ \E f \in 1 .. parsed : module.functions[f].entry = b
          \/ \E a \in Blocks : b \in ToSet(Succ(a))
    /\ entryPointCfg \in 0 .. Len(nodes)
    /\ entryPointCfg # NULL => parsed = Len(module.functions)
    /\ entryPointCfg = NULL => \A n \in 1 .. Len(nodes) : \A i \in 1 .. 2 : nodes[n].instr # <<0, i>>

ValueInv ==
    /\ nextVal \in Nat /\ nextVal >= 2
    /\ \A c \in DOMAIN mapper : mapper[c] \in 0 .. nextVal - 1
    /\ DOMAIN fmap \subseteq 2 .. nextVal - 1
    /\ \A f \in 1 .. parsed : module.functions[f].name \in DOMAIN mapper
    /\ constantValuesToBeCreated \in Seq(ConstantOperands)

CfgInv ==
    /\ module \in Modules
    /\ GraphInv(nodes, copyMapping, parseAndLinkTogether)
    /\ ParsedInv /\ ValueInv
    /\ threw # "runtime_error"

(***************************************************************************)
(* The module, and the nodes of a block.                                   *)
(***************************************************************************)

LEMMA ModuleFacts ==
    ASSUME module \in Modules
    PROVE  /\ 0 \notin Blocks
           /\ \A b \in Blocks :
                 /\ Count(b) \in Nat /\ Len(module.code[b]) \in Nat
                 /\ Operands(b) \in Seq({module.code[b][i].arg : i \in 1 .. Len(module.code[b])})
                 /\ Succ(b) \in Seq(Blocks) /\ DOMAIN Succ(b) = 1 .. Len(Succ(b))
                 /\ Len(Succ(b)) \in 0 .. 2 /\ \A i \in DOMAIN Succ(b) : Succ(b)[i] \in Blocks
                 /\ Succ(b) # <<>> => Count(b) # 0
                 /\ DOMAIN Succ(b) # {} => Count(b) # 0
           /\ Len(module.functions) \in Nat
           /\ DOMAIN module.functions = 1 .. Len(module.functions)
           /\ \A f \in 1 .. Len(module.functions) :
                 /\ module.functions[f].entry \in Blocks
                 /\ \A b \in Blocks : module.functions[f].entry \notin ToSet(Succ(b))
                 /\ \A g \in 1 .. Len(module.functions) :
                       module.functions[f].entry = module.functions[g].entry => f = g
<1>1. /\ 0 \notin Blocks /\ DOMAIN module.code = Blocks
      /\ \A b \in Blocks :
            /\ module.code[b] \in Seq(ToSet(module.code[b]))
            /\ Succ(b) \in Seq(Blocks)
            /\ Len(Succ(b)) \in IF module.term[b].opcode = "br" THEN {1, 2} ELSE {0}
      /\ module.functions \in Seq(ToSet(module.functions))
      /\ \A f \in DOMAIN module.functions :
            /\ module.functions[f].entry \in Blocks
            /\ \A b \in Blocks : module.functions[f].entry \notin ToSet(Succ(b))
            /\ \A g \in DOMAIN module.functions :
                  module.functions[f].entry = module.functions[g].entry => f = g
  BY ModulesAssumption DEF Blocks, Succ, IsModule, IsTerminator
<1>2. ASSUME NEW b \in Blocks
      PROVE  /\ Count(b) \in Nat /\ Len(module.code[b]) \in Nat
             /\ Operands(b) \in Seq({module.code[b][i].arg : i \in 1 .. Len(module.code[b])})
             /\ Succ(b) \in Seq(Blocks) /\ DOMAIN Succ(b) = 1 .. Len(Succ(b))
             /\ Len(Succ(b)) \in 0 .. 2 /\ \A i \in DOMAIN Succ(b) : Succ(b)[i] \in Blocks
             /\ Succ(b) # <<>> => Count(b) # 0
             /\ DOMAIN Succ(b) # {} => Count(b) # 0
  <2> DEFINE code == module.code[b]
             S == ToSet(code)
  <2>1. code \in Seq(S)
    BY <1>1
  <2> HIDE DEF code, S
  <2>2. Len(code) \in Nat /\ DOMAIN code = 1 .. Len(code)
    BY <2>1, LenProperties
  <2>3. Count(b) \in Nat /\ (module.term[b].opcode = "br" => Count(b) # 0)
    <3> DEFINE t == IF module.term[b].opcode \in {"br", "ret"} THEN 1 ELSE 0
    <3>1. t \in 0 .. 1 /\ (module.term[b].opcode = "br" => t = 1)
      OBVIOUS
    <3>2. Count(b) = Len(code) + t
      BY DEF Count, code
    <3> HIDE DEF t
    <3> QED
      BY <2>2, <3>1, <3>2
  <2>4. /\ Succ(b) \in Seq(Blocks) /\ DOMAIN Succ(b) = 1 .. Len(Succ(b))
        /\ Len(Succ(b)) \in 0 .. 2 /\ \A i \in DOMAIN Succ(b) : Succ(b)[i] \in Blocks
    BY <1>1, LenProperties, ElementOfSeq
  <2>5. Succ(b) # <<>> => Len(Succ(b)) # 0
    BY <2>4, EmptySeq
  <2>6. Len(Succ(b)) # 0 => module.term[b].opcode = "br"
    BY <1>1
  <2>7. DOMAIN Succ(b) # {} => Len(Succ(b)) # 0
    BY <2>4
  <2>8. Operands(b) \in Seq({code[i].arg : i \in 1 .. Len(code)})
    <3>1. Operands(b) = [i \in 1 .. Len(code) |-> code[i].arg]
      BY <2>2 DEF Operands, code
    <3> QED
      BY <2>2, <3>1
  <2> QED
    BY <2>2, <2>3, <2>4, <2>5, <2>6, <2>7, <2>8 DEF code
<1>3. Len(module.functions) \in Nat /\ DOMAIN module.functions = 1 .. Len(module.functions)
  BY <1>1, LenProperties
<1> HIDE DEF Blocks, Succ
<1> QED
  BY <1>1, <1>2, <1>3

\* The terminal nodes a block has for the false side of its branch.
FalseEnds(b) == IF Len(Succ(b)) = 2 THEN 1 ELSE 0

\* The nodes g, of which the last are those of block b.
BlockNodes(g, b, L, K, T) ==
    /\ L \in Nat /\ K \in Nat /\ T \in 0 .. 1
    /\ g \in Seq(ToSet(g)) /\ Len(g) = L + 2 + K + T
    /\ \A n \in 1 .. L : g[n] = nodes[n]
    /\ g[L + 1] = StartNode(FirstNode(b))
    /\ g[L + 2] = TerminalNode
    /\ \A i \in 1 .. K :
          g[L + 2 + i] =
              [instr |-> <<b, i>>,
               next |-> IF i < K THEN L + 3 + i ELSE SuccessorNode(b, 1, L + 2),
               nextFalse |-> IF i = K /\ T = 1 THEN SuccessorNode(b, 2, L + 3 + K) ELSE NULL]
    /\ T = 1 => g[L + 3 + K] = TerminalNode

\* Where the nodes of a block come to lie behind those that exist.
LEMMA NewNodes ==
    ASSUME module \in Modules, nodes \in Seq(ToSet(nodes)), NEW b \in Blocks,
           NEW g, g = nodes \o NodesOf(b), NEW L, L = Len(nodes),
           NEW K, K = Count(b), NEW T, T = FalseEnds(b)
    PROVE  BlockNodes(g, b, L, K, T)
<1> DEFINE Instrs == [i \in 1 .. K |->
               [instr |-> <<b, i>>,
                next |-> IF i < K THEN NodeId(i + 1) ELSE SuccessorNode(b, 1, TerminalId),
                nextFalse |-> IF i = K /\ Len(Succ(b)) = 2
                              THEN SuccessorNode(b, 2, LastNode(b) + 1) ELSE NULL]]
           Ends == << StartNode(FirstNode(b)), TerminalNode >>
           Extra == IF Len(Succ(b)) = 2 THEN << TerminalNode >> ELSE <<>>
           S == {Instrs[i] : i \in 1 .. K} \cup {Ends[1], Ends[2]} \cup ToSet(nodes)
<1>1. K \in Nat /\ L \in Nat
  BY ModuleFacts, LenProperties
<1>2. NodesOf(b) = Ends \o Instrs \o Extra
  BY DEF NodesOf
<1>3. /\ Len(Ends) = 2 /\ Ends[1] = StartNode(FirstNode(b)) /\ Ends[2] = TerminalNode
      /\ Ends \in Seq(S)
  OBVIOUS
<1>4. /\ Instrs \in Seq(S) /\ Len(Instrs) = K
      /\ \A i \in 1 .. K : Instrs[i] =
            [instr |-> <<b, i>>,
             next |-> IF i < K THEN L + 3 + i ELSE SuccessorNode(b, 1, L + 2),
             nextFalse |-> IF i = K /\ T = 1 THEN SuccessorNode(b, 2, L + 3 + K) ELSE NULL]
  <2>1. /\ TerminalId = L + 2 /\ \A i \in 1 .. K : NodeId(i + 1) = L + 3 + i
        /\ LastNode(b) + 1 = L + 3 + K
    BY <1>1 DEF TerminalId, NodeId, LastNode
  <2>2. T = 1 <=> Len(Succ(b)) = 2
    BY DEF FalseEnds
  <2>3. Instrs \in Seq(S) /\ Len(Instrs) = K
    <3>1. \A i \in 1 .. K : Instrs[i] \in S
      OBVIOUS
    <3>2. Instrs \in [1 .. K -> S]
      <4> DEFINE R(i) == Instrs[i]
      <4>1. Instrs = [i \in 1 .. K |-> R(i)]
        OBVIOUS
      <4>2. \A i \in 1 .. K : R(i) \in S
        BY <3>1
      <4> HIDE DEF R, S, Instrs
      <4> QED
        BY <4>1, <4>2
    <3> HIDE DEF S, Instrs
    <3> QED
      BY <1>1, <3>2, SeqDef, LenProperties
  <2> QED
    BY <1>1, <2>1, <2>2, <2>3
<1>5. /\ Extra \in Seq(S) /\ Len(Extra) = T /\ T \in 0 .. 1
      /\ T = 1 => Extra[1] = TerminalNode
  <2>1. CASE Len(Succ(b)) = 2
    <3>1. T = 1 /\ Extra = << TerminalNode >> /\ TerminalNode \in S
      BY <2>1 DEF FalseEnds
    <3> HIDE DEF Extra, S
    <3> QED
      BY <3>1
  <2>2. CASE Len(Succ(b)) # 2
    <3>1. T = 0 /\ Extra = <<>>
      BY <2>2 DEF FalseEnds
    <3> HIDE DEF Extra, S
    <3> QED
      BY <3>1
  <2> QED
    BY <2>1, <2>2
<1>6. nodes \in Seq(S)
  <2>1. ToSet(nodes) \subseteq S
    OBVIOUS
  <2>2. nodes \in Seq(ToSet(nodes))
    OBVIOUS
  <2> HIDE DEF S
  <2> QED
    BY <2>1, <2>2
<1> DEFINE front == Ends \o Instrs
           new == NodesOf(b)
<1>7. front = Ends \o Instrs /\ new = front \o Extra /\ g = nodes \o new
  BY <1>2
<1> HIDE DEF Instrs, Ends, Extra, S, front, new
<1>8. /\ front \in Seq(S) /\ Len(front) = 2 + K
      /\ \A i \in 1 .. 2 : front[i] = Ends[i]
      /\ \A i \in 1 .. K : front[2 + i] = Instrs[i]
  <2>1. /\ front \in Seq(S) /\ Len(front) = Len(Ends) + Len(Instrs)
        /\ \A i \in 1 .. Len(Ends) : front[i] = Ends[i]
        /\ \A i \in 1 .. Len(Instrs) : front[Len(Ends) + i] = Instrs[i]
    <3>1. Ends \in Seq(S) /\ Instrs \in Seq(S) /\ front = Ends \o Instrs
      BY ONLY <1>3, <1>4, <1>7
    <3> QED
      BY ONLY <3>1, ConcatFacts
  <2> QED
    BY ONLY <1>3, <1>4, <2>1
<1>9. /\ new \in Seq(S) /\ Len(new) = 2 + K + T
      /\ \A i \in 1 .. 2 + K : new[i] = front[i]
      /\ \A i \in 1 .. T : new[(2 + K) + i] = Extra[i]
  <2>1. /\ new \in Seq(S) /\ Len(new) = Len(front) + Len(Extra)
        /\ \A i \in 1 .. Len(front) : new[i] = front[i]
        /\ \A i \in 1 .. Len(Extra) : new[Len(front) + i] = Extra[i]
    <3>1. front \in Seq(S) /\ Extra \in Seq(S) /\ new = front \o Extra
      BY ONLY <1>5, <1>7, <1>8
    <3> QED
      BY ONLY <3>1, ConcatFacts
  <2> QED
    BY ONLY <1>5, <1>8, <2>1
<1>10. /\ g \in Seq(S) /\ Len(g) = L + (2 + K + T)
       /\ \A i \in 1 .. L : g[i] = nodes[i]
       /\ \A i \in 1 .. 2 + K + T : g[L + i] = new[i]
  BY <1>6, <1>7, <1>9, ConcatFacts
<1>11. g[L + 1] = Ends[1] /\ g[L + 2] = Ends[2]
  <2>1. 1 \in 1 .. 2 + K + T /\ 2 \in 1 .. 2 + K + T /\ 1 \in 1 .. 2 + K /\ 2 \in 1 .. 2 + K
    BY <1>1, <1>5
  <2> QED
    BY <1>8, <1>9, <1>10, <2>1
<1>12. ASSUME NEW i \in 1 .. K PROVE g[L + 2 + i] = Instrs[i]
  <2>1. 2 + i \in 1 .. 2 + K + T /\ 2 + i \in 1 .. 2 + K /\ L + (2 + i) = L + 2 + i
    BY <1>1, <1>5
  <2>2. g[L + (2 + i)] = new[2 + i] /\ new[2 + i] = front[2 + i] /\ front[2 + i] = Instrs[i]
    BY <1>8, <1>9, <1>10, <2>1
  <2> QED
    BY <2>1, <2>2
<1>13. ASSUME T = 1 PROVE g[L + 3 + K] = Extra[1]
  <2>1. /\ (2 + K) + 1 \in 1 .. 2 + K + T /\ 1 \in 1 .. T
        /\ L + ((2 + K) + 1) = L + 3 + K
    BY ONLY <1>1, <1>13
  <2>2. g[L + ((2 + K) + 1)] = new[(2 + K) + 1] /\ new[(2 + K) + 1] = Extra[1]
    BY <1>9, <1>10, <2>1
  <2> QED
    BY <2>1, <2>2
<1>14. g \in Seq(ToSet(g))
  BY <1>10, SeqToSet
<1>15. Len(g) = L + 2 + K + T
  BY ONLY <1>1, <1>5, <1>10
<1> QED
  BY ONLY <1>1, <1>3, <1>4, <1>5, <1>10, <1>11, <1>12, <1>13, <1>14, <1>15 DEF BlockNodes
(***************************************************************************)
(* Linking a plan.                                                         *)
(***************************************************************************)

\* A node that has an instruction of a block is at its place in the block.
LEMMA NodeOfBlock ==
    ASSUME module \in Modules, NEW g, NEW f, NEW q, NodesInv(g, f),
           NEW b \in DOMAIN f, NEW base \in Nat, BlockInv(g, f, q, b, base),
           NEW i \in 1 .. Count(b), NEW n \in 1 .. Len(g), g[n].instr = <<b, i>>
    PROVE  n = base + i
<1>1. Len(g) \in Nat /\ Count(b) \in Nat
  BY LenProperties, ModuleFacts DEF NodesInv
<1>2. base + i \in 1 .. Len(g) /\ g[base + i].instr = <<b, i>>
  <2>1. base + Count(b) <= Len(g) /\ g[base + i].instr = <<b, i>>
    BY DEF BlockInv
  <2> QED
    BY ONLY <1>1, <2>1, base \in Nat, i \in 1 .. Count(b)
<1>3. <<b, i>> # <<>>
  OBVIOUS
<1> QED
  BY <1>2, <1>3 DEF NodesInv

\* The node and the side a plan is for.
LEMMA PlanOwner ==
    ASSUME module \in Modules, NEW g, NEW f, NEW q, GraphInv(g, f, q), NEW p \in ToSet(q)
    PROVE  \E b \in DOMAIN f : \E i \in DOMAIN Succ(b) : \E n \in 1 .. Len(g) :
              /\ p = PlanFor(b, n, i) /\ i \in 1 .. 2 /\ Count(b) # 0 /\ Count(b) \in Nat
              /\ b \in Blocks /\ g[n].instr = <<b, Count(b)>> /\ OwnTerminal(g, f, n, i)
<1>1. PICK b \in DOMAIN f : \E i \in DOMAIN Succ(b) : \E n \in 1 .. Len(g) :
          p = PlanFor(b, n, i) /\ g[n].instr = <<b, Count(b)>>
  BY DEF GraphInv, QueueInv
<1>2. PICK i \in DOMAIN Succ(b), n \in 1 .. Len(g) :
          p = PlanFor(b, n, i) /\ g[n].instr = <<b, Count(b)>>
  BY <1>1
<1>3. b \in Blocks
  BY DEF GraphInv, NodesInv
<1>4. i \in 1 .. 2 /\ Count(b) # 0 /\ Count(b) \in Nat
  <2>1. /\ Count(b) \in Nat /\ DOMAIN Succ(b) = 1 .. Len(Succ(b)) /\ Len(Succ(b)) \in 0 .. 2
        /\ DOMAIN Succ(b) # {} => Count(b) # 0
    BY <1>3, ModuleFacts
  <2> QED
    BY <2>1
<1>5. PICK base \in Nat : BlockInv(g, f, q, b, base)
  BY DEF GraphInv
<1>6. n = base + Count(b)
  <2>1. Count(b) \in 1 .. Count(b)
    BY <1>4
  <2>2. NodesInv(g, f)
    BY DEF GraphInv
  <2> QED
    BY <1>2, <1>5, <2>1, <2>2, NodeOfBlock
<1>7. OwnTerminal(g, f, n, i)
  BY <1>2, <1>5, <1>6 DEF BlockInv, SideInv
<1> QED
  BY <1>2, <1>3, <1>4, <1>7

\* What a link changes.
LEMMA LinkedGraph ==
    ASSUME NEW g, g \in Seq(ToSet(g)), NEW n \in 1 .. Len(g), NEW i \in 1 .. 2, NEW t, NEW h,
           h = LinkTogether(g, n, t, i),
           g[n] = [instr |-> g[n].instr, next |-> g[n].next, nextFalse |-> g[n].nextFalse]
    PROVE  /\ h \in Seq(ToSet(h)) /\ Len(h) = Len(g) /\ Len(g) \in Nat
           /\ \A m \in 1 .. Len(g) : m # n => h[m] = g[m]
           /\ h[n] = [instr |-> g[n].instr, next |-> h[n].next, nextFalse |-> h[n].nextFalse]
           /\ Side(h, n, i) = t
           /\ \A j \in 1 .. 2 : j # i => Side(h, n, j) = Side(g, n, j)
<1> DEFINE new == IF i = 1 THEN [g[n] EXCEPT !.next = t] ELSE [g[n] EXCEPT !.nextFalse = t]
<1>1. Len(g) \in Nat /\ DOMAIN g = 1 .. Len(g) /\ g \in [1 .. Len(g) -> ToSet(g)]
  BY LenProperties
<1>2. h = [g EXCEPT ![n] = new]
  BY DEF LinkTogether
<1>3. /\ i = 1 => new = [instr |-> g[n].instr, next |-> t, nextFalse |-> g[n].nextFalse]
      /\ i # 1 => new = [instr |-> g[n].instr, next |-> g[n].next, nextFalse |-> t]
  OBVIOUS
<1> HIDE DEF new
<1>4. /\ h \in [1 .. Len(g) -> ToSet(g) \cup {new}] /\ h[n] = new
      /\ \A m \in 1 .. Len(g) : m # n => h[m] = g[m]
  BY <1>1, <1>2
<1>5. h \in Seq(ToSet(g) \cup {new}) /\ Len(h) = Len(g)
  BY <1>1, <1>4, SeqDef, LenProperties
<1>6. h \in Seq(ToSet(h))
  BY <1>5, SeqToSet
<1>7. Side(h, n, i) = t /\ \A j \in 1 .. 2 : j # i => Side(h, n, j) = Side(g, n, j)
  BY <1>3, <1>4 DEF Side
<1>8. h[n] = [instr |-> g[n].instr, next |-> h[n].next, nextFalse |-> h[n].nextFalse]
  BY <1>3, <1>4
<1> QED
  BY <1>1, <1>4, <1>5, <1>6, <1>7, <1>8

\* The graph h, which is g with the first plan linked.
PlanLinked(g, f, q, h) ==
    /\ CanLink(g, Head(q).node, Head(q).index)
    /\ GraphInv(h, f, Tail(q)) /\ Len(h) = Len(g)
    /\ \A n \in 1 .. Len(g) : h[n].instr = g[n].instr

LEMMA LinkGraph ==
    ASSUME module \in Modules, NEW g, NEW f, NEW q, GraphInv(g, f, q), q # <<>>,
           Head(q).block \in DOMAIN f, NEW h,
           h = LinkTogether(g, Head(q).node, f[Head(q).block], Head(q).index)
    PROVE  PlanLinked(g, f, q, h)
<1> DEFINE p == Head(q)
           r == Tail(q)
<1>1. /\ q \in Seq(ToSet(q)) /\ IsInjective(q) /\ Len(q) \in Nat /\ DOMAIN q = 1 .. Len(q)
      /\ Len(q) # 0
  BY LenProperties, EmptySeq DEF GraphInv, QueueInv
<1>2. /\ p \in ToSet(q) /\ r \in Seq(ToSet(r)) /\ IsInjective(r)
      /\ ToSet(r) = ToSet(q) \ {p}
  <2> DEFINE k == Len(q)
  <2>1. k \in Nat /\ k # 0 /\ DOMAIN q = 1 .. k /\ \A i, j \in 1 .. k : q[i] = q[j] => i = j
    BY <1>1 DEF IsInjective
  <2>2. p = q[1] /\ r \in Seq(ToSet(q)) /\ Len(r) = k - 1 /\ \A i \in 1 .. Len(r) : r[i] = q[i + 1]
    BY <1>1, HeadTailProperties
  <2>3. DOMAIN r = 1 .. k - 1
    BY <2>2, LenProperties
  <2>4. r \in Seq(ToSet(r))
    BY <2>2, SeqToSet
  <2> HIDE DEF k, p, r
  <2>5. \A i \in 1 .. k - 1 : i + 1 \in 1 .. k /\ r[i] = q[i + 1] /\ i + 1 # 1
    BY <2>1, <2>2
  <2>6. \A j \in 1 .. k : j = 1 \/ \E i \in 1 .. k - 1 : j = i + 1
    <3> SUFFICES ASSUME NEW j \in 1 .. k, j # 1 PROVE \E i \in 1 .. k - 1 : j = i + 1
      OBVIOUS
    <3>1. j - 1 \in 1 .. k - 1 /\ j = (j - 1) + 1
      BY <2>1
    <3> QED
      BY <3>1
  <2>7. ToSet(q) = {q[j] : j \in 1 .. k} /\ ToSet(r) = {r[i] : i \in 1 .. k - 1} /\ 1 \in 1 .. k
    BY <2>1, <2>3 DEF ToSet
  <2>8. p \in ToSet(q)
    BY <2>2, <2>7
  <2>9. \A x \in ToSet(r) : x \in ToSet(q) /\ x # p
    BY <2>1, <2>2, <2>5, <2>7
  <2>10. ASSUME NEW j \in 1 .. k, q[j] # p PROVE q[j] \in ToSet(r)
    <3>1. PICK i \in 1 .. k - 1 : j = i + 1
      BY <2>2, <2>6, <2>10
    <3> QED
      BY <2>5, <2>7, <3>1
  <2>11. IsInjective(r)
    <3>1. ASSUME NEW i \in 1 .. k - 1, NEW j \in 1 .. k - 1, r[i] = r[j] PROVE i = j
      <4>1. i + 1 = j + 1
        BY <2>1, <2>5, <3>1
      <4> QED
        BY <2>1, <4>1
    <3> QED
      BY <2>3, <3>1 DEF IsInjective
  <2>12. ToSet(r) = ToSet(q) \ {p}
    <3>1. \A x \in ToSet(q) : x # p => x \in ToSet(r)
      BY <2>7, <2>10
    <3> QED
      BY <2>9, <3>1
  <2> QED
    BY <2>4, <2>8, <2>11, <2>12
<1> HIDE DEF p, r
<1>3. PICK b, i, n :
          /\ b \in DOMAIN f /\ i \in DOMAIN Succ(b) /\ n \in 1 .. Len(g)
          /\ p = PlanFor(b, n, i) /\ i \in 1 .. 2 /\ Count(b) # 0 /\ Count(b) \in Nat
          /\ b \in Blocks /\ g[n].instr = <<b, Count(b)>> /\ OwnTerminal(g, f, n, i)
  <2>1. \E b \in DOMAIN f : \E i \in DOMAIN Succ(b) : \E n \in 1 .. Len(g) :
           /\ p = PlanFor(b, n, i) /\ i \in 1 .. 2 /\ Count(b) # 0 /\ Count(b) \in Nat
           /\ b \in Blocks /\ g[n].instr = <<b, Count(b)>> /\ OwnTerminal(g, f, n, i)
    BY <1>2, PlanOwner
  <2> QED
    BY ONLY <2>1
<1> DEFINE t == f[Succ(b)[i]]
<1>4. p.block = Succ(b)[i] /\ p.node = n /\ p.index = i
  BY <1>3 DEF PlanFor
<1>5. Succ(b)[i] \in DOMAIN f /\ t \in 1 .. Len(g) /\ h = LinkTogether(g, n, t, i)
  BY <1>4 DEF p, GraphInv, NodesInv
<1>6. CanLink(g, n, i)
  BY <1>3 DEF CanLink, OwnTerminal, Side, TerminalNode
<1>7. /\ g \in Seq(ToSet(g))
      /\ \A m \in 1 .. Len(g) :
            /\ g[m] = [instr |-> g[m].instr, next |-> g[m].next, nextFalse |-> g[m].nextFalse]
            /\ g[m].next \in 0 .. Len(g) /\ g[m].nextFalse \in 0 .. Len(g)
            /\ g[m].next = NULL <=> g[m] = TerminalNode
  BY DEF GraphInv, NodesInv
<1> HIDE DEF t
<1>8. /\ h \in Seq(ToSet(h)) /\ Len(h) = Len(g) /\ Len(g) \in Nat
      /\ \A m \in 1 .. Len(g) : m # n => h[m] = g[m]
      /\ h[n] = [instr |-> g[n].instr, next |-> h[n].next, nextFalse |-> h[n].nextFalse]
      /\ Side(h, n, i) = t
      /\ \A j \in 1 .. 2 : j # i => Side(h, n, j) = Side(g, n, j)
  <2>1. /\ g \in Seq(ToSet(g)) /\ n \in 1 .. Len(g) /\ i \in 1 .. 2 /\ h = LinkTogether(g, n, t, i)
        /\ g[n] = [instr |-> g[n].instr, next |-> g[n].next, nextFalse |-> g[n].nextFalse]
    BY <1>3, <1>5, <1>7
  <2> QED
    BY ONLY <2>1, LinkedGraph
<1>9. g[n].instr # <<>> /\ g[n] # TerminalNode /\ h[n] # TerminalNode
  <2>1. g[n].instr # <<>>
    BY <1>3
  <2>2. h[n].instr = g[n].instr
    BY <1>8
  <2>3. TerminalNode.instr = <<>>
    BY DEF TerminalNode
  <2> QED
    BY <2>1, <2>2, <2>3
<1>10. \A m \in 1 .. Len(g) : h[m].instr = g[m].instr
  BY <1>8
<1>11. \A m \in 1 .. Len(g) :
          /\ h[m].next = g[m].next \/ (m = n /\ i = 1 /\ h[m].next = t)
          /\ h[m].nextFalse = g[m].nextFalse \/ (m = n /\ i = 2 /\ h[m].nextFalse = t)
  <2> SUFFICES ASSUME NEW m \in 1 .. Len(g)
               PROVE  /\ h[m].next = g[m].next \/ (m = n /\ i = 1 /\ h[m].next = t)
                      /\ h[m].nextFalse = g[m].nextFalse \/ (m = n /\ i = 2 /\ h[m].nextFalse = t)
    OBVIOUS
  <2>1. CASE m # n
    BY <1>8, <2>1
  <2>2. CASE m = n
    <3>1. i = 1 \/ i = 2
      BY <1>3
    <3>2. CASE i = 1
      <4>1. Side(h, n, 1) = t /\ Side(h, n, 2) = Side(g, n, 2)
        BY <1>8, <3>2
      <4> QED
        BY <2>2, <3>2, <4>1 DEF Side
    <3>3. CASE i = 2
      <4>1. Side(h, n, 2) = t /\ Side(h, n, 1) = Side(g, n, 1)
        BY <1>8, <3>3
      <4> QED
        BY <2>2, <3>3, <4>1 DEF Side
    <3> QED
      BY <3>1, <3>2, <3>3
  <2> QED
    BY <2>1, <2>2
<1>12. NodesInv(h, f)
  <2>1. ASSUME NEW m \in 1 .. Len(h)
        PROVE  /\ h[m] = [instr |-> h[m].instr, next |-> h[m].next, nextFalse |-> h[m].nextFalse]
               /\ h[m].next \in 0 .. Len(h) /\ h[m].nextFalse \in 0 .. Len(h)
               /\ h[m].next = NULL <=> h[m] = TerminalNode
    <3>1. CASE m = n
      <4>1. t \in 0 .. Len(g) /\ t # NULL
        BY ONLY <1>5, <1>8 DEF NULL
      <4>2. g[n].next # NULL
        BY <1>3, <1>7, <1>9
      <4> QED
        BY <1>3, <1>7, <1>8, <1>9, <1>11, <3>1, <4>1, <4>2
    <3>2. CASE m # n
      BY <1>7, <1>8, <3>2
    <3> QED
      BY <3>1, <3>2
  <2>2. \A m \in 1 .. Len(h) :
          \/ h[m].instr = <<>>
          \/ \E k \in 1 .. 2 : h[m].instr = <<0, k>>
          \/ \E c \in DOMAIN f : \E k \in 1 .. Count(c) : h[m].instr = <<c, k>>
    <3>1. \A m \in 1 .. Len(g) :
             \/ g[m].instr = <<>>
             \/ \E k \in 1 .. 2 : g[m].instr = <<0, k>>
             \/ \E c \in DOMAIN f : \E k \in 1 .. Count(c) : g[m].instr = <<c, k>>
      BY DEF GraphInv, NodesInv
    <3>2. Len(h) = Len(g)
      BY <1>8
    <3> SUFFICES ASSUME NEW m \in 1 .. Len(h)
                 PROVE  \/ h[m].instr = <<>>
                        \/ \E k \in 1 .. 2 : h[m].instr = <<0, k>>
                        \/ \E c \in DOMAIN f : \E k \in 1 .. Count(c) : h[m].instr = <<c, k>>
      OBVIOUS
    <3>3. m \in 1 .. Len(g) /\ h[m].instr = g[m].instr
      BY <1>10, <3>2
    <3> QED
      BY ONLY <3>1, <3>3
  <2>3. \A m, k \in 1 .. Len(h) : h[m].instr = h[k].instr /\ h[m].instr # <<>> => m = k
    BY <1>8, <1>10 DEF GraphInv, NodesInv
  <2>4. DOMAIN f \subseteq Blocks /\ \A c \in DOMAIN f : f[c] \in 1 .. Len(h)
    BY <1>8 DEF GraphInv, NodesInv
  <2> QED
    BY <1>8, <2>1, <2>2, <2>3, <2>4 DEF NodesInv
<1>13. ASSUME NEW c \in DOMAIN f PROVE \E base \in Nat : BlockInv(h, f, r, c, base)
  <2>1. PICK base \in Nat : BlockInv(g, f, q, c, base)
    BY DEF GraphInv
  <2>2. c \in Blocks /\ Count(c) \in Nat /\ (DOMAIN Succ(c) # {} => Count(c) # 0)
        /\ DOMAIN Succ(c) \subseteq 1 .. 2
    <3>1. c \in Blocks
      BY DEF GraphInv, NodesInv
    <3>2. /\ Count(c) \in Nat /\ DOMAIN Succ(c) = 1 .. Len(Succ(c)) /\ Len(Succ(c)) \in 0 .. 2
          /\ DOMAIN Succ(c) # {} => Count(c) # 0
      BY <3>1, ModuleFacts
    <3> QED
      BY <3>1, <3>2
  <2>3. /\ base + Count(c) <= Len(g)
        /\ \A k \in 1 .. Count(c) : g[base + k].instr = <<c, k>>
        /\ \A k \in 1 .. Count(c) - 1 : g[base + k].next = base + k + 1
        /\ IF Count(c) = 0 THEN g[f[c]] = TerminalNode ELSE f[c] = base + 1
        /\ \A k \in DOMAIN Succ(c) : SideInv(g, f, q, c, base + Count(c), k)
    BY <2>1 DEF BlockInv
  <2>4. \A k \in 1 .. Count(c) : base + k \in 1 .. Len(g)
    BY <1>8, <2>2, <2>3
  <2>5. \A k \in 1 .. Count(c) : h[base + k].instr = <<c, k>>
    BY <1>10, <2>3, <2>4
  <2>6. ASSUME NEW k \in 1 .. Count(c) - 1 PROVE h[base + k].next = base + k + 1
    <3>1. k \in 1 .. Count(c) /\ k # Count(c)
      BY <2>2
    <3>2. base + k # n
      <4>1. g[base + k].instr = <<c, k>>
        BY <2>3, <3>1
      <4> QED
        BY <1>3, <3>1, <4>1
    <3> QED
      BY <1>8, <2>3, <2>4, <3>1, <3>2
  <2>7. IF Count(c) = 0 THEN h[f[c]] = TerminalNode ELSE f[c] = base + 1
    <3>1. f[c] \in 1 .. Len(g)
      BY DEF GraphInv, NodesInv
    <3> QED
      BY <1>8, <1>9, <2>3, <3>1
  <2>8. ASSUME NEW k \in DOMAIN Succ(c) PROVE SideInv(h, f, r, c, base + Count(c), k)
    <3> DEFINE e == base + Count(c)
    <3>1. Count(c) \in 1 .. Count(c) /\ k \in 1 .. 2
      BY <2>2
    <3>2. e \in 1 .. Len(g) /\ g[e].instr = <<c, Count(c)>> /\ SideInv(g, f, q, c, e, k)
      BY <2>3, <2>4, <3>1
    <3> HIDE DEF e
    <3>3. CASE e = n /\ k = i
      <4>1. c = b
        BY <1>3, <3>2, <3>3
      <4>2. PlanFor(c, e, k) = p
        BY <1>3, <3>3, <4>1
      <4>3. PlanFor(c, e, k) \notin ToSet(r)
        BY <1>2, <4>2
      <4>4. Succ(c)[k] \in DOMAIN f /\ Side(h, e, k) = f[Succ(c)[k]]
        BY <1>5, <1>8, <3>3, <4>1 DEF t
      <4> QED
        BY <4>3, <4>4 DEF SideInv, e
    <3>4. CASE ~(e = n /\ k = i)
      <4>1. PlanFor(c, e, k) # p
        BY <1>4, <3>4 DEF PlanFor
      <4>2. PlanFor(c, e, k) \in ToSet(r) <=> PlanFor(c, e, k) \in ToSet(q)
        BY <1>2, <4>1
      <4>3. Side(h, e, k) = Side(g, e, k)
        BY <1>8, <3>1, <3>2, <3>4 DEF Side
      <4>4. ASSUME OwnTerminal(g, f, e, k) PROVE OwnTerminal(h, f, e, k)
        <5> DEFINE s == Side(g, e, k)
        <5>1. /\ s \in 1 .. Len(g) /\ g[s] = TerminalNode
              /\ \A m \in 1 .. Len(g) : m # e => s \notin {g[m].next, g[m].nextFalse}
              /\ \A a \in DOMAIN f : f[a] # s
          BY <4>4 DEF OwnTerminal
        <5> HIDE DEF s
        <5>2. h[s] = TerminalNode
          BY <1>8, <1>9, <5>1
        <5>3. t # s
          BY <1>5, <5>1 DEF t
        <5>4. \A m \in 1 .. Len(h) : m # e => s \notin {h[m].next, h[m].nextFalse}
          BY <1>8, <1>11, <5>1, <5>3
        <5> QED
          BY <1>8, <4>3, <5>1, <5>2, <5>4 DEF OwnTerminal, s
      <4> QED
        BY <3>2, <4>2, <4>3, <4>4 DEF SideInv, e
    <3> QED
      BY <3>3, <3>4
  <2> QED
    BY <1>8, <2>3, <2>5, <2>6, <2>7, <2>8 DEF BlockInv
<1>14. QueueInv(h, f, r)
  <2>1. \A x \in ToSet(r) : \E c \in DOMAIN f : \E k \in DOMAIN Succ(c) : \E m \in 1 .. Len(h) :
          x = PlanFor(c, m, k) /\ h[m].instr = <<c, Count(c)>>
    <3> SUFFICES ASSUME NEW x \in ToSet(q)
                 PROVE  \E c \in DOMAIN f : \E k \in DOMAIN Succ(c) : \E m \in 1 .. Len(g) :
                           x = PlanFor(c, m, k) /\ h[m].instr = <<c, Count(c)>>
      BY <1>2, <1>8
    <3>1. PICK c \in DOMAIN f : \E k \in DOMAIN Succ(c) : \E m \in 1 .. Len(g) :
             x = PlanFor(c, m, k) /\ g[m].instr = <<c, Count(c)>>
      BY DEF GraphInv, QueueInv
    <3>2. PICK k \in DOMAIN Succ(c), m \in 1 .. Len(g) :
             x = PlanFor(c, m, k) /\ g[m].instr = <<c, Count(c)>>
      BY <3>1
    <3>3. h[m].instr = g[m].instr
      BY <1>10
    <3> QED
      BY <3>2, <3>3
  <2> QED
    BY <1>2, <2>1 DEF QueueInv
<1>15. GraphInv(h, f, r)
  BY <1>12, <1>13, <1>14 DEF GraphInv
<1> QED
  BY <1>4, <1>6, <1>8, <1>10, <1>15 DEF p, r, PlanLinked
(***************************************************************************)
(* Parsing a block.                                                        *)
(***************************************************************************)

\* What is planned: the branches to blocks that have not been parsed.
LEMMA PlansFacts ==
    ASSUME module \in Modules, NEW b \in Blocks
    PROVE  /\ Plans(b) \in Seq(ToSet(Plans(b))) /\ IsInjective(Plans(b))
           /\ \A i \in DOMAIN Succ(b) : Succ(b)[i] \notin DOMAIN copyMapping =>
                 PlanFor(b, LastNode(b), i) \in ToSet(Plans(b))
           /\ \A x \in ToSet(Plans(b)) : \E i \in DOMAIN Succ(b) :
                 Succ(b)[i] \notin DOMAIN copyMapping /\ x = PlanFor(b, LastNode(b), i)
<1> DEFINE IsPlan(i) == i \in DOMAIN Succ(b) /\ Succ(b)[i] \notin DOMAIN copyMapping
           Set(i) == IF IsPlan(i) THEN {PlanFor(b, LastNode(b), i)} ELSE {}
<1>1. ASSUME NEW i \in 1 .. 2
      PROVE  /\ PlanSide(b, i) \in Seq(Set(i)) /\ ToSet(PlanSide(b, i)) = Set(i)
             /\ IsInjective(PlanSide(b, i))
  <2> DEFINE p == PlanFor(b, LastNode(b), i)
  <2>1. CASE IsPlan(i)
    <3>1. PlanSide(b, i) = << p >> /\ Set(i) = {p}
      BY <2>1 DEF PlanSide, PlanFor, IsMapped
    <3> HIDE DEF p, Set, IsPlan
    <3>2. << p >> \in Seq({p}) /\ ToSet(<< p >>) = {p} /\ IsInjective(<< p >>)
      BY DEF ToSet, IsInjective
    <3> QED
      BY <3>1, <3>2
  <2>2. CASE ~IsPlan(i)
    <3>1. PlanSide(b, i) = <<>> /\ Set(i) = {}
      BY <2>2 DEF PlanSide, IsMapped
    <3> HIDE DEF p, Set, IsPlan
    <3>2. <<>> \in Seq({}) /\ ToSet(<<>>) = {} /\ IsInjective(<<>>)
      BY DEF ToSet, IsInjective
    <3> QED
      BY <3>1, <3>2
  <2> QED
    BY <2>1, <2>2
<1> DEFINE r == PlanSide(b, 1)
           s == PlanSide(b, 2)
           All == Set(1) \cup Set(2)
<1>2. Set(1) \cap Set(2) = {}
  BY DEF PlanFor
<1>3. Plans(b) = r \o s
  BY DEF Plans
<1>4. DOMAIN Succ(b) \subseteq 1 .. 2
  <2>1. DOMAIN Succ(b) = 1 .. Len(Succ(b)) /\ Len(Succ(b)) \in 0 .. 2
    BY ModuleFacts
  <2> QED
    BY <2>1
<1> HIDE DEF r, s, Set
<1>5. /\ r \in Seq(All) /\ ToSet(r) = Set(1) /\ IsInjective(r)
      /\ s \in Seq(All) /\ ToSet(s) = Set(2) /\ IsInjective(s)
  <2>1. 1 \in 1 .. 2 /\ 2 \in 1 .. 2
    OBVIOUS
  <2>2. /\ r \in Seq(Set(1)) /\ ToSet(r) = Set(1) /\ IsInjective(r)
        /\ s \in Seq(Set(2)) /\ ToSet(s) = Set(2) /\ IsInjective(s)
    BY <1>1, <2>1 DEF r, s
  <2> QED
    BY <2>2
<1> HIDE DEF All
<1>6. /\ r \o s \in Seq(All) /\ ToSet(r \o s) = Set(1) \cup Set(2)
      /\ IsInjective(r \o s)
  <2>1. ToSet(r) \cap ToSet(s) = {}
    BY <1>2, <1>5
  <2>2. r \in Seq(All) /\ s \in Seq(All) /\ IsInjective(r) /\ IsInjective(s)
    BY <1>5
  <2>3. ToSet(r \o s) = ToSet(r) \cup ToSet(s)
    BY ONLY <2>2, ConcatSet
  <2>4. r \o s \in Seq(All) /\ IsInjective(r \o s)
    BY ONLY <2>1, <2>2, ConcatFacts, ConcatInjective
  <2> QED
    BY ONLY <1>5, <2>3, <2>4
<1>7. Plans(b) \in Seq(ToSet(Plans(b)))
  <2>1. Plans(b) \in Seq(All)
    BY ONLY <1>3, <1>6
  <2> QED
    BY ONLY <2>1, SeqToSet
<1>8. ToSet(Plans(b)) = Set(1) \cup Set(2) /\ IsInjective(Plans(b))
  BY <1>3, <1>6
<1>9. ASSUME NEW i \in DOMAIN Succ(b), Succ(b)[i] \notin DOMAIN copyMapping
      PROVE  PlanFor(b, LastNode(b), i) \in ToSet(Plans(b))
  <2>1. PlanFor(b, LastNode(b), i) \in Set(i)
    BY <1>9 DEF Set
  <2>2. i = 1 \/ i = 2
    BY <1>4
  <2> QED
    BY <1>8, <2>1, <2>2
<1>10. ASSUME NEW x \in ToSet(Plans(b))
       PROVE  \E i \in DOMAIN Succ(b) :
                 Succ(b)[i] \notin DOMAIN copyMapping /\ x = PlanFor(b, LastNode(b), i)
  <2>1. \E i \in 1 .. 2 : x \in Set(i)
    BY <1>8
  <2> QED
    BY <2>1 DEF Set
<1> QED
  BY <1>7, <1>8, <1>9, <1>10

\* The nodes of a block that is parsed, and where they lead: to each other, and
\* the last instruction also to the first nodes of blocks parsed before.
NewLink(g, b, m, L, K, T) ==
    /\ g[m] = [instr |-> g[m].instr, next |-> g[m].next, nextFalse |-> g[m].nextFalse]
    /\ g[m] = TerminalNode \/ (g[m] # TerminalNode /\ g[m].next # 0)
    /\ g[m].instr = <<>> \/ \E i \in 1 .. K : m = L + 2 + i /\ g[m].instr = <<b, i>>
    /\ g[m].next \in 0 .. L + 2 + K + T /\ g[m].nextFalse \in 0 .. L + 2 + K + T
    /\ m # L + 2 + K \/ K = 0 =>
          /\ g[m].next \in L + 3 .. L + 2 + K \/ g[m].next = 0 \/ K = 0
          /\ g[m].nextFalse = 0
    /\ \A l \in {g[m].next, g[m].nextFalse} :
          l \in 1 .. L => \E c \in DOMAIN copyMapping : l = copyMapping[c]

LEMMA NewLinks ==
    ASSUME module \in Modules, nodes \in Seq(ToSet(nodes)), NEW b \in Blocks,
           NEW L, L = Len(nodes), NEW K, K = Count(b),
           NEW T, T = FalseEnds(b), NEW g, g = nodes \o NodesOf(b),
           \A c \in DOMAIN copyMapping : copyMapping[c] \in 1 .. L,
           NEW m \in L + 1 .. L + 2 + K + T
    PROVE  NewLink(g, b, m, L, K, T)
<1>1. /\ L \in Nat /\ K \in Nat /\ T \in 0 .. 1
      /\ g[L + 1] = StartNode(FirstNode(b)) /\ g[L + 2] = TerminalNode
      /\ \A i \in 1 .. K :
            g[L + 2 + i] =
                [instr |-> <<b, i>>,
                 next |-> IF i < K THEN L + 3 + i ELSE SuccessorNode(b, 1, L + 2),
                 nextFalse |-> IF i = K /\ T = 1 THEN SuccessorNode(b, 2, L + 3 + K) ELSE NULL]
      /\ T = 1 => g[L + 3 + K] = TerminalNode
  <2>1. BlockNodes(g, b, L, K, T)
    BY NewNodes
  <2> QED
    BY ONLY <2>1 DEF BlockNodes
<1>2. FirstNode(b) = IF K = 0 THEN L + 2 ELSE L + 3
  BY ONLY <1>1, L = Len(nodes), K = Count(b) DEF FirstNode, TerminalId, NodeId
<1>3. ASSUME NEW i, NEW t
      PROVE  \/ SuccessorNode(b, i, t) = t
             \/ \E c \in DOMAIN copyMapping : SuccessorNode(b, i, t) = copyMapping[c]
  BY DEF SuccessorNode, IsMapped
<1>4. TerminalNode = [instr |-> <<>>, next |-> 0, nextFalse |-> 0]
  BY DEF TerminalNode, NULL
<1>5. CASE m = L + 1
  <2>1. g[m] = [instr |-> <<>>, next |-> FirstNode(b), nextFalse |-> 0]
    BY <1>1, <1>5 DEF StartNode, NULL
  <2>2. /\ FirstNode(b) \in L + 2 .. L + 2 + K + T /\ FirstNode(b) # 0 /\ FirstNode(b) \notin 1 .. L
        /\ K # 0 => FirstNode(b) \in L + 3 .. L + 2 + K
    BY ONLY <1>1, <1>2
  <2>3. 0 \notin 1 .. L /\ 0 \in 0 .. L + 2 + K + T /\ L + 2 .. L + 2 + K + T \subseteq 0 .. L + 2 + K + T
    BY ONLY <1>1
  <2> QED
    BY ONLY <1>4, <2>1, <2>2, <2>3 DEF NewLink
<1>6. CASE g[m] = TerminalNode
  <2>1. 0 \notin 1 .. L /\ 0 \in 0 .. L + 2 + K + T
    BY ONLY <1>1
  <2> QED
    BY ONLY <1>4, <1>6, <2>1 DEF NewLink
<1>7. ASSUME NEW i \in 1 .. K, m = L + 2 + i
      PROVE  /\ g[m] = [instr |-> <<b, i>>, next |-> g[m].next, nextFalse |-> g[m].nextFalse]
             /\ g[m].next \in 1 .. L + 2 + K + T /\ g[m].nextFalse \in 0 .. L + 2 + K + T
             /\ i # K => g[m].next \in L + 3 .. L + 2 + K /\ g[m].nextFalse = 0
             /\ \A l \in {g[m].next, g[m].nextFalse} :
                   l \in 1 .. L => \E c \in DOMAIN copyMapping : l = copyMapping[c]
  <2> DEFINE s1 == SuccessorNode(b, 1, L + 2)
             s2 == SuccessorNode(b, 2, L + 3 + K)
  <2>1. /\ g[m].instr = <<b, i>>
        /\ g[m].next = IF i < K THEN L + 3 + i ELSE s1
        /\ g[m].nextFalse = IF i = K /\ T = 1 THEN s2 ELSE 0
        /\ g[m] = [instr |-> g[m].instr, next |-> g[m].next, nextFalse |-> g[m].nextFalse]
    <3>1. g[m] = [instr |-> <<b, i>>,
                  next |-> IF i < K THEN L + 3 + i ELSE s1,
                  nextFalse |-> IF i = K /\ T = 1 THEN s2 ELSE 0]
      BY ONLY <1>1, <1>7, i \in 1 .. K DEF NULL
    <3> HIDE DEF s1, s2
    <3> QED
      BY ONLY <3>1
  <2>2. /\ s1 = L + 2 \/ \E c \in DOMAIN copyMapping : s1 = copyMapping[c]
        /\ s2 = L + 3 + K \/ \E c \in DOMAIN copyMapping : s2 = copyMapping[c]
    BY <1>3
  <2> HIDE DEF s1, s2
  <2>3. /\ i < K => L + 3 + i \in L + 3 .. L + 2 + K
        /\ L + 2 \in 1 .. L + 2 + K + T /\ L + 2 \notin 1 .. L
        /\ L + 3 .. L + 2 + K \subseteq 1 .. L + 2 + K + T
        /\ L + 3 + K \notin 1 .. L /\ 1 .. L \subseteq 1 .. L + 2 + K + T
        /\ 0 \notin 1 .. L /\ 0 \in 0 .. L + 2 + K + T
        /\ 1 .. L + 2 + K + T \subseteq 0 .. L + 2 + K + T
        /\ T = 1 => L + 3 + K \in 1 .. L + 2 + K + T
        /\ i # K => i < K
    BY ONLY <1>1, i \in 1 .. K
  <2>4. \A l \in L + 3 .. L + 2 + K : l \notin 1 .. L
    BY ONLY <1>1
  <2>5. /\ s1 \in 1 .. L + 2 + K + T
        /\ s1 \in 1 .. L => \E c \in DOMAIN copyMapping : s1 = copyMapping[c]
        /\ T = 1 => s2 \in 1 .. L + 2 + K + T
        /\ s2 \in 1 .. L => \E c \in DOMAIN copyMapping : s2 = copyMapping[c]
    BY <2>2, <2>3
  <2>6. CASE i < K
    BY ONLY <2>1, <2>3, <2>4, <2>6
  <2>7. CASE ~(i < K)
    BY ONLY <2>1, <2>3, <2>4, <2>5, <2>7
  <2> QED
    BY ONLY <2>6, <2>7
<1>8. \/ m = L + 1 \/ m = L + 2 \/ \E i \in 1 .. K : m = L + 2 + i
      \/ (T = 1 /\ m = L + 3 + K)
  <2> SUFFICES ASSUME m # L + 1, m # L + 2, ~(T = 1 /\ m = L + 3 + K)
               PROVE  \E i \in 1 .. K : m = L + 2 + i
    OBVIOUS
  <2> DEFINE i == m - (L + 2)
  <2>1. i \in 1 .. K /\ m = L + 2 + i
    BY ONLY <1>1, m # L + 1, m # L + 2, ~(T = 1 /\ m = L + 3 + K), m \in L + 1 .. L + 2 + K + T
  <2> HIDE DEF i
  <2> QED
    BY <2>1
<1>9. ASSUME NEW i \in 1 .. K, m = L + 2 + i
      PROVE  /\ g[m] # TerminalNode /\ g[m].next # 0
             /\ g[m].instr = <<b, i>>
             /\ (m # L + 2 + K \/ K = 0) => i # K
             /\ 1 .. L + 2 + K + T \subseteq 0 .. L + 2 + K + T
  <2>1. g[m].instr = <<b, i>> /\ g[m].next \in 1 .. L + 2 + K + T
    <3>1. /\ g[m] = [instr |-> <<b, i>>, next |-> g[m].next, nextFalse |-> g[m].nextFalse]
          /\ g[m].next \in 1 .. L + 2 + K + T
      BY <1>7, <1>9
    <3> QED
      BY ONLY <3>1
  <2>2. g[m].next # 0 /\ g[m] # TerminalNode
    <3>1. \A x \in 1 .. L + 2 + K + T : x # 0
      BY ONLY <1>1
    <3> QED
      BY ONLY <1>4, <2>1, <3>1
  <2>3. (m # L + 2 + K \/ K = 0) => i # K
    BY ONLY <1>1, <1>9, i \in 1 .. K
  <2>4. 1 .. L + 2 + K + T \subseteq 0 .. L + 2 + K + T
    BY ONLY <1>1
  <2> QED
    BY ONLY <2>1, <2>2, <2>3, <2>4
<1>10. CASE \E i \in 1 .. K : m = L + 2 + i
  <2>1. PICK i \in 1 .. K : m = L + 2 + i
    BY <1>10
  <2> QED
    BY <1>7, <1>9, <2>1 DEF NewLink
<1> QED
  BY <1>1, <1>5, <1>6, <1>8, <1>10 DEF NewLink

\* The graph g, which is that of the state with block b parsed.
BlockAdded(g, f, q, b) ==
    /\ GraphInv(g, f, q)
    /\ DOMAIN f = DOMAIN copyMapping \cup {b} /\ f[b] = FirstNode(b)
    /\ Len(nodes) \in Nat /\ Len(g) \in Nat /\ Len(nodes) <= Len(g)
    /\ f[b] \in Len(nodes) + 1 .. Len(g)
    /\ \A n \in 1 .. Len(g) : n <= Len(nodes) => g[n] = nodes[n]
    /\ \A n \in 1 .. Len(g) : n > Len(nodes) =>
          g[n].instr = <<>> \/ \E i \in 1 .. Count(b) : g[n].instr = <<b, i>>

LEMMA AddBlock ==
    ASSUME module \in Modules, GraphInv(nodes, copyMapping, parseAndLinkTogether),
           NEW b \in Blocks, b \notin DOMAIN copyMapping,
           NEW g, g = nodes \o NodesOf(b), NEW f, f = Map(b, FirstNode(b)),
           NEW q, q = parseAndLinkTogether \o Plans(b)
    PROVE  BlockAdded(g, f, q, b)
<1> DEFINE L == Len(nodes)
           K == Count(b)
           T == FalseEnds(b)
           M == L + 2 + K + T
           mapped == DOMAIN copyMapping
           plans == Plans(b)
           e == L + 2 + K
<1>1. /\ nodes \in Seq(ToSet(nodes))
      /\ \A n \in 1 .. L :
            /\ nodes[n] = [instr |-> nodes[n].instr, next |-> nodes[n].next, nextFalse |-> nodes[n].nextFalse]
            /\ nodes[n].next \in 0 .. L /\ nodes[n].nextFalse \in 0 .. L
            /\ nodes[n].next = 0 <=> nodes[n] = TerminalNode
            /\ \/ nodes[n].instr = <<>>
               \/ \E i \in 1 .. 2 : nodes[n].instr = <<0, i>>
               \/ \E c \in mapped : \E i \in 1 .. Count(c) : nodes[n].instr = <<c, i>>
      /\ \A m, n \in 1 .. L : nodes[m].instr = nodes[n].instr /\ nodes[m].instr # <<>> => m = n
      /\ mapped \subseteq Blocks
      /\ \A c \in mapped : copyMapping[c] \in 1 .. L
  BY DEF GraphInv, NodesInv, NULL
<1>2. BlockNodes(g, b, L, K, T)
  BY <1>1, NewNodes
<1>3. \A m \in L + 1 .. M :
           /\ g[m] = [instr |-> g[m].instr, next |-> g[m].next, nextFalse |-> g[m].nextFalse]
           /\ g[m] = TerminalNode \/ (g[m] # TerminalNode /\ g[m].next # 0)
           /\ g[m].instr = <<>> \/ \E i \in 1 .. K : m = L + 2 + i /\ g[m].instr = <<b, i>>
           /\ g[m].next \in 0 .. M /\ g[m].nextFalse \in 0 .. M
           /\ m # L + 2 + K \/ K = 0 =>
                 /\ g[m].next \in L + 3 .. L + 2 + K \/ g[m].next = 0 \/ K = 0
                 /\ g[m].nextFalse = 0
           /\ \A l \in {g[m].next, g[m].nextFalse} :
                 l \in 1 .. L => \E c \in mapped : l = copyMapping[c]
  <2> SUFFICES ASSUME NEW m \in L + 1 .. M PROVE NewLink(g, b, m, L, K, T)
    BY DEF NewLink, mapped, M
  <2> QED
    BY <1>1, NewLinks
<1>4. DOMAIN f = mapped \cup {b} /\ f[b] = FirstNode(b) /\ \A c \in mapped : f[c] = copyMapping[c]
  BY DEF Map
<1>5. /\ L \in Nat /\ K \in Nat /\ T \in 0 .. 1 /\ Len(g) = M
      /\ g \in Seq(ToSet(g)) /\ \A n \in 1 .. L : g[n] = nodes[n]
      /\ g[L + 2] = TerminalNode /\ (T = 1 => g[L + 3 + K] = TerminalNode)
  BY <1>2 DEF BlockNodes
<1>6. FirstNode(b) = IF K = 0 THEN L + 2 ELSE L + 3
  BY ONLY <1>5 DEF FirstNode, TerminalId, NodeId
<1>7. LastNode(b) = e
  BY ONLY <1>5 DEF LastNode, NodeId
<1>8. \A i \in 1 .. K :
         g[L + 2 + i] =
             [instr |-> <<b, i>>,
              next |-> IF i < K THEN L + 3 + i ELSE SuccessorNode(b, 1, L + 2),
              nextFalse |-> IF i = K /\ T = 1 THEN SuccessorNode(b, 2, L + 3 + K) ELSE 0]
  BY ONLY <1>2 DEF BlockNodes, NULL
<1>9. /\ DOMAIN Succ(b) = 1 .. Len(Succ(b)) /\ Len(Succ(b)) \in 0 .. 2
      /\ DOMAIN Succ(b) # {} => K # 0
      /\ T = 1 <=> Len(Succ(b)) = 2
  <2>1. T = 1 <=> Len(Succ(b)) = 2
    BY DEF FalseEnds
  <2> HIDE DEF T
  <2> QED
    BY <2>1, ModuleFacts
<1>10. /\ plans \in Seq(ToSet(plans)) /\ IsInjective(plans)
       /\ \A i \in DOMAIN Succ(b) : Succ(b)[i] \notin mapped => PlanFor(b, e, i) \in ToSet(plans)
       /\ \A x \in ToSet(plans) : \E i \in DOMAIN Succ(b) :
             Succ(b)[i] \notin mapped /\ x = PlanFor(b, e, i)
  BY <1>7, PlansFacts
<1>11. b # 0
  BY ModuleFacts
<1>12. FirstNode(b) \in L + 1 .. M
  BY ONLY <1>5, <1>6
<1> DEFINE old == parseAndLinkTogether
<1>13. /\ old \in Seq(ToSet(old)) /\ IsInjective(old) /\ q = old \o plans
       /\ \A x \in ToSet(old) : \E c \in mapped : \E i \in DOMAIN Succ(c) : \E n \in 1 .. L :
             x = PlanFor(c, n, i) /\ nodes[n].instr = <<c, Count(c)>>
  BY DEF GraphInv, QueueInv
<1>14. ASSUME NEW c \in mapped
       PROVE  \E base \in Nat : BlockInv(nodes, copyMapping, old, c, base)
  BY DEF GraphInv
<1> HIDE DEF M, L, K, T, mapped, plans, e, old
<1>15. /\ 1 .. L \subseteq 1 .. M /\ 0 .. L \subseteq 0 .. M /\ L + 1 .. M \subseteq 1 .. M
       /\ \A n \in 1 .. M : n \in 1 .. L \/ n \in L + 1 .. M
       /\ \A n \in 1 .. L : n \notin L + 1 .. M
       /\ e \notin 1 .. L /\ M \in Nat /\ L <= M
       /\ \A n \in 1 .. M : n <= L => n \in 1 .. L
       /\ \A n \in 1 .. M : n > L => n \in L + 1 .. M
  BY ONLY <1>5 DEF M, e
<1>16. /\ \A n \in 1 .. Len(g) : n <= L => g[n] = nodes[n]
       /\ \A n \in 1 .. Len(g) : n > L =>
             g[n].instr = <<>> \/ \E i \in 1 .. K : g[n].instr = <<b, i>>
  <2>1. ASSUME NEW n \in 1 .. M, n > L
        PROVE  g[n].instr = <<>> \/ \E i \in 1 .. K : g[n].instr = <<b, i>>
    BY <1>3, <1>15, <2>1
  <2> QED
    BY <1>5, <1>15, <2>1
<1>17. NodesInv(g, f)
  <2>1. ASSUME NEW n \in 1 .. M
        PROVE  /\ g[n] = [instr |-> g[n].instr, next |-> g[n].next, nextFalse |-> g[n].nextFalse]
               /\ g[n].next \in 0 .. M /\ g[n].nextFalse \in 0 .. M
               /\ g[n].next = 0 <=> g[n] = TerminalNode
               /\ \/ g[n].instr = <<>>
                  \/ \E i \in 1 .. 2 : g[n].instr = <<0, i>>
                  \/ \E c \in DOMAIN f : \E i \in 1 .. Count(c) : g[n].instr = <<c, i>>
    <3>1. CASE n \in 1 .. L
      <4>1. g[n] = nodes[n]
        BY <1>5, <3>1
      <4>2. \/ nodes[n].instr = <<>>
            \/ \E i \in 1 .. 2 : nodes[n].instr = <<0, i>>
            \/ \E c \in DOMAIN f : \E i \in 1 .. Count(c) : nodes[n].instr = <<c, i>>
        <5>1. \/ nodes[n].instr = <<>>
              \/ \E i \in 1 .. 2 : nodes[n].instr = <<0, i>>
              \/ \E c \in mapped : \E i \in 1 .. Count(c) : nodes[n].instr = <<c, i>>
          BY <1>1, <3>1
        <5>2. mapped \subseteq DOMAIN f
          BY <1>4
        <5> QED
          BY ONLY <5>1, <5>2
      <4> QED
        BY <1>1, <1>15, <3>1, <4>1, <4>2
    <3>2. CASE n \in L + 1 .. M
      <4>1. TerminalNode.next = 0
        BY DEF TerminalNode, NULL
      <4>2. g[n].instr = <<>> \/ \E c \in DOMAIN f : \E i \in 1 .. Count(c) : g[n].instr = <<c, i>>
        <5>1. g[n].instr = <<>> \/ \E i \in 1 .. K : g[n].instr = <<b, i>>
          BY <1>3, <3>2
        <5>2. b \in DOMAIN f /\ K = Count(b)
          BY <1>4 DEF K
        <5> QED
          BY ONLY <5>1, <5>2
      <4> QED
        BY <1>3, <3>2, <4>1, <4>2
    <3> QED
      BY <1>15, <3>1, <3>2
  <2>2. ASSUME NEW m \in 1 .. M, NEW n \in 1 .. M, g[m].instr = g[n].instr, g[m].instr # <<>>
        PROVE  m = n
    <3>1. CASE m \in 1 .. L /\ n \in 1 .. L
      BY <1>1, <1>5, <2>2, <3>1
    <3>2. CASE m \in L + 1 .. M /\ n \in L + 1 .. M
      <4>1. PICK i \in 1 .. K : m = L + 2 + i /\ g[m].instr = <<b, i>>
        BY <1>3, <2>2, <3>2
      <4>2. PICK j \in 1 .. K : n = L + 2 + j /\ g[n].instr = <<b, j>>
        BY <1>3, <2>2, <3>2
      <4>3. i = j
        <5>1. <<b, i>> = <<b, j>>
          BY <2>2, <4>1, <4>2
        <5> QED
          BY ONLY <5>1
      <4> QED
        BY <4>1, <4>2, <4>3
    <3>3. ASSUME NEW x \in 1 .. L, NEW y \in L + 1 .. M, g[x].instr = g[y].instr, g[y].instr # <<>>
          PROVE  FALSE
      <4>1. PICK i \in 1 .. K : g[y].instr = <<b, i>>
        BY <1>3, <3>3
      <4>2. \/ \E j \in 1 .. 2 : g[x].instr = <<0, j>>
            \/ \E c \in mapped : \E j \in 1 .. Count(c) : g[x].instr = <<c, j>>
        <5>1. /\ g[x] = nodes[x]
              /\ \/ nodes[x].instr = <<>>
                 \/ \E j \in 1 .. 2 : nodes[x].instr = <<0, j>>
                 \/ \E c \in mapped : \E j \in 1 .. Count(c) : nodes[x].instr = <<c, j>>
          BY <1>1, <1>5
        <5> QED
          BY ONLY <3>3, <5>1
      <4>3. ASSUME NEW c, c # b, NEW j PROVE g[x].instr # <<c, j>>
        BY ONLY <3>3, <4>1, <4>3
      <4>4. b \notin mapped
        BY DEF mapped
      <4> QED
        BY ONLY <1>11, <4>2, <4>3, <4>4
    <3> QED
      BY <1>15, <2>2, <3>1, <3>2, <3>3
  <2>3. DOMAIN f \subseteq Blocks
    BY <1>1, <1>4
  <2>4. ASSUME NEW c \in DOMAIN f PROVE f[c] \in 1 .. M
    BY <1>1, <1>4, <1>12, <1>15
  <2> QED
    BY <1>5, <2>1, <2>2, <2>3, <2>4 DEF NodesInv, NULL
<1>18. /\ q \in Seq(ToSet(q)) /\ ToSet(q) = ToSet(old) \cup ToSet(plans) /\ IsInjective(q)
  <2> DEFINE All == ToSet(old) \cup ToSet(plans)
  <2>1. old \in Seq(All) /\ plans \in Seq(All)
    BY <1>10, <1>13
  <2>2. ToSet(old) \cap ToSet(plans) = {}
    <3> SUFFICES ASSUME NEW x \in ToSet(old), x \in ToSet(plans) PROVE FALSE
      OBVIOUS
    <3>1. x.node \in 1 .. L
      BY <1>13 DEF PlanFor
    <3>2. x.node = e
      BY <1>10 DEF PlanFor
    <3> QED
      BY <1>15, <3>1, <3>2
  <2> HIDE DEF All
  <2>3. q \in Seq(All)
    BY ONLY <1>13, <2>1, ConcatFacts
  <2>4. ToSet(q) = ToSet(old) \cup ToSet(plans)
    BY ONLY <1>13, <2>1, ConcatSet
  <2>5. IsInjective(q)
    BY ONLY <1>10, <1>13, <2>1, <2>2, ConcatInjective
  <2> QED
    BY <2>3, <2>4, <2>5, SeqToSet
<1>19. QueueInv(g, f, q)
  <2>1. ASSUME NEW x \in ToSet(q)
        PROVE  \E c \in DOMAIN f : \E i \in DOMAIN Succ(c) : \E n \in 1 .. M :
                  x = PlanFor(c, n, i) /\ g[n].instr = <<c, Count(c)>>
    <3>1. CASE x \in ToSet(old)
      <4>1. PICK c \in mapped : \E i \in DOMAIN Succ(c) : \E n \in 1 .. L :
                x = PlanFor(c, n, i) /\ nodes[n].instr = <<c, Count(c)>>
        BY <1>13, <3>1
      <4> QED
        BY <1>4, <1>5, <1>15, <4>1
    <3>2. CASE x \in ToSet(plans)
      <4>1. PICK i \in DOMAIN Succ(b) : x = PlanFor(b, e, i)
        BY <1>10, <3>2
      <4>2. K \in 1 .. K /\ e \in 1 .. M /\ e = L + 2 + K
        BY ONLY <1>5, <1>9, <4>1 DEF e, M
      <4>3. g[e].instr = <<b, K>>
        <5>1. g[e] =
                 [instr |-> <<b, K>>,
                  next |-> IF K < K THEN L + 3 + K ELSE SuccessorNode(b, 1, L + 2),
                  nextFalse |-> IF K = K /\ T = 1 THEN SuccessorNode(b, 2, L + 3 + K) ELSE 0]
          BY ONLY <1>8, <4>2
        <5> QED
          BY ONLY <5>1
      <4> QED
        BY <1>4, <4>1, <4>2, <4>3 DEF K
    <3> QED
      BY <1>18, <3>1, <3>2
  <2> QED
    BY <1>5, <1>18, <2>1 DEF QueueInv
<1>20. ASSUME NEW c \in mapped PROVE \E base \in Nat : BlockInv(g, f, q, c, base)
  <2>1. PICK base \in Nat : BlockInv(nodes, copyMapping, old, c, base)
    BY <1>14
  <2>2. c \in Blocks /\ Count(c) \in Nat /\ (DOMAIN Succ(c) # {} => Count(c) # 0)
    <3>1. c \in Blocks
      BY <1>1
    <3> QED
      BY <3>1, ModuleFacts
  <2>3. /\ base + Count(c) <= L
        /\ \A k \in 1 .. Count(c) : nodes[base + k].instr = <<c, k>>
        /\ \A k \in 1 .. Count(c) - 1 : nodes[base + k].next = base + k + 1
        /\ IF Count(c) = 0 THEN nodes[copyMapping[c]] = TerminalNode ELSE copyMapping[c] = base + 1
        /\ \A k \in DOMAIN Succ(c) : SideInv(nodes, copyMapping, old, c, base + Count(c), k)
    BY <2>1 DEF BlockInv, L
  <2>4. /\ \A k \in 1 .. Count(c) : base + k \in 1 .. L
        /\ \A k \in 1 .. Count(c) - 1 : base + k \in 1 .. L
        /\ base + Count(c) <= M
    BY ONLY <1>5, <1>15, <2>2, <2>3, base \in Nat
  <2>5. /\ \A k \in 1 .. Count(c) : g[base + k].instr = <<c, k>>
        /\ \A k \in 1 .. Count(c) - 1 : g[base + k].next = base + k + 1
    BY <1>5, <2>3, <2>4
  <2>6. IF Count(c) = 0 THEN g[f[c]] = TerminalNode ELSE f[c] = base + 1
    BY <1>1, <1>4, <1>5, <2>3
  <2>7. ASSUME NEW k \in DOMAIN Succ(c) PROVE SideInv(g, f, q, c, base + Count(c), k)
    <3> DEFINE n == base + Count(c)
    <3>1. n \in 1 .. L /\ SideInv(nodes, copyMapping, old, c, n, k)
      <4>1. Count(c) \in 1 .. Count(c)
        BY <2>2
      <4> QED
        BY <2>3, <2>4, <4>1
    <3> HIDE DEF n
    <3>2. g[n] = nodes[n]
      BY <1>5, <3>1
    <3>3. PlanFor(c, n, k) \in ToSet(q) <=> PlanFor(c, n, k) \in ToSet(old)
      <4>1. PlanFor(c, n, k).node = n
        BY DEF PlanFor
      <4>2. \A x \in ToSet(plans) : x.node = e
        BY <1>10 DEF PlanFor
      <4>3. PlanFor(c, n, k) \notin ToSet(plans)
        BY <1>15, <3>1, <4>1, <4>2
      <4> QED
        BY <1>18, <4>3
    <3>4. Side(g, n, k) = Side(nodes, n, k)
      BY <3>2 DEF Side
    <3>5. ASSUME OwnTerminal(nodes, copyMapping, n, k) PROVE OwnTerminal(g, f, n, k)
      <4> DEFINE s == Side(nodes, n, k)
      <4>1. /\ s \in 1 .. L /\ nodes[s] = TerminalNode
            /\ \A m \in 1 .. L : m # n => s \notin {nodes[m].next, nodes[m].nextFalse}
            /\ \A a \in mapped : copyMapping[a] # s
        BY <3>5 DEF OwnTerminal, L, mapped
      <4> HIDE DEF s
      <4>2. ASSUME NEW m \in 1 .. M, m # n PROVE s \notin {g[m].next, g[m].nextFalse}
        <5>1. CASE m \in 1 .. L
          BY <1>5, <4>1, <4>2, <5>1
        <5>2. CASE m \in L + 1 .. M
          <6>1. \A l \in {g[m].next, g[m].nextFalse} :
                    l \in 1 .. L => \E x \in mapped : l = copyMapping[x]
            BY <1>3, <5>2
          <6> QED
            BY ONLY <4>1, <6>1
        <5> QED
          BY <1>15, <5>1, <5>2
      <4>3. \A a \in DOMAIN f : f[a] # s
        BY <1>4, <1>12, <1>15, <4>1
      <4>4. s \in 1 .. M /\ g[s] = TerminalNode
        BY <1>5, <1>15, <4>1
      <4>5. Side(g, n, k) = s
        BY <3>4 DEF s
      <4> QED
        BY <1>5, <4>2, <4>3, <4>4, <4>5 DEF OwnTerminal
    <3>6. CASE PlanFor(c, n, k) \in ToSet(old)
      <4>1. OwnTerminal(g, f, n, k)
        BY <3>1, <3>5, <3>6 DEF SideInv
      <4> QED
        BY <3>3, <3>6, <4>1 DEF SideInv, n
    <3>7. CASE PlanFor(c, n, k) \notin ToSet(old)
      <4>1. Succ(c)[k] \in mapped /\ Side(nodes, n, k) = copyMapping[Succ(c)[k]]
        BY <3>1, <3>7 DEF SideInv, mapped
      <4>2. Succ(c)[k] \in DOMAIN f /\ Side(g, n, k) = f[Succ(c)[k]]
        BY <1>4, <3>4, <4>1
      <4> QED
        BY <3>3, <3>7, <4>2 DEF SideInv, n
    <3> QED
      BY <3>6, <3>7
  <2>8. BlockInv(g, f, q, c, base)
    BY <1>5, <2>4, <2>5, <2>6, <2>7 DEF BlockInv
  <2> QED
    BY <2>8
<1>21. BlockInv(g, f, q, b, L + 2)
  <2>1. L + 2 + K <= M
    BY ONLY <1>5 DEF M
  <2>2. /\ \A i \in 1 .. K : g[L + 2 + i].instr = <<b, i>>
        /\ \A i \in 1 .. K - 1 : g[L + 2 + i].next = L + 2 + i + 1
    <3>1. ASSUME NEW i \in 1 .. K
          PROVE  g[L + 2 + i].instr = <<b, i>> /\ (i < K => g[L + 2 + i].next = L + 3 + i)
      <4> DEFINE s1 == SuccessorNode(b, 1, L + 2)
                 s2 == SuccessorNode(b, 2, L + 3 + K)
                 node == g[L + 2 + i]
      <4>1. node = [instr |-> <<b, i>>,
                    next |-> IF i < K THEN L + 3 + i ELSE s1,
                    nextFalse |-> IF i = K /\ T = 1 THEN s2 ELSE 0]
        BY ONLY <1>8, i \in 1 .. K
      <4> HIDE DEF s1, s2, node
      <4>2. node.instr = <<b, i>> /\ (i < K => node.next = L + 3 + i)
        BY ONLY <4>1
      <4> QED
        BY ONLY <4>2 DEF node
    <3>2. ASSUME NEW i \in 1 .. K - 1 PROVE g[L + 2 + i].next = L + 2 + i + 1
      <4>1. i \in 1 .. K /\ i < K /\ L + 2 + i + 1 = L + 3 + i
        BY ONLY <1>5, i \in 1 .. K - 1
      <4> QED
        BY <3>1, <4>1
    <3> QED
      BY <3>1, <3>2
  <2>3. IF K = 0 THEN g[f[b]] = TerminalNode ELSE f[b] = L + 2 + 1
    BY ONLY <1>4, <1>5, <1>6
  <2>4. ASSUME NEW i \in DOMAIN Succ(b) PROVE SideInv(g, f, q, b, e, i)
    <3> DEFINE s == Side(g, e, i)
               t == IF i = 1 THEN L + 2 ELSE L + 3 + K
    <3>1. K # 0 /\ K \in 1 .. K /\ e = L + 2 + K /\ i \in 1 .. 2 /\ (i = 2 => T = 1)
      BY ONLY <1>5, <1>9, i \in DOMAIN Succ(b) DEF e
    <3>2. s = SuccessorNode(b, i, t)
      <4>1. /\ g[e].next = SuccessorNode(b, 1, L + 2)
            /\ T = 1 => g[e].nextFalse = SuccessorNode(b, 2, L + 3 + K)
        <5>1. g[e] =
                 [instr |-> <<b, K>>,
                  next |-> IF K < K THEN L + 3 + K ELSE SuccessorNode(b, 1, L + 2),
                  nextFalse |-> IF K = K /\ T = 1 THEN SuccessorNode(b, 2, L + 3 + K) ELSE 0]
          BY ONLY <1>8, <3>1
        <5>2. ~(K < K)
          BY ONLY <1>5
        <5> QED
          BY ONLY <5>1, <5>2
      <4> QED
        BY ONLY <3>1, <4>1 DEF Side
    <3>3. CASE Succ(b)[i] \in mapped
      <4>1. s = copyMapping[Succ(b)[i]]
        BY <3>2, <3>3 DEF SuccessorNode, IsMapped, mapped
      <4>2. Succ(b)[i] \in DOMAIN f /\ s = f[Succ(b)[i]]
        BY <1>4, <3>3, <4>1
      <4>3. PlanFor(b, e, i) \notin ToSet(q)
        <5>1. PlanFor(b, e, i) \notin ToSet(old)
          <6>1. \A x \in ToSet(old) : x.node \in 1 .. L
            BY <1>13 DEF PlanFor
          <6>2. PlanFor(b, e, i).node = e
            BY DEF PlanFor
          <6> QED
            BY <1>15, <6>1, <6>2
        <5>2. PlanFor(b, e, i) \notin ToSet(plans)
          <6>1. \A x \in ToSet(plans) : x.block \notin mapped
            BY <1>10 DEF PlanFor
          <6>2. PlanFor(b, e, i).block = Succ(b)[i]
            BY DEF PlanFor
          <6> QED
            BY <3>3, <6>1, <6>2
        <5> QED
          BY <1>18, <5>1, <5>2
      <4> QED
        BY <4>2, <4>3 DEF SideInv
    <3>4. CASE Succ(b)[i] \notin mapped
      <4>1. s = t
        BY <3>2, <3>4 DEF SuccessorNode, IsMapped, mapped
      <4>2. PlanFor(b, e, i) \in ToSet(q)
        BY <1>10, <1>18, <3>4
      <4>3. /\ t \in 1 .. M /\ g[t] = TerminalNode /\ t \notin 0 .. L
            /\ t \notin L + 3 .. L + 2 + K /\ t # 0
            /\ FirstNode(b) # t
        BY ONLY <1>5, <1>6, <3>1 DEF M
      <4>4. ASSUME NEW m \in 1 .. M, m # e PROVE t \notin {g[m].next, g[m].nextFalse}
        <5>1. CASE m \in 1 .. L
          <6>1. g[m] = nodes[m] /\ nodes[m].next \in 0 .. L /\ nodes[m].nextFalse \in 0 .. L
            BY <1>1, <1>5, <5>1
          <6> QED
            BY ONLY <4>3, <6>1
        <5>2. CASE m \in L + 1 .. M
          <6>1. /\ g[m].next \in L + 3 .. L + 2 + K \/ g[m].next = 0
                /\ g[m].nextFalse = 0
            BY <1>3, <3>1, <4>4, <5>2
          <6> QED
            BY <4>3, <6>1
        <5> QED
          BY <1>15, <5>1, <5>2
      <4>5. \A c \in DOMAIN f : f[c] # t
        <5>1. \A n \in 1 .. L : n \in 0 .. L
          BY ONLY <1>5
        <5> QED
          BY <1>1, <1>4, <4>3, <5>1
      <4>6. OwnTerminal(g, f, e, i)
        BY <1>5, <4>1, <4>3, <4>4, <4>5 DEF OwnTerminal
      <4> QED
        BY <4>2, <4>6 DEF SideInv
    <3> QED
      BY <3>3, <3>4
  <2> QED
    BY <1>5, <2>1, <2>2, <2>3, <2>4 DEF BlockInv, K, e
<1>22. GraphInv(g, f, q)
  <2>1. L + 2 \in Nat
    BY ONLY <1>5
  <2>2. \A c \in DOMAIN f : \E base \in Nat : BlockInv(g, f, q, c, base)
    BY <1>4, <1>20, <1>21, <2>1
  <2> QED
    BY <1>17, <1>19, <2>2 DEF GraphInv
<1> QED
  BY <1>4, <1>5, <1>12, <1>15, <1>16, <1>22 DEF L, K, mapped, BlockAdded
\* The graph with __entry before main.
LEMMA AddEntry ==
    ASSUME module \in Modules, GraphInv(nodes, copyMapping, parseAndLinkTogether),
           \A n \in 1 .. Len(nodes) : \A i \in 1 .. 2 : nodes[n].instr # <<0, i>>,
           NEW g, g = nodes \o << StartNode(NodeId(1)), TerminalNode,
                         [instr |-> <<0, 1>>, next |-> NodeId(2), nextFalse |-> NULL],
                         [instr |-> <<0, 2>>, next |-> TerminalId, nextFalse |-> NULL] >>
    PROVE  /\ GraphInv(g, copyMapping, parseAndLinkTogether)
           /\ Len(nodes) \in Nat /\ NodeId(1) \in 1 .. Len(g)
<1> DEFINE L == Len(nodes)
           entry == << StartNode(NodeId(1)), TerminalNode,
                       [instr |-> <<0, 1>>, next |-> NodeId(2), nextFalse |-> NULL],
                       [instr |-> <<0, 2>>, next |-> TerminalId, nextFalse |-> NULL] >>
           n1 == entry[1]
           n2 == entry[2]
           n3 == entry[3]
           n4 == entry[4]
           All == ToSet(nodes) \cup {n1, n2, n3, n4}
           f == copyMapping
           q == parseAndLinkTogether
<1>1. /\ nodes \in Seq(ToSet(nodes))
      /\ \A n \in 1 .. L :
            /\ nodes[n] = [instr |-> nodes[n].instr, next |-> nodes[n].next, nextFalse |-> nodes[n].nextFalse]
            /\ nodes[n].next \in 0 .. L /\ nodes[n].nextFalse \in 0 .. L
            /\ nodes[n].next = 0 <=> nodes[n] = TerminalNode
            /\ \/ nodes[n].instr = <<>>
               \/ \E i \in 1 .. 2 : nodes[n].instr = <<0, i>>
               \/ \E c \in DOMAIN f : \E i \in 1 .. Count(c) : nodes[n].instr = <<c, i>>
      /\ \A m, n \in 1 .. L : nodes[m].instr = nodes[n].instr /\ nodes[m].instr # <<>> => m = n
      /\ DOMAIN f \subseteq Blocks
      /\ \A c \in DOMAIN f : f[c] \in 1 .. L
  BY DEF GraphInv, NodesInv, NULL
<1>2. L \in Nat
  BY <1>1, LenProperties
<1>3. /\ entry[1] = [instr |-> <<>>, next |-> L + 3, nextFalse |-> 0]
      /\ entry[2] = [instr |-> <<>>, next |-> 0, nextFalse |-> 0]
      /\ entry[3] = [instr |-> <<0, 1>>, next |-> L + 4, nextFalse |-> 0]
      /\ entry[4] = [instr |-> <<0, 2>>, next |-> L + 2, nextFalse |-> 0]
      /\ NodeId(1) = L + 3
  <2>1. NodeId(1) = L + 3 /\ NodeId(2) = L + 4 /\ TerminalId = L + 2
    BY <1>2 DEF NodeId, TerminalId
  <2> QED
    BY <2>1 DEF StartNode, TerminalNode, NULL
<1>4. nodes \in Seq(All) /\ entry \in Seq(All) /\ Len(entry) = 4
  <2>1. nodes \in Seq(All)
    <3>1. ToSet(nodes) \subseteq All
      OBVIOUS
    <3> HIDE DEF All
    <3> QED
      BY <1>1, <3>1
  <2>2. entry \in Seq(All) /\ Len(entry) = 4
    <3>1. entry = << n1, n2, n3, n4 >>
      OBVIOUS
    <3> HIDE DEF entry, n1, n2, n3, n4
    <3>2. n1 \in All /\ n2 \in All /\ n3 \in All /\ n4 \in All
      OBVIOUS
    <3> HIDE DEF All
    <3>3. << n1, n2, n3, n4 >> \in Seq(All) /\ Len(<< n1, n2, n3, n4 >>) = 4
      BY ONLY <3>2
    <3> QED
      BY ONLY <3>1, <3>3
  <2> QED
    BY <2>1, <2>2
<1>5. g = nodes \o entry
  OBVIOUS
<1> HIDE DEF n1, n2, n3, n4, entry, All
<1>6. /\ g \in Seq(All) /\ Len(g) = L + 4 /\ \A n \in 1 .. L : g[n] = nodes[n]
      /\ \A i \in 1 .. 4 : g[L + i] = entry[i]
  <2>1. nodes \in Seq(All) /\ entry \in Seq(All) /\ g = nodes \o entry
    BY <1>4, <1>5
  <2>2. /\ g \in Seq(All) /\ Len(g) = Len(nodes) + Len(entry)
        /\ \A n \in 1 .. Len(nodes) : g[n] = nodes[n]
        /\ \A i \in 1 .. Len(entry) : g[Len(nodes) + i] = entry[i]
    BY ONLY <2>1, ConcatFacts
  <2> QED
    BY <1>4, <2>2
<1>7. \A i \in 1 .. 4 : g[L + i] = entry[i]
  BY <1>6
<1>8. g \in Seq(ToSet(g))
  BY <1>6, SeqToSet
<1> HIDE DEF L, f, q
<1>9. /\ g[L + 1] = entry[1] /\ g[L + 2] = entry[2] /\ g[L + 3] = entry[3] /\ g[L + 4] = entry[4]
  <2>1. 1 \in 1 .. 4 /\ 2 \in 1 .. 4 /\ 3 \in 1 .. 4 /\ 4 \in 1 .. 4
    OBVIOUS
  <2> QED
    BY ONLY <1>7, <2>1
<1>10. /\ \A n \in 1 .. L + 4 :
            n \in 1 .. L \/ n = L + 1 \/ n = L + 2 \/ n = L + 3 \/ n = L + 4
       /\ 1 .. L \subseteq 1 .. L + 4 /\ 0 .. L \subseteq 0 .. L + 4
       /\ L + 1 \notin 1 .. L /\ L + 2 \notin 1 .. L /\ L + 3 \notin 1 .. L /\ L + 4 \notin 1 .. L
       /\ L + 2 \in 0 .. L + 4 /\ L + 3 \in 0 .. L + 4 /\ L + 4 \in 0 .. L + 4
       /\ L + 2 # 0 /\ L + 3 # 0 /\ L + 4 # 0 /\ 0 \in 0 .. L + 4 /\ 0 \notin 1 .. L
       /\ L + 3 # L + 4 /\ L + 3 \in 1 .. L + 4
  BY ONLY <1>2
<1>11. TerminalNode = [instr |-> <<>>, next |-> 0, nextFalse |-> 0]
  BY DEF TerminalNode, NULL
<1>12. ASSUME NEW n \in 1 .. L + 4, n \notin 1 .. L
       PROVE  /\ g[n] = [instr |-> g[n].instr, next |-> g[n].next, nextFalse |-> g[n].nextFalse]
              /\ g[n].next \in 0 .. L + 4 /\ g[n].next \notin 1 .. L /\ g[n].nextFalse = 0
              /\ g[n].next = 0 <=> g[n] = TerminalNode
              /\ g[n].instr = <<>> \/ (n = L + 3 /\ g[n].instr = <<0, 1>>)
                 \/ (n = L + 4 /\ g[n].instr = <<0, 2>>)
  <2>1. CASE n = L + 1
    <3>1. g[n] = [instr |-> <<>>, next |-> L + 3, nextFalse |-> 0]
      BY ONLY <1>3, <1>9, <2>1
    <3> QED
      BY ONLY <1>10, <1>11, <3>1
  <2>2. CASE n = L + 2
    <3>1. g[n] = [instr |-> <<>>, next |-> 0, nextFalse |-> 0]
      BY ONLY <1>3, <1>9, <2>2
    <3> QED
      BY ONLY <1>10, <1>11, <3>1
  <2>3. CASE n = L + 3
    <3>1. g[n] = [instr |-> <<0, 1>>, next |-> L + 4, nextFalse |-> 0]
      BY ONLY <1>3, <1>9, <2>3
    <3> QED
      BY ONLY <1>10, <1>11, <2>3, <3>1
  <2>4. CASE n = L + 4
    <3>1. g[n] = [instr |-> <<0, 2>>, next |-> L + 2, nextFalse |-> 0]
      BY ONLY <1>3, <1>9, <2>4
    <3> QED
      BY ONLY <1>10, <1>11, <2>4, <3>1
  <2> QED
    BY ONLY <1>10, <1>12, <2>1, <2>2, <2>3, <2>4, n \in 1 .. L + 4
<1>13. NodesInv(g, f)
  <2>1. ASSUME NEW n \in 1 .. L + 4
        PROVE  /\ g[n] = [instr |-> g[n].instr, next |-> g[n].next, nextFalse |-> g[n].nextFalse]
               /\ g[n].next \in 0 .. L + 4 /\ g[n].nextFalse \in 0 .. L + 4
               /\ g[n].next = 0 <=> g[n] = TerminalNode
               /\ \/ g[n].instr = <<>>
                  \/ \E i \in 1 .. 2 : g[n].instr = <<0, i>>
                  \/ \E c \in DOMAIN f : \E i \in 1 .. Count(c) : g[n].instr = <<c, i>>
    <3>1. CASE n \in 1 .. L
      <4>1. g[n] = nodes[n]
        BY <1>6, <3>1
      <4> QED
        BY ONLY <1>1, <1>10, <3>1, <4>1
    <3>2. CASE n \notin 1 .. L
      <4>1. g[n].instr = <<>> \/ g[n].instr = <<0, 1>> \/ g[n].instr = <<0, 2>>
        BY <1>12, <3>2
      <4>2. g[n].instr = <<>> \/ \E i \in 1 .. 2 : g[n].instr = <<0, i>>
        BY ONLY <4>1
      <4> QED
        BY <1>10, <1>12, <3>2, <4>2
    <3> QED
      BY <3>1, <3>2
  <2>2. ASSUME NEW m \in 1 .. L + 4, NEW n \in 1 .. L + 4, g[m].instr = g[n].instr, g[m].instr # <<>>
        PROVE  m = n
    <3>1. CASE m \in 1 .. L /\ n \in 1 .. L
      BY <1>1, <1>6, <2>2, <3>1
    <3>2. CASE m \notin 1 .. L /\ n \notin 1 .. L
      <4>1. (m = L + 3 /\ g[m].instr = <<0, 1>>) \/ (m = L + 4 /\ g[m].instr = <<0, 2>>)
        BY <1>12, <2>2, <3>2
      <4>2. (n = L + 3 /\ g[n].instr = <<0, 1>>) \/ (n = L + 4 /\ g[n].instr = <<0, 2>>)
        BY <1>12, <2>2, <3>2
      <4>3. <<0, 1>> # <<0, 2>>
        OBVIOUS
      <4> QED
        BY ONLY <2>2, <4>1, <4>2, <4>3
    <3>3. ASSUME NEW x \in 1 .. L, NEW y \in 1 .. L + 4, y \notin 1 .. L,
                 g[x].instr = g[y].instr, g[y].instr # <<>>
          PROVE  FALSE
      <4>1. g[y].instr = <<0, 1>> \/ g[y].instr = <<0, 2>>
        BY <1>12, <3>3
      <4>2. \A i \in 1 .. 2 : g[x].instr # <<0, i>>
        BY <1>6 DEF L
      <4>3. 1 \in 1 .. 2 /\ 2 \in 1 .. 2
        OBVIOUS
      <4> QED
        BY ONLY <3>3, <4>1, <4>2, <4>3
    <3> QED
      BY <2>2, <3>1, <3>2, <3>3
  <2>3. \A c \in DOMAIN f : f[c] \in 1 .. L + 4
    BY <1>1, <1>10
  <2> QED
    BY <1>1, <1>6, <1>8, <2>1, <2>2, <2>3 DEF NodesInv, NULL
<1>14. ASSUME NEW c \in DOMAIN f PROVE \E base \in Nat : BlockInv(g, f, q, c, base)
  <2>1. PICK base \in Nat : BlockInv(nodes, f, q, c, base)
    BY DEF GraphInv, f, q
  <2>2. c \in Blocks /\ Count(c) \in Nat /\ (DOMAIN Succ(c) # {} => Count(c) # 0)
    <3>1. c \in Blocks
      BY <1>1
    <3> QED
      BY <3>1, ModuleFacts
  <2>3. /\ base + Count(c) <= L
        /\ \A k \in 1 .. Count(c) : nodes[base + k].instr = <<c, k>>
        /\ \A k \in 1 .. Count(c) - 1 : nodes[base + k].next = base + k + 1
        /\ IF Count(c) = 0 THEN nodes[f[c]] = TerminalNode ELSE f[c] = base + 1
        /\ \A k \in DOMAIN Succ(c) : SideInv(nodes, f, q, c, base + Count(c), k)
    BY <2>1 DEF BlockInv, L
  <2>4. /\ \A k \in 1 .. Count(c) : base + k \in 1 .. L
        /\ \A k \in 1 .. Count(c) - 1 : base + k \in 1 .. L
        /\ base + Count(c) <= L + 4
    BY ONLY <1>2, <2>2, <2>3, base \in Nat
  <2>5. /\ \A k \in 1 .. Count(c) : g[base + k].instr = <<c, k>>
        /\ \A k \in 1 .. Count(c) - 1 : g[base + k].next = base + k + 1
    BY <1>6, <2>3, <2>4
  <2>6. IF Count(c) = 0 THEN g[f[c]] = TerminalNode ELSE f[c] = base + 1
    BY <1>1, <1>6, <2>3
  <2>7. ASSUME NEW k \in DOMAIN Succ(c) PROVE SideInv(g, f, q, c, base + Count(c), k)
    <3> DEFINE n == base + Count(c)
    <3>1. n \in 1 .. L /\ SideInv(nodes, f, q, c, n, k)
      <4>1. Count(c) \in 1 .. Count(c)
        BY <2>2
      <4> QED
        BY <2>3, <2>4, <4>1
    <3> HIDE DEF n
    <3>2. Side(g, n, k) = Side(nodes, n, k)
      BY <1>6, <3>1 DEF Side
    <3>3. ASSUME OwnTerminal(nodes, f, n, k) PROVE OwnTerminal(g, f, n, k)
      <4> DEFINE s == Side(nodes, n, k)
      <4>1. /\ s \in 1 .. L /\ nodes[s] = TerminalNode
            /\ \A m \in 1 .. L : m # n => s \notin {nodes[m].next, nodes[m].nextFalse}
            /\ \A a \in DOMAIN f : f[a] # s
        BY <3>3 DEF OwnTerminal, L
      <4> HIDE DEF s
      <4>2. ASSUME NEW m \in 1 .. L + 4, m # n PROVE s \notin {g[m].next, g[m].nextFalse}
        <5>1. CASE m \in 1 .. L
          BY <1>6, <4>1, <4>2, <5>1
        <5>2. CASE m \notin 1 .. L
          <6>1. g[m].next \notin 1 .. L /\ g[m].nextFalse \notin 1 .. L
            BY <1>10, <1>12, <5>2
          <6> QED
            BY ONLY <4>1, <6>1
        <5> QED
          BY <5>1, <5>2
      <4>3. s \in 1 .. L + 4 /\ g[s] = TerminalNode
        BY <1>6, <1>10, <4>1
      <4>4. Side(g, n, k) = s
        BY <3>2 DEF s
      <4> QED
        BY <1>6, <4>1, <4>2, <4>3, <4>4 DEF OwnTerminal
    <3> QED
      BY <3>1, <3>2, <3>3 DEF SideInv, n
  <2> QED
    BY <1>6, <2>4, <2>5, <2>6, <2>7 DEF BlockInv
<1>15. QueueInv(g, f, q)
  <2>1. ASSUME NEW x \in ToSet(q)
        PROVE  \E c \in DOMAIN f : \E i \in DOMAIN Succ(c) : \E n \in 1 .. L + 4 :
                  x = PlanFor(c, n, i) /\ g[n].instr = <<c, Count(c)>>
    <3>1. PICK c \in DOMAIN f : \E i \in DOMAIN Succ(c) : \E n \in 1 .. L :
             x = PlanFor(c, n, i) /\ nodes[n].instr = <<c, Count(c)>>
      BY DEF GraphInv, QueueInv, L, f, q
    <3> QED
      BY <1>6, <1>10, <3>1
  <2>2. q \in Seq(ToSet(q)) /\ IsInjective(q)
    BY DEF GraphInv, QueueInv, q
  <2> QED
    BY <1>6, <2>1, <2>2 DEF QueueInv
<1>16. GraphInv(g, f, q)
  BY <1>13, <1>14, <1>15 DEF GraphInv
<1> QED
  BY <1>2, <1>3, <1>6, <1>10, <1>16 DEF L, f, q
(***************************************************************************)
(* The steps.                                                              *)
(***************************************************************************)

\* The graph invariant after a step, which leaves the module alone.
LEMMA GraphNext ==
    ASSUME module' = module, GraphInv(nodes', copyMapping', parseAndLinkTogether')
    PROVE  GraphInv(nodes, copyMapping, parseAndLinkTogether)'
<1>1. Blocks' = Blocks /\ (\A b : Succ(b)' = Succ(b)) /\ \A b : Count(b)' = Count(b)
  BY DEF Blocks, Succ, Count
<1> DEFINE g == nodes
           f == copyMapping
           q == parseAndLinkTogether
<1>2. NodesInv(g, f)'
  <2>1. NodesInv(g', f')
    BY DEF GraphInv
  <2> QED
    BY <1>1, <2>1 DEF NodesInv
<1>3. \A b, n, i : PlanFor(b, n, i)' = PlanFor(b, n, i)
  BY <1>1 DEF PlanFor
<1>4. \A n, i : /\ Side(g, n, i)' = Side(g', n, i)
                /\ OwnTerminal(g, f, n, i)' <=> OwnTerminal(g', f', n, i)
  BY DEF OwnTerminal, Side
<1>5. \A b, n, i : SideInv(g, f, q, b, n, i)' <=> SideInv(g', f', q', b, n, i)
  BY <1>1, <1>3, <1>4 DEF SideInv
<1>6. \A b \in DOMAIN f' : \E base \in Nat : BlockInv(g, f, q, b, base)'
  <2> SUFFICES ASSUME NEW b \in DOMAIN f' PROVE \E base \in Nat : BlockInv(g, f, q, b, base)'
    OBVIOUS
  <2>1. PICK base \in Nat : BlockInv(g', f', q', b, base)
    BY DEF GraphInv
  <2>2. BlockInv(g, f, q, b, base)'
    BY <1>1, <1>5, <2>1 DEF BlockInv
  <2> QED
    BY <2>2
<1>7. QueueInv(g, f, q)'
  <2>1. QueueInv(g', f', q')
    BY DEF GraphInv
  <2> QED
    BY <1>1, <1>3, <2>1 DEF QueueInv
<1> QED
  BY <1>2, <1>6, <1>7 DEF GraphInv

\* Values are given in order, and an operand that has one keeps it.
LEMMA LinkedValues ==
    ASSUME NEW c, NEW id, NEW n, n \in Nat, nextVal \in Nat, nextVal <= n, id \in 0 .. n - 1,
           \A x \in DOMAIN mapper : mapper[x] \in 0 .. nextVal - 1
    PROVE  /\ DOMAIN LinkToValueId(c, id) = DOMAIN mapper \cup {c}
           /\ \A x \in DOMAIN LinkToValueId(c, id) : LinkToValueId(c, id)[x] \in 0 .. n - 1
<1>1. 0 .. nextVal - 1 \subseteq 0 .. n - 1
  OBVIOUS
<1> QED
  BY <1>1 DEF LinkToValueId

\* A block that cannot be translated is refused with one of two exceptions.
LEMMA RefusalFacts ==
    ASSUME module \in Modules, NEW b \in Blocks, CannotTranslate(b)
    PROVE  Head(Refusals(b)) \in {"NotImplementedException", "NotSupportedException"}
<1> DEFINE E == {"NotImplementedException", "NotSupportedException"}
           s == [i \in DOMAIN module.code[b] |-> Refusal(module.code[b][i])]
           T == {Refusal(module.code[b][i]) : i \in DOMAIN module.code[b]}
<1>1. s \in Seq(T)
  <2>1. Len(module.code[b]) \in Nat /\ DOMAIN module.code[b] = 1 .. Len(module.code[b])
    <3>1. module.code[b] \in Seq(ToSet(module.code[b]))
      BY ModulesAssumption DEF Blocks, IsModule
    <3> QED
      BY <3>1, LenProperties
  <2> DEFINE n == Len(module.code[b])
             R(i) == Refusal(module.code[b][i])
  <2>2. n \in Nat /\ s = [i \in 1 .. n |-> R(i)] /\ T = {R(i) : i \in 1 .. n}
    BY <2>1
  <2> HIDE DEF n, R, s, T
  <2> QED
    BY <2>2
<1>2. Refusals(b) = SelectIn(s, E)
  BY DEF Refusals
<1> HIDE DEF s, T, E
<1>3. SelectIn(s, E) \in Seq(T) /\ ToSet(SelectIn(s, E)) \subseteq E
  BY <1>1, SelectInFacts
<1>4. Refusals(b) \in Seq(T) /\ Refusals(b) # <<>> /\ ToSet(Refusals(b)) \subseteq E
  BY <1>2, <1>3 DEF CannotTranslate
<1>5. Head(Refusals(b)) \in ToSet(Refusals(b))
  <2> DEFINE r == Refusals(b)
  <2>1. r \in Seq(T) /\ r # <<>>
    BY <1>4
  <2> HIDE DEF r
  <2>2. Len(r) \in Nat /\ Len(r) # 0 /\ DOMAIN r = 1 .. Len(r) /\ Head(r) = r[1]
    BY <2>1, LenProperties, EmptySeq, HeadTailProperties
  <2>3. Head(r) \in ToSet(r)
    <3>1. 1 \in DOMAIN r
      BY <2>2
    <3> QED
      BY <2>2, <3>1 DEF ToSet
  <2> QED
    BY <2>3 DEF r
<1> QED
  BY <1>4, <1>5 DEF E

\* What is collected of a block are operands that are constants.
LEMMA ConstantsFacts ==
    ASSUME module \in Modules, NEW b \in Blocks
    PROVE  ConstantsOf(b) \in Seq(ConstantOperands)
<1> DEFINE s == Operands(b)
           a == module.term[b].arg
           A == {module.code[b][i].arg : i \in 1 .. Len(module.code[b])}
           T == A \cup {a}
<1>1. s \in Seq(A)
  BY ModuleFacts
<1> HIDE DEF s, a, A
<1>2. s \in Seq(T) /\ << a >> \in Seq(T)
  BY <1>1
<1> HIDE DEF T
<1>3. s \o << a >> \in Seq(T)
  BY ONLY <1>2, ConcatFacts
<1> DEFINE all == s \o << a >>
<1>4. ConstantsOf(b) = SelectIn(all, ConstantOperands) /\ all \in Seq(T)
  BY <1>3 DEF ConstantsOf, s, a
<1> HIDE DEF all
<1>5. ConstantsOf(b) \in Seq(T) /\ ToSet(ConstantsOf(b)) \subseteq ConstantOperands
  <2>1. /\ SelectIn(all, ConstantOperands) \in Seq(T)
        /\ ToSet(SelectIn(all, ConstantOperands)) \subseteq ConstantOperands
    BY <1>4, SelectInFacts
  <2> QED
    BY <1>4, <2>1
<1>6. ConstantsOf(b) \in Seq(ToSet(ConstantsOf(b)))
  BY <1>5, SeqToSet
<1> DEFINE c == ConstantsOf(b)
           S == ToSet(c)
<1>7. c \in Seq(S) /\ S \subseteq ConstantOperands
  BY <1>5, <1>6
<1> HIDE DEF c, S
<1>8. c \in Seq(ConstantOperands)
  BY ONLY <1>7
<1> QED
  BY <1>8 DEF c

LEMMA InitInv == Init => CfgInv
<1> SUFFICES ASSUME Init PROVE CfgInv
  OBVIOUS
<1>1. module \in Modules /\ threw # "runtime_error"
  BY DEF Init
<1>2. nodes = <<>> /\ copyMapping = <<>> /\ parseAndLinkTogether = <<>>
  BY DEF Init
<1>3. DOMAIN copyMapping = {} /\ Len(nodes) = 0 /\ ToSet(parseAndLinkTogether) = {}
  BY <1>2 DEF ToSet
<1>4. nodes \in Seq(ToSet(nodes)) /\ parseAndLinkTogether \in Seq(ToSet(parseAndLinkTogether))
  BY <1>2
<1>5. IsInjective(parseAndLinkTogether)
  BY <1>2 DEF IsInjective
<1>6. GraphInv(nodes, copyMapping, parseAndLinkTogether)
  BY <1>3, <1>4, <1>5 DEF GraphInv, NodesInv, QueueInv
<1>7. ParsedInv
  <2>1. Len(module.functions) \in Nat
    BY <1>1, ModuleFacts
  <2>2. parsed = 0 /\ entryPointCfg = NULL
    BY DEF Init
  <2> QED
    BY <1>3, <2>1, <2>2 DEF ParsedInv, NULL
<1>8. ValueInv
  <2>1. nextVal = 2 /\ parsed = 0 /\ constantValuesToBeCreated \in Seq(ConstantOperands)
    BY DEF Init
  <2>2. DOMAIN mapper = {} /\ DOMAIN fmap = {}
    BY DEF Init
  <2> QED
    BY <2>1, <2>2 DEF ValueInv
<1> QED
  BY <1>1, <1>6, <1>7, <1>8 DEF CfgInv
\* A step that only stops the parser, or changes nothing at all.
LEMMA SameInv ==
    ASSUME CfgInv, UNCHANGED <<module, graphVars, constantValuesToBeCreated, valueVars>>,
           threw' # "runtime_error"
    PROVE  CfgInv'
<1> USE DEF CfgInv, graphVars, valueVars
<1>1. module' = module /\ module \in Modules /\ ConstantOperands' = ConstantOperands
  BY DEF ConstantOperands, FunctionNames
<1>2. GraphInv(nodes, copyMapping, parseAndLinkTogether)'
  <2>1. GraphInv(nodes', copyMapping', parseAndLinkTogether')
    OBVIOUS
  <2> QED
    BY <1>1, <2>1, GraphNext
<1>3. ParsedInv'
  BY <1>1 DEF ParsedInv, Blocks, Succ
<1>4. ValueInv'
  BY <1>1 DEF ValueInv
<1> QED
  BY <1>1, <1>2, <1>3, <1>4

\* The entry of a function and the target of a branch can be parsed.
LEMMA ParsedNext ==
    ASSUME CfgInv, NEW b \in Blocks, b \notin DOMAIN copyMapping, module' = module,
           DOMAIN copyMapping' = DOMAIN copyMapping \cup {b}, Len(nodes) \in Nat, Len(nodes') \in Nat,
           Len(nodes) <= Len(nodes'), entryPointCfg' = entryPointCfg,
           \A n \in 1 .. Len(nodes') : n <= Len(nodes) => nodes'[n].instr = nodes[n].instr,
           \A n \in 1 .. Len(nodes') : n > Len(nodes) =>
              nodes'[n].instr = <<>> \/ \E i \in 1 .. Count(b) : nodes'[n].instr = <<b, i>>,
           \/ parsed' = parsed /\ \E a \in Blocks : b \in ToSet(Succ(a))
           \/ /\ parsed' = parsed + 1 /\ parsed < Len(module.functions) /\ entryPointCfg = NULL
              /\ module.functions[parsed + 1].entry = b
    PROVE  ParsedInv'
<1> DEFINE F == Len(module.functions)
           L == Len(nodes)
           M == Len(nodes')
<1>1. /\ parsed \in 0 .. F /\ entryPointCfg \in 0 .. L
      /\ \A c \in DOMAIN copyMapping :
            \/ \E f \in 1 .. parsed : module.functions[f].entry = c
            \/ \E a \in Blocks : c \in ToSet(Succ(a))
      /\ entryPointCfg # NULL => parsed = F
      /\ entryPointCfg = NULL => \A n \in 1 .. L : \A i \in 1 .. 2 : nodes[n].instr # <<0, i>>
  BY DEF CfgInv, ParsedInv
<1>2. F \in Nat /\ b # 0
  BY ModuleFacts DEF CfgInv
<1>3. Blocks' = Blocks /\ (\A a : Succ(a)' = Succ(a)) /\ F' = F
  BY DEF Blocks, Succ
<1> HIDE DEF F, L, M
<1>4. /\ parsed' \in 0 .. F /\ entryPointCfg' \in 0 .. M
      /\ \A f \in 1 .. parsed : f \in 1 .. parsed'
      /\ parsed' = parsed + 1 => parsed + 1 \in 1 .. parsed'
      /\ entryPointCfg' # NULL => parsed' = F
  <2>1. L \in Nat /\ M \in Nat /\ L <= M
    BY DEF L, M
  <2>2. \/ parsed' = parsed
        \/ parsed' = parsed + 1 /\ parsed < F /\ entryPointCfg = NULL
    BY DEF F
  <2> QED
    BY ONLY <1>1, <1>2, <2>1, <2>2, entryPointCfg' = entryPointCfg
<1>5. ASSUME NEW c \in DOMAIN copyMapping'
      PROVE  \/ \E f \in 1 .. parsed' : module.functions[f].entry = c
             \/ \E a \in Blocks : c \in ToSet(Succ(a))
  <2>1. CASE c \in DOMAIN copyMapping
    BY <1>1, <1>4, <2>1
  <2>2. CASE c = b
    BY <1>4, <2>2
  <2> QED
    BY <2>1, <2>2
<1>6. ASSUME entryPointCfg' = NULL, NEW n \in 1 .. M, NEW i \in 1 .. 2
      PROVE  nodes'[n].instr # <<0, i>>
  <2>1. L \in Nat /\ M \in Nat /\ L <= M
    BY DEF L, M
  <2>2. CASE n <= L
    <3>1. n \in 1 .. L /\ nodes'[n].instr = nodes[n].instr
      BY <2>1, <2>2 DEF L, M
    <3> QED
      BY <1>1, <1>6, <3>1
  <2>3. CASE n > L
    <3>1. nodes'[n].instr = <<>> \/ \E k \in 1 .. Count(b) : nodes'[n].instr = <<b, k>>
      BY <2>3 DEF L, M
    <3>2. \A k : <<b, k>> # <<0, i>>
      BY ONLY <1>2
    <3>3. <<>> # <<0, i>>
      OBVIOUS
    <3> QED
      BY ONLY <3>1, <3>2, <3>3
  <2> QED
    BY ONLY <2>1, <2>2, <2>3, n \in 1 .. M
<1> QED
  BY <1>3, <1>4, <1>5, <1>6 DEF ParsedInv, F, M

LEMMA ParseFunctionInv ==
    ASSUME CfgInv, ParseFunction
    PROVE  CfgInv'
<1> DEFINE b == Function.entry
           L == Len(module.functions)
<1>1. /\ module \in Modules /\ GraphInv(nodes, copyMapping, parseAndLinkTogether)
      /\ ParsedInv /\ ValueInv
  BY DEF CfgInv
<1>2. parsed \in Nat /\ L \in Nat /\ parsed + 1 \in 1 .. L /\ b = module.functions[parsed + 1].entry
  <2>1. parsed \in 0 .. L /\ parsed < L
    BY <1>1 DEF ParsedInv, ParseFunction
  <2>2. L \in Nat
    BY <1>1, ModuleFacts
  <2> QED
    BY <2>1, <2>2 DEF Function
<1>3. /\ b \in Blocks /\ \A a \in Blocks : b \notin ToSet(Succ(a))
      /\ \A f \in 1 .. L : module.functions[f].entry = b => f = parsed + 1
  BY <1>1, <1>2, ModuleFacts
<1> HIDE DEF b
<1>4. b \notin DOMAIN copyMapping
  <2> SUFFICES ASSUME b \in DOMAIN copyMapping PROVE FALSE
    OBVIOUS
  <2>1. PICK f \in 1 .. parsed : module.functions[f].entry = b
    BY <1>1, <1>3 DEF ParsedInv
  <2>2. f \in 1 .. L /\ f # parsed + 1
    BY ONLY <1>2, f \in 1 .. parsed
  <2> QED
    BY <1>3, <2>1, <2>2
<1>5. CASE CannotTranslate(b)
  <2>1. Throw(Head(Refusals(b)))
    BY <1>5 DEF ParseFunction, b
  <2>2. Head(Refusals(b)) # "runtime_error"
    BY <1>1, <1>3, <1>5, RefusalFacts
  <2> QED
    BY <2>1, <2>2, SameInv DEF Throw
<1>6. CASE ~CannotTranslate(b)
  <2>1. /\ nodes' = nodes \o NodesOf(b)
        /\ copyMapping' = Map(b, FirstNode(b))
        /\ parseAndLinkTogether' = parseAndLinkTogether \o Plans(b)
        /\ constantValuesToBeCreated' = constantValuesToBeCreated \o ConstantsOf(b)
        /\ mapper' = LinkToValueId(Function.name, nextVal)
        /\ fmap' = [v \in DOMAIN fmap \cup {nextVal} |->
                       IF v \in DOMAIN fmap THEN fmap[v]
                       ELSE [param |-> Function.param, cfg |-> FirstNode(b)]]
        /\ nextVal' = nextVal + 1
        /\ parsed' = parsed + 1
        /\ module' = module /\ entryPointCfg' = entryPointCfg /\ threw' = threw
    BY <1>6 DEF ParseFunction, b
  <2>2. /\ GraphInv(nodes', copyMapping', parseAndLinkTogether')
        /\ DOMAIN copyMapping' = DOMAIN copyMapping \cup {b}
        /\ Len(nodes) \in Nat /\ Len(nodes') \in Nat /\ Len(nodes) <= Len(nodes')
        /\ \A n \in 1 .. Len(nodes') : n <= Len(nodes) => nodes'[n] = nodes[n]
        /\ \A n \in 1 .. Len(nodes') : n > Len(nodes) =>
              nodes'[n].instr = <<>> \/ \E i \in 1 .. Count(b) : nodes'[n].instr = <<b, i>>
    <3>1. BlockAdded(nodes', copyMapping', parseAndLinkTogether', b)
      BY <1>1, <1>3, <1>4, <2>1, AddBlock
    <3> QED
      BY ONLY <3>1 DEF BlockAdded
  <2>3. GraphInv(nodes, copyMapping, parseAndLinkTogether)'
    BY <2>1, <2>2, GraphNext
  <2>4. ParsedInv'
    <3>1. parsed < L /\ entryPointCfg = NULL
      BY <1>1, <1>2 DEF ParsedInv
    <3> QED
      BY <1>2, <1>3, <1>4, <2>1, <2>2, <3>1, ParsedNext
  <2>5. ValueInv'
    <3>1. /\ nextVal \in Nat /\ nextVal >= 2
          /\ \A c \in DOMAIN mapper : mapper[c] \in 0 .. nextVal - 1
          /\ DOMAIN fmap \subseteq 2 .. nextVal - 1
          /\ \A f \in 1 .. parsed : module.functions[f].name \in DOMAIN mapper
          /\ constantValuesToBeCreated \in Seq(ConstantOperands)
      BY <1>1 DEF ValueInv
    <3>2. /\ DOMAIN mapper' = DOMAIN mapper \cup {Function.name}
          /\ \A x \in DOMAIN mapper' : mapper'[x] \in 0 .. nextVal' - 1
      <4>1. nextVal + 1 \in Nat /\ nextVal <= nextVal + 1 /\ nextVal \in 0 .. (nextVal + 1) - 1
        BY ONLY <3>1
      <4> QED
        BY <2>1, <3>1, <4>1, LinkedValues
    <3>3. nextVal' \in Nat /\ nextVal' >= 2
      BY ONLY <2>1, <3>1
    <3>4. DOMAIN fmap' \subseteq 2 .. nextVal' - 1
      <4>1. DOMAIN fmap' = DOMAIN fmap \cup {nextVal}
        BY <2>1
      <4>2. 2 .. nextVal - 1 \subseteq 2 .. nextVal' - 1 /\ nextVal \in 2 .. nextVal' - 1
        BY ONLY <2>1, <3>1
      <4> QED
        BY <3>1, <4>1, <4>2
    <3>5. ASSUME NEW f \in 1 .. parsed' PROVE module.functions[f].name \in DOMAIN mapper'
      <4>1. f \in 1 .. parsed \/ f = parsed + 1
        BY ONLY <1>2, <2>1, f \in 1 .. parsed'
      <4> QED
        BY <3>1, <3>2, <4>1 DEF Function
    <3>6. constantValuesToBeCreated' \in Seq(ConstantOperands)
      <4>1. ConstantsOf(b) \in Seq(ConstantOperands)
        BY <1>1, <1>3, ConstantsFacts
      <4> QED
        BY <2>1, <3>1, <4>1, ConcatFacts
    <3>7. ConstantOperands' = ConstantOperands
      BY <2>1 DEF ConstantOperands, FunctionNames
    <3> QED
      BY <2>1, <3>2, <3>3, <3>4, <3>5, <3>6, <3>7 DEF ValueInv
  <2> QED
    BY <1>1, <2>1, <2>3, <2>4, <2>5 DEF CfgInv
<1> QED
  BY <1>5, <1>6

LEMMA PrependEntryInv ==
    ASSUME CfgInv, PrependEntry
    PROVE  CfgInv'
<1>1. /\ module \in Modules /\ GraphInv(nodes, copyMapping, parseAndLinkTogether)
      /\ ParsedInv /\ ValueInv
      /\ parsed = Len(module.functions) /\ entryPointCfg = NULL
  BY DEF CfgInv, PrependEntry
<1>2. CASE "main" \notin DOMAIN mapper
  <2>1. Throw(MissingMain)
    BY <1>2 DEF PrependEntry
  <2>2. MissingMain # "runtime_error"
    BY DEF MissingMain
  <2> QED
    BY <2>1, <2>2, SameInv DEF Throw
<1>3. CASE "main" \in DOMAIN mapper
  <2>1. /\ nodes' = nodes \o << StartNode(NodeId(1)), TerminalNode,
                       [instr |-> <<0, 1>>, next |-> NodeId(2), nextFalse |-> NULL],
                       [instr |-> <<0, 2>>, next |-> TerminalId, nextFalse |-> NULL] >>
        /\ entryPointCfg' = NodeId(1)
        /\ \/ mapper' = mapper /\ nextVal' = nextVal
           \/ mapper' = LinkToValueId("argc", nextVal) /\ nextVal' = nextVal + 1
        /\ module' = module /\ copyMapping' = copyMapping
        /\ parseAndLinkTogether' = parseAndLinkTogether /\ parsed' = parsed
        /\ constantValuesToBeCreated' = constantValuesToBeCreated
        /\ fmap' = fmap /\ threw' = threw
    BY <1>3 DEF PrependEntry
  <2>2. \A n \in 1 .. Len(nodes) : \A i \in 1 .. 2 : nodes[n].instr # <<0, i>>
    BY <1>1 DEF ParsedInv
  <2>3. /\ GraphInv(nodes', copyMapping, parseAndLinkTogether)
        /\ Len(nodes) \in Nat /\ NodeId(1) \in 1 .. Len(nodes')
    BY <1>1, <2>1, <2>2, AddEntry
  <2>4. GraphInv(nodes, copyMapping, parseAndLinkTogether)'
    BY <2>1, <2>3, GraphNext
  <2>5. ParsedInv'
    <3>1. Blocks' = Blocks /\ \A a : Succ(a)' = Succ(a)
      BY <2>1 DEF Blocks, Succ
    <3>2. /\ entryPointCfg' # NULL
          /\ entryPointCfg' \in 0 .. Len(nodes')
      BY ONLY <2>1, <2>3 DEF NULL
    <3> QED
      BY <1>1, <2>1, <3>1, <3>2 DEF ParsedInv
  <2>6. ValueInv'
    <3>1. /\ nextVal \in Nat /\ nextVal >= 2
          /\ \A c \in DOMAIN mapper : mapper[c] \in 0 .. nextVal - 1
          /\ DOMAIN fmap \subseteq 2 .. nextVal - 1
          /\ \A f \in 1 .. parsed : module.functions[f].name \in DOMAIN mapper
          /\ constantValuesToBeCreated \in Seq(ConstantOperands)
      BY <1>1 DEF ValueInv
    <3>2. ConstantOperands' = ConstantOperands
      BY <2>1 DEF ConstantOperands, FunctionNames
    <3>3. CASE mapper' = mapper /\ nextVal' = nextVal
      BY <2>1, <3>1, <3>2, <3>3 DEF ValueInv
    <3>4. CASE mapper' = LinkToValueId("argc", nextVal) /\ nextVal' = nextVal + 1
      <4>1. /\ DOMAIN mapper' = DOMAIN mapper \cup {"argc"}
            /\ \A x \in DOMAIN mapper' : mapper'[x] \in 0 .. nextVal' - 1
        <5>1. nextVal + 1 \in Nat /\ nextVal <= nextVal + 1 /\ nextVal \in 0 .. (nextVal + 1) - 1
          BY ONLY <3>1
        <5> QED
          BY <3>1, <3>4, <5>1, LinkedValues
      <4>2. nextVal' \in Nat /\ nextVal' >= 2 /\ 2 .. nextVal - 1 \subseteq 2 .. nextVal' - 1
        BY ONLY <3>1, <3>4
      <4> QED
        BY <2>1, <3>1, <3>2, <4>1, <4>2 DEF ValueInv
    <3> QED
      BY <2>1, <3>3, <3>4
  <2> QED
    BY <1>1, <2>1, <2>4, <2>5, <2>6 DEF CfgInv
<1> QED
  BY <1>2, <1>3

\* The values after a step that gives none.
LEMMA ValuesNext ==
    ASSUME ValueInv, module' = module, UNCHANGED <<valueVars, parsed>>,
           constantValuesToBeCreated' \in Seq(ConstantOperands)
    PROVE  ValueInv'
<1>1. ConstantOperands' = ConstantOperands
  BY DEF ConstantOperands, FunctionNames
<1> QED
  BY <1>1 DEF ValueInv, valueVars

LEMMA LinkKnownInv ==
    ASSUME CfgInv, LinkKnown
    PROVE  CfgInv'
<1> DEFINE h == LinkTogether(nodes, Plan.node, copyMapping[Plan.block], Plan.index)
<1>1. /\ module \in Modules /\ GraphInv(nodes, copyMapping, parseAndLinkTogether)
      /\ ParsedInv /\ ValueInv /\ threw # "runtime_error"
  BY DEF CfgInv
<1>2. /\ parseAndLinkTogether # <<>> /\ Plan.block \in DOMAIN copyMapping
      /\ LinkPlan(nodes, Plan, copyMapping[Plan.block])
      /\ parseAndLinkTogether' = Tail(parseAndLinkTogether)
      /\ module' = module /\ copyMapping' = copyMapping /\ parsed' = parsed
      /\ entryPointCfg' = entryPointCfg
      /\ constantValuesToBeCreated' = constantValuesToBeCreated /\ UNCHANGED valueVars
  BY DEF LinkKnown, HasPlan, IsMapped
<1>3. PlanLinked(nodes, copyMapping, parseAndLinkTogether, h)
  BY <1>1, <1>2, LinkGraph DEF Plan
<1>4. /\ CanLink(nodes, Plan.node, Plan.index)
      /\ GraphInv(h, copyMapping, Tail(parseAndLinkTogether)) /\ Len(h) = Len(nodes)
      /\ \A n \in 1 .. Len(nodes) : h[n].instr = nodes[n].instr
  BY <1>3 DEF PlanLinked, Plan
<1>5. nodes' = h /\ threw' = threw
  BY <1>2, <1>4 DEF LinkPlan
<1> HIDE DEF h
<1>6. GraphInv(nodes, copyMapping, parseAndLinkTogether)'
  <2>1. GraphInv(nodes', copyMapping', parseAndLinkTogether')
    BY <1>2, <1>4, <1>5
  <2> QED
    BY <1>2, <2>1, GraphNext
<1>7. ParsedInv'
  <2>1. Blocks' = Blocks /\ \A a : Succ(a)' = Succ(a)
    BY <1>2 DEF Blocks, Succ
  <2> QED
    BY <1>1, <1>2, <1>4, <1>5, <2>1 DEF ParsedInv
<1>8. ValueInv'
  <2>1. constantValuesToBeCreated \in Seq(ConstantOperands)
    BY <1>1 DEF ValueInv
  <2> QED
    BY <1>1, <1>2, <2>1, ValuesNext
<1> QED
  BY <1>1, <1>2, <1>5, <1>6, <1>7, <1>8 DEF CfgInv

LEMMA ParseAndLinkInv ==
    ASSUME CfgInv, ParseAndLink
    PROVE  CfgInv'
<1> DEFINE b == Plan.block
           g == nodes \o NodesOf(b)
           f == Map(b, FirstNode(b))
           old == parseAndLinkTogether
           q == old \o Plans(b)
           h == LinkTogether(g, Plan.node, FirstNode(b), Plan.index)
<1>1. /\ module \in Modules /\ GraphInv(nodes, copyMapping, old)
      /\ ParsedInv /\ ValueInv /\ threw # "runtime_error"
  BY DEF CfgInv
<1>2. old # <<>> /\ b \notin DOMAIN copyMapping
  BY DEF ParseAndLink, HasPlan, IsMapped
<1>3. /\ old \in Seq(ToSet(old)) /\ Plan \in ToSet(old)
      /\ \E c \in Blocks : \E i \in DOMAIN Succ(c) : b = Succ(c)[i]
  <2>1. old \in Seq(ToSet(old))
    BY <1>1 DEF GraphInv, QueueInv
  <2>2. Plan \in ToSet(old)
    <3> HIDE DEF old
    <3>1. Len(old) \in Nat /\ Len(old) # 0 /\ DOMAIN old = 1 .. Len(old) /\ Head(old) = old[1]
      BY <1>2, <2>1, LenProperties, EmptySeq, HeadTailProperties
    <3>2. 1 \in DOMAIN old
      BY <3>1
    <3> QED
      BY <3>1, <3>2 DEF ToSet, Plan, old
  <2>3. \E c \in Blocks : \E i \in DOMAIN Succ(c) : \E n : Plan = PlanFor(c, n, i)
    BY <1>1, <2>2, PlanOwner
  <2> QED
    BY <2>1, <2>2, <2>3 DEF PlanFor
<1>4. b \in Blocks /\ \E a \in Blocks : b \in ToSet(Succ(a))
  <2>1. PICK c \in Blocks : \E i \in DOMAIN Succ(c) : b = Succ(c)[i]
    BY <1>3
  <2>2. PICK i \in DOMAIN Succ(c) : b = Succ(c)[i]
    BY <2>1
  <2>3. b \in Blocks
    BY <1>1, <2>2, ModuleFacts
  <2>4. b \in ToSet(Succ(c))
    BY <2>2 DEF ToSet
  <2> QED
    BY <2>3, <2>4
<1>5. CASE CannotTranslate(b)
  <2>1. Throw(Head(Refusals(b)))
    BY <1>5 DEF ParseAndLink
  <2>2. Head(Refusals(b)) # "runtime_error"
    BY <1>1, <1>4, <1>5, RefusalFacts
  <2> QED
    BY <2>1, <2>2, SameInv DEF Throw
<1>6. CASE ~CannotTranslate(b)
  <2>1. /\ LinkPlan(g, Plan, FirstNode(b))
        /\ copyMapping' = f
        /\ parseAndLinkTogether' = Tail(old) \o Plans(b)
        /\ constantValuesToBeCreated' = constantValuesToBeCreated \o ConstantsOf(b)
        /\ module' = module /\ parsed' = parsed /\ entryPointCfg' = entryPointCfg
        /\ UNCHANGED valueVars
    BY <1>6 DEF ParseAndLink
  <2>2. BlockAdded(g, f, q, b)
    BY <1>1, <1>2, <1>4, AddBlock
  <2> HIDE DEF b, g, f
  <2>3. /\ GraphInv(g, f, q)
        /\ DOMAIN f = DOMAIN copyMapping \cup {b} /\ f[b] = FirstNode(b)
        /\ Len(nodes) \in Nat /\ Len(g) \in Nat /\ Len(nodes) <= Len(g)
        /\ \A n \in 1 .. Len(g) : n <= Len(nodes) => g[n] = nodes[n]
        /\ \A n \in 1 .. Len(g) : n > Len(nodes) =>
              g[n].instr = <<>> \/ \E i \in 1 .. Count(b) : g[n].instr = <<b, i>>
    BY <2>2 DEF BlockAdded
  <2>4. q # <<>> /\ Head(q) = Plan /\ Tail(q) = Tail(old) \o Plans(b)
    <3> DEFINE new == Plans(b)
               S == ToSet(old) \cup ToSet(new)
    <3>1. old \in Seq(S) /\ new \in Seq(S)
      <4>1. new \in Seq(ToSet(new))
        BY <1>1, <1>4, PlansFacts
      <4> QED
        BY <1>3, <4>1
    <3>2. q = old \o new /\ old # <<>>
      BY <1>2
    <3> HIDE DEF old, new, S, q
    <3>3. q # <<>> /\ Head(q) = Head(old) /\ Tail(q) = Tail(old) \o new
      BY ONLY <3>1, <3>2, ConcatHeadTail
    <3> QED
      BY <3>3 DEF old, new, Plan
  <2> HIDE DEF q, old
  <2>5. PlanLinked(g, f, q, h)
    <3>1. Head(q).block = b /\ b \in DOMAIN f
      BY <2>3, <2>4 DEF b
    <3>2. h = LinkTogether(g, Head(q).node, f[Head(q).block], Head(q).index)
      BY <2>3, <2>4, <3>1
    <3> QED
      BY <1>1, <2>3, <2>4, <3>1, <3>2, LinkGraph
  <2>6. /\ CanLink(g, Plan.node, Plan.index)
        /\ GraphInv(h, f, Tail(q)) /\ Len(h) = Len(g)
        /\ \A n \in 1 .. Len(g) : h[n].instr = g[n].instr
    BY <2>4, <2>5 DEF PlanLinked
  <2>7. nodes' = h /\ threw' = threw
    BY <2>1, <2>6 DEF LinkPlan
  <2> HIDE DEF h
  <2>8. GraphInv(nodes, copyMapping, parseAndLinkTogether)'
    <3>1. GraphInv(nodes', copyMapping', parseAndLinkTogether')
      BY <2>1, <2>4, <2>6, <2>7
    <3> QED
      BY <2>1, <3>1, GraphNext
  <2>9. ParsedInv'
    <3>1. /\ \A n \in 1 .. Len(nodes') : n <= Len(nodes) => nodes'[n].instr = nodes[n].instr
          /\ \A n \in 1 .. Len(nodes') : n > Len(nodes) =>
                nodes'[n].instr = <<>> \/ \E i \in 1 .. Count(b) : nodes'[n].instr = <<b, i>>
          /\ Len(nodes') = Len(g)
      BY <2>3, <2>6, <2>7
    <3> QED
      BY <1>2, <1>4, <2>1, <2>3, <3>1, ParsedNext
  <2>10. ValueInv'
    <3>1. ConstantsOf(b) \in Seq(ConstantOperands)
      BY <1>1, <1>4, ConstantsFacts
    <3>2. constantValuesToBeCreated' \in Seq(ConstantOperands)
      <4>1. constantValuesToBeCreated \in Seq(ConstantOperands)
        BY <1>1 DEF ValueInv
      <4> QED
        BY <2>1, <3>1, <4>1, ConcatFacts
    <3> QED
      BY <1>1, <2>1, <3>2, ValuesNext
  <2> QED
    BY <1>1, <2>1, <2>7, <2>8, <2>9, <2>10 DEF CfgInv
<1> QED
  BY <1>5, <1>6
LEMMA DealWithConstantInv ==
    ASSUME CfgInv, DealWithConstant
    PROVE  CfgInv'
<1> DEFINE c == Head(constantValuesToBeCreated)
           left == constantValuesToBeCreated
<1>1. /\ module \in Modules /\ GraphInv(nodes, copyMapping, parseAndLinkTogether)
      /\ ParsedInv /\ ValueInv /\ threw # "runtime_error"
      /\ left # <<>> /\ entryPointCfg # NULL
  BY DEF CfgInv, DealWithConstant, Linked
<1>2. /\ nextVal \in Nat /\ nextVal >= 2
      /\ \A x \in DOMAIN mapper : mapper[x] \in 0 .. nextVal - 1
      /\ DOMAIN fmap \subseteq 2 .. nextVal - 1
      /\ \A f \in 1 .. parsed : module.functions[f].name \in DOMAIN mapper
      /\ left \in Seq(ConstantOperands)
  BY <1>1 DEF ValueInv
<1>3. c \in ConstantOperands /\ Tail(left) \in Seq(ConstantOperands)
  <2> HIDE DEF left
  <2>1. Len(left) \in Nat /\ Len(left) # 0 /\ Head(left) = left[1] /\ Tail(left) \in Seq(ConstantOperands)
    BY <1>1, <1>2, EmptySeq, LenProperties, HeadTailProperties
  <2>2. 1 \in 1 .. Len(left)
    BY ONLY <2>1
  <2>3. left[1] \in ConstantOperands
    BY <1>2, <2>2, ElementOfSeq
  <2> QED
    BY <2>1, <2>3 DEF left
<1>4. DealWithConstant =>
         \/ Throw("NotSupportedException") \/ Throw("NotImplementedException")
         \/ Throw("out_of_range")
         \/ /\ c # "global" /\ c # "undef" /\ c \notin module.declared
            /\ mapper' = LinkToValueId(c, ConstantId(c))
            /\ nextVal' = IF c = "string" THEN nextVal + 1 ELSE nextVal
            /\ left' = Tail(left)
            /\ UNCHANGED <<module, graphVars, fmap, threw>>
  BY DEF DealWithConstant
<1> HIDE DEF c, left
<1>5. CASE \/ Throw("NotSupportedException") \/ Throw("NotImplementedException")
           \/ Throw("out_of_range")
  BY <1>5, SameInv DEF Throw
<1>6. CASE /\ c # "global" /\ c # "undef" /\ c \notin module.declared
           /\ mapper' = LinkToValueId(c, ConstantId(c))
           /\ nextVal' = IF c = "string" THEN nextVal + 1 ELSE nextVal
           /\ left' = Tail(left)
           /\ UNCHANGED <<module, graphVars, fmap, threw>>
  <2>1. /\ module' = module /\ nodes' = nodes /\ copyMapping' = copyMapping
        /\ parseAndLinkTogether' = parseAndLinkTogether /\ parsed' = parsed
        /\ entryPointCfg' = entryPointCfg /\ fmap' = fmap /\ threw' = threw
    BY <1>6 DEF graphVars
  <2>2. nextVal' \in Nat /\ nextVal <= nextVal' /\ (c = "string" => nextVal' = nextVal + 1)
        /\ (c # "string" => nextVal' = nextVal)
    BY ONLY <1>2, <1>6
  <2>3. ConstantId(c) \in 0 .. nextVal' - 1
    <3>1. CASE c \in DOMAIN KnownConstants
      <4>1. c # "string"
        BY <3>1 DEF KnownConstants
      <4>2. ConstantId(c) = KnownConstants[c]
        BY <3>1, <4>1 DEF ConstantId
      <4>3. KnownConstants[c] \in 0 .. 1
        BY <3>1 DEF KnownConstants
      <4> QED
        BY ONLY <1>2, <2>2, <4>2, <4>3
    <3>2. CASE c \notin DOMAIN KnownConstants /\ c = "string"
      <4>1. ConstantId(c) = nextVal
        BY <3>2 DEF ConstantId
      <4> QED
        BY ONLY <1>2, <2>2, <3>2, <4>1
    <3>3. CASE c \notin DOMAIN KnownConstants /\ c # "string"
      <4>1. ConstantId(c) = mapper[c]
        BY <3>3 DEF ConstantId
      <4>2. c \in {module.functions[f].name : f \in DOMAIN module.functions}
        BY <1>3, <1>6, <3>3 DEF ConstantOperands, FunctionNames
      <4>3. DOMAIN module.functions = 1 .. parsed
        BY <1>1, ModuleFacts DEF ParsedInv
      <4>4. c \in DOMAIN mapper
        BY <1>2, <4>2, <4>3
      <4>5. mapper[c] \in 0 .. nextVal - 1
        BY <1>2, <4>4
      <4> QED
        BY ONLY <1>2, <2>2, <4>1, <4>5
    <3> QED
      BY <3>1, <3>2, <3>3
  <2>4. /\ DOMAIN mapper' = DOMAIN mapper \cup {c}
        /\ \A x \in DOMAIN mapper' : mapper'[x] \in 0 .. nextVal' - 1
    <3> DEFINE n == nextVal'
               id == ConstantId(c)
    <3>1. n \in Nat /\ nextVal \in Nat /\ nextVal <= n /\ id \in 0 .. n - 1 /\ mapper' = LinkToValueId(c, id)
      BY <1>2, <1>6, <2>2, <2>3
    <3>2. n = nextVal'
      OBVIOUS
    <3> HIDE DEF n, id
    <3>3. /\ DOMAIN LinkToValueId(c, id) = DOMAIN mapper \cup {c}
          /\ \A x \in DOMAIN LinkToValueId(c, id) : LinkToValueId(c, id)[x] \in 0 .. n - 1
      BY <1>2, <3>1, LinkedValues
    <3> QED
      BY ONLY <3>1, <3>2, <3>3
  <2>5. nextVal' >= 2 /\ 2 .. nextVal - 1 \subseteq 2 .. nextVal' - 1
    <3> DEFINE n == nextVal'
    <3>1. n \in Nat /\ nextVal \in Nat /\ nextVal >= 2 /\ nextVal <= n
      BY <1>2, <2>2
    <3>2. n = nextVal'
      OBVIOUS
    <3> HIDE DEF n
    <3>3. n >= 2 /\ 2 .. nextVal - 1 \subseteq 2 .. n - 1
      BY ONLY <3>1
    <3> QED
      BY ONLY <3>2, <3>3
  <2>6. ConstantOperands' = ConstantOperands
    BY <2>1 DEF ConstantOperands, FunctionNames
  <2>7. ValueInv'
    <3>1. constantValuesToBeCreated' \in Seq(ConstantOperands)
      BY <1>3, <1>6 DEF left
    <3> QED
      BY <1>2, <2>1, <2>2, <2>4, <2>5, <2>6, <3>1 DEF ValueInv
  <2>8. GraphInv(nodes, copyMapping, parseAndLinkTogether)'
    <3>1. GraphInv(nodes', copyMapping', parseAndLinkTogether')
      BY <1>1, <2>1
    <3> QED
      BY <2>1, <3>1, GraphNext
  <2>9. ParsedInv'
    <3>1. Blocks' = Blocks /\ \A a : Succ(a)' = Succ(a)
      BY <2>1 DEF Blocks, Succ
    <3> QED
      BY <1>1, <2>1, <3>1 DEF ParsedInv
  <2> QED
    BY <1>1, <2>1, <2>7, <2>8, <2>9 DEF CfgInv
<1> QED
  BY <1>4, <1>5, <1>6

LEMMA NextInv == CfgInv /\ [Next]_vars => CfgInv'
<1> SUFFICES ASSUME CfgInv, [Next]_vars PROVE CfgInv'
  OBVIOUS
<1>1. CASE UNCHANGED vars
  <2>1. threw' # "runtime_error"
    BY <1>1 DEF vars, CfgInv
  <2> QED
    BY <1>1, <2>1, SameInv DEF vars
<1> QED
  BY <1>1, ParseFunctionInv, PrependEntryInv, LinkKnownInv, ParseAndLinkInv, DealWithConstantInv DEF Next

(***************************************************************************)
(* What the invariant gives.                                               *)
(***************************************************************************)

LEMMA InvImpliesTypeOK == CfgInv => TypeOK
<1> SUFFICES ASSUME CfgInv PROVE TypeOK
  OBVIOUS
<1> DEFINE L == Len(nodes)
<1>1. NodesInv(nodes, copyMapping) /\ QueueInv(nodes, copyMapping, parseAndLinkTogether)
  BY DEF CfgInv, GraphInv
<1>2. DOMAIN nodes = 1 .. L
  BY <1>1, LenProperties DEF NodesInv
<1>3. \A n \in DOMAIN nodes :
         /\ nodes[n].next \in 0 .. L /\ nodes[n].nextFalse \in 0 .. L
         /\ nodes[n].next = NULL <=> nodes[n] = TerminalNode
  BY <1>1, <1>2 DEF NodesInv
<1>4. DOMAIN copyMapping \subseteq Blocks /\ \A b \in DOMAIN copyMapping : copyMapping[b] \in 1 .. L
  BY <1>1 DEF NodesInv
<1>5. ASSUME NEW p \in DOMAIN parseAndLinkTogether
      PROVE  parseAndLinkTogether[p].node \in 1 .. L
  <2>1. parseAndLinkTogether[p] \in ToSet(parseAndLinkTogether)
    BY DEF ToSet
  <2>2. \E b, i : \E n \in 1 .. L : parseAndLinkTogether[p] = PlanFor(b, n, i)
    BY <1>1, <2>1 DEF QueueInv
  <2> QED
    BY <2>2 DEF PlanFor
<1>6. entryPointCfg \in 0 .. L
  BY DEF CfgInv, ParsedInv
<1>7. (\A c \in DOMAIN mapper : mapper[c] \in 0 .. nextVal - 1) /\ DOMAIN fmap \subseteq 2 .. nextVal - 1
  BY DEF CfgInv, ValueInv
<1> QED
  BY <1>3, <1>4, <1>5, <1>6, <1>7 DEF TypeOK

\* The node of an instruction of a block that is parsed.
LEMMA BlockNode ==
    ASSUME CfgInv, NEW b \in DOMAIN copyMapping, NEW base \in Nat,
           BlockInv(nodes, copyMapping, parseAndLinkTogether, b, base), NEW i \in 1 .. Count(b)
    PROVE  NodesAt(b, i) = {base + i} /\ base + i \in DOMAIN nodes
<1>1. module \in Modules /\ NodesInv(nodes, copyMapping)
  BY DEF CfgInv, GraphInv
<1>2. DOMAIN nodes = 1 .. Len(nodes) /\ Len(nodes) \in Nat
  BY <1>1, LenProperties DEF NodesInv
<1>3. Count(b) \in Nat
  BY <1>1, ModuleFacts DEF NodesInv
<1>4. base + i \in 1 .. Len(nodes) /\ nodes[base + i].instr = <<b, i>>
  <2>1. base + Count(b) <= Len(nodes) /\ nodes[base + i].instr = <<b, i>>
    BY DEF BlockInv
  <2> QED
    BY ONLY <1>2, <1>3, <2>1, base \in Nat, i \in 1 .. Count(b)
<1>5. \A n \in 1 .. Len(nodes) : nodes[n].instr = <<b, i>> => n = base + i
  BY <1>1, NodeOfBlock
<1> QED
  BY <1>2, <1>4, <1>5 DEF NodesAt

LEMMA InvImpliesParsedOnce == CfgInv => ParsedOnce
<1> SUFFICES ASSUME CfgInv PROVE ParsedOnce
  OBVIOUS
<1> DEFINE q == parseAndLinkTogether
<1>1. /\ module \in Modules /\ NodesInv(nodes, copyMapping)
      /\ \A b \in DOMAIN copyMapping : \E base \in Nat : BlockInv(nodes, copyMapping, q, b, base)
  BY DEF CfgInv, GraphInv
<1>2. DOMAIN nodes = 1 .. Len(nodes) /\ DOMAIN copyMapping \subseteq Blocks
  BY <1>1, LenProperties DEF NodesInv
<1>3. ASSUME NEW b \in Blocks, NEW i \in 1 .. Len(module.code[b]) + 1
      PROVE  Cardinality(NodesAt(b, i)) = IF IsMapped(b) /\ i <= Count(b) THEN 1 ELSE 0
  <2>1. Count(b) \in Nat /\ Len(module.code[b]) \in Nat /\ b # 0
    BY <1>1, ModuleFacts
  <2>2. CASE IsMapped(b) /\ i <= Count(b)
    <3>1. b \in DOMAIN copyMapping /\ i \in 1 .. Count(b)
      BY <2>1, <2>2 DEF IsMapped
    <3>2. PICK base \in Nat : BlockInv(nodes, copyMapping, q, b, base)
      BY <1>1, <3>1
    <3>3. NodesAt(b, i) = {base + i}
      BY <3>1, <3>2, BlockNode
    <3> QED
      BY <2>2, <3>3, FS_Singleton
  <2>3. CASE ~(IsMapped(b) /\ i <= Count(b))
    <3>1. ASSUME NEW n \in 1 .. Len(nodes), nodes[n].instr = <<b, i>> PROVE FALSE
      <4>1. \/ nodes[n].instr = <<>>
            \/ \E k \in 1 .. 2 : nodes[n].instr = <<0, k>>
            \/ \E c \in DOMAIN copyMapping : \E k \in 1 .. Count(c) : nodes[n].instr = <<c, k>>
        BY <1>1 DEF NodesInv
      <4>2. nodes[n].instr # <<>> /\ \A k : nodes[n].instr # <<0, k>>
        BY ONLY <2>1, <3>1
      <4>3. PICK c \in DOMAIN copyMapping : \E k \in 1 .. Count(c) : nodes[n].instr = <<c, k>>
        BY <4>1, <4>2
      <4>4. PICK k \in 1 .. Count(c) : nodes[n].instr = <<c, k>>
        BY <4>3
      <4>5. c = b /\ k = i
        <5>1. <<c, k>> = <<b, i>>
          BY <3>1, <4>4
        <5> QED
          BY ONLY <5>1
      <4>6. i \in 1 .. Count(b) /\ b \in DOMAIN copyMapping
        BY <4>5
      <4>7. i <= Count(b)
        BY ONLY <2>1, <4>6
      <4> QED
        BY <2>3, <4>6, <4>7 DEF IsMapped
    <3>2. NodesAt(b, i) = {}
      BY <1>2, <3>1 DEF NodesAt
    <3> QED
      BY <2>3, <3>2, FS_EmptySet
  <2> QED
    BY <2>2, <2>3
<1>4. ASSUME NEW b \in DOMAIN copyMapping
      PROVE  /\ IF Count(b) = 0 THEN IsTerminal(copyMapping[b])
                ELSE nodes[copyMapping[b]].instr = <<b, 1>>
             /\ \A i \in 1 .. Count(b) - 1 : \A n \in NodesAt(b, i) : nodes[n].next \in NodesAt(b, i + 1)
  <2>1. PICK base \in Nat : BlockInv(nodes, copyMapping, q, b, base)
    BY <1>1
  <2>2. Count(b) \in Nat
    BY <1>1, <1>2, ModuleFacts
  <2>3. /\ \A i \in 1 .. Count(b) : nodes[base + i].instr = <<b, i>>
        /\ \A i \in 1 .. Count(b) - 1 : nodes[base + i].next = base + i + 1
        /\ IF Count(b) = 0 THEN nodes[copyMapping[b]] = TerminalNode ELSE copyMapping[b] = base + 1
    BY <2>1 DEF BlockInv
  <2>4. ASSUME Count(b) # 0 PROVE nodes[copyMapping[b]].instr = <<b, 1>>
    <3>1. 1 \in 1 .. Count(b)
      BY ONLY <2>2, <2>4
    <3>2. nodes[base + 1].instr = <<b, 1>>
      BY <2>3, <3>1
    <3> QED
      BY <2>3, <2>4, <3>2
  <2>5. ASSUME NEW i \in 1 .. Count(b) - 1, NEW n \in NodesAt(b, i)
        PROVE  nodes[n].next \in NodesAt(b, i + 1)
    <3>1. i \in 1 .. Count(b) /\ i + 1 \in 1 .. Count(b) /\ base + i + 1 = base + (i + 1)
      BY ONLY <2>2, i \in 1 .. Count(b) - 1, base \in Nat
    <3>2. n = base + i
      BY <2>1, <3>1, BlockNode
    <3>3. NodesAt(b, i + 1) = {base + (i + 1)}
      BY <2>1, <3>1, BlockNode
    <3> QED
      BY <2>3, <3>1, <3>2, <3>3
  <2> QED
    BY <2>3, <2>4, <2>5 DEF IsTerminal
<1> QED
  BY <1>3, <1>4 DEF ParsedOnce

LEMMA InvImpliesNoBranchLost == CfgInv => NoBranchLost
<1> SUFFICES ASSUME CfgInv PROVE NoBranchLost
  OBVIOUS
<1> DEFINE q == parseAndLinkTogether
<1>1. /\ module \in Modules /\ NodesInv(nodes, copyMapping) /\ QueueInv(nodes, copyMapping, q)
      /\ \A b \in DOMAIN copyMapping : \E base \in Nat : BlockInv(nodes, copyMapping, q, b, base)
      /\ threw # "runtime_error"
  BY DEF CfgInv, GraphInv
<1>2. DOMAIN nodes = 1 .. Len(nodes) /\ DOMAIN copyMapping \subseteq Blocks
  BY <1>1, LenProperties DEF NodesInv
<1>3. ASSUME NEW b \in DOMAIN copyMapping, NEW i \in DOMAIN Succ(b), NEW n \in NodesAt(b, Count(b))
      PROVE  LET plans == {p \in DOMAIN q : q[p].node = n /\ q[p].index = i}
             IN  \/ /\ plans = {}
                    /\ IsMapped(Succ(b)[i])
                    /\ LinkOf(n, i) = copyMapping[Succ(b)[i]]
                 \/ /\ Cardinality(plans) = 1
                    /\ \A p \in plans : q[p].block = Succ(b)[i]
                    /\ IsTerminal(LinkOf(n, i))
                    /\ \A m \in DOMAIN nodes : m # n => LinkOf(n, i) \notin {LinkOf(m, 1), LinkOf(m, 2)}
  <2> DEFINE plans == {p \in DOMAIN q : q[p].node = n /\ q[p].index = i}
             plan == PlanFor(b, n, i)
  <2>1. PICK base \in Nat : BlockInv(nodes, copyMapping, q, b, base)
    BY <1>1
  <2>2. Count(b) \in 1 .. Count(b)
    <3>1. Count(b) \in Nat /\ Count(b) # 0
      BY <1>1, <1>2, ModuleFacts
    <3> QED
      BY ONLY <3>1
  <2>3. n = base + Count(b) /\ n \in 1 .. Len(nodes) /\ nodes[n].instr = <<b, Count(b)>>
    BY <1>2, <2>1, <2>2, BlockNode DEF NodesAt
  <2>4. SideInv(nodes, copyMapping, q, b, n, i)
    BY <2>1, <2>3 DEF BlockInv
  <2>5. LinkOf(n, i) = Side(nodes, n, i)
    BY DEF LinkOf, Side
  <2>6. ASSUME NEW p \in DOMAIN q, q[p].node = n, q[p].index = i PROVE q[p] = plan
    <3>1. q[p] \in ToSet(q)
      BY DEF ToSet
    <3>2. PICK c \in DOMAIN copyMapping : \E j \in DOMAIN Succ(c) : \E m \in 1 .. Len(nodes) :
             q[p] = PlanFor(c, m, j) /\ nodes[m].instr = <<c, Count(c)>>
      BY <1>1, <3>1 DEF QueueInv
    <3>3. PICK j, m : q[p] = PlanFor(c, m, j) /\ nodes[m].instr = <<c, Count(c)>>
      BY <3>2
    <3>4. m = n /\ j = i
      BY <2>6, <3>3 DEF PlanFor
    <3>5. c = b
      <4>1. <<c, Count(c)>> = <<b, Count(b)>>
        BY <2>3, <3>3, <3>4
      <4> QED
        BY ONLY <4>1
    <3> QED
      BY <3>3, <3>4, <3>5
  <2>7. plan.node = n /\ plan.index = i /\ plan.block = Succ(b)[i]
    BY DEF PlanFor
  <2> HIDE DEF plan
  <2>8. CASE plan \in ToSet(q)
    <3>1. PICK p \in DOMAIN q : q[p] = plan
      BY <2>8 DEF ToSet
    <3>2. plans = {p}
      <4>1. \A x, y \in DOMAIN q : q[x] = q[y] => x = y
        BY <1>1 DEF QueueInv, IsInjective
      <4> QED
        BY <2>6, <2>7, <3>1, <4>1
    <3>3. Cardinality(plans) = 1
      BY <3>2, FS_Singleton
    <3>4. \A x \in plans : q[x].block = Succ(b)[i]
      BY <2>6, <2>7
    <3>5. OwnTerminal(nodes, copyMapping, n, i)
      BY <2>4, <2>8 DEF SideInv, plan
    <3>6. IsTerminal(LinkOf(n, i))
      BY <2>5, <3>5 DEF IsTerminal, OwnTerminal
    <3>7. \A m \in DOMAIN nodes : m # n => LinkOf(n, i) \notin {LinkOf(m, 1), LinkOf(m, 2)}
      <4>1. \A m : LinkOf(m, 1) = nodes[m].next /\ LinkOf(m, 2) = nodes[m].nextFalse
        BY DEF LinkOf
      <4> QED
        BY <1>2, <2>5, <3>5, <4>1 DEF OwnTerminal
    <3> QED
      BY <3>3, <3>4, <3>6, <3>7
  <2>9. CASE plan \notin ToSet(q)
    <3>1. plans = {}
      BY <2>6, <2>9 DEF ToSet
    <3>2. Succ(b)[i] \in DOMAIN copyMapping /\ Side(nodes, n, i) = copyMapping[Succ(b)[i]]
      BY <2>4, <2>9 DEF SideInv, plan
    <3> QED
      BY <2>5, <3>1, <3>2 DEF IsMapped
  <2> QED
    BY <2>8, <2>9
<1> QED
  BY <1>1, <1>3 DEF NoBranchLost

-----------------------------------------------------------------------------
(***************************************************************************)
(* What the frontend hands over: where the blocks lie, who has which       *)
(* ValueId, and which operands have none yet.                              *)
(***************************************************************************)

\* Block b lies behind the node at base, its terminal node; the node before
\* that is its start node.
Layout(g, first, b, base) ==
    /\ base \in 2 .. Len(g) /\ g[base] = TerminalNode /\ g[base - 1] = StartNode(first)
    /\ first = IF Count(b) = 0 THEN base ELSE base + 1
    /\ Count(b) # 0 =>
          /\ base + Count(b) \in 1 .. Len(g)
          /\ base + 1 \in 1 .. Len(g) /\ g[base + 1].instr = <<b, 1>>
          /\ g[base + Count(b)].instr = <<b, Count(b)>>
          /\ Succ(b) = <<>> => g[base + Count(b)].next = base

\* __entry lies behind its start node and its terminal node.
EntryLayout(g, e) ==
    /\ e \in 3 .. Len(g) /\ e + 1 \in 3 .. Len(g)
    /\ g[e - 2] = StartNode(e) /\ g[e - 1] = TerminalNode
    /\ g[e] = [instr |-> <<0, 1>>, next |-> e + 1, nextFalse |-> NULL]
    /\ g[e + 1] = [instr |-> <<0, 2>>, next |-> e - 1, nextFalse |-> NULL]

LayoutInv ==
    /\ \A b \in DOMAIN copyMapping : \E base \in Nat : Layout(nodes, copyMapping[b], b, base)
    /\ \A b, c \in DOMAIN copyMapping : copyMapping[b] = copyMapping[c] => b = c
EntryInv == entryPointCfg # NULL => EntryLayout(nodes, entryPointCfg)

\* The names that have ValueIds: constants, those of unknown values, and the
\* functions that are parsed, each of which has an id of its own.
NamesInv ==
    /\ \A x \in DOMAIN mapper :
          \/ x \in DOMAIN KnownConstants /\ mapper[x] = KnownConstants[x]
          \/ x \in {"argc", "string"} /\ mapper[x] \notin DOMAIN fmap
          \/ \E f \in 1 .. parsed : module.functions[f].name = x
    /\ \A f \in 1 .. parsed :
          LET func == module.functions[f]
          IN  /\ func.entry \in DOMAIN copyMapping
              /\ func.name \in DOMAIN mapper /\ mapper[func.name] \in DOMAIN fmap
              /\ fmap[mapper[func.name]] = [param |-> func.param, cfg |-> copyMapping[func.entry]]
    /\ \A v \in DOMAIN fmap : \E f \in 1 .. parsed : mapper[module.functions[f].name] = v
    /\ \A f, g \in 1 .. parsed :
          mapper[module.functions[f].name] = mapper[module.functions[g].name] => f = g

\* No constant of a parsed block is forgotten.
OperandsInv ==
    \A b \in DOMAIN copyMapping :
        ToSet(ConstantsOf(b)) \subseteq DOMAIN mapper \cup ToSet(constantValuesToBeCreated)

LinkingInv == LayoutInv /\ EntryInv /\ NamesInv /\ OperandsInv

\* The graph h, which is g with more nodes and with branches linked.
Grows(g, h) ==
    /\ Len(g) \in Nat /\ Len(h) \in Nat /\ Len(g) <= Len(h)
    /\ \A n \in 1 .. Len(g) :
          /\ h[n].instr = g[n].instr
          /\ h[n] = g[n] \/ \E c \in Blocks : Succ(c) # <<>> /\ g[n].instr = <<c, Count(c)>>

LEMMA GrowsLayout ==
    ASSUME NEW g, NEW h, Grows(g, h), NEW b, NEW first, NEW base \in Nat, Count(b) \in Nat,
           Layout(g, first, b, base)
    PROVE  Layout(h, first, b, base)
<1>1. /\ Len(g) \in Nat /\ Len(h) \in Nat /\ Len(g) <= Len(h)
      /\ \A n \in 1 .. Len(g) :
            /\ h[n].instr = g[n].instr
            /\ h[n] = g[n] \/ \E c \in Blocks : Succ(c) # <<>> /\ g[n].instr = <<c, Count(c)>>
  BY DEF Grows
<1>2. /\ base \in 2 .. Len(g) /\ g[base] = TerminalNode /\ g[base - 1] = StartNode(first)
      /\ first = IF Count(b) = 0 THEN base ELSE base + 1
      /\ Count(b) # 0 =>
            /\ base + Count(b) \in 1 .. Len(g)
            /\ base + 1 \in 1 .. Len(g) /\ g[base + 1].instr = <<b, 1>>
            /\ g[base + Count(b)].instr = <<b, Count(b)>>
            /\ Succ(b) = <<>> => g[base + Count(b)].next = base
  BY DEF Layout
<1>3. /\ base \in 1 .. Len(g) /\ base - 1 \in 1 .. Len(g) /\ base \in 2 .. Len(h)
      /\ \A n \in 1 .. Len(g) : n \in 1 .. Len(h)
  BY ONLY <1>1, <1>2
<1>4. TerminalNode.instr = <<>> /\ StartNode(first).instr = <<>> /\ \A c, k : <<>> # <<c, k>>
  BY DEF TerminalNode, StartNode
<1>5. h[base] = TerminalNode /\ h[base - 1] = StartNode(first)
  <2>1. \A n \in 1 .. Len(g) : g[n].instr = <<>> => h[n] = g[n]
    BY <1>1, <1>4
  <2>2. g[base].instr = <<>> /\ g[base - 1].instr = <<>>
    BY <1>2, <1>4
  <2> QED
    BY <1>2, <1>3, <2>1, <2>2
<1>6. ASSUME Count(b) # 0
      PROVE  /\ base + Count(b) \in 1 .. Len(h)
             /\ base + 1 \in 1 .. Len(h) /\ h[base + 1].instr = <<b, 1>>
             /\ h[base + Count(b)].instr = <<b, Count(b)>>
             /\ Succ(b) = <<>> => h[base + Count(b)].next = base
  <2>1. ASSUME Succ(b) = <<>>, NEW c \in Blocks, Succ(c) # <<>>
        PROVE  <<b, Count(b)>> # <<c, Count(c)>>
    BY <2>1
  <2> QED
    BY <1>1, <1>2, <1>3, <1>6, <2>1
<1> QED
  BY <1>2, <1>3, <1>5, <1>6 DEF Layout

LEMMA GrowsEntry ==
    ASSUME NEW g, NEW h, Grows(g, h), NEW e, EntryLayout(g, e), 0 \notin Blocks
    PROVE  EntryLayout(h, e)
<1>1. /\ Len(g) \in Nat /\ Len(h) \in Nat /\ Len(g) <= Len(h)
      /\ \A n \in 1 .. Len(g) :
            h[n] = g[n] \/ \E c \in Blocks : Succ(c) # <<>> /\ g[n].instr = <<c, Count(c)>>
  BY DEF Grows
<1>2. /\ e \in 3 .. Len(g) /\ e + 1 \in 3 .. Len(g)
      /\ g[e - 2] = StartNode(e) /\ g[e - 1] = TerminalNode
      /\ g[e] = [instr |-> <<0, 1>>, next |-> e + 1, nextFalse |-> NULL]
      /\ g[e + 1] = [instr |-> <<0, 2>>, next |-> e - 1, nextFalse |-> NULL]
  BY DEF EntryLayout
<1>3. /\ e - 2 \in 1 .. Len(g) /\ e - 1 \in 1 .. Len(g) /\ e \in 1 .. Len(g) /\ e + 1 \in 1 .. Len(g)
      /\ e \in 3 .. Len(h) /\ e + 1 \in 3 .. Len(h)
  BY ONLY <1>1, <1>2
<1>4. /\ TerminalNode.instr = <<>> /\ StartNode(e).instr = <<>> /\ \A c, k : <<>> # <<c, k>>
      /\ \A c \in Blocks : \A i, k : <<0, i>> # <<c, k>>
  BY DEF TerminalNode, StartNode
<1>5. g[e].instr = <<0, 1>> /\ g[e + 1].instr = <<0, 2>>
  BY <1>2
<1>6. \A n \in 1 .. Len(g) : g[n].instr \in {<<>>, <<0, 1>>, <<0, 2>>} => h[n] = g[n]
  <2>1. ASSUME NEW c \in Blocks, NEW k
        PROVE  <<c, k>> \notin {<<>>, <<0, 1>>, <<0, 2>>}
    BY <2>1
  <2> QED
    BY <1>1, <2>1
<1>7. g[e - 2].instr = <<>> /\ g[e - 1].instr = <<>>
  BY <1>2, <1>4
<1>8. h[e - 2] = g[e - 2] /\ h[e - 1] = g[e - 1] /\ h[e] = g[e] /\ h[e + 1] = g[e + 1]
  BY <1>3, <1>5, <1>6, <1>7
<1> QED
  BY <1>2, <1>3, <1>8 DEF EntryLayout

LEMMA GrowsTwice ==
    ASSUME NEW g, NEW h, NEW k, Grows(g, h), Grows(h, k)
    PROVE  Grows(g, k)
<1>1. /\ Len(g) \in Nat /\ Len(h) \in Nat /\ Len(k) \in Nat /\ Len(g) <= Len(h) /\ Len(h) <= Len(k)
  BY DEF Grows
<1>2. Len(g) <= Len(k) /\ \A n \in 1 .. Len(g) : n \in 1 .. Len(h)
  BY ONLY <1>1
<1> QED
  BY <1>1, <1>2 DEF Grows

\* What depends on the module alone stays.
LEMMA SameModule ==
    ASSUME module' = module
    PROVE  /\ Blocks' = Blocks
           /\ \A b : /\ Succ(b)' = Succ(b) /\ Count(b)' = Count(b)
                     /\ ConstantsOf(b)' = ConstantsOf(b)
           /\ \A g, first, b, base : Layout(g, first, b, base)' <=> Layout(g, first, b, base)
           /\ \A g, e : EntryLayout(g, e)' <=> EntryLayout(g, e)
<1>1. Blocks' = Blocks /\ \A b : Succ(b)' = Succ(b) /\ Count(b)' = Count(b)
  BY DEF Blocks, Succ, Count
<1>2. \A b : ConstantsOf(b)' = ConstantsOf(b)
  BY DEF ConstantsOf, Operands, ConstantOperands, FunctionNames
<1> QED
  BY <1>1, <1>2 DEF Layout, EntryLayout

\* Linking a plan in a graph g that has the nodes of the state and more.
LEMMA PlanGrows ==
    ASSUME CfgInv, parseAndLinkTogether # <<>>, NEW g, g \in Seq(ToSet(g)),
           Len(nodes) \in Nat, Len(nodes) <= Len(g), \A n \in 1 .. Len(nodes) : g[n] = nodes[n],
           NEW t, LinkPlan(g, Plan, t)
    PROVE  Grows(g, nodes')
<1> DEFINE q == parseAndLinkTogether
<1>1. module \in Modules /\ GraphInv(nodes, copyMapping, q) /\ Len(g) \in Nat
  BY LenProperties DEF CfgInv
<1>2. Plan \in ToSet(q)
  <2>1. q \in Seq(ToSet(q))
    BY <1>1 DEF GraphInv, QueueInv
  <2> HIDE DEF q
  <2>2. q # <<>>
    BY DEF q
  <2>3. Len(q) \in Nat /\ Len(q) # 0 /\ DOMAIN q = 1 .. Len(q) /\ Head(q) = q[1]
    BY <2>1, <2>2, LenProperties, EmptySeq, HeadTailProperties
  <2>4. 1 \in DOMAIN q
    BY <2>3
  <2> QED
    BY <2>3, <2>4 DEF ToSet, Plan, q
<1>3. \E b \in DOMAIN copyMapping : \E i \in DOMAIN Succ(b) : \E n \in 1 .. Len(nodes) :
         /\ Plan = PlanFor(b, n, i) /\ i \in 1 .. 2 /\ Count(b) # 0 /\ Count(b) \in Nat
         /\ b \in Blocks /\ nodes[n].instr = <<b, Count(b)>>
         /\ OwnTerminal(nodes, copyMapping, n, i)
  BY <1>1, <1>2, PlanOwner
<1>4. PICK b, i, n :
         /\ i \in DOMAIN Succ(b) /\ n \in 1 .. Len(nodes)
         /\ Plan = PlanFor(b, n, i) /\ i \in 1 .. 2 /\ b \in Blocks
         /\ nodes[n].instr = <<b, Count(b)>>
  BY ONLY <1>3
<1>5. Plan.node = n /\ Plan.index = i /\ n \in 1 .. Len(g) /\ g[n] = nodes[n]
  BY <1>1, <1>4 DEF PlanFor
<1>6. g[n] = [instr |-> g[n].instr, next |-> g[n].next, nextFalse |-> g[n].nextFalse]
  <2>1. NodesInv(nodes, copyMapping)
    BY <1>1 DEF GraphInv
  <2>2. \A m \in 1 .. Len(nodes) : nodes[m] = [instr |-> nodes[m].instr, next |-> nodes[m].next,
                                              nextFalse |-> nodes[m].nextFalse]
    BY <2>1 DEF NodesInv
  <2>3. nodes[n] = [instr |-> nodes[n].instr, next |-> nodes[n].next,
                    nextFalse |-> nodes[n].nextFalse]
    BY ONLY <1>4, <2>2
  <2> QED
    BY ONLY <1>5, <2>3
<1>7. Succ(b) # <<>>
  BY <1>4
<1>8. nodes' = g \/ nodes' = LinkTogether(g, n, t, i)
  BY <1>5 DEF LinkPlan
<1>9. CASE nodes' = g
  BY <1>1, <1>9 DEF Grows
<1>10. CASE nodes' = LinkTogether(g, n, t, i)
  <2> DEFINE h == LinkTogether(g, n, t, i)
  <2>1. h = LinkTogether(g, n, t, i) /\ i \in 1 .. 2
    BY <1>4
  <2> HIDE DEF h
  <2>4. /\ h \in Seq(ToSet(h)) /\ Len(h) = Len(g) /\ Len(g) \in Nat
        /\ \A m \in 1 .. Len(g) : m # n => h[m] = g[m]
        /\ h[n] = [instr |-> g[n].instr, next |-> h[n].next, nextFalse |-> h[n].nextFalse]
        /\ Side(h, n, i) = t
        /\ \A j \in 1 .. 2 : j # i => Side(h, n, j) = Side(g, n, j)
    <3>1. /\ g \in Seq(ToSet(g)) /\ n \in 1 .. Len(g) /\ i \in 1 .. 2 /\ h = LinkTogether(g, n, t, i)
          /\ g[n] = [instr |-> g[n].instr, next |-> g[n].next, nextFalse |-> g[n].nextFalse]
      BY <1>5, <1>6, <2>1
    <3> QED
      BY ONLY <3>1, LinkedGraph
  <2>2. h[n].instr = g[n].instr
    BY <2>4
  <2>3. nodes' = h
    BY <1>10 DEF h
  <2> QED
    BY <1>1, <1>4, <1>5, <1>7, <2>2, <2>3, <2>4 DEF Grows
<1> QED
  BY <1>8, <1>9, <1>10

\* The nodes of a block that is parsed now.
LEMMA BlockGrows ==
    ASSUME CfgInv, NEW b \in Blocks, NEW g, g = nodes \o NodesOf(b)
    PROVE  /\ Len(nodes) \in Nat /\ g \in Seq(ToSet(g)) /\ Grows(nodes, g)
           /\ \A n \in 1 .. Len(nodes) : g[n] = nodes[n]
           /\ Layout(g, FirstNode(b), b, Len(nodes) + 2)
           /\ FirstNode(b) > Len(nodes)
<1> DEFINE L == Len(nodes)
           K == Count(b)
           T == FalseEnds(b)
<1>1. module \in Modules /\ nodes \in Seq(ToSet(nodes)) /\ K \in Nat
  BY ModuleFacts DEF CfgInv, GraphInv, NodesInv
<1>2. BlockNodes(g, b, L, K, T)
  BY <1>1, NewNodes
<1>3. /\ TerminalId = L + 2 /\ NodeId(1) = L + 2 + 1
  BY DEF TerminalId, NodeId
<1>4. FirstNode(b) = IF K = 0 THEN L + 2 ELSE L + 2 + 1
  BY <1>3 DEF FirstNode
<1> HIDE DEF L, K, T
<1> DEFINE Node(i) ==
               [instr |-> <<b, i>>,
                next |-> IF i < K THEN L + 3 + i ELSE SuccessorNode(b, 1, L + 2),
                nextFalse |-> IF i = K /\ T = 1 THEN SuccessorNode(b, 2, L + 3 + K) ELSE NULL]
<1>5. /\ L \in Nat /\ K \in Nat /\ T \in 0 .. 1
      /\ g \in Seq(ToSet(g)) /\ Len(g) = L + 2 + K + T
      /\ \A n \in 1 .. L : g[n] = nodes[n]
      /\ g[L + 1] = StartNode(FirstNode(b))
      /\ g[L + 2] = TerminalNode
      /\ \A i \in 1 .. K : g[L + 2 + i] = Node(i)
  BY <1>2 DEF BlockNodes
<1>6. /\ L \in Nat /\ K \in Nat /\ T \in 0 .. 1 /\ Len(g) = L + 2 + K + T
      /\ Len(g) \in Nat /\ L <= Len(g) /\ L + 2 \in 2 .. Len(g) /\ (L + 2) - 1 = L + 1
      /\ FirstNode(b) > L
  BY ONLY <1>4, <1>5
<1>7. ASSUME K # 0
      PROVE  /\ L + 2 + K \in 1 .. Len(g) /\ L + 2 + 1 \in 1 .. Len(g)
             /\ g[L + 2 + 1].instr = <<b, 1>> /\ g[L + 2 + K].instr = <<b, K>>
             /\ Succ(b) = <<>> => g[L + 2 + K].next = L + 2
  <2>1. L + 2 + K \in 1 .. Len(g) /\ L + 2 + 1 \in 1 .. Len(g) /\ 1 \in 1 .. K /\ K \in 1 .. K
    BY ONLY <1>6, <1>7
  <2>2. Node(1).instr = <<b, 1>> /\ Node(K).instr = <<b, K>> /\ ~(K < K)
    BY ONLY <1>6
  <2>3. Node(K).next = SuccessorNode(b, 1, L + 2)
    BY ONLY <2>2
  <2>4. Succ(b) = <<>> => SuccessorNode(b, 1, L + 2) = L + 2
    BY DEF SuccessorNode
  <2> HIDE DEF Node
  <2>5. g[L + 2 + 1] = Node(1) /\ g[L + 2 + K] = Node(K)
    BY <1>5, <2>1
  <2> QED
    BY <2>1, <2>2, <2>3, <2>4, <2>5
<1> HIDE DEF Node
<1>8. Grows(nodes, g)
  BY <1>5, <1>6 DEF Grows, L
<1>9. Layout(g, FirstNode(b), b, L + 2)
  BY <1>4, <1>5, <1>6, <1>7 DEF Layout, K
<1> QED
  BY <1>5, <1>6, <1>8, <1>9 DEF L

\* The layout when a block is added, and when none is.
LEMMA LayoutAdded ==
    ASSUME CfgInv, LayoutInv, NEW b \in Blocks, b \notin DOMAIN copyMapping, module' = module,
           copyMapping' = Map(b, FirstNode(b)), Grows(nodes \o NodesOf(b), nodes')
    PROVE  LayoutInv' /\ Grows(nodes, nodes')
<1> DEFINE g == nodes \o NodesOf(b)
           f == copyMapping
           h == nodes'
           first == FirstNode(b)
           new == copyMapping'
           L == Len(nodes)
<1>1. /\ L \in Nat /\ Grows(nodes, g) /\ Layout(g, first, b, L + 2) /\ first > L
  BY BlockGrows
<1>2. /\ DOMAIN f \subseteq Blocks /\ module \in Modules /\ \A c \in DOMAIN f : f[c] \in 1 .. L
  BY DEF CfgInv, GraphInv, NodesInv
<1>3. \A c \in Blocks : Count(c) \in Nat
  BY <1>2, ModuleFacts
<1>4. new = [x \in DOMAIN f \cup {b} |-> IF x = b THEN first ELSE f[x]]
  BY DEF Map
<1> HIDE DEF g, first
<1>5. Grows(g, h)
  BY DEF g
<1>6. Grows(nodes, h)
  BY <1>1, <1>5, GrowsTwice
<1>7. ASSUME NEW c \in DOMAIN new PROVE \E base \in Nat : Layout(h, new[c], c, base)
  <2>1. CASE c = b
    <3>1. L + 2 \in Nat
      BY ONLY <1>1
    <3>2. Layout(h, first, b, L + 2)
      BY <1>1, <1>3, <1>5, <3>1, GrowsLayout
    <3> QED
      BY <1>4, <2>1, <3>1, <3>2
  <2>2. CASE c # b
    <3>1. c \in DOMAIN f /\ new[c] = f[c]
      BY <1>4, <2>2
    <3>2. PICK base \in Nat : Layout(nodes, f[c], c, base)
      BY <3>1 DEF LayoutInv
    <3>3. Layout(h, f[c], c, base)
      BY <1>2, <1>3, <1>6, <3>1, <3>2, GrowsLayout
    <3> QED
      BY <3>1, <3>3
  <2> QED
    BY <2>1, <2>2
<1>8. ASSUME NEW c \in DOMAIN new, NEW d \in DOMAIN new, new[c] = new[d] PROVE c = d
  <2>1. \A x \in DOMAIN f : f[x] # first
    BY <1>1, <1>2
  <2>2. \A x, y \in DOMAIN f : f[x] = f[y] => x = y
    BY DEF LayoutInv
  <2> QED
    BY <1>4, <1>8, <2>1, <2>2
<1>9. LayoutInv'
  <2>1. \A c \in DOMAIN copyMapping' : \E base \in Nat : Layout(nodes, copyMapping[c], c, base)'
    <3> SUFFICES ASSUME NEW c \in DOMAIN copyMapping'
                 PROVE  \E base \in Nat : Layout(nodes, copyMapping[c], c, base)'
      OBVIOUS
    <3>1. PICK base \in Nat : Layout(nodes', copyMapping'[c], c, base)
      BY <1>7
    <3>2. Layout(nodes, copyMapping[c], c, base)'
      BY <3>1, SameModule DEF Layout
    <3> QED
      BY <3>2
  <2> QED
    BY <1>8, <2>1 DEF LayoutInv
<1> QED
  BY <1>6, <1>9

LEMMA LayoutKept ==
    ASSUME CfgInv, LayoutInv, module' = module, copyMapping' = copyMapping, Grows(nodes, nodes')
    PROVE  LayoutInv'
<1>1. DOMAIN copyMapping \subseteq Blocks /\ module \in Modules
  BY DEF CfgInv, GraphInv, NodesInv
<1>2. ASSUME NEW c \in DOMAIN copyMapping
      PROVE  \E base \in Nat : Layout(nodes, copyMapping[c], c, base)'
  <2>1. PICK base \in Nat : Layout(nodes, copyMapping[c], c, base)
    BY DEF LayoutInv
  <2>2. Count(c) \in Nat
    BY <1>1, ModuleFacts
  <2>3. Layout(nodes', copyMapping[c], c, base)
    BY <2>1, <2>2, GrowsLayout
  <2>4. Layout(nodes, copyMapping[c], c, base)'
    BY <2>3, SameModule DEF Layout
  <2> QED
    BY <2>4
<1> QED
  BY <1>2 DEF LayoutInv

LEMMA EntryKept ==
    ASSUME CfgInv, EntryInv, module' = module, entryPointCfg' = entryPointCfg, Grows(nodes, nodes')
    PROVE  EntryInv'
<1>1. 0 \notin Blocks
  BY ModuleFacts DEF CfgInv
<1>2. entryPointCfg # NULL => EntryLayout(nodes', entryPointCfg)
  BY <1>1, GrowsEntry DEF EntryInv
<1> QED
  BY <1>2 DEF EntryInv, EntryLayout

\* __entry in front of main.
LEMMA EntryAdded ==
    ASSUME CfgInv, PrependEntry, "main" \in DOMAIN mapper
    PROVE  Grows(nodes, nodes') /\ EntryInv'
<1> DEFINE L == Len(nodes)
           e == L + 3
           n1 == StartNode(e)
           n2 == TerminalNode
           n3 == [instr |-> <<0, 1>>, next |-> e + 1, nextFalse |-> NULL]
           n4 == [instr |-> <<0, 2>>, next |-> e - 1, nextFalse |-> NULL]
           entry == << n1, n2, n3, n4 >>
           S == ToSet(nodes) \cup {n1, n2, n3, n4}
           h == nodes \o entry
<1>1. module \in Modules /\ nodes \in Seq(ToSet(nodes)) /\ L \in Nat
  BY LenProperties DEF CfgInv, GraphInv, NodesInv
<1>2. NodeId(1) = e /\ NodeId(2) = e + 1 /\ TerminalId = e - 1
  BY <1>1 DEF NodeId, TerminalId
<1>3. nodes' = h /\ entryPointCfg' = e /\ module' = module
  BY <1>2 DEF PrependEntry
<1>4. nodes \in Seq(S) /\ entry \in Seq(S) /\ Len(entry) = 4
      /\ entry[1] = n1 /\ entry[2] = n2 /\ entry[3] = n3 /\ entry[4] = n4
  <2> HIDE DEF n1, n2, n3, n4
  <2>1. nodes \in Seq(S)
    BY <1>1
  <2> QED
    BY <2>1
<1> HIDE DEF S, h, entry, L, n1, n2, n3, n4
<1>5. /\ h \in Seq(S) /\ Len(h) = L + 4
      /\ \A i \in 1 .. L : h[i] = nodes[i]
      /\ \A i \in 1 .. 4 : h[L + i] = entry[i]
  <2>1. h = nodes \o entry /\ Len(nodes) = L
    BY DEF h, L
  <2>2. /\ h \in Seq(S) /\ Len(h) = Len(nodes) + Len(entry)
        /\ \A i \in 1 .. Len(nodes) : h[i] = nodes[i]
        /\ \A i \in 1 .. Len(entry) : h[Len(nodes) + i] = entry[i]
    <3>1. nodes \in Seq(S) /\ entry \in Seq(S) /\ h = nodes \o entry
      BY ONLY <1>4, <2>1
    <3> QED
      BY ONLY <3>1, ConcatFacts
  <2> QED
    BY ONLY <1>4, <2>1, <2>2
<1>6. /\ Len(h) \in Nat /\ L <= Len(h) /\ e \in 3 .. Len(h) /\ e + 1 \in 3 .. Len(h)
      /\ e - 2 = L + 1 /\ e - 1 = L + 2 /\ e = L + 3 /\ e + 1 = L + 4
  BY ONLY <1>1, <1>5
<1>7. h[L + 1] = n1 /\ h[L + 2] = n2 /\ h[L + 3] = n3 /\ h[L + 4] = n4
  BY <1>4, <1>5
<1>8. Grows(nodes, h)
  BY <1>1, <1>5, <1>6 DEF Grows, L
<1>9. EntryLayout(h, e)
  BY <1>6, <1>7 DEF EntryLayout, n1, n2, n3, n4
<1>10. EntryInv'
  BY <1>3, <1>9 DEF EntryInv, EntryLayout
<1> QED
  BY <1>3, <1>8, <1>10

\* The ids of a name x that is no function's, and of those that have one.
LEMMA NamesKept ==
    ASSUME CfgInv, NamesInv, module' = module, parsed' = parsed, fmap' = fmap,
           \A c \in DOMAIN copyMapping : c \in DOMAIN copyMapping' /\ copyMapping'[c] = copyMapping[c],
           \/ mapper' = mapper
           \/ \E x, id : /\ mapper' = LinkToValueId(x, id)
                         /\ \/ x \in DOMAIN KnownConstants /\ id = KnownConstants[x]
                            \/ x \in {"argc", "string"} /\ id \notin DOMAIN fmap
                            \/ x \in DOMAIN mapper /\ id = mapper[x]
    PROVE  NamesInv'
<1>1. /\ \A x \in DOMAIN mapper :
            \/ x \in DOMAIN KnownConstants /\ mapper[x] = KnownConstants[x]
            \/ x \in {"argc", "string"} /\ mapper[x] \notin DOMAIN fmap
            \/ \E f \in 1 .. parsed : module.functions[f].name = x
      /\ \A f \in 1 .. parsed :
            LET func == module.functions[f]
            IN  /\ func.entry \in DOMAIN copyMapping
                /\ func.name \in DOMAIN mapper /\ mapper[func.name] \in DOMAIN fmap
                /\ fmap[mapper[func.name]] = [param |-> func.param, cfg |-> copyMapping[func.entry]]
      /\ \A v \in DOMAIN fmap : \E f \in 1 .. parsed : mapper[module.functions[f].name] = v
      /\ \A f, g \in 1 .. parsed :
            mapper[module.functions[f].name] = mapper[module.functions[g].name] => f = g
  BY DEF NamesInv
<1>2. \A f \in 1 .. parsed :
         module.functions[f].name \notin DOMAIN KnownConstants \cup {"argc", "string"}
  <2>1. parsed \in 0 .. Len(module.functions) /\ module \in Modules
    BY DEF CfgInv, ParsedInv
  <2>2. Len(module.functions) \in Nat /\ DOMAIN module.functions = 1 .. Len(module.functions)
    BY <2>1, ModuleFacts
  <2>3. \A f \in 1 .. parsed : f \in DOMAIN module.functions
    BY ONLY <2>1, <2>2
  <2> QED
    BY <2>1, <2>3, ModulesAssumption DEF IsModule
<1>3. /\ \A x \in DOMAIN mapper' :
            \/ x \in DOMAIN KnownConstants /\ mapper'[x] = KnownConstants[x]
            \/ x \in {"argc", "string"} /\ mapper'[x] \notin DOMAIN fmap
            \/ \E f \in 1 .. parsed : module.functions[f].name = x
      /\ \A f \in 1 .. parsed :
            /\ module.functions[f].name \in DOMAIN mapper'
            /\ mapper'[module.functions[f].name] = mapper[module.functions[f].name]
  <2>1. CASE mapper' = mapper
    BY <1>1, <2>1
  <2>2. ASSUME NEW x, NEW id, mapper' = LinkToValueId(x, id),
               \/ x \in DOMAIN KnownConstants /\ id = KnownConstants[x]
               \/ x \in {"argc", "string"} /\ id \notin DOMAIN fmap
               \/ x \in DOMAIN mapper /\ id = mapper[x]
        PROVE  /\ \A y \in DOMAIN mapper' :
                     \/ y \in DOMAIN KnownConstants /\ mapper'[y] = KnownConstants[y]
                     \/ y \in {"argc", "string"} /\ mapper'[y] \notin DOMAIN fmap
                     \/ \E f \in 1 .. parsed : module.functions[f].name = y
               /\ \A f \in 1 .. parsed :
                     /\ module.functions[f].name \in DOMAIN mapper'
                     /\ mapper'[module.functions[f].name] = mapper[module.functions[f].name]
    <3>1. /\ DOMAIN mapper' = DOMAIN mapper \cup {x} /\ mapper'[x] = id
          /\ \A y \in DOMAIN mapper : y # x => mapper'[y] = mapper[y]
      BY <2>2 DEF LinkToValueId
    <3>2. ASSUME NEW y \in DOMAIN mapper'
          PROVE  \/ y \in DOMAIN KnownConstants /\ mapper'[y] = KnownConstants[y]
                 \/ y \in {"argc", "string"} /\ mapper'[y] \notin DOMAIN fmap
                 \/ \E f \in 1 .. parsed : module.functions[f].name = y
      BY <1>1, <2>2, <3>1
    <3>3. ASSUME NEW f \in 1 .. parsed
          PROVE  /\ module.functions[f].name \in DOMAIN mapper'
                 /\ mapper'[module.functions[f].name] = mapper[module.functions[f].name]
      <4>1. module.functions[f].name \in DOMAIN mapper
        BY <1>1
      <4> QED
        BY <1>2, <2>2, <3>1, <4>1
    <3> QED
      BY <3>2, <3>3
  <2> QED
    BY <2>1, <2>2
<1>4. ASSUME NEW f \in 1 .. parsed
      PROVE  LET func == module.functions[f]
             IN  /\ func.entry \in DOMAIN copyMapping'
                 /\ func.name \in DOMAIN mapper' /\ mapper'[func.name] \in DOMAIN fmap
                 /\ fmap[mapper'[func.name]] = [param |-> func.param, cfg |-> copyMapping'[func.entry]]
  BY <1>1, <1>3
<1>5. \A v \in DOMAIN fmap : \E f \in 1 .. parsed : mapper'[module.functions[f].name] = v
  BY <1>1, <1>3
<1>6. \A f, g \in 1 .. parsed :
            mapper'[module.functions[f].name] = mapper'[module.functions[g].name] => f = g
  BY <1>1, <1>3
<1> QED
  BY <1>3, <1>4, <1>5, <1>6 DEF NamesInv

\* A function gets a new id, and its handle.
LEMMA FunctionNamed ==
    ASSUME CfgInv, NamesInv, ParseFunction, ~CannotTranslate(Function.entry)
    PROVE  NamesInv'
<1> DEFINE name == Function.name
           b == Function.entry
           Name(f) == module.functions[f].name
<1>1. /\ \A x \in DOMAIN mapper :
            \/ x \in DOMAIN KnownConstants /\ mapper[x] = KnownConstants[x]
            \/ x \in {"argc", "string"} /\ mapper[x] \notin DOMAIN fmap
            \/ \E f \in 1 .. parsed : module.functions[f].name = x
      /\ \A f \in 1 .. parsed :
            LET func == module.functions[f]
            IN  /\ func.entry \in DOMAIN copyMapping
                /\ func.name \in DOMAIN mapper /\ mapper[func.name] \in DOMAIN fmap
                /\ fmap[mapper[func.name]] = [param |-> func.param, cfg |-> copyMapping[func.entry]]
      /\ \A v \in DOMAIN fmap : \E f \in 1 .. parsed : mapper[Name(f)] = v
      /\ \A f, g \in 1 .. parsed : mapper[Name(f)] = mapper[Name(g)] => f = g
  BY DEF NamesInv
<1>2. /\ module \in Modules /\ parsed \in 0 .. Len(module.functions) /\ parsed < Len(module.functions)
      /\ nextVal \in Nat /\ nextVal >= 2
      /\ \A c \in DOMAIN mapper : mapper[c] \in 0 .. nextVal - 1
      /\ DOMAIN fmap \subseteq 2 .. nextVal - 1
  BY DEF CfgInv, ParsedInv, ValueInv, ParseFunction
<1>3. /\ copyMapping' = Map(b, FirstNode(b)) /\ mapper' = LinkToValueId(name, nextVal)
      /\ fmap' = [v \in DOMAIN fmap \cup {nextVal} |->
                     IF v \in DOMAIN fmap THEN fmap[v]
                     ELSE [param |-> Function.param, cfg |-> FirstNode(b)]]
      /\ parsed' = parsed + 1 /\ module' = module
  BY DEF ParseFunction
<1>4. Len(module.functions) \in Nat /\ DOMAIN module.functions = 1 .. Len(module.functions)
  BY <1>2, ModuleFacts
<1>5. /\ parsed \in Nat /\ parsed + 1 \in 1 .. Len(module.functions)
      /\ parsed' \in Nat /\ 1 .. parsed' = 1 .. parsed \cup {parsed + 1}
      /\ \A f \in 1 .. parsed : f \in 1 .. Len(module.functions) /\ f # parsed + 1
  BY ONLY <1>2, <1>3, <1>4
<1>6. /\ Function = module.functions[parsed + 1]
      /\ \A f \in 1 .. Len(module.functions) :
            /\ Name(f) \notin DOMAIN KnownConstants \cup {"argc", "string"}
            /\ \A g \in 1 .. Len(module.functions) : Name(f) = Name(g) => f = g
  <2>1. IsModule(module)
    BY <1>2, ModulesAssumption
  <2> QED
    BY <1>4, <2>1 DEF IsModule, Function
<1>7. name \notin DOMAIN mapper
  <2> SUFFICES ASSUME name \in DOMAIN mapper PROVE FALSE
    OBVIOUS
  <2>1. name \notin DOMAIN KnownConstants \cup {"argc", "string"}
    BY <1>5, <1>6
  <2>2. PICK f \in 1 .. parsed : Name(f) = name
    BY <1>1, <2>1
  <2> QED
    BY <1>5, <1>6, <2>2
<1>8. nextVal \notin DOMAIN fmap /\ \A x \in DOMAIN mapper : mapper[x] # nextVal
  BY <1>2
<1>9. /\ DOMAIN mapper' = DOMAIN mapper \cup {name} /\ mapper'[name] = nextVal
      /\ \A x \in DOMAIN mapper : mapper'[x] = mapper[x]
  BY <1>3, <1>7 DEF LinkToValueId
<1>10. /\ DOMAIN fmap' = DOMAIN fmap \cup {nextVal}
       /\ \A v \in DOMAIN fmap : fmap'[v] = fmap[v]
       /\ fmap'[nextVal] = [param |-> Function.param, cfg |-> FirstNode(b)]
  BY <1>3, <1>8
<1>11. /\ DOMAIN copyMapping' = DOMAIN copyMapping \cup {b} /\ copyMapping'[b] = FirstNode(b)
       /\ \A c \in DOMAIN copyMapping : c # b => copyMapping'[c] = copyMapping[c]
  BY <1>3 DEF Map
<1>12. \A f \in 1 .. parsed : module.functions[f].entry # b
  BY <1>2, <1>5, <1>6, ModuleFacts
<1> HIDE DEF name, b
<1>13. \A x \in DOMAIN mapper' :
            \/ x \in DOMAIN KnownConstants /\ mapper'[x] = KnownConstants[x]
            \/ x \in {"argc", "string"} /\ mapper'[x] \notin DOMAIN fmap'
            \/ \E f \in 1 .. parsed' : module.functions[f].name = x
  <2> SUFFICES ASSUME NEW x \in DOMAIN mapper'
               PROVE  \/ x \in DOMAIN KnownConstants /\ mapper'[x] = KnownConstants[x]
                      \/ x \in {"argc", "string"} /\ mapper'[x] \notin DOMAIN fmap'
                      \/ \E f \in 1 .. parsed' : module.functions[f].name = x
    OBVIOUS
  <2>1. CASE x = name
    <3>1. parsed + 1 \in 1 .. parsed' /\ module.functions[parsed + 1].name = name
      BY <1>5, <1>6 DEF name
    <3> QED
      BY <2>1, <3>1
  <2>2. CASE x # name
    <3>1. x \in DOMAIN mapper /\ mapper'[x] = mapper[x]
      BY <1>9, <2>2
    <3>2. CASE \E f \in 1 .. parsed : module.functions[f].name = x
      BY <1>5, <3>2
    <3> QED
      BY <1>1, <1>8, <1>10, <3>1, <3>2
  <2> QED
    BY <2>1, <2>2
<1>14. ASSUME NEW f \in 1 .. parsed'
       PROVE  LET func == module.functions[f]
              IN  /\ func.entry \in DOMAIN copyMapping'
                  /\ func.name \in DOMAIN mapper' /\ mapper'[func.name] \in DOMAIN fmap'
                  /\ fmap'[mapper'[func.name]] = [param |-> func.param, cfg |-> copyMapping'[func.entry]]
  <2>1. CASE f = parsed + 1
    <3>1. module.functions[f].entry = b /\ module.functions[f].name = name
          /\ module.functions[f].param = Function.param
      BY <1>6, <2>1 DEF b, name
    <3> QED
      BY <1>9, <1>10, <1>11, <3>1
  <2>2. CASE f \in 1 .. parsed
    <3>1. /\ module.functions[f].entry \in DOMAIN copyMapping
          /\ Name(f) \in DOMAIN mapper /\ mapper[Name(f)] \in DOMAIN fmap
          /\ fmap[mapper[Name(f)]] = [param |-> module.functions[f].param,
                                     cfg |-> copyMapping[module.functions[f].entry]]
      BY <1>1, <2>2
    <3>2. copyMapping'[module.functions[f].entry] = copyMapping[module.functions[f].entry]
      BY <1>11, <1>12, <2>2, <3>1
    <3>3. mapper'[Name(f)] = mapper[Name(f)] /\ fmap'[mapper[Name(f)]] = fmap[mapper[Name(f)]]
      BY <1>9, <1>10, <3>1
    <3> QED
      BY <1>9, <1>10, <1>11, <3>1, <3>2, <3>3
  <2> QED
    BY <1>5, <2>1, <2>2
<1>15. ASSUME NEW v \in DOMAIN fmap'
       PROVE  \E f \in 1 .. parsed' : mapper'[module.functions[f].name] = v
  <2>1. CASE v = nextVal
    <3>1. parsed + 1 \in 1 .. parsed' /\ module.functions[parsed + 1].name = name
      BY <1>5, <1>6 DEF name
    <3> QED
      BY <1>9, <2>1, <3>1
  <2>2. CASE v # nextVal
    <3>1. PICK f \in 1 .. parsed : mapper[Name(f)] = v
      BY <1>1, <1>10, <2>2
    <3> QED
      BY <1>1, <1>5, <1>9, <3>1
  <2> QED
    BY <2>1, <2>2
<1>16. ASSUME NEW f \in 1 .. parsed', NEW g \in 1 .. parsed',
              mapper'[module.functions[f].name] = mapper'[module.functions[g].name]
       PROVE  f = g
  <2>1. \A k \in 1 .. parsed : mapper'[Name(k)] = mapper[Name(k)] /\ mapper[Name(k)] # nextVal
    BY <1>1, <1>8, <1>9
  <2>2. mapper'[Name(parsed + 1)] = nextVal
    BY <1>6, <1>9 DEF name
  <2> QED
    BY <1>1, <1>5, <1>16, <2>1, <2>2
<1>17. module' = module
  BY <1>3
<1> QED
  BY ONLY <1>13, <1>14, <1>15, <1>16, <1>17 DEF NamesInv

LEMMA OperandsKept ==
    ASSUME CfgInv, OperandsInv, module' = module, copyMapping' = copyMapping,
           DOMAIN mapper \cup ToSet(constantValuesToBeCreated)
              \subseteq DOMAIN mapper' \cup ToSet(constantValuesToBeCreated')
    PROVE  OperandsInv'
BY SameModule DEF OperandsInv, ToSet

LEMMA OperandsAdded ==
    ASSUME CfgInv, OperandsInv, NEW b \in Blocks, module' = module,
           DOMAIN copyMapping' = DOMAIN copyMapping \cup {b},
           DOMAIN mapper \subseteq DOMAIN mapper',
           constantValuesToBeCreated' = constantValuesToBeCreated \o ConstantsOf(b)
    PROVE  OperandsInv'
<1> DEFINE c == constantValuesToBeCreated
           d == ConstantsOf(b)
<1>1. c \in Seq(ConstantOperands) /\ d \in Seq(ConstantOperands)
  BY ConstantsFacts DEF CfgInv, ValueInv
<1> HIDE DEF d
<1>2. ToSet(c \o d) = ToSet(c) \cup ToSet(d)
  BY <1>1, ConcatSet
<1>3. ToSet(constantValuesToBeCreated') = ToSet(c) \cup ToSet(d)
  BY <1>2 DEF d
<1>4. ToSet(constantValuesToBeCreated)' = ToSet(constantValuesToBeCreated')
  BY DEF ToSet
<1>5. ASSUME NEW x \in DOMAIN copyMapping'
      PROVE  ToSet(ConstantsOf(x)) \subseteq DOMAIN mapper' \cup ToSet(constantValuesToBeCreated')
  <2>1. CASE x = b
    BY <1>3, <2>1 DEF d
  <2>2. CASE x \in DOMAIN copyMapping
    <3>1. ToSet(ConstantsOf(x)) \subseteq DOMAIN mapper \cup ToSet(c)
      BY <2>2 DEF OperandsInv
    <3> QED
      BY <1>3, <3>1
  <2> QED
    BY <2>1, <2>2
<1>6. \A x : ConstantsOf(x)' = ConstantsOf(x)
  BY SameModule
<1> QED
  BY <1>4, <1>5, <1>6 DEF OperandsInv, ToSet

LEMMA LinkingInit == Init => LinkingInv
<1> SUFFICES ASSUME Init PROVE LinkingInv
  OBVIOUS
<1>1. DOMAIN copyMapping = {} /\ DOMAIN mapper = {} /\ DOMAIN fmap = {} /\ entryPointCfg = NULL
      /\ 1 .. parsed = {}
  BY DEF Init
<1>2. LayoutInv /\ EntryInv /\ OperandsInv
  BY <1>1 DEF LayoutInv, EntryInv, OperandsInv
<1>3. NamesInv
  BY <1>1 DEF NamesInv
<1> QED
  BY <1>2, <1>3 DEF LinkingInv

\* The names and the rest that a step leaves alone.
LEMMA NamesSame ==
    ASSUME CfgInv, NamesInv, module' = module, UNCHANGED <<parsed, fmap, mapper>>,
           \A c \in DOMAIN copyMapping : c \in DOMAIN copyMapping' /\ copyMapping'[c] = copyMapping[c]
    PROVE  NamesInv'
BY NamesKept

LEMMA LinkingSame ==
    ASSUME CfgInv, LinkingInv,
           UNCHANGED <<module, graphVars, constantValuesToBeCreated, valueVars>>
    PROVE  LinkingInv'
<1>1. /\ module' = module /\ copyMapping' = copyMapping /\ nodes' = nodes /\ mapper' = mapper
      /\ parsed' = parsed /\ fmap' = fmap /\ entryPointCfg' = entryPointCfg
      /\ constantValuesToBeCreated' = constantValuesToBeCreated
  BY DEF graphVars, valueVars
<1>2. Grows(nodes, nodes')
  <2>1. Len(nodes) \in Nat
    BY LenProperties DEF CfgInv, GraphInv, NodesInv
  <2> QED
    BY <1>1, <2>1 DEF Grows
<1> QED
  BY <1>1, <1>2, LayoutKept, EntryKept, NamesSame, OperandsKept DEF LinkingInv

LEMMA LinkingParseFunction ==
    ASSUME CfgInv, LinkingInv, ParseFunction
    PROVE  LinkingInv'
<1> DEFINE b == Function.entry
           L == Len(module.functions)
<1>1. CASE CannotTranslate(b)
  BY <1>1, LinkingSame DEF ParseFunction, Throw
<1>2. CASE ~CannotTranslate(b)
  <2>1. /\ nodes' = nodes \o NodesOf(b)
        /\ copyMapping' = Map(b, FirstNode(b))
        /\ constantValuesToBeCreated' = constantValuesToBeCreated \o ConstantsOf(b)
        /\ mapper' = LinkToValueId(Function.name, nextVal)
        /\ module' = module /\ entryPointCfg' = entryPointCfg
    BY <1>2 DEF ParseFunction
  <2>2. module \in Modules /\ parsed \in 0 .. L /\ parsed < L
    BY DEF CfgInv, ParsedInv, ParseFunction
  <2>3. L \in Nat
    BY <2>2, ModuleFacts
  <2>4. parsed + 1 \in 1 .. L /\ \A f \in 1 .. parsed : f \in 1 .. L /\ f # parsed + 1
    BY ONLY <2>2, <2>3
  <2>5. b \in Blocks /\ b = module.functions[parsed + 1].entry
    BY <2>2, <2>4, ModuleFacts DEF Function
  <2>6. b \notin DOMAIN copyMapping
    <3>1. \A a \in Blocks : b \notin ToSet(Succ(a))
      BY <2>2, <2>4, <2>5, ModuleFacts
    <3>2. \A f \in 1 .. L : module.functions[f].entry = b => f = parsed + 1
      BY <2>2, <2>4, <2>5, ModuleFacts
    <3>3. b \in DOMAIN copyMapping => \E f \in 1 .. parsed : module.functions[f].entry = b
      BY <3>1 DEF CfgInv, ParsedInv
    <3> QED
      BY <2>4, <3>2, <3>3
  <2> HIDE DEF b
  <2>7. Grows(nodes \o NodesOf(b), nodes')
    <3>1. nodes' \in Seq(ToSet(nodes'))
      BY <2>1, <2>5, BlockGrows
    <3>2. Len(nodes') \in Nat
      BY <3>1, LenProperties
    <3> QED
      BY <2>1, <3>2 DEF Grows
  <2>8. LayoutInv' /\ Grows(nodes, nodes')
    BY <2>1, <2>5, <2>6, <2>7, LayoutAdded DEF LinkingInv
  <2>9. EntryInv'
    BY <2>1, <2>8, EntryKept DEF LinkingInv
  <2>10. NamesInv'
    BY <1>2, FunctionNamed DEF LinkingInv, b
  <2>11. OperandsInv'
    <3>1. DOMAIN copyMapping' = DOMAIN copyMapping \cup {b} /\ DOMAIN mapper \subseteq DOMAIN mapper'
      BY <2>1 DEF Map, LinkToValueId
    <3> QED
      BY <2>1, <2>5, <3>1, OperandsAdded DEF LinkingInv
  <2> QED
    BY <2>8, <2>9, <2>10, <2>11 DEF LinkingInv
<1> QED
  BY <1>1, <1>2

LEMMA LinkingPrependEntry ==
    ASSUME CfgInv, LinkingInv, PrependEntry
    PROVE  LinkingInv'
<1>1. CASE "main" \notin DOMAIN mapper
  BY <1>1, LinkingSame DEF PrependEntry, Throw
<1>2. CASE "main" \in DOMAIN mapper
  <2>1. /\ module' = module /\ copyMapping' = copyMapping /\ parsed' = parsed
        /\ constantValuesToBeCreated' = constantValuesToBeCreated /\ fmap' = fmap
        /\ mapper' = mapper \/ mapper' = LinkToValueId("argc", nextVal)
    BY <1>2 DEF PrependEntry
  <2>2. Grows(nodes, nodes') /\ EntryInv'
    BY <1>2, EntryAdded
  <2>3. LayoutInv'
    BY <2>1, <2>2, LayoutKept DEF LinkingInv
  <2>4. nextVal \notin DOMAIN fmap
    BY DEF CfgInv, ValueInv
  <2>5. NamesInv'
    BY <2>1, <2>4, NamesKept DEF LinkingInv
  <2>6. DOMAIN mapper \subseteq DOMAIN mapper'
    BY <2>1 DEF LinkToValueId
  <2>7. OperandsInv'
    BY <2>1, <2>6, OperandsKept DEF LinkingInv
  <2> QED
    BY <2>2, <2>3, <2>5, <2>7 DEF LinkingInv
<1> QED
  BY <1>1, <1>2

LEMMA LinkingLinkKnown ==
    ASSUME CfgInv, LinkingInv, LinkKnown
    PROVE  LinkingInv'
<1>1. /\ parseAndLinkTogether # <<>> /\ LinkPlan(nodes, Plan, copyMapping[Plan.block])
      /\ module' = module /\ copyMapping' = copyMapping /\ parsed' = parsed
      /\ entryPointCfg' = entryPointCfg /\ mapper' = mapper /\ fmap' = fmap
      /\ constantValuesToBeCreated' = constantValuesToBeCreated
  BY DEF LinkKnown, HasPlan, valueVars
<1>2. nodes \in Seq(ToSet(nodes)) /\ Len(nodes) \in Nat
  BY LenProperties DEF CfgInv, GraphInv, NodesInv
<1>3. Grows(nodes, nodes')
  BY <1>1, <1>2, PlanGrows
<1> QED
  BY <1>1, <1>3, LayoutKept, EntryKept, NamesSame, OperandsKept DEF LinkingInv

LEMMA LinkingParseAndLink ==
    ASSUME CfgInv, LinkingInv, ParseAndLink
    PROVE  LinkingInv'
<1> DEFINE b == Plan.block
           g == nodes \o NodesOf(b)
<1>1. CASE CannotTranslate(b)
  BY <1>1, LinkingSame DEF ParseAndLink, Throw
<1>2. CASE ~CannotTranslate(b)
  <2>1. /\ LinkPlan(g, Plan, FirstNode(b)) /\ copyMapping' = Map(b, FirstNode(b))
        /\ constantValuesToBeCreated' = constantValuesToBeCreated \o ConstantsOf(b)
        /\ module' = module /\ parsed' = parsed /\ entryPointCfg' = entryPointCfg
        /\ mapper' = mapper /\ fmap' = fmap
    BY <1>2 DEF ParseAndLink, valueVars
  <2>2. parseAndLinkTogether # <<>> /\ b \notin DOMAIN copyMapping
    BY DEF ParseAndLink, HasPlan, IsMapped
  <2>3. b \in Blocks
    <3> DEFINE q == parseAndLinkTogether
    <3>1. module \in Modules /\ GraphInv(nodes, copyMapping, q)
      BY DEF CfgInv
    <3>2. q \in Seq(ToSet(q)) /\ q # <<>>
      BY <2>2, <3>1 DEF GraphInv, QueueInv
    <3>3. Plan \in ToSet(q)
      <4> HIDE DEF q
      <4>1. Len(q) \in Nat /\ Len(q) # 0 /\ DOMAIN q = 1 .. Len(q) /\ Head(q) = q[1]
        BY <3>2, LenProperties, EmptySeq, HeadTailProperties
      <4>2. 1 \in DOMAIN q
        BY <4>1
      <4> QED
        BY <4>1, <4>2 DEF ToSet, Plan, q
    <3>4. \E c \in Blocks : \E i \in DOMAIN Succ(c) : \E n : Plan = PlanFor(c, n, i)
      BY <3>1, <3>3, PlanOwner
    <3>5. PICK c \in Blocks : \E i \in DOMAIN Succ(c) : b = Succ(c)[i]
      BY <3>4 DEF PlanFor
    <3> QED
      BY <3>1, <3>5, ModuleFacts
  <2> HIDE DEF b
  <2>4. /\ Len(nodes) \in Nat /\ g \in Seq(ToSet(g)) /\ Len(nodes) <= Len(g)
        /\ \A n \in 1 .. Len(nodes) : g[n] = nodes[n]
    BY <2>3, BlockGrows DEF Grows
  <2>5. Grows(g, nodes')
    <3> HIDE DEF g
    <3> QED
      BY <2>1, <2>2, <2>4, PlanGrows
  <2>6. LayoutInv' /\ Grows(nodes, nodes')
    BY <2>1, <2>2, <2>3, <2>5, LayoutAdded DEF LinkingInv
  <2>7. EntryInv'
    BY <2>1, <2>6, EntryKept DEF LinkingInv
  <2>8. /\ DOMAIN copyMapping' = DOMAIN copyMapping \cup {b}
        /\ \A c \in DOMAIN copyMapping : c \in DOMAIN copyMapping' /\ copyMapping'[c] = copyMapping[c]
    BY <2>1, <2>2 DEF Map
  <2>9. NamesInv'
    BY <2>1, <2>8, NamesSame DEF LinkingInv
  <2>10. OperandsInv'
    BY <2>1, <2>3, <2>8, OperandsAdded DEF LinkingInv
  <2> QED
    BY <2>6, <2>7, <2>9, <2>10 DEF LinkingInv
<1> QED
  BY <1>1, <1>2

LEMMA LinkingDealWithConstant ==
    ASSUME CfgInv, LinkingInv, DealWithConstant
    PROVE  LinkingInv'
<1> DEFINE left == constantValuesToBeCreated
           c == Head(left)
<1>1. \/ \E e : Throw(e)
      \/ /\ c # "global" /\ c # "undef" /\ c \notin module.declared
         /\ mapper' = LinkToValueId(c, ConstantId(c))
         /\ left' = Tail(left)
         /\ UNCHANGED <<module, graphVars, fmap, threw>>
  BY DEF DealWithConstant
<1>2. CASE \E e : Throw(e)
  BY <1>2, LinkingSame DEF Throw
<1>3. CASE /\ c # "global" /\ c # "undef" /\ c \notin module.declared
           /\ mapper' = LinkToValueId(c, ConstantId(c))
           /\ left' = Tail(left)
           /\ UNCHANGED <<module, graphVars, fmap, threw>>
  <2>1. /\ module' = module /\ nodes' = nodes /\ copyMapping' = copyMapping
        /\ parsed' = parsed /\ entryPointCfg' = entryPointCfg /\ fmap' = fmap
        /\ mapper' = LinkToValueId(c, ConstantId(c)) /\ left' = Tail(left)
    BY <1>3 DEF graphVars
  <2>2. /\ left \in Seq(ConstantOperands) /\ left # <<>> /\ entryPointCfg # NULL
        /\ DOMAIN fmap \subseteq 2 .. nextVal - 1 /\ nextVal \in Nat
        /\ \A f \in 1 .. parsed : module.functions[f].name \in DOMAIN mapper
        /\ module \in Modules /\ ParsedInv
    BY DEF CfgInv, ValueInv, DealWithConstant, Linked
  <2>3. /\ c \in ConstantOperands /\ ToSet(left) = {c} \cup ToSet(Tail(left))
    <3> HIDE DEF left
    <3> DEFINE k == Len(left)
    <3>1. /\ k \in Nat /\ k # 0 /\ DOMAIN left = 1 .. k /\ Head(left) = left[1]
          /\ Tail(left) \in Seq(ConstantOperands) /\ Len(Tail(left)) = k - 1
          /\ \A i \in 1 .. Len(Tail(left)) : Tail(left)[i] = left[i + 1]
      BY <2>2, EmptySeq, LenProperties, HeadTailProperties
    <3>2. DOMAIN Tail(left) = 1 .. k - 1
      BY <3>1, LenProperties
    <3> DEFINE t == Tail(left)
    <3>3. DOMAIN t = 1 .. k - 1 /\ \A i \in 1 .. k - 1 : t[i] = left[i + 1]
      BY <3>1, <3>2
    <3> HIDE DEF k, t
    <3>4. /\ 1 \in 1 .. k /\ \A i \in 1 .. k - 1 : i + 1 \in 1 .. k
          /\ \A j \in 1 .. k : j # 1 => j - 1 \in 1 .. k - 1 /\ (j - 1) + 1 = j
      BY <3>1
    <3>5. c \in ConstantOperands
      <4>1. left[1] \in ConstantOperands
        BY <2>2, <3>4, ElementOfSeq DEF k
      <4> QED
        BY <3>1, <4>1
    <3>6. \A x \in ToSet(left) : x \in {c} \cup ToSet(t)
      <4> SUFFICES ASSUME NEW j \in 1 .. k PROVE left[j] \in {c} \cup ToSet(t)
        BY <3>1 DEF ToSet
      <4>1. CASE j = 1
        BY <3>1, <4>1
      <4>2. CASE j # 1
        <5>1. t[j - 1] = left[j] /\ j - 1 \in DOMAIN t
          BY <3>3, <3>4, <4>2
        <5> QED
          BY <5>1 DEF ToSet
      <4> QED
        BY <4>1, <4>2
    <3>7. \A x \in {c} \cup ToSet(t) : x \in ToSet(left)
      BY <3>1, <3>3, <3>4 DEF ToSet
    <3> QED
      BY <3>5, <3>6, <3>7 DEF t
  <2> HIDE DEF c, left
  <2>4. \/ c \in DOMAIN KnownConstants /\ ConstantId(c) = KnownConstants[c]
        \/ c \in {"argc", "string"} /\ ConstantId(c) \notin DOMAIN fmap
        \/ c \in DOMAIN mapper /\ ConstantId(c) = mapper[c]
    <3>1. CASE c \in DOMAIN KnownConstants
      <4>1. c # "string"
        BY <3>1 DEF KnownConstants
      <4> QED
        BY <3>1, <4>1 DEF ConstantId
    <3>2. CASE c \notin DOMAIN KnownConstants /\ c = "string"
      <4>1. ConstantId(c) = nextVal
        BY <3>2 DEF ConstantId
      <4>2. nextVal \notin DOMAIN fmap
        BY <2>2
      <4> QED
        BY <3>2, <4>1, <4>2
    <3>3. CASE c \notin DOMAIN KnownConstants /\ c # "string"
      <4>1. ConstantId(c) = mapper[c]
        BY <3>3 DEF ConstantId
      <4>2. c \in {module.functions[f].name : f \in DOMAIN module.functions}
        BY <1>3, <2>3, <3>3 DEF ConstantOperands, FunctionNames
      <4>3. DOMAIN module.functions = 1 .. parsed
        BY <2>2, ModuleFacts DEF ParsedInv
      <4> QED
        BY <2>2, <4>1, <4>2, <4>3
    <3> QED
      BY <3>1, <3>2, <3>3
  <2>5. Grows(nodes, nodes')
    <3>1. Len(nodes) \in Nat
      BY LenProperties DEF CfgInv, GraphInv, NodesInv
    <3> QED
      BY <2>1, <3>1 DEF Grows
  <2>6. NamesInv'
    BY <2>1, <2>4, NamesKept DEF LinkingInv
  <2>7. OperandsInv'
    <3>1. DOMAIN mapper' = DOMAIN mapper \cup {c}
      BY <2>1 DEF LinkToValueId
    <3>2. ToSet(left) \subseteq {c} \cup ToSet(left')
      BY <2>1, <2>3
    <3> QED
      BY <2>1, <3>1, <3>2, OperandsKept DEF LinkingInv, left
  <2> QED
    BY <2>1, <2>5, <2>6, <2>7, LayoutKept, EntryKept DEF LinkingInv
<1> QED
  BY <1>1, <1>2, <1>3

LEMMA LinkingNext == CfgInv /\ LinkingInv /\ [Next]_vars => LinkingInv'
<1> SUFFICES ASSUME CfgInv, LinkingInv, [Next]_vars PROVE LinkingInv'
  OBVIOUS
<1>1. CASE UNCHANGED vars
  BY <1>1, LinkingSame DEF vars
<1> QED
  BY <1>1, LinkingParseFunction, LinkingPrependEntry, LinkingLinkKnown, LinkingParseAndLink,
     LinkingDealWithConstant DEF Next

\* The invariant of the frontend with what it hands over.
HandInv == CfgInv /\ LinkingInv

LEMMA HandInit == Init => HandInv
BY InitInv, LinkingInit DEF HandInv

LEMMA HandNext == HandInv /\ [Next]_vars => HandInv'
BY NextInv, LinkingNext DEF HandInv

\* What others do with the counter of ValueIds changes nothing here.
LEMMA HandKept ==
    ASSUME HandInv, nextVal' \in Nat, nextVal' >= nextVal,
           UNCHANGED <<module, graphVars, constantValuesToBeCreated, mapper, fmap, threw>>
    PROVE  HandInv' /\ (Done => Done')
<1>1. /\ module' = module /\ nodes' = nodes /\ copyMapping' = copyMapping
      /\ parseAndLinkTogether' = parseAndLinkTogether /\ parsed' = parsed
      /\ entryPointCfg' = entryPointCfg /\ mapper' = mapper /\ fmap' = fmap /\ threw' = threw
      /\ constantValuesToBeCreated' = constantValuesToBeCreated
  BY DEF graphVars
<1>2. /\ Blocks' = Blocks /\ \A b : Succ(b)' = Succ(b) /\ Count(b)' = Count(b)
      /\ \A b : ConstantsOf(b)' = ConstantsOf(b)
      /\ \A g, first, b, base : Layout(g, first, b, base)' <=> Layout(g, first, b, base)
      /\ \A g, e : EntryLayout(g, e)' <=> EntryLayout(g, e)
  BY <1>1, SameModule
<1>3. ConstantOperands' = ConstantOperands
  BY <1>1 DEF ConstantOperands, FunctionNames
<1>4. LinkingInv'
  BY <1>1, <1>2 DEF HandInv, LinkingInv, LayoutInv, EntryInv, NamesInv, OperandsInv, ToSet
<1>5. ParsedInv' <=> ParsedInv
  BY <1>1, <1>2 DEF ParsedInv, ToSet
<1>6. ValueInv'
  <2>1. ValueInv
    BY DEF HandInv, CfgInv
  <2>0. nextVal \in Nat /\ nextVal >= 2 /\ nextVal' \in Nat /\ nextVal' >= nextVal
    BY <2>1 DEF ValueInv
  <2>3. \A m, n \in Nat : n >= m => 0 .. m - 1 \subseteq 0 .. n - 1 /\ 2 .. m - 1 \subseteq 2 .. n - 1
    OBVIOUS
  <2>2. 0 .. nextVal - 1 \subseteq 0 .. nextVal' - 1 /\ 2 .. nextVal - 1 \subseteq 2 .. nextVal' - 1
    BY <2>0, <2>3
  <2>4. nextVal' >= 2
    BY ONLY <2>0
  <2> QED
    BY <1>1, <1>3, <2>0, <2>1, <2>2, <2>4 DEF ValueInv
<1>7. GraphInv(nodes, copyMapping, parseAndLinkTogether)'
  <2>1. GraphInv(nodes, copyMapping, parseAndLinkTogether)
    BY DEF HandInv, CfgInv
  <2>2. \A g, f : NodesInv(g, f)' <=> NodesInv(g, f)
    <3>1. Blocks' = Blocks
      BY <1>2
    <3>2. \A b : Count(b)' = Count(b)
      BY <1>2
    <3> SUFFICES ASSUME NEW g, NEW f PROVE NodesInv(g, f)' <=> NodesInv(g, f)
      OBVIOUS
    <3> DEFINE OfBlock(n) == \E b \in DOMAIN f : \E i \in 1 .. Count(b) : g[n].instr = <<b, i>>
               Shape(n) == /\ g[n] = [instr |-> g[n].instr, next |-> g[n].next,
                                      nextFalse |-> g[n].nextFalse]
                           /\ g[n].next \in 0 .. Len(g) /\ g[n].nextFalse \in 0 .. Len(g)
                           /\ g[n].next = NULL <=> g[n] = TerminalNode
               Listed(n) == g[n].instr = <<>> \/ \E i \in 1 .. 2 : g[n].instr = <<0, i>>
               Rest == /\ g \in Seq(ToSet(g))
                       /\ \A m, n \in 1 .. Len(g) :
                             g[m].instr = g[n].instr /\ g[m].instr # <<>> => m = n
                       /\ \A b \in DOMAIN f : f[b] \in 1 .. Len(g)
    <3>3. \A n : OfBlock(n)' <=> OfBlock(n)
      BY <3>2
    <3>4. NodesInv(g, f) <=> /\ Rest /\ DOMAIN f \subseteq Blocks
                             /\ \A n \in 1 .. Len(g) : Shape(n) /\ (Listed(n) \/ OfBlock(n))
      BY Zenon DEF NodesInv
    <3>5. NodesInv(g, f)' <=> /\ Rest /\ DOMAIN f \subseteq Blocks'
                              /\ \A n \in 1 .. Len(g) : Shape(n) /\ (Listed(n) \/ OfBlock(n)')
      BY Zenon DEF NodesInv
    <3> HIDE DEF OfBlock, Shape, Listed, Rest
    <3> QED
      BY <3>1, <3>3, <3>4, <3>5
  <2>3. \A b, n, i : PlanFor(b, n, i)' = PlanFor(b, n, i)
    BY <1>2 DEF PlanFor
  <2>4. \A g, f, q : QueueInv(g, f, q)' <=> QueueInv(g, f, q)
    BY <1>2, <2>3, Zenon DEF QueueInv
  <2>5. \A g, f, q, b, n, i : SideInv(g, f, q, b, n, i)' <=> SideInv(g, f, q, b, n, i)
    BY <1>2, <2>3 DEF SideInv, OwnTerminal, Side
  <2>6. \A g, f, q, b, base : BlockInv(g, f, q, b, base)' <=> BlockInv(g, f, q, b, base)
    BY <1>2, <2>5 DEF BlockInv, TerminalNode
  <2>7. \A g, f, q : GraphInv(g, f, q)' <=> GraphInv(g, f, q)
    BY <2>2, <2>4, <2>6, Zenon DEF GraphInv
  <2> QED
    BY <1>1, <2>1, <2>7
<1>8. CfgInv'
  BY <1>1, <1>5, <1>6, <1>7 DEF HandInv, CfgInv
<1>9. Done => Done'
  BY <1>1 DEF Done, Linked, Parses
<1> QED
  BY <1>4, <1>8, <1>9 DEF HandInv

\* Node n is the terminal node of block b.
Ends(b, n) ==
    /\ n \in 1 .. Len(nodes) /\ nodes[n].instr = <<>>
    /\ nodes[n - 1].next = copyMapping[b]

\* Where block b starts when everything is linked.
BlockStarts(b) ==
    IF Count(b) = 0 THEN Ends(b, copyMapping[b])
    ELSE copyMapping[b] \in 1 .. Len(nodes) /\ nodes[copyMapping[b]].instr = <<b, 1>>

\* Where the node n of the i-th instruction of block b leads to.
NodeLeads(b, i, n) ==
    /\ i < Count(b) =>
          nodes[n].next \in 1 .. Len(nodes) /\ nodes[nodes[n].next].instr = <<b, i + 1>>
    /\ i = Count(b) /\ Succ(b) = <<>> => Ends(b, nodes[n].next)
    /\ i = Count(b) => \A k \in DOMAIN Succ(b) :
          Succ(b)[k] \in DOMAIN copyMapping /\ LinkOf(n, k) = copyMapping[Succ(b)[k]]

LEMMA BlockStartsAt ==
    ASSUME HandInv, NEW b \in DOMAIN copyMapping
    PROVE  BlockStarts(b)
<1>1. PICK base \in Nat : Layout(nodes, copyMapping[b], b, base)
  BY DEF HandInv, LinkingInv, LayoutInv
<1>2. /\ base \in 2 .. Len(nodes) /\ nodes[base] = TerminalNode
      /\ nodes[base - 1] = StartNode(copyMapping[b])
      /\ copyMapping[b] = IF Count(b) = 0 THEN base ELSE base + 1
      /\ Count(b) # 0 => base + 1 \in 1 .. Len(nodes) /\ nodes[base + 1].instr = <<b, 1>>
  BY <1>1 DEF Layout
<1>3. base \in 1 .. Len(nodes)
  BY ONLY <1>2, base \in Nat
<1>4. nodes[base].instr = <<>> /\ nodes[base - 1].next = copyMapping[b]
  BY <1>2 DEF TerminalNode, StartNode
<1> QED
  BY <1>2, <1>3, <1>4 DEF BlockStarts, Ends

LEMMA NodeLeadsTo ==
    ASSUME HandInv, parseAndLinkTogether = <<>>, NEW b \in DOMAIN copyMapping,
           NEW i \in 1 .. Count(b), NEW n \in 1 .. Len(nodes), nodes[n].instr = <<b, i>>
    PROVE  NodeLeads(b, i, n)
<1> DEFINE q == parseAndLinkTogether
<1>1. /\ module \in Modules /\ NodesInv(nodes, copyMapping)
      /\ \A c \in DOMAIN copyMapping : \E base \in Nat : BlockInv(nodes, copyMapping, q, c, base)
  BY DEF HandInv, CfgInv, GraphInv
<1>2. Len(nodes) \in Nat /\ b \in Blocks /\ Count(b) \in Nat /\ Count(b) # 0
  <2>1. Len(nodes) \in Nat /\ b \in Blocks
    BY <1>1, LenProperties DEF NodesInv
  <2>2. Count(b) \in Nat
    BY <1>1, <2>1, ModuleFacts
  <2> QED
    BY ONLY <2>1, <2>2, i \in 1 .. Count(b)
<1>3. PICK base \in Nat : BlockInv(nodes, copyMapping, q, b, base)
  BY <1>1
<1>4. n = base + i
  BY <1>1, <1>3, NodeOfBlock
<1>5. /\ base + Count(b) <= Len(nodes)
      /\ \A k \in 1 .. Count(b) : nodes[base + k].instr = <<b, k>>
      /\ \A k \in 1 .. Count(b) - 1 : nodes[base + k].next = base + k + 1
      /\ copyMapping[b] = base + 1
      /\ \A k \in DOMAIN Succ(b) : SideInv(nodes, copyMapping, q, b, base + Count(b), k)
  BY <1>2, <1>3 DEF BlockInv
<1>6. ASSUME i < Count(b)
      PROVE  nodes[n].next \in 1 .. Len(nodes) /\ nodes[nodes[n].next].instr = <<b, i + 1>>
  <2>1. /\ i \in 1 .. Count(b) - 1 /\ i + 1 \in 1 .. Count(b)
        /\ base + i + 1 = base + (i + 1) /\ base + (i + 1) \in 1 .. Len(nodes)
    BY ONLY <1>2, <1>5, <1>6, i \in 1 .. Count(b), base \in Nat
  <2>2. nodes[n].next = base + (i + 1) /\ nodes[base + (i + 1)].instr = <<b, i + 1>>
    BY <1>4, <1>5, <2>1
  <2> QED
    BY <2>1, <2>2
<1>7. ASSUME i = Count(b), Succ(b) = <<>>
      PROVE  Ends(b, nodes[n].next)
  <2>1. PICK lay \in Nat : Layout(nodes, copyMapping[b], b, lay)
    BY DEF HandInv, LinkingInv, LayoutInv
  <2>2. /\ lay \in 2 .. Len(nodes) /\ nodes[lay] = TerminalNode
        /\ nodes[lay - 1] = StartNode(copyMapping[b])
        /\ copyMapping[b] = lay + 1
        /\ nodes[lay + Count(b)].next = lay
    BY <1>2, <1>7, <2>1 DEF Layout
  <2>3. lay = base /\ lay \in 1 .. Len(nodes)
    BY ONLY <1>5, <2>2, base \in Nat, lay \in Nat
  <2>4. nodes[n].next = lay
    BY <1>4, <1>7, <2>2, <2>3
  <2>5. nodes[lay].instr = <<>> /\ nodes[lay - 1].next = copyMapping[b]
    BY <2>2 DEF TerminalNode, StartNode
  <2> QED
    BY <2>3, <2>4, <2>5 DEF Ends
<1>8. ASSUME i = Count(b), NEW k \in DOMAIN Succ(b)
      PROVE  Succ(b)[k] \in DOMAIN copyMapping /\ LinkOf(n, k) = copyMapping[Succ(b)[k]]
  <2>1. ToSet(q) = {}
    BY DEF ToSet
  <2>2. SideInv(nodes, copyMapping, q, b, n, k)
    BY <1>4, <1>5, <1>8
  <2> QED
    BY <2>1, <2>2 DEF SideInv, Side, LinkOf
<1> QED
  BY <1>6, <1>7, <1>8 DEF NodeLeads

\* Whose nodes there are.
LEMMA NodeOwners ==
    ASSUME HandInv, entryPointCfg # NULL, NEW n \in 1 .. Len(nodes), nodes[n].instr # <<>>
    PROVE  \/ n = entryPointCfg \/ n = entryPointCfg + 1
           \/ \E b \in DOMAIN copyMapping : \E i \in 1 .. Count(b) : nodes[n].instr = <<b, i>>
<1> DEFINE e == entryPointCfg
<1>1. NodesInv(nodes, copyMapping)
  BY DEF HandInv, CfgInv, GraphInv
<1>2. /\ \/ \E i \in 1 .. 2 : nodes[n].instr = <<0, i>>
         \/ \E b \in DOMAIN copyMapping : \E i \in 1 .. Count(b) : nodes[n].instr = <<b, i>>
      /\ \A m \in 1 .. Len(nodes) : nodes[m].instr = nodes[n].instr => m = n
  BY <1>1 DEF NodesInv
<1>3. /\ e \in 1 .. Len(nodes) /\ e + 1 \in 1 .. Len(nodes)
      /\ nodes[e].instr = <<0, 1>> /\ nodes[e + 1].instr = <<0, 2>>
  <2>1. EntryLayout(nodes, e)
    BY DEF HandInv, LinkingInv, EntryInv
  <2>2. Len(nodes) \in Nat
    BY <1>1, LenProperties DEF NodesInv
  <2>3. e \in 3 .. Len(nodes) /\ e + 1 \in 3 .. Len(nodes)
    BY <2>1 DEF EntryLayout
  <2> HIDE DEF e
  <2>4. e \in 1 .. Len(nodes) /\ e + 1 \in 1 .. Len(nodes)
    BY ONLY <2>2, <2>3
  <2> QED
    BY <2>1, <2>4 DEF EntryLayout
<1> HIDE DEF e
<1>4. ASSUME NEW i \in 1 .. 2, nodes[n].instr = <<0, i>>
      PROVE  n = e \/ n = e + 1
  <2>1. i = 1 \/ i = 2
    OBVIOUS
  <2> QED
    BY <1>2, <1>3, <1>4, <2>1
<1> QED
  BY <1>2, <1>4 DEF e

-----------------------------------------------------------------------------
\* The inductive invariant is one.
THEOREM CfgInvariant == Spec => []CfgInv
BY InitInv, NextInv, PTL DEF Spec

\* Whatever the module, following the links of the nodes never meets a null
\* pointer, and what is planned, mapped or an operand refers to what there is.
THEOREM CfgTypeCorrect == Spec => []TypeOK
BY CfgInvariant, InvImpliesTypeOK, PTL

\* Whatever branches lead to a block, its instructions have one node each if it
\* was parsed and none if not, in their order (SetMappedCfgNode).
THEOREM ParsedOnceCorrect == Spec => []ParsedOnce
BY CfgInvariant, InvImpliesParsedOnce, PTL

\* Each side of each branch is linked to its block, or waits once, on a terminal
\* node of its own, and the linking of it never fails (LinkTogetherTrue,
\* LinkTogetherFalse).
THEOREM NoBranchLostCorrect == Spec => []NoBranchLost
BY CfgInvariant, InvImpliesNoBranchLost, PTL
=============================================================================
